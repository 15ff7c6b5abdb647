------------------------- MODULE ProviderRouting_proofs -------------------------
(***************************************************************************)
(* Proofs about ProviderRouting, for any providers and requests.            *)
(***************************************************************************)
EXTENDS ProviderRouting, TLAPS, FiniteSetTheorems

(* Whoever is about to be pinged is listed, or was dropped under the loop.  *)
Pings ==
    /\ listed \subseteq registered
    /\ UnlistedWerePinged
    /\ InPing \ {None} \subseteq listed \cup raced

(* A request that routes has seen its candidates healthy, and every object  *)
(* of its view that it would find healthy.                                  *)
SeenBy(r) ==
    /\ pc[r] = "idle" => cands[r] = {}
    /\ pc[r] \in Routing =>
          /\ cands[r] \subseteq sawHealthy[r]
          /\ \A p \in Providers :
                /\ view[r][p] = "live" => p \in registered
                /\ view[r][p] # "out" /\ StatusInView(r, p) = "healthy" => p \in sawHealthy[r]
    /\ pc[r] = "stale" => at[r] \in sawHealthy[r]

Seen == \A r \in Requests : SeenBy(r)

LEMMA TypeInit == Init => TypeOK
<1> SUFFICES ASSUME Init PROVE TypeOK
  OBVIOUS
<1>1. /\ status \in [Providers -> Status]
      /\ oks \in [Providers -> 0 .. RecoverAfter]
  BY RoutingAssumption DEF Init, Status
<1>2. /\ refreshes \in 0 .. MaxRefreshes
      /\ pc \in [Requests -> Steps]
      /\ view \in [Requests -> [Providers -> Status \cup {"out", "live"}]]
  BY RoutingAssumption DEF Init, Routing, Steps
<1>3. /\ failures \in [Providers -> Nat]
      /\ success \in [Providers -> Nat]
      /\ total \in [Providers -> Nat]
  BY DEF Init
<1> QED
  BY <1>1, <1>2, <1>3 DEF Init, TypeOK

LEMMA TypeStep == TypeOK /\ [Next]_vars => TypeOK'
<1> SUFFICES ASSUME TypeOK, [Next]_vars PROVE TypeOK'
  OBVIOUS
<1> USE RoutingAssumption DEF TypeOK, Status, Routing, Steps, registryVars, coreVars, loopVars, requestVars, trackerVars
<1>1. ASSUME NEW ids \in SUBSET Providers, NEW reported \in [ids -> Status], Refresh(ids, reported) PROVE TypeOK'
  <2>1. /\ status' \in [Providers -> Status]
        /\ oks' \in [Providers -> 0 .. RecoverAfter]
    BY <1>1 DEF Refresh
  <2>2. view' \in [Requests -> [Providers -> Status \cup {"out", "live"}]]
    BY <1>1 DEF Refresh
  <2>3. sawHealthy' \in [Requests -> SUBSET Providers]
    BY <1>1, <2>2 DEF Refresh, See, Open
  <2> QED
    BY <1>1, <2>1, <2>2, <2>3 DEF Refresh, Kept
<1>2. ASSUME NEW p \in Providers, PingProvider(p) PROVE TypeOK'
  BY <1>2 DEF PingProvider
<1>3. ASSUME NEW r \in Requests, NEW p \in Providers, ReadStatus(r, p) PROVE TypeOK'
  <2>1. view' \in [Requests -> [Providers -> Status \cup {"out", "live"}]]
    BY <1>3 DEF ReadStatus
  <2>2. at' \in [Requests -> Providers \cup {None}] /\ pc' \in [Requests -> Steps]
    <3>1. CASE StatusInView(r, p) = "healthy"
      <4>1. at' = [at EXCEPT ![r] = p] /\ pc' = [pc EXCEPT ![r] = "stale"]
        BY <1>3, <3>1 DEF ReadStatus, Goto
      <4> QED
        BY <4>1
    <3>2. CASE StatusInView(r, p) # "healthy"
      BY <1>3, <3>2 DEF ReadStatus
    <3> QED
      BY <3>1, <3>2
  <2>3. sawHealthy' \in [Requests -> SUBSET Providers]
    BY <1>3, <2>1, <2>2 DEF ReadStatus, See, Open
  <2> QED
    BY <1>3, <2>1, <2>2, <2>3 DEF ReadStatus
<1>4. ASSUME NEW r \in Requests, NEW p \in Providers, Try(r, p) PROVE TypeOK'
  BY <1>4 DEF Try, Goto
<1>5. ASSUME NEW r \in Requests, TakeView(r) PROVE TypeOK'
  BY <1>5 DEF TakeView, Goto, See
<1>6. ASSUME NEW r \in Requests, CheckStale(r) PROVE TypeOK'
  BY <1>6 DEF CheckStale, Goto, See
<1>7. ASSUME NEW r \in Requests, EndRoute(r) PROVE TypeOK'
  BY <1>7 DEF EndRoute, Goto, See
<1>8. ASSUME NEW r \in Requests, RecordSuccess(r) PROVE TypeOK'
  <2>1. at[r] \in Providers \cup {None}
    OBVIOUS
  <2>2. /\ success' = [success EXCEPT ![at[r]] = success[at[r]] + 1]
        /\ total' = [total EXCEPT ![at[r]] = total[at[r]] + 1]
    BY <1>8 DEF RecordSuccess
  <2>3. failures' \in [Providers -> Nat]
    BY <1>8, <2>1 DEF RecordSuccess
  <2>4. pc' \in [Requests -> Steps]
    BY <1>8 DEF RecordSuccess, Goto
  <2>5. success' \in [Providers -> Nat] /\ total' \in [Providers -> Nat]
    <3>1. CASE at[r] \in Providers
      BY <2>2, <3>1
    <3>2. CASE at[r] \notin Providers
      <4>1. success' = success /\ total' = total
        BY <2>2, <3>2
      <4> QED
        BY <4>1
    <3> QED
      BY <3>1, <3>2
  <2> QED
    BY <1>8, <2>5, <2>3, <2>4 DEF RecordSuccess
<1>9. ASSUME NEW r \in Requests, RecordFailure(r) PROVE TypeOK'
  <2>1. at[r] \in Providers \cup {None}
    OBVIOUS
  <2>2. total' \in [Providers -> Nat] /\ failures' \in [Providers -> Nat]
    BY <1>9, <2>1 DEF RecordFailure, Counts
  <2>3. pc' \in [Requests -> Steps]
    BY <1>9 DEF RecordFailure, Goto
  <2> QED
    BY <1>9, <2>2, <2>3 DEF RecordFailure
<1>10. CASE CoreChanges
  BY <1>10 DEF CoreChanges
<1>11. CASE PingAll
  BY <1>11 DEF PingAll
<1>12. CASE WritePing
  <2>1. CASE pingOk
    <3>1. UpdateHeartbeat(pinged) /\ pinged \in Providers
      BY <1>12, <2>1 DEF WritePing
    <3>2. Oks(pinged) \in 0 .. RecoverAfter
      BY <3>1 DEF Oks
    <3>3. registered' \subseteq Providers /\ oks' \in [Providers -> 0 .. RecoverAfter]
      BY <3>1, <3>2 DEF UpdateHeartbeat
    <3>4. status' \in [Providers -> Status]
      BY <3>1 DEF UpdateHeartbeat
    <3>5. sawHealthy' \in [Requests -> SUBSET Providers]
      BY <1>12 DEF WritePing, See, Open
    <3> QED
      BY <1>12, <3>3, <3>4, <3>5 DEF WritePing
  <2>2. CASE ~ pingOk
    <3>1. UpdateFailure(pinged) /\ pinged \in Providers
      BY <1>12, <2>2 DEF WritePing
    <3>2. registered' \subseteq Providers /\ oks' \in [Providers -> 0 .. RecoverAfter]
      BY <3>1 DEF UpdateFailure
    <3>3. status' \in [Providers -> Status]
      BY <3>1 DEF UpdateFailure, Worse
    <3>4. sawHealthy' \in [Requests -> SUBSET Providers]
      BY <1>12 DEF WritePing, See, Open
    <3> QED
      BY <1>12, <3>2, <3>3, <3>4 DEF WritePing
  <2> QED
    BY <2>1, <2>2
<1>13. CASE UNCHANGED vars
  BY <1>13 DEF vars
<1> QED
  BY <1>1, <1>2, <1>3, <1>4, <1>5, <1>6, <1>7, <1>8, <1>9, <1>10, <1>11, <1>12, <1>13 DEF Next, Beat, Request

(* Every variable of the specification keeps its type (all the code).       *)
THEOREM RoutingTypeCorrect == Spec => []TypeOK
<1> QED
  BY TypeInit, TypeStep, PTL DEF Spec

LEMMA PingsStep == TypeOK /\ Pings /\ [Next]_vars => Pings'
<1> SUFFICES ASSUME TypeOK, Pings, [Next]_vars PROVE Pings'
  OBVIOUS
<1> USE RoutingAssumption DEF TypeOK, Pings, UnlistedWerePinged, InPing, registryVars, coreVars, loopVars, requestVars, trackerVars
<1>1. ASSUME NEW ids \in SUBSET Providers, NEW reported \in [ids -> Status], Refresh(ids, reported) PROVE Pings'
  BY <1>1 DEF Refresh, Kept, See
<1>2. ASSUME NEW p \in Providers, PingProvider(p) PROVE Pings'
  BY <1>2 DEF PingProvider
<1>3. ASSUME NEW r \in Requests, NEW p \in Providers, ReadStatus(r, p) PROVE Pings'
  BY <1>3 DEF ReadStatus, Goto, See, StatusInView
<1>4. ASSUME NEW r \in Requests, NEW p \in Providers, Try(r, p) PROVE Pings'
  BY <1>4 DEF Try, Goto
<1>5. ASSUME NEW r \in Requests, TakeView(r) PROVE Pings'
  BY <1>5 DEF TakeView, Goto, See
<1>6. ASSUME NEW r \in Requests, CheckStale(r) PROVE Pings'
  BY <1>6 DEF CheckStale, Goto, See
<1>7. ASSUME NEW r \in Requests, EndRoute(r) PROVE Pings'
  BY <1>7 DEF EndRoute, Goto, See
<1>8. ASSUME NEW r \in Requests, RecordSuccess(r) PROVE Pings'
  BY <1>8 DEF RecordSuccess, Goto
<1>9. ASSUME NEW r \in Requests, RecordFailure(r) PROVE Pings'
  BY <1>9 DEF RecordFailure, Goto, Counts
<1>10. CASE CoreChanges
  BY <1>10 DEF CoreChanges
<1>11. CASE PingAll
  BY <1>11 DEF PingAll
<1>12. CASE WritePing
  BY <1>12 DEF WritePing, UpdateHeartbeat, UpdateFailure, Oks, Worse, See
<1>13. CASE UNCHANGED vars
  BY <1>13 DEF vars
<1> QED
  BY <1>1, <1>2, <1>3, <1>4, <1>5, <1>6, <1>7, <1>8, <1>9, <1>10, <1>11, <1>12, <1>13 DEF Next, Beat, Request

(* Who comes back to the registry after Refresh dropped it was being pinged *)
(* at the time (UpdateHeartbeat, UpdateFailure).                            *)
THEOREM Unlisted == Spec => []UnlistedWerePinged
<1>1. Init => Pings
  BY DEF Init, Pings, UnlistedWerePinged, InPing
<1>2. Pings => UnlistedWerePinged
  BY DEF Pings
<1> QED
  BY <1>1, <1>2, PingsStep, RoutingTypeCorrect, PTL DEF Spec

LEMMA SeenStep == TypeOK /\ Seen /\ [Next]_vars => Seen'
<1> SUFFICES ASSUME TypeOK, Seen, [Next]_vars PROVE Seen'
  OBVIOUS
<1> USE RoutingAssumption DEF TypeOK, Status, Routing, Steps, registryVars, coreVars, loopVars, requestVars, trackerVars
<1>1. ASSUME NEW ids \in SUBSET Providers, NEW reported \in [ids -> Status], Refresh(ids, reported) PROVE Seen'
  <2> SUFFICES ASSUME NEW q \in Requests PROVE SeenBy(q)'
    BY DEF Seen
  <2>1. pc'[q] = pc[q] /\ cands'[q] = cands[q] /\ at'[q] = at[q] /\ SeenBy(q)
    BY <1>1 DEF Refresh, Seen
  <2>2. \A p \in Providers :
           view'[q][p] = IF view[q][p] = "live" /\ p \notin ids THEN status[p] ELSE view[q][p]
    BY <1>1 DEF Refresh
  <2>3. sawHealthy'[q] = Open(q)' \cap (sawHealthy[q] \cup {p \in registered' : status'[p] = "healthy"})
    BY <1>1 DEF Refresh, See
  <2>4. Open(q)' = Open(q)
    <3>1. \A p \in Providers : view'[q][p] = "out" <=> view[q][p] = "out"
      BY <2>2
    <3> QED
      BY <2>1, <3>1 DEF Open
  <2>5. pc[q] = "stale" => at[q] \in Open(q)
    BY <2>1 DEF Open, SeenBy
  <2>6. pc[q] \in Routing => cands[q] \subseteq Open(q)
    BY DEF Open
  <2>7. \A p \in Providers : pc[q] \in Routing /\ view'[q][p] = "live" => p \in registered'
    BY <1>1, <2>2 DEF Refresh, Kept
  <2>8. ASSUME NEW p \in Providers, pc[q] \in Routing, view'[q][p] # "out", StatusInView(q, p)' = "healthy"
        PROVE p \in sawHealthy'[q]
    <3>1. p \in Open(q)'
      BY <2>1, <2>8 DEF Open
    <3>2. CASE view'[q][p] = "live"
      BY <2>3, <2>7, <2>8, <3>1, <3>2 DEF StatusInView
    <3>3. CASE view'[q][p] # "live"
      BY <2>1, <2>2, <2>3, <2>8, <3>1, <3>3 DEF StatusInView, SeenBy
    <3> QED
      BY <3>2, <3>3
  <2> QED
    BY <2>1, <2>3, <2>4, <2>5, <2>6, <2>7, <2>8 DEF SeenBy
<1>2. ASSUME NEW p \in Providers, PingProvider(p) PROVE Seen'
  BY <1>2 DEF PingProvider, Seen, SeenBy, Open, StatusInView
<1>3. ASSUME NEW r \in Requests, NEW p \in Providers, ReadStatus(r, p) PROVE Seen'
  BY <1>3 DEF ReadStatus, Goto, See, Seen, SeenBy, Open, StatusInView
<1>4. ASSUME NEW r \in Requests, NEW p \in Providers, Try(r, p) PROVE Seen'
  BY <1>4 DEF Try, Goto, Seen, SeenBy, Open, StatusInView
<1>5. ASSUME NEW r \in Requests, TakeView(r) PROVE Seen'
  BY <1>5 DEF TakeView, Goto, See, Seen, SeenBy, Open, StatusInView
<1>6. ASSUME NEW r \in Requests, CheckStale(r) PROVE Seen'
  BY <1>6 DEF CheckStale, Goto, See, Seen, SeenBy, Open, StatusInView
<1>7. ASSUME NEW r \in Requests, EndRoute(r) PROVE Seen'
  BY <1>7 DEF EndRoute, Goto, See, Seen, SeenBy, Open, StatusInView
<1>8. ASSUME NEW r \in Requests, RecordSuccess(r) PROVE Seen'
  BY <1>8 DEF RecordSuccess, Goto, Seen, SeenBy, Open, StatusInView
<1>9. ASSUME NEW r \in Requests, RecordFailure(r) PROVE Seen'
  BY <1>9 DEF RecordFailure, Goto, Counts, Seen, SeenBy, Open, StatusInView
<1>10. CASE CoreChanges
  BY <1>10 DEF CoreChanges, Seen, SeenBy, Open, StatusInView
<1>11. CASE PingAll
  BY <1>11 DEF PingAll, Seen, SeenBy, Open, StatusInView
<1>12. CASE WritePing
  BY <1>12 DEF WritePing, UpdateHeartbeat, UpdateFailure, Oks, Worse, See, Seen, SeenBy, Open, StatusInView
<1>13. CASE UNCHANGED vars
  BY <1>13 DEF vars, Seen, SeenBy, Open, StatusInView
<1> QED
  BY <1>1, <1>2, <1>3, <1>4, <1>5, <1>6, <1>7, <1>8, <1>9, <1>10, <1>11, <1>12, <1>13 DEF Next, Beat, Request

(* Nobody is a candidate who was down all the while a request routed        *)
(* (RouteAll).                                                              *)
THEOREM Candidates == Spec => []CandidatesWereUp
<1>1. Init => Seen
  BY DEF Init, Seen, SeenBy, Routing
<1>2. Seen => CandidatesWereUp
  BY DEF Seen, SeenBy, CandidatesWereUp
<1> QED
  BY <1>1, <1>2, SeenStep, RoutingTypeCorrect, PTL DEF Spec
-----------------------------------------------------------------------------
(* A request that still routes has tried nobody; one that has heard of an   *)
(* attempt tried the provider it is at.                                     *)
Trying ==
    \A r \in Requests :
        /\ pc[r] \in Routing \cup {"idle", "noProvider"} => tried[r] = {}
        /\ pc[r] \in {"succeeded", "failed", "answered"} => at[r] \in tried[r]

LEMMA TryingStep == TypeOK /\ Trying /\ [Next]_vars => Trying'
<1> SUFFICES ASSUME TypeOK, Trying, [Next]_vars PROVE Trying'
  OBVIOUS
<1> USE DEF TypeOK, Trying, Routing
<1>1. ASSUME NEW ids \in SUBSET Providers, NEW reported \in [ids -> Status], Refresh(ids, reported)
      PROVE  Trying'
  BY <1>1 DEF Refresh, requestVars
<1>2. CASE CoreChanges
  BY <1>2 DEF CoreChanges, requestVars
<1>3. CASE Beat
  BY <1>3 DEF Beat, PingAll, PingProvider, WritePing, requestVars
<1>4. ASSUME NEW r \in Requests, Request(r) PROVE Trying'
  <2>1. CASE TakeView(r)
    BY <2>1 DEF TakeView, Goto
  <2>2. CASE \E p \in Providers : ReadStatus(r, p)
    BY <2>2 DEF ReadStatus, Goto
  <2>3. CASE CheckStale(r)
    BY <2>3 DEF CheckStale, Goto
  <2>4. CASE EndRoute(r)
    BY <2>4 DEF EndRoute, Goto
  <2>5. CASE \E p \in Providers : Try(r, p)
    BY <2>5 DEF Try, Goto
  <2>6. CASE RecordSuccess(r)
    BY <2>6 DEF RecordSuccess, Goto
  <2>7. CASE RecordFailure(r)
    BY <2>7 DEF RecordFailure, Goto
  <2> QED
    BY <1>4, <2>1, <2>2, <2>3, <2>4, <2>5, <2>6, <2>7 DEF Request
<1>5. CASE UNCHANGED vars
  BY <1>5 DEF vars, requestVars
<1> QED
  BY <1>1, <1>2, <1>3, <1>4, <1>5 DEF Next

(* The requests whose attempt at p is in the tracker, and those of them     *)
(* that it answered.                                                        *)
Known(p) == {r \in Requests : Recorded(r, p)}
Answered(p) == {r \in Requests : pc[r] = "answered" /\ at[r] = p}

Tally(p) ==
    /\ total[p] = Cardinality(Known(p))
    /\ success[p] = Cardinality(Answered(p))
    /\ failures[p] <= total[p] - success[p]

LEMMA KnownFinite ==
    ASSUME Trying, NEW p \in Providers
    PROVE  /\ IsFiniteSet(Known(p)) /\ Cardinality(Known(p)) \in Nat
           /\ IsFiniteSet(Answered(p)) /\ Cardinality(Answered(p)) \in Nat
           /\ Cardinality(Answered(p)) <= Cardinality(Known(p))
<1>1. IsFiniteSet(Known(p)) /\ IsFiniteSet(Answered(p))
  BY RoutingAssumption, FS_Subset DEF Known, Answered
<1>2. Answered(p) \subseteq Known(p)
  BY DEF Answered, Known, Recorded, Trying
<1> QED
  BY <1>1, <1>2, FS_Subset, FS_CardinalityType

(* A step that records nothing leaves both sets as they are. *)
LEMMA NothingRecorded ==
    ASSUME TypeOK, Trying, NEW r \in Requests,
           \/ TakeView(r) \/ CheckStale(r) \/ EndRoute(r)
           \/ \E p \in Providers : ReadStatus(r, p) \/ Try(r, p)
    PROVE  \A p \in Providers : Known(p)' = Known(p) /\ Answered(p)' = Answered(p)
<1> SUFFICES ASSUME NEW p \in Providers
             PROVE  Known(p)' = Known(p) /\ Answered(p)' = Answered(p)
  OBVIOUS
<1> USE DEF TypeOK, Trying, Routing, Known, Answered, Recorded, Goto
<1>1. CASE TakeView(r)
  BY <1>1 DEF TakeView
<1>2. CASE CheckStale(r)
  BY <1>2 DEF CheckStale
<1>3. CASE EndRoute(r)
  BY <1>3 DEF EndRoute
<1>4. ASSUME NEW q \in Providers, ReadStatus(r, q)
      PROVE  Known(p)' = Known(p) /\ Answered(p)' = Answered(p)
  BY <1>4 DEF ReadStatus
<1>5. ASSUME NEW q \in Providers, Try(r, q)
      PROVE  Known(p)' = Known(p) /\ Answered(p)' = Answered(p)
  BY <1>5 DEF Try
<1> QED
  BY <1>1, <1>2, <1>3, <1>4, <1>5

LEMMA TrackerStep == TypeOK /\ Trying /\ TrackerAgrees /\ [Next]_vars => TrackerAgrees'
<1> SUFFICES ASSUME TypeOK, Trying, TrackerAgrees, [Next]_vars, NEW p \in Providers
             PROVE  Tally(p)'
  BY DEF TrackerAgrees, Tally, Known, Answered
<1>1. Tally(p)
  BY DEF TrackerAgrees, Tally, Known, Answered
<1>2. total[p] \in Nat /\ success[p] \in Nat /\ failures[p] \in Nat
  BY DEF TypeOK
<1>3. ASSUME NEW r \in Requests, RecordSuccess(r) PROVE Tally(p)'
  <2>1. CASE at[r] = p
    <3>1. /\ Known(p)' = Known(p) \cup {r} /\ r \notin Known(p)
          /\ Answered(p)' = Answered(p) \cup {r} /\ r \notin Answered(p)
      BY <1>3, <2>1 DEF RecordSuccess, Goto, Known, Answered, Recorded, Trying, TypeOK
    <3>2. /\ Cardinality(Known(p)') = Cardinality(Known(p)) + 1
          /\ Cardinality(Answered(p)') = Cardinality(Answered(p)) + 1
      BY <3>1, KnownFinite, FS_AddElement
    <3>3. total'[p] = total[p] + 1 /\ success'[p] = success[p] + 1 /\ failures'[p] = 0
      BY <1>3, <2>1 DEF RecordSuccess, TypeOK
    <3> QED
      BY <1>1, <1>2, <3>2, <3>3, KnownFinite DEF Tally
  <2>2. CASE at[r] # p
    <3>1. Known(p)' = Known(p) /\ Answered(p)' = Answered(p)
      BY <1>3, <2>2 DEF RecordSuccess, Goto, Known, Answered, Recorded, TypeOK
    <3>2. total'[p] = total[p] /\ success'[p] = success[p] /\ failures'[p] = failures[p]
      BY <1>3, <2>2 DEF RecordSuccess, TypeOK
    <3> QED
      BY <1>1, <3>1, <3>2 DEF Tally
  <2> QED
    BY <2>1, <2>2
<1>4. ASSUME NEW r \in Requests, RecordFailure(r) PROVE Tally(p)'
  <2>1. Answered(p)' = Answered(p) /\ success' = success
    BY <1>4 DEF RecordFailure, Goto, Answered, TypeOK
  <2>2. CASE at[r] = p
    <3>1. Known(p)' = Known(p) \cup {r} /\ r \notin Known(p)
      BY <1>4, <2>2 DEF RecordFailure, Goto, Known, Recorded, Trying, TypeOK
    <3>2. Cardinality(Known(p)') = Cardinality(Known(p)) + 1
      BY <3>1, KnownFinite, FS_AddElement
    <3>3. total'[p] = total[p] + 1 /\ failures'[p] = failures[p] + 1
      BY <1>4, <2>2 DEF RecordFailure, Counts, TypeOK
    <3> QED
      BY <1>1, <1>2, <2>1, <3>2, <3>3, KnownFinite DEF Tally
  <2>3. CASE at[r] # p
    <3>1. Known(p)' = Known(p)
      BY <1>4, <2>3 DEF RecordFailure, Goto, Known, Recorded, TypeOK
    <3>2. total'[p] = total[p] /\ failures'[p] = failures[p]
      BY <1>4, <2>3 DEF RecordFailure, Counts, TypeOK
    <3> QED
      BY <1>1, <2>1, <3>1, <3>2 DEF Tally
  <2> QED
    BY <2>2, <2>3
<1>5. ASSUME NEW r \in Requests,
             \/ TakeView(r) \/ CheckStale(r) \/ EndRoute(r)
             \/ \E q \in Providers : ReadStatus(r, q) \/ Try(r, q)
      PROVE  Tally(p)'
  <2>1. UNCHANGED trackerVars
    BY <1>5 DEF TakeView, CheckStale, EndRoute, ReadStatus, Try
  <2> QED
    BY <1>1, <1>5, <2>1, NothingRecorded DEF Tally, trackerVars
<1>6. ASSUME UNCHANGED <<requestVars, trackerVars>> PROVE Tally(p)'
  BY <1>1, <1>6 DEF requestVars, trackerVars, Tally, Known, Answered, Recorded
<1>7. ASSUME NEW ids \in SUBSET Providers, NEW reported \in [ids -> Status], Refresh(ids, reported)
      PROVE  Tally(p)'
  BY <1>6, <1>7 DEF Refresh
<1>8. CASE CoreChanges \/ UNCHANGED vars
  BY <1>6, <1>8 DEF CoreChanges, vars
<1>9. CASE Beat
  BY <1>6, <1>9 DEF Beat, PingAll, PingProvider, WritePing
<1> QED
  BY <1>3, <1>4, <1>5, <1>7, <1>8, <1>9 DEF Next, Request

(* The tracker has each attempt once, with its outcome, however the         *)
(* failovers of the requests interleave (ChatCompletions, Completions).     *)
THEOREM Tracker == Spec => []TrackerAgrees
<1>1. Init => Trying /\ TrackerAgrees
  <2> SUFFICES ASSUME Init PROVE Trying /\ TrackerAgrees
    OBVIOUS
  <2>1. Trying
    BY DEF Init, Trying
  <2>2. ASSUME NEW p \in Providers PROVE Tally(p)
    <3>1. Known(p) = {} /\ Answered(p) = {}
      BY DEF Init, Known, Answered, Recorded
    <3> QED
      BY <3>1, FS_EmptySet DEF Init, Tally
  <2> QED
    BY <2>1, <2>2 DEF TrackerAgrees, Tally, Known, Answered
<1> QED
  BY <1>1, TryingStep, TrackerStep, RoutingTypeCorrect, PTL DEF Spec
=============================================================================
