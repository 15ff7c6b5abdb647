---------------------------- MODULE ProviderRouting ----------------------------
(***************************************************************************)
(* Providers of the gateway: the registry and its heartbeat                 *)
(* (pkg/gateway/provider), the router, the failover of the proxy and its    *)
(* health tracker (pkg/gateway/proxy).                                      *)
(*                                                                          *)
(* The registry maps an id to a state object behind one mutex.  Refresh     *)
(* copies the list of the Rust core into it, the heartbeat loop pings every *)
(* provider it finds there and writes the result back later.  Get hands out *)
(* the objects themselves: the router reads them one after the other while  *)
(* others write, and an object that Refresh removed lives on in the views   *)
(* that hold it.  The reads are not synchronized, but a status torn between *)
(* two values is not "healthy", so a read is as good as one before or after *)
(* the write.                                                               *)
(*                                                                          *)
(* The gateway pings all providers through the one client it has, so a ping *)
(* says whether the core is up.  Time and scores are abstracted: any        *)
(* provider may be stale, below MinScore or of too low a trust tier when a  *)
(* request looks, and the order of the candidates is any.                   *)
(***************************************************************************)
EXTENDS Integers, FiniteSets

CONSTANTS Providers,
          Requests,     \* unary inference requests
          Attempts,     \* providers a request tries at most
          MaxRefreshes, \* bound on the answers of the core to ListProviders
          RecoverAfter, \* pings in a row that make a provider healthy again: 3 in the code
          None

ASSUME RoutingAssumption ==
    /\ None \notin Providers
    /\ IsFiniteSet(Providers)
    /\ IsFiniteSet(Requests)
    /\ Attempts \in Nat \ {0}           \* NewRouter raises it to 1
    /\ MaxRefreshes \in Nat
    /\ RecoverAfter \in Nat \ {0}

Status == {"healthy", "degraded", "unhealthy"}
Routing == {"examine", "stale"}
Steps == Routing \cup {"idle", "try", "succeeded", "failed", "noProvider", "answered", "error"}

VARIABLES
    registered, status, oks,        \* Registry: ids; Status and consecutiveOk of each
    listed, refreshes,              \* the core's last answer; answers so far
    coreUp,                         \* the core answers pings
    toPing, pinged, pingOk,         \* HeartbeatLoop: ids left, id pinged and the result
    pc, view, at, cands, tried,     \* each request: step, objects held, provider, candidates
    failures, success, total,       \* Tracker
    raced,                          \* history: ids removed while a loop was about to ping them
    sawHealthy                      \* history: providers seen so since a request began to route

registryVars == <<registered, status, oks>>
coreVars     == <<listed, refreshes, coreUp>>
loopVars     == <<toPing, pinged, pingOk>>
requestVars  == <<pc, at, cands, tried>>
trackerVars  == <<failures, success, total>>
vars == <<registryVars, coreVars, loopVars, requestVars, view, trackerVars, raced,
          sawHealthy>>

Init ==
    /\ registered = {}
    /\ status = [p \in Providers |-> "unhealthy"]
    /\ oks = [p \in Providers |-> 0]
    /\ listed = {}
    /\ refreshes = 0
    /\ coreUp \in BOOLEAN
    /\ toPing = {}
    /\ pinged = None
    /\ pingOk = FALSE
    /\ pc = [r \in Requests |-> "idle"]
    /\ view = [r \in Requests |-> [p \in Providers |-> "out"]]
    /\ at = [r \in Requests |-> None]
    /\ cands = [r \in Requests |-> {}]
    /\ tried = [r \in Requests |-> {}]
    /\ failures = [p \in Providers |-> 0]
    /\ success = [p \in Providers |-> 0]
    /\ total = [p \in Providers |-> 0]
    /\ raced = {}
    /\ sawHealthy = [r \in Requests |-> {}]

(* Providers that a request may still choose or has chosen, while it routes. *)
Open(r) ==
    IF pc[r] \in Routing
    THEN {p \in Providers : view[r][p] # "out"} \cup ({at[r]} \ {None}) \cup cands[r]
    ELSE {}

(* History of what was to be seen while a request routes. *)
See ==
    sawHealthy' = [r \in Requests |->
        Open(r)' \cap (sawHealthy[r] \cup {p \in registered' : status'[p] = "healthy"})]

-----------------------------------------------------------------------------
(* The registry. *)

CoreChanges ==
    /\ coreUp' = ~ coreUp
    /\ UNCHANGED <<registryVars, listed, refreshes, loopVars, requestVars, view,
                   trackerVars, raced, sawHealthy>>

(* Ids that a loop has in its list, or whose ping it has not written yet. *)
InPing == toPing \cup {pinged}

(* Mutant: providers the core does not list any more stay. *)
KeptAll(ids) == registered \cup ids

Kept(ids) == ids

(* Refresh with an answer that lists ids, the status of each in reported.   *)
(* consecutiveOk of a provider that stays is left as it is.  The answer was *)
(* given before the mutex was taken: the core may be down by now.           *)
Refresh(ids, reported) ==
    /\ refreshes < MaxRefreshes
    /\ refreshes' = refreshes + 1
    /\ listed' = ids
    /\ registered' = Kept(ids)
    /\ status' = [p \in Providers |-> IF p \in ids THEN reported[p] ELSE "unhealthy"]
    /\ oks' = [p \in Providers |-> IF p \in ids \cap registered THEN oks[p] ELSE 0]
    /\ raced' = (raced \cup (registered \cap InPing)) \ ids
    /\ view' = [r \in Requests |-> [p \in Providers |->
                   IF view[r][p] = "live" /\ p \notin ids THEN status[p] ELSE view[r][p]]]
    /\ UNCHANGED <<coreUp, loopVars, requestVars, trackerVars>>
    /\ See

(* Mutant: a degraded provider's count starts again with every ping. *)
OksAgain(p) == IF status[p] # "degraded" /\ oks[p] < RecoverAfter THEN oks[p] + 1 ELSE 1

(* consecutiveOk after a successful ping; nothing tells more of them apart. *)
Oks(p) == IF oks[p] < RecoverAfter THEN oks[p] + 1 ELSE RecoverAfter

(* Mutant: only a degraded provider is marked. *)
WorseDegraded(s) == IF s = "degraded" THEN "unhealthy" ELSE s

(* Status after a failed ping. *)
Worse(s) == IF s = "healthy" THEN "unhealthy" ELSE s

(* UpdateHeartbeat makes a new, healthy object for an id it does not find.  *)
UpdateHeartbeat(p) ==
    /\ registered' = registered \cup {p}
    /\ oks' = [oks EXCEPT ![p] = Oks(p)]
    /\ status' = [status EXCEPT ![p] = IF p \notin registered \/ Oks(p) = RecoverAfter THEN "healthy" ELSE @]

(* UpdateFailure makes a new, unhealthy object for an id it does not find.  *)
UpdateFailure(p) ==
    /\ registered' = registered \cup {p}
    /\ oks' = [oks EXCEPT ![p] = 0]
    /\ status' = [status EXCEPT ![p] = Worse(@)]

-----------------------------------------------------------------------------
(* The heartbeat loop.  main starts it before anything else, and it runs    *)
(* until the process ends.                                                  *)

(* pingAll takes the ids of the registry, at once and with every tick. *)
PingAll ==
    /\ toPing = {}
    /\ pinged = None
    /\ toPing' = registered
    /\ UNCHANGED <<pinged, pingOk, registryVars, coreVars, requestVars, view, trackerVars, raced,
                   sawHealthy>>

PingProvider(p) ==
    /\ p \in toPing
    /\ pinged = None
    /\ toPing' = toPing \ {p}
    /\ pinged' = p
    /\ pingOk' = coreUp
    /\ UNCHANGED <<registryVars, coreVars, requestVars, view, trackerVars, raced, sawHealthy>>

WritePing ==
    /\ pinged # None
    /\ IF pingOk THEN UpdateHeartbeat(pinged) ELSE UpdateFailure(pinged)
    /\ pinged' = None
    /\ pingOk' = FALSE
    /\ UNCHANGED <<toPing, coreVars, requestVars, view, trackerVars, raced>>
    /\ See

Beat == PingAll \/ (\E p \in Providers : PingProvider(p)) \/ WritePing

-----------------------------------------------------------------------------
(* RouteAll, and the failover of ChatCompletions and Completions. *)

Goto(r, step) == pc' = [pc EXCEPT ![r] = step]

(* Get returns nil for an empty registry. *)
TakeView(r) ==
    /\ pc[r] = "idle"
    /\ view' = [view EXCEPT ![r] =
                   [p \in Providers |-> IF p \in registered THEN "live" ELSE "out"]]
    /\ Goto(r, IF registered = {} THEN "noProvider" ELSE "examine")
    /\ UNCHANGED <<at, cands, tried, registryVars, coreVars, loopVars, trackerVars,
                   raced>>
    /\ See

(* Mutant: an object that left the registry is taken for healthy. *)
StatusOfRemoved(r, p) ==
    CASE view[r][p] = "live" -> status[p]
      [] OTHER -> "healthy"

(* The status in the object that the view holds. *)
StatusInView(r, p) == IF view[r][p] = "live" THEN status[p] ELSE view[r][p]

ReadStatus(r, p) ==
    /\ pc[r] = "examine"
    /\ view[r][p] # "out"
    /\ view' = [view EXCEPT ![r][p] = "out"]
    /\ IF StatusInView(r, p) = "healthy"
       THEN at' = [at EXCEPT ![r] = p] /\ Goto(r, "stale")
       ELSE UNCHANGED <<at, pc>>
    /\ UNCHANGED <<cands, tried, registryVars, coreVars, loopVars, trackerVars, raced>>
    /\ See

(* IsStale looks the id up again: an id that has gone is stale.  Then the   *)
(* trust tier and the score may exclude the provider.                       *)
CheckStale(r) ==
    /\ pc[r] = "stale"
    /\ \/ /\ at[r] \in registered
          /\ cands' = [cands EXCEPT ![r] = @ \cup {at[r]}]
       \/ UNCHANGED cands
    /\ at' = [at EXCEPT ![r] = None]
    /\ Goto(r, "examine")
    /\ UNCHANGED <<tried, view, registryVars, coreVars, loopVars, trackerVars, raced>>
    /\ See

EndRoute(r) ==
    /\ pc[r] = "examine"
    /\ \A p \in Providers : view[r][p] = "out"
    /\ Goto(r, IF cands[r] = {} THEN "noProvider" ELSE "try")
    /\ UNCHANGED <<at, cands, tried, view, registryVars, coreVars, loopVars,
                   trackerVars, raced>>
    /\ See

(* A call of the core on behalf of provider p. *)
Try(r, p) ==
    /\ pc[r] = "try"
    /\ p \in cands[r] \ tried[r]
    /\ at' = [at EXCEPT ![r] = p]
    /\ tried' = [tried EXCEPT ![r] = @ \cup {p}]
    /\ \/ coreUp /\ Goto(r, "succeeded")
       \/ Goto(r, "failed")
    /\ UNCHANGED <<cands, view, registryVars, coreVars, loopVars, trackerVars, raced,
                   sawHealthy>>

RecordSuccess(r) ==
    /\ pc[r] = "succeeded"
    /\ success' = [success EXCEPT ![at[r]] = @ + 1]
    /\ total' = [total EXCEPT ![at[r]] = @ + 1]
    /\ failures' = [failures EXCEPT ![at[r]] = 0]
    /\ Goto(r, "answered")
    /\ UNCHANGED <<at, cands, tried, view, registryVars, coreVars, loopVars, raced,
                   sawHealthy>>

Counts(r) == TRUE

RecordFailure(r) ==
    /\ pc[r] = "failed"
    /\ IF Counts(r)
       THEN /\ total' = [total EXCEPT ![at[r]] = @ + 1]
            /\ failures' = [failures EXCEPT ![at[r]] = @ + 1]
       ELSE UNCHANGED <<total, failures>>
    /\ Goto(r, IF tried[r] = cands[r] \/ Cardinality(tried[r]) = Attempts THEN "error" ELSE "try")
    /\ UNCHANGED <<success, at, cands, tried, view, registryVars, coreVars, loopVars,
                   raced, sawHealthy>>

Request(r) ==
    \/ TakeView(r)
    \/ \E p \in Providers : ReadStatus(r, p)
    \/ CheckStale(r)
    \/ EndRoute(r)
    \/ \E p \in Providers : Try(r, p)
    \/ RecordSuccess(r)
    \/ RecordFailure(r)

-----------------------------------------------------------------------------
Next ==
    \/ CoreChanges
    \/ \E ids \in SUBSET Providers : \E reported \in [ids -> Status] : Refresh(ids, reported)
    \/ Beat
    \/ \E r \in Requests : Request(r)

Spec == Init /\ [][Next]_vars

(* The goroutine of the loop runs on, its ticker fires again and again, and *)
(* a ping ends within its five seconds.                                     *)
Fairness == WF_vars(Beat)

FairSpec == Spec /\ Fairness

-----------------------------------------------------------------------------
(* Every variable keeps its type. *)
TypeOK ==
    /\ registered \subseteq Providers
    /\ status \in [Providers -> Status]
    /\ oks \in [Providers -> 0 .. RecoverAfter]
    /\ listed \subseteq Providers
    /\ refreshes \in 0 .. MaxRefreshes
    /\ coreUp \in BOOLEAN
    /\ toPing \subseteq Providers
    /\ pinged \in Providers \cup {None}
    /\ pingOk \in BOOLEAN
    /\ pc \in [Requests -> Steps]
    /\ view \in [Requests -> [Providers -> Status \cup {"out", "live"}]]
    /\ at \in [Requests -> Providers \cup {None}]
    /\ cands \in [Requests -> SUBSET Providers]
    /\ tried \in [Requests -> SUBSET Providers]
    /\ failures \in [Providers -> Nat]
    /\ success \in [Providers -> Nat]
    /\ total \in [Providers -> Nat]
    /\ raced \subseteq Providers
    /\ sawHealthy \in [Requests -> SUBSET Providers]

(* A provider that the core does not list is in the registry only because a *)
(* ping that began before the core dropped it was written afterwards.       *)
UnlistedWerePinged == registered \ listed \subseteq raced

(* While a request routes, each candidate it has chosen was healthy at some *)
(* moment since it began: nobody is called who was down all along, not even *)
(* by way of an object that has left the registry (RouteAll).               *)
CandidatesWereUp ==
    \A r \in Requests :
        pc[r] \in Routing => cands[r] \subseteq sawHealthy[r]

(* The tracker has each attempt once, with its outcome, whatever other      *)
(* requests record for the provider meanwhile, and the failures in a row    *)
(* that exclude a provider all happened (ChatCompletions and Completions).  *)
Recorded(r, p) == p \in tried[r] /\ (at[r] = p => pc[r] \notin {"succeeded", "failed"})

TrackerAgrees ==
    \A p \in Providers :
        /\ total[p] = Cardinality({r \in Requests : Recorded(r, p)})
        /\ success[p] = Cardinality({r \in Requests : pc[r] = "answered" /\ at[r] = p})
        /\ failures[p] <= total[p] - success[p]

(* When the core stays down, the heartbeat leaves no provider       *)
(* healthy, whatever Refresh and late pings wrote.                          *)
DownIsNoticed ==
    <>[] ~ coreUp => <>[](\A p \in registered : status[p] # "healthy")

(* When the core stays up, the heartbeat makes every provider       *)
(* healthy, also one that the core itself reports as degraded or unhealthy. *)
UpHeals ==
    <>[] coreUp => <>[](\A p \in registered : status[p] = "healthy")
=============================================================================
