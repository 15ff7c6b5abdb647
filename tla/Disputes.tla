------------------------------- MODULE Disputes -------------------------------
(***************************************************************************)
(* Billing disputes: InMemoryDisputeStore, ExpiryService and Handler of     *)
(* pkg/gateway/dispute.                                                     *)
(*                                                                          *)
(* The store holds its mutex over each change.  ByID returns a pointer to   *)
(* the stored dispute, and toResponse reads its fields after the mutex was  *)
(* given back, so an answer is put together of fields read at different     *)
(* times.  The gateway makes the store and the handler; Review and Expiry   *)
(* say whether somebody calls UpdateState, as the tests do, and whether an  *)
(* ExpiryService runs.  The gateway has neither.                            *)
(***************************************************************************)
EXTENDS FiniteSets, Naturals

CONSTANTS Ids, Requests, None, Review, Expiry

Terminal == {"resolved", "rejected", "expired"}
States   == {"open", "under_review"} \cup Terminal
Statuses == {"200", "404", "409"}

ASSUME DisputesAssumption ==
    /\ None \notin Ids \cup States
    /\ Review \in BOOLEAN /\ Expiry \in BOOLEAN

VARIABLES
    state, note, resolvedAt,        \* of each dispute
    old,                            \* created longer than maxAge ago
    stage, target, decision,        \* requests: next step or answer, dispute, next state asked for
    shownState, shownAt             \* what the answer to a request says

storedVars   == <<state, note, resolvedAt>>
requestVars  == <<stage, target, decision, shownState, shownAt>>
disputesVars == <<storedVars, old, requestVars>>

DisputesInit ==
    /\ state = [d \in Ids |-> None]
    /\ note = [d \in Ids |-> None]
    /\ resolvedAt = [d \in Ids |-> FALSE]
    /\ old = {}
    /\ stage = [c \in Requests |-> "idle"]
    /\ target = [c \in Requests |-> None]
    /\ decision = [c \in Requests |-> None]
    /\ shownState = [c \in Requests |-> None]
    /\ shownAt = [c \in Requests |-> FALSE]

(* Mutant: a rejected dispute may be decided again. *)
AllowedAgain(from, to) ==
    \/ from = "open" /\ to \in {"under_review", "expired"}
    \/ from \in {"under_review", "rejected"} /\ to \in Terminal

(* Dispute.TransitionTo. *)
Allowed(from, to) ==
    \/ from = "open" /\ to \in {"under_review", "expired"}
    \/ from = "under_review" /\ to \in Terminal

(* Mutant: only a refund is stamped. *)
StampRefund(d, to) == resolvedAt[d] \/ to = "resolved"

Stamp(d, to) == resolvedAt[d] \/ to \in Terminal

TransitionTo(d, to) ==
    /\ Allowed(state[d], to)
    /\ state' = [state EXCEPT ![d] = to]
    /\ resolvedAt' = [resolvedAt EXCEPT ![d] = Stamp(d, to)]

(* The id is eight hex digits of a random UUID and is assumed to be new: the *)
(* store puts a dispute under its id without a look at what is there.       *)
OpenDispute(d) ==
    /\ state[d] = None
    /\ state' = [state EXCEPT ![d] = "open"]
    /\ UNCHANGED <<note, resolvedAt, old, requestVars>>

UpdateState(d, to) ==
    /\ Review
    /\ TransitionTo(d, to)
    /\ UNCHANGED <<note, old, requestVars>>

(* maxAge passes for a dispute. *)
Age(d) ==
    /\ state[d] # None /\ d \notin old
    /\ old' = old \cup {d}
    /\ UNCHANGED <<storedVars, requestVars>>

(* Mutant: the state is compared with the wrong constant. *)
StaleReviewed == {d \in old : state[d] = "under_review"}

Stale == {d \in old : state[d] = "open"}

(* One tick of the expiry service. *)
ExpireOld ==
    /\ Expiry
    /\ Stale # {}
    /\ state' = [d \in Ids |-> IF d \in Stale THEN "expired" ELSE state[d]]
    /\ resolvedAt' = [d \in Ids |-> d \in Stale \/ resolvedAt[d]]
    /\ UNCHANGED <<note, old, requestVars>>

-----------------------------------------------------------------------------
(* Requests. *)

Goto(c, s) == stage' = [stage EXCEPT ![c] = s]

Missing(d) == state[d] = None

(* GetDispute, which asks for no decision, and ResolveDispute find the      *)
(* dispute.  GetDispute answers the same where it is of another API key.    *)
Request(c, d, to) ==
    /\ stage[c] = "idle"
    /\ target' = [target EXCEPT ![c] = d]
    /\ decision' = [decision EXCEPT ![c] = to]
    /\ \/ Goto(c, IF Missing(d) THEN "404" ELSE IF to = None THEN "showState" ELSE "decide")
       \/ to = None /\ Goto(c, "404")
    /\ UNCHANGED <<storedVars, old, shownState, shownAt>>

SetResolution(c) ==
    LET d == target[c] IN
    /\ stage[c] = "decide"
    /\ \/ /\ TransitionTo(d, decision[c])
          /\ note' = [note EXCEPT ![d] = c]
          /\ Goto(c, "showState")
       \/ /\ ~ Allowed(state[d], decision[c])
          /\ Goto(c, "409")
          /\ UNCHANGED storedVars
    /\ UNCHANGED <<old, target, decision, shownState, shownAt>>

(* toResponse reads the state, and later whether the dispute is resolved.   *)
ShowState(c) ==
    /\ stage[c] = "showState"
    /\ shownState' = [shownState EXCEPT ![c] = state[target[c]]]
    /\ Goto(c, "showAt")
    /\ UNCHANGED <<storedVars, old, target, decision, shownAt>>

ShowResolvedAt(c) ==
    /\ stage[c] = "showAt"
    /\ shownAt' = [shownAt EXCEPT ![c] = resolvedAt[target[c]]]
    /\ Goto(c, "200")
    /\ UNCHANGED <<storedVars, old, target, decision, shownState>>

DisputesNext ==
    \/ \E d \in Ids :
          \/ OpenDispute(d) \/ Age(d)
          \/ \E to \in States : UpdateState(d, to)
    \/ ExpireOld
    \/ \E c \in Requests :
          \/ \E d \in Ids, to \in {None, "resolved", "rejected"} : Request(c, d, to)
          \/ SetResolution(c) \/ ShowState(c) \/ ShowResolvedAt(c)

(* Time passes, the ticker of a running service ticks and a request that    *)
(* was accepted is answered.                                                *)
DisputesFairness ==
    /\ \A d \in Ids : WF_disputesVars(Age(d))
    /\ WF_disputesVars(ExpireOld)
    /\ \A c \in Requests : WF_disputesVars(SetResolution(c) \/ ShowState(c) \/ ShowResolvedAt(c))

DisputesSpec == DisputesInit /\ [][DisputesNext]_disputesVars /\ DisputesFairness

-----------------------------------------------------------------------------
(* Every variable keeps its type. *)
DisputesTypeOK ==
    /\ state \in [Ids -> States \cup {None}]
    /\ note \in [Ids -> Requests \cup {None}]
    /\ resolvedAt \in [Ids -> BOOLEAN]
    /\ old \subseteq Ids
    /\ stage \in [Requests -> {"idle", "decide", "showState", "showAt"} \cup Statuses]
    /\ target \in [Requests -> Ids \cup {None}]
    /\ decision \in [Requests -> {"resolved", "rejected", None}]
    /\ shownState \in [Requests -> States \cup {None}]
    /\ shownAt \in [Requests -> BOOLEAN]
    /\ \A c \in Requests : stage[c] \in {"showAt", "200"} => shownState[c] \in States

Decided(c) == decision[c] # None /\ stage[c] \in {"showState", "showAt", "200"}

(* Of the requests to resolve a dispute one at most is accepted, and its    *)
(* note and its decision are the dispute's from then on, whatever reviews   *)
(* and expiries come between (SetResolution, TransitionTo).                 *)
DecidedOnce ==
    \A c \in Requests : Decided(c) =>
        /\ note[target[c]] = c
        /\ state[target[c]] = decision[c]

(* A request that was accepted is answered with its own decision, although  *)
(* the answer is made of fields read after the mutex was given back         *)
(* (ResolveDispute, toResponse).                                            *)
AnswerIsOwnDecision ==
    \A c \in Requests : decision[c] # None /\ stage[c] = "200" =>
        shownState[c] = decision[c] /\ shownAt[c]

(* Where the expiry service runs, no dispute stays open (ExpireOld).        *)
NoneStaysOpen ==
    \A d \in Ids : state[d] = "open" ~> state[d] # "open"

=============================================================================
