----------------------------- MODULE JobLifecycle -----------------------------
(***************************************************************************)
(* What a job promises those who submit, cancel and look at it.  It moves   *)
(* along pending, running and one of three ends, and nothing moves it from  *)
(* there.  A cancel that is accepted has cancelled the job in one step, and *)
(* one that is refused came when the job had ended.  A result or an error   *)
(* is attached once, to the end it belongs to.                              *)
(*                                                                          *)
(* Whoever implements it without mutual exclusion may race: from then on    *)
(* the job may be moved against its lifecycle and its state may be torn,    *)
(* but only by those who run or cancel it.  A crash ends all jobs at once.  *)
(***************************************************************************)
CONSTANTS Jobs, Callers

VARIABLES state, outcome,       \* of each job
          racy,                 \* somebody raced on the job
          target, answer        \* of each caller that cancels

lifecycleVars == <<state, outcome, racy, target, answer>>

Ended == {"succeeded", "failed", "cancelled"}

Follows(s) ==
    CASE s = "pending" -> {"running", "cancelled"}
      [] s = "running" -> Ended
      [] OTHER         -> {}

LifecycleInit ==
    /\ state = [j \in Jobs |-> "absent"]
    /\ outcome = [j \in Jobs |-> "none"]
    /\ racy = [j \in Jobs |-> FALSE]
    /\ target \in [Callers -> Jobs]
    /\ answer = [c \in Callers |-> "none"]

SubmitJob(j) ==
    /\ state[j] = "absent"
    /\ state' = [state EXCEPT ![j] = "pending"]
    /\ UNCHANGED <<outcome, racy, target, answer>>

MayRace(j) == racy' = [racy EXCEPT ![j] = TRUE] \/ UNCHANGED racy

Race(j) ==
    /\ MayRace(j)
    /\ UNCHANGED <<state, outcome, target, answer>>

Enter(j, to) ==
    /\ \/ to \in Follows(state[j]) /\ state' = [state EXCEPT ![j] = to]
       \/ /\ racy[j] /\ state[j] \notin {"absent", "lost"}
          /\ \E s \in {to, "torn"} : state' = [state EXCEPT ![j] = s]
    /\ MayRace(j)

Progress(j, to) ==
    /\ Enter(j, to)
    /\ UNCHANGED <<outcome, target, answer>>

Attach(j, end, what) ==
    /\ outcome[j] = "none"
    /\ state[j] = end \/ (racy[j] /\ state[j] \in {"cancelled", "torn"})
    /\ outcome' = [outcome EXCEPT ![j] = what]
    /\ UNCHANGED <<state, racy, target, answer>>

AcceptCancel(c) ==
    /\ answer[c] = "none"
    /\ Enter(target[c], "cancelled")
    /\ answer' = [answer EXCEPT ![c] = "ok"]
    /\ UNCHANGED <<outcome, target>>

RefuseCancel(c) ==
    /\ answer[c] = "none"
    /\ state[target[c]] \in Ended
    /\ answer' = [answer EXCEPT ![c] = "conflict"]
    /\ UNCHANGED <<state, outcome, racy, target>>

Crash ==
    /\ state' = [j \in Jobs |-> "lost"]
    /\ answer' = [c \in Callers |-> "none"]
    /\ UNCHANGED <<outcome, racy, target>>

LifecycleNext ==
    \/ \E j \in Jobs :
          \/ SubmitJob(j)
          \/ Race(j)
          \/ \E to \in {"running", "succeeded", "failed"} : Progress(j, to)
          \/ Attach(j, "succeeded", "result")
          \/ Attach(j, "failed", "error")
    \/ \E c \in Callers : AcceptCancel(c) \/ RefuseCancel(c)
    \/ Crash

LifecycleSpec == LifecycleInit /\ [][LifecycleNext]_lifecycleVars
=============================================================================
