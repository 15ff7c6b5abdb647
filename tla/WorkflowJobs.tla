----------------------------- MODULE WorkflowJobs -----------------------------
(***************************************************************************)
(* Workflow jobs of the gateway (pkg/gateway/jobs): POST /v1/workflows       *)
(* saves a job and starts a goroutine that runs its steps, DELETE           *)
(* /v1/jobs/:id cancels it, GET /v1/jobs/:id/events streams its step log.    *)
(*                                                                          *)
(* The store hands out the pointer it holds.  Executor, cancelling callers   *)
(* and watchers share the Job and no lock guards its fields: transitionTo    *)
(* reads the state, decides, and writes, and another goroutine can run in    *)
(* between.  So every transition is two actions here, a check and a write.   *)
(* These are data races: the state is a string, an address and a length,     *)
(* written one after the other.  An access that overlaps a write of another  *)
(* length may see, or leave, a torn string, which is no state.               *)
(*                                                                          *)
(* A call of the proxy that has no provider gives the executor neither an    *)
(* answer nor an error; it dereferences the nil answer and the panic ends   *)
(* the process, with every job and every goroutine.  A handler without a    *)
(* proxy, as NewServer makes it, completes each step by itself, which is    *)
(* one of the behaviours below.                                             *)
(***************************************************************************)
EXTENDS Integers, Sequences, FiniteSets

CONSTANTS Jobs,       \* the jobs that may be submitted
          Callers,    \* requests that cancel
          Watchers,   \* requests that stream events
          Executor,   \* the goroutine of a job, among the threads that change it
          NSteps      \* steps of a workflow

ASSUME JobsAssumption ==
    /\ NSteps \in Nat \ {0}          \* Submit: "steps required"
    /\ Executor \notin Callers

Threads == Callers \cup {Executor}

States == {"absent", "pending", "running", "succeeded", "failed", "cancelled", "torn", "lost"}
Terminal == {"succeeded", "failed", "cancelled"}
MaxEvents == 2 * NSteps

VARIABLES
    state, log, result, error,     \* the Job: State, len(Steps), Result, Error
    listed,                        \* entries of the job in byAPIKey
    exec, done,                    \* executor: step, workflow steps completed
    cancel, target,                \* cancelling callers: step, job
    watch, watched, sent, lastSeen,\* watchers: step, job, events sent, cursor
    racers                         \* history: threads that overlapped a write of another

jobVars    == <<state, log, result, error, listed, racers>>
execVars   == <<exec, done>>
cancelVars == <<cancel, target>>
watchVars  == <<watch, watched, sent, lastSeen>>
vars == <<jobVars, execVars, cancelVars, watchVars>>

Init ==
    /\ state = [j \in Jobs |-> "absent"]
    /\ log = [j \in Jobs |-> 0]
    /\ result = [j \in Jobs |-> FALSE]
    /\ error = [j \in Jobs |-> FALSE]
    /\ listed = [j \in Jobs |-> 0]
    /\ exec = [j \in Jobs |-> "none"]
    /\ done = [j \in Jobs |-> 0]
    /\ cancel = [c \in Callers |-> "idle"]
    /\ target \in [Callers -> Jobs]
    /\ watch = [w \in Watchers |-> "idle"]
    /\ watched \in [Watchers -> Jobs]
    /\ sent = [w \in Watchers |-> <<>>]
    /\ lastSeen = [w \in Watchers |-> 0]
    /\ racers = [j \in Jobs |-> {}]

-----------------------------------------------------------------------------
(* The job and its store. *)

(* Mutant: the last case of the switch is missing. *)
MayMoveFromTerminal(from) ==
    CASE from = "pending" -> {"running", "cancelled"}
      [] OTHER -> States

(* The switch of transitionTo, which has no default: a torn state passes.   *)
MayMove(from) ==
    CASE from = "pending" -> {"running", "cancelled"}
      [] from = "running" -> Terminal
      [] from \in Terminal -> {}
      [] OTHER -> States

(* What the executor writes at the second half of a transition. *)
Written == [startWrite |-> "running", succeedWrite |-> "succeeded", failWrite |-> "failed"]

(* The threads that passed the check of a transition of j and did not write *)
(* yet, and what they are about to write.                                   *)
InFlight(j) ==
    {c \in Callers : cancel[c] = "write" /\ target[c] = j}
        \cup {Executor : e \in {exec[j]} \cap DOMAIN Written}

Writing(j) ==
    {"cancelled" : c \in InFlight(j) \cap Callers}
        \cup {Written[e] : e \in {exec[j]} \cap DOMAIN Written}

Width(s) ==
    CASE s = "torn" -> 0
      [] s = "failed" -> 6
      [] s \in {"pending", "running"} -> 7
      [] OTHER -> 9

(* What a read of j.State may see. *)
Reads(j) ==
    {state[j]} \cup {"torn" : next \in {n \in Writing(j) : Width(n) # Width(state[j])}}

(* Thread t read seen: a torn read makes it a racer. *)
Overlap(j, t, seen) ==
    racers' = IF seen = "torn" THEN [racers EXCEPT ![j] = @ \cup {t}] ELSE racers

(* j.State = next, by thread t; the threads in flight overlap the write. *)
Write(j, t, next) ==
    /\ \/ state' = [state EXCEPT ![j] = next]
       \/ /\ t \in racers[j]
          /\ Width(next) # Width(state[j])
          /\ state' = [state EXCEPT ![j] = "torn"]
    /\ racers' = [racers EXCEPT ![j] = @ \cup (InFlight(j) \ {t})]

(* Save puts the job in front of the key's list, whether it is there or not. *)
Save(j) == listed' = [listed EXCEPT ![j] = @ + 1]

AddStepEvent(j) == log' = [log EXCEPT ![j] = @ + 1]

-----------------------------------------------------------------------------
(* Submit and executeJob. *)

Submit(j) ==
    /\ state[j] = "absent"
    /\ state' = [state EXCEPT ![j] = "pending"]
    /\ Save(j)
    /\ exec' = [exec EXCEPT ![j] = "start"]
    /\ UNCHANGED <<log, result, error, racers, done, cancelVars, watchVars>>

Goto(j, step) == exec' = [exec EXCEPT ![j] = step]

(* Start on a job that was cancelled first: save it and leave. *)
CheckStart(j) ==
    /\ exec[j] = "start"
    /\ \E seen \in Reads(j) :
          /\ Overlap(j, Executor, seen)
          /\ IF "running" \in MayMove(seen)
             THEN Goto(j, "startWrite") /\ UNCHANGED listed
             ELSE Goto(j, "exit") /\ Save(j)
    /\ UNCHANGED <<state, log, result, error, done, cancelVars, watchVars>>

WriteStart(j) ==
    /\ exec[j] = "startWrite"
    /\ Write(j, Executor, "running")
    /\ Goto(j, "step")
    /\ UNCHANGED <<log, result, error, listed, done, cancelVars, watchVars>>

(* The state of the job is not looked at again before the last step. *)
StepStarted(j) ==
    /\ exec[j] = "step"
    /\ AddStepEvent(j)
    /\ Save(j)
    /\ Goto(j, "call")
    /\ UNCHANGED <<state, result, error, racers, done, cancelVars, watchVars>>

(* The loop over the workflow, after one more completed step. *)
NextStep(j) == IF done[j] + 1 = NSteps THEN "succeed" ELSE "step"

StepCompleted(j) ==
    /\ exec[j] = "call"
    /\ AddStepEvent(j)
    /\ Save(j)
    /\ done' = [done EXCEPT ![j] = @ + 1]
    /\ Goto(j, NextStep(j))
    /\ UNCHANGED <<state, result, error, racers, cancelVars, watchVars>>

(* Mutant: the executor leaves without a call of Fail. *)
AfterFailureExit == "exit"

AfterFailure == "fail"

StepFailed(j) ==
    /\ exec[j] = "call"
    /\ AddStepEvent(j)
    /\ Goto(j, AfterFailure)
    /\ UNCHANGED <<state, result, error, listed, racers, done, cancelVars, watchVars>>

(* No provider for the model: the answer is nil and is dereferenced. *)
NilAnswer(j) ==
    /\ exec[j] = "call"
    /\ state' = [k \in Jobs |-> "lost"]
    /\ exec' = [k \in Jobs |-> "gone"]
    /\ cancel' = [c \in Callers |-> "gone"]
    /\ watch' = [w \in Watchers |-> "gone"]
    /\ UNCHANGED <<log, result, error, listed, racers, done, target, watched, sent, lastSeen>>

(* Mutant: Succeed stores the result although the transition was refused. *)
AfterRefusalResult(j) == IF exec[j] = "succeed" THEN "result" ELSE "save"

(* Succeed and Fail return the error of transitionTo before they set Result *)
(* or Error, and executeJob ignores it.                                     *)
AfterRefusal(j) == "save"

CheckEnd(j) ==
    /\ \E seen \in Reads(j) :
          /\ Overlap(j, Executor, seen)
          /\ \/ /\ exec[j] = "succeed"
                /\ Goto(j, IF "succeeded" \in MayMove(seen) THEN "succeedWrite" ELSE AfterRefusal(j))
             \/ /\ exec[j] = "fail"
                /\ Goto(j, IF "failed" \in MayMove(seen) THEN "failWrite" ELSE AfterRefusal(j))
    /\ UNCHANGED <<state, log, result, error, listed, done, cancelVars, watchVars>>

WriteEnd(j) ==
    /\ \/ /\ exec[j] = "succeedWrite"
          /\ Write(j, Executor, "succeeded")
          /\ Goto(j, "result")
       \/ /\ exec[j] = "failWrite"
          /\ Write(j, Executor, "failed")
          /\ Goto(j, "error")
    /\ UNCHANGED <<log, result, error, listed, done, cancelVars, watchVars>>

(* j.Result = result, j.Error = errMsg: after the state, and visible after it. *)
SetOutcome(j) ==
    /\ \/ /\ exec[j] = "result"
          /\ result' = [result EXCEPT ![j] = TRUE]
          /\ UNCHANGED error
       \/ /\ exec[j] = "error"
          /\ error' = [error EXCEPT ![j] = TRUE]
          /\ UNCHANGED result
    /\ Goto(j, "save")
    /\ UNCHANGED <<state, log, listed, racers, done, cancelVars, watchVars>>

SaveEnd(j) ==
    /\ exec[j] = "save"
    /\ Save(j)
    /\ Goto(j, "exit")
    /\ UNCHANGED <<state, log, result, error, racers, done, cancelVars, watchVars>>

-----------------------------------------------------------------------------
(* CancelJob. *)

(* Mutant: the error of Cancel is not looked at. *)
AfterConflictSave == "save"

AfterConflict == "conflict"

CheckCancel(c) ==
    LET j == target[c] IN
    /\ cancel[c] = "idle"
    /\ state[j] # "absent"             \* else 404
    /\ \E seen \in Reads(j) :
          /\ Overlap(j, c, seen)
          /\ cancel' = [cancel EXCEPT ![c] =
                          IF "cancelled" \in MayMove(seen) THEN "write" ELSE AfterConflict]
    /\ UNCHANGED <<state, log, result, error, listed, execVars, target, watchVars>>

WriteCancel(c) ==
    LET j == target[c] IN
    /\ cancel[c] = "write"
    /\ Write(j, c, "cancelled")
    /\ cancel' = [cancel EXCEPT ![c] = "save"]
    /\ UNCHANGED <<log, result, error, listed, execVars, target, watchVars>>

SaveCancel(c) ==
    /\ cancel[c] = "save"
    /\ Save(target[c])
    /\ cancel' = [cancel EXCEPT ![c] = "ok"]
    /\ UNCHANGED <<state, log, result, error, racers, execVars, target, watchVars>>

-----------------------------------------------------------------------------
(* Events: the step log as server-sent events. *)

(* Events from .. to, by their place in the log.  What a torn read of the   *)
(* slice header may send beside them is not recorded.                       *)
Numbers(from, to) == [i \in 1 .. (to - from) |-> from + i]

(* range job.Steps: the log as it is when the loop starts. *)
SendLog(w) ==
    /\ watch[w] = "idle"
    /\ state[watched[w]] # "absent"
    /\ sent' = [sent EXCEPT ![w] = Numbers(0, log[watched[w]])]
    /\ watch' = [watch EXCEPT ![w] = "check"]
    /\ UNCHANGED <<jobVars, execVars, cancelVars, watched, lastSeen>>

(* A terminal state ends the stream with a "done" event. *)
CheckDone(w) ==
    /\ watch[w] \in {"check", "checkAgain"}
    /\ \E seen \in Reads(watched[w]) :
          watch' = [watch EXCEPT ![w] = IF seen \in Terminal THEN "done"
                                        ELSE IF @ = "check" THEN "mark" ELSE "poll"]
    /\ UNCHANGED <<jobVars, execVars, cancelVars, watched, sent, lastSeen>>

(* Mutant: the cursor stays where it was. *)
CursorStays(w) == lastSeen[w]

(* lastSeen := len(job.Steps), which is read again after the events were    *)
(* sent.                                                                    *)
Cursor(w) == log[watched[w]]

MarkSeen(w) ==
    /\ watch[w] \in {"mark", "markAgain"}
    /\ lastSeen' = [lastSeen EXCEPT ![w] = Cursor(w)]
    /\ watch' = [watch EXCEPT ![w] = IF watch[w] = "mark" THEN "poll" ELSE "checkAgain"]
    /\ UNCHANGED <<jobVars, execVars, cancelVars, watched, sent>>

(* One turn of the polling loop. *)
Poll(w) ==
    /\ watch[w] = "poll"
    /\ sent' = [sent EXCEPT ![w] = @ \o Numbers(lastSeen[w], log[watched[w]])]
    /\ watch' = [watch EXCEPT ![w] = "markAgain"]
    /\ UNCHANGED <<jobVars, execVars, cancelVars, watched, lastSeen>>

(* The 30 s window is over: the stream ends without "done". *)
PollDeadline(w) ==
    /\ watch[w] = "poll"
    /\ watch' = [watch EXCEPT ![w] = "expired"]
    /\ UNCHANGED <<jobVars, execVars, cancelVars, watched, sent, lastSeen>>

-----------------------------------------------------------------------------
Execute(j) ==
    \/ CheckStart(j)
    \/ WriteStart(j)
    \/ StepStarted(j)
    \/ StepCompleted(j)
    \/ StepFailed(j)
    \/ CheckEnd(j)
    \/ WriteEnd(j)
    \/ SetOutcome(j)
    \/ SaveEnd(j)

Cancel(c) == CheckCancel(c) \/ WriteCancel(c) \/ SaveCancel(c)

Watch(w) == SendLog(w) \/ CheckDone(w) \/ MarkSeen(w) \/ Poll(w) \/ PollDeadline(w)

Next ==
    \/ \E j \in Jobs : Submit(j) \/ Execute(j) \/ NilAnswer(j)
    \/ \E c \in Callers : Cancel(c)
    \/ \E w \in Watchers : Watch(w)

Spec == Init /\ [][Next]_vars

(* Goroutines that can run do run, and a call of the proxy ends with the    *)
(* 60 s deadline of its context at the latest.                              *)
Fairness ==
    /\ \A j \in Jobs : WF_vars(Execute(j))
    /\ \A c \in Callers : WF_vars(WriteCancel(c) \/ SaveCancel(c))

FairSpec == Spec /\ Fairness

-----------------------------------------------------------------------------
(* Every variable keeps its type. *)
TypeOK ==
    /\ state \in [Jobs -> States]
    /\ log \in [Jobs -> 0 .. MaxEvents]
    /\ result \in [Jobs -> BOOLEAN]
    /\ error \in [Jobs -> BOOLEAN]
    /\ listed \in [Jobs -> Nat]
    /\ exec \in [Jobs -> {"none", "start", "startWrite", "step", "call", "succeed", "fail",
                          "succeedWrite", "failWrite", "result", "error", "save", "exit", "gone"}]
    /\ done \in [Jobs -> 0 .. NSteps]
    /\ cancel \in [Callers -> {"idle", "write", "save", "ok", "conflict", "gone"}]
    /\ target \in [Callers -> Jobs]
    /\ watch \in [Watchers -> {"idle", "check", "mark", "poll", "markAgain", "checkAgain",
                               "done", "expired", "gone"}]
    /\ watched \in [Watchers -> Jobs]
    /\ sent \in [Watchers -> Seq(1 .. MaxEvents)]
    /\ lastSeen \in [Watchers -> 0 .. MaxEvents]
    /\ racers \in [Jobs -> SUBSET Threads]

(* A job that has ended can only be changed by a thread that overlapped a   *)
(* write of another thread: transitionTo refuses everyone who looks later.  *)
LateWritersRaced ==
    \A j \in Jobs : state[j] \in Terminal => InFlight(j) \subseteq racers[j]

(* A job with a result has succeeded, and one with an error has failed,     *)
(* unless a cancel raced with the job and was written over its end.         *)
OutcomeMatchesState ==
    \A j \in Jobs :
        LET raced == state[j] \in {"cancelled", "torn"} /\ racers[j] # {} IN
        /\ result[j] => state[j] = "succeeded" \/ raced \/ state[j] = "lost"
        /\ error[j] => state[j] = "failed" \/ raced \/ state[j] = "lost"
        /\ ~ (result[j] /\ error[j])

(* A watcher gets each event at most once and in the order of the log,      *)
(* whatever is appended between two of its reads (Events).                  *)
WatchersInOrder ==
    \A w \in Watchers : \A i \in 1 .. Len(sent[w]) - 1 : sent[w][i] < sent[w][i + 1]

(* Every submitted job ends and stays ended, however cancels interleave     *)
(* with the executor, unless two racing writes tear its state or the        *)
(* process panics.                                                          *)
JobsSettle ==
    \A j \in Jobs : (state[j] = "pending") ~> [](state[j] \in Terminal \cup {"torn", "lost"})

-----------------------------------------------------------------------------
Outcome == [j \in Jobs |-> IF result[j] THEN "result" ELSE IF error[j] THEN "error" ELSE "none"]

(* What a cancelling request will be answered: settled by its write.        *)
Answer == [c \in Callers |->
    CASE cancel[c] \in {"save", "ok"} -> "ok"
      [] cancel[c] = "conflict"       -> "conflict"
      [] OTHER                        -> "none"]

Lifecycle == INSTANCE JobLifecycle WITH
    outcome <- Outcome, racy <- [j \in Jobs |-> racers[j] # {}], answer <- Answer

(* Executor, cancelling requests and the unsynchronized Job keep the        *)
(* lifecycle of JobLifecycle until somebody races, and a race loosens only  *)
(* the job it is about (transitionTo, executeJob, CancelJob).               *)
ImplementsLifecycle == Lifecycle!LifecycleSpec
=============================================================================
