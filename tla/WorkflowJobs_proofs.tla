------------------------- MODULE WorkflowJobs_proofs -------------------------
(***************************************************************************)
(* Proofs about WorkflowJobs, for any jobs, callers, watchers and steps.     *)
(***************************************************************************)
EXTENDS WorkflowJobs, TLAPS, SequenceTheorems

(* How far the executor is decides how long the step log is. *)
LogOf(j) ==
    /\ state[j] = "absent" => exec[j] = "none"
    /\ exec[j] \in {"none", "start", "startWrite"} => log[j] = 0 /\ done[j] = 0
    /\ exec[j] = "step" => log[j] = 2 * done[j] /\ done[j] < NSteps
    /\ exec[j] = "call" => log[j] = 2 * done[j] + 1 /\ done[j] < NSteps

LogFollowsExecutor == \A j \in Jobs : LogOf(j)

TypeInv == TypeOK /\ LogFollowsExecutor

(* A thread whose check overlaps a write is recorded among the racers.      *)
LEMMA OverlapType ==
    ASSUME TypeOK, NEW j \in Jobs, NEW t \in Threads, NEW seen, Overlap(j, t, seen)
    PROVE  /\ racers' \in [Jobs -> SUBSET Threads]
           /\ \A k \in Jobs : racers[k] \subseteq racers'[k]
           /\ seen = "torn" => t \in racers'[j]
BY DEF Overlap, TypeOK

(* A write changes the state of one job, to the new state or a torn one.    *)
LEMMA WriteType ==
    ASSUME TypeOK, NEW j \in Jobs, NEW t \in Threads, NEW next \in States, Write(j, t, next)
    PROVE  /\ state' \in [Jobs -> States]
           /\ \A k \in Jobs : k # j => state'[k] = state[k]
           /\ state'[j] = next \/ (state'[j] = "torn" /\ t \in racers[j])
           /\ racers' \in [Jobs -> SUBSET Threads]
           /\ racers' = [racers EXCEPT ![j] = @ \cup (InFlight(j) \ {t})]
<1>1. InFlight(j) \subseteq Threads
  BY DEF InFlight, Threads
<1> QED
  BY <1>1 DEF Write, TypeOK, States

(* A read of the state sees the state or a torn one. *)
LEMMA ReadsSee ==
    ASSUME NEW j \in Jobs, NEW seen \in Reads(j)
    PROVE  seen = state[j] \/ seen = "torn"
BY DEF Reads

(* The events between two places of the log are consecutive numbers. *)
LEMMA NumbersType ==
    ASSUME NEW from \in Nat, NEW to \in 0 .. MaxEvents
    PROVE  /\ Numbers(from, to) \in Seq(1 .. MaxEvents)
           /\ Len(Numbers(from, to)) = IF from <= to THEN to - from ELSE 0
           /\ \A i \in 1 .. Len(Numbers(from, to)) : Numbers(from, to)[i] = from + i
<1> DEFINE n == IF from <= to THEN to - from ELSE 0
<1>1. MaxEvents \in Nat
  BY JobsAssumption DEF MaxEvents
<1>2. n \in Nat /\ 1 .. (to - from) = 1 .. n
  BY <1>1
<1>3. Numbers(from, to) = [i \in 1 .. n |-> from + i]
  BY <1>2 DEF Numbers
<1>4. \A i \in 1 .. n : from + i \in 1 .. MaxEvents
  BY <1>1
<1>5. [i \in 1 .. n |-> from + i] \in [1 .. n -> 1 .. MaxEvents]
  BY <1>4
<1> HIDE DEF n
<1>6. [i \in 1 .. n |-> from + i] \in Seq(1 .. MaxEvents)
  BY <1>2, <1>5
<1>7. Len([i \in 1 .. n |-> from + i]) = n
  BY <1>2, <1>6, LenProperties
<1> QED
  BY <1>2, <1>3, <1>6, <1>7 DEF n

LEMMA TypeInit == Init => TypeInv
<1> SUFFICES ASSUME Init PROVE TypeInv
  OBVIOUS
<1>1. MaxEvents \in Nat
  BY JobsAssumption DEF MaxEvents
<1>2. TypeOK
  BY <1>1, JobsAssumption DEF Init, TypeOK, States
<1>3. LogFollowsExecutor
  BY DEF Init, LogFollowsExecutor, LogOf
<1> QED
  BY <1>2, <1>3 DEF TypeInv

LEMMA TypeNext == TypeInv /\ [Next]_vars => TypeInv'
<1> SUFFICES ASSUME TypeInv, [Next]_vars PROVE TypeInv'
  OBVIOUS
<1> USE JobsAssumption DEF TypeInv
<1>0. MaxEvents \in Nat /\ Executor \in Threads /\ Callers \subseteq Threads
  BY DEF MaxEvents, Threads
<1>1. ASSUME NEW j \in Jobs, Submit(j) PROVE TypeInv'
  <2>1. TypeOK'
    BY <1>0, <1>1 DEF Submit, Save, States, TypeOK, jobVars, execVars, cancelVars, watchVars
  <2>2. LogFollowsExecutor'
    BY <1>0, <1>1 DEF Submit, Save, TypeOK, LogFollowsExecutor, LogOf, jobVars, execVars, cancelVars, watchVars
  <2> QED
    BY <2>1, <2>2
<1>2. ASSUME NEW j \in Jobs, CheckStart(j) PROVE TypeInv'
  <2>1. PICK seen : Overlap(j, Executor, seen)
    BY <1>2 DEF CheckStart
  <2>2. racers' \in [Jobs -> SUBSET Threads]
    BY <1>0, <2>1, OverlapType
  <2>a. \/ exec' = [exec EXCEPT ![j] = "startWrite"] /\ listed' = listed
        \/ exec' = [exec EXCEPT ![j] = "exit"] /\ listed' = [listed EXCEPT ![j] = @ + 1]
    BY <1>2 DEF CheckStart, Goto, Save
  <2>b. listed' \in [Jobs -> Nat]
    <3>1. listed' = listed \/ listed' = [listed EXCEPT ![j] = @ + 1]
      BY <2>a
    <3> QED
      BY <3>1 DEF TypeOK
  <2>3. TypeOK'
    BY <1>2, <2>2, <2>a, <2>b DEF CheckStart, TypeOK, jobVars, execVars, cancelVars, watchVars
  <2>4. LogFollowsExecutor'
    BY <1>2 DEF CheckStart, Goto, Save, TypeOK, LogFollowsExecutor, LogOf, jobVars, execVars, cancelVars, watchVars
  <2> QED
    BY <2>3, <2>4
<1>3. ASSUME NEW j \in Jobs, WriteStart(j) PROVE TypeInv'
  <2>0. j \in Jobs /\ Executor \in Threads
    BY <1>0, <1>3 DEF TypeOK
  <2>1. Write(j, Executor, "running")
    BY <1>3 DEF WriteStart
  <2>2. /\ state' \in [Jobs -> States]
        /\ racers' \in [Jobs -> SUBSET Threads]
        /\ \A k \in Jobs : state'[k] = "absent" => state[k] = "absent"
    BY <2>0, <2>1, WriteType DEF States
  <2>3. TypeOK'
    BY <1>3, <2>2 DEF WriteStart, Goto, TypeOK, jobVars, execVars, cancelVars, watchVars
  <2>4. LogFollowsExecutor'
    BY <1>3, <2>2 DEF WriteStart, Goto, TypeOK, LogFollowsExecutor, LogOf, jobVars, execVars, cancelVars, watchVars
  <2> QED
    BY <2>3, <2>4
<1>4. ASSUME NEW j \in Jobs, StepStarted(j) PROVE TypeInv'
  <2>1. TypeOK'
    BY <1>0, <1>4 DEF StepStarted, AddStepEvent, Save, Goto, MaxEvents, LogFollowsExecutor, LogOf, TypeOK, jobVars, execVars, cancelVars, watchVars
  <2>2. LogFollowsExecutor'
    BY <1>0, <1>4 DEF StepStarted, AddStepEvent, Save, Goto, TypeOK, LogFollowsExecutor, LogOf, jobVars, execVars, cancelVars, watchVars
  <2> QED
    BY <2>1, <2>2
<1>5. ASSUME NEW j \in Jobs, StepCompleted(j) PROVE TypeInv'
  <2>1. TypeOK'
    BY <1>0, <1>5 DEF StepCompleted, AddStepEvent, Save, Goto, NextStep, MaxEvents, LogFollowsExecutor, LogOf, TypeOK,
                      jobVars, execVars, cancelVars, watchVars
  <2>2. /\ log[j] = 2 * done[j] + 1 /\ done[j] \in 0 .. NSteps /\ done[j] < NSteps
        /\ exec' = [exec EXCEPT ![j] = NextStep(j)]
        /\ log' = [log EXCEPT ![j] = @ + 1] /\ done' = [done EXCEPT ![j] = @ + 1]
        /\ state' = state /\ state[j] # "absent"
    BY <1>5 DEF StepCompleted, AddStepEvent, Goto, LogFollowsExecutor, LogOf, TypeOK
  <2>3. LogOf(j)'
    <3>1. log'[j] = 2 * done[j] + 2 /\ done'[j] = done[j] + 1
      BY <2>2 DEF TypeOK
    <3>2. CASE done[j] + 1 = NSteps
      BY <2>2, <3>2 DEF NextStep, LogOf, TypeOK
    <3>3. CASE done[j] + 1 # NSteps
      <4>1. exec'[j] = "step"
        BY <2>2, <3>3 DEF NextStep, TypeOK
      <4>2. log'[j] = 2 * done'[j] /\ done'[j] < NSteps
        BY <2>2, <3>1, <3>3
      <4> QED
        BY <2>2, <4>1, <4>2 DEF LogOf
    <3> QED
      BY <3>2, <3>3
  <2>4. ASSUME NEW k \in Jobs, k # j PROVE LogOf(k)'
    BY <2>2, <2>4 DEF LogFollowsExecutor, LogOf, TypeOK
  <2> QED
    BY <2>1, <2>3, <2>4 DEF LogFollowsExecutor
<1>6. ASSUME NEW j \in Jobs, StepFailed(j) PROVE TypeInv'
  <2>1. TypeOK'
    BY <1>0, <1>6 DEF StepFailed, AddStepEvent, Goto, AfterFailure, MaxEvents, LogFollowsExecutor, LogOf, TypeOK, jobVars, execVars, cancelVars, watchVars
  <2>2. LogFollowsExecutor'
    BY <1>0, <1>6 DEF StepFailed, AddStepEvent, Goto, AfterFailure, TypeOK, LogFollowsExecutor, LogOf, jobVars, execVars, cancelVars, watchVars
  <2> QED
    BY <2>1, <2>2
<1>7. ASSUME NEW j \in Jobs, CheckEnd(j) PROVE TypeInv'
  <2>1. PICK seen : Overlap(j, Executor, seen)
    BY <1>7 DEF CheckEnd
  <2>2. racers' \in [Jobs -> SUBSET Threads]
    BY <1>0, <2>1, OverlapType
  <2>3. TypeOK'
    BY <1>7, <2>2 DEF CheckEnd, Goto, AfterRefusal, TypeOK, jobVars, execVars, cancelVars, watchVars
  <2>4. LogFollowsExecutor'
    BY <1>7 DEF CheckEnd, Goto, AfterRefusal, TypeOK, LogFollowsExecutor, LogOf, jobVars, execVars, cancelVars, watchVars
  <2> QED
    BY <2>3, <2>4
<1>8. ASSUME NEW j \in Jobs, WriteEnd(j) PROVE TypeInv'
  <2>0. j \in Jobs /\ Executor \in Threads
    BY <1>0, <1>8 DEF TypeOK
  <2>1. Write(j, Executor, "succeeded") \/ Write(j, Executor, "failed")
    BY <1>8 DEF WriteEnd
  <2>2. /\ state' \in [Jobs -> States]
        /\ racers' \in [Jobs -> SUBSET Threads]
        /\ \A k \in Jobs : state'[k] = "absent" => state[k] = "absent"
    BY <2>0, <2>1, WriteType DEF States
  <2>3. TypeOK'
    BY <1>8, <2>2 DEF WriteEnd, Goto, TypeOK, jobVars, execVars, cancelVars, watchVars
  <2>4. LogFollowsExecutor'
    BY <1>8, <2>2 DEF WriteEnd, Goto, TypeOK, LogFollowsExecutor, LogOf, jobVars, execVars, cancelVars, watchVars
  <2> QED
    BY <2>3, <2>4
<1>9. ASSUME NEW j \in Jobs, SetOutcome(j) PROVE TypeInv'
  <2>1. TypeOK'
    BY <1>0, <1>9 DEF SetOutcome, Goto, TypeOK, jobVars, execVars, cancelVars, watchVars
  <2>2. LogFollowsExecutor'
    BY <1>0, <1>9 DEF SetOutcome, Goto, TypeOK, LogFollowsExecutor, LogOf, jobVars, execVars, cancelVars, watchVars
  <2> QED
    BY <2>1, <2>2
<1>10. ASSUME NEW j \in Jobs, SaveEnd(j) PROVE TypeInv'
  <2>1. TypeOK'
    BY <1>0, <1>10 DEF SaveEnd, Goto, Save, TypeOK, jobVars, execVars, cancelVars, watchVars
  <2>2. LogFollowsExecutor'
    BY <1>0, <1>10 DEF SaveEnd, Goto, Save, TypeOK, LogFollowsExecutor, LogOf, jobVars, execVars, cancelVars, watchVars
  <2> QED
    BY <2>1, <2>2
<1>11. ASSUME NEW j \in Jobs, NilAnswer(j) PROVE TypeInv'
  <2>1. TypeOK'
    BY <1>0, <1>11 DEF NilAnswer, States, TypeOK, jobVars, execVars, cancelVars, watchVars
  <2>2. LogFollowsExecutor'
    BY <1>0, <1>11 DEF NilAnswer, TypeOK, LogFollowsExecutor, LogOf, jobVars, execVars, cancelVars, watchVars
  <2> QED
    BY <2>1, <2>2
<1>12. ASSUME NEW c \in Callers, CheckCancel(c) PROVE TypeInv'
  <2>0. target[c] \in Jobs /\ c \in Threads
    BY <1>0, <1>12 DEF TypeOK
  <2>1. PICK seen : Overlap(target[c], c, seen)
    BY <1>12 DEF CheckCancel
  <2>2. racers' \in [Jobs -> SUBSET Threads]
    BY <2>0, <2>1, OverlapType
  <2>3. TypeOK'
    BY <1>12, <2>2 DEF CheckCancel, AfterConflict, TypeOK, jobVars, execVars, cancelVars, watchVars
  <2>4. LogFollowsExecutor'
    BY <1>12 DEF CheckCancel, AfterConflict, LogFollowsExecutor, LogOf, jobVars, execVars, cancelVars, watchVars
  <2> QED
    BY <2>3, <2>4
<1>13. ASSUME NEW c \in Callers, WriteCancel(c) PROVE TypeInv'
  <2>0. target[c] \in Jobs /\ c \in Threads
    BY <1>0, <1>13 DEF TypeOK
  <2>1. Write(target[c], c, "cancelled")
    BY <1>13 DEF WriteCancel
  <2>2. /\ state' \in [Jobs -> States]
        /\ racers' \in [Jobs -> SUBSET Threads]
        /\ \A k \in Jobs : state'[k] = "absent" => state[k] = "absent"
    BY <2>0, <2>1, WriteType DEF States
  <2>3. TypeOK'
    BY <1>13, <2>2 DEF WriteCancel, TypeOK, jobVars, execVars, cancelVars, watchVars
  <2>4. LogFollowsExecutor'
    BY <1>13, <2>2 DEF WriteCancel, TypeOK, LogFollowsExecutor, LogOf, jobVars, execVars, cancelVars, watchVars
  <2> QED
    BY <2>3, <2>4
<1>14. ASSUME NEW c \in Callers, SaveCancel(c) PROVE TypeInv'
  <2>1. TypeOK'
    BY <1>0, <1>14 DEF SaveCancel, Save, TypeOK, jobVars, execVars, cancelVars, watchVars
  <2>2. LogFollowsExecutor'
    BY <1>0, <1>14 DEF SaveCancel, Save, TypeOK, LogFollowsExecutor, LogOf, jobVars, execVars, cancelVars, watchVars
  <2> QED
    BY <2>1, <2>2
<1>15. ASSUME NEW w \in Watchers, SendLog(w) PROVE TypeInv'
  <2>1. TypeOK'
    BY <1>0, <1>15, NumbersType DEF SendLog, TypeOK, jobVars, execVars, cancelVars, watchVars
  <2>2. LogFollowsExecutor'
    BY <1>0, <1>15 DEF SendLog, TypeOK, LogFollowsExecutor, LogOf, jobVars, execVars, cancelVars, watchVars
  <2> QED
    BY <2>1, <2>2
<1>16. ASSUME NEW w \in Watchers, CheckDone(w) PROVE TypeInv'
  <2>1. TypeOK'
    BY <1>0, <1>16 DEF CheckDone, TypeOK, jobVars, execVars, cancelVars, watchVars
  <2>2. LogFollowsExecutor'
    BY <1>0, <1>16 DEF CheckDone, TypeOK, LogFollowsExecutor, LogOf, jobVars, execVars, cancelVars, watchVars
  <2> QED
    BY <2>1, <2>2
<1>17. ASSUME NEW w \in Watchers, MarkSeen(w) PROVE TypeInv'
  <2>1. TypeOK'
    BY <1>0, <1>17 DEF MarkSeen, Cursor, TypeOK, jobVars, execVars, cancelVars, watchVars
  <2>2. LogFollowsExecutor'
    BY <1>0, <1>17 DEF MarkSeen, TypeOK, LogFollowsExecutor, LogOf, jobVars, execVars, cancelVars, watchVars
  <2> QED
    BY <2>1, <2>2
<1>18. ASSUME NEW w \in Watchers, Poll(w) PROVE TypeInv'
  <2>a. lastSeen[w] \in Nat /\ watched[w] \in Jobs /\ log[watched[w]] \in 0 .. MaxEvents
    BY <1>0 DEF TypeOK
  <2>1. Numbers(lastSeen[w], log[watched[w]]) \in Seq(1 .. MaxEvents)
    BY <1>0, <2>a, NumbersType
  <2>2. sent[w] \o Numbers(lastSeen[w], log[watched[w]]) \in Seq(1 .. MaxEvents)
    BY <2>1, ConcatProperties DEF TypeOK
  <2>3. TypeOK'
    BY <1>18, <2>2 DEF Poll, TypeOK, jobVars, execVars, cancelVars, watchVars
  <2>4. LogFollowsExecutor'
    BY <1>18 DEF Poll, LogFollowsExecutor, LogOf, jobVars, execVars, cancelVars, watchVars
  <2> QED
    BY <2>3, <2>4
<1>19. ASSUME NEW w \in Watchers, PollDeadline(w) PROVE TypeInv'
  <2>1. TypeOK'
    BY <1>0, <1>19 DEF PollDeadline, TypeOK, jobVars, execVars, cancelVars, watchVars
  <2>2. LogFollowsExecutor'
    BY <1>0, <1>19 DEF PollDeadline, TypeOK, LogFollowsExecutor, LogOf, jobVars, execVars, cancelVars, watchVars
  <2> QED
    BY <2>1, <2>2
<1>20. CASE UNCHANGED vars
  BY <1>20 DEF TypeOK, LogFollowsExecutor, LogOf, vars, jobVars, execVars, cancelVars, watchVars
<1> QED
  BY <1>1, <1>2, <1>3, <1>4, <1>5, <1>6, <1>7, <1>8, <1>9, <1>10, <1>11, <1>12, <1>13, <1>14, <1>15,
     <1>16, <1>17, <1>18, <1>19, <1>20 DEF Next, Execute, Cancel, Watch

(* Every variable keeps its type, and the log of a job never outgrows its    *)
(* workflow (executeJob).                                                   *)
THEOREM JobsTypeCorrect == Spec => []TypeOK
<1>1. TypeInv => TypeOK
  BY DEF TypeInv
<1> QED
  BY TypeInit, TypeNext, <1>1, PTL DEF Spec


-----------------------------------------------------------------------------
(* The process ends as a whole. *)
GoneTogether ==
    \A j \in Jobs : state[j] = "lost" =>
        /\ \A k \in Jobs : state[k] = "lost" /\ exec[k] = "gone"
        /\ \A c \in Callers : cancel[c] = "gone"

(* The job ended as s, or a racing write lies over it. *)
Stands(j, s) ==
    \/ state[j] = s
    \/ state[j] \in {"cancelled", "torn"} /\ racers[j] # {}
    \/ state[j] = "lost"

(* The outcome is written after the state, and once. *)
OutcomeOf(j) ==
    /\ exec[j] = "result" \/ result[j] => Stands(j, "succeeded")
    /\ exec[j] = "error" \/ error[j] => Stands(j, "failed")
    /\ result[j] \/ error[j] => exec[j] \in {"save", "exit", "gone"}
    /\ ~ (result[j] /\ error[j])

RacedOf(j) == state[j] \in Terminal => InFlight(j) \subseteq racers[j]

RaceInv == \A j \in Jobs : OutcomeOf(j) /\ RacedOf(j)

(* Who is in flight for a job is either a caller or the executor.           *)
LEMMA InFlightIs ==
    ASSUME NEW j \in Jobs, NEW t
    PROVE  t \in InFlight(j) <=>
              \/ t \in Callers /\ cancel[t] = "write" /\ target[t] = j
              \/ t = Executor /\ exec[j] \in {"startWrite", "succeedWrite", "failWrite"}
BY DEF InFlight, Written

LEMMA InFlightIsNext ==
    ASSUME NEW j \in Jobs, NEW t
    PROVE  t \in InFlight(j)' <=>
              \/ t \in Callers /\ cancel'[t] = "write" /\ target'[t] = j
              \/ t = Executor /\ exec'[j] \in {"startWrite", "succeedWrite", "failWrite"}
BY DEF InFlight, Written

(* transitionTo lets nobody leave a terminal state it has read.             *)
LEMMA TerminalRefuses ==
    ASSUME NEW s \in Terminal
    PROVE  MayMove(s) = {}
BY DEF MayMove, Terminal

LEMMA GoneInit == Init => GoneTogether /\ RaceInv
BY InFlightIs DEF Init, GoneTogether, RaceInv, OutcomeOf, RacedOf, Terminal

LEMMA GoneNext == TypeInv /\ GoneTogether /\ [Next]_vars => GoneTogether'
<1> SUFFICES ASSUME TypeOK, LogFollowsExecutor, GoneTogether, [Next]_vars PROVE GoneTogether'
  BY DEF TypeInv
<1> USE JobsAssumption
<1>0. Executor \in Threads /\ Callers \subseteq Threads
  BY DEF Threads
<1>1. ASSUME NEW j \in Jobs, Submit(j) PROVE GoneTogether'
  BY <1>1 DEF Submit, Save, GoneTogether, TypeOK, LogFollowsExecutor, LogOf, jobVars, execVars, cancelVars, watchVars
<1>2. ASSUME NEW j \in Jobs, CheckStart(j) PROVE GoneTogether'
  BY <1>2 DEF CheckStart, Goto, GoneTogether, TypeOK, LogFollowsExecutor, LogOf, jobVars, execVars, cancelVars, watchVars
<1>3. ASSUME NEW j \in Jobs, WriteStart(j) PROVE GoneTogether'
  <2>0. j \in Jobs /\ Executor \in Threads
    BY <1>0, <1>3 DEF TypeOK
  <2>1. Write(j, Executor, "running")
    BY <1>3 DEF WriteStart
  <2>2. state'[j] # "lost" /\ \A k \in Jobs : k # j => state'[k] = state[k]
    BY <2>0, <2>1, WriteType DEF States
  <2>3. \A k \in Jobs : state[k] # "lost"
    BY <1>3, <2>0 DEF WriteStart, GoneTogether
  <2> QED
    BY <2>0, <2>2, <2>3 DEF GoneTogether
<1>4. ASSUME NEW j \in Jobs, StepStarted(j) PROVE GoneTogether'
  BY <1>4 DEF StepStarted, Goto, GoneTogether, TypeOK, LogFollowsExecutor, LogOf, jobVars, execVars, cancelVars, watchVars
<1>5. ASSUME NEW j \in Jobs, StepCompleted(j) PROVE GoneTogether'
  BY <1>5 DEF StepCompleted, Goto, GoneTogether, TypeOK, LogFollowsExecutor, LogOf, jobVars, execVars, cancelVars, watchVars
<1>6. ASSUME NEW j \in Jobs, StepFailed(j) PROVE GoneTogether'
  BY <1>6 DEF StepFailed, Goto, GoneTogether, TypeOK, LogFollowsExecutor, LogOf, jobVars, execVars, cancelVars, watchVars
<1>7. ASSUME NEW j \in Jobs, CheckEnd(j) PROVE GoneTogether'
  BY <1>7 DEF CheckEnd, Goto, GoneTogether, TypeOK, LogFollowsExecutor, LogOf, jobVars, execVars, cancelVars, watchVars
<1>8. ASSUME NEW j \in Jobs, WriteEnd(j) PROVE GoneTogether'
  <2>0. j \in Jobs /\ Executor \in Threads
    BY <1>0, <1>8 DEF TypeOK
  <2>1. Write(j, Executor, "succeeded") \/ Write(j, Executor, "failed")
    BY <1>8 DEF WriteEnd
  <2>2. state'[j] # "lost" /\ \A k \in Jobs : k # j => state'[k] = state[k]
    BY <2>0, <2>1, WriteType DEF States
  <2>3. \A k \in Jobs : state[k] # "lost"
    BY <1>8, <2>0 DEF WriteEnd, GoneTogether
  <2> QED
    BY <2>0, <2>2, <2>3 DEF GoneTogether
<1>9. ASSUME NEW j \in Jobs, SetOutcome(j) PROVE GoneTogether'
  BY <1>9 DEF SetOutcome, Goto, GoneTogether, TypeOK, LogFollowsExecutor, LogOf, jobVars, execVars, cancelVars, watchVars
<1>10. ASSUME NEW j \in Jobs, SaveEnd(j) PROVE GoneTogether'
  BY <1>10 DEF SaveEnd, Goto, GoneTogether, TypeOK, LogFollowsExecutor, LogOf, jobVars, execVars, cancelVars, watchVars
<1>11. ASSUME NEW j \in Jobs, NilAnswer(j) PROVE GoneTogether'
  BY <1>11 DEF NilAnswer, GoneTogether, TypeOK, LogFollowsExecutor, LogOf, jobVars, execVars, cancelVars, watchVars
<1>12. ASSUME NEW c \in Callers, CheckCancel(c) PROVE GoneTogether'
  BY <1>12 DEF CheckCancel, AfterConflict, GoneTogether, TypeOK, LogFollowsExecutor, LogOf, jobVars, execVars, cancelVars, watchVars
<1>13. ASSUME NEW c \in Callers, WriteCancel(c) PROVE GoneTogether'
  <2>0. target[c] \in Jobs /\ c \in Threads
    BY <1>0, <1>13 DEF TypeOK
  <2>1. Write(target[c], c, "cancelled")
    BY <1>13 DEF WriteCancel
  <2>2. state'[target[c]] # "lost" /\ \A k \in Jobs : k # target[c] => state'[k] = state[k]
    BY <2>0, <2>1, WriteType DEF States
  <2>3. \A k \in Jobs : state[k] # "lost"
    BY <1>13, <2>0 DEF WriteCancel, GoneTogether
  <2> QED
    BY <2>0, <2>2, <2>3 DEF GoneTogether
<1>14. ASSUME NEW c \in Callers, SaveCancel(c) PROVE GoneTogether'
  BY <1>14 DEF SaveCancel, GoneTogether, TypeOK, LogFollowsExecutor, LogOf, jobVars, execVars, cancelVars, watchVars
<1>15. ASSUME NEW w \in Watchers, Watch(w) PROVE GoneTogether'
  BY <1>15 DEF Watch, SendLog, CheckDone, MarkSeen, Poll, PollDeadline, GoneTogether, jobVars, execVars, cancelVars, watchVars
<1>16. CASE UNCHANGED vars
  BY <1>16 DEF GoneTogether, vars, jobVars, execVars, cancelVars, watchVars
<1> QED
  BY <1>1, <1>2, <1>3, <1>4, <1>5, <1>6, <1>7, <1>8, <1>9, <1>10, <1>11, <1>12, <1>13, <1>14, <1>15, <1>16 DEF Next, Execute, Cancel
LEMMA RaceNext == TypeInv /\ GoneTogether /\ RaceInv /\ [Next]_vars => RaceInv'
<1> SUFFICES ASSUME TypeOK, LogFollowsExecutor, GoneTogether, RaceInv, [Next]_vars,
                    NEW k \in Jobs
             PROVE  (OutcomeOf(k) /\ RacedOf(k))'
  BY DEF TypeInv, RaceInv
<1> USE JobsAssumption
<1>0. Executor \in Threads /\ Callers \subseteq Threads
  BY DEF Threads
<1>00. OutcomeOf(k) /\ RacedOf(k)
  BY DEF RaceInv
<1>1. ASSUME NEW j \in Jobs, Submit(j) PROVE (OutcomeOf(k) /\ RacedOf(k))'
  <2>1. OutcomeOf(k)'
    BY <1>00, <1>1 DEF Submit, Save, LogFollowsExecutor, LogOf, Terminal, OutcomeOf, Stands, TypeOK, jobVars, execVars, cancelVars, watchVars
  <2>2. RacedOf(k)'
    BY <1>00, <1>1, InFlightIs, InFlightIsNext DEF Submit, Save, LogFollowsExecutor, LogOf, Terminal, RacedOf, TypeOK, jobVars, execVars, cancelVars, watchVars
  <2> QED
    BY <2>1, <2>2
<1>2. ASSUME NEW j \in Jobs, CheckStart(j) PROVE (OutcomeOf(k) /\ RacedOf(k))'
  <2>0. j \in Jobs /\ Executor \in Threads
    BY <1>0, <1>2 DEF TypeOK
  <2>1. PICK seen \in Reads(j) : Overlap(j, Executor, seen) /\ exec' = [exec EXCEPT ![j] = IF "running" \in MayMove(seen) THEN "startWrite" ELSE "exit"]
    BY <1>2 DEF CheckStart, Goto, AfterRefusal
  <2>2. /\ \A i \in Jobs : racers[i] \subseteq racers'[i]
        /\ seen = "torn" => Executor \in racers'[j]
    BY <2>0, <2>1, OverlapType
  <2>3. seen = state[j] \/ seen = "torn"
    BY <2>0, <2>1, ReadsSee
  <2>4. OutcomeOf(k)'
    BY <1>00, <1>2, <2>1, <2>2 DEF CheckStart, Goto, OutcomeOf, Stands, TypeOK, jobVars, execVars, cancelVars, watchVars
  <2>5. RacedOf(k)'
    <3>1. SUFFICES ASSUME state[k] \in Terminal, NEW t \in InFlight(k)', t \notin racers[k]
                   PROVE  t \in racers'[k]
      BY <1>2, <2>2 DEF CheckStart, RacedOf
    <3>2. t \notin InFlight(k)
      BY <1>00, <3>1 DEF RacedOf
    <3>3. k = j /\ t = Executor
      BY <1>2, <2>0, <2>1, <3>1, <3>2, InFlightIs, InFlightIsNext DEF CheckStart, Goto, TypeOK, jobVars, execVars, cancelVars, watchVars
    <3>4. seen # state[k]
      BY <1>2, <2>0, <2>1, <3>1, <3>2, <3>3, TerminalRefuses, InFlightIs, InFlightIsNext
         DEF CheckStart, Goto, TypeOK, jobVars, execVars, cancelVars, watchVars
    <3> QED
      BY <2>2, <2>3, <3>3, <3>4
  <2> QED
    BY <2>4, <2>5
<1>3. ASSUME NEW j \in Jobs, WriteStart(j) PROVE (OutcomeOf(k) /\ RacedOf(k))'
  <2>0. j \in Jobs /\ Executor \in Threads /\ Executor \in InFlight(j)
    BY <1>0, <1>3, InFlightIs DEF WriteStart, TypeOK
  <2>1. Write(j, Executor, "running")
    BY <1>3 DEF WriteStart, Goto
  <2>2. racers' = [racers EXCEPT ![j] = @ \cup (InFlight(j) \ {Executor})]
    BY <2>0, <2>1, WriteType DEF States
  <2>3. \A i \in Jobs : racers[i] \subseteq racers'[i]
    BY <2>0, <2>2 DEF TypeOK
  <2>4. \A i \in Jobs : i # j => state'[i] = state[i]
    BY <2>0, <2>1, WriteType DEF States
  <2>5. \A i \in Jobs : state[i] # "lost"
    BY <1>3, <2>0 DEF WriteStart, GoneTogether
  <2>6. OutcomeOf(k)'
    <3>1. CASE k # j
      BY <1>00, <1>3, <2>0, <2>3, <2>4, <3>1 DEF WriteStart, Goto, OutcomeOf, Stands, TypeOK, jobVars, execVars, cancelVars, watchVars
    <3>2. CASE k = j
      BY <1>00, <1>3, <3>2 DEF WriteStart, Goto, OutcomeOf, Stands, TypeOK, jobVars, execVars, cancelVars, watchVars
    <3> QED
      BY <3>1, <3>2
  <2>7. RacedOf(k)'
    <3>1. exec'[j] = "step" /\ cancel' = cancel /\ target' = target
          /\ \A i \in Jobs : i # j => exec'[i] = exec[i]
      BY <1>3 DEF WriteStart, Goto, TypeOK, cancelVars
    <3>2. ASSUME NEW x \in InFlight(k)' PROVE x \in InFlight(k) /\ (k = j => x # Executor)
      <4>1. \/ x \in Callers /\ cancel[x] = "write" /\ target[x] = k
            \/ x = Executor /\ exec'[k] \in {"startWrite", "succeedWrite", "failWrite"}
        BY <3>1, <3>2, InFlightIsNext
      <4>2. exec'[k] \in {"startWrite", "succeedWrite", "failWrite"} => k # j /\ exec[k] = exec'[k]
        BY <3>1
      <4>3. x \in Callers => x # Executor
        BY DEF TypeOK
      <4> QED
        BY <4>1, <4>2, <4>3, InFlightIs
    <3>3. k # j => state'[k] = state[k]
      BY <2>4
    <3>4. k = j => \A x \in InFlight(k)' : x \in racers'[k]
      BY <2>2, <3>2 DEF TypeOK
    <3> QED
      BY <1>00, <2>3, <3>2, <3>3, <3>4 DEF RacedOf
  <2> QED
    BY <2>6, <2>7
<1>4. ASSUME NEW j \in Jobs, StepStarted(j) PROVE (OutcomeOf(k) /\ RacedOf(k))'
  <2>1. OutcomeOf(k)'
    BY <1>00, <1>4 DEF StepStarted, Goto, OutcomeOf, Stands, TypeOK, jobVars, execVars, cancelVars, watchVars
  <2>2. RacedOf(k)'
    BY <1>00, <1>4, InFlightIs, InFlightIsNext DEF StepStarted, Goto, RacedOf, TypeOK, jobVars, execVars, cancelVars, watchVars
  <2> QED
    BY <2>1, <2>2
<1>5. ASSUME NEW j \in Jobs, StepCompleted(j) PROVE (OutcomeOf(k) /\ RacedOf(k))'
  <2>1. OutcomeOf(k)'
    BY <1>00, <1>5 DEF StepCompleted, Goto, NextStep, OutcomeOf, Stands, TypeOK, jobVars, execVars, cancelVars, watchVars
  <2>2. RacedOf(k)'
    BY <1>00, <1>5, InFlightIs, InFlightIsNext DEF StepCompleted, Goto, NextStep, RacedOf, TypeOK, jobVars, execVars, cancelVars, watchVars
  <2> QED
    BY <2>1, <2>2
<1>6. ASSUME NEW j \in Jobs, StepFailed(j) PROVE (OutcomeOf(k) /\ RacedOf(k))'
  <2>1. OutcomeOf(k)'
    BY <1>00, <1>6 DEF StepFailed, Goto, AfterFailure, OutcomeOf, Stands, TypeOK, jobVars, execVars, cancelVars, watchVars
  <2>2. RacedOf(k)'
    BY <1>00, <1>6, InFlightIs, InFlightIsNext DEF StepFailed, Goto, AfterFailure, RacedOf, TypeOK, jobVars, execVars, cancelVars, watchVars
  <2> QED
    BY <2>1, <2>2
<1>7. ASSUME NEW j \in Jobs, CheckEnd(j) PROVE (OutcomeOf(k) /\ RacedOf(k))'
  <2>0. j \in Jobs /\ Executor \in Threads
    BY <1>0, <1>7 DEF TypeOK
  <2>1. PICK seen \in Reads(j) :
           /\ Overlap(j, Executor, seen)
           /\ \E e \in {"save", "succeedWrite", "failWrite"} :
                 /\ exec' = [exec EXCEPT ![j] = e]
                 /\ e # "save" => MayMove(seen) # {}
    <3>1. PICK seen \in Reads(j) :
             /\ Overlap(j, Executor, seen)
             /\ \/ exec[j] = "succeed"
                   /\ exec' = [exec EXCEPT ![j] = IF "succeeded" \in MayMove(seen) THEN "succeedWrite" ELSE "save"]
                \/ exec[j] = "fail"
                   /\ exec' = [exec EXCEPT ![j] = IF "failed" \in MayMove(seen) THEN "failWrite" ELSE "save"]
      BY <1>7 DEF CheckEnd, Goto, AfterRefusal
    <3>2. CASE "succeeded" \in MayMove(seen)
      BY <3>1, <3>2
    <3>3. CASE "succeeded" \notin MayMove(seen)
      BY <3>1, <3>3
    <3> QED
      BY <3>2, <3>3
  <2>2. /\ \A i \in Jobs : racers[i] \subseteq racers'[i]
        /\ seen = "torn" => Executor \in racers'[j]
    BY <2>0, <2>1, OverlapType
  <2>3. seen = state[j] \/ seen = "torn"
    BY <2>0, <2>1, ReadsSee
  <2>4. OutcomeOf(k)'
    BY <1>00, <1>7, <2>1, <2>2 DEF CheckEnd, Goto, OutcomeOf, Stands, TypeOK, jobVars, execVars, cancelVars, watchVars
  <2>5. RacedOf(k)'
    <3>1. SUFFICES ASSUME state[k] \in Terminal, NEW t \in InFlight(k)', t \notin racers[k]
                   PROVE  t \in racers'[k]
      BY <1>7, <2>2 DEF CheckEnd, RacedOf
    <3>2. t \notin InFlight(k)
      BY <1>00, <3>1 DEF RacedOf
    <3>3. k = j /\ t = Executor
      BY <1>7, <2>0, <2>1, <3>1, <3>2, InFlightIs, InFlightIsNext DEF CheckEnd, Goto, TypeOK, jobVars, execVars, cancelVars, watchVars
    <3>4. seen # state[k]
      BY <1>7, <2>0, <2>1, <3>1, <3>2, <3>3, TerminalRefuses, InFlightIs, InFlightIsNext
         DEF CheckEnd, Goto, TypeOK, jobVars, execVars, cancelVars, watchVars
    <3> QED
      BY <2>2, <2>3, <3>3, <3>4
  <2> QED
    BY <2>4, <2>5
<1>8. ASSUME NEW j \in Jobs, WriteEnd(j) PROVE (OutcomeOf(k) /\ RacedOf(k))'
  <2>0. j \in Jobs /\ Executor \in Threads /\ Executor \in InFlight(j)
    BY <1>0, <1>8, InFlightIs DEF WriteEnd, TypeOK
  <2>1. \/ Write(j, Executor, "succeeded") /\ exec' = [exec EXCEPT ![j] = "result"]
        \/ Write(j, Executor, "failed") /\ exec' = [exec EXCEPT ![j] = "error"]
    BY <1>8 DEF WriteEnd, Goto
  <2>2. racers' = [racers EXCEPT ![j] = @ \cup (InFlight(j) \ {Executor})]
    BY <2>0, <2>1, WriteType DEF States
  <2>3. \A i \in Jobs : racers[i] \subseteq racers'[i]
    BY <2>0, <2>2 DEF TypeOK
  <2>4. \A i \in Jobs : i # j => state'[i] = state[i]
    BY <2>0, <2>1, WriteType DEF States
  <2>5. \A i \in Jobs : state[i] # "lost"
    BY <1>8, <2>0 DEF WriteEnd, GoneTogether
  <2>6. OutcomeOf(k)'
    <3>1. CASE k # j
      BY <1>00, <1>8, <2>0, <2>3, <2>4, <3>1 DEF WriteEnd, Goto, OutcomeOf, Stands, TypeOK, jobVars, execVars, cancelVars, watchVars
    <3>2. CASE k = j
      <4>1. ~ result[j] /\ ~ error[j]
        BY <1>00, <1>8, <3>2 DEF WriteEnd, OutcomeOf, TypeOK
      <4>2. CASE Write(j, Executor, "succeeded") /\ exec' = [exec EXCEPT ![j] = "result"]
        <5>1. state'[j] = "succeeded" \/ (state'[j] = "torn" /\ Executor \in racers[j])
          BY <2>0, <4>2, WriteType DEF States
        <5> QED
          BY <1>8, <2>3, <3>2, <4>1, <4>2, <5>1 DEF WriteEnd, OutcomeOf, Stands, TypeOK, jobVars, execVars, cancelVars, watchVars
      <4>3. CASE Write(j, Executor, "failed") /\ exec' = [exec EXCEPT ![j] = "error"]
        <5>1. state'[j] = "failed" \/ (state'[j] = "torn" /\ Executor \in racers[j])
          BY <2>0, <4>3, WriteType DEF States
        <5> QED
          BY <1>8, <2>3, <3>2, <4>1, <4>3, <5>1 DEF WriteEnd, OutcomeOf, Stands, TypeOK, jobVars, execVars, cancelVars, watchVars
      <4> QED
        BY <2>1, <4>2, <4>3
    <3> QED
      BY <3>1, <3>2
  <2>7. RacedOf(k)'
    <3>1. exec'[j] \in {"result", "error"} /\ cancel' = cancel /\ target' = target
          /\ \A i \in Jobs : i # j => exec'[i] = exec[i]
      BY <1>8, <2>1 DEF WriteEnd, TypeOK, cancelVars
    <3>2. ASSUME NEW x \in InFlight(k)' PROVE x \in InFlight(k) /\ (k = j => x # Executor)
      <4>1. \/ x \in Callers /\ cancel[x] = "write" /\ target[x] = k
            \/ x = Executor /\ exec'[k] \in {"startWrite", "succeedWrite", "failWrite"}
        BY <3>1, <3>2, InFlightIsNext
      <4>2. exec'[k] \in {"startWrite", "succeedWrite", "failWrite"} => k # j /\ exec[k] = exec'[k]
        BY <3>1
      <4>3. x \in Callers => x # Executor
        BY DEF TypeOK
      <4> QED
        BY <4>1, <4>2, <4>3, InFlightIs
    <3>3. k # j => state'[k] = state[k]
      BY <2>4
    <3>4. k = j => \A x \in InFlight(k)' : x \in racers'[k]
      BY <2>2, <3>2 DEF TypeOK
    <3> QED
      BY <1>00, <2>3, <3>2, <3>3, <3>4 DEF RacedOf
  <2> QED
    BY <2>6, <2>7
<1>9. ASSUME NEW j \in Jobs, SetOutcome(j) PROVE (OutcomeOf(k) /\ RacedOf(k))'
  <2>1. OutcomeOf(k)'
    BY <1>00, <1>9 DEF SetOutcome, Goto, OutcomeOf, Stands, TypeOK, jobVars, execVars, cancelVars, watchVars
  <2>2. RacedOf(k)'
    BY <1>00, <1>9, InFlightIs, InFlightIsNext DEF SetOutcome, Goto, RacedOf, TypeOK, jobVars, execVars, cancelVars, watchVars
  <2> QED
    BY <2>1, <2>2
<1>10. ASSUME NEW j \in Jobs, SaveEnd(j) PROVE (OutcomeOf(k) /\ RacedOf(k))'
  <2>1. OutcomeOf(k)'
    BY <1>00, <1>10 DEF SaveEnd, Goto, OutcomeOf, Stands, TypeOK, jobVars, execVars, cancelVars, watchVars
  <2>2. RacedOf(k)'
    BY <1>00, <1>10, InFlightIs, InFlightIsNext DEF SaveEnd, Goto, RacedOf, TypeOK, jobVars, execVars, cancelVars, watchVars
  <2> QED
    BY <2>1, <2>2
<1>11. ASSUME NEW j \in Jobs, NilAnswer(j) PROVE (OutcomeOf(k) /\ RacedOf(k))'
  <2>1. OutcomeOf(k)'
    BY <1>00, <1>11 DEF NilAnswer, Terminal, OutcomeOf, Stands, TypeOK, jobVars, execVars, cancelVars, watchVars
  <2>2. RacedOf(k)'
    BY <1>00, <1>11, InFlightIs, InFlightIsNext DEF NilAnswer, Terminal, RacedOf, TypeOK, jobVars, execVars, cancelVars, watchVars
  <2> QED
    BY <2>1, <2>2
<1>12. ASSUME NEW c \in Callers, CheckCancel(c) PROVE (OutcomeOf(k) /\ RacedOf(k))'
  <2>0. target[c] \in Jobs /\ c \in Threads
    BY <1>0, <1>12 DEF TypeOK
  <2>1. PICK seen \in Reads(target[c]) : Overlap(target[c], c, seen) /\ cancel' = [cancel EXCEPT ![c] = IF "cancelled" \in MayMove(seen) THEN "write" ELSE "conflict"]
    BY <1>12 DEF CheckCancel, AfterConflict
  <2>2. /\ \A i \in Jobs : racers[i] \subseteq racers'[i]
        /\ seen = "torn" => c \in racers'[target[c]]
    BY <2>0, <2>1, OverlapType
  <2>3. seen = state[target[c]] \/ seen = "torn"
    BY <2>0, <2>1, ReadsSee
  <2>4. OutcomeOf(k)'
    BY <1>00, <1>12, <2>1, <2>2 DEF CheckCancel, AfterConflict, OutcomeOf, Stands, TypeOK, jobVars, execVars, cancelVars, watchVars
  <2>5. RacedOf(k)'
    <3>1. SUFFICES ASSUME state[k] \in Terminal, NEW t \in InFlight(k)', t \notin racers[k]
                   PROVE  t \in racers'[k]
      BY <1>12, <2>2 DEF CheckCancel, AfterConflict, RacedOf
    <3>2. t \notin InFlight(k)
      BY <1>00, <3>1 DEF RacedOf
    <3>3. k = target[c] /\ t = c
      BY <1>12, <2>0, <2>1, <3>1, <3>2, InFlightIs, InFlightIsNext DEF CheckCancel, AfterConflict, TypeOK, jobVars, execVars, cancelVars, watchVars
    <3>4. seen # state[k]
      BY <1>12, <2>0, <2>1, <3>1, <3>2, <3>3, TerminalRefuses, InFlightIs, InFlightIsNext
         DEF CheckCancel, AfterConflict, TypeOK, jobVars, execVars, cancelVars, watchVars
    <3> QED
      BY <2>2, <2>3, <3>3, <3>4
  <2> QED
    BY <2>4, <2>5
<1>13. ASSUME NEW c \in Callers, WriteCancel(c) PROVE (OutcomeOf(k) /\ RacedOf(k))'
  <2>0. target[c] \in Jobs /\ c \in Threads /\ c \in InFlight(target[c])
    BY <1>0, <1>13, InFlightIs DEF WriteCancel, TypeOK
  <2>1. Write(target[c], c, "cancelled")
    BY <1>13 DEF WriteCancel
  <2>2. racers' = [racers EXCEPT ![target[c]] = @ \cup (InFlight(target[c]) \ {c})]
    BY <2>0, <2>1, WriteType DEF States
  <2>3. \A i \in Jobs : racers[i] \subseteq racers'[i]
    BY <2>0, <2>2 DEF TypeOK
  <2>4. \A i \in Jobs : i # target[c] => state'[i] = state[i]
    BY <2>0, <2>1, WriteType DEF States
  <2>5. \A i \in Jobs : state[i] # "lost"
    BY <1>13, <2>0 DEF WriteCancel, GoneTogether
  <2>6. OutcomeOf(k)'
    <3>1. CASE k # target[c]
      BY <1>00, <1>13, <2>0, <2>3, <2>4, <3>1 DEF WriteCancel, OutcomeOf, Stands, TypeOK, jobVars, execVars, cancelVars, watchVars
    <3>2. CASE k = target[c]
      <4>1. state'[k] \in {"cancelled", "torn"}
        BY <2>0, <2>1, <3>2, WriteType DEF States
      <4>2. ASSUME NEW s \in Terminal, Stands(k, s) PROVE Stands(k, s)'
        <5>1. racers[k] # {}
          BY <1>00, <2>0, <2>5, <3>2, <4>2 DEF RacedOf, Stands
        <5> QED
          BY <2>3, <4>1, <5>1 DEF Stands
      <4> QED
        BY <1>00, <1>13, <4>2 DEF WriteCancel, OutcomeOf, Terminal, jobVars, execVars, cancelVars, watchVars
    <3> QED
      BY <3>1, <3>2
  <2>7. RacedOf(k)'
    <3>1. cancel' = [cancel EXCEPT ![c] = "save"] /\ exec' = exec /\ target' = target
      BY <1>13 DEF WriteCancel, execVars
    <3>2. ASSUME NEW x \in InFlight(k)' PROVE x \in InFlight(k) /\ (k = target[c] => x # c)
      BY <2>0, <3>1, <3>2, InFlightIs, InFlightIsNext DEF TypeOK
    <3>3. k # target[c] => state'[k] = state[k]
      BY <2>4
    <3>4. k = target[c] => \A x \in InFlight(k)' : x \in racers'[k]
      BY <2>2, <3>2 DEF TypeOK
    <3> QED
      BY <1>00, <2>3, <3>2, <3>3, <3>4 DEF RacedOf
  <2> QED
    BY <2>6, <2>7
<1>14. ASSUME NEW c \in Callers, SaveCancel(c) PROVE (OutcomeOf(k) /\ RacedOf(k))'
  <2>1. OutcomeOf(k)'
    BY <1>00, <1>14 DEF SaveCancel, OutcomeOf, Stands, TypeOK, jobVars, execVars, cancelVars, watchVars
  <2>2. RacedOf(k)'
    BY <1>00, <1>14, InFlightIs, InFlightIsNext DEF SaveCancel, RacedOf, TypeOK, jobVars, execVars, cancelVars, watchVars
  <2> QED
    BY <2>1, <2>2
<1>15. ASSUME NEW w \in Watchers, Watch(w) PROVE (OutcomeOf(k) /\ RacedOf(k))'
  <2>1. UNCHANGED <<jobVars, execVars, cancelVars>>
    BY <1>15 DEF Watch, SendLog, CheckDone, MarkSeen, Poll, PollDeadline
  <2> QED
    BY <1>00, <2>1, InFlightIs, InFlightIsNext DEF OutcomeOf, RacedOf, Stands, jobVars, execVars, cancelVars, watchVars
<1>16. CASE UNCHANGED vars
  BY <1>00, <1>16, InFlightIs, InFlightIsNext DEF OutcomeOf, RacedOf, Stands, vars, jobVars, execVars, cancelVars, watchVars
<1> QED
  BY <1>1, <1>2, <1>3, <1>4, <1>5, <1>6, <1>7, <1>8, <1>9, <1>10, <1>11, <1>12, <1>13, <1>14, <1>15, <1>16 DEF Next, Execute, Cancel

(* Only a thread that overlapped a write of another can change a job that   *)
(* has ended (transitionTo).                                                *)
THEOREM LateWriters == Spec => []LateWritersRaced
<1>1. RaceInv => LateWritersRaced
  BY DEF RaceInv, RacedOf, LateWritersRaced
<1> QED
  BY TypeInit, TypeNext, GoneInit, GoneNext, RaceNext, <1>1, PTL DEF Spec

(* A result means success and an error failure, but for a racing cancel     *)
(* (Succeed and Fail, which set the outcome only when the transition held). *)
THEOREM Outcomes == Spec => []OutcomeMatchesState
<1>1. RaceInv => OutcomeMatchesState
  BY DEF RaceInv, OutcomeOf, Stands, OutcomeMatchesState
<1> QED
  BY TypeInit, TypeNext, GoneInit, GoneNext, RaceNext, <1>1, PTL DEF Spec

-----------------------------------------------------------------------------
(* What a watcher sent is in order and was in the log; at the cursor it has *)
(* sent nothing that lies beyond it.                                        *)
InOrder(s) == \A i \in 1 .. Len(s) - 1 : s[i] < s[i + 1]

Bounded(s, n) == \A i \in 1 .. Len(s) : s[i] <= n

OrderOf(w) ==
    /\ InOrder(sent[w])
    /\ Bounded(sent[w], log[watched[w]])
    /\ watch[w] \in {"poll", "checkAgain"} => Bounded(sent[w], lastSeen[w])

WatchOrder == \A w \in Watchers : OrderOf(w)

(* The events after a cursor continue what was sent up to it. *)
LEMMA NumbersContinue ==
    ASSUME NEW s \in Seq(1 .. MaxEvents), NEW from \in Nat, NEW to \in 0 .. MaxEvents,
           InOrder(s), Bounded(s, from), Bounded(s, to)
    PROVE  InOrder(s \o Numbers(from, to)) /\ Bounded(s \o Numbers(from, to), to)
<1> DEFINE t == Numbers(from, to)
           r == s \o t
<1>1. /\ t \in Seq(1 .. MaxEvents)
      /\ Len(t) = IF from <= to THEN to - from ELSE 0
      /\ \A i \in 1 .. Len(t) : t[i] = from + i
  BY NumbersType
<1>2. Len(s) \in Nat /\ Len(t) \in Nat
  BY <1>1
<1> HIDE DEF t
<1>3. /\ Len(r) = Len(s) + Len(t)
      /\ \A i \in 1 .. Len(s) : r[i] = s[i]
      /\ \A i \in 1 .. Len(t) : r[Len(s) + i] = from + i
  <2>0. /\ Len(s \o t) = Len(s) + Len(t)
        /\ \A i \in 1 .. Len(s) + Len(t) :
              (s \o t)[i] = IF i <= Len(s) THEN s[i] ELSE t[i - Len(s)]
    BY <1>1, ConcatProperties, Zenon
  <2>1. /\ Len(r) = Len(s) + Len(t)
        /\ \A i \in 1 .. Len(r) : r[i] = IF i <= Len(s) THEN s[i] ELSE t[i - Len(s)]
    BY <2>0, Zenon
  <2>2. ASSUME NEW i \in 1 .. Len(s) PROVE r[i] = s[i]
    BY <1>2, <2>1, <2>2
  <2>3. ASSUME NEW i \in 1 .. Len(t) PROVE r[Len(s) + i] = from + i
    <3>1. Len(s) + i \in 1 .. Len(r) /\ ~ (Len(s) + i <= Len(s)) /\ (Len(s) + i) - Len(s) = i
      BY <1>2, <2>1, <2>3
    <3>2. r[Len(s) + i] = t[i]
      BY <2>1, <3>1
    <3> QED
      BY <1>1, <2>3, <3>2
  <2> QED
    BY <2>1, <2>2, <2>3
<1> HIDE DEF r
<1>4. \A i \in 1 .. Len(s) : s[i] \in 1 .. MaxEvents
  BY ElementOfSeq
<1>5. MaxEvents \in Nat
  BY JobsAssumption DEF MaxEvents
<1>6. ASSUME NEW i \in 1 .. Len(r) - 1 PROVE r[i] < r[i + 1]
  <2>1. CASE i + 1 <= Len(s)
    BY <1>2, <1>3, <1>6, <2>1 DEF InOrder
  <2>2. CASE i = Len(s)
    <3>1. r[i] <= from /\ r[i] \in Nat
      BY <1>2, <1>3, <1>4, <1>5, <1>6, <2>2 DEF Bounded
    <3>2. r[i + 1] = from + 1
      BY <1>2, <1>3, <1>6, <2>2
    <3> QED
      BY <3>1, <3>2
  <2>3. CASE i > Len(s)
    <3> DEFINE j == i - Len(s)
    <3>1. j \in 1 .. Len(t) /\ j + 1 \in 1 .. Len(t) /\ i = Len(s) + j /\ i + 1 = Len(s) + (j + 1)
      BY <1>2, <1>3, <1>6, <2>3
    <3>2. r[i] = from + j /\ r[i + 1] = from + (j + 1)
      BY <1>3, <3>1
    <3> QED
      BY <3>1, <3>2
  <2> QED
    BY <1>2, <1>6, <2>1, <2>2, <2>3
<1>7. ASSUME NEW i \in 1 .. Len(r) PROVE r[i] <= to
  <2>1. CASE i <= Len(s)
    BY <1>2, <1>3, <1>7, <2>1 DEF Bounded
  <2>2. CASE i > Len(s)
    <3> DEFINE j == i - Len(s)
    <3>1. j \in 1 .. Len(t) /\ i = Len(s) + j
      BY <1>2, <1>3, <1>7, <2>2
    <3>2. r[i] = from + j
      BY <1>3, <3>1
    <3> QED
      BY <1>1, <3>1, <3>2
  <2> QED
    BY <1>2, <1>7, <2>1, <2>2
<1> QED
  BY <1>6, <1>7 DEF InOrder, Bounded, r, t

(* A longer log keeps the order of whoever watches it. *)
LEMMA LogGrows ==
    ASSUME TypeOK, WatchOrder, UNCHANGED watchVars, log' \in [Jobs -> 0 .. MaxEvents],
           \A j \in Jobs : log'[j] >= log[j]
    PROVE  WatchOrder'
<1> SUFFICES ASSUME NEW w \in Watchers PROVE OrderOf(w)'
  BY DEF WatchOrder
<1>1. OrderOf(w) /\ watched[w] \in Jobs /\ sent[w] \in Seq(1 .. MaxEvents)
  BY DEF WatchOrder, TypeOK
<1>2. watch' = watch /\ watched' = watched /\ sent' = sent /\ lastSeen' = lastSeen
  BY DEF watchVars
<1>3. MaxEvents \in Nat
  BY JobsAssumption DEF MaxEvents
<1>4. \A i \in 1 .. Len(sent[w]) : sent[w][i] \in 1 .. MaxEvents
  BY <1>1, ElementOfSeq
<1>5. log[watched[w]] \in 0 .. MaxEvents /\ log'[watched[w]] \in 0 .. MaxEvents
      /\ log'[watched[w]] >= log[watched[w]]
  BY <1>1 DEF TypeOK
<1>6. Bounded(sent[w], log'[watched[w]])
  BY <1>1, <1>3, <1>4, <1>5 DEF OrderOf, Bounded
<1> QED
  BY <1>1, <1>2, <1>6 DEF OrderOf

LEMMA OrderNext == TypeInv /\ WatchOrder /\ [Next]_vars => WatchOrder'
<1> SUFFICES ASSUME TypeInv, TypeInv', WatchOrder, [Next]_vars PROVE WatchOrder'
  BY TypeNext
<1> USE DEF TypeInv
<1>1. ASSUME NEW j \in Jobs,
             StepStarted(j) \/ StepCompleted(j) \/ StepFailed(j)
      PROVE  WatchOrder'
  <2>1. \A k \in Jobs : log'[k] >= log[k]
    <3>1. \A k \in Jobs : log[k] \in Nat
      BY JobsAssumption DEF TypeOK, MaxEvents
    <3>2. log' = [log EXCEPT ![j] = @ + 1]
      BY <1>1 DEF StepStarted, StepCompleted, StepFailed, AddStepEvent
    <3>3. log \in [Jobs -> 0 .. MaxEvents]
      BY DEF TypeOK
    <3> QED
      BY <3>1, <3>2, <3>3
  <2>2. UNCHANGED watchVars
    BY <1>1 DEF StepStarted, StepCompleted, StepFailed
  <2> QED
    BY <2>1, <2>2, LogGrows DEF TypeOK
<1>2. ASSUME log' = log, UNCHANGED watchVars PROVE WatchOrder'
  <2>1. \A k \in Jobs : log'[k] >= log[k]
    BY <1>2 DEF TypeOK
  <2> QED
    BY <1>2, <2>1, LogGrows DEF TypeOK
<1>3. ASSUME NEW j \in Jobs,
             \/ Submit(j) \/ CheckStart(j) \/ WriteStart(j) \/ CheckEnd(j) \/ WriteEnd(j)
             \/ SetOutcome(j) \/ SaveEnd(j)
      PROVE  WatchOrder'
  BY <1>2, <1>3 DEF Submit, CheckStart, WriteStart, CheckEnd, WriteEnd, SetOutcome, SaveEnd
<1>4. ASSUME NEW j \in Jobs, NilAnswer(j) PROVE WatchOrder'
  BY <1>4 DEF NilAnswer, WatchOrder, OrderOf
<1>5. ASSUME NEW c \in Callers, Cancel(c) PROVE WatchOrder'
  BY <1>2, <1>5 DEF Cancel, CheckCancel, WriteCancel, SaveCancel
<1>6. ASSUME NEW w \in Watchers, Watch(w) PROVE WatchOrder'
  <2>1. log' = log /\ watched' = watched
    BY <1>6 DEF Watch, SendLog, CheckDone, MarkSeen, Poll, PollDeadline, jobVars
  <2>2. ASSUME NEW v \in Watchers, v # w PROVE OrderOf(v)'
    <3>1. watch'[v] = watch[v] /\ sent'[v] = sent[v] /\ lastSeen'[v] = lastSeen[v]
      BY <1>6, <2>2 DEF Watch, SendLog, CheckDone, MarkSeen, Poll, PollDeadline, TypeOK
    <3> QED
      BY <2>1, <3>1 DEF WatchOrder, OrderOf
  <2>3. /\ OrderOf(w) /\ watched[w] \in Jobs /\ sent[w] \in Seq(1 .. MaxEvents)
        /\ log[watched[w]] \in 0 .. MaxEvents /\ lastSeen[w] \in 0 .. MaxEvents
    BY DEF WatchOrder, TypeOK
  <2>4. MaxEvents \in Nat
    BY JobsAssumption DEF MaxEvents
  <2>0. w \in DOMAIN watch /\ w \in DOMAIN sent /\ w \in DOMAIN lastSeen
    BY DEF TypeOK
  <2>5. ASSUME SendLog(w) PROVE OrderOf(w)'
    <3> DEFINE t == Numbers(0, log[watched[w]])
    <3>a. /\ Len(t) = IF 0 <= log[watched[w]] THEN log[watched[w]] - 0 ELSE 0
          /\ \A i \in 1 .. Len(t) : t[i] = 0 + i
      BY <2>3, NumbersType
    <3>1. /\ Len(t) = log[watched[w]]
          /\ \A i \in 1 .. Len(t) : t[i] = 0 + i
      BY <2>3, <2>4, <3>a
    <3>2. sent'[w] = t /\ watch'[w] = "check"
      BY <2>0, <2>5 DEF SendLog
    <3> HIDE DEF t
    <3>3. InOrder(t) /\ Bounded(t, log[watched[w]])
      BY <2>3, <2>4, <3>1 DEF InOrder, Bounded
    <3> QED
      BY <2>1, <3>2, <3>3 DEF OrderOf
  <2>6. ASSUME CheckDone(w) PROVE OrderOf(w)'
    <3>1. sent' = sent /\ lastSeen' = lastSeen
      BY <2>6 DEF CheckDone
    <3>2. watch'[w] \in {"poll", "checkAgain"} => watch[w] = "checkAgain"
      BY <2>0, <2>6 DEF CheckDone
    <3> QED
      BY <2>1, <2>3, <3>1, <3>2 DEF OrderOf
  <2>7. ASSUME MarkSeen(w) PROVE OrderOf(w)'
    <3>1. sent' = sent /\ lastSeen'[w] = log[watched[w]]
      BY <2>0, <2>7 DEF MarkSeen, Cursor
    <3> QED
      BY <2>1, <2>3, <3>1 DEF OrderOf
  <2>8. ASSUME Poll(w) PROVE OrderOf(w)'
    <3>1. watch[w] = "poll" /\ watch'[w] = "markAgain"
          /\ sent'[w] = sent[w] \o Numbers(lastSeen[w], log[watched[w]])
      BY <2>0, <2>8 DEF Poll
    <3>2. lastSeen[w] \in Nat
      BY <2>3, <2>4
    <3>3. InOrder(sent[w]) /\ Bounded(sent[w], lastSeen[w]) /\ Bounded(sent[w], log[watched[w]])
      BY <2>3, <3>1 DEF OrderOf
    <3>4. InOrder(sent'[w]) /\ Bounded(sent'[w], log[watched[w]])
      BY <2>3, <3>1, <3>2, <3>3, NumbersContinue
    <3> QED
      BY <2>1, <3>1, <3>4 DEF OrderOf
  <2>9. ASSUME PollDeadline(w) PROVE OrderOf(w)'
    <3>1. sent' = sent /\ watch'[w] = "expired"
      BY <2>0, <2>9 DEF PollDeadline
    <3> QED
      BY <2>1, <2>3, <3>1 DEF OrderOf
  <2> QED
    BY <1>6, <2>2, <2>5, <2>6, <2>7, <2>8, <2>9 DEF Watch, WatchOrder
<1>7. CASE UNCHANGED vars
  BY <1>2, <1>7 DEF vars, jobVars
<1> QED
  BY <1>1, <1>3, <1>4, <1>5, <1>6, <1>7 DEF Next, Execute

(* A watcher gets each event at most once and in the order of the log,      *)
(* although it reads the log's length again for its cursor (Events).        *)
THEOREM InLogOrder == Spec => []WatchersInOrder
<1>1. Init => WatchOrder
  BY DEF Init, WatchOrder, OrderOf, InOrder, Bounded
<1>2. WatchOrder => WatchersInOrder
  BY DEF WatchOrder, OrderOf, InOrder, WatchersInOrder
<1> QED
  BY TypeInit, TypeNext, OrderNext, <1>1, <1>2, PTL DEF Spec
-----------------------------------------------------------------------------
(* The refinement of JobLifecycle.                                          *)

(* Whoever is about to write what it checked may still do so, or overlapped *)
(* a write; a torn state comes from a race, and nobody cancels what is not  *)
(* there.                                                                   *)
LawfulOf(j) ==
    /\ \A c \in Callers : cancel[c] = "write" /\ target[c] = j =>
          c \in racers[j] \/ "cancelled" \in MayMove(state[j])
    /\ exec[j] \in {"startWrite", "succeedWrite", "failWrite"} =>
          Executor \in racers[j] \/ Written[exec[j]] \in MayMove(state[j])
    /\ state[j] = "torn" => racers[j] # {}
    /\ state[j] = "absent" => \A c \in Callers : target[c] = j => cancel[c] = "idle"

Lawful == \A j \in Jobs : LawfulOf(j)

LEMMA LawfulInit == Init => Lawful
BY DEF Init, Lawful, LawfulOf

(* A write leaves everybody else who is in flight among the racers. *)
LEMMA WriteLawful ==
    ASSUME TypeOK, Lawful, NEW j \in Jobs, NEW t \in Threads, NEW next \in States,
           Write(j, t, next), next # "absent", next # "torn",
           target' = target,
           \A c \in Callers : cancel'[c] = "write" => cancel[c] = "write" /\ (target[c] = j => c # t),
           \A c \in Callers : cancel'[c] = "idle" <=> cancel[c] = "idle",
           \A i \in Jobs : exec'[i] \in {"startWrite", "succeedWrite", "failWrite"} =>
               exec'[i] = exec[i] /\ (i = j => t # Executor)
    PROVE  Lawful'
<1> SUFFICES ASSUME NEW k \in Jobs PROVE LawfulOf(k)'
  BY DEF Lawful
<1>1. LawfulOf(k)
  BY DEF Lawful
<1>2. /\ \A i \in Jobs : i # j => state'[i] = state[i]
      /\ state'[j] = next \/ (state'[j] = "torn" /\ t \in racers[j])
      /\ racers' = [racers EXCEPT ![j] = @ \cup (InFlight(j) \ {t})]
  BY WriteType
<1>3. CASE k # j
  <2>1. state'[k] = state[k] /\ racers'[k] = racers[k]
    BY <1>2, <1>3 DEF TypeOK
  <2> QED
    BY <1>1, <2>1 DEF LawfulOf, MayMove, Written
<1>4. CASE k = j
  <2>1. racers'[j] = racers[j] \cup (InFlight(j) \ {t})
    BY <1>2 DEF TypeOK
  <2>2. ASSUME NEW c \in Callers, cancel'[c] = "write", target'[c] = j PROVE c \in racers'[j]
    BY <2>1, <2>2, InFlightIs
  <2>3. ASSUME exec'[j] \in {"startWrite", "succeedWrite", "failWrite"} PROVE Executor \in racers'[j]
    BY <2>1, <2>3, InFlightIs
  <2>4. state'[j] # "absent" /\ (state'[j] = "torn" => racers'[j] # {})
    BY <1>2, <2>1
  <2> QED
    BY <1>4, <2>2, <2>3, <2>4 DEF LawfulOf
<1> QED
  BY <1>3, <1>4

(* A check lets a thread into flight with a move that is lawful, or raced.  *)
LEMMA CheckLawful ==
    ASSUME TypeOK, Lawful, NEW j \in Jobs, NEW t \in Threads, NEW seen \in Reads(j),
           Overlap(j, t, seen), state' = state, target' = target,
           state[j] # "absent",
           \A c \in Callers : cancel'[c] = cancel[c] \/
               (c = t /\ target[c] = j /\ (cancel'[c] = "write" => "cancelled" \in MayMove(seen))),
           \A i \in Jobs : exec'[i] = exec[i] \/
               (i = j /\ t = Executor /\
                  (exec'[i] \in {"startWrite", "succeedWrite", "failWrite"} => Written[exec'[i]] \in MayMove(seen)))
    PROVE  Lawful'
<1> SUFFICES ASSUME NEW k \in Jobs PROVE LawfulOf(k)'
  BY DEF Lawful
<1>1. LawfulOf(k)
  BY DEF Lawful
<1>2. /\ \A i \in Jobs : racers[i] \subseteq racers'[i]
      /\ seen = "torn" => t \in racers'[j]
  BY OverlapType
<1>3. seen = state[j] \/ seen = "torn"
  BY ReadsSee
<1>4. ASSUME NEW c \in Callers, cancel'[c] = "write", target'[c] = k
      PROVE  c \in racers'[k] \/ "cancelled" \in MayMove(state[k])
  BY <1>1, <1>2, <1>3, <1>4 DEF LawfulOf
<1>5. ASSUME exec'[k] \in {"startWrite", "succeedWrite", "failWrite"}
      PROVE  Executor \in racers'[k] \/ Written[exec'[k]] \in MayMove(state[k])
  BY <1>1, <1>2, <1>3, <1>5 DEF LawfulOf
<1>6. state[k] = "torn" => racers'[k] # {}
  BY <1>1, <1>2 DEF LawfulOf
<1>7. state[k] = "absent" => \A c \in Callers : target[c] = k => cancel'[c] = "idle"
  BY <1>1 DEF LawfulOf
<1> QED
  BY <1>4, <1>5, <1>6, <1>7 DEF LawfulOf, MayMove, Written

LEMMA LawfulNext == TypeInv /\ Lawful /\ [Next]_vars => Lawful'
<1> SUFFICES ASSUME TypeOK, LogFollowsExecutor, Lawful, [Next]_vars PROVE Lawful'
  BY DEF TypeInv
<1>0. Executor \in Threads /\ Callers \subseteq Threads /\ Executor \notin Callers
  BY JobsAssumption DEF Threads
<1>1. ASSUME NEW j \in Jobs, Submit(j) PROVE Lawful'
  <2>1. exec[j] = "none" /\ \A c \in Callers : target[c] = j => cancel[c] = "idle"
    BY <1>1 DEF Submit, LogFollowsExecutor, LogOf, Lawful, LawfulOf
  <2> QED
    BY <1>1, <2>1 DEF Submit, Lawful, LawfulOf, TypeOK, cancelVars, MayMove, Written
<1>2. ASSUME NEW j \in Jobs, CheckStart(j) PROVE Lawful'
  <2>1. PICK seen \in Reads(j) :
           /\ Overlap(j, Executor, seen)
           /\ exec' = [exec EXCEPT ![j] = IF "running" \in MayMove(seen) THEN "startWrite" ELSE "exit"]
    BY <1>2 DEF CheckStart, Goto
  <2>2. state' = state /\ target' = target /\ cancel' = cancel
    BY <1>2 DEF CheckStart, cancelVars
  <2>3. state[j] # "absent"
    BY <1>2 DEF CheckStart, LogFollowsExecutor, LogOf
  <2>4. \A i \in Jobs : exec'[i] = exec[i] \/
           (i = j /\ (exec'[i] \in {"startWrite", "succeedWrite", "failWrite"} => Written[exec'[i]] \in MayMove(seen)))
    BY <2>1 DEF TypeOK, Written
  <2> QED
    BY <1>0, <2>1, <2>2, <2>3, <2>4, CheckLawful
<1>3. ASSUME NEW j \in Jobs, WriteStart(j) PROVE Lawful'
  <2>1. Write(j, Executor, "running") /\ exec' = [exec EXCEPT ![j] = "step"]
    BY <1>3 DEF WriteStart, Goto
  <2>2. target' = target /\ cancel' = cancel
    BY <1>3 DEF WriteStart, cancelVars
  <2>3. \A i \in Jobs : exec'[i] \in {"startWrite", "succeedWrite", "failWrite"} => exec'[i] = exec[i] /\ i # j
    BY <2>1 DEF TypeOK
  <2> QED
    BY <1>0, <2>1, <2>2, <2>3, WriteLawful DEF States
<1>4. ASSUME NEW j \in Jobs, StepStarted(j) \/ StepCompleted(j) \/ StepFailed(j) \/ SetOutcome(j) \/ SaveEnd(j)
      PROVE  Lawful'
  <2>1. /\ state' = state /\ racers' = racers /\ target' = target /\ cancel' = cancel
        /\ \A i \in Jobs : exec'[i] = exec[i] \/ exec'[i] \notin {"startWrite", "succeedWrite", "failWrite"}
    BY <1>4 DEF StepStarted, StepCompleted, StepFailed, SetOutcome, SaveEnd, Goto, NextStep, AfterFailure,
                cancelVars, TypeOK
  <2> QED
    BY <2>1 DEF Lawful, LawfulOf, MayMove, Written
<1>5. ASSUME NEW j \in Jobs, CheckEnd(j) PROVE Lawful'
  <2>1. PICK seen \in Reads(j) :
           /\ Overlap(j, Executor, seen)
           /\ \/ /\ exec[j] = "succeed"
                 /\ exec' = [exec EXCEPT ![j] = IF "succeeded" \in MayMove(seen) THEN "succeedWrite" ELSE "save"]
              \/ /\ exec[j] = "fail"
                 /\ exec' = [exec EXCEPT ![j] = IF "failed" \in MayMove(seen) THEN "failWrite" ELSE "save"]
    BY <1>5 DEF CheckEnd, Goto, AfterRefusal
  <2>2. state' = state /\ target' = target /\ cancel' = cancel
    BY <1>5 DEF CheckEnd, cancelVars
  <2>3. state[j] # "absent"
    BY <2>1 DEF LogFollowsExecutor, LogOf
  <2>4. \A i \in Jobs : exec'[i] = exec[i] \/
           (i = j /\ (exec'[i] \in {"startWrite", "succeedWrite", "failWrite"} => Written[exec'[i]] \in MayMove(seen)))
    BY <2>1 DEF TypeOK, Written
  <2> QED
    BY <1>0, <2>1, <2>2, <2>3, <2>4, CheckLawful
<1>6. ASSUME NEW j \in Jobs, WriteEnd(j) PROVE Lawful'
  <2>1. \E next \in {"succeeded", "failed"}, e \in {"result", "error"} :
           Write(j, Executor, next) /\ exec' = [exec EXCEPT ![j] = e]
    BY <1>6 DEF WriteEnd, Goto
  <2>2. target' = target /\ cancel' = cancel
    BY <1>6 DEF WriteEnd, cancelVars
  <2>3. \A i \in Jobs : exec'[i] \in {"startWrite", "succeedWrite", "failWrite"} => exec'[i] = exec[i] /\ i # j
    BY <2>1 DEF TypeOK
  <2> QED
    BY <1>0, <2>1, <2>2, <2>3, WriteLawful DEF States
<1>7. ASSUME NEW j \in Jobs, NilAnswer(j) PROVE Lawful'
  BY <1>7 DEF NilAnswer, Lawful, LawfulOf
<1>8. ASSUME NEW c \in Callers, CheckCancel(c) PROVE Lawful'
  <2>1. PICK seen \in Reads(target[c]) :
           /\ Overlap(target[c], c, seen)
           /\ cancel' = [cancel EXCEPT ![c] = IF "cancelled" \in MayMove(seen) THEN "write" ELSE "conflict"]
    BY <1>8 DEF CheckCancel, AfterConflict
  <2>2. state' = state /\ target' = target /\ exec' = exec /\ state[target[c]] # "absent"
    BY <1>8 DEF CheckCancel, execVars
  <2>3. \A d \in Callers : cancel'[d] = cancel[d] \/ (d = c /\ (cancel'[d] = "write" => "cancelled" \in MayMove(seen)))
    BY <2>1 DEF TypeOK
  <2>4. target[c] \in Jobs
    BY DEF TypeOK
  <2> QED
    BY <1>0, <2>1, <2>2, <2>3, <2>4, CheckLawful
<1>9. ASSUME NEW c \in Callers, WriteCancel(c) PROVE Lawful'
  <2>1. Write(target[c], c, "cancelled") /\ cancel[c] = "write" /\ cancel' = [cancel EXCEPT ![c] = "save"]
    BY <1>9 DEF WriteCancel
  <2>2. target' = target /\ exec' = exec
    BY <1>9 DEF WriteCancel, execVars
  <2>3. \A d \in Callers : /\ cancel'[d] = "write" => cancel[d] = "write" /\ d # c
                           /\ cancel'[d] = "idle" <=> cancel[d] = "idle"
    BY <2>1 DEF TypeOK
  <2>4. target[c] \in Jobs
    BY DEF TypeOK
  <2> QED
    BY <1>0, <2>1, <2>2, <2>3, <2>4, WriteLawful DEF States
<1>10. ASSUME NEW c \in Callers, SaveCancel(c) PROVE Lawful'
  <2>1. /\ state' = state /\ racers' = racers /\ target' = target /\ exec' = exec
        /\ cancel[c] = "save" /\ cancel' = [cancel EXCEPT ![c] = "ok"]
    BY <1>10 DEF SaveCancel, execVars
  <2>2. \A d \in Callers : /\ cancel'[d] = "write" => cancel[d] = "write"
                           /\ cancel[d] = "idle" => cancel'[d] = "idle"
    BY <2>1 DEF TypeOK
  <2> QED
    BY <2>1, <2>2 DEF Lawful, LawfulOf, MayMove, Written
<1>11. CASE UNCHANGED <<jobVars, execVars, cancelVars>>
  BY <1>11 DEF Lawful, LawfulOf, MayMove, Written, jobVars, execVars, cancelVars
<1>12. ASSUME NEW w \in Watchers, Watch(w) PROVE Lawful'
  BY <1>11, <1>12 DEF Watch, SendLog, CheckDone, MarkSeen, Poll, PollDeadline
<1>13. CASE UNCHANGED vars
  BY <1>11, <1>13 DEF vars
<1> QED
  BY <1>1, <1>2, <1>3, <1>4, <1>5, <1>6, <1>7, <1>8, <1>9, <1>10, <1>12, <1>13 DEF Next, Execute, Cancel

(* Follows and MayMove agree on the states of the lifecycle. *)
LEMMA MovesFollow ==
    ASSUME NEW s \in States \ {"absent", "torn", "lost"}
    PROVE  MayMove(s) = Lifecycle!Follows(s)
BY DEF States, MayMove, Terminal, Lifecycle!Follows, Lifecycle!Ended

Racy == [j \in Jobs |-> racers[j] # {}]

LEMMA RacyMoves ==
    ASSUME NEW j \in Jobs, racers[j] \subseteq racers'[j], \A i \in Jobs : i # j => racers'[i] = racers[i]
    PROVE  Lifecycle!MayRace(j)
<1>1. CASE racers'[j] = {}
  <2>1. \A i \in Jobs : (racers'[i] # {}) = (racers[i] # {})
    BY <1>1
  <2> QED
    BY <2>1 DEF Lifecycle!MayRace
<1>2. CASE racers'[j] # {}
  <2>1. Racy' = [Racy EXCEPT ![j] = TRUE]
    <3>1. \A i \in Jobs : i # j => (racers'[i] # {}) = (racers[i] # {})
      OBVIOUS
    <3> QED
      BY <1>2, <3>1 DEF Racy
  <2> QED
    BY <2>1 DEF Racy, Lifecycle!MayRace
<1> QED
  BY <1>1, <1>2

LEMMA WriteEnters ==
    ASSUME TypeOK, Lawful, NEW j \in Jobs, NEW t \in Threads, NEW next \in States,
           Write(j, t, next), state[j] \notin {"absent", "lost"},
           t \in racers[j] \/ next \in MayMove(state[j])
    PROVE  Lifecycle!Enter(j, next)
<1>1. /\ state' = [state EXCEPT ![j] = next] \/ (state' = [state EXCEPT ![j] = "torn"] /\ t \in racers[j])
      /\ racers' = [racers EXCEPT ![j] = @ \cup (InFlight(j) \ {t})]
  BY DEF Write
<1>2. Lifecycle!MayRace(j)
  <2>1. racers[j] \subseteq racers'[j] /\ \A i \in Jobs : i # j => racers'[i] = racers[i]
    BY <1>1 DEF TypeOK
  <2> QED
    BY <2>1, RacyMoves
<1>3. CASE racers[j] # {}
  <2>1. Racy[j]
    BY <1>3 DEF Racy
  <2>2. \E s \in {next, "torn"} : state' = [state EXCEPT ![j] = s]
    BY <1>1
  <2> QED
    BY <1>2, <2>1, <2>2 DEF Lifecycle!Enter, Racy
<1>4. CASE racers[j] = {}
  <2>1. state[j] # "torn" /\ state[j] \in States
    BY <1>4 DEF Lawful, LawfulOf, TypeOK
  <2>2. next \in Lifecycle!Follows(state[j])
    BY <1>4, <2>1, MovesFollow
  <2>3. state' = [state EXCEPT ![j] = next]
    BY <1>1, <1>4
  <2> QED
    BY <1>2, <2>2, <2>3 DEF Lifecycle!Enter
<1> QED
  BY <1>3, <1>4

LEMMA OverlapRaces ==
    ASSUME TypeOK, NEW j \in Jobs, NEW t \in Threads, NEW seen, Overlap(j, t, seen)
    PROVE  Lifecycle!MayRace(j)
<1>1. racers[j] \subseteq racers'[j] /\ \A i \in Jobs : i # j => racers'[i] = racers[i]
  BY DEF Overlap, TypeOK
<1> QED
  BY <1>1, RacyMoves

LEMMA LifecycleInitMaps == Init => Lifecycle!LifecycleInit
<1> SUFFICES ASSUME Init PROVE Lifecycle!LifecycleInit
  OBVIOUS
<1>1. Outcome = [j \in Jobs |-> "none"] /\ Answer = [c \in Callers |-> "none"]
  BY DEF Init, Outcome, Answer
<1>2. Racy = [j \in Jobs |-> FALSE]
  BY DEF Init, Racy
<1> QED
  BY <1>1, <1>2 DEF Init, Racy, Lifecycle!LifecycleInit

LEMMA LifecycleStepMaps ==
    TypeInv /\ GoneTogether /\ RaceInv /\ Lawful /\ [Next]_vars
        => [Lifecycle!LifecycleNext]_(Lifecycle!lifecycleVars)
<1> SUFFICES ASSUME TypeOK, LogFollowsExecutor, GoneTogether, RaceInv, Lawful, [Next]_vars
             PROVE  Lifecycle!LifecycleNext \/ UNCHANGED Lifecycle!lifecycleVars
  BY DEF TypeInv
<1>0. Executor \in Threads /\ Callers \subseteq Threads
  BY DEF Threads
<1>a. ASSUME result' = result, error' = error PROVE Outcome' = Outcome
  BY <1>a DEF Outcome
<1>b. ASSUME cancel' = cancel PROVE Answer' = Answer
  BY <1>b DEF Answer
<1>c. ASSUME racers' = racers PROVE Racy' = Racy
  BY <1>c DEF Racy
<1>1. ASSUME NEW j \in Jobs, Submit(j) PROVE Lifecycle!SubmitJob(j)
  BY <1>1, <1>a, <1>b, <1>c DEF Submit, cancelVars, Racy, Lifecycle!SubmitJob
<1>2. ASSUME NEW j \in Jobs, CheckStart(j) \/ CheckEnd(j) PROVE Lifecycle!Race(j)
  <2>1. PICK seen : Overlap(j, Executor, seen)
    BY <1>2 DEF CheckStart, CheckEnd
  <2>2. UNCHANGED <<state, result, error, cancel, target>>
    BY <1>2 DEF CheckStart, CheckEnd, cancelVars
  <2> QED
    BY <1>0, <2>1, <2>2, <1>a, <1>b, OverlapRaces DEF Lifecycle!Race
<1>3. ASSUME NEW j \in Jobs, WriteStart(j) PROVE Lifecycle!Progress(j, "running")
  <2>1. /\ Write(j, Executor, "running") /\ exec[j] = "startWrite"
        /\ UNCHANGED <<result, error, cancel, target>>
    BY <1>3 DEF WriteStart, cancelVars
  <2>2. state[j] \notin {"absent", "lost"}
    BY <2>1 DEF LogFollowsExecutor, LogOf, GoneTogether
  <2>3. Executor \in racers[j] \/ "running" \in MayMove(state[j])
    BY <2>1 DEF Lawful, LawfulOf, Written
  <2>4. Lifecycle!Enter(j, "running")
    BY <1>0, <2>1, <2>2, <2>3, WriteEnters DEF States
  <2> QED
    BY <2>1, <2>4, <1>a, <1>b DEF Lifecycle!Progress
<1>4. ASSUME NEW j \in Jobs, StepStarted(j) \/ StepCompleted(j) \/ StepFailed(j) \/ SaveEnd(j)
      PROVE  UNCHANGED Lifecycle!lifecycleVars
  <2>1. UNCHANGED <<state, result, error, racers, cancel, target>>
    BY <1>4 DEF StepStarted, StepCompleted, StepFailed, SaveEnd, cancelVars
  <2> QED
    BY <2>1, <1>a, <1>b, <1>c DEF Racy, Lifecycle!lifecycleVars
<1>5. ASSUME NEW j \in Jobs, WriteEnd(j)
      PROVE  \E to \in {"succeeded", "failed"} : Lifecycle!Progress(j, to)
  <2>1. PICK to \in {"succeeded", "failed"} :
           Write(j, Executor, to) /\ exec[j] = IF to = "succeeded" THEN "succeedWrite" ELSE "failWrite"
    BY <1>5 DEF WriteEnd
  <2>2. state[j] \notin {"absent", "lost"}
    BY <2>1 DEF LogFollowsExecutor, LogOf, GoneTogether
  <2>3. Executor \in racers[j] \/ to \in MayMove(state[j])
    BY <2>1 DEF Lawful, LawfulOf, Written
  <2>4. Lifecycle!Enter(j, to)
    BY <1>0, <2>1, <2>2, <2>3, WriteEnters DEF States
  <2>5. UNCHANGED <<result, error, cancel, target>>
    BY <1>5 DEF WriteEnd, cancelVars
  <2> QED
    BY <2>4, <2>5, <1>a, <1>b DEF Lifecycle!Progress
<1>6. ASSUME NEW j \in Jobs, SetOutcome(j)
      PROVE  Lifecycle!Attach(j, "succeeded", "result") \/ Lifecycle!Attach(j, "failed", "error")
  <2>1. ~ result[j] /\ ~ error[j]
    BY <1>6 DEF SetOutcome, RaceInv, OutcomeOf, TypeOK
  <2>2. Outcome[j] = "none"
    BY <2>1 DEF Outcome
  <2>3. UNCHANGED <<state, racers, cancel, target>>
    BY <1>6 DEF SetOutcome, cancelVars
  <2>4. state[j] # "lost"
    BY <1>6 DEF SetOutcome, GoneTogether
  <2>5. CASE exec[j] = "result"
    <3>1. result' = [result EXCEPT ![j] = TRUE] /\ error' = error
      BY <1>6, <2>5 DEF SetOutcome
    <3>2. Outcome' = [Outcome EXCEPT ![j] = "result"]
      BY <3>1 DEF Outcome, TypeOK
    <3>3. state[j] = "succeeded" \/ (Racy[j] /\ state[j] \in {"cancelled", "torn"})
      BY <2>4, <2>5 DEF RaceInv, OutcomeOf, Stands, Racy
    <3> QED
      BY <2>2, <2>3, <3>2, <3>3, <1>b, <1>c DEF Racy, Lifecycle!Attach
  <2>6. CASE exec[j] = "error"
    <3>1. error' = [error EXCEPT ![j] = TRUE] /\ result' = result
      BY <1>6, <2>6 DEF SetOutcome
    <3>2. Outcome' = [Outcome EXCEPT ![j] = "error"]
      BY <2>1, <3>1 DEF Outcome, TypeOK
    <3>3. state[j] = "failed" \/ (Racy[j] /\ state[j] \in {"cancelled", "torn"})
      BY <2>4, <2>6 DEF RaceInv, OutcomeOf, Stands, Racy
    <3> QED
      BY <2>2, <2>3, <3>2, <3>3, <1>b, <1>c DEF Racy, Lifecycle!Attach
  <2> QED
    BY <1>6, <2>5, <2>6 DEF SetOutcome
<1>7. ASSUME NEW j \in Jobs, NilAnswer(j) PROVE Lifecycle!Crash
  <2>1. Answer' = [c \in Callers |-> "none"]
    BY <1>7 DEF NilAnswer, Answer
  <2> QED
    BY <1>7, <2>1, <1>a, <1>c DEF NilAnswer, Racy, Lifecycle!Crash
<1>8. ASSUME NEW c \in Callers, CheckCancel(c)
      PROVE  Lifecycle!RefuseCancel(c) \/ \E j \in Jobs : Lifecycle!Race(j)
  <2>1. PICK j \in Jobs : j = target[c]
    BY DEF TypeOK
  <2>2. PICK seen \in Reads(j) :
           /\ Overlap(j, c, seen)
           /\ cancel' = [cancel EXCEPT ![c] = IF "cancelled" \in MayMove(seen) THEN "write" ELSE "conflict"]
    BY <1>8, <2>1 DEF CheckCancel, AfterConflict
  <2>3. UNCHANGED <<state, result, error, target>> /\ cancel[c] = "idle" /\ state[j] # "absent"
    BY <1>8, <2>1 DEF CheckCancel
  <2>4. seen = state[j] \/ seen = "torn"
    BY <2>2, ReadsSee
  <2>5. CASE "cancelled" \in MayMove(seen)
    <3>1. Answer' = Answer
      BY <2>2, <2>3, <2>5 DEF Answer, TypeOK
    <3>2. Lifecycle!MayRace(j)
      BY <1>0, <2>2, OverlapRaces
    <3> QED
      BY <2>3, <3>1, <3>2, <1>a DEF Lifecycle!Race
  <2>6. CASE "cancelled" \notin MayMove(seen)
    <3>1. seen \in Terminal /\ seen = state[j]
      BY <2>3, <2>4, <2>6 DEF MayMove, States, Terminal, TypeOK
    <3>2. racers' = racers
      BY <2>2, <3>1 DEF Overlap, Terminal
    <3>3. Answer' = [Answer EXCEPT ![c] = "conflict"] /\ Answer[c] = "none"
      BY <2>2, <2>3, <2>6 DEF Answer, TypeOK
    <3> QED
      BY <2>1, <2>3, <3>1, <3>2, <3>3, <1>a, <1>c DEF Racy, Terminal, Lifecycle!RefuseCancel, Lifecycle!Ended
  <2> QED
    BY <2>5, <2>6
<1>9. ASSUME NEW c \in Callers, WriteCancel(c) PROVE Lifecycle!AcceptCancel(c)
  <2>1. PICK j \in Jobs : j = target[c]
    BY DEF TypeOK
  <2>2. /\ Write(j, c, "cancelled") /\ cancel[c] = "write"
        /\ cancel' = [cancel EXCEPT ![c] = "save"]
        /\ UNCHANGED <<result, error, target>>
    BY <1>9, <2>1 DEF WriteCancel
  <2>3. state[j] \notin {"absent", "lost"}
    BY <2>1, <2>2 DEF Lawful, LawfulOf, GoneTogether
  <2>4. c \in racers[j] \/ "cancelled" \in MayMove(state[j])
    BY <2>1, <2>2 DEF Lawful, LawfulOf
  <2>5. Lifecycle!Enter(j, "cancelled")
    BY <1>0, <2>2, <2>3, <2>4, WriteEnters DEF States
  <2>6. Answer' = [Answer EXCEPT ![c] = "ok"] /\ Answer[c] = "none"
    BY <2>2 DEF Answer, TypeOK
  <2>7. Lifecycle!Enter(target[c], "cancelled")
    BY <2>1, <2>5 DEF Lifecycle!Enter, Lifecycle!MayRace
  <2> QED
    BY <2>2, <2>6, <2>7, <1>a DEF Lifecycle!AcceptCancel
<1>10. ASSUME NEW c \in Callers, SaveCancel(c) PROVE UNCHANGED Lifecycle!lifecycleVars
  <2>1. /\ UNCHANGED <<state, result, error, racers, target>>
        /\ cancel[c] = "save" /\ cancel' = [cancel EXCEPT ![c] = "ok"]
    BY <1>10 DEF SaveCancel
  <2>2. Answer' = Answer
    BY <2>1 DEF Answer, TypeOK
  <2> QED
    BY <2>1, <2>2, <1>a, <1>c DEF Racy, Lifecycle!lifecycleVars
<1>11. ASSUME UNCHANGED <<jobVars, execVars, cancelVars>> PROVE UNCHANGED Lifecycle!lifecycleVars
  BY <1>11, <1>a, <1>b, <1>c DEF jobVars, execVars, cancelVars, Racy, Lifecycle!lifecycleVars
<1>12. ASSUME NEW w \in Watchers, Watch(w) PROVE UNCHANGED Lifecycle!lifecycleVars
  BY <1>11, <1>12 DEF Watch, SendLog, CheckDone, MarkSeen, Poll, PollDeadline
<1>13. CASE UNCHANGED vars
  BY <1>11, <1>13 DEF vars
<1>14. ASSUME NEW j \in Jobs, Execute(j)
       PROVE  Lifecycle!LifecycleNext \/ UNCHANGED Lifecycle!lifecycleVars
  BY <1>2, <1>3, <1>4, <1>5, <1>6, <1>14 DEF Execute, Lifecycle!LifecycleNext
<1>15. ASSUME NEW c \in Callers, Cancel(c)
       PROVE  Lifecycle!LifecycleNext \/ UNCHANGED Lifecycle!lifecycleVars
  <2>1. CASE CheckCancel(c)
    BY <1>8, <2>1 DEF Lifecycle!LifecycleNext
  <2>2. CASE WriteCancel(c)
    BY <1>9, <2>2 DEF Lifecycle!LifecycleNext
  <2>3. CASE SaveCancel(c)
    BY <1>10, <2>3
  <2> QED
    BY <1>15, <2>1, <2>2, <2>3 DEF Cancel
<1> QED
  BY <1>1, <1>7, <1>12, <1>13, <1>14, <1>15 DEF Next, Lifecycle!LifecycleNext

(* Until somebody races, a job keeps its lifecycle, and what its cancels    *)
(* are answered is what they did (transitionTo, executeJob, CancelJob).     *)
THEOREM LifecycleRefinement == Spec => ImplementsLifecycle
BY TypeInit, TypeNext, GoneInit, GoneNext, RaceNext, LawfulInit, LawfulNext, LifecycleInitMaps,
   LifecycleStepMaps, PTL DEF Spec, ImplementsLifecycle, Lifecycle!LifecycleSpec
=============================================================================
