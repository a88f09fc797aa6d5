-------------------------- MODULE SchedulerProofs --------------------------
(***************************************************************************)
(* Theorems about Scheduler, for any number of tasks, any periods and any  *)
(* width of the counters.                                                  *)
(***************************************************************************)
EXTENDS Scheduler, TLAPS

ServicePlaces == {"enable"} \cup RunPlaces

\* The timer runs, and a tick waits, only after scheduler_init has configured it.
TimerLate == timerOn \/ tickPending => pc \in ServicePlaces

\* scheduler_init empties the slots one after the other.
QueueClean ==
  /\ pc = "initQueue" => \A i \in Slots : i < idx => queue[i] = NULL
  /\ pc = "startTimer" => \A i \in Slots : queue[i] = NULL
  /\ pc \in ServicePlaces => \A i \in Slots : queue[i] \in {NULL, i}

\* How many beats the heartbeat has made.
Beats ==
  /\ pc \in {"enableIrq", "beatRead", "beatWrite"} => heartbeat = 2
  /\ pc = "beatWrite" => tmp = 2
  /\ pc \in {"initTicks", "initQueue", "startTimer"} => heartbeat = 3
  /\ pc \in {"initQueue", "startTimer"} => ticks = 0
  /\ pc = "enable" \/ (pc \in RunPlaces /\ enabled) => heartbeat = Wrap(ticks + 3)

\* Where the loop index of scheduler_run is, and whose job is being done.
IndexInv ==
  /\ pc \in {"owner", "dispatch"} =>
       idx < NumTasks /\ (idx \in Slots => queue[idx] = idx)
  /\ pc = "dispatch" /\ idx \in Slots => owner = TaskId(idx)

JobInv ==
  /\ pc \notin JobPlaces => running = Idle
  /\ pc \in JobPlaces =>
       /\ running \in Slots /\ owner = TaskId(running)
       /\ idx = running \/ (pc = "clear" /\ running = StopTask /\ idx = leftover)
  /\ pc \in {"disable", "stopTimer"} => running = StopTask

\* Once stopped, only task_1000ms and the end of its scan remain, if asm_test_main
\* does not bring the loop index back.
StoppedInv ==
  IndexBehind /\ pc \in RunPlaces /\ ~enabled =>
    \/ pc \in {"while", "blink"}
    \/ pc = "scan" /\ idx >= NumTasks
    \/ pc \in {"stopTimer", "body", "clear"} /\ running = StopTask
\* The stop comes first in task_1000ms.
StopsFirst == pc \in {"stopTimer", "body", "clear"} /\ running = StopTask => ~enabled

IInv == TypeOK /\ TimerLate /\ QueueClean /\ Beats /\ IndexInv /\ JobInv
        /\ StoppedInv /\ StopsFirst
-----------------------------------------------------------------------------
\* A counter that is at most one lap ahead wraps by a subtraction.
LEMMA WrapCases ==
  ASSUME NEW n \in 0 .. 2 * CounterMod - 1
  PROVE  Wrap(n) = IF n < CounterMod THEN n ELSE n - CounterMod
<1>1. CounterMod \in Nat \ {0}
  BY SchedulerAssumption
<1>2. CASE n < CounterMod
  <2>1. \A m \in Nat \ {0} : \A x \in 0 .. m - 1 : x % m = x
    OBVIOUS
  <2>2. n \in 0 .. CounterMod - 1
    BY <1>1, <1>2
  <2>. QED
    BY <1>1, <1>2, <2>1, <2>2 DEF Wrap
<1>3. CASE n >= CounterMod
  <2>1. \A m \in Nat \ {0} : \A x \in m .. 2 * m - 1 : x % m = x - m
    OBVIOUS
  <2>2. n \in CounterMod .. 2 * CounterMod - 1 /\ ~(n < CounterMod)
    BY <1>1, <1>3
  <2>. QED
    BY <1>1, <2>1, <2>2 DEF Wrap
<1>. QED
  BY <1>1, <1>2, <1>3

\* One more tick and one more beat leave the heartbeat three ahead of the ticks.
LEMMA BeatKeepsPace ==
  ASSUME NEW t \in 0 .. CounterMod - 1
  PROVE  Wrap(Wrap(t + 3) + 1) = Wrap(Wrap(t + 1) + 3)
<1>. CounterMod \in Nat /\ CounterMod > 3
  BY SchedulerAssumption
<1>1. \A n \in 0 .. 2 * CounterMod - 1 :
        Wrap(n) = IF n < CounterMod THEN n ELSE n - CounterMod
  BY WrapCases
<1>2. /\ Wrap(t + 3) = IF t + 3 < CounterMod THEN t + 3 ELSE t + 3 - CounterMod
      /\ Wrap(t + 1) = IF t + 1 < CounterMod THEN t + 1 ELSE t + 1 - CounterMod
  BY <1>1
<1>3. Wrap(t + 3) + 1 \in 0 .. 2 * CounterMod - 1
      /\ Wrap(t + 1) + 3 \in 0 .. 2 * CounterMod - 1
  BY <1>2
<1>4. /\ Wrap(Wrap(t + 3) + 1) = IF Wrap(t + 3) + 1 < CounterMod
                                 THEN Wrap(t + 3) + 1 ELSE Wrap(t + 3) + 1 - CounterMod
      /\ Wrap(Wrap(t + 1) + 3) = IF Wrap(t + 1) + 3 < CounterMod
                                 THEN Wrap(t + 1) + 3 ELSE Wrap(t + 1) + 3 - CounterMod
  BY <1>1, <1>3
<1>. QED
  BY <1>2, <1>4

\* The numbers of the first beats do not wrap.
LEMMA SmallWraps == Wrap(2) = 2 /\ Wrap(3) = 3
  BY WrapCases, SchedulerAssumption

\* A wrapped counter fits its type.
LEMMA WrapRange == ASSUME NEW n \in 0 .. 2 * CounterMod - 1
                   PROVE  Wrap(n) \in 0 .. CounterMod - 1
  BY WrapCases, SchedulerAssumption

\* At power-up the invariant holds, whatever RAM holds.
LEMMA InitIInv == Init => IInv
<1>. SUFFICES ASSUME Init PROVE IInv
  OBVIOUS
<1>. USE SchedulerAssumption DEF Init, Idle, NoOwner
<1>1. FlagsOK
  BY DEF FlagsOK
<1>2. DataOK
  BY DEF DataOK, Places, StartPlaces
<1>3. TimerLate /\ QueueClean /\ Beats /\ IndexInv /\ JobInv
      /\ StoppedInv /\ StopsFirst
  BY DEF TimerLate, QueueClean, Beats, IndexInv, JobInv, StoppedInv, StopsFirst, ServicePlaces, RunPlaces, JobPlaces
<1>. QED
  BY <1>1, <1>2, <1>3 DEF IInv, TypeOK

\* Every step of main(), a tick and a reset keep the invariant.
LEMMA StepIInv == IInv /\ [Next]_vars => IInv'
<1>. SUFFICES ASSUME IInv, [Next]_vars PROVE IInv'
  OBVIOUS
<1>. USE SchedulerAssumption DEF IInv, TimerLate, QueueClean, Beats, IndexInv, JobInv, StoppedInv, StopsFirst, TypeOK, DataOK, ServicePlaces, Places, StartPlaces, RunPlaces, JobPlaces, Slots, Idle, NoOwner, TaskId, Goto, hardware, memory, ghosts, IndexBehind
<1>1. CASE Boot
  <2>1. FlagsOK'
    BY <1>1 DEF Boot, FlagsOK
  <2>2. DataOK'
    BY <1>1, SmallWraps DEF Boot
  <2>3. (TimerLate /\ Beats)'
    BY <1>1, SmallWraps DEF Boot, FlagsOK
  <2>4. (QueueClean /\ IndexInv)'
    BY <1>1, SmallWraps DEF Boot
  <2>5. (JobInv /\ StoppedInv /\ StopsFirst)'
    BY <1>1, SmallWraps DEF Boot
  <2>. QED
    BY <2>1, <2>2, <2>3, <2>4, <2>5 DEF IInv, TypeOK
<1>2. CASE EnableInterrupts
  <2>1. FlagsOK'
    BY <1>2 DEF EnableInterrupts, FlagsOK
  <2>2. DataOK'
    BY <1>2 DEF EnableInterrupts
  <2>3. (TimerLate /\ Beats)'
    BY <1>2 DEF EnableInterrupts, FlagsOK
  <2>4. (QueueClean /\ IndexInv)'
    BY <1>2 DEF EnableInterrupts
  <2>5. (JobInv /\ StoppedInv /\ StopsFirst)'
    BY <1>2 DEF EnableInterrupts
  <2>. QED
    BY <2>1, <2>2, <2>3, <2>4, <2>5 DEF IInv, TypeOK
<1>3. CASE BeatRead
  <2>1. FlagsOK'
    BY <1>3 DEF BeatRead, FlagsOK
  <2>2. DataOK'
    BY <1>3 DEF BeatRead
  <2>3. (TimerLate /\ Beats)'
    BY <1>3 DEF BeatRead, FlagsOK
  <2>4. (QueueClean /\ IndexInv)'
    BY <1>3 DEF BeatRead
  <2>5. (JobInv /\ StoppedInv /\ StopsFirst)'
    BY <1>3 DEF BeatRead
  <2>. QED
    BY <2>1, <2>2, <2>3, <2>4, <2>5 DEF IInv, TypeOK
<1>4. CASE BeatWrite
  <2>1. FlagsOK'
    BY <1>4 DEF BeatWrite, FlagsOK
  <2>2. DataOK'
    BY <1>4, SmallWraps DEF BeatWrite
  <2>3. (TimerLate /\ Beats)'
    BY <1>4, SmallWraps DEF BeatWrite, FlagsOK
  <2>4. (QueueClean /\ IndexInv)'
    BY <1>4, SmallWraps DEF BeatWrite
  <2>5. (JobInv /\ StoppedInv /\ StopsFirst)'
    BY <1>4, SmallWraps DEF BeatWrite
  <2>. QED
    BY <2>1, <2>2, <2>3, <2>4, <2>5 DEF IInv, TypeOK
<1>5. CASE InitTicks
  <2>1. FlagsOK'
    BY <1>5 DEF InitTicks, FlagsOK
  <2>2. DataOK'
    BY <1>5, SmallWraps DEF InitTicks
  <2>3. (TimerLate /\ Beats)'
    BY <1>5, SmallWraps DEF InitTicks, FlagsOK
  <2>4. (QueueClean /\ IndexInv)'
    BY <1>5, SmallWraps DEF InitTicks
  <2>5. (JobInv /\ StoppedInv /\ StopsFirst)'
    BY <1>5, SmallWraps DEF InitTicks
  <2>. QED
    BY <2>1, <2>2, <2>3, <2>4, <2>5 DEF IInv, TypeOK
<1>6. CASE InitQueue
  <2>1. FlagsOK'
    BY <1>6 DEF InitQueue, FlagsOK
  <2>2. DataOK'
    <3>1. idx \in 0 .. NumTasks
      BY <1>6 DEF InitQueue
    <3>2. idx' \in 0 .. NumTasks
      BY <1>6, <3>1 DEF InitQueue
    <3>3. queue' \in [Slots -> Slots \cup {NULL, Garbage}]
      BY <1>6, <3>1 DEF InitQueue
    <3>. QED
      BY <1>6, <3>2, <3>3 DEF InitQueue
  <2>3. (TimerLate /\ Beats)'
    BY <1>6 DEF InitQueue, FlagsOK
  <2>4. (QueueClean /\ IndexInv)'
    <3>1. CASE idx < NumTasks
      <4>1. idx \in Slots /\ queue' = [queue EXCEPT ![idx] = NULL] /\ idx' = idx + 1
            /\ pc' = "initQueue"
        BY <1>6, <3>1 DEF InitQueue
      <4>2. \A i \in Slots : i < idx' => queue'[i] = NULL
        BY <4>1, <1>6 DEF InitQueue
      <4>. QED
        BY <4>1, <4>2
    <3>2. CASE ~(idx < NumTasks)
      BY <1>6, <3>2 DEF InitQueue
    <3>. QED
      BY <3>1, <3>2
  <2>5. (JobInv /\ StoppedInv /\ StopsFirst)'
    BY <1>6 DEF InitQueue
  <2>. QED
    BY <2>1, <2>2, <2>3, <2>4, <2>5 DEF IInv, TypeOK
<1>7. CASE StartTimer
  <2>1. FlagsOK'
    BY <1>7 DEF StartTimer, FlagsOK
  <2>2. DataOK'
    BY <1>7, SmallWraps DEF StartTimer
  <2>3. (TimerLate /\ Beats)'
    BY <1>7, SmallWraps DEF StartTimer, FlagsOK
  <2>4. (QueueClean /\ IndexInv)'
    BY <1>7, SmallWraps DEF StartTimer
  <2>5. (JobInv /\ StoppedInv /\ StopsFirst)'
    BY <1>7, SmallWraps DEF StartTimer
  <2>. QED
    BY <2>1, <2>2, <2>3, <2>4, <2>5 DEF IInv, TypeOK
<1>8. CASE SchedulerEnable
  <2>1. FlagsOK'
    BY <1>8 DEF SchedulerEnable, FlagsOK
  <2>2. DataOK'
    BY <1>8 DEF SchedulerEnable
  <2>3. (TimerLate /\ Beats)'
    BY <1>8 DEF SchedulerEnable, FlagsOK
  <2>4. (QueueClean /\ IndexInv)'
    BY <1>8 DEF SchedulerEnable
  <2>5. (JobInv /\ StoppedInv /\ StopsFirst)'
    BY <1>8 DEF SchedulerEnable
  <2>. QED
    BY <2>1, <2>2, <2>3, <2>4, <2>5 DEF IInv, TypeOK
<1>9. CASE While
  <2>1. FlagsOK'
    BY <1>9 DEF While, FlagsOK
  <2>2. DataOK'
    BY <1>9 DEF While
  <2>3. (TimerLate /\ Beats)'
    BY <1>9 DEF While, FlagsOK
  <2>4. (QueueClean /\ IndexInv)'
    BY <1>9 DEF While
  <2>5. (JobInv /\ StoppedInv /\ StopsFirst)'
    BY <1>9 DEF While
  <2>. QED
    BY <2>1, <2>2, <2>3, <2>4, <2>5 DEF IInv, TypeOK
<1>10. CASE Scan
  <2>1. FlagsOK'
    BY <1>10 DEF Scan, FlagsOK
  <2>2. DataOK'
    <3>1. pc \in RunPlaces /\ enabled' = enabled
          /\ (idx' = idx \/ (idx < NumTasks /\ idx' = idx + 1))
      BY <1>10 DEF Scan, Pointers
    <3>2. idx' \in Int /\ ((pc' \in RunPlaces => enabled') => idx' \in 0 .. NumTasks)
      BY <1>10, <3>1 DEF Scan
    <3>3. pc' \in Places
      BY <1>10 DEF Scan, Pointers
    <3>. QED
      BY <1>10, <3>2, <3>3 DEF Scan
  <2>3. (TimerLate /\ Beats)'
    BY <1>10 DEF Scan, FlagsOK
  <2>4. (QueueClean /\ IndexInv)'
    BY <1>10 DEF Scan, Pointers
  <2>5. (JobInv /\ StoppedInv /\ StopsFirst)'
    BY <1>10 DEF Scan, Pointers
  <2>. QED
    BY <2>1, <2>2, <2>3, <2>4, <2>5 DEF IInv, TypeOK
<1>11. CASE OwnershipTrace
  <2>1. FlagsOK'
    BY <1>11 DEF OwnershipTrace, FlagsOK
  <2>2. DataOK'
    BY <1>11 DEF OwnershipTrace, Followed
  <2>3. (TimerLate /\ Beats)'
    BY <1>11 DEF OwnershipTrace, FlagsOK
  <2>4. (QueueClean /\ IndexInv)'
    BY <1>11 DEF OwnershipTrace, Followed
  <2>5. (JobInv /\ StoppedInv /\ StopsFirst)'
    BY <1>11 DEF OwnershipTrace, Followed
  <2>. QED
    BY <2>1, <2>2, <2>3, <2>4, <2>5 DEF IInv, TypeOK
<1>12. CASE Dispatch
  <2>1. FlagsOK'
    BY <1>12 DEF Dispatch, FlagsOK
  <2>2. DataOK'
    BY <1>12 DEF Dispatch, Followed
  <2>3. (TimerLate /\ Beats)'
    BY <1>12 DEF Dispatch, FlagsOK
  <2>4. (QueueClean /\ IndexInv)'
    BY <1>12 DEF Dispatch, Followed
  <2>5. (JobInv /\ StoppedInv /\ StopsFirst)'
    BY <1>12 DEF Dispatch, Followed
  <2>. QED
    BY <2>1, <2>2, <2>3, <2>4, <2>5 DEF IInv, TypeOK
<1>13. CASE Disable
  <2>1. FlagsOK'
    BY <1>13 DEF Disable, FlagsOK
  <2>2. DataOK'
    BY <1>13 DEF Disable
  <2>3. (TimerLate /\ Beats)'
    BY <1>13 DEF Disable, FlagsOK
  <2>4. (QueueClean /\ IndexInv)'
    BY <1>13 DEF Disable
  <2>5. (JobInv /\ StoppedInv /\ StopsFirst)'
    BY <1>13 DEF Disable
  <2>. QED
    BY <2>1, <2>2, <2>3, <2>4, <2>5 DEF IInv, TypeOK
<1>14. CASE StopTimer
  <2>1. FlagsOK'
    BY <1>14 DEF StopTimer, FlagsOK
  <2>2. DataOK'
    BY <1>14 DEF StopTimer
  <2>3. (TimerLate /\ Beats)'
    BY <1>14 DEF StopTimer, FlagsOK
  <2>4. (QueueClean /\ IndexInv)'
    BY <1>14 DEF StopTimer
  <2>5. (JobInv /\ StoppedInv /\ StopsFirst)'
    BY <1>14 DEF StopTimer
  <2>. QED
    BY <2>1, <2>2, <2>3, <2>4, <2>5 DEF IInv, TypeOK
<1>15. CASE TaskReturns
  <2>1. FlagsOK'
    BY <1>15 DEF TaskReturns, FlagsOK
  <2>2. DataOK'
    BY <1>15 DEF TaskReturns
  <2>3. (TimerLate /\ Beats)'
    BY <1>15 DEF TaskReturns, FlagsOK
  <2>4. (QueueClean /\ IndexInv)'
    BY <1>15 DEF TaskReturns
  <2>5. (JobInv /\ StoppedInv /\ StopsFirst)'
    BY <1>15 DEF TaskReturns
  <2>. QED
    BY <2>1, <2>2, <2>3, <2>4, <2>5 DEF IInv, TypeOK
<1>16. CASE ClearSlot
  <2>1. FlagsOK'
    BY <1>16 DEF ClearSlot, FlagsOK
  <2>2. DataOK'
    <3>1. queue' \in [Slots -> Slots \cup {NULL, Garbage}]
      BY <1>16 DEF ClearSlot, Drained
    <3>2. ticks' \in 0 .. CounterMod - 1 /\ heartbeat' \in 0 .. CounterMod - 1
      BY <1>16 DEF ClearSlot
    <3>3. idx' \in Int /\ ((pc' \in RunPlaces => enabled') => idx' \in 0 .. NumTasks)
      BY <1>16 DEF ClearSlot
    <3>. QED
      BY <1>16, <3>1, <3>2, <3>3 DEF ClearSlot
  <2>3. (TimerLate /\ Beats)'
    BY <1>16 DEF ClearSlot, Drained, FlagsOK
  <2>4. (QueueClean /\ IndexInv)'
    BY <1>16 DEF ClearSlot, Drained
  <2>5. (JobInv /\ StoppedInv /\ StopsFirst)'
    BY <1>16 DEF ClearSlot, Drained
  <2>. QED
    BY <2>1, <2>2, <2>3, <2>4, <2>5 DEF IInv, TypeOK
<1>17. CASE TimerExpires
  <2>1. FlagsOK'
    BY <1>17 DEF TimerExpires, FlagsOK
  <2>2. DataOK'
    BY <1>17 DEF TimerExpires
  <2>3. (TimerLate /\ Beats)'
    BY <1>17 DEF TimerExpires, FlagsOK
  <2>4. (QueueClean /\ IndexInv)'
    BY <1>17 DEF TimerExpires
  <2>5. (JobInv /\ StoppedInv /\ StopsFirst)'
    BY <1>17 DEF TimerExpires
  <2>. QED
    BY <2>1, <2>2, <2>3, <2>4, <2>5 DEF IInv, TypeOK
<1>18. CASE TimerInterrupt
  <2>1. FlagsOK'
    BY <1>18 DEF TimerInterrupt, FlagsOK
  <2>2. DataOK'
    <3>1. queue' \in [Slots -> Slots \cup {NULL, Garbage}]
      BY <1>18 DEF TimerInterrupt
    <3>2. ticks' \in 0 .. CounterMod - 1 /\ heartbeat' \in 0 .. CounterMod - 1
      BY <1>18, WrapRange DEF TimerInterrupt
    <3>. QED
      BY <1>18, <3>1, <3>2 DEF TimerInterrupt
  <2>3. (TimerLate /\ Beats)'
    BY <1>18, WrapRange, BeatKeepsPace DEF TimerInterrupt, Released, FlagsOK
  <2>4. (QueueClean /\ IndexInv)'
    BY <1>18, WrapRange, BeatKeepsPace DEF TimerInterrupt, Released
  <2>5. (JobInv /\ StoppedInv /\ StopsFirst)'
    BY <1>18, WrapRange, BeatKeepsPace DEF TimerInterrupt, Released
  <2>. QED
    BY <2>1, <2>2, <2>3, <2>4, <2>5 DEF IInv, TypeOK
<1>19. CASE Reset
  <2>1. FlagsOK'
    BY <1>19 DEF Reset, FlagsOK
  <2>2. DataOK'
    BY <1>19 DEF Reset
  <2>3. (TimerLate /\ Beats)'
    BY <1>19 DEF Reset, FlagsOK
  <2>4. (QueueClean /\ IndexInv)'
    BY <1>19 DEF Reset
  <2>5. (JobInv /\ StoppedInv /\ StopsFirst)'
    BY <1>19 DEF Reset
  <2>. QED
    BY <2>1, <2>2, <2>3, <2>4, <2>5 DEF IInv, TypeOK
<1>20. CASE UNCHANGED vars
  BY <1>20 DEF vars, FlagsOK
<1>. QED
  BY <1>1, <1>2, <1>3, <1>4, <1>5, <1>6, <1>7, <1>8, <1>9, <1>10, <1>11, <1>12, <1>13, <1>14, <1>15, <1>16, <1>17, <1>18, <1>19, <1>20 DEF Next, Step, MainStep

\* Everything proved below follows from the inductive invariant.
THEOREM Invariance == Spec => []IInv
  BY InitIInv, StepIInv, PTL DEF Spec

\* TypeOK, for every value of the constants.
THEOREM TypeCorrect == Spec => []TypeOK
<1>1. IInv => TypeOK
  BY DEF IInv
<1>. QED
  BY <1>1, Invariance, PTL

\* The dispatcher never follows an empty, stale or foreign pointer.
THEOREM DispatchIsSafe == Spec => []NoWildDispatch
<1>1. IInv => NoWildDispatch
  BY SchedulerAssumption DEF IInv, IndexInv, NoWildDispatch, TypeOK, DataOK, Slots
<1>. QED
  BY <1>1, Invariance, PTL

\* The trace names the task that runs.
THEOREM OwnershipIsRight == Spec => []OwnershipMatches
<1>1. IInv => OwnershipMatches
  BY DEF IInv, JobInv, OwnershipMatches
<1>. QED
  BY <1>1, Invariance, PTL

\* heartbeat_counter counts the ticks, three ahead, in spite of the race.
THEOREM HeartbeatIsExact == Spec => []HeartbeatExact
<1>1. IInv => HeartbeatExact
  BY DEF IInv, Beats, HeartbeatExact, ServicePlaces
<1>. QED
  BY <1>1, Invariance, PTL

\* After scheduler_disable no task is started, in the builds in which asm_test_main
\* does not bring the loop index back below the last slot.
THEOREM StopIsFinal == Spec => NothingRunsAfterStop
<1>1. IInv /\ IndexBehind /\ pc \in RunPlaces /\ ~enabled => ~Dispatch
  BY DEF IInv, StoppedInv, Dispatch, JobPlaces
<1>2. IInv /\ [Next]_vars
      => [(IndexBehind /\ pc \in RunPlaces /\ ~enabled) => (~Dispatch)]_vars
  BY <1>1
<1>. QED
  BY <1>2, Invariance, PTL DEF Spec, NothingRunsAfterStop
-----------------------------------------------------------------------------
(***************************************************************************)
(* The scheduler implements DispatchQueue.                                 *)
(***************************************************************************)
\* Before the schedule opens and after it closes the mapping shows an empty set,
\* and no step other than StartTimer, Disable and Reset opens or closes it.
LEMMA StepRefines ==
  IInv /\ [Next]_vars => [IndexBehind => Lossy!Next]_(<<Serving, Ready, running>>)
<1>. SUFFICES ASSUME IInv, [Next]_vars, IndexBehind
              PROVE  Lossy!Next \/ UNCHANGED <<Serving, Ready, running>>
  OBVIOUS
<1>. USE SchedulerAssumption DEF IInv, RunPlaces, JobPlaces, Goto, hardware, memory, ghosts
<1>1. ASSUME UNCHANGED <<running, rereleased, queue>>, Serving' = Serving
      PROVE  UNCHANGED <<Serving, Ready, running>>
  BY <1>1 DEF Ready, Waiting
<1>2. ASSUME UNCHANGED running, ~Serving, ~Serving'
      PROVE  UNCHANGED <<Serving, Ready, running>>
  BY <1>2 DEF Ready, Serving
<1>3. CASE Boot \/ EnableInterrupts \/ BeatRead \/ BeatWrite \/ InitTicks \/ InitQueue
  BY <1>2, <1>3 DEF Serving, Boot, EnableInterrupts, BeatRead, BeatWrite, InitTicks, InitQueue
<1>4. CASE StartTimer
  <2>1. ~Serving /\ Serving' /\ running' = running /\ queue' = queue
    BY <1>4 DEF StartTimer, Serving
  <2>2. Ready' = {}
    BY <1>4, <2>1 DEF StartTimer, Ready, Waiting, QueueClean, Slots
  <2>. QED
    BY <2>1, <2>2 DEF Lossy!Next, Lossy!Open
<1>5. CASE SchedulerEnable \/ While \/ Scan \/ OwnershipTrace \/ StopTimer \/ TaskReturns
  <2>1. UNCHANGED <<running, rereleased, queue>>
    BY <1>5 DEF SchedulerEnable, While, Scan, OwnershipTrace, StopTimer, TaskReturns
  <2>2. CASE SchedulerEnable
    BY <1>1, <2>1, <2>2 DEF Serving, SchedulerEnable
  <2>3. CASE While
    BY <1>1, <2>1, <2>3 DEF Serving, While
  <2>4. CASE Scan
    BY <1>1, <2>1, <2>4 DEF Serving, Scan
  <2>5. CASE OwnershipTrace
    BY <1>1, <2>1, <2>5 DEF Serving, OwnershipTrace
  <2>6. CASE StopTimer
    BY <1>1, <2>1, <2>6 DEF Serving, StopTimer
  <2>7. CASE TaskReturns
    BY <1>1, <2>1, <2>7 DEF Serving, TaskReturns
  <2>. QED
    BY <1>5, <2>2, <2>3, <2>4, <2>5, <2>6, <2>7
<1>6. CASE Dispatch
  <2>1. Serving /\ Serving' /\ idx \in Slots /\ running = Idle /\ queue[idx] = idx
    <3>1. pc = "dispatch" /\ enabled /\ pc' \in RunPlaces /\ enabled' = enabled
      BY <1>6 DEF Dispatch, StoppedInv
    <3>2. idx \in Slots
      BY <3>1 DEF IndexInv, TypeOK, DataOK, Slots
    <3>. QED
      BY <3>1, <3>2 DEF Serving, IndexInv, JobInv
  <2>2. running' = idx /\ ~rereleased' /\ queue' = queue
    BY <1>6, <2>1 DEF Dispatch, Followed
  <2>3. Idle \notin Slots
    BY DEF Idle, Slots
  <2>4. idx \in Ready /\ Ready' = Ready \ {idx}
    BY <2>1, <2>2, <2>3 DEF Ready, Waiting
  <2>. QED
    BY <2>1, <2>2, <2>4 DEF Lossy!Next, Lossy!Start
<1>7. CASE Disable
  <2>1. ~Serving' /\ running' = running
    BY <1>7 DEF Disable, Serving
  <2>. QED
    BY <2>1 DEF Lossy!Next, Lossy!Close, Ready
<1>8. CASE ClearSlot
  <2>1. running \in Slots /\ running # Idle /\ running' = Idle
    BY <1>8 DEF ClearSlot, JobInv, Idle, Slots
  <2>2. Serving' = Serving
    BY <1>8 DEF ClearSlot, Serving
  <2>3. Ready' = Ready \ {running}
    <3>1. CASE Serving
      <4>1. idx = running /\ queue' = [queue EXCEPT ![running] = NULL]
        BY <1>8, <2>1, <3>1 DEF ClearSlot, Drained, JobInv, StopsFirst, Serving
      <4>2. \A i \in Slots : queue'[i] = IF i = running THEN NULL ELSE queue[i]
        BY <4>1 DEF TypeOK, DataOK
      <4>3. NULL \notin Slots
        BY DEF Slots
      <4>. QED
        BY <2>1, <2>2, <3>1, <4>2, <4>3 DEF Ready, Waiting, Idle, Slots
    <3>2. CASE ~Serving
      BY <2>2, <3>2 DEF Ready
    <3>. QED
      BY <3>1, <3>2
  <2>. QED
    BY <2>1, <2>2, <2>3 DEF Lossy!Next, Lossy!Finish
<1>9. CASE TimerExpires
  BY <1>1, <1>9 DEF TimerExpires, Serving
<1>10. CASE TimerInterrupt
  <2>1. Serving' = Serving /\ running' = running
    BY <1>10 DEF TimerInterrupt, Serving
  <2>2. CASE Serving
    <3>1. \A i \in Slots : queue'[i] = IF i \in Released(ticks') THEN i ELSE queue[i]
      BY <1>10 DEF TimerInterrupt
    <3>2. rereleased' = (rereleased \/ running \in Released(ticks'))
      BY <1>10 DEF TimerInterrupt
    <3>3. Released(ticks') \in SUBSET Slots
      BY DEF Released
    <3>4. Waiting' = Waiting \cup Released(ticks')
      BY <2>1, <3>1, <3>2, <3>3 DEF Waiting
    <3>. QED
      BY <2>1, <2>2, <3>3, <3>4 DEF Ready, Lossy!Next, Lossy!Release
  <2>3. CASE ~Serving
    BY <1>2, <2>1, <2>3
  <2>. QED
    BY <2>2, <2>3
<1>11. CASE Reset
  BY <1>11 DEF Reset, Ready, Serving, Lossy!Next, Lossy!Restart
<1>12. CASE UNCHANGED vars
  BY <1>1, <1>12 DEF vars, Serving
<1>. QED
  BY <1>3, <1>4, <1>5, <1>6, <1>7, <1>8, <1>9, <1>10, <1>11, <1>12 DEF Next, Step, MainStep

\* The scheduler is a dispatch queue, for any number of tasks and any periods, in
\* the builds of StopIsFinal.
THEOREM RefinesDispatchQueue == Spec => ImplementsLossy
<1>1. Init => Lossy!Init
  BY DEF Init, Lossy!Init, Serving, Ready, RunPlaces, JobPlaces
<1>. QED
  BY <1>1, Invariance, StepRefines, PTL DEF Spec, ImplementsLossy, Lossy!dqVars
-----------------------------------------------------------------------------
\* When every tick finds the slots it fills empty, the running task, whose slot is
\* still full, is not released again before the schedule is closed.
StillFull ==
  Serving /\ running # Idle => queue[running] = running /\ ~rereleased

\* With every deadline met the slot of the running task stays full.
LEMMA TimelyStep == IInv /\ StillFull /\ [TimelyNext]_vars => StillFull'
<1>. SUFFICES ASSUME IInv, StillFull, [TimelyNext]_vars, Serving', running' # Idle
              PROVE  (queue[running] = running /\ ~rereleased)'
  BY DEF StillFull
<1>. USE SchedulerAssumption DEF IInv, JobInv, Serving, RunPlaces, JobPlaces, Goto,
       hardware, memory, ghosts
<1>1. CASE Dispatch
  <2>1. pc = "dispatch" /\ pc \in RunPlaces /\ enabled
    BY <1>1 DEF Dispatch
  <2>2. idx \in Slots /\ queue[idx] = idx
    BY <2>1 DEF IndexInv, TypeOK, DataOK, Slots
  <2>. QED
    BY <1>1, <2>1, <2>2 DEF Dispatch, Followed
<1>2. CASE TaskReturns
  BY <1>2 DEF TaskReturns, StillFull
<1>3. CASE TimerInterrupt /\ OnTime
  <2>1. queue[running] = running /\ ~rereleased /\ enabled /\ running \in Slots
    BY <1>3 DEF TimerInterrupt, StillFull
  <2>2. running # NULL
    BY <2>1 DEF Slots
  <2>3. running \notin Released(ticks')
    BY <1>3, <2>1, <2>2 DEF OnTime
  <2>. QED
    BY <1>3, <2>1, <2>3 DEF TimerInterrupt
<1>4. CASE ClearSlot \/ Reset
  BY <1>4 DEF ClearSlot, Reset
<1>5. CASE TimerExpires \/ UNCHANGED vars
  BY <1>5 DEF TimerExpires, vars, StillFull
<1>6. CASE StopTimer \/ Disable
  BY <1>6 DEF StopTimer, Disable, StopsFirst
<1>7. CASE \/ Boot \/ EnableInterrupts \/ BeatRead \/ BeatWrite \/ InitTicks \/ InitQueue
           \/ StartTimer \/ SchedulerEnable \/ While \/ Scan \/ OwnershipTrace
  BY <1>7 DEF Boot, EnableInterrupts, BeatRead, BeatWrite, InitTicks, InitQueue,
     StartTimer, SchedulerEnable, While, Scan, OwnershipTrace
<1>. QED
  BY <1>1, <1>2, <1>3, <1>4, <1>5, <1>6, <1>7 DEF TimelyNext, MainStep

\* If every task meets its deadline the scheduler loses no activation at all, in
\* the builds of StopIsFinal.
THEOREM TimelyRefinesExactly == TimelySpec => ImplementsExact
<1>1. Init => Exact!Init /\ StillFull
  BY DEF Init, Exact!Init, Serving, Ready, RunPlaces, JobPlaces, StillFull
<1>2. [TimelyNext]_vars => [Next]_vars
  BY DEF TimelyNext, Next, Step
<1>3. IInv /\ StillFull /\ [Next]_vars
      => [IndexBehind => Exact!Next]_(<<Serving, Ready, running>>)
  <2>. SUFFICES ASSUME IInv, StillFull, [Next]_vars, IndexBehind
                PROVE  [Exact!Next]_(<<Serving, Ready, running>>)
    OBVIOUS
  <2>1. running # Idle => Ready \ {running} = Ready
    BY DEF StillFull, Ready, Waiting
  <2>2. Lossy!Finish => Exact!Finish
    BY <2>1 DEF Lossy!Finish, Exact!Finish
  <2>3. [Lossy!Next]_(<<Serving, Ready, running>>)
    BY StepRefines
  <2>. QED
    BY <2>2, <2>3 DEF Lossy!Next, Exact!Next, Lossy!Open, Exact!Open, Lossy!Release,
       Exact!Release, Lossy!Start, Exact!Start, Lossy!Close, Exact!Close, Lossy!Restart,
       Exact!Restart
<1>. QED
  BY <1>1, <1>2, <1>3, InitIInv, StepIInv, TimelyStep, PTL
     DEF TimelySpec, ImplementsExact, Exact!dqVars
=============================================================================
