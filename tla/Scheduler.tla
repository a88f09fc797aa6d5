------------------------------ MODULE Scheduler ------------------------------
(***************************************************************************)
(* The tick-driven scheduler of the EMSA5 firmware: main() from reset to   *)
(* blinkenlights(), scheduler_init/run/disable, the four periodic tasks as *)
(* the scheduler sees them, and the timer interrupt that releases them.    *)
(*                                                                         *)
(* Two actors share memory.  The main program takes one step per access to *)
(* a volatile variable; the interrupt handler is one step, because         *)
(* handle_trap runs its body with interrupts off and always to the end     *)
(* (module TrapEntry models the places where that is delicate).  A reset   *)
(* of the programmable logic restarts the CPU and the peripherals but      *)
(* leaves RAM as it was, and start.s does not clear .bss.                  *)
(***************************************************************************)
EXTENDS Integers

CONSTANTS
  NumTasks,      \* NUM_TASKS
  Period,        \* Period[i]: tasks[i].period, in ticks
  StopTask,      \* the slot of task_1000ms, the task that ends the schedule
  CounterMod,    \* 2^32: scheduler_ticks and heartbeat_counter are uint32_t
  AfterTest,     \* what asm_test_main may leave in scheduler_run's loop index, in one
                 \* build or another
  NULL,          \* an empty queue slot
  Garbage        \* the content of a slot nobody has written since power-up

Slots == 0 .. NumTasks - 1

ASSUME SchedulerAssumption ==
  /\ NumTasks \in Nat \ {0}
  /\ Period \in [Slots -> Nat \ {0, 1}]
  /\ StopTask = NumTasks - 1
  /\ CounterMod \in Nat /\ CounterMod > 3
  /\ AfterTest \subseteq Int
  /\ NULL \notin Int /\ Garbage \notin Int /\ NULL # Garbage

VARIABLES
  pc,            \* where the main program is
  idx,           \* the loop index i of scheduler_init and scheduler_run
  tmp,           \* the value heartbeat_beat has read and not yet written back
  mie,           \* mstatus.MIE
  timerOn,       \* TIMER_0 is counting with its interrupt enabled
  tickPending,   \* a timer interrupt waits to be taken
  queue,         \* scheduler_queue: a slot holds NULL or the index of a task
  enabled,       \* scheduler_enabled
  ticks,         \* scheduler_ticks
  heartbeat,     \* heartbeat_counter
  running,       \* the task whose entry function scheduler_run has called
  owner,         \* the id in the last ownership message of the trace
  leftover,      \* what asm_test_main leaves in the loop index, in this build
  rereleased     \* history: the running task was released again meanwhile

memory == <<queue, enabled, ticks, heartbeat>>
hardware == <<mie, timerOn, tickPending>>
ghosts == <<running, owner, leftover, rereleased>>
vars == <<pc, idx, tmp, hardware, memory, ghosts>>

Idle == -1                       \* no task is running
NoOwner == 0                     \* no ownership message yet
TaskId(i) == i + 1               \* tasks[i].id
Wrap(n) == n % CounterMod

\* The places of main() before the scheduler's variables are initialised, and of
StartPlaces ==
  {"boot", "enableIrq", "beatRead", "beatWrite", "initTicks", "initQueue"}
\* scheduler_run; it is astray when it has called what is no task.
JobPlaces == {"disable", "stopTimer", "body", "clear"}
RunPlaces ==
  {"while", "scan", "owner", "dispatch", "blink", "astray"} \cup JobPlaces
Places == StartPlaces \cup {"startTimer", "enable"} \cup RunPlaces
-----------------------------------------------------------------------------
(***************************************************************************)
(* main() up to the scheduler.                                             *)
(***************************************************************************)
Goto(from, to) == pc = from /\ pc' = to

\* start.s, heartbeat_init, hw_init and the first two beats: interrupts are
\* off and timer_init stops the timer.
Boot ==
  /\ Goto("boot", "enableIrq")
  /\ heartbeat' = Wrap(2)
  /\ timerOn' = FALSE
  /\ UNCHANGED <<idx, tmp, mie, tickPending, queue, enabled, ticks, ghosts>>

EnableInterrupts ==
  /\ Goto("enableIrq", "beatRead")
  /\ mie' = TRUE
  /\ UNCHANGED <<idx, tmp, timerOn, tickPending, memory, ghosts>>

\* heartbeat_counter++ is a load and a store; from here on it competes with
\* the heartbeat_beat of the timer interrupt.
BeatRead ==
  /\ Goto("beatRead", "beatWrite")
  /\ tmp' = heartbeat
  /\ UNCHANGED <<idx, hardware, memory, ghosts>>

BeatWrite ==
  /\ Goto("beatWrite", "initTicks")
  /\ heartbeat' = Wrap(tmp + 1)
  /\ UNCHANGED <<idx, tmp, hardware, queue, enabled, ticks, ghosts>>

\* Mutant of the next definition: the tick counter is not reset.
InitTicksKept ==
  /\ Goto("initTicks", "initQueue")
  /\ idx' = 0
  /\ UNCHANGED <<tmp, hardware, memory, ghosts>>

InitTicks ==
  /\ Goto("initTicks", "initQueue")
  /\ ticks' = 0
  /\ idx' = 0
  /\ UNCHANGED <<tmp, hardware, queue, enabled, heartbeat, ghosts>>

\* Mutants of the next definition: a loop one short, and one too long.
InitQueueShort ==
  /\ pc = "initQueue"
  /\ IF idx < NumTasks - 1
     THEN queue' = [queue EXCEPT ![idx] = NULL] /\ idx' = idx + 1 /\ pc' = pc
     ELSE pc' = "startTimer" /\ UNCHANGED <<idx, queue>>
  /\ UNCHANGED <<tmp, hardware, enabled, ticks, heartbeat, ghosts>>
InitQueueLong ==
  /\ pc = "initQueue"
  /\ IF idx <= NumTasks
     THEN queue' = [queue EXCEPT ![idx] = NULL] /\ idx' = idx + 1 /\ pc' = pc
     ELSE pc' = "startTimer" /\ UNCHANGED <<idx, queue>>
  /\ UNCHANGED <<tmp, hardware, enabled, ticks, heartbeat, ghosts>>

InitQueue ==
  /\ pc = "initQueue"
  /\ IF idx < NumTasks
     THEN /\ queue' = [queue EXCEPT ![idx] = NULL]
          /\ idx' = idx + 1
          /\ pc' = pc
     ELSE /\ pc' = "startTimer"
          /\ UNCHANGED <<idx, queue>>
  /\ UNCHANGED <<tmp, hardware, enabled, ticks, heartbeat, ghosts>>

StartTimer ==
  /\ Goto("startTimer", "enable")
  /\ timerOn' = TRUE
  /\ UNCHANGED <<idx, tmp, mie, tickPending, memory, ghosts>>

SchedulerEnable ==
  /\ Goto("enable", "while")
  /\ enabled' = TRUE
  /\ UNCHANGED <<idx, tmp, hardware, queue, ticks, heartbeat, ghosts>>
-----------------------------------------------------------------------------
(***************************************************************************)
(* scheduler_run.                                                          *)
(***************************************************************************)
\* Mutant of the next definition: the loop index is not reset.
WhileWithoutReset ==
  /\ pc = "while"
  /\ pc' = IF enabled THEN "scan" ELSE "blink"
  /\ UNCHANGED <<idx, tmp, hardware, memory, ghosts>>

While ==
  /\ pc = "while"
  /\ IF enabled
     THEN pc' = "scan" /\ idx' = 0
     ELSE pc' = "blink" /\ UNCHANGED idx
  /\ UNCHANGED <<tmp, hardware, memory, ghosts>>

\* What scheduler_queue[i] may be: before the queue lies other RAM.
Pointers(i) == IF i \in Slots THEN {queue[i]} ELSE {NULL, Garbage}

Scan ==
  /\ pc = "scan"
  /\ \/ idx >= NumTasks /\ pc' = "while" /\ UNCHANGED idx
     \/ idx < NumTasks /\ NULL \in Pointers(idx) /\ idx' = idx + 1 /\ UNCHANGED pc
     \/ idx < NumTasks /\ Pointers(idx) # {NULL} /\ pc' = "owner" /\ UNCHANGED idx
  /\ UNCHANGED <<tmp, hardware, memory, ghosts>>

\* The pointer at its next use.
Followed(i) == IF i \in Slots THEN queue[i] ELSE Garbage

\* Mutant of the next definition: no ownership message.
OwnershipDropped ==
  /\ Goto("owner", "dispatch")
  /\ UNCHANGED <<idx, tmp, hardware, memory, ghosts>>

\* Each use of scheduler_queue[i] loads the pointer again and follows it.
OwnershipTrace ==
  /\ Goto("owner", "dispatch")
  /\ owner' = IF Followed(idx) \in Slots THEN TaskId(Followed(idx)) ELSE NoOwner
  /\ UNCHANGED <<idx, tmp, hardware, memory, running, leftover, rereleased>>

Dispatch ==
  /\ pc = "dispatch"
  /\ rereleased' = FALSE
  /\ IF Followed(idx) \in Slots
     THEN /\ running' = Followed(idx)
          /\ pc' = IF running' = StopTask THEN "disable" ELSE "body"
     ELSE pc' = "astray" /\ UNCHANGED running
  /\ UNCHANGED <<idx, tmp, hardware, memory, owner, leftover>>

\* Mutant of the next definition: only the timer is stopped.
DisableDropped ==
  /\ Goto("disable", "stopTimer")
  /\ UNCHANGED <<idx, tmp, hardware, memory, ghosts>>

\* scheduler_disable, called by task_1000ms: first the flag, then the timer.
\* The write-back of tcsr0 may acknowledge an interrupt not yet taken.
Disable ==
  /\ Goto("disable", "stopTimer")
  /\ enabled' = FALSE
  /\ UNCHANGED <<idx, tmp, hardware, queue, ticks, heartbeat, ghosts>>

StopTimer ==
  /\ Goto("stopTimer", "body")
  /\ timerOn' = FALSE
  /\ tickPending' \in {tickPending, FALSE}
  /\ UNCHANGED <<idx, tmp, mie, memory, ghosts>>

\* Mutant of the next definition: the index comes back inside the queue.
TaskReturnsInside ==
  /\ Goto("body", "clear")
  /\ idx' = IF running = StopTask THEN 0 ELSE idx
  /\ UNCHANGED <<tmp, hardware, memory, ghosts>>

\* The entry function returns.  asm_test_main, called by task_1000ms, overwrites
\* s0 to s11 and saves none of them; it ends with s0 = 768 (line 27 of full.S),
\* s5 = 1 (197), s10 = -4 (210) and others.  A build may keep i in any of these,
\* as the one in example/ does in s0, or elsewhere, where it remains StopTask.
\* That it keeps i, and not the slot's address instead, is taken for granted.
TaskReturns ==
  /\ Goto("body", "clear")
  /\ idx' = IF running = StopTask THEN leftover ELSE idx
  /\ UNCHANGED <<tmp, hardware, memory, ghosts>>

\* Mutant of the next definition: all slots are cleared.
AllDrained(q, i) == [j \in Slots |-> NULL]
Drained(q, i) == [q EXCEPT ![i] = NULL]

\* Outside the queue the store hits other RAM, a counter of the scheduler maybe.
ClearSlot ==
  /\ Goto("clear", "scan")
  /\ \/ idx \in Slots /\ queue' = Drained(queue, idx) /\ UNCHANGED <<ticks, heartbeat>>
     \/ idx \notin Slots /\ UNCHANGED <<queue, ticks, heartbeat>>
     \/ idx \notin Slots /\ ticks' = 0 /\ UNCHANGED <<queue, heartbeat>>
     \/ idx \notin Slots /\ heartbeat' = 0 /\ UNCHANGED <<queue, ticks>>
  /\ idx' = idx + 1
  /\ running' = Idle
  /\ UNCHANGED <<tmp, hardware, enabled, owner, leftover, rereleased>>

MainStep ==
  \/ Boot \/ EnableInterrupts \/ BeatRead \/ BeatWrite
  \/ InitTicks \/ InitQueue \/ StartTimer \/ SchedulerEnable
  \/ While \/ Scan \/ OwnershipTrace \/ Dispatch
  \/ Disable \/ StopTimer \/ TaskReturns \/ ClearSlot
-----------------------------------------------------------------------------
(***************************************************************************)
(* The timer, its interrupt, and a reset of the programmable logic.        *)
(***************************************************************************)
TimerExpires ==
  /\ timerOn
  /\ tickPending' = TRUE
  /\ UNCHANGED <<pc, idx, tmp, mie, timerOn, memory, ghosts>>

\* The tasks scheduler_next puts in the queue when the counter reaches t.
Released(t) == {i \in Slots : t % Period[i] = 0}

\* handle_timer_interrupt: heartbeat_beat, then scheduler_next.
TimerInterrupt ==
  /\ mie /\ tickPending
  /\ tickPending' = FALSE
  /\ heartbeat' = Wrap(heartbeat + 1)
  /\ ticks' = Wrap(ticks + 1)
  /\ queue' = [i \in Slots |-> IF i \in Released(ticks') THEN i ELSE queue[i]]
  /\ rereleased' = (rereleased \/ running \in Released(ticks'))
  /\ UNCHANGED <<pc, idx, tmp, mie, timerOn, enabled, running, owner, leftover>>

\* scripts/reset_pl.sh and release_from_reset_emsa5.sh.
Reset ==
  /\ pc' = "boot"
  /\ idx' = 0 /\ tmp' = 0
  /\ mie' = FALSE /\ timerOn' = FALSE /\ tickPending' = FALSE
  /\ running' = Idle /\ owner' = NoOwner /\ rereleased' = FALSE
  /\ UNCHANGED <<memory, leftover>>
-----------------------------------------------------------------------------
Init ==
  /\ pc = "boot"
  /\ idx = 0 /\ tmp = 0
  /\ mie = FALSE /\ timerOn = FALSE /\ tickPending = FALSE
  /\ running = Idle /\ owner = NoOwner /\ rereleased = FALSE
  /\ queue \in [Slots -> Slots \cup {NULL, Garbage}]
  /\ enabled \in BOOLEAN
  /\ ticks \in 0 .. CounterMod - 1
  /\ heartbeat \in 0 .. CounterMod - 1
  /\ leftover \in AfterTest

Step == MainStep \/ TimerExpires \/ TimerInterrupt
Next == Step \/ Reset

Spec == Init /\ [][Next]_vars

\* The main program and the timer do not stop; the handler is shorter than the
\* timer's period, so the main program gets its turns.
FairSpec ==
  /\ Spec
  /\ WF_vars(MainStep) /\ WF_vars(TimerExpires) /\ WF_vars(TimerInterrupt)

\* An environment in which every task meets its deadline: a tick finds the slots
\* it fills empty, until the schedule is stopped.
OnTime == enabled => \A i \in Released(ticks') : queue[i] = NULL
TimelyNext == MainStep \/ TimerExpires \/ (TimerInterrupt /\ OnTime) \/ Reset
TimelySpec == Init /\ [][TimelyNext]_vars
-----------------------------------------------------------------------------
(***************************************************************************)
(* Properties.                                                             *)
(***************************************************************************)
\* The variables have the types the code declares; the loop index leaves the
\* queue only by its last increment, until the schedule has been stopped.
FlagsOK ==
  /\ mie \in BOOLEAN /\ timerOn \in BOOLEAN /\ tickPending \in BOOLEAN
  /\ enabled \in BOOLEAN /\ rereleased \in BOOLEAN
DataOK ==
  /\ pc \in Places
  /\ idx \in Int
  /\ (pc \in RunPlaces => enabled) => idx \in 0 .. NumTasks
  /\ tmp \in 0 .. CounterMod - 1
  /\ queue \in [Slots -> Slots \cup {NULL, Garbage}]
  /\ ticks \in 0 .. CounterMod - 1 /\ heartbeat \in 0 .. CounterMod - 1
  /\ running \in Slots \cup {Idle}
  /\ owner \in 0 .. NumTasks
  /\ leftover \in AfterTest
TypeOK == FlagsOK /\ DataOK

\* Until the schedule is stopped, the pointer scheduler_run follows, loaded again
\* for the ownership message and again for the call, is that of the slot's own task
\* each time: the interrupt never changes it in between, and what RAM held at
\* power-up is never called.
NoWildDispatch ==
  pc \in {"owner", "dispatch"} /\ enabled => idx \in Slots /\ queue[idx] = idx

\* While a task runs, the last ownership message in the trace is its own, also when
\* asm_test_main has made the scan go on at another slot.
OwnershipMatches == running # Idle => owner = TaskId(running)

\* No beat of the heartbeat is lost in the race of main() with the interrupt and
\* no tick is counted before the scheduler starts: three beats of main(), then
\* one for each tick, until the schedule is stopped.
HeartbeatExact == pc \in RunPlaces /\ enabled => heartbeat = Wrap(ticks + 3)

\* The builds in which asm_test_main does not bring the scan back: what it leaves in
\* the loop index is not below the last slot.  In that of example/ it is 768.
IndexBehind == leftover >= StopTask

\* Once task_1000ms has cleared scheduler_enabled the scan calls nothing more,
\* though slots may still be filled, in these builds.
NothingRunsAfterStop == [][(IndexBehind /\ pc \in RunPlaces /\ ~enabled) => (~Dispatch)]_vars

\* "The main scheduler loop executes one task after another in the dispatch
\* queue": clearing the slot after the call forgets no later activation.
NoLostActivation == [][ClearSlot => ~rereleased]_vars

\* A task in the queue runs, unless the schedule is stopped or the CPU reset,
\* whatever the ticks do.
ReleasedTaskRuns ==
  \A i \in Slots :
    (pc \in RunPlaces /\ queue[i] = i) ~> (running = i \/ ~enabled \/ pc = "boot")

\* The schedule comes to its end and main() reaches blinkenlights() for good,
\* unless the CPU is reset again and again, in the same builds.
ScheduleEnds == IndexBehind => <>[](pc = "blink") \/ []<>(pc = "boot")

\* The refinement mapping: the released tasks are those in the queue, the running
\* one only if it was released again; the schedule is open while it is served.
Serving == pc = "enable" \/ (pc \in RunPlaces /\ enabled)
Waiting == {i \in Slots : queue[i] = i /\ (running = i => rereleased)}
Ready == IF Serving THEN Waiting ELSE {}

Lossy == INSTANCE DispatchQueue WITH
  Tasks <- Slots, MayLose <- TRUE, open <- Serving, ready <- Ready
Exact == INSTANCE DispatchQueue WITH
  Tasks <- Slots, MayLose <- FALSE, open <- Serving, ready <- Ready

\* Whatever the ticks do, the scheduler is a dispatch queue that runs one task at
\* a time and forgets at most a release of the task that is running, in the same
\* builds.
ImplementsLossy == Lossy!Init /\ [][IndexBehind => Lossy!Next]_(Lossy!dqVars)
\* If every task meets its deadline, it is one that forgets nothing.
ImplementsExact == Exact!Init /\ [][IndexBehind => Exact!Next]_(Exact!dqVars)
=============================================================================
