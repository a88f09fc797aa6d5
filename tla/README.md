# Trace-FS: specifications and proofs

TLA+ specifications of the program parts of the TRISTAN Trace-FS demonstrator: the bare-metal firmware of the EMSA5 core, the host tools that load it and capture its trace, and the scripts that configure the trace unit. Paths are relative to `src/`; `fw/` stands for `firmware/emsa5/`.

1. [The system](#the-system): components, state, operations, interaction
2. [Modules](#modules): which module models what, and how it corresponds to the code
3. [Runs](#runs): what TLC checks, with which bounds and what it shows
4. [Fairness](#fairness) and [deadlock](#deadlock)
5. [Proofs](#proofs): what TLAPS establishes for every instance
6. [Findings](#findings): where code and documentation disagree
7. [Not modelled](#not-modelled) and [plan](#plan)

## The system

The firmware runs on one RISC-V hart without an operating system. `start.s` sets the stack up and jumps to `main`, which initialises the hardware, starts a periodic timer and runs a cooperative scheduler: the timer interrupt puts pointers to periodic tasks into a queue of four slots, the main loop takes them out and calls them. The C-Trace unit observes the core, and the firmware writes extra messages into the trace through two CSRs. The trace leaves the board as numbered UDP datagrams. On the host side `udplog.py` appends them to a log and `udp2nexus` cuts the log into unbroken pieces of trace. On the Linux side of the board, `mem_loader` writes the images into the memories, `mem_dump` reads them back and `trc_fs_cfg_trace.sh` configures the trace unit over a register bus.

| Component | State it keeps | Operations | What is hard | What makes it correct |
|---|---|---|---|---|
| Scheduler (`fw/scheduler.c`, `fw/fw.c`, `fw/hal/heartbeat.c`) | `scheduler_queue`, `scheduler_enabled`, `scheduler_ticks`, `heartbeat_counter` | init, run, next (in the interrupt), enable, disable, beat | shared with the interrupt without locks; RAM is not initialised; counters wrap | never calls anything but the slot's own task; ownership message precedes its task; released tasks run; nothing starts after the stop; the schedule ends |
| Trap entry (`fw/trap.s`, `fw/hal/core.c`) | frames on the stack, `mepc`, `mstatus` | save, call `handle_trap`, restore, `mret` | `handle_trap` enables interrupts before it returns, so traps nest; a frame overlaps the one above by a word | handler body never re-entered; interrupted program resumed as it was |
| Interrupt path (`fw/handler.c`, `fw/hal/{irq,timer,gpio,led}.c`) | registers of AXI INTC, timer, GPIO; the LEDs | init, configure, stop, acknowledge, toggle an LED | level versus latched interrupts, toggle-on-write status, read-modify-write of a control register and of the LEDs | no tick or press without its event, none lost; no LED change lost |
| Scenario tasks (`fw/asw/scenarios_a3/`) | `x y z result signal`, `arr`; the statics of Dhrystone | `task_5ms_bs_math`, `task_10ms_dhry`, `task_100ms_nexus`, `ISR2_minmax` | preempted at any access; state survives a reset and is never initialised | index in range; sort correct after a torn run; counter does not go back; `dhry()` in its bounds and with its one result |
| Trace messages (`fw/hal/ctrace.h`, `fw/asw/ctrace_test/`) | none but a call counter | emit a value of any type as 1..4 words | words may be lost between firmware and reader | values read back as emitted; none invented |
| Trace capture (`tools/udplog`, `tools/udp2nexus`) | log, expected sequence number, open file | receive and log; next entry | loss, duplication, reordering, wrap, cut log, failing `fopen` | each file an unbroken piece, maximal, nothing dropped |
| C-Trace configuration (`scripts/trc_fs_cfg_trace.sh`) | registers and watchpoint table of the unit | verified write, set watchpoints, enable | flaky bus, retries, number parsing of bash | configured before enabled; table ascending; alarms true |
| Memory loader (`tools/mem_loader`) | the ITCM and BRAM windows | load one or two images, dump | failing calls, kill and rerun, growing files, concurrent dump | exit 0 means loaded; no BRAM image over an incomplete ITCM |
| TSN configuration (`scripts/trc_fs_cfg_eth.sh`) | registers of the endpoint and of the TraceBus | parse, check, write | fields of an address, decimal checks against octal conversion, checks before writes | destination set as a whole or left alone |
| UART, instruction test, boot code, decoding scripts, small register scripts | see [Not modelled](#not-modelled) | | | |

Interactions: the timer sets a status bit, the controller latches it, the CPU traps, `trap_entry` calls `handle_trap`, which acknowledges and calls `scheduler_next`, which fills slots the main loop empties (modules InterruptPath, TrapEntry, Scheduler, in that order of the chain). The scheduler calls the tasks (Scenarios and Dhrystone, together in Application; TraceMessages) and writes ownership messages into the trace (TraceMessages), which goes out as datagrams (TraceCapture) to the host that EthConfig sets, once TraceConfig has enabled the unit (both in TraceSetup). `PROJECT.json` lists under "hazards" each place where one of these is hard to test, with its line and the properties aimed at it.

## Modules

| Module | Models | Correspondence |
|---|---|---|
| `DispatchQueue` | what the scheduler promises (abstract) | a set of released tasks and the running one; ticks add, the loop takes out; `MayLose` lets the end of a task forget a release of that same task |
| `Scheduler` | `main`, `scheduler_*`, `heartbeat_*`, the timer interrupt, resets | one action per access to a volatile variable (`BeatRead`/`BeatWrite` are the load and the store of `heartbeat_counter++`); `TimerInterrupt` is one step because the handler runs with interrupts off; `Reset` restarts CPU and peripherals and keeps RAM, as no start-up code clears `.bss`; `queue`, `enabled`, `ticks`, `heartbeat` are arbitrary at power-up; `TaskReturns` gives the loop index back as it was or, after `asm_test_main`, as `leftover`, a property of the build, which is one of `AfterTest`; what the scan finds outside the queue is anything (`Pointers`, `Followed`) |
| `SchedulerProofs` | theorems about `Scheduler` | see [Proofs](#proofs) |
| `TrapEntry` | `trap.s`, the interrupt enables of `handle_trap` | stretches with interrupts off are one step; epilogue split at `csrw mepc`, the loads, the pop and `mret`; the stack is words, a frame takes `FrameWords` and its registers go to words 1 to `FrameWords` above `sp`, the last of them into the frame above; `stack` and `clobbered` are history |
| `TrapEntryProofs` | theorems about `TrapEntry` | see [Proofs](#proofs) |
| `TickLatch` | what the scheduler relies on of the timer interrupt (abstract) | one bit set by an expiry, cleared by the handler of one tick |
| `InterruptPath` | `hw_init`, `timer_*`, `gpio_*`, `irq_*`, `led_*`, `handle_trap` register by register | one action per register access; `ToggleRead`/`ToggleWrite` are `led_toggle` in a task, `Lit` is one in the handler; `Expire`, `Change` and `Latch` are the hardware, taken from how the drivers use it |
| `InterruptPathProofs` | theorems about `InterruptPath` | see [Proofs](#proofs) |
| `Scenarios` | the tasks of scenarios_a3 that share variables with the button interrupt | one action per shared access; ints are `2*Half` wide and wrap; `x`, `y`, `z` and `signal` are arbitrary at power-up; `spoiled` remembers that a number was negative then, or that an int has overflowed, which C leaves undefined |
| `Dhrystone` | `dhry()` | one action per call in `Proc0`, named after the procedure; what copying and comparing strings adds to `counter` is a number, `touched` collects the indices of the arrays; `DhryInit` is RAM as it comes, `DhryReset` keeps it |
| `Application` | both, as the scheduler calls them | one task at a time, the button interrupt at any time, a reset stops whichever runs |
| `ApplicationProofs` | theorems about `Application` | see [Proofs](#proofs) |
| `TraceMessages` | the emit functions, `ctrace_test_main`, ownership messages, and a reader that knows only the markers of `ctrace.h` | a value is a sequence of 16-bit words, the lowest first; `EmitData` gives its messages, each with the value and the word it is of (`of`, `word`: history, which nothing but `sent` and the proofs read); the reader is not in `src/` and stands for any decoder of the protocol |
| `TraceMessagesProofs` | theorems about `TraceMessages` | see [Proofs](#proofs) |
| `TraceCapture` | datagrams, `udplog.py`, `udp2nexus` | `Send`/`Lose`/`LogData` with duplication and reordering up to `Lifetime`; `StopLogging` may cut the last record; `NextEntry` is `next_entry`, `Finish` the end of `parse_file` |
| `TraceCaptureProofs` | theorems about `TraceCapture` | see [Proofs](#proofs) |
| `TraceConfig` | `trc_fs_cfg_trace.sh` | `Writes` is the list of writes of `main`; `VerifiedWrite` one round of the retry loop; `Read` is what bash reads from `%010u` |
| `EthConfig` | `trc_fs_cfg_eth.sh` | an address is a sequence of fields, as `IFS` splits it; `EthCheck` is all checks at once, as they write nothing; `EthStore` one `devmem`; `Hex` is what `printf` makes of an octet; one beyond `ShellMax`, on which `[` fails, is not refused (`Beyond`), and what its write does is open (`Unread`, or nothing) |
| `TraceSetup` | both scripts, one after the other | the order in which a user calls them |
| `TraceSetupProofs` | theorems about `TraceSetup` | see [Proofs](#proofs) |
| `MemLoader` | `mem_loader.c`, `mem_dump.c` | failing calls are nondeterministic exits; one store of a word a step; `Kill`, a second run, files that grow, a dump at any time |
| `MemLoaderProofs` | theorems about `MemLoader` | see [Proofs](#proofs) |
| `MC*` | instances for TLC | only the values of constants |

Definitions whose comment begins "Mutant" are not part of a specification; each is the next definition with a plausible bug, kept to show that the properties notice it (`PROJECT.json`, "mutants": one for every property of every passing run).

The modules do not import each other's state; they meet at abstractions. `InterruptPath` is shown to implement `TickLatch`, and `Scheduler` uses the timer as that latch (`timerOn`, `tickPending`; `StopTimer` may take back a waiting tick, exactly as `TickLatch!Stop`). `TrapEntry` shows that the handler body is exclusive (`BodyExclusive`), which is why `TimerInterrupt`, `Press` and `handle_trap`'s steps are modelled without a second handler in between. That argument is by hand, and it holds only where no interrupt hits the epilogue: see the finding `trap_nested`.

## Runs

All runs finish within three minutes on two workers. "States" is distinct states.

| Run | Instance | States | What it shows |
|---|---|---|---|
| `sched` | 3 tasks, periods 2, 4, 8, counters modulo 11; builds in which `asm_test_main` leaves the loop index -1, 1, 2 or 5 | 180,091 | `NoWildDispatch`, `OwnershipMatches`, `HeartbeatExact`, `NothingRunsAfterStop`; refinement `ImplementsLossy` of `DispatchQueue`; liveness `ReleasedTaskRuns`, `ScheduleEnds` |
| `sched_lost` | as `sched`, the loop index is left 5 | (violation) | `NoLostActivation`: a release of the running task is forgotten |
| `trap` | 2 places of `main`, one of them a faulting instruction, up to 3 traps nested, frames of 2 words, 2 register values | 1,057,675 | `BodyExclusive`; `ReturnsIntact` and, under fairness, `MainResumes` while no interrupt came between `csrw mepc` and `mret` |
| `trap_nested` | the same, no faulting instruction | (violation) | `MretResumesInterrupted`: the wrong instruction is resumed |
| `irq` | 3 expiries, 3 button changes, any LEDs | 164,868 | `NoPhantomTick`, `NoPhantomPress`, `OneTickAfterStop`, `LedsSerialise`, refinement `ImplementsTickLatch`, liveness `TickServed`, `PressServed` |
| `capture` | sequence numbers modulo 4, outages of 2, lifetimes of 2, 5 sent, 5 logged, `fopen` may fail | 1.76 million | `FilesContiguous`, `FilesMaximal`, `ExtractedUnlessFFFF` |
| `capture_ffff` | the same, `fopen` does not fail | (violation) | `AllExtracted`: a first number of 0xFFFF drops its records |
| `config` | 3 slots, 2 attempts a write, at most 1 failed write in a row or one bus broken for good; addresses good, malformed, with leading zeros and with an octet beyond 999, which stands for 2^63 - 1 | 236,720 | `NotEnabledWhileConfiguring`, `DoneMeansConfigured`, `NoFalseAlarm`, `TableAscending`, `ValidAccepted`, `DestinationWhole`, liveness `ScriptEnds` |
| `config_ascending` | the real 15 slots and 8 attempts, single low PCs | (violation) | `TableAscending`: a PC with a digit 8 or 9 ends up behind larger sentinels |
| `scenarios` | 16-bit ints, an array of 4, five choices of `x`, `y`, `z` at power-up, in three of which a number is negative, RAM full of 120, 2 calls, 2 presses, 1 reset, 1 call of `dhry()` between resets | 1,336,724 | `IndexInRange`, `ZAdvances`, `SortedAfterBs`, `SameResult`, `InBounds`, `SubrangesHold`, liveness `DhryReturns` |
| `messages` | all eight calls with both floating-point extensions, two task ids, losses but no two in a row | 11,266 | `RoundTrip` without loss, `NoFalseValue` with it |
| `load` | windows of 4 words, files of 0, 4, 10, 16, 20 bytes, 2 runs, 1 dump | 1,380,081 | `ExitMeansLoaded`, `BramAfterItcm`, `DumpIsWindow` |

`sched` also checks the scheduler's `TypeOK`. The other modules have their types in the inductive invariants of the proofs (`TypeOK`, or `Types`).

Why the bounds are enough:

- *Scheduler.* Three tasks are the fewest with a first, a middle and a stopping slot. The periods nest like 5, 10, 100, 1000, and all are released together. Counters modulo 11, which no period divides, let the tick counter overflow out of phase as 2^32 does with 5 and 1000; every starting value is tried. `asm_test_main` overwrites s0 to s11, and the compiler decides whether one of them is the loop index; -1, 1 and 5 are an index before the queue, one inside it and one behind it; 2 is that of the last slot, as in a build whose index is elsewhere and comes back as it was. The invariants hold for any values by the proofs; the bounds matter for liveness only.
- *TrapEntry.* Nesting is limited to 3, enough for an interrupt in the epilogue of a handler that itself interrupted one. A depth of 3 shows main's state under two frames, the outer frame and its own overwritten; further depth repeats the same relation. Two words are the fewest in which a frame's last register, which lies in the frame above, differs from its first. The proofs cover any depth and any size.
- *InterruptPath.* Bits are Boolean, so events only count; three of each allow one pending, one being handled and one more after the stop. The proofs cover any number.
- *TraceCapture.* `Outage + Lifetime <= Modulus` is the assumption under which a 16-bit number names a datagram at all; with modulo 4 the wrap comes within five records. In reality an outage of exactly 65535 datagrams, or one that old, would be taken for the successor; no format without a longer number can tell. The proofs are for any modulus under this assumption.
- *TraceConfig.* Two attempts and one failure keep the relation of eight attempts to fewer failures. With `MayStick` the bus may fail every write to a register, which is the case an alarm is for. Inputs cover none, too many, duplicate, unsorted, too low, borderline and very high PCs; the defect with octal reading has a run of its own with the real constants.
- *EthConfig.* Each address has one defect: a field too many, of wrong characters, too large, beyond what `[` reads, or with a leading zero; the last write of one call is the earlier state of no other, as registers start as `Earlier`.
- *Scenarios, Dhrystone.* 16-bit ints reach the overflow of a product with the two presses allowed, starting from 300, 200 and 200; `x`, `y` and `z` are each negative in one of the choices, and with -20 and -7 in `x` and `y` the index is negative as soon as a press has exchanged them; so both reasons for `spoiled` occur, and neither. Four elements need all passes of the bubble sort. One call of `dhry()` after another that a reset stopped anywhere is the case of leftovers; a word that is no index, no letter and no `OneToFifty` shows whatever is read before it is set. The proofs cover any width of int, any array, any ints in RAM (with `IndexInRange` and `ZAdvances` silent where `x`, `y` or `z` starts negative), and any number of presses, calls and resets.
- *TraceMessages.* The calls are those of the code, with their values; only the ids and the address are chosen. Nothing initialises `counter`, so every one of the eight calls may be the first. The proofs cover any ids and any address.
- *MemLoader.* Sizes cover empty, one word (padded), not a multiple of four, the full window, and one word too many; two runs let a shorter image follow a longer one.

## Fairness

- `Scheduler!FairSpec`: weak fairness of the main program, of the timer's expiry and of the interrupt. The CPU executes, the timer counts while enabled, and an enabled interrupt that stays pending is taken. Resets are never required and never excluded; liveness is stated up to them (`[]<>(pc = "boot")`). Weak fairness of the main program means that the handler leaves it a turn; a tick comes every 25 ms and a handler takes some hundred instructions.
- `TrapEntry!FairSpec`: weak fairness of the handler steps and, at each nesting depth, strong fairness of `WriteMepc`: an interrupt may preempt that step, but not every time, for the same reason. Without it, interrupts that come one per instruction would keep the handler from ever returning.
- `InterruptPath!FairSpec`: the controller latches a level that stays, the CPU takes an interrupt that stays pending and runs the handler on. `main` gets no fairness: ticks and presses are served wherever it stands.
- `TraceSetup!SetupSpec`: the scripts go on. Nothing is assumed of the bus.
- `Application!AppSpec`: `dhry()` goes on once it is called: the scheduler runs no other task before it returns, and the interrupt gives the CPU back. Resets may come at any time; `DhryReturns` counts one as an end.

## Deadlock

Deadlock is checked in `sched`, `sched_lost`, `trap`, `trap_nested`, `irq`, `scenarios` and `messages`. `CHECK_DEADLOCK FALSE` stands where a system comes to rest as it should: `capture` and `capture_ffff` when the log is converted, `config` and `config_ascending` when the script has ended, `load` when its runs and dumps are used up.

## Proofs

Eight modules hold proofs; `*Proofs` is about the module it is named after. Each has one inductive invariant `IInv` (`TraceSetupProofs` and `ApplicationProofs` have two, for the two parts that share no variable), checked by TLC on the instance of the run before it was proved: `InitIInv` (or a step of `Invariance`) establishes it, one lemma or step per action preserves it, `Invariance` concludes, and the theorems follow from it. Every safety invariant and every action property of a passing run is a theorem, `TableAscending` for the lists bash can read; `NothingRunsAfterStop` and the refinement speak of builds with `IndexBehind`, as that of `example/`.

### Scheduler

`SchedulerProofs` proves, for any number of tasks, any periods above one tick, any width of the counters and any content of RAM at power-up:

| Theorem | Statement |
|---|---|
| `TypeCorrect` | `Spec => []TypeOK` |
| `DispatchIsSafe` | `Spec => []NoWildDispatch` (until the stop) |
| `OwnershipIsRight` | `Spec => []OwnershipMatches` |
| `HeartbeatIsExact` | `Spec => []HeartbeatExact` (until the stop) |
| `StopIsFinal` | `Spec => NothingRunsAfterStop` (in builds with `IndexBehind`) |
| `RefinesDispatchQueue` | `Spec => ImplementsLossy` (in the same builds) |
| `TimelyRefinesExactly` | in the same builds, with every deadline met, the scheduler implements the dispatch queue that forgets nothing: `TimelySpec => ImplementsExact` |

Assumptions (`SchedulerAssumption`): at least one task; periods are natural numbers above 1; the stopping task is in the last slot, as `task_1000ms` is; the counter's modulus is above 3, so that the three beats of `main` do not wrap; `AfterTest`, what `asm_test_main` may leave in the loop index, are any integers; `NULL` and `Garbage` differ from each other and from all integers. The properties of the last three theorems, and `ScheduleEnds`, are about the builds with `IndexBehind`: the index `leftover` is not below the last slot. It is a fact about the build, which holds for that of `example/` (768) and which the code does not ensure; what happens in the others is under [Findings](#findings). The other four need nothing of `AfterTest`: before the stop nothing has touched the index, and after the stop `NoWildDispatch` and `HeartbeatExact` claim nothing, as a store to a slot outside the queue may hit the counters. The proof of the last theorem uses `TimelySpec`, in which a tick finds the slots it fills empty while the schedule is on; this is an assumption about execution times, which the specification does not model.

The argument. None of the properties is inductive. That the slot followed is the slot's own (`NoWildDispatch`) needs that `scheduler_init` has cleared the queue up to its loop index (`QueueClean`), which needs that no tick fills a slot before that loop has passed it, which needs that the timer runs and a tick waits only after it has been configured (`TimerLate`). `HeartbeatExact` needs the same: the unprotected `heartbeat_counter++` of `main` is safe only because no tick can come yet (`Beats` counts the beats up to there). `OwnershipMatches` needs the place of the loop index during a job (`IndexInv`, `JobInv`). `NothingRunsAfterStop` needs that the stop can come only from the last slot, so that with `IndexBehind` the scan is over after it (`StoppedInv`, `StopsFirst`). Their conjunction with `TypeOK` is `IInv`; `InitIInv` establishes it, `StepIInv` shows that each action preserves it, and `Invariance` concludes. The refinement theorems take each step under `IInv` to a step of `DispatchQueue` or a stutter (`StepRefines`); `TimelyRefinesExactly` adds that a slot of the running task is full to its end (`StillFull`), so that no release of it can come. `WrapCases` and `BeatKeepsPace` do the arithmetic of the counters.

### The other modules

| Theorem | Statement | For any |
|---|---|---|
| `TrapEntryProofs!BodyIsExclusive` | `Spec => []BodyExclusive` | depth of nesting, number of registers |
| `TrapEntryProofs!ReturnsAreIntact` | `Spec => ReturnsIntact` | the same |
| `InterruptPathProofs!TypeCorrect` | `Spec => []TypeOK` | number of expiries and changes |
| `InterruptPathProofs!TicksAreReal`, `PressesAreReal`, `StopIsShort` | `Spec => []NoPhantomTick`, `[]NoPhantomPress`, `[]OneTickAfterStop` | the same |
| `InterruptPathProofs!TogglesSerialise` | `Spec => LedsSerialise` | the same |
| `InterruptPathProofs!ImplementsLatch` | `Spec => ImplementsTickLatch` | the same |
| `TraceCaptureProofs!TypeCorrect` | `Spec => []TypeOK` | width of the numbers, length of stream and log |
| `TraceCaptureProofs!PiecesUnbroken`, `PiecesMaximal` | `Spec => []FilesContiguous`, `[]FilesMaximal` | the same |
| `TraceCaptureProofs!NothingLeftOut` | `Spec => []ExtractedUnlessFFFF` | the same |
| `TraceMessagesProofs!ValuesRoundTrip` | `Spec => []RoundTrip` | ids of tasks, address of the function, extensions |
| `TraceMessagesProofs!NothingFalseIsRead` | `Spec => NoFalseValue` | the same, losses |
| `TraceSetupProofs!AlarmsAreTrue` | `SetupSpec => []NoFalseAlarm` | table, number of tries, lists of PCs |
| `TraceSetupProofs!EnabledLast`, `EndIsConfigured` | `SetupSpec => []NotEnabledWhileConfiguring`, `[]DoneMeansConfigured` | the same |
| `TraceSetupProofs!ValidIsAccepted` | `SetupSpec => []ValidAccepted` | the same |
| `TraceSetupProofs!TableIsAscending` | `SetupSpec => [](AllReadable(pcs) => TableAscending)` | the same |
| `TraceSetupProofs!DestinationIsWhole` | `SetupSpec => []DestinationWhole` | addresses, width of the shell's integers |
| `ApplicationProofs!IndexIsInRange`, `ZAlwaysAdvances` | `AppSpec => []IndexInRange`, `[]ZAdvances` | width of int, numbers at power-up, number of presses, calls and resets |
| `ApplicationProofs!BsSorts` | `AppSpec => []SortedAfterBs` | the same, size of the array |
| `ApplicationProofs!ResultIsTheSame`, `AccessesInBounds`, `SubrangesAreKept` | `AppSpec => []SameResult`, `[]InBounds`, `[]SubrangesHold` | ints in RAM, number of calls, resets |
| `MemLoaderProofs!StoresInWindow` | no store leaves its window | window, files |
| `MemLoaderProofs!ExitIsTrue`, `DumpIsTrue`, `OrderOfWindows` | `Spec => []ExitMeansLoaded`, `[]DumpIsWindow`, `BramAfterItcm` | the same |

The arguments, each with what makes its property inductive:

- *TrapEntry.* As long as nothing was clobbered (`Intact`), the traps under way are stacked without gaps: the first interrupted `main()` or a task, every other the end of a handler, at `exit`, with the stack pointer of its frame (`Nested`); the frame of every trap but the one whose epilogue has begun is as it was pushed (`FramesKept`); and what the CPU holds is what the place says (`Current`). The word a frame shares with the one above is word 1 to `FrameWords` of its own and none of the other's (`FramesApart`): trap frames do not damage each other. Assumption (`TrapAssumption`): places are distinct names, a frame has at least one word.
- *InterruptPath.* The ticks still due, one for an expiry in the timer or in the controller and one for the handler between the acknowledgements and the tick, never exceed the expiries left (`DueInv`); the same for presses, where the bit read as set must still be set when it is toggled (`HandlerInv`). `LedInv`: between read and write of a task's `led_toggle` the handler changes no pin of its byte.
- *TraceCapture.* Two successive records of the log are less than a full turn of the numbers apart in either direction (`Near`), because nothing older than `Lifetime` arrives and no outage exceeds `Outage`; so equal numbers are equal datagrams (`Division`, `Multiples`), and a match is a successor. Assumption: `Outage + Lifetime <= Modulus`. For `ExtractedUnlessFFFF` the invariant relates the output to the input at every step: the files one after the other are the numbers of the first records of the log, as many as have been read, unless there was a false start or a file could not be opened (`Extraction`). "One after the other" is `FlattenSeq`, a recursive function, and that a record more at its end is a number more (`Grows`) is an induction over the number of files.
- *TraceMessages.* At a boundary between two values the reader has collected nothing, or words of a value whose last word was lost; these are at least two, or one of 32 bits (`LeftOver`), as a value of one word leaves none. Inside of a value it has collected just its words up to now, or words that the rest of the value cannot complete: too many, too few, or of a narrower value in front (`UnderWay`). Each disjunct says what a loss there may have done, and the argument needs that the message before it has arrived: with two losses in a row, the second word of one value of 32 bits and the first word of the next, the words left look like a value that was never sent. What makes a value of 8 or 16 bits safe, which is complete with its one word, is that words left over precede it in the reader's sequence and spoil the count. The markers, which leave the words collected alone, come from the first two calls only, and the first value after them is a byte (`Markers`, `ByteNext`). The bits of the indicator (`IndicatorBits`) give back kind, width and the marker for more of whatever type.
- *TraceConfig.* On a bus that is not broken every try after the first follows a failed write, so there are never more tries than failures in a row (`Tries`); `MaxFlakes < Retries` does the rest. A register is `Settled` when no later write of those so far is to it and it has no alarm; `Configured` says that such registers hold what they should. The table is sorted by rank: the PC in a slot is the one with as many smaller ones before it (`SortedAscends`). A number read as octal is never larger than the same digits read as decimal (`OctalIsLess`, an induction over the digits), so a list of readable PCs that is accepted leaves room for the sentinels below its lowest PC (`AddrsAscend`); an unreadable one is the finding `config_ascending`, which is why `TableIsAscending` has its hypothesis. Assumption: half a write does not happen to spell Enable (`Junk # "Enable"`).
- *EthConfig.* The first of the six writes comes after all checks (`Refused`, `Checked`), and what has been written is in its place (`Stored`), except that `devmem` may have refused an IP address with an octet beyond 64 bits. `FourAndTwo` and `ReversedTwice` say that the two registers of an address, with their bytes in the order of the bus, are that address.
- *Scenarios.* If none of the three numbers is negative at power-up, and as long as no int has overflowed, all three are natural, `z` is at least the number of calls, and what the task holds between its reads and writes was as good when it was read (`Unsigned`): an interrupt in between only makes `z` larger. A torn exchange is looked at with the array as it is when the swap is complete (`Completed`, `Reached`): then the array is a permutation at every step, its part behind `i` is in order and below the rest, and the smallest element up to `j` is at `j` (`Loop`, `Sorting`).
- *Dhrystone.* `Run` says at each place which variables have been set, and to what: everything a call reads it has set.
- *MemLoader.* The buffer is as long as the padded file, which fits its window (`Sized`), and the window holds as much of it as has been stored (`Progress`).

Recursion. The library's theorems of induction take an operator as a parameter, which the provers cannot instantiate. The two inductions above use well-foundedness as a statement about sets instead: the set of the counterexamples has a least element (`Naturals`, from `WFMin` and `NatLessThanWellFounded`), which the step of the induction refutes. `SortSeq` of the community modules remains opaque to the prover; `TraceConfig!Sorted` says by rank what it returns.

Only model-checked: the liveness properties (`ReleasedTaskRuns`, `ScheduleEnds`, `MainResumes`, `TickServed`, `PressServed`, `ScriptEnds`, `DhryReturns`), as fairness and ENABLED are beyond the prover.

## Findings

Each has a run in which TLC finds the violation.

1. **A release of the running task is lost** (`sched_lost`, `fw/scheduler.c:70`). The slot is cleared after `entry()` returns, so a tick that releases the same task meanwhile is forgotten, though `fw/README.md:5` says that a ready task "is added to the dispatch queue" and the loop executes "one task after another in the dispatch queue". `ImplementsLossy` states exactly what is left of the promise; `TimelyRefinesExactly` states when nothing is lost.
2. **An interrupt in the epilogue of a trap loses the interrupted program** (`trap_nested`, `fw/handler.c:79`). `core_enable_interrupts` runs before `trap_entry` writes `mepc` and executes `mret`; an interrupt in between overwrites `mepc`, and the outer `mret` jumps back into the epilogue with the stack pointer already popped. A tick and a button change some instructions apart are enough.
3. **A log that starts with sequence number 0xFFFF loses its beginning** (`capture_ffff`, `tools/udp2nexus/main.c:68`). The initial "nothing expected" is a valid number; it matches, no file is open, and the records up to the next gap go nowhere.
4. **Watchpoint tables may be out of order** (`config_ascending`, `scripts/trc_fs_cfg_trace.sh:180`). The lowest PC is padded with zeros, which bash reads as octal; a digit 8 or 9 makes the comparison with the last sentinel fail, and the list is accepted although line 156 promises "strictly ascending + unique".

Observed while modelling, without a run:

- The instruction test may make the last task run for ever (`fw/asw/asm_test/full.S:197`). `asm_test_main` is called as a C function and overwrites s0 to s11 without saving them; they end as 768, 1024, 254, 0x7F000000, 0x7F000000, 1, 8, 32, 4, -32, -4 and 15. `README.md:14` offers GCC and CompCert, and the compiler chooses the register of the loop index `i` of `scheduler_run`. If it is s5, slot 1 is cleared after each call instead of slot 3, the scan reaches slot 3, which still holds `task_1000ms`, and calls it again, after `scheduler_disable` and without a tick. s9 and s10 clear and then read words before the queue. TLC shows the second call if `IndexBehind` is taken out of `NothingRunsAfterStop`; the mutant `TaskReturnsInside` is the same step. The build in `example/` keeps `i` in s0: the NULL for the slot goes to a word of Dhrystone's `Array2Glob`, whose result depends on nothing that RAM holds (`ResultIsTheSame`), the slot of `task_1000ms` stays full, and the scan ends.
- When `task_1000ms` stops the schedule, tasks released by the last tick in slots the scan has passed stay in the queue for good (`fw/scheduler.c:64`); TLC refutes the claim that nothing is left behind.
- The octal reading also refuses some low PCs that would fit (it reads a smaller number); `ValidAccepted` is therefore about PCs of ten digits, as those of the design are.
- The watchpoints are programmed after the unit was activated (`trc_fs_cfg_trace.sh:82`), against the precondition in the comment at line 101.
- `trap.s:92` stores the sixteenth register one word above its frame, in the lowest word of what was interrupted. Between trap frames this does no harm, as `ReturnsAreIntact` shows. Code by CompCert keeps a back link there that it never reads, as in `example/fw-emsa5.elf`, so nothing breaks in `main()` and `handle_trap` either.
- `x`, `y` and `z` lie in `.bss`, which nothing clears. If `x` is negative at power-up, `x%20` (`fw/asw/scenarios_a3/scenarios_a3.c:107`) is an index before `init_vector` without any overflow, and a negative number among the three may make `z` go back. `IndexInRange` and `ZAdvances` leave that case out (`spoiled`).
- `trc_fs_cfg_eth.sh:63` checks octets as decimal numbers, line 68 converts them with `printf`, which reads octal after a leading zero: 192.168.0.010 passes, line 101 prints it as the destination, and 192.168.0.8 is written; an octet 08 is passed too, and `printf` fails on it. An octet beyond 64 bits makes both tests of line 63 fail, the `if` is not taken, and whatever `printf` makes of it is written, or refused by `devmem`. `DestinationWhole` leaves both kinds of octets out.
- `scheduler.c:46` says "one tick each ms"; with `SLOWDOWN` it is one each 25 ms.

## Not modelled

- **UART driver**: no code calls it.
- **Instruction test** (`fw/asw/asm_test/full.S`): a generated list of instructions; its effect on its caller is `AfterTest`. Of the registers it overwrites only the loop index is modelled: a compiler that keeps the address of the slot, or the end of the queue, in one of them is not covered.
- **Boot code**: a jump and vectors that loop.
- **math()**: arithmetic on two arrays and a scaler that nothing else reads.
- **Decoding scripts** (`nexrv_decode.sh`, `trace_decode.sh`, `trace_dump.sh`): pipelines of decoders that are not in the repository. Two runs of `nexrv_decode.sh` share `combined.pcinfo` (line 146); what a reader makes of a file another run is writing is for those programs to say.
- **Register echo, reset and install scripts**: one or two accesses; the reset itself is an action of `Scheduler`, `Scenarios` and `Dhrystone`.
- Within modelled parts: IRQ_1 and IRQ_3, which nothing in the design raises, beyond their LEDs; execution times; datagrams shorter than their header; write errors of `udp2nexus`; a second `udplog.py` in the same minute, which appends to the first one's log, perhaps behind a cut record; the contents of strings and arrays in `dhry()`. The hardware (timer, controller, GPIO, register bus, trace unit) is modelled only as the code uses it.
- What the properties do not catch: `MainResumes` takes a faulting instruction of `main()`, which `handle_trap` returns to for ever (`fw/handler.c:81`), for a place like any other; `SortedAfterBs` exempts the element lost when a reset tears an exchange; in `MemLoader` images of two builds have the same words, so a mix of two shows only in their lengths; after an index out of range `Scenarios` goes on with any element of `init_vector`.

## Plan

Left, in this order:

1. `Firmware`: Scheduler, InterruptPath and TrapEntry composed, with one handler that can be interrupted in its epilogue, to show which property of the scheduler survives finding 2. The parts have 10^5 to 10^6 states each; the composition needs a coarser `TrapEntry`.
2. The end of a schedule: a property, and a theorem, about what is left in the queue when `task_1000ms` stops it (`fw/scheduler.c:64`).
