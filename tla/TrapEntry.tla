----------------------------- MODULE TrapEntry -----------------------------
(***************************************************************************)
(* trap_entry of trap.s and the frame of handle_trap, step by step: what   *)
(* becomes of the interrupted program's pc, registers, stack pointer and   *)
(* interrupt enable when further interrupts arrive before mret.            *)
(*                                                                         *)
(* A stretch of code that runs with interrupts off is one step.  The loads *)
(* of the epilogue are one step too: an interrupt between two of them      *)
(* saves and restores the registers as they are then.                      *)
(*                                                                         *)
(* The stack grows down in words: trap_entry takes FrameWords of them and  *)
(* stores its registers at 1*4(sp) to 16*4(sp), so that the last is the    *)
(* lowest word of what it interrupted, word 0 for main().  main() and      *)
(* handle_trap, compiled by CompCert, keep a back link there that they     *)
(* never read; whether a trap frame may lose that word is to be shown.     *)
(***************************************************************************)
EXTENDS Integers, Sequences, SequencesExt

CONSTANTS
  MainPlaces,    \* where main(), the tasks and what they call can be
  FaultPlaces,   \* those of them whose instruction raises an exception
  FrameWords,    \* the caller-saved registers, and the words of a trap frame
  Values,        \* what such a register holds for main()
  Junk,          \* what it holds for nobody
  MaxNest,       \* bound on nested traps
  NoPlace        \* no address

Masked == {"entry", "body", "enable"}
Epilogue == {"exit", "restore", "pop", "mret"}

ASSUME TrapAssumption ==
  /\ FaultPlaces \subseteq MainPlaces
  /\ MainPlaces \cap (Masked \cup Epilogue) = {}
  /\ Junk \notin Values /\ NoPlace \notin MainPlaces \cup Masked \cup Epilogue
  /\ MaxNest \in Nat \ {0} /\ FrameWords \in Nat \ {0}

Unsafe == Epilogue \ {"exit"}
Places == MainPlaces \cup Masked \cup Epilogue

VARIABLES
  pc,
  regs,          \* the caller-saved registers, in the order they are stored
  sp,            \* 0 for main(), positive when lost
  mem,           \* the words of the stack
  held,          \* held[a]: the mepc that handle_trap returns to the frame at a
  mie, mpie,     \* mstatus.MIE and mstatus.MPIE
  mepc,
  mcause,        \* "interrupt" or "exception"
  irq,           \* the interrupt controller's output
  stack,         \* history: what was interrupted and not yet resumed
  clobbered      \* history: an interrupt came between csrw mepc and mret

vars == <<pc, regs, sp, mem, held, mie, mpie, mepc, mcause, irq, stack, clobbered>>
ghosts == <<stack, clobbered>>
csrs == <<mie, mpie, mepc, mcause>>

\* Mutant of the next definition: the stack pointer moves by a word too little.
FrameSizeShort == FrameWords - 1
FrameSize == FrameWords
Saved == 1 .. FrameWords         \* registers, and their offsets in a frame
Addresses == -(FrameWords * MaxNest) + 1 .. 0
Frames == {-(FrameWords * d) : d \in 0 .. MaxNest}
Regs == [Saved -> Values \cup {Junk}]
Lost == [r \in Saved |-> Junk]
-----------------------------------------------------------------------------
(***************************************************************************)
(* The hardware.                                                           *)
(***************************************************************************)
Raise ==
  /\ irq' = TRUE
  /\ UNCHANGED <<pc, regs, sp, mem, held, csrs, ghosts>>

Trap(cause) ==
  /\ sp > -(FrameWords * MaxNest) /\ Len(stack) < MaxNest
  /\ stack' = Append(stack, [pc |-> pc, regs |-> regs, sp |-> sp, mie |-> mie])
  /\ mepc' = pc /\ mcause' = cause
  /\ clobbered' = (clobbered \/ pc \in Unsafe)
  /\ mpie' = mie /\ mie' = FALSE
  /\ pc' = "entry"
  /\ UNCHANGED <<regs, sp, mem, held, irq>>

Interrupt == mie /\ irq /\ Trap("interrupt")

Fault == pc \in FaultPlaces /\ Trap("exception")

\* main() and the tasks go about their work.
MainStep ==
  /\ pc \in MainPlaces \ FaultPlaces
  /\ pc' \in MainPlaces
  /\ regs' \in [Saved -> Values]
  /\ UNCHANGED <<sp, mem, held, csrs, irq, ghosts>>
-----------------------------------------------------------------------------
(***************************************************************************)
(* trap_entry and handle_trap.                                             *)
(***************************************************************************)
\* The frame is pushed, and mepc goes to handle_trap as an argument.
Entry ==
  /\ pc = "entry" /\ pc' = "body"
  /\ sp' = sp - FrameSize
  /\ mem' = [a \in Addresses |-> IF a - sp' \in Saved THEN regs[a - sp'] ELSE mem[a]]
  /\ held' = [held EXCEPT ![sp'] = mepc]
  /\ regs' = Lost
  /\ UNCHANGED <<csrs, irq, ghosts>>

\* Mutant of the next definition: interrupts are on while the handler runs.
BodyUnmasked ==
  /\ pc = "body" /\ pc' = "enable"
  /\ mie' = TRUE
  /\ irq' = (mcause = "exception" /\ irq)
  /\ UNCHANGED <<regs, sp, mem, held, mpie, mepc, mcause, ghosts>>

\* core_disable_interrupts, and for an interrupt the sources are served; an
\* exception is left as it is.
Body ==
  /\ pc = "body" /\ pc' = "enable"
  /\ mie' = FALSE
  /\ irq' = (mcause = "exception" /\ irq)
  /\ UNCHANGED <<regs, sp, mem, held, mpie, mepc, mcause, ghosts>>

\* core_enable_interrupts, before handle_trap returns.
Enable ==
  /\ pc = "enable" /\ pc' = "exit"
  /\ mie' = TRUE
  /\ UNCHANGED <<regs, sp, mem, held, mpie, mepc, mcause, irq, ghosts>>

\* Mutant of the next definition: mepc is left as the last trap set it.
WriteMepcDropped ==
  /\ pc = "exit" /\ pc' = "restore"
  /\ UNCHANGED <<regs, sp, mem, held, csrs, irq, ghosts>>

WriteMepc ==
  /\ pc = "exit" /\ pc' = "restore"
  /\ mepc' = IF sp \in Frames THEN held[sp] ELSE NoPlace
  /\ UNCHANGED <<regs, sp, mem, held, mie, mpie, mcause, irq, ghosts>>

Restore ==
  /\ pc = "restore" /\ pc' = "pop"
  /\ regs' = [r \in Saved |-> IF sp + r \in Addresses THEN mem[sp + r] ELSE Junk]
  /\ UNCHANGED <<sp, mem, held, csrs, irq, ghosts>>

Pop ==
  /\ pc = "pop" /\ pc' = "mret"
  /\ sp' = IF sp <= 0 THEN sp + FrameSize ELSE sp
  /\ UNCHANGED <<regs, mem, held, csrs, irq, ghosts>>

Mret ==
  /\ pc = "mret"
  /\ pc' = mepc
  /\ mie' = mpie /\ mpie' = TRUE
  /\ stack' = IF stack = <<>> THEN stack ELSE Front(stack)
  /\ UNCHANGED <<regs, sp, mem, held, mepc, mcause, irq, clobbered>>
-----------------------------------------------------------------------------
Init ==
  /\ pc \in MainPlaces /\ regs \in [Saved -> Values]
  /\ sp = 0 /\ stack = <<>>
  /\ mem = [a \in Addresses |-> Junk] /\ held = [a \in Frames |-> NoPlace]
  /\ mie = TRUE /\ mpie = FALSE
  /\ mepc = NoPlace /\ mcause = "interrupt"
  /\ irq = FALSE /\ clobbered = FALSE

HandlerStep == Entry \/ Body \/ Enable \/ WriteMepc \/ Restore \/ Pop \/ Mret

Next == Raise \/ Interrupt \/ Fault \/ MainStep \/ HandlerStep

Spec == Init /\ [][Next]_vars

\* The CPU does not stop, and the ticks, 25 ms apart, leave handle_trap the time
\* to return in between, at each depth.
FairSpec ==
  /\ Spec /\ WF_vars(HandlerStep)
  /\ \A a \in Frames \ {0} : SF_vars(WriteMepc /\ sp = a)
-----------------------------------------------------------------------------
(***************************************************************************)
(* Properties.                                                             *)
(***************************************************************************)
\* handle_trap's body runs with interrupts off and is never entered a second time
\* while it is under way, though handle_trap itself nests.
BodyExclusive ==
  pc \in Masked => ~mie /\ \A i \in DOMAIN stack : stack[i].pc \notin Masked

\* As long as no interrupt came between csrw mepc and mret, every return from a
\* trap finds the interrupted program as it was left: its next instruction, its
\* registers, its stack pointer and its interrupt enable, though each frame has a
\* word in common with the one above.
Resumed(t) == pc' = t.pc /\ regs' = t.regs /\ sp' = t.sp /\ mie' = t.mie
ReturnsIntact == [][Mret /\ ~clobbered => stack # <<>> /\ Resumed(Last(stack))]_vars

\* As long as none comes there, main() always gets the CPU back.
MainResumes == []<>(pc \in MainPlaces) \/ <>clobbered

\* "The main scheduler loop executes one task after another in the dispatch
\* queue": interrupted by a tick, the loop goes on where it was interrupted.
MretResumesInterrupted == [][Mret => stack # <<>> /\ pc' = Last(stack).pc]_vars
=============================================================================
