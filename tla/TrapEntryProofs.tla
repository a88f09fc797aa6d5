-------------------------- MODULE TrapEntryProofs --------------------------
(***************************************************************************)
(* The body of handle_trap is never entered twice, and as long as no       *)
(* interrupt has come between csrw mepc and mret every return restores     *)
(* what was interrupted: for frames of any size, nested to any depth.      *)
(***************************************************************************)
EXTENDS TrapEntry, TLAPS

\* The frame of the i-th trap that is under way.
FrameAt(i) == -(FrameWords * i)

Outside == (Places \cup {NoPlace}) \ Masked
Interrupted == [pc : Outside, regs : Regs, sp : Int, mie : BOOLEAN]

Types ==
  /\ pc \in Places \cup {NoPlace}
  /\ regs \in Regs
  /\ sp \in Int
  /\ mem \in [Addresses -> Values \cup {Junk}]
  /\ held \in [Frames -> Outside]
  /\ mepc \in Outside
  /\ stack \in Seq(Interrupted) /\ Len(stack) <= MaxNest
  /\ mie \in BOOLEAN /\ mpie \in BOOLEAN
  /\ pc \in Masked => mie = FALSE

\* The word of the i-th frame for register r, and its mepc, are as they were pushed.
Kept(i) ==
  /\ held[FrameAt(i)] = stack[i].pc
  /\ \A r \in Saved : mem[FrameAt(i) + r] = stack[i].regs[r]

\* What was interrupted: main() first, then the ends of handlers.
Nested ==
  \A i \in 1 .. Len(stack) :
    /\ stack[i].pc \in (IF i = 1 THEN MainPlaces ELSE {"exit"})
    /\ stack[i].sp = FrameAt(i - 1) /\ stack[i].mie = TRUE

Pushed == pc \in {"body", "enable", "exit", "restore"}
FramesKept == \A i \in 1 .. Len(stack) : i < Len(stack) \/ Pushed => Kept(i)

\* What the CPU holds of the trap under way.
Current ==
  /\ pc \in Places
  /\ pc \in MainPlaces => stack = <<>> /\ sp = 0
  /\ pc \notin MainPlaces => stack # <<>> /\ mpie = TRUE
  /\ pc \in {"body", "enable", "exit", "restore", "pop"} => sp = FrameAt(Len(stack))
  /\ pc \in {"entry", "mret"} => sp = FrameAt(Len(stack) - 1)
  /\ pc \in {"entry", "pop", "mret"} => regs = stack[Len(stack)].regs
  /\ pc \in {"entry", "restore", "pop", "mret"} => mepc = stack[Len(stack)].pc
  /\ pc \notin Masked => mie = TRUE

Intact == Nested /\ FramesKept /\ Current

IInv == Types /\ (clobbered = TRUE \/ (clobbered = FALSE /\ Intact))
-----------------------------------------------------------------------------
(***************************************************************************)
(* Where frames lie.                                                       *)
(***************************************************************************)
\* A frame is FrameWords below the one before, and the first below word 0.
LEMMA NextFrame ==
  ASSUME NEW n \in Nat \ {0}
  PROVE  /\ FrameAt(n - 1) \in Int /\ FrameAt(n) \in Int
         /\ FrameAt(n - 1) - FrameWords = FrameAt(n)
         /\ FrameAt(0) = 0
<1>1. FrameWords \in Nat
  BY TrapAssumption
<1>2. FrameWords * n \in Int /\ FrameWords * (n - 1) = FrameWords * n - FrameWords
  BY <1>1, SMT
<1>3. FrameWords * 0 = 0
  BY <1>1, SMT
<1>4. QED
  BY <1>1, <1>2, <1>3, SMT DEF FrameAt

\* Frames pushed later lie below those pushed earlier, and share no word with them.
LEMMA FramesApart ==
  ASSUME NEW n \in Nat, NEW i \in Nat, i < n
  PROVE  FrameAt(i) \in Int /\ FrameAt(n) \in Int /\ FrameAt(i) >= FrameAt(n) + FrameWords
<1>1. FrameWords \in Nat
  BY TrapAssumption
<1>2. FrameWords * i \in Int /\ FrameWords * n \in Int
  BY <1>1, SMT
<1>3. PICK k \in Nat : n = i + 1 + k
  <2>1. n - i - 1 \in Nat /\ n = i + 1 + (n - i - 1)
    BY SMT
  <2>2. QED
    BY <2>1
<1>4. FrameWords * n = FrameWords * i + FrameWords + FrameWords * k
  BY <1>1, <1>3, SMT
<1>5. FrameWords * k >= 0 /\ FrameWords * k \in Int
  BY <1>1, SMT
<1>6. QED
  BY <1>1, <1>2, <1>4, <1>5, SMT DEF FrameAt

\* The frames of traps within the bound are on the stack.
LEMMA FramesOnStack ==
  ASSUME NEW n \in 1 .. MaxNest, NEW r \in Saved
  PROVE  FrameAt(n) \in Frames /\ FrameAt(n) + r \in Addresses /\ FrameAt(n) <= 0
<1>1. FrameWords \in Nat /\ MaxNest \in Nat
  BY TrapAssumption
<1>2. FrameAt(n) \in Frames
  BY <1>1 DEF FrameAt, Frames
<1>3. FrameAt(n) \in Int /\ 0 >= FrameAt(n) + FrameWords
  BY NextFrame, FramesApart, <1>1, SMT
<1>4. FrameAt(n) >= -(FrameWords * MaxNest) /\ -(FrameWords * MaxNest) \in Int
  <2>1. CASE n = MaxNest
    BY <2>1, <1>1, <1>3, SMT DEF FrameAt
  <2>2. CASE n < MaxNest
    BY <2>2, <1>1, FramesApart, SMT DEF FrameAt
  <2>3. QED
    BY <2>1, <2>2, <1>1, SMT
<1>5. r \in 1 .. FrameWords
  BY DEF Saved
<1>6. QED
  BY <1>1, <1>2, <1>3, <1>4, <1>5, SMT DEF Addresses
-----------------------------------------------------------------------------
(***************************************************************************)
(* Types.                                                                  *)
(***************************************************************************)
\* A trap is taken outside the body of handle_trap only, and pushes such a place.
LEMMA TrapTypes ==
  ASSUME Types, NEW cause, Trap(cause), pc \notin Masked
  PROVE  Types'
<1>1. pc \in Outside
  BY DEF Types, Outside
<1>2. stack' \in Seq(Interrupted) /\ Len(stack') <= MaxNest
  <2>1. mie \in BOOLEAN => [pc |-> pc, regs |-> regs, sp |-> sp, mie |-> mie] \in Interrupted
    BY <1>1 DEF Types, Interrupted
  <2>2. mie \in BOOLEAN
    BY DEF Types
  <2>3. Len(stack) < MaxNest /\ MaxNest \in Nat
    BY TrapAssumption DEF Trap
  <2>4. QED
    BY <2>1, <2>2, <2>3 DEF Types, Trap
<1>3. pc' \in Places \cup {NoPlace} /\ (pc' \in Masked => mie' = FALSE)
  BY DEF Trap, Places, Masked
<1>4. mepc' \in Outside
  BY <1>1 DEF Trap
<1>5. QED
  BY <1>2, <1>3, <1>4 DEF Types, Trap

\* No step makes up an address or a value.
LEMMA TypesStep == Types /\ [Next]_vars => Types'
<1> SUFFICES ASSUME Types, [Next]_vars PROVE Types'
  OBVIOUS
<1> USE TrapAssumption
<1>1. ASSUME Raise PROVE Types'
  BY <1>1 DEF Types, Raise, csrs, ghosts
<1>2. ASSUME Interrupt PROVE Types'
  <2>1. pc \notin Masked
    BY <1>2 DEF Types, Interrupt
  <2>2. QED
    BY <1>2, <2>1, TrapTypes DEF Interrupt
<1>3. ASSUME Fault PROVE Types'
  BY <1>3, TrapTypes DEF Fault
<1>4. ASSUME MainStep PROVE Types'
  BY <1>4 DEF Types, MainStep, csrs, ghosts, Places, Masked, Regs
<1>5. ASSUME Entry PROVE Types'
  <2>1. sp' \in Int /\ regs' \in Regs
    BY <1>5 DEF Types, Entry, Regs, Lost, FrameSize
  <2>2. mem' \in [Addresses -> Values \cup {Junk}]
    <3>1. \A r \in Saved : regs[r] \in Values \cup {Junk}
      BY DEF Types, Regs
    <3>2. QED
      BY <1>5, <3>1 DEF Types, Entry
  <2>3. held' \in [Frames -> Outside]
    BY <1>5 DEF Types, Entry
  <2>4. QED
    BY <1>5, <2>1, <2>2, <2>3 DEF Types, Entry, csrs, ghosts, Places, Masked
<1>6. ASSUME Body PROVE Types'
  BY <1>6 DEF Types, Body, ghosts, Places, Masked
<1>7. ASSUME Enable PROVE Types'
  BY <1>7 DEF Types, Enable, ghosts, Places, Masked, Epilogue
<1>8. ASSUME WriteMepc PROVE Types'
  BY <1>8 DEF Types, WriteMepc, ghosts, Places, Masked, Epilogue, Outside
<1>9. ASSUME Restore PROVE Types'
  BY <1>9 DEF Types, Restore, csrs, ghosts, Places, Masked, Epilogue, Regs
<1>10. ASSUME Pop PROVE Types'
  BY <1>10 DEF Types, Pop, csrs, ghosts, Places, Masked, Epilogue, FrameSize
<1>11. ASSUME Mret PROVE Types'
  <2>1. stack' \in Seq(Interrupted) /\ Len(stack') <= MaxNest
    <3>1. CASE stack = <<>>
      BY <1>11, <3>1 DEF Mret, Types
    <3>2. CASE stack # <<>>
      BY <1>11, <3>2 DEF Mret, Types, Front
    <3>3. QED
      BY <3>1, <3>2
  <2>2. QED
    BY <1>11, <2>1 DEF Types, Mret, Outside
<1>12. CASE UNCHANGED vars
  BY <1>12 DEF Types, vars
<1>13. QED
  BY <1>1, <1>2, <1>3, <1>4, <1>5, <1>6, <1>7, <1>8, <1>9, <1>10, <1>11, <1>12 DEF Next, HandlerStep
-----------------------------------------------------------------------------
(***************************************************************************)
(* As long as nothing is clobbered.                                        *)
(***************************************************************************)
\* A trap that is taken in main() or before csrw mepc.
LEMMA TrapIntact ==
  ASSUME Types, clobbered = FALSE, Intact, NEW cause, Trap(cause), pc \notin Masked
  PROVE  clobbered' = TRUE \/ (clobbered' = FALSE /\ Intact')
<1>1. CASE pc \in Unsafe
  BY <1>1 DEF Trap
<1>2. CASE pc \notin Unsafe
  <2> DEFINE n == Len(stack)
  <2>1. clobbered' = FALSE
    BY <1>2 DEF Trap
  <2>2. n \in Nat /\ Len(stack') = n + 1 /\ (stack = <<>> <=> n = 0)
    BY DEF Types, Trap
  <2>3. \A i \in 1 .. n : stack'[i] = stack[i]
    BY DEF Types, Trap
  <2>4. stack'[n + 1] = [pc |-> pc, regs |-> regs, sp |-> sp, mie |-> mie]
    BY DEF Types, Trap
  <2>5. \/ pc \in MainPlaces /\ n = 0 /\ sp = 0
        \/ pc = "exit" /\ n > 0 /\ sp = FrameAt(n)
    BY <1>2, <2>2 DEF Intact, Current, Places, Epilogue, Unsafe
  <2>6. FrameAt(n) = sp /\ mie = TRUE
    BY <2>5, NextFrame DEF Intact, Current
  <2>7. Nested'
    <3> SUFFICES ASSUME NEW i \in 1 .. n + 1
                 PROVE  /\ stack'[i].pc \in (IF i = 1 THEN MainPlaces ELSE {"exit"})
                        /\ stack'[i].sp = FrameAt(i - 1) /\ stack'[i].mie = TRUE
      BY <2>2 DEF Nested, FrameAt
    <3>1. CASE i \in 1 .. n
      BY <3>1, <2>3 DEF Intact, Nested
    <3>2. CASE i = n + 1
      BY <3>2, <2>2, <2>4, <2>5, <2>6
    <3>3. i \in 1 .. n \/ i = n + 1
      BY <2>2, SMT
    <3>4. QED
      BY <3>1, <3>2, <3>3
  <2>8. FramesKept'
    <3> SUFFICES ASSUME NEW i \in 1 .. n PROVE Kept(i)'
      BY <2>2 DEF FramesKept, Pushed, Trap
    <3>1. Kept(i)
      BY <2>2, <2>5 DEF Intact, FramesKept, Pushed
    <3>2. QED
      BY <3>1, <2>3 DEF Kept, Trap, FrameAt, Saved
  <2>9. Current'
    BY <2>2, <2>4, <2>6, TrapAssumption DEF Current, Trap, Places, Masked, FrameAt
  <2>10. QED
    BY <2>1, <2>7, <2>8, <2>9 DEF Intact
<1>3. QED
  BY <1>1, <1>2

\* The frame of the trap is pushed below the others.
LEMMA EntryIntact ==
  ASSUME Types, Intact, Entry
  PROVE  Intact'
<1> DEFINE n == Len(stack)
<1>1. n \in 1 .. MaxNest /\ pc \notin MainPlaces /\ MaxNest \in Nat
  BY TrapAssumption DEF Types, Intact, Current, Entry, Masked
<1>2. sp' = FrameAt(n) /\ regs = stack[n].regs /\ mepc = stack[n].pc
  BY <1>1, NextFrame DEF Intact, Current, Entry, FrameSize
<1>3. FrameAt(n) \in Frames /\ FrameAt(n) \in Int
  BY <1>1, FramesOnStack, NextFrame, TrapAssumption, SMT DEF Saved
<1>5. \A a \in Addresses : mem'[a] = IF a - sp' \in Saved THEN regs[a - sp'] ELSE mem[a]
  BY DEF Entry
<1>4. \A i \in 1 .. n : Kept(i)'
  <2> SUFFICES ASSUME NEW i \in 1 .. n PROVE Kept(i)'
    OBVIOUS
  <2>1. \A r \in Saved : FrameAt(i) + r \in Addresses
    BY <1>1, FramesOnStack
  <2>2. CASE i = n
    <3>1. held'[FrameAt(i)] = stack[i].pc
      BY <1>2, <1>3, <2>2 DEF Entry, Types
    <3>2. ASSUME NEW r \in Saved PROVE mem'[FrameAt(i) + r] = stack[i].regs[r]
      <4>1. PICK a \in Addresses : a = FrameAt(i) + r
        BY <2>1
      <4>2. a - sp' = r
        BY <1>2, <1>3, <2>2, <4>1 DEF Saved
      <4>3. mem'[a] = regs[r]
        BY <1>5, <4>2
      <4>4. QED
        BY <4>1, <4>3, <1>2, <2>2
    <3>3. QED
      BY <3>1, <3>2 DEF Kept, Entry, ghosts, FrameAt, Saved
  <2>3. CASE i < n
    <3>1. Kept(i)
      BY <1>1, <2>3 DEF Intact, FramesKept
    <3>2. FrameAt(i) \in Int /\ FrameAt(i) >= FrameAt(n) + FrameWords /\ FrameWords \in Nat \ {0}
      BY <1>1, <2>3, FramesApart, TrapAssumption
    <3>3. held'[FrameAt(i)] = held[FrameAt(i)]
      BY <1>2, <1>3, <3>2 DEF Entry, Types
    <3>4. ASSUME NEW r \in Saved PROVE mem'[FrameAt(i) + r] = mem[FrameAt(i) + r]
      <4>1. PICK a \in Addresses : a = FrameAt(i) + r
        BY <2>1
      <4>2. a - sp' \notin Saved
        BY <1>2, <1>3, <3>2, <4>1 DEF Saved
      <4>3. mem'[a] = mem[a]
        BY <1>5, <4>2
      <4>4. QED
        BY <4>1, <4>3
    <3>5. QED
      BY <3>1, <3>3, <3>4 DEF Kept, Entry, ghosts, FrameAt, Saved
  <2>4. QED
    BY <1>1, <2>2, <2>3
<1>6. stack' = stack /\ mpie' = mpie /\ mepc' = mepc /\ pc' = "body"
  BY DEF Entry, csrs, ghosts
<1>7. Nested' /\ FramesKept'
  BY <1>4, <1>6 DEF Intact, Nested, FramesKept, FrameAt
<1>8. stack # <<>> /\ mpie = TRUE
  BY <1>1 DEF Intact, Current
<1>9. "body" \notin MainPlaces /\ "body" \in Masked /\ "body" \in Places
  BY TrapAssumption DEF Places, Masked
<1>10. FrameAt(Len(stack))' = FrameAt(Len(stack))
  BY <1>6 DEF FrameAt
<1>11. Current'
  BY <1>2, <1>6, <1>8, <1>9, <1>10 DEF Current
<1>12. QED
  BY <1>7, <1>11 DEF Intact

\* A step that leaves the stack and its history alone keeps what lies there.
LEMMA StackKept ==
  ASSUME Intact, UNCHANGED <<mem, held, stack>>, Pushed' => Pushed
  PROVE  Nested' /\ FramesKept'
<1>1. Nested'
  BY DEF Intact, Nested, FrameAt
<1>2. ASSUME NEW i \in 1 .. Len(stack), i < Len(stack) \/ Pushed
      PROVE  Kept(i)'
  <2>1. Kept(i)
    BY <1>2 DEF Intact, FramesKept
  <2>2. QED
    BY <2>1 DEF Kept, FrameAt, Saved
<1>3. FramesKept'
  BY <1>2 DEF FramesKept
<1>4. QED
  BY <1>1, <1>3

\* The epilogue reads its frame back.
LEMMA EpilogueIntact ==
  ASSUME Types, Intact, WriteMepc \/ Restore \/ Pop
  PROVE  Intact'
<1> DEFINE n == Len(stack)
<1>1. n \in 1 .. MaxNest /\ n \in Nat \ {0} /\ pc \notin MainPlaces /\ MaxNest \in Nat
  BY TrapAssumption DEF Types, Intact, Current, WriteMepc, Restore, Pop, Epilogue
<1>2. /\ sp = FrameAt(n) /\ FrameAt(n) \in Frames /\ FrameAt(n) <= 0
      /\ \A r \in Saved : FrameAt(n) + r \in Addresses
  <2>1. sp = FrameAt(n)
    BY DEF Intact, Current, WriteMepc, Restore, Pop
  <2>2. 1 \in Saved
    BY TrapAssumption DEF Saved
  <2>3. QED
    BY <1>1, <2>1, <2>2, FramesOnStack
<1>3. UNCHANGED <<mem, held, stack, mie, mpie>>
  BY DEF WriteMepc, Restore, Pop, csrs, ghosts
<1>4. Nested' /\ FramesKept'
  BY <1>3, StackKept DEF WriteMepc, Restore, Pop, Pushed
<1>5. /\ stack # <<>> /\ mpie = TRUE /\ mie = TRUE
      /\ pc \in {"restore", "pop"} => mepc = stack[n].pc
      /\ pc = "pop" => regs = stack[n].regs
      /\ Pushed => Kept(n)
  <2>1. pc \in {"exit", "restore", "pop"} /\ pc \notin Masked
    BY DEF WriteMepc, Restore, Pop, Masked
  <2>2. stack # <<>> /\ mpie = TRUE /\ mie = TRUE
    BY <1>1, <2>1 DEF Intact, Current
  <2>3. pc \in {"restore", "pop"} => mepc = stack[n].pc
    BY DEF Intact, Current
  <2>4. pc = "pop" => regs = stack[n].regs
    BY DEF Intact, Current
  <2>5. n \in 1 .. Len(stack)
    BY <1>1
  <2>6. Pushed => Kept(n)
    BY <2>5 DEF Intact, FramesKept
  <2>7. QED
    BY <2>2, <2>3, <2>4, <2>6
<1>6. FrameAt(n)' = FrameAt(n) /\ FrameAt(n - 1)' = FrameAt(n - 1)
  BY <1>3 DEF FrameAt
<1>7. \A p \in Epilogue : p \notin MainPlaces /\ p \in Places /\ p \notin Masked
  BY TrapAssumption DEF Places, Masked, Epilogue
<1>8. CASE WriteMepc
  <2>1. mepc' = stack[n].pc
    BY <1>2, <1>5, <1>8 DEF WriteMepc, Kept, Pushed
  <2>2. QED
    BY <1>2, <1>3, <1>4, <1>5, <1>6, <1>7, <1>8, <2>1 DEF Intact, Current, WriteMepc, Epilogue
<1>9. CASE Restore
  <2>1. regs' = stack[n].regs
    <3>1. stack[n] \in Interrupted
      BY <1>1 DEF Types
    <3>2. stack[n].regs \in Regs
      BY <3>1 DEF Interrupted
    <3>3. ASSUME NEW r \in Saved PROVE regs'[r] = stack[n].regs[r]
      BY <1>2, <1>5, <1>9 DEF Restore, Kept, Pushed
    <3>4. regs' = [r \in Saved |-> regs'[r]] /\ stack[n].regs = [r \in Saved |-> stack[n].regs[r]]
      BY <1>9, <3>2 DEF Restore, Regs
    <3>5. QED
      BY <3>3, <3>4
  <2>2. QED
    BY <1>2, <1>3, <1>4, <1>5, <1>6, <1>7, <1>9, <2>1 DEF Intact, Current, Restore, csrs, Epilogue
<1>10. CASE Pop
  <2>1. sp' = FrameAt(n - 1)
    <3>1. FrameWords \in Nat
      BY TrapAssumption
    <3>2. QED
      BY <1>1, <1>2, <1>10, <3>1, NextFrame DEF Pop, FrameSize
  <2>2. QED
    BY <1>2, <1>3, <1>4, <1>5, <1>6, <1>7, <1>10, <2>1 DEF Intact, Current, Pop, csrs, Epilogue
<1>11. QED
  BY <1>8, <1>9, <1>10

\* All of a sequence but its last element.
LEMMA FrontKept ==
  ASSUME NEW S, NEW s \in Seq(S), s # <<>>
  PROVE  /\ Len(SubSeq(s, 1, Len(s) - 1)) = Len(s) - 1
         /\ \A i \in 1 .. Len(s) - 1 : SubSeq(s, 1, Len(s) - 1)[i] = s[i]
<1>1. Len(s) \in Nat \ {0}
  OBVIOUS
<1>2. PICK m \in Nat : m = Len(s) - 1
  BY <1>1
<1>3. \A i \in 1 .. m : i \in 1 .. Len(s)
  BY <1>1, <1>2
<1>4. Len(SubSeq(s, 1, m)) = m /\ \A i \in 1 .. m : SubSeq(s, 1, m)[i] = s[i]
  BY <1>1, <1>2, <1>3
<1>5. QED
  BY <1>2, <1>4

\* mret goes on with what the last trap interrupted.
LEMMA MretIntact ==
  ASSUME Types, Intact, Mret
  PROVE  /\ Intact'
         /\ stack # <<>> /\ Resumed(stack[Len(stack)])
<1> DEFINE n == Len(stack)
<1>1. /\ stack # <<>> /\ n \in Nat \ {0}
      /\ pc \notin MainPlaces /\ mpie = TRUE /\ mie = TRUE
      /\ sp = FrameAt(n - 1) /\ regs = stack[n].regs /\ mepc = stack[n].pc
  BY TrapAssumption DEF Types, Intact, Current, Mret, Masked, Epilogue
<1>2. Resumed(stack[n])
  <2>1. stack[n].sp = FrameAt(n - 1) /\ stack[n].mie = TRUE
    <3>1. n \in 1 .. Len(stack)
      BY <1>1
    <3>2. QED
      BY <3>1 DEF Intact, Nested
  <2>2. QED
    BY <1>1, <2>1 DEF Resumed, Mret
<1>3. Len(stack') = n - 1 /\ \A i \in 1 .. n - 1 : stack'[i] = stack[i]
  <2>1. stack' = SubSeq(stack, 1, n - 1)
    BY <1>1 DEF Mret, Front
  <2>2. stack \in Seq(Interrupted)
    BY DEF Types
  <2>3. QED
    BY <1>1, <2>1, <2>2, FrontKept
<1>4. Nested'
  BY <1>1, <1>3 DEF Intact, Nested, FrameAt
<1>5. FramesKept'
  <2> SUFFICES ASSUME NEW i \in 1 .. n - 1 PROVE Kept(i)'
    BY <1>3 DEF FramesKept
  <2>1. Kept(i)
    BY <1>1 DEF Intact, FramesKept
  <2>2. QED
    BY <1>3, <2>1 DEF Kept, Mret, FrameAt, Saved
<1>6. stack[n].pc \in (IF n = 1 THEN MainPlaces ELSE {"exit"})
  <2>1. n \in 1 .. Len(stack)
    BY <1>1
  <2>2. QED
    BY <2>1 DEF Intact, Nested
<1>7. FrameAt(0) = 0 /\ FrameAt(Len(stack))' = FrameAt(n - 1)
  BY <1>1, <1>3, NextFrame DEF FrameAt
<1>8. /\ pc' \in Places /\ mpie' = TRUE /\ mie' = TRUE /\ sp' = FrameAt(n - 1)
      /\ pc' \in (IF n = 1 THEN MainPlaces ELSE {"exit"})
  BY <1>1, <1>6 DEF Mret, Places, Epilogue
<1>9. Current'
  <2>1. CASE n = 1
    <3>1. stack' = <<>> /\ pc' \in MainPlaces /\ sp' = 0
      BY <1>1, <1>3, <1>7, <1>8, <2>1 DEF Mret, Types, Front
    <3>2. pc' \notin Masked \cup Epilogue
      BY <3>1, TrapAssumption
    <3>3. QED
      BY <1>8, <3>1, <3>2 DEF Current, Masked, Epilogue
  <2>2. CASE n # 1
    <3>1. stack' # <<>> /\ pc' = "exit" /\ pc' \notin MainPlaces
      BY <1>1, <1>3, <1>8, <2>2, TrapAssumption DEF Epilogue
    <3>2. QED
      BY <1>7, <1>8, <3>1 DEF Current
  <2>3. QED
    BY <2>1, <2>2
<1>10. QED
  BY <1>1, <1>2, <1>4, <1>5, <1>9 DEF Intact

\* As long as nothing is clobbered, every step leaves what was interrupted intact.
LEMMA IntactStep ==
  ASSUME Types, clobbered = FALSE, Intact, [Next]_vars
  PROVE  clobbered' = TRUE \/ (clobbered' = FALSE /\ Intact')
<1>1. ASSUME Raise PROVE clobbered' = FALSE /\ Intact'
  BY <1>1, StackKept DEF Raise, csrs, ghosts, Pushed, Intact, Current, FrameAt
<1>2. ASSUME Interrupt PROVE clobbered' = TRUE \/ (clobbered' = FALSE /\ Intact')
  <2>1. pc \notin Masked
    BY <1>2 DEF Types, Interrupt
  <2>2. QED
    BY <1>2, <2>1, TrapIntact DEF Interrupt
<1>3. ASSUME Fault PROVE clobbered' = TRUE \/ (clobbered' = FALSE /\ Intact')
  BY <1>3, TrapIntact, TrapAssumption DEF Fault
<1>4. ASSUME MainStep PROVE clobbered' = FALSE /\ Intact'
  <2>1. pc \in MainPlaces /\ pc' \in MainPlaces /\ stack = <<>> /\ stack' = <<>> /\ Len(stack') = 0
    BY <1>4 DEF MainStep, ghosts, Intact, Current
  <2>2. pc' \notin Masked \cup Epilogue /\ pc \notin Masked
    BY <2>1, TrapAssumption
  <2>3. Nested' /\ FramesKept'
    BY <2>1 DEF Nested, FramesKept
  <2>4. Current'
    BY <1>4, <2>1, <2>2 DEF MainStep, csrs, Intact, Current, Masked, Epilogue, Places
  <2>5. QED
    BY <1>4, <2>3, <2>4 DEF MainStep, ghosts, Intact
<1>5. ASSUME Entry PROVE clobbered' = FALSE /\ Intact'
  BY <1>5, EntryIntact DEF Entry, ghosts
<1>6. ASSUME Body \/ Enable PROVE clobbered' = FALSE /\ Intact'
  <2>1. UNCHANGED <<mem, held, stack, sp, mpie, clobbered>> /\ (Pushed' => Pushed)
    BY <1>6 DEF Body, Enable, ghosts, Pushed
  <2>2. pc \notin MainPlaces /\ stack # <<>> /\ mpie = TRUE /\ sp = FrameAt(Len(stack))
    BY <1>6, TrapAssumption DEF Intact, Current, Body, Enable, Masked
  <2>3. FrameAt(Len(stack))' = FrameAt(Len(stack))
    BY <2>1 DEF FrameAt
  <2>4. pc' \notin MainPlaces /\ pc' \in Places
    BY <1>6, TrapAssumption DEF Body, Enable, Places, Masked, Epilogue
  <2>5. Current'
    BY <1>6, <2>1, <2>2, <2>3, <2>4 DEF Current, Body, Enable, Masked
  <2>6. QED
    BY <2>1, <2>5, StackKept DEF Intact
<1>7. ASSUME WriteMepc \/ Restore \/ Pop PROVE clobbered' = FALSE /\ Intact'
  BY <1>7, EpilogueIntact DEF WriteMepc, Restore, Pop, ghosts
<1>8. ASSUME Mret PROVE clobbered' = FALSE /\ Intact'
  BY <1>8, MretIntact DEF Mret
<1>9. CASE UNCHANGED vars
  BY <1>9, StackKept DEF vars, Pushed, Intact, Current, FrameAt
<1>10. QED
  BY <1>1, <1>2, <1>3, <1>4, <1>5, <1>6, <1>7, <1>8, <1>9 DEF Next, HandlerStep
-----------------------------------------------------------------------------
(***************************************************************************)
(* The theorems.                                                           *)
(***************************************************************************)
\* The program starts in main() with nothing interrupted.
LEMMA InitIInv == Init => IInv
<1> SUFFICES ASSUME Init PROVE IInv
  OBVIOUS
<1>1. pc \notin Masked \cup Epilogue /\ stack = <<>> /\ Len(stack) = 0
  BY TrapAssumption DEF Init
<1>2. Types
  <2>1. regs \in Regs
    BY DEF Init, Regs
  <2>2. held \in [Frames -> Outside] /\ mepc \in Outside
    BY TrapAssumption DEF Init, Outside, Masked
  <2>3. stack \in Seq(Interrupted)
    BY <1>1
  <2>4. mem \in [Addresses -> Values \cup {Junk}] /\ pc \in Places /\ sp \in Int
    BY DEF Init, Places
  <2>5. mie \in BOOLEAN /\ mpie \in BOOLEAN
    BY DEF Init
  <2>6. Len(stack) <= MaxNest
    BY <1>1, TrapAssumption
  <2>7. QED
    BY <1>1, <2>1, <2>2, <2>3, <2>4, <2>5, <2>6 DEF Types
<1>3. Intact
  BY <1>1 DEF Init, Intact, Nested, FramesKept, Current, Places, Masked, Epilogue
<1>4. QED
  BY <1>2, <1>3 DEF IInv, Init

\* Every reachable state is typed and, as long as nothing is clobbered, intact.
THEOREM Invariance == Spec => []IInv
<1>1. clobbered = TRUE /\ [Next]_vars => clobbered' = TRUE
  BY DEF Next, HandlerStep, Raise, Interrupt, Fault, Trap, MainStep, Entry, Body, Enable,
         WriteMepc, Restore, Pop, Mret, vars, ghosts
<1>2. IInv /\ [Next]_vars => IInv'
  BY <1>1, TypesStep, IntactStep DEF IInv
<1>3. QED
  BY InitIInv, <1>2, PTL DEF Spec

\* The body of handle_trap runs with interrupts off and is not entered twice.
THEOREM BodyIsExclusive == Spec => []BodyExclusive
<1>1. IInv => BodyExclusive
  <2> SUFFICES ASSUME IInv, pc \in Masked PROVE ~mie /\ \A i \in DOMAIN stack : stack[i].pc \notin Masked
    BY DEF BodyExclusive
  <2>1. mie = FALSE
    BY DEF IInv, Types
  <2>2. ASSUME NEW i \in DOMAIN stack PROVE stack[i].pc \notin Masked
    <3>1. stack[i] \in Interrupted
      BY DEF IInv, Types
    <3>2. QED
      BY <3>1 DEF Interrupted, Outside
  <2>3. QED
    BY <2>1, <2>2
<1>2. QED
  BY Invariance, <1>1, PTL

\* A return from a trap finds its program as it was left, as long as no interrupt
\* has come between csrw mepc and mret.
THEOREM ReturnsAreIntact == Spec => ReturnsIntact
<1>1. IInv /\ [Next]_vars => [Mret /\ ~clobbered => stack # <<>> /\ Resumed(Last(stack))]_vars
  <2> SUFFICES ASSUME IInv, Mret, ~clobbered PROVE stack # <<>> /\ Resumed(Last(stack))
    OBVIOUS
  <2>1. Types /\ Intact
    BY DEF IInv
  <2>2. QED
    BY <2>1, MretIntact DEF Last
<1>2. QED
  BY Invariance, <1>1, PTL DEF Spec, ReturnsIntact
=============================================================================
