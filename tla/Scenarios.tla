----------------------------- MODULE Scenarios -----------------------------
(***************************************************************************)
(* The user code of scenarios_a3 that shares variables: task_5ms_bs_math   *)
(* with the bubble sort of trace_contexts.c, task_100ms_nexus, and the     *)
(* button interrupt ISR2_minmax, which preempts both.                      *)
(*                                                                         *)
(* A task takes one step per access to memory it shares with the interrupt *)
(* or that a reset would find half changed; the interrupt is one step      *)
(* (TrapEntry).  Variables keep their values over a reset, as nothing      *)
(* loads .data or clears .bss again.  math() touches none of these         *)
(* variables and is left out; dhry(), in Dhrystone, neither.  x, y, z and  *)
(* signal, in .bss, start as whatever RAM holds.                           *)
(***************************************************************************)
EXTENDS Integers

CONSTANTS
  N_EL,
  Half,          \* 2^31: an int is in -Half .. Half - 1
  PowerUp,       \* what x, y and z may hold together at power-up
  MaxCalls, MaxPresses, MaxResets  \* bounds on task_100ms, the button, resets

ASSUME ScenariosAssumption ==
  /\ N_EL \in Nat \ {0} /\ Half \in Nat /\ PowerUp \subseteq [{"x", "y", "z"} -> -Half .. Half - 1]
  /\ {MaxCalls, MaxPresses, MaxResets} \subseteq Nat

VARIABLES
  pc,            \* where the running task is, "idle" between two of them
  x, y, z, result,
  signal,
  arr,           \* arr[1 .. N_EL], which bs sorts
  i, j, tmp,     \* locals of the running task
  calls, presses, resets,  \* history: completed task_100ms_nexus, and events
  sorted,        \* history: bs has run to its end since the last reset
  torn,          \* history: a reset came between the two stores of a swap
  spoiled        \* history: a number was negative at power-up, or an int has
                 \* spoiled, which is undefined in C

shared == <<x, y, z, result, signal>>
sort == <<arr, sorted, torn>>
locals == <<i, j, tmp>>
counts == <<calls, presses, resets>>
vars == <<pc, shared, sort, locals, counts, spoiled>>

Fits(n) == n \in -Half .. Half - 1
Int32(n) == ((n + Half) % (2 * Half)) - Half
Rem(n, d) == IF n >= 0 THEN n % d ELSE -((-n) % d)   \* the % of C
-----------------------------------------------------------------------------
(***************************************************************************)
(* minmax.c and ISR2_minmax.                                               *)
(***************************************************************************)
min(a, b, c) == IF a <= b THEN IF a <= c THEN a ELSE c
                ELSE IF b <= c THEN b ELSE c

\* Mutant of the next definition: the comparisons are the wrong way round.
maxReversed(a, b, c) == min(a, b, c)
max(a, b, c) == LET m == IF a <= b THEN b ELSE a IN IF m <= c THEN c ELSE m

Press ==
  /\ presses < MaxPresses /\ presses' = presses + 1
  /\ LET nx == IF x <= y THEN y ELSE IF x <= z THEN x + min(x, y, z) ELSE x
         ny == IF x <= y THEN x ELSE y
         nz == IF x <= y \/ x <= z THEN z ELSE z * max(z, y, x)
         nr == IF ny <= Int32(nz) THEN ny + Int32(nz) ELSE ny - Int32(nz)
     IN  /\ x' = Int32(nx) /\ y' = ny /\ z' = Int32(nz) /\ result' = Int32(nr)
         /\ spoiled' = (spoiled \/ ~(Fits(nx) /\ Fits(nz) /\ Fits(nr)))
  /\ UNCHANGED <<pc, signal, sort, locals, calls, resets>>
-----------------------------------------------------------------------------
(***************************************************************************)
(* task_5ms_bs_math and bs.                                                *)
(***************************************************************************)
Task5ms ==
  /\ pc = "idle"
  /\ IF signal THEN pc' = "bs" /\ i' = N_EL /\ j' = 1
               ELSE UNCHANGED <<pc, i, j>>
  /\ UNCHANGED <<shared, sort, tmp, counts, spoiled>>

\* Mutant of the next definition: a pass stops one pair short.
PassEndsEarly == j >= i - 1
PassEnds == j > i - 1

NextPass ==
  /\ pc = "bs" /\ i > 1 /\ PassEnds
  /\ i' = i - 1 /\ j' = 1
  /\ UNCHANGED <<pc, shared, sort, tmp, counts, spoiled>>

Compare ==
  /\ pc = "bs" /\ i > 1 /\ ~PassEnds
  /\ IF arr[j] < arr[j + 1]
     THEN /\ tmp' = arr[j] /\ pc' = "swap"
          /\ arr' = [arr EXCEPT ![j] = arr[j + 1]]
          /\ UNCHANGED j
     ELSE j' = j + 1 /\ UNCHANGED <<pc, tmp, arr>>
  /\ UNCHANGED <<shared, sorted, torn, i, counts, spoiled>>

Swap ==
  /\ pc = "swap" /\ pc' = "bs"
  /\ arr' = [arr EXCEPT ![j + 1] = tmp]
  /\ j' = j + 1
  /\ UNCHANGED <<shared, sorted, torn, i, tmp, counts, spoiled>>

BsReturns ==
  /\ pc = "bs" /\ i <= 1 /\ pc' = "idle"
  /\ sorted' = TRUE
  /\ UNCHANGED <<shared, arr, torn, locals, counts, spoiled>>
-----------------------------------------------------------------------------
(***************************************************************************)
(* task_100ms_nexus.                                                       *)
(***************************************************************************)
init_vector == <<90, 47, 85, 66, 49, 7, 93, 35, 78, 63, 90, 47, 85, 66, 49, 7, 93, 35, 78, 63>>

\* &, ^ and | with words of eight bits (a module that is proved about does not use
\* Bitwise).
Bit(n, weight) == (n \div weight) % 2 = 1
And(a, n) ==
  LET Both(weight) == IF Bit(a, weight) /\ Bit(n, weight) THEN weight ELSE 0
  IN  Both(1) + Both(2) + Both(4) + Both(8) + Both(16) + Both(32) + Both(64) + Both(128)
Or(a, n) == a + n - And(a, n)
Xor(a, n) == Or(a, n) - And(a, n)

\* f, on what init_vector holds.  Its shifts by more than 31 shift by the low five
\* bits on this CPU: by 16 or more, which leaves nothing of what is below 2^16.
f(n) ==
  LET r0 == IF Bit(n, 1) THEN 255 + n ELSE 255
      r1 == IF Bit(n, 2) THEN r0 * n ELSE r0
      r2 == IF Bit(n, 4) THEN r1 - n ELSE r1
      r3 == IF Bit(n, 8) THEN r2 \div n ELSE r2
      r4 == IF Bit(n, 16) THEN 0 ELSE r3
      r5 == IF Bit(n, 32) THEN And(r4, n) ELSE r4
      r6 == IF Bit(n, 64) THEN Xor(r5, n) ELSE r5
  IN  IF Bit(n, 128) THEN Or(r6, n) ELSE r6
f_values == [k \in 0 .. 19 |-> f(init_vector[k + 1])]

SetSignal ==
  /\ pc = "idle" /\ calls < MaxCalls /\ pc' = "readX"
  /\ signal' = (Rem(z, 3) = 0)
  /\ UNCHANGED <<x, y, z, result, sort, locals, counts, spoiled>>

\* Mutant of the next definition: x is the index as it is.
ReadXWhole ==
  /\ pc = "readX" /\ pc' = "writeY"
  /\ tmp' = x
  /\ UNCHANGED <<shared, sort, i, j, counts, spoiled>>

ReadX ==
  /\ pc = "readX" /\ pc' = "writeY"
  /\ tmp' = Rem(x, 20)
  /\ UNCHANGED <<shared, sort, i, j, counts, spoiled>>

\* What lies before or behind init_vector is read as any value of it.
WriteY ==
  /\ pc = "writeY" /\ pc' = "readZ"
  /\ \E k \in 0 .. 19 : (tmp \in 0 .. 19 => k = tmp) /\ y' = f_values[k]
  /\ UNCHANGED <<x, z, result, signal, sort, locals, counts, spoiled>>

ReadZ ==
  /\ pc = "readZ" /\ pc' = "writeZ"
  /\ tmp' = z
  /\ UNCHANGED <<shared, sort, i, j, counts, spoiled>>

WriteZ ==
  /\ pc = "writeZ" /\ pc' = "idle"
  /\ z' = Int32(tmp + 1)
  /\ calls' = calls + 1
  /\ spoiled' = (spoiled \/ ~Fits(tmp + 1))
  /\ UNCHANGED <<x, y, result, signal, sort, locals, presses, resets>>
-----------------------------------------------------------------------------
Reset ==
  /\ resets < MaxResets /\ resets' = resets + 1
  /\ pc' = "idle" /\ i' = 0 /\ j' = 0 /\ tmp' = 0
  /\ torn' = (torn \/ pc = "swap") /\ sorted' = FALSE
  /\ UNCHANGED <<shared, arr, calls, presses, spoiled>>

Init ==
  /\ pc = "idle"
  /\ \E ram \in PowerUp : x = ram.x /\ y = ram.y /\ z = ram.z
  /\ spoiled = (x < 0 \/ y < 0 \/ z < 0)
  /\ result = 0 /\ signal \in BOOLEAN /\ arr = [k \in 1 .. N_EL |-> k]
  /\ i = 0 /\ j = 0 /\ tmp = 0 /\ calls = 0 /\ presses = 0 /\ resets = 0
  /\ sorted = FALSE /\ torn = FALSE

Next ==
  \/ Press \/ Task5ms \/ NextPass \/ Compare \/ Swap \/ BsReturns
  \/ SetSignal \/ ReadX \/ WriteY \/ ReadZ \/ WriteZ \/ Reset

Spec == Init /\ [][Next]_vars
-----------------------------------------------------------------------------
(***************************************************************************)
(* Properties.                                                             *)
(***************************************************************************)
\* x%20 is an index of init_vector, however the exchanges and sums of the
\* interrupt fall between the accesses of the task, unless one of x, y and z was
\* negative at power-up, as nothing clears .bss, or an int has overflowed: then %
\* may make a negative index.
IndexInRange == pc = "writeY" /\ ~spoiled => tmp \in 0 .. 19

\* z++ may undo what an interrupt between its load and its store did to z, but
\* never an earlier z++: z is at least the number of calls, from numbers that are
\* not negative at power-up to an overflow.
ZAdvances == ~spoiled => z >= calls

\* Once bs has run, arr is in descending order, even when a reset left it torn
\* in the middle of an earlier run; and it is a permutation as long as none did.
SortedAfterBs ==
  /\ sorted /\ pc \in {"idle", "readX", "writeY", "readZ", "writeZ"} =>
       \A k \in 1 .. N_EL - 1 : arr[k] >= arr[k + 1]
  /\ ~torn /\ pc # "swap" => {arr[k] : k \in 1 .. N_EL} = 1 .. N_EL
=============================================================================
