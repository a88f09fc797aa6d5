----------------------------- MODULE Dhrystone -----------------------------
(***************************************************************************)
(* dhry() of dhrystone.c, which task_10ms calls: Proc0 with a step per     *)
(* call.  The program works on statics that nothing initialises before     *)
(* main(), and that a reset leaves as they are in the middle of a run;     *)
(* each call must clear or set whatever it goes on to read.                *)
(*                                                                         *)
(* Strings are the three literals of Proc0: what copying and comparing     *)
(* them adds to the counter is all that is left of them.  The arrays keep  *)
(* nothing that is read again: of their accesses the indices are left.     *)
(***************************************************************************)
EXTENDS Integers

CONSTANTS
  Words,         \* what an int, a char or a pointer in RAM may hold at power-up
  MaxRuns        \* bound on calls of dhry() between resets

ASSUME DhrystoneAssumption == Words \subseteq Int /\ MaxRuns \in Nat

VARIABLES
  place,         \* where dhry() is, "none" when it does not run
  counter, zz, IntGlob, Char1Glob, Char2Glob,
  PtrGlb, PtrGlbNext,  \* indices of feld
  feld,          \* of a record: PtrComp, Discr, EnumComp and IntComp
  IntLoc1, IntLoc2, IntLoc3, CharIndex, EnumLoc,   \* locals of Proc0
  touched,       \* history: indices of Array1Glob and Array2Glob used in the call
  runs,          \* history: calls of dhry() since the last reset
  returned       \* history: the last of them has returned

globals == <<IntGlob, Char1Glob, Char2Glob>>
pointers == <<zz, PtrGlb, PtrGlbNext>>
locs == <<IntLoc1, IntLoc2, IntLoc3, CharIndex, EnumLoc>>
ghosts == <<touched, runs, returned>>
dhryVars == <<place, counter, globals, pointers, feld, locs, ghosts>>

Enumeration == {"Ident1", "Ident2", "Ident3", "Ident4", "Ident5"}
RecordType(ptr, discr, enum, int) ==
  [PtrComp |-> ptr, Discr |-> discr, EnumComp |-> enum, IntComp |-> int]
Feld == 0 .. 4
ArrayIndex == 0 .. 50
OneToFifty == 1 .. 50
CharA == 65
CharB == 66
CharC == 67

At(from, to) == place = from /\ place' = to
Count(n) == counter' = counter + n
-----------------------------------------------------------------------------
(***************************************************************************)
(* The functions: what they return, and what they add to the counter.      *)
(***************************************************************************)
Func1(c1, c2) == IF c1 # c2 THEN "Ident1" ELSE "Ident2"
Func1Count(c1, c2) == IF c1 # c2 THEN 91 ELSE 93

\* "DHRYSTONE PROGRAM, 1'ST STRING" against the one with 2'ND: Func1 compares an H
\* with an R, and strcmp_x goes over the 19 characters they have in common.
StrLength == 30
Func2Count == Func1Count("H", "R") + 1 + 19

Proc6 ==
  [Ident1 |-> "Ident1", Ident2 |-> IF IntGlob > 100 THEN "Ident1" ELSE "Ident4",
   Ident3 |-> "Ident2", Ident4 |-> "Ident4", Ident5 |-> "Ident3"]
Proc6Count == [Ident1 |-> 43 + 5, Ident2 |-> 43 + 6, Ident3 |-> 7, Ident4 |-> 43 + 8, Ident5 |-> 43 + 9]

Proc7(i1, i2) == i2 + i1 + 2
Proc7Count(i1) == i1 + 2
-----------------------------------------------------------------------------
(***************************************************************************)
(* dhry() and Proc0.                                                       *)
(***************************************************************************)
\* Mutant of the next definition: zz is left as it is.
DhryKeepsZz ==
  /\ At("none", "next") /\ runs < MaxRuns /\ runs' = runs + 1
  /\ counter' = 7 /\ returned' = FALSE /\ touched' = {}
  /\ UNCHANGED <<pointers, globals, feld, locs>>

Dhry ==
  /\ At("none", "next") /\ runs < MaxRuns /\ runs' = runs + 1
  /\ counter' = 7 /\ zz' = 0 /\ returned' = FALSE /\ touched' = {}
  /\ UNCHANGED <<PtrGlb, PtrGlbNext, globals, feld, locs>>

\* malloc_x, for PtrGlbNext and for PtrGlb.
MallocNext ==
  /\ At("next", "glob") /\ Count(101)
  /\ zz' = zz + 1 /\ PtrGlbNext' = zz
  /\ UNCHANGED <<globals, PtrGlb, feld, locs, ghosts>>

MallocGlob ==
  /\ At("glob", "fill") /\ Count(101)
  /\ zz' = zz + 1 /\ PtrGlb' = zz
  /\ UNCHANGED <<globals, PtrGlbNext, feld, locs, ghosts>>

\* A pointer that is none of feld's would write somewhere else.
Fill ==
  /\ At("fill", "proc5") /\ Count(2 * StrLength)
  /\ feld' = [f \in Feld |-> IF f = PtrGlb
                THEN RecordType(PtrGlbNext, "Ident1", "Ident3", 40) ELSE feld[f]]
  /\ touched' = {7, 8}
  /\ UNCHANGED <<globals, pointers, locs, runs, returned>>

\* Mutant of the next definition: Char1Glob is left as it is.
Proc5Dropped ==
  /\ At("proc5", "proc4") /\ Count(3 + 41)
  /\ UNCHANGED <<globals, pointers, feld, locs, ghosts>>

Proc5 ==
  /\ At("proc5", "proc4") /\ Count(3 + 41)
  /\ Char1Glob' = CharA
  /\ UNCHANGED <<IntGlob, Char2Glob, pointers, feld, locs, ghosts>>

Proc4 ==
  /\ At("proc4", "func2") /\ Count(37)
  /\ Char2Glob' = CharB
  /\ UNCHANGED <<IntGlob, Char1Glob, pointers, feld, locs, ghosts>>

Func2 ==
  /\ At("func2", "while") /\ Count(StrLength + Func2Count)
  /\ IntLoc1' = 2 /\ IntLoc2' = 3 /\ EnumLoc' = "Ident2"
  /\ UNCHANGED <<globals, pointers, feld, IntLoc3, CharIndex, ghosts>>

While ==
  /\ \/ /\ IntLoc1 < IntLoc2 /\ At("while", "while") /\ Count(Proc7Count(IntLoc1) + 9)
        /\ IntLoc3' = Proc7(IntLoc1, IntLoc2) /\ IntLoc1' = IntLoc1 + 1
     \/ /\ IntLoc1 >= IntLoc2 /\ At("while", "proc8")
        /\ UNCHANGED <<counter, IntLoc1, IntLoc3>>
  /\ UNCHANGED <<globals, pointers, feld, IntLoc2, CharIndex, EnumLoc, ghosts>>

\* Mutant of the next definition: IntGlob is left as it is.
Proc8KeepsIntGlob ==
  /\ At("proc8", "proc1")
  /\ LET i == IntLoc1 + 5
     IN  Count(2 * i + 1) /\ touched' = touched \cup {i - 1, i, i + 1, i + 20, i + 30}
  /\ UNCHANGED <<globals, pointers, feld, locs, runs, returned>>

Proc8 ==
  /\ At("proc8", "proc1")
  /\ LET i == IntLoc1 + 5
     IN  Count(2 * i + 1) /\ touched' = touched \cup {i - 1, i, i + 1, i + 20, i + 30}
  /\ IntGlob' = 5
  /\ UNCHANGED <<Char1Glob, Char2Glob, pointers, feld, locs, runs, returned>>

\* Proc1 up to the call of Proc3, in which structassign adds one.
NextRecord == feld[PtrGlb].PtrComp
Proc1 ==
  /\ At("proc1", "proc3") /\ Count(1)
  /\ LET own == RecordType(NextRecord, feld[PtrGlb].Discr, feld[PtrGlb].EnumComp, 5)
     IN  feld' = [feld EXCEPT ![PtrGlb] = own, ![NextRecord] = own]
  /\ UNCHANGED <<globals, pointers, locs, ghosts>>

\* PtrGlb is not NULL here.
Proc3 ==
  /\ At("proc3", "discr") /\ Count(31 + Proc7Count(10))
  /\ feld' = [feld EXCEPT ![NextRecord].PtrComp = NextRecord,
                          ![PtrGlb].IntComp = Proc7(10, IntGlob)]
  /\ UNCHANGED <<globals, pointers, locs, ghosts>>

\* The rest of Proc1.
Discr ==
  /\ At("discr", "for")
  /\ LET own == feld[PtrGlb] next == feld[NextRecord]
     IN  IF next.Discr = "Ident1"
         THEN /\ Count(Proc6Count[own.EnumComp] + 27 + Proc7Count(6) + 23)
              /\ feld' = [feld EXCEPT ![NextRecord] =
                   RecordType(own.PtrComp, next.Discr, Proc6[own.EnumComp], Proc7(6, 10))]
         ELSE Count(1 + 23) /\ feld' = [feld EXCEPT ![PtrGlb] = next]
  /\ CharIndex' = CharA
  /\ UNCHANGED <<globals, pointers, IntLoc1, IntLoc2, IntLoc3, EnumLoc, ghosts>>

For ==
  /\ place = "for" /\ CharIndex <= Char2Glob /\ CharIndex' = CharIndex + 1
  /\ IF EnumLoc = Func1(CharIndex, CharC)
     THEN EnumLoc' = Proc6["Ident1"] /\ Count(Func1Count(CharIndex, CharC) + Proc6Count["Ident1"] + 1)
     ELSE UNCHANGED EnumLoc /\ Count(Func1Count(CharIndex, CharC) + 1)
  /\ UNCHANGED <<place, globals, pointers, feld, IntLoc1, IntLoc2, IntLoc3, ghosts>>

ForEnds ==
  /\ At("for", "proc2") /\ CharIndex > Char2Glob
  /\ LET product == IntLoc2 * IntLoc1
     IN  IntLoc3' = product /\ IntLoc2' = 7 * (product - product \div IntLoc1) - IntLoc1
  /\ UNCHANGED <<counter, globals, pointers, feld, IntLoc1, CharIndex, EnumLoc, ghosts>>

\* Proc2 leaves its loop when its EnumLoc is Ident1.  Nothing but the branch sets it:
\* without that it is Ident1 by chance, or the loop never ends (what it goes on adding
\* to the counter is left out).
Proc2 ==
  /\ \/ /\ place = "proc2" /\ Char1Glob = CharA /\ Count(13 + 17 + 11)
        /\ IntLoc1' = IntLoc1 + 10 - 1 - IntGlob
        /\ place' = "none" /\ returned' = TRUE
     \/ /\ place = "proc2" /\ Char1Glob # CharA /\ Count(17 + 11)
        /\ place' = "none" /\ returned' = TRUE
        /\ UNCHANGED IntLoc1
     \/ /\ place \in {"proc2", "loop"} /\ Char1Glob # CharA
        /\ place' = "loop"
        /\ UNCHANGED <<counter, IntLoc1, returned>>
  /\ UNCHANGED <<globals, pointers, feld, IntLoc2, IntLoc3, CharIndex, EnumLoc, touched, runs>>

DhryStep ==
  \/ MallocNext \/ MallocGlob \/ Fill \/ Proc5 \/ Proc4 \/ Func2 \/ While \/ Proc8
  \/ Proc1 \/ Proc3 \/ Discr \/ For \/ ForEnds \/ Proc2
-----------------------------------------------------------------------------
\* A reset leaves the statics as they are; the locals are gone.
DhryReset ==
  /\ place' = "none" /\ returned' = FALSE /\ touched' = {} /\ runs' = 0
  /\ IntLoc1' = 0 /\ IntLoc2' = 0 /\ IntLoc3' = 0 /\ CharIndex' = 0 /\ EnumLoc' = "Ident1"
  /\ UNCHANGED <<counter, globals, pointers, feld>>

\* Nothing clears .bss: what dhry() must set before it reads it is whatever it is,
\* and the rest is one word everywhere.  Locals have no value yet.
DhryInit ==
  /\ place = "none" /\ touched = {} /\ runs = 0 /\ returned = FALSE
  /\ zz \in Words /\ IntGlob \in Words /\ Char1Glob \in Words /\ Char2Glob \in Words
  /\ \E w \in Words :
       /\ counter = w /\ PtrGlb = w /\ PtrGlbNext = w
       /\ feld \in {[f \in Feld |-> RecordType(w, e, e, w)] : e \in {"Ident1", "Ident5"}}
  /\ IntLoc1 = 0 /\ IntLoc2 = 0 /\ IntLoc3 = 0 /\ CharIndex = 0 /\ EnumLoc = "Ident1"

DhryNext == Dhry \/ DhryStep \/ DhryReset
DhrySpec == DhryInit /\ [][DhryNext]_dhryVars
-----------------------------------------------------------------------------
(***************************************************************************)
(* Properties.                                                             *)
(***************************************************************************)
\* dhry() returns the same whatever RAM held at power-up and wherever a reset
\* stopped an earlier call: 855 is the sum of what the functions add to the counter
\* on the one way through the benchmark.
SameResult == returned => counter = 855

\* The pointers that are followed point into feld, and every index is within its
\* array, although feld has no more than five records and zz is static.
InBounds ==
  /\ touched \subseteq ArrayIndex
  /\ place = "fill" => PtrGlb \in Feld
  /\ place \in {"proc1", "proc3", "discr"} => PtrGlb \in Feld /\ NextRecord \in Feld

\* What is declared as OneToFifty is that from its first assignment on.
SubrangesHold ==
  /\ place \in {"proc8", "proc1", "proc3", "discr", "for", "proc2"} =>
       {IntLoc1, IntLoc2, IntLoc3} \subseteq OneToFifty
  /\ place \in {"for", "proc2"} =>
       feld[PtrGlb].IntComp \in OneToFifty /\ feld[NextRecord].IntComp \in OneToFifty
  /\ returned => IntLoc1 \in OneToFifty

\* dhry() returns, unless it is reset, so that it does not hold up the schedule.
DhryReturns == place = "next" ~> place = "none"
=============================================================================
