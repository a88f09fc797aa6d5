-------------------------- MODULE ApplicationProofs --------------------------
(***************************************************************************)
(* The tasks of scenarios_a3, together as AppSpec lets them run.           *)
(*                                                                         *)
(* dhry() returns the same, stays in its arrays and its subranges, for any *)
(* content of RAM, any number of calls, and resets anywhere: a call is     *)
(* followed from place to place, and Run says what it has set by then.     *)
(*                                                                         *)
(* From numbers that are not negative at power-up, and as long as no int   *)
(* overflows, what the button interrupt and the task share stays what the  *)
(* task needs.  The bubble sort is followed with the array as it is when   *)
(* the swap under way is completed.                                        *)
(***************************************************************************)
EXTENDS Application, TLAPS

-----------------------------------------------------------------------------
(***************************************************************************)
(* dhry().                                                                 *)
(***************************************************************************)
Record == [PtrComp : Int, Discr : Enumeration, EnumComp : Enumeration, IntComp : Int]

DhryTypes ==
  /\ counter \in Int /\ zz \in Int /\ PtrGlb \in Int /\ PtrGlbNext \in Int
  /\ IntGlob \in Int /\ Char1Glob \in Int /\ Char2Glob \in Int
  /\ IntLoc1 \in Int /\ IntLoc2 \in Int /\ IntLoc3 \in Int /\ CharIndex \in Int
  /\ feld \in [Feld -> Record]
  /\ touched \subseteq ArrayIndex
  /\ runs \in Nat

Rec(enum, int) == RecordType(0, "Ident1", enum, int)

\* What holds from a place on, until the call is over.
Late == {"for", "proc2"}
After1 == {"proc3", "discr"} \cup Late
After8 == {"proc1"} \cup After1
AfterWhile == {"proc8"} \cup After8
AfterFunc2 == {"while"} \cup AfterWhile
After4 == {"func2"} \cup AfterFunc2
After5 == {"proc4"} \cup After4
AfterFill == {"proc5"} \cup After5
Places == {"none", "next", "glob", "fill"} \cup AfterFill

Run ==
  /\ place \in Places
  /\ returned => place = "none" /\ counter = 855 /\ IntLoc1 = 7
  /\ place = "next" => counter = 7 /\ zz = 0
  /\ place = "glob" => counter = 108 /\ zz = 1 /\ PtrGlbNext = 0
  /\ place = "fill" => counter = 209
  /\ place \in {"fill"} \cup AfterFill => PtrGlb = 1 /\ PtrGlbNext = 0
  /\ place = "proc5" => counter = 269
  /\ place \in AfterFill \ After1 => feld[1] = Rec("Ident3", 40)
  /\ place = "proc4" => counter = 313
  /\ place \in After5 => Char1Glob = 65
  /\ place = "func2" => counter = 350
  /\ place \in After4 => Char2Glob = 66
  /\ place \in AfterFunc2 => EnumLoc = "Ident2"
  /\ place \in AfterFunc2 \ {"proc2"} => IntLoc2 = 3
  /\ place = "while" => \/ IntLoc1 = 2 /\ counter = 491
                        \/ IntLoc1 = 3 /\ IntLoc3 = 7 /\ counter = 504
  /\ place \in AfterWhile => IntLoc1 = 3
  /\ place \in AfterWhile \ {"proc2"} => IntLoc3 = 7
  /\ place = "proc8" => counter = 504
  /\ place \in After8 => IntGlob = 5
  /\ place = "proc1" => counter = 521
  /\ place = "proc3" => counter = 522 /\ feld[0] = Rec("Ident3", 5) /\ feld[1] = Rec("Ident3", 5)
  /\ place = "discr" => counter = 565 /\ feld[0] = Rec("Ident3", 5) /\ feld[1] = Rec("Ident3", 17)
  /\ place = "for" => CharIndex \in 65 .. 67 /\ counter = 630 + 92 * (CharIndex - 65)
  /\ place \in Late => feld[0] = Rec("Ident2", 18) /\ feld[1] = Rec("Ident3", 17)
  /\ place = "proc2" => counter = 814 /\ IntLoc2 = 39 /\ IntLoc3 = 9

DhryIInv == DhryTypes /\ Run
-----------------------------------------------------------------------------
\* RAM may hold anything when the CPU comes out of reset.
LEMMA DhryInitInv == DhryInit => DhryIInv
<1> SUFFICES ASSUME DhryInit PROVE DhryIInv
  OBVIOUS
<1>1. touched \subseteq ArrayIndex
  <2>1. touched = {}
    BY DEF DhryInit
  <2>2. QED
    BY <2>1
<1>2. feld \in [Feld -> Record]
  BY DhrystoneAssumption DEF DhryInit, RecordType, Record, Enumeration
<1>3. DhryTypes
  BY DhrystoneAssumption, <1>1, <1>2 DEF DhryInit, DhryTypes
<1>4. Run
  BY DEF DhryInit, Run, Places, Late, After1, After8, AfterWhile, AfterFunc2, After4, After5, AfterFill
<1>5. QED
  BY <1>3, <1>4 DEF DhryIInv

\* Each step of dhry(), and a reset in the middle of it, keeps DhryIInv.
LEMMA DhryStepInv == DhryIInv /\ [DhryNext]_dhryVars => DhryIInv'
<1> SUFFICES ASSUME DhryIInv, [DhryNext]_dhryVars PROVE DhryIInv'
  OBVIOUS
<1> USE DEF DhryIInv, DhryTypes, Run, Rec, RecordType, Record, Enumeration, Feld, ArrayIndex,
            Places, Late, After1, After8, AfterWhile, AfterFunc2, After4, After5, AfterFill
<1>1. ASSUME Dhry PROVE DhryIInv'
  <2>1. touched' \subseteq ArrayIndex
    <3>1. touched' = {}
      BY <1>1 DEF Dhry
    <3>2. QED
      BY <3>1
  <2>2. QED
    BY <1>1, <2>1 DEF Dhry, At, globals, pointers, locs, ghosts
<1>2. ASSUME MallocNext PROVE DhryIInv'
  BY <1>2 DEF MallocNext, At, Count, globals, pointers, locs, ghosts
<1>3. ASSUME MallocGlob PROVE DhryIInv'
  BY <1>3 DEF MallocGlob, At, Count, globals, pointers, locs, ghosts
<1>4. ASSUME Fill PROVE DhryIInv'
  BY <1>4 DEF Fill, At, Count, globals, pointers, locs, ghosts, StrLength
<1>5. ASSUME Proc5 PROVE DhryIInv'
  BY <1>5 DEF Proc5, At, Count, globals, pointers, locs, ghosts, CharA
<1>6. ASSUME Proc4 PROVE DhryIInv'
  BY <1>6 DEF Proc4, At, Count, globals, pointers, locs, ghosts, CharB
<1>7. ASSUME Func2 PROVE DhryIInv'
  BY <1>7 DEF Func2, At, Count, globals, pointers, locs, ghosts, StrLength, Func2Count, Func1Count
<1>8. ASSUME While PROVE DhryIInv'
  BY <1>8 DEF While, At, Count, globals, pointers, locs, ghosts, Proc7, Proc7Count
<1>9. ASSUME Proc8 PROVE DhryIInv'
  BY <1>9 DEF Proc8, At, Count, globals, pointers, locs, ghosts
<1>10. ASSUME Proc1 PROVE DhryIInv'
  BY <1>10 DEF Proc1, At, Count, globals, pointers, locs, ghosts, NextRecord
<1>11. ASSUME Proc3 PROVE DhryIInv'
  BY <1>11 DEF Proc3, At, Count, globals, pointers, locs, ghosts, NextRecord, Proc7, Proc7Count
<1>12. ASSUME Discr PROVE DhryIInv'
  BY <1>12 DEF Discr, At, Count, globals, pointers, locs, ghosts,
    NextRecord, Proc6, Proc6Count, Proc7, Proc7Count, CharA
<1>13. ASSUME For PROVE DhryIInv'
  BY <1>13 DEF For, At, Count, globals, pointers, locs, ghosts, Func1, Func1Count, CharC, Proc6, Proc6Count
<1>14. ASSUME ForEnds PROVE DhryIInv'
  BY <1>14 DEF ForEnds, At, Count, globals, pointers, locs, ghosts
<1>15. ASSUME Proc2 PROVE DhryIInv'
  BY <1>15 DEF Proc2, At, Count, globals, pointers, locs, ghosts, CharA
<1>16. ASSUME DhryReset PROVE DhryIInv'
  <2>1. touched' \subseteq ArrayIndex
    <3>1. touched' = {}
      BY <1>16 DEF DhryReset
    <3>2. QED
      BY <3>1
  <2>2. QED
    BY <1>16, <2>1 DEF DhryReset, At, globals, pointers, locs, ghosts
<1>17. CASE UNCHANGED dhryVars
  BY <1>17 DEF dhryVars, globals, pointers, locs, ghosts
<1>18. QED
  BY <1>1, <1>2, <1>3, <1>4, <1>5, <1>6, <1>7, <1>8, <1>9, <1>10,
     <1>11, <1>12, <1>13, <1>14, <1>15, <1>16, <1>17 DEF DhryNext, DhryStep

-----------------------------------------------------------------------------
(***************************************************************************)
(* The interrupt and the tasks of Scenarios: numbers.                      *)
(***************************************************************************)
Types ==
  /\ pc \in {"idle", "bs", "swap", "readX", "writeY", "readZ", "writeZ"}
  /\ calls \in Nat

\* Where nothing was negative at power-up, nothing becomes negative and no z++ is
\* taken back, until something overflows.
Unsigned ==
  ~spoiled =>
    /\ x \in Nat /\ y \in Nat /\ z \in Nat /\ z >= calls
    /\ pc = "writeY" => tmp \in 0 .. 19
    /\ pc = "writeZ" => tmp \in Nat /\ tmp >= calls

\* An int that fits is itself.
LEMMA Int32Fits ==
  ASSUME NEW n \in Int, Fits(n)
  PROVE  Int32(n) = n
<1>1. Half \in Nat /\ n + Half \in 0 .. 2 * Half - 1 /\ 2 * Half > 0
  BY ScenariosAssumption DEF Fits
<1>2. (n + Half) % (2 * Half) = n + Half
  BY <1>1
<1>3. QED
  BY <1>1, <1>2 DEF Int32

\* What f makes of each word of init_vector is not negative.
LEMMA FNatural == \A n \in {90, 47, 85, 66, 49, 7, 93, 35, 78, 63} : f(n) \in Nat
<1> SUFFICES ASSUME NEW n \in {90, 47, 85, 66, 49, 7, 93, 35, 78, 63} PROVE f(n) \in Nat
  OBVIOUS
<1>1. CASE n = 90
  <2>1. /\ ~Bit(90, 1) /\ Bit(90, 2) /\ ~Bit(90, 4) /\ Bit(90, 8)
        /\ Bit(90, 16) /\ ~Bit(90, 32) /\ Bit(90, 64) /\ ~Bit(90, 128)
    BY DEF Bit
  <2>2. And(0, 90) = 0
    BY DEF And, Bit
  <2>3. f(90) = 90
    BY <2>1, <2>2 DEF f, Xor, Or
  <2>4. QED
    BY <1>1, <2>3
<1>2. CASE n = 47
  <2>1. /\ Bit(47, 1) /\ Bit(47, 2) /\ Bit(47, 4) /\ Bit(47, 8)
        /\ ~Bit(47, 16) /\ Bit(47, 32) /\ ~Bit(47, 64) /\ ~Bit(47, 128)
    BY DEF Bit
  <2>2. And(301, 47) = 45
    BY DEF And, Bit
  <2>3. f(47) = 45
    BY <2>1, <2>2 DEF f, Xor, Or
  <2>4. QED
    BY <1>2, <2>3
<1>3. CASE n = 85
  <2>1. /\ Bit(85, 1) /\ ~Bit(85, 2) /\ Bit(85, 4) /\ ~Bit(85, 8)
        /\ Bit(85, 16) /\ ~Bit(85, 32) /\ Bit(85, 64) /\ ~Bit(85, 128)
    BY DEF Bit
  <2>2. And(0, 85) = 0
    BY DEF And, Bit
  <2>3. f(85) = 85
    BY <2>1, <2>2 DEF f, Xor, Or
  <2>4. QED
    BY <1>3, <2>3
<1>4. CASE n = 66
  <2>1. /\ ~Bit(66, 1) /\ Bit(66, 2) /\ ~Bit(66, 4) /\ ~Bit(66, 8)
        /\ ~Bit(66, 16) /\ ~Bit(66, 32) /\ Bit(66, 64) /\ ~Bit(66, 128)
    BY DEF Bit
  <2>2. And(16830, 66) = 2
    BY DEF And, Bit
  <2>3. f(66) = 16892
    BY <2>1, <2>2 DEF f, Xor, Or
  <2>4. QED
    BY <1>4, <2>3
<1>5. CASE n = 49
  <2>1. /\ Bit(49, 1) /\ ~Bit(49, 2) /\ ~Bit(49, 4) /\ ~Bit(49, 8)
        /\ Bit(49, 16) /\ Bit(49, 32) /\ ~Bit(49, 64) /\ ~Bit(49, 128)
    BY DEF Bit
  <2>2. And(0, 49) = 0
    BY DEF And, Bit
  <2>3. f(49) = 0
    BY <2>1, <2>2 DEF f, Xor, Or
  <2>4. QED
    BY <1>5, <2>3
<1>6. CASE n = 7
  <2>1. /\ Bit(7, 1) /\ Bit(7, 2) /\ Bit(7, 4) /\ ~Bit(7, 8)
        /\ ~Bit(7, 16) /\ ~Bit(7, 32) /\ ~Bit(7, 64) /\ ~Bit(7, 128)
    BY DEF Bit
  <2>2. f(7) = 1827
    BY <2>1 DEF f
  <2>3. QED
    BY <1>6, <2>2
<1>7. CASE n = 93
  <2>1. /\ Bit(93, 1) /\ ~Bit(93, 2) /\ Bit(93, 4) /\ Bit(93, 8)
        /\ Bit(93, 16) /\ ~Bit(93, 32) /\ Bit(93, 64) /\ ~Bit(93, 128)
    BY DEF Bit
  <2>2. And(0, 93) = 0
    BY DEF And, Bit
  <2>3. f(93) = 93
    BY <2>1, <2>2 DEF f, Xor, Or
  <2>4. QED
    BY <1>7, <2>3
<1>8. CASE n = 35
  <2>1. /\ Bit(35, 1) /\ Bit(35, 2) /\ ~Bit(35, 4) /\ ~Bit(35, 8)
        /\ ~Bit(35, 16) /\ Bit(35, 32) /\ ~Bit(35, 64) /\ ~Bit(35, 128)
    BY DEF Bit
  <2>2. And(10150, 35) = 34
    BY DEF And, Bit
  <2>3. f(35) = 34
    BY <2>1, <2>2 DEF f, Xor, Or
  <2>4. QED
    BY <1>8, <2>3
<1>9. CASE n = 78
  <2>1. /\ ~Bit(78, 1) /\ Bit(78, 2) /\ Bit(78, 4) /\ Bit(78, 8)
        /\ ~Bit(78, 16) /\ ~Bit(78, 32) /\ Bit(78, 64) /\ ~Bit(78, 128)
    BY DEF Bit
  <2>2. And(254, 78) = 78
    BY DEF And, Bit
  <2>3. f(78) = 176
    BY <2>1, <2>2 DEF f, Xor, Or
  <2>4. QED
    BY <1>9, <2>3
<1>10. CASE n = 63
  <2>1. /\ Bit(63, 1) /\ Bit(63, 2) /\ Bit(63, 4) /\ Bit(63, 8)
        /\ Bit(63, 16) /\ Bit(63, 32) /\ ~Bit(63, 64) /\ ~Bit(63, 128)
    BY DEF Bit
  <2>2. And(0, 63) = 0
    BY DEF And, Bit
  <2>3. f(63) = 0
    BY <2>1, <2>2 DEF f, Xor, Or
  <2>4. QED
    BY <1>10, <2>3
<1>11. QED
  BY <1>1, <1>2, <1>3, <1>4, <1>5, <1>6, <1>7, <1>8, <1>9, <1>10

\* Nor is any of f_values.
LEMMA FValues == \A k \in 0 .. 19 : f_values[k] \in Nat
<1> SUFFICES ASSUME NEW k \in 0 .. 19 PROVE f_values[k] \in Nat
  OBVIOUS
<1>1. init_vector[k + 1] \in {90, 47, 85, 66, 49, 7, 93, 35, 78, 63}
  BY DEF init_vector
<1>2. f(init_vector[k + 1]) \in Nat
  BY <1>1, FNatural
<1>3. QED
  BY <1>2 DEF f_values

\* min and max of what is not negative.
LEMMA MinMax ==
  ASSUME NEW a \in Int, NEW b \in Int, NEW c \in Int, a >= 0, b >= 0, c >= 0
  PROVE  min(a, b, c) \in Nat /\ max(a, b, c) \in Nat /\ max(a, b, c) >= a
BY DEF min, max

\* A product with what is not less does not become less.
LEMMA ProductGrows ==
  ASSUME NEW a \in Nat, NEW b \in Nat, b >= a
  PROVE  a * b \in Nat /\ a * b >= a
<1>1. CASE a = 0
  BY <1>1
<1>2. CASE a # 0
  <2>1. b >= 1
    BY <1>2
  <2>2. a * b \in Nat /\ a * b >= a * 1
    BY <2>1
  <2>3. QED
    BY <2>2
<1>3. QED
  BY <1>1, <1>2

\* A number that is not below zero.
LEMMA NotNegative == \A n \in Int : ~(n < 0) => n >= 0
OBVIOUS

\* At the start.
LEMMA NumbersInit == Init => Types /\ Unsigned
<1> SUFFICES ASSUME Init PROVE Types /\ Unsigned
  OBVIOUS
<1>1. x \in Int /\ y \in Int /\ z \in Int
  <2>1. PICK ram \in PowerUp : x = ram.x /\ y = ram.y /\ z = ram.z
    BY DEF Init
  <2>2. ram \in [{"x", "y", "z"} -> Int]
    BY <2>1, ScenariosAssumption
  <2>3. QED
    BY <2>1, <2>2
<1>2. ~spoiled => x >= 0 /\ y >= 0 /\ z >= 0
  BY Zenon, <1>1, NotNegative DEF Init
<1>3. QED
  BY <1>1, <1>2 DEF Init, Types, Unsigned

\* The button interrupt.
LEMMA PressUnsigned == ASSUME Types, Unsigned, Press, ~spoiled' PROVE
  /\ x' \in Nat /\ y' \in Nat /\ z' \in Nat /\ z' >= calls /\ ~spoiled
<1> DEFINE nx == IF x <= y THEN y ELSE IF x <= z THEN x + min(x, y, z) ELSE x
           ny == IF x <= y THEN x ELSE y
           nz == IF x <= y \/ x <= z THEN z ELSE z * max(z, y, x)
<1>1. /\ ~spoiled /\ Fits(nx) /\ Fits(nz)
      /\ x' = Int32(nx) /\ y' = ny /\ z' = Int32(nz)
  BY Zenon DEF Press
<1>2. /\ x \in Nat /\ y \in Nat /\ z \in Nat /\ z >= calls /\ calls \in Nat
  BY <1>1 DEF Types, Unsigned
<1>3. min(x, y, z) \in Nat /\ max(z, y, x) \in Nat /\ max(z, y, x) >= z
  BY <1>2, MinMax
<1>4. z * max(z, y, x) \in Nat /\ z * max(z, y, x) >= z
  BY <1>2, <1>3, ProductGrows
<1>5. nx \in Nat /\ ny \in Nat /\ nz \in Nat /\ nz >= calls
  BY <1>2, <1>3, <1>4
<1> HIDE DEF nx, ny, nz
<1>6. Int32(nx) = nx /\ Int32(nz) = nz
  BY <1>1, <1>5, Int32Fits
<1>7. QED
  BY <1>1, <1>5, <1>6

\* Every step keeps the numbers.
LEMMA NumbersStep == Types /\ Unsigned /\ [Next]_vars => Types' /\ Unsigned'
<1> SUFFICES ASSUME Types, Unsigned, [Next]_vars PROVE Types' /\ Unsigned'
  OBVIOUS
<1>1. CASE Press
  <2>1. UNCHANGED <<pc, tmp, calls>>
    BY <1>1 DEF Press, locals
  <2>2. Types'
    BY <2>1 DEF Types
  <2>3. ASSUME ~spoiled'
        PROVE  /\ x' \in Nat /\ y' \in Nat /\ z' \in Nat /\ z' >= calls' /\ ~spoiled
               /\ pc' = "writeY" => tmp' \in 0 .. 19
               /\ pc' = "writeZ" => tmp' \in Nat /\ tmp' >= calls'
    <3>1. /\ x' \in Nat /\ y' \in Nat /\ z' \in Nat /\ z' >= calls /\ ~spoiled
      BY <1>1, <2>3, PressUnsigned
    <3>2. QED
      BY <2>1, <3>1 DEF Unsigned
  <2>4. QED
    BY <2>2, <2>3 DEF Unsigned
<1>2. CASE Task5ms \/ NextPass \/ Compare \/ Swap \/ BsReturns
  <2>1. /\ UNCHANGED <<x, y, z, calls, spoiled>>
        /\ pc' \in {"idle", "bs", "swap"}
    BY <1>2 DEF Task5ms, NextPass, Compare, Swap, BsReturns, shared, locals, counts
  <2>2. QED
    BY <2>1 DEF Types, Unsigned
<1>3. CASE SetSignal
  BY <1>3 DEF SetSignal, counts, locals, Types, Unsigned
<1>4. CASE ReadX
  <2>1. UNCHANGED <<x, y, z, calls, spoiled>> /\ pc' = "writeY" /\ tmp' = Rem(x, 20)
    BY <1>4 DEF ReadX, shared, counts
  <2>2. x \in Nat => Rem(x, 20) \in 0 .. 19
    BY DEF Rem
  <2>3. QED
    BY <2>1, <2>2 DEF Types, Unsigned
<1>5. CASE WriteY
  <2>1. /\ UNCHANGED <<x, z, tmp, calls, spoiled>> /\ pc' = "readZ"
        /\ \E k \in 0 .. 19 : y' = f_values[k]
    BY <1>5, Zenon DEF WriteY, counts, locals
  <2>2. y' \in Nat
    BY <2>1, FValues
  <2>3. QED
    BY <2>1, <2>2 DEF Types, Unsigned
<1>6. CASE ReadZ
  BY <1>6 DEF ReadZ, shared, counts, Types, Unsigned
<1>7. CASE WriteZ
  <2>1. /\ UNCHANGED <<x, y>> /\ pc' = "idle" /\ calls' = calls + 1 /\ z' = Int32(tmp + 1)
        /\ ~spoiled' => ~spoiled /\ Fits(tmp + 1)
        /\ pc = "writeZ"
    BY <1>7, Zenon DEF WriteZ
  <2>2. ASSUME ~spoiled' PROVE x' \in Nat /\ y' \in Nat /\ z' \in Nat /\ z' >= calls'
    <3>1. x \in Nat /\ y \in Nat /\ tmp \in Nat /\ tmp >= calls
      BY <2>1, <2>2 DEF Unsigned
    <3>2. Int32(tmp + 1) = tmp + 1
      BY <2>1, <2>2, <3>1, Int32Fits
    <3>3. QED
      BY <2>1, <3>1, <3>2 DEF Types
  <2>3. QED
    BY <2>1, <2>2 DEF Types, Unsigned
<1>8. CASE Reset
  BY <1>8 DEF Reset, shared, Types, Unsigned
<1>9. CASE UNCHANGED vars
  BY <1>9 DEF vars, shared, locals, counts, Types, Unsigned
<1>10. QED
  BY <1>1, <1>2, <1>3, <1>4, <1>5, <1>6, <1>7, <1>8, <1>9 DEF Next
-----------------------------------------------------------------------------
(***************************************************************************)
(* The bubble sort.                                                        *)
(***************************************************************************)
Elements == 1 .. N_EL

\* arr as it is when the swap under way is completed, and what the pass has reached.
Completed == IF pc = "swap" THEN [arr EXCEPT ![j + 1] = tmp] ELSE arr
Reached == IF pc = "swap" THEN j + 1 ELSE j

\* Pass i carries the least of the first i elements along; the others are at
\* their places behind them.
Loop ==
  /\ i \in Elements /\ j \in 1 .. i /\ (pc = "swap" => j < i)
  /\ \A m \in 1 .. Reached : Completed[m] >= Completed[Reached]
  /\ \A k \in i + 1 .. N_EL : \A m \in 1 .. k : Completed[m] >= Completed[k]

Descending == \A k \in 1 .. N_EL - 1 : arr[k] >= arr[k + 1]
Permutes(a) == {a[k] : k \in Elements} = Elements

Sorting ==
  /\ arr \in [Elements -> Int] /\ (pc = "swap" => tmp \in Int)
  /\ pc \in {"bs", "swap"} => Loop
  /\ sorted /\ pc \notin {"bs", "swap"} => Descending
  /\ ~torn => Permutes(Completed)

\* At the start.
LEMMA SortingInit == Init => Sorting
<1> SUFFICES ASSUME Init PROVE Sorting
  OBVIOUS
<1>1. pc = "idle" /\ ~sorted /\ arr = [k \in Elements |-> k]
  BY DEF Init, Elements
<1>2. \A k \in Elements : arr[k] = k /\ k \in Int
  BY <1>1 DEF Elements
<1>3. arr \in [Elements -> Int]
  BY <1>1, <1>2
<1>4. Completed = arr
  BY <1>1 DEF Completed
<1>5. Permutes(arr)
  BY <1>2 DEF Permutes
<1>6. QED
  BY <1>1, <1>3, <1>4, <1>5 DEF Sorting

\* The swap of two elements leaves the set of them as it is.
LEMMA SwapPermutes ==
  ASSUME NEW a, NEW b, NEW p \in Elements, NEW q \in Elements, a \in [Elements -> Int],
         b \in [Elements -> Int], b[p] = a[q], b[q] = a[p],
         \A k \in Elements : k # p /\ k # q => b[k] = a[k]
  PROVE  Permutes(a) => Permutes(b)
<1>1. ASSUME NEW k \in Elements PROVE \E m \in Elements : b[m] = a[k]
  <2>1. CASE k = p
    BY <2>1
  <2>2. CASE k = q
    BY <2>2
  <2>3. CASE k # p /\ k # q
    BY <2>3
  <2>4. QED
    BY <2>1, <2>2, <2>3
<1>2. ASSUME NEW k \in Elements PROVE \E m \in Elements : a[m] = b[k]
  <2>1. CASE k = p
    BY <2>1
  <2>2. CASE k = q
    BY <2>2
  <2>3. CASE k # p /\ k # q
    BY <2>3
  <2>4. QED
    BY <2>1, <2>2, <2>3
<1>3. {a[k] : k \in Elements} = {b[k] : k \in Elements}
  BY <1>1, <1>2
<1>4. QED
  BY <1>3 DEF Permutes

\* Two elements are compared, and the first half of their swap is made.
LEMMA CompareSorting ==
  ASSUME Sorting, Compare
  PROVE  Sorting'
<1>1. /\ pc = "bs" /\ i > 1 /\ ~(j > i - 1) /\ Completed = arr /\ Reached = j /\ Loop
      /\ UNCHANGED <<i, sorted, torn>> /\ arr \in [Elements -> Int]
      /\ N_EL \in Nat
  BY ScenariosAssumption DEF Compare, PassEnds, Sorting, Completed, Reached
<1>2. /\ i \in 1 .. N_EL /\ j \in 1 .. i - 1 /\ j \in Elements /\ j + 1 \in Elements /\ j + 1 \in 1 .. i
  BY <1>1 DEF Loop, Elements
<1>3. arr[j] \in Int /\ arr[j + 1] \in Int
  BY <1>1, <1>2
<1>4. CASE arr[j] < arr[j + 1]
  <2>1. /\ pc' = "swap" /\ j' = j /\ tmp' = arr[j] /\ arr' = [arr EXCEPT ![j] = arr[j + 1]]
    BY <1>4 DEF Compare
  <2>2. PICK b : b = Completed'
    OBVIOUS
  <2>3. b = [[arr EXCEPT ![j] = arr[j + 1]] EXCEPT ![j + 1] = arr[j]] /\ Reached' = j + 1
    BY <2>1, <2>2 DEF Completed, Reached
  <2>4. /\ b \in [Elements -> Int] /\ b[j] = arr[j + 1] /\ b[j + 1] = arr[j]
        /\ \A k \in Elements : k # j /\ k # j + 1 => b[k] = arr[k]
    BY <1>1, <1>2, <1>3, <2>3
  <2>5. Permutes(arr) => Permutes(b)
    BY <1>1, <1>2, <2>4, SwapPermutes
  <2>6. \A m \in 1 .. j + 1 : b[m] >= b[j + 1]
    BY <1>1, <1>2, <1>3, <1>4, <2>4 DEF Loop, Elements
  <2>7. \A k \in i + 1 .. N_EL : \A m \in 1 .. k : b[m] >= b[k]
    <3> SUFFICES ASSUME NEW k \in i + 1 .. N_EL, NEW m \in 1 .. k PROVE b[m] >= b[k]
      OBVIOUS
    <3>1. /\ k \in Elements /\ m \in Elements /\ k # j /\ k # j + 1
          /\ j \in 1 .. k /\ j + 1 \in 1 .. k
      BY <1>1, <1>2 DEF Elements
    <3>2. \A l \in 1 .. k : arr[l] >= arr[k]
      BY <1>1 DEF Loop
    <3>3. CASE m = j
      BY <2>4, <3>1, <3>2, <3>3
    <3>4. CASE m = j + 1
      BY <2>4, <3>1, <3>2, <3>4
    <3>5. CASE m # j /\ m # j + 1
      BY <2>4, <3>1, <3>2, <3>5
    <3>6. QED
      BY <3>3, <3>4, <3>5
  <2>8. Loop'
    BY <1>1, <1>2, <2>1, <2>2, <2>3, <2>6, <2>7 DEF Loop, Elements
  <2>9. arr' \in [Elements -> Int]
    BY <1>1, <1>2, <1>3, <2>1
  <2>10. QED
    BY <1>1, <1>3, <2>1, <2>2, <2>5, <2>8, <2>9 DEF Sorting
<1>5. CASE ~(arr[j] < arr[j + 1])
  <2>1. pc' = pc /\ j' = j + 1 /\ tmp' = tmp /\ arr' = arr
    BY <1>5 DEF Compare
  <2>2. Completed' = arr /\ Reached' = j + 1
    BY <1>1, <2>1 DEF Completed, Reached
  <2>3. \A m \in 1 .. j + 1 : arr[m] >= arr[j + 1]
    <3> SUFFICES ASSUME NEW m \in 1 .. j + 1 PROVE arr[m] >= arr[j + 1]
      OBVIOUS
    <3>1. CASE m = j + 1
      BY <1>3, <3>1
    <3>2. CASE m # j + 1
      <4>1. m \in 1 .. j /\ m \in Elements
        BY <1>1, <1>2, <3>2 DEF Elements
      <4>2. arr[m] >= arr[j] /\ arr[m] \in Int
        BY <1>1, <4>1 DEF Loop
      <4>3. QED
        BY <1>3, <1>5, <4>2
    <3>3. QED
      BY <3>1, <3>2
  <2>4. Loop'
    BY <1>1, <1>2, <2>1, <2>2, <2>3 DEF Loop, Elements
  <2>5. QED
    BY <1>1, <2>1, <2>2, <2>4 DEF Sorting
<1>6. QED
  BY <1>4, <1>5

\* The second half of a swap completes what the first has begun.
LEMMA SwapSorting ==
  ASSUME Sorting, Swap
  PROVE  Sorting'
<1>1. /\ pc = "swap" /\ pc' = "bs" /\ j' = j + 1 /\ i' = i /\ sorted' = sorted /\ torn' = torn
      /\ arr' = [arr EXCEPT ![j + 1] = tmp] /\ Loop /\ tmp \in Int
      /\ arr \in [Elements -> Int] /\ N_EL \in Nat
  BY ScenariosAssumption DEF Swap, Sorting
<1>2. Completed' = Completed /\ Reached' = Reached
  BY <1>1 DEF Completed, Reached
<1>3. i \in 1 .. N_EL /\ j \in 1 .. i - 1 /\ arr' \in [Elements -> Int]
  BY <1>1 DEF Loop, Elements
<1>4. Loop'
  BY <1>1, <1>2, <1>3 DEF Loop, Elements
<1>5. QED
  BY <1>1, <1>2, <1>3, <1>4 DEF Sorting

\* A pass is over: the element it carried along is at its place.
LEMMA PassSorting ==
  ASSUME Sorting, NextPass
  PROVE  Sorting'
<1>1. /\ pc = "bs" /\ i > 1 /\ j > i - 1 /\ i' = i - 1 /\ j' = 1 /\ pc' = pc
      /\ Loop /\ UNCHANGED <<arr, tmp, sorted, torn>> /\ arr \in [Elements -> Int] /\ N_EL \in Nat
  BY ScenariosAssumption DEF NextPass, PassEnds, Sorting, sort
<1>2. Completed = arr /\ Completed' = arr /\ Reached = j /\ Reached' = 1
  BY <1>1 DEF Completed, Reached
<1>3. i \in 2 .. N_EL /\ j = i
  BY <1>1 DEF Loop, Elements
<1>4. \A k \in i .. N_EL : \A m \in 1 .. k : arr[m] >= arr[k]
  <2> SUFFICES ASSUME NEW k \in i .. N_EL, NEW m \in 1 .. k PROVE arr[m] >= arr[k]
    OBVIOUS
  <2>1. CASE k = i
    BY <1>1, <1>2, <1>3, <2>1 DEF Loop
  <2>2. CASE k # i
    BY <1>1, <1>2, <1>3, <2>2 DEF Loop
  <2>3. QED
    BY <2>1, <2>2
<1>5. \A m \in 1 .. 1 : arr[m] >= arr[1]
  BY <1>1, <1>3 DEF Elements
<1>6. i' \in Elements /\ j' \in 1 .. i' /\ i' + 1 = i
  BY <1>1, <1>3 DEF Elements
<1>7. Loop'
  BY <1>1, <1>2, <1>4, <1>5, <1>6 DEF Loop
<1>8. QED
  BY <1>1, <1>2, <1>7 DEF Sorting

\* bs returns: all elements are at their places.
LEMMA ReturnSorting ==
  ASSUME Sorting, BsReturns
  PROVE  Sorting'
<1>1. /\ pc = "bs" /\ i <= 1 /\ pc' = "idle" /\ UNCHANGED <<arr, torn, tmp>>
      /\ Loop /\ arr \in [Elements -> Int] /\ N_EL \in Nat
  BY ScenariosAssumption DEF BsReturns, Sorting, locals
<1>2. Completed = arr /\ Completed' = arr
  BY <1>1 DEF Completed
<1>3. i = 1
  BY <1>1 DEF Loop, Elements
<1>4. Descending
  <2> SUFFICES ASSUME NEW k \in 1 .. N_EL - 1 PROVE arr[k] >= arr[k + 1]
    BY DEF Descending
  <2>1. k + 1 \in i + 1 .. N_EL /\ k \in 1 .. k + 1
    BY <1>1, <1>3
  <2>2. QED
    BY <1>1, <1>2, <2>1 DEF Loop
<1>5. Descending'
  BY <1>1, <1>4 DEF Descending
<1>6. QED
  BY <1>1, <1>2, <1>5 DEF Sorting

\* Every step keeps what is known of the array.
LEMMA SortingStep == Sorting /\ [Next]_vars => Sorting'
<1> SUFFICES ASSUME Sorting, [Next]_vars PROVE Sorting'
  OBVIOUS
<1>0. N_EL \in Nat /\ N_EL >= 1
  BY ScenariosAssumption
<1>1. CASE Press \/ UNCHANGED vars
  <2>1. UNCHANGED <<pc, arr, i, j, tmp, sorted, torn>>
    BY <1>1 DEF Press, vars, sort, locals
  <2>2. QED
    BY <2>1 DEF Sorting, Loop, Completed, Reached, Descending, Permutes
<1>2. CASE Task5ms
  <2>1. /\ pc = "idle" /\ UNCHANGED <<arr, tmp, sorted, torn>>
        /\ \/ pc' = "idle"
           \/ pc' = "bs" /\ i' = N_EL /\ j' = 1
    BY <1>2 DEF Task5ms, sort
  <2>2. Completed = arr /\ Completed' = arr
    BY <2>1 DEF Completed
  <2>3. CASE pc' = "idle"
    BY <2>1, <2>2, <2>3 DEF Sorting, Descending
  <2>4. CASE pc' = "bs" /\ i' = N_EL /\ j' = 1
    <3>1. Reached' = 1 /\ arr[1] \in Int /\ i' \in Elements /\ j' \in 1 .. i'
      BY <1>0, <2>4 DEF Reached, Sorting, Elements
    <3>2. \A m \in 1 .. 1 : arr[m] >= arr[1]
      BY <3>1
    <3>3. Loop'
      BY <1>0, <2>2, <2>4, <3>1, <3>2 DEF Loop
    <3>4. QED
      BY <2>1, <2>2, <2>4, <3>3 DEF Sorting
  <2>5. QED
    BY <2>1, <2>3, <2>4
<1>3. CASE NextPass
  BY <1>3, PassSorting
<1>4. CASE Compare
  BY <1>4, CompareSorting
<1>5. CASE Swap
  BY <1>5, SwapSorting
<1>6. CASE BsReturns
  BY <1>6, ReturnSorting
<1>7. CASE SetSignal \/ ReadX \/ WriteY \/ ReadZ \/ WriteZ
  <2>1. /\ UNCHANGED <<arr, sorted, torn>>
        /\ pc \notin {"bs", "swap"} /\ pc' \notin {"bs", "swap"}
    BY <1>7 DEF SetSignal, ReadX, WriteY, ReadZ, WriteZ, sort
  <2>2. Completed = arr /\ Completed' = arr
    BY <2>1 DEF Completed
  <2>3. QED
    BY <2>1, <2>2 DEF Sorting, Descending
<1>8. CASE Reset
  <2>1. /\ arr' = arr /\ pc' = "idle" /\ ~sorted'
        /\ ~torn' => ~torn /\ pc # "swap"
    BY <1>8, Zenon DEF Reset
  <2>2. Completed' = arr /\ (~torn' => Completed = arr)
    BY <2>1 DEF Completed
  <2>3. QED
    BY <2>1, <2>2 DEF Sorting
<1>9. QED
  BY <1>1, <1>2, <1>3, <1>4, <1>5, <1>6, <1>7, <1>8 DEF Next
-----------------------------------------------------------------------------
(***************************************************************************)
(* The tasks together.                                                     *)
(***************************************************************************)
IInv == Types /\ Unsigned /\ Sorting

\* The tasks of Scenarios run among dhry() as they do alone.
LEMMA ScenariosRun == AppSpec => Spec
<1>1. AppInit => Init
  BY DEF AppInit
<1>2. [AppNext]_appVars => [Next]_vars
  <2> SUFFICES ASSUME [AppNext]_appVars PROVE [Next]_vars
    OBVIOUS
  <2>1. CASE ScenarioTask \/ AppPress \/ AppReset
    BY <2>1 DEF ScenarioTask, AppPress, AppReset, Next
  <2>2. CASE DhryTask \/ UNCHANGED appVars
    BY <2>2 DEF DhryTask, appVars
  <2>3. QED
    BY <2>1, <2>2 DEF AppNext
<1>3. QED
  BY <1>1, <1>2, PTL DEF AppSpec, Spec

\* And so does dhry() among the tasks of Scenarios.
LEMMA DhryRuns == AppSpec => DhrySpec
<1>1. AppInit => DhryInit
  BY DEF AppInit
<1>2. [AppNext]_appVars => [DhryNext]_dhryVars
  <2> SUFFICES ASSUME [AppNext]_appVars PROVE [DhryNext]_dhryVars
    OBVIOUS
  <2>1. CASE DhryTask \/ AppReset
    BY <2>1 DEF DhryTask, AppReset, DhryNext
  <2>2. CASE ScenarioTask \/ AppPress \/ UNCHANGED appVars
    BY <2>2 DEF ScenarioTask, AppPress, appVars
  <2>3. QED
    BY <2>1, <2>2 DEF AppNext
<1>3. QED
  BY <1>1, <1>2, PTL DEF AppSpec, DhrySpec

\* What is known of the numbers and the array holds for ever.
THEOREM Invariance == AppSpec => []IInv
<1>1. Init => IInv
  BY NumbersInit, SortingInit DEF IInv
<1>2. IInv /\ [Next]_vars => IInv'
  BY NumbersStep, SortingStep DEF IInv
<1>3. QED
  BY <1>1, <1>2, ScenariosRun, PTL DEF Spec

\* What is known of a call of dhry() holds for ever.
THEOREM DhryInvariance == AppSpec => []DhryIInv
<1>1. DhryIInv /\ [DhryNext]_dhryVars => DhryIInv'
  BY DhryStepInv
<1>2. QED
  BY DhryInitInv, <1>1, DhryRuns, PTL DEF DhrySpec

\* The index into init_vector is in range, unless one of x, y and z was negative at
\* power-up, until an int overflows.
THEOREM IndexIsInRange == AppSpec => []IndexInRange
<1>1. IInv => IndexInRange
  BY DEF IInv, Unsigned, IndexInRange
<1>2. QED
  BY Invariance, <1>1, PTL

\* No z++ takes back an earlier one, unless one of x, y and z was negative at
\* power-up, until an int overflows.
THEOREM ZAlwaysAdvances == AppSpec => []ZAdvances
<1>1. IInv => ZAdvances
  BY DEF IInv, Unsigned, ZAdvances
<1>2. QED
  BY Invariance, <1>1, PTL

\* bs sorts, and no element is lost or doubled unless a reset tears a swap.
THEOREM BsSorts == AppSpec => []SortedAfterBs
<1>1. IInv => SortedAfterBs
  <2> SUFFICES ASSUME IInv PROVE SortedAfterBs
    OBVIOUS
  <2>1. sorted /\ pc \in {"idle", "readX", "writeY", "readZ", "writeZ"} => Descending
    BY DEF IInv, Sorting
  <2>2. ~torn /\ pc # "swap" => Permutes(arr)
    BY DEF IInv, Sorting, Completed
  <2>3. QED
    BY <2>1, <2>2 DEF SortedAfterBs, Descending, Permutes, Elements
<1>2. QED
  BY Invariance, <1>1, PTL

\* Every call that returns has counted the same, whatever RAM held.
THEOREM ResultIsTheSame == AppSpec => []SameResult
<1>1. DhryIInv => SameResult
  BY DEF DhryIInv, Run, SameResult
<1>2. QED
  BY DhryInvariance, <1>1, PTL

\* The pointers of Proc1 are records of feld, the indices those of the arrays.
THEOREM AccessesInBounds == AppSpec => []InBounds
<1>1. DhryIInv => InBounds
  BY DEF DhryIInv, DhryTypes, Run, InBounds, NextRecord, Rec, RecordType, Feld, Late, After1, After8,
         AfterWhile, AfterFunc2, After4, After5, AfterFill
<1>2. QED
  BY DhryInvariance, <1>1, PTL

\* OneToFifty is what its name says.
THEOREM SubrangesAreKept == AppSpec => []SubrangesHold
<1>1. DhryIInv => SubrangesHold
  BY DEF DhryIInv, DhryTypes, Run, SubrangesHold, OneToFifty, NextRecord, Rec, RecordType, Feld, Late,
         After1, After8, AfterWhile, AfterFunc2, After4, After5, AfterFill
<1>2. QED
  BY DhryInvariance, <1>1, PTL
=============================================================================
