-------------------------- MODULE MemLoaderProofs --------------------------
(***************************************************************************)
(* mem_loader stores nothing beyond a window, keeps the order of the       *)
(* windows, and exits with 0 only when they hold what it was given; and a  *)
(* dump is the window: for windows and files of any size, whatever fails.  *)
(***************************************************************************)
EXTENDS MemLoader, SequenceTheorems, TLAPS

Content == {Old, Zero} \cup (Windows \X (1 .. Window))
Active == {"map", "read", "store"}

Types ==
  /\ mem \in [Windows -> [1 .. Window -> Content]]
  /\ before \in [Windows -> [1 .. Window -> Content]]
  /\ size \in [Windows -> Sizes] /\ taken \in [Windows -> Int]
  /\ pc \in Active \cup {"idle", "exit0", "exit1"}
  /\ window \in Windows /\ fileSize \in Nat /\ i \in Nat /\ buffer \in Seq(Content)
  /\ copy \in Seq(Content) /\ dump \in Seq(Content)

\* The buffer is as long as the padded file, which fits; calloc has cleared it, and
\* after fread it holds the file.
Sized == Fits(fileSize) /\ 4 * Len(buffer) = Padded(fileSize)
Buffered ==
  /\ pc = "read" => Sized /\ \A k \in 1 .. Len(buffer) : buffer[k] = Zero
  /\ pc = "store" =>
       Sized /\ \A k \in 1 .. Len(buffer) :
                  buffer[k] = IF 4 * k <= fileSize THEN <<window, k>> ELSE Zero

\* How far the windows are loaded.
Progress ==
  /\ pc \in {"map", "read"} => mem[window] = before[window]
  /\ pc = "store" =>
       /\ i <= Len(buffer)
       /\ \A k \in 1 .. Window :
            mem[window][k] = IF k <= i THEN buffer[k] ELSE before[window][k]
  /\ pc \in Active /\ window = "ITCM" => mem["BRAM"] = before["BRAM"]
  /\ pc \in Active /\ window = "BRAM" => Holds("ITCM")

\* What mem_dump has read and written.
Copied(s) == Len(s) <= Window /\ \A k \in 1 .. Len(s) : s[k] = mem["ITCM"][k]
Dumped == clean = TRUE => Copied(copy) /\ Copied(dump)

IInv == Types /\ Buffered /\ Progress /\ ExitMeansLoaded /\ Dumped
-----------------------------------------------------------------------------
(***************************************************************************)
(* Sizes, and what fread leaves in the buffer.                             *)
(***************************************************************************)
\* A size in words is padded to an even number of words.
LEMMA PaddedSize ==
  ASSUME NEW b \in Nat, b % 4 = 0
  PROVE  /\ Padded(b) \in Nat /\ Padded(b) >= b
         /\ Padded(b) \div 4 \in Nat /\ 4 * (Padded(b) \div 4) = Padded(b)
  BY SMT DEF Padded

\* The buffer b after n words have been read from the file of window w.
Filled(w, b, n) == Words(w, 4 * n) \o SubSeq(b, n + 1, Len(b))

\* What has been read is followed by the zeros of calloc.
LEMMA ReadBuffer ==
  ASSUME NEW w \in Windows, NEW b \in Seq(Content), NEW n \in Nat, n <= Len(b), n <= Window,
         \A k \in 1 .. Len(b) : b[k] = Zero
  PROVE  /\ Filled(w, b, n) \in Seq(Content) /\ Len(Filled(w, b, n)) = Len(b)
         /\ \A k \in 1 .. Len(b) : Filled(w, b, n)[k] = IF k <= n THEN <<w, k>> ELSE Zero
<1> DEFINE v == Words(w, 4 * n)
           z == SubSeq(b, n + 1, Len(b))
<1>1. (4 * n) \div 4 = n /\ Window \in Nat
  BY LoaderAssumption, SMT
<1>2. v = [k \in 1 .. n |-> <<w, k>>]
  BY <1>1 DEF Words
<1>3. \A k \in 1 .. n : <<w, k>> \in Content
  BY <1>1 DEF Content
<1>4. v \in Seq(Content) /\ Len(v) = n /\ \A k \in 1 .. n : v[k] = <<w, k>>
  <2>1. v \in [1 .. n -> Content]
    BY <1>2, <1>3
  <2>2. QED
    BY <1>2, <2>1
<1>5. z \in Seq(Content) /\ Len(z) = Len(b) - n /\ \A k \in 1 .. Len(b) - n : z[k] = b[n + k]
  <2>1. n + 1 \in 1 .. Len(b) + 1 /\ Len(b) \in n .. Len(b) /\ Len(b) \in Nat
    OBVIOUS
  <2>2. CASE n = Len(b)
    BY <2>1, <2>2
  <2>3. CASE n < Len(b)
    BY <2>1, <2>3
  <2>4. QED
    BY <2>1, <2>2, <2>3
<1> HIDE DEF v, z
<1>6. /\ v \o z \in Seq(Content) /\ Len(v \o z) = Len(v) + Len(z)
      /\ \A k \in 1 .. Len(v) + Len(z) :
           (v \o z)[k] = IF k <= Len(v) THEN v[k] ELSE z[k - Len(v)]
  BY <1>4, <1>5, ConcatProperties
<1>7. Len(v \o z) = Len(b)
  BY <1>4, <1>5, <1>6
<1>8. ASSUME NEW k \in 1 .. Len(b) PROVE (v \o z)[k] = IF k <= n THEN <<w, k>> ELSE Zero
  <2>1. CASE k <= n
    BY <1>4, <1>5, <1>6, <2>1
  <2>2. CASE k > n
    <3>1. (v \o z)[k] = z[k - n] /\ k - n \in 1 .. Len(b) - n
      BY <1>4, <1>5, <1>6, <2>2
    <3>2. z[k - n] = b[n + (k - n)] /\ n + (k - n) = k
      BY <1>5, <3>1
    <3>3. QED
      BY <2>2, <3>1, <3>2
  <2>3. k <= n \/ k > n
    OBVIOUS
  <2>4. QED
    BY <2>1, <2>2, <2>3
<1>9. QED
  BY <1>6, <1>7, <1>8 DEF v, z, Filled
-----------------------------------------------------------------------------
(***************************************************************************)
(* Types and the buffer.                                                   *)
(***************************************************************************)
\* Every step keeps the types, and the buffer as it must be; a store is in the window.
LEMMA TypesStep ==
  Types /\ Buffered /\ Progress /\ [Next]_vars => Types' /\ Buffered'
<1> SUFFICES ASSUME Types, Buffered, Progress, [Next]_vars PROVE Types' /\ Buffered'
  OBVIOUS
<1>0. Old \in Content /\ Zero \in Content /\ Sizes \subseteq Nat /\ Window \in Nat
  BY LoaderAssumption DEF Content
<1>1. CASE Main
  BY <1>1 DEF Main, dumper, Types, Buffered, Active, Windows, Nothing
<1>2. CASE Refuse
  BY <1>2 DEF Refuse, dumper, run, load, Types, Buffered
<1>3. CASE Measure
  <2>1. fileSize' = size[window] /\ fileSize' \in Nat
    BY <1>0, <1>3 DEF Measure, Types
  <2>2. UNCHANGED <<mem, size, dumper, run, window, i, taken>>
    BY <1>3 DEF Measure
  <2>3. CASE /\ Fits(fileSize') /\ pc' = "read"
             /\ buffer' = [k \in 1 .. Padded(fileSize') \div 4 |-> Zero]
    <3>1. PICK n \in Nat : n = Padded(fileSize') \div 4 /\ 4 * n = Padded(fileSize')
      BY <2>1, <2>3, PaddedSize DEF Fits
    <3>2. buffer' = [k \in 1 .. n |-> Zero]
      BY <2>3, <3>1
    <3>3. buffer' \in Seq(Content) /\ Len(buffer') = n /\ \A k \in 1 .. n : buffer'[k] = Zero
      BY <1>0, <3>2
    <3>4. Types'
      BY <2>1, <2>2, <2>3, <3>3 DEF dumper, run, Types, Active
    <3>5. Sized'
      BY <2>3, <3>1, <3>3 DEF Sized, Fits, Padded
    <3>6. QED
      BY <2>3, <3>3, <3>4, <3>5 DEF Buffered
  <2>4. CASE pc' = "exit1" /\ UNCHANGED buffer
    BY <2>1, <2>2, <2>4 DEF dumper, run, Types, Buffered
  <2>5. QED
    BY <1>3, <2>3, <2>4 DEF Measure
<1>4. CASE Read
  <2>1. PICK n \in 0 .. fileSize \div 4 :
          buffer' = Filled(window, buffer, n) /\ pc' = IF 4 * n = fileSize THEN "store" ELSE "exit1"
    BY <1>4 DEF Read, Filled
  <2>2. /\ Sized /\ \A k \in 1 .. Len(buffer) : buffer[k] = Zero
        /\ UNCHANGED <<mem, size, dumper, run, window, fileSize, taken>> /\ i' = 0
    BY <1>4 DEF Read, Buffered
  <2>3. /\ n \in Nat /\ 4 * n <= fileSize /\ Padded(fileSize) >= fileSize
        /\ Padded(fileSize) <= 4 * Window
    <3>1. fileSize \in Nat /\ fileSize % 4 = 0 /\ Padded(fileSize) <= 4 * Window
      BY <2>2 DEF Sized, Fits, Types
    <3>2. n \in Nat /\ 4 * n <= fileSize
      BY <3>1, SMT
    <3>3. QED
      BY <3>1, <3>2, PaddedSize
  <2>4. n <= Len(buffer) /\ n <= Window /\ Len(buffer) \in Nat
    BY <2>2, <2>3, <1>0, SMT DEF Sized, Types
  <2>5. /\ buffer' \in Seq(Content) /\ Len(buffer') = Len(buffer)
        /\ \A k \in 1 .. Len(buffer) : buffer'[k] = IF k <= n THEN <<window, k>> ELSE Zero
    <3>1. window \in Windows /\ buffer \in Seq(Content)
      BY DEF Types
    <3>2. \A k \in 1 .. Len(buffer) : buffer[k] = Zero
      BY <2>2
    <3>3. n \in Nat
      BY <2>1
    <3>4. QED
      BY <2>1, <2>4, <3>1, <3>2, <3>3, ReadBuffer
  <2>6. Types'
    BY <2>1, <2>2, <2>5 DEF Types, dumper, run, Active
  <2>7. Sized'
    BY <2>2, <2>5 DEF Sized, Fits, Padded
  <2>8. ASSUME pc' = "store"
        PROVE  \A k \in 1 .. Len(buffer') :
                 buffer'[k] = IF 4 * k <= fileSize' THEN <<window', k>> ELSE Zero
    <3>1. 4 * n = fileSize
      BY <2>1, <2>8
    <3>2. \A k \in 1 .. Len(buffer) : k <= n <=> 4 * k <= fileSize
      BY <2>3, <2>4, <3>1, SMT
    <3>3. QED
      BY <2>2, <2>5, <3>2
  <2>9. QED
    BY <2>1, <2>6, <2>7, <2>8 DEF Buffered
<1>5. CASE Store
  <2>1. /\ pc = "store" /\ Sized /\ i < Len(buffer) /\ i' = i + 1
        /\ UNCHANGED <<size, run, pc, window, fileSize, buffer, taken, dpc, copy, dump, dumps>>
        /\ mem' = [mem EXCEPT ![window][i + 1] = buffer[i + 1]]
    BY <1>5 DEF Store, Buffered
  <2>2. Len(buffer) <= Window /\ i + 1 \in 1 .. Len(buffer) /\ i + 1 \in 1 .. Window /\ i' \in Nat
    BY <2>1, <1>0, SMT DEF Types, Sized, Fits
  <2>3. buffer[i + 1] \in Content
    BY <2>2, ElementOfSeq DEF Types
  <2>4. mem' \in [Windows -> [1 .. Window -> Content]]
    <3>1. [mem[window] EXCEPT ![i + 1] = buffer[i + 1]] \in [1 .. Window -> Content]
      BY <2>2, <2>3 DEF Types
    <3>2. QED
      BY <2>1, <3>1 DEF Types
  <2>5. Types'
    BY <2>1, <2>2, <2>4 DEF Types, run
  <2>6. QED
    BY <2>1, <2>5 DEF Buffered, Sized, Fits, Padded
<1>6. CASE Loaded
  <2>1. window' \in Windows /\ pc' \in {"map", "exit0"} /\ taken' = [taken EXCEPT ![window] = fileSize]
        /\ UNCHANGED <<mem, size, dumper, run, fileSize, buffer, i>>
    BY <1>6 DEF Loaded, Types, Windows
  <2>2. taken' \in [Windows -> Int]
    BY <2>1 DEF Types
  <2>3. QED
    BY <2>1, <2>2 DEF Types, Buffered, dumper, run, Active
<1>7. CASE Exit
  BY <1>7 DEF Exit, dumper, run, load, Types, Buffered
<1>8. CASE Kill
  BY <1>8 DEF Kill, dumper, run, load, Types, Buffered
<1>9. CASE Grow
  BY <1>9 DEF Grow, loader, load, run, dumper, Types, Buffered, Sized, Fits, Padded
<1>10. CASE DumpStart
  BY <1>10 DEF DumpStart, loader, load, run, Types, Buffered, Sized, Fits, Padded
<1>11. CASE DumpCopy
  <2>1. mem["ITCM"][Len(copy) + 1] \in Content
    <3>1. Len(copy) + 1 \in 1 .. Window
      BY <1>0, <1>11 DEF DumpCopy, Types
    <3>2. QED
      BY <3>1 DEF Types, Windows
  <2>2. copy' \in Seq(Content)
    BY <1>11, <2>1, AppendProperties DEF DumpCopy, Types
  <2>3. QED
    BY <1>11, <2>2 DEF DumpCopy, loader, load, run, Types, Buffered, Sized, Fits, Padded
<1>12. CASE DumpWrite
  <2>1. PICK n \in 0 .. Window : dump' = SubSeq(copy, 1, n)
    BY <1>12 DEF DumpWrite
  <2>2. \A k \in 1 .. n : copy[k] \in Content
    BY <1>0, <1>12, ElementOfSeq DEF DumpWrite, Types
  <2>3. dump' \in Seq(Content) /\ copy' \in Seq(Content)
    BY <1>0, <1>12, <2>1, <2>2, SubSeqProperties DEF DumpWrite
  <2>4. QED
    BY <1>12, <2>3 DEF DumpWrite, loader, load, run, Types, Buffered, Sized, Fits, Padded
<1>13. CASE UNCHANGED vars
  BY <1>13 DEF vars, loader, load, run, dumper, Types, Buffered, Sized, Fits, Padded
<1>14. QED
  BY <1>1, <1>2, <1>3, <1>4, <1>5, <1>6, <1>7, <1>8, <1>9, <1>10, <1>11, <1>12, <1>13 DEF Next
-----------------------------------------------------------------------------
(***************************************************************************)
(* What the windows hold.                                                  *)
(***************************************************************************)
\* A window that is complete stays so while it is not written.
LEMMA HoldsKept ==
  ASSUME NEW w \in Windows, Holds(w), mem'[w] = mem[w], before' = before, taken'[w] = taken[w]
  PROVE  Holds(w)'
  BY DEF Holds, Padded

\* When the last word has been stored, the window is complete.
LEMMA LoadedHolds ==
  ASSUME Types, Buffered, Progress, Loaded, NEW w \in Windows, w = window
  PROVE  Holds(w)'
<1>1. /\ Sized /\ i = Len(buffer) /\ taken' = [taken EXCEPT ![window] = fileSize]
      /\ mem' = mem /\ before' = before
      /\ \A k \in 1 .. Len(buffer) : buffer[k] = IF 4 * k <= fileSize THEN <<window, k>> ELSE Zero
      /\ \A k \in 1 .. Window :
            mem[window][k] = IF k <= i THEN buffer[k] ELSE before[window][k]
  BY DEF Loaded, Buffered, Progress, run
<1>2. fileSize \in Nat /\ Len(buffer) \in Nat /\ Window \in Nat /\ 4 * Len(buffer) = Padded(fileSize)
      /\ fileSize <= Padded(fileSize)
  BY <1>1, PaddedSize, LoaderAssumption DEF Types, Sized, Fits
<1>3. taken'[window] = fileSize /\ fileSize # Nothing
  BY <1>1, <1>2 DEF Types, Nothing
<1>4. ASSUME NEW k \in 1 .. Window
      PROVE  mem[window][k] = IF 4 * k <= fileSize THEN <<window, k>>
                              ELSE IF 4 * k <= Padded(fileSize) THEN Zero ELSE before[window][k]
  <2>1. CASE k <= Len(buffer)
    <3>1. 4 * k <= Padded(fileSize)
      BY <1>2, <2>1
    <3>2. QED
      BY <1>1, <1>2, <2>1, <3>1
  <2>2. CASE ~(k <= Len(buffer))
    <3>1. ~(4 * k <= Padded(fileSize)) /\ ~(4 * k <= fileSize)
      BY <1>2, <2>2
    <3>2. QED
      BY <1>1, <2>2, <3>1
  <2>3. QED
    BY <2>1, <2>2
<1>5. /\ (taken')[w] # Nothing
      /\ \A k \in 1 .. Window :
           (mem')[w][k] = IF 4 * k <= (taken')[w] THEN <<w, k>>
                   ELSE IF 4 * k <= Padded((taken')[w]) THEN Zero ELSE (before')[w][k]
  BY <1>1, <1>3, <1>4
<1>6. QED
  BY <1>5 DEF Holds, Padded

\* Every step loads the windows on, in their order.
LEMMA ProgressStep ==
  Types /\ Buffered /\ Progress /\ ExitMeansLoaded /\ [Next]_vars => Progress' /\ ExitMeansLoaded'
<1> SUFFICES ASSUME Types, Buffered, Progress, ExitMeansLoaded, [Next]_vars
             PROVE  Progress' /\ ExitMeansLoaded'
  OBVIOUS
<1> USE DEF ExitMeansLoaded
<1>0. "ITCM" \in Windows /\ "BRAM" \in Windows
  BY DEF Windows
<1>1. CASE Main
  BY <1>1 DEF Main, Progress, Active
<1>2. CASE Refuse \/ Exit \/ Kill
  BY <1>2 DEF Refuse, Exit, Kill, Progress, Active
<1>3. CASE Measure
  <2>1. /\ pc = "map" /\ pc' \in {"read", "exit1"} /\ mem' = mem /\ before' = before
        /\ window' = window /\ taken' = taken
    BY <1>3 DEF Measure, run
  <2>2. QED
    BY <1>0, <2>1, HoldsKept DEF Progress, Active
<1>4. CASE Read
  <2>1. /\ pc = "read" /\ pc' \in {"store", "exit1"} /\ mem' = mem /\ before' = before
        /\ window' = window /\ taken' = taken /\ i' = 0
    BY <1>4 DEF Read, run
  <2>2. pc' = "store" => i' <= Len(buffer')
    <3>1. pc' = "store" => Len(buffer') \in Nat
      BY <1>4, TypesStep DEF Types
    <3>2. QED
      BY <2>1, <3>1
  <2>3. \A k \in 1 .. Window : mem'[window'][k] = IF k <= i' THEN buffer'[k] ELSE before'[window'][k]
    <3>1. \A k \in 1 .. Window : ~(k <= 0)
      BY LoaderAssumption
    <3>2. QED
      BY <2>1, <3>1 DEF Progress
  <2>4. QED
    BY <1>0, <2>1, <2>2, <2>3, HoldsKept DEF Progress, Active
<1>5. CASE Store
  <2>1. /\ pc = "store" /\ pc' = "store" /\ i < Len(buffer) /\ i' = i + 1
        /\ buffer' = buffer /\ window' = window /\ before' = before /\ taken' = taken
        /\ mem' = [mem EXCEPT ![window][i + 1] = buffer[i + 1]]
    BY <1>5 DEF Store, run
  <2>2. i \in Nat /\ Len(buffer) \in Nat /\ window \in Windows /\ Window \in Nat
    BY LoaderAssumption DEF Types
  <2>3. /\ mem'[window] = [mem[window] EXCEPT ![i + 1] = buffer[i + 1]]
        /\ \A w \in Windows : w # window => mem'[w] = mem[w]
    BY <2>1 DEF Types
  <2>4. ASSUME NEW k \in 1 .. Window
        PROVE  mem'[window][k] = IF k <= i' THEN buffer[k] ELSE before[window][k]
    <3>1. DOMAIN mem[window] = 1 .. Window
      BY <2>2 DEF Types
    <3>2. mem'[window][k] = IF k = i + 1 THEN buffer[k] ELSE mem[window][k]
      BY <2>3, <3>1
    <3>3. mem[window][k] = IF k <= i THEN buffer[k] ELSE before[window][k]
      BY <2>1 DEF Progress
    <3>4. k <= i' <=> k = i + 1 \/ k <= i
      BY <2>1, <2>2
    <3>5. QED
      BY <3>2, <3>3, <3>4
  <2>5. QED
    BY <1>0, <2>1, <2>2, <2>3, <2>4, HoldsKept DEF Progress, Active
<1>6. CASE Loaded
  <2>1. /\ pc = "store" /\ mem' = mem /\ before' = before /\ both' = both
        /\ taken' = [taken EXCEPT ![window] = fileSize]
    BY <1>6 DEF Loaded, run
  <2>2. window \in Windows /\ \A w \in Windows : w = window => Holds(w)'
    BY <1>6, LoadedHolds DEF Types
  <2>3. CASE window = "ITCM"
    <3>1. Holds("ITCM")' /\ mem["BRAM"] = before["BRAM"]
      BY <1>0, <2>1, <2>2, <2>3 DEF Progress, Active
    <3>2. QED
      BY <1>6, <2>1, <2>3, <3>1 DEF Loaded, Progress, Active
  <2>4. CASE window = "BRAM"
    <3>1. Holds("ITCM") /\ taken'["ITCM"] = taken["ITCM"]
      BY <1>0, <2>1, <2>4 DEF Progress, Active, Types
    <3>2. Holds("ITCM")' /\ Holds("BRAM")'
      BY <1>0, <2>1, <2>2, <2>4, <3>1, HoldsKept
    <3>3. pc' = "exit0"
      BY <1>6, <2>4 DEF Loaded
    <3>4. QED
      BY <3>2, <3>3 DEF Progress, Active
  <2>5. QED
    BY <2>2, <2>3, <2>4 DEF Windows
<1>7. CASE Grow \/ DumpStart \/ DumpCopy \/ DumpWrite \/ UNCHANGED vars
  <2>1. UNCHANGED <<mem, pc, window, fileSize, buffer, i, both, before, taken>>
    BY <1>7 DEF Grow, DumpStart, DumpCopy, DumpWrite, vars, loader, load, run
  <2>2. \A w \in Windows : Holds(w) => Holds(w)'
    BY <2>1, HoldsKept
  <2>3. QED
    BY <1>0, <2>1, <2>2 DEF Progress, Active
<1>8. QED
  BY <1>1, <1>2, <1>3, <1>4, <1>5, <1>6, <1>7 DEF Next

\* While the ITCM is left alone the dump agrees with it.
LEMMA DumpedStep == Types /\ Dumped /\ [Next]_vars => Dumped'
<1> SUFFICES ASSUME Types, Dumped, [Next]_vars PROVE Dumped'
  OBVIOUS
<1>1. CASE Store
  <2>1. UNCHANGED <<copy, dump>> /\ clean' = (clean /\ window # "ITCM")
        /\ mem' = [mem EXCEPT ![window][i + 1] = buffer[i + 1]]
    BY <1>1 DEF Store
  <2>2. CASE window = "ITCM"
    <3>1. clean' = FALSE
      BY <2>1, <2>2
    <3>2. QED
      BY <3>1 DEF Dumped
  <2>3. CASE window # "ITCM"
    <3>1. mem'["ITCM"] = mem["ITCM"]
      BY <2>1, <2>3 DEF Types, Windows
    <3>2. clean' = TRUE => clean = TRUE
      BY <2>1, Zenon
    <3>3. QED
      BY <2>1, <3>1, <3>2 DEF Dumped, Copied
  <2>4. QED
    BY <2>2, <2>3
<1>2. CASE DumpStart
  <2>1. copy' = <<>> /\ dump' = <<>> /\ Window \in Nat
    BY <1>2, LoaderAssumption DEF DumpStart
  <2>2. QED
    BY <2>1 DEF Dumped, Copied
<1>3. CASE DumpCopy
  <2>1. /\ Len(copy) < Window /\ copy' = Append(copy, mem["ITCM"][Len(copy) + 1])
        /\ UNCHANGED <<mem, clean, dump>>
    BY <1>3 DEF DumpCopy, dumper
  <2>2. mem["ITCM"][Len(copy) + 1] \in Content /\ Len(copy) \in Nat /\ Window \in Nat
    <3>1. Len(copy) \in Nat /\ Len(copy) + 1 \in 1 .. Window /\ Window \in Nat
      BY <2>1, LoaderAssumption DEF Types
    <3>2. QED
      BY <3>1 DEF Types, Windows
  <2>3. /\ Len(copy') = Len(copy) + 1 /\ copy'[Len(copy) + 1] = mem["ITCM"][Len(copy) + 1]
        /\ \A k \in 1 .. Len(copy) : copy'[k] = copy[k]
    BY <2>1, <2>2, AppendProperties DEF Types
  <2>4. Copied(copy) => Copied(copy)'
    <3> SUFFICES ASSUME Copied(copy), NEW k \in 1 .. Len(copy) + 1
                 PROVE  Len(copy') <= Window /\ copy'[k] = mem["ITCM"][k]
      BY <2>1, <2>3 DEF Copied
    <3>1. k \in 1 .. Len(copy) \/ k = Len(copy) + 1
      BY <2>2
    <3>2. QED
      BY <2>1, <2>2, <2>3, <3>1 DEF Copied
  <2>5. QED
    BY <2>1, <2>4 DEF Dumped, Copied
<1>4. CASE DumpWrite
  <2>1. PICK n \in 0 .. Window : dump' = SubSeq(copy, 1, n)
    BY <1>4 DEF DumpWrite
  <2>2. Len(copy) = Window /\ copy' = <<>> /\ mem' = mem /\ clean' = clean /\ Window \in Nat
    BY <1>4, LoaderAssumption DEF DumpWrite
  <2>3. n \in Nat /\ n <= Window /\ \A k \in 1 .. n : copy[k] \in Content
    BY <2>2, ElementOfSeq DEF Types
  <2>4. Len(dump') = n /\ \A k \in 1 .. n : dump'[k] = copy[k]
    <3>1. Len(SubSeq(copy, 1, n)) = n /\ \A k \in 1 .. n : SubSeq(copy, 1, n)[k] = copy[k]
      BY <2>2, <2>3 DEF Types
    <3>2. QED
      BY <2>1, <3>1
  <2>5. Copied(copy) => Copied(dump)'
    BY <2>2, <2>3, <2>4 DEF Copied
  <2>6. Copied(copy)'
    BY <2>2 DEF Copied
  <2>7. QED
    BY <2>2, <2>5, <2>6 DEF Dumped
<1>5. CASE Main \/ Refuse \/ Measure \/ Read \/ Loaded \/ Exit \/ Kill \/ Grow \/ UNCHANGED vars
  <2>1. UNCHANGED <<mem, clean, copy, dump>>
    BY <1>5 DEF Main, Refuse, Measure, Read, Loaded, Exit, Kill, Grow, vars, dumper
  <2>2. QED
    BY <2>1 DEF Dumped, Copied
<1>6. QED
  BY <1>1, <1>2, <1>3, <1>4, <1>5 DEF Next
-----------------------------------------------------------------------------
(***************************************************************************)
(* The theorems.                                                           *)
(***************************************************************************)
\* Every reachable state has the facts above.
THEOREM Invariance == Spec => []IInv
<1>1. Init => IInv
  <2> SUFFICES ASSUME Init PROVE IInv
    OBVIOUS
  <2>1. Types
    <3>1. Old \in Content /\ Sizes \subseteq Nat
      BY LoaderAssumption DEF Content
    <3>2. mem \in [Windows -> [1 .. Window -> Content]]
      BY <3>1 DEF Init
    <3>3. size \in [Windows -> Sizes] /\ taken \in [Windows -> Int]
      BY DEF Init, Nothing
    <3>4. QED
      BY <3>2, <3>3 DEF Init, Types, Windows
  <2>2. Buffered /\ Progress /\ ExitMeansLoaded
    BY DEF Init, Buffered, Progress, ExitMeansLoaded, Active
  <2>3. Dumped
    BY LoaderAssumption DEF Init, Dumped, Copied
  <2>4. QED
    BY <2>1, <2>2, <2>3 DEF IInv
<1>2. IInv /\ [Next]_vars => IInv'
  BY TypesStep, ProgressStep, DumpedStep DEF IInv
<1>3. QED
  BY <1>1, <1>2, PTL DEF Spec

\* No store of mem_loader goes beyond its window.
THEOREM StoresInWindow == Spec => [](pc = "store" /\ i < Len(buffer) => i < Window)
<1>1. IInv => (pc = "store" /\ i < Len(buffer) => i < Window)
  BY LoaderAssumption DEF IInv, Types, Buffered, Sized, Fits
<1>2. QED
  BY Invariance, <1>1, PTL

\* An exit with 0 means that the windows hold their files.
THEOREM ExitIsTrue == Spec => []ExitMeansLoaded
<1>1. IInv => ExitMeansLoaded
  BY DEF IInv
<1>2. QED
  BY Invariance, <1>1, PTL

\* The BRAM is not touched before the ITCM is complete.
THEOREM OrderOfWindows == Spec => BramAfterItcm
<1>1. IInv /\ [Next]_vars => [mem'["BRAM"] # mem["BRAM"] => Holds("ITCM")]_vars
  <2> SUFFICES ASSUME IInv, Next, mem'["BRAM"] # mem["BRAM"] PROVE Holds("ITCM")
    OBVIOUS
  <2>1. Store
    BY DEF Next, Main, Refuse, Measure, Read, Loaded, Exit, Kill, Grow,
           DumpStart, DumpCopy, DumpWrite
  <2>2. window = "BRAM"
    BY <2>1 DEF Store, IInv, Types, Windows
  <2>3. QED
    BY <2>1, <2>2 DEF Store, IInv, Progress, Active
<1>2. QED
  BY Invariance, <1>1, PTL DEF Spec, BramAfterItcm

\* What mem_dump writes while the ITCM is left alone is the ITCM.
THEOREM DumpIsTrue == Spec => []DumpIsWindow
<1>1. ASSUME IInv, clean, NEW s \in Seq(Content), Copied(s) PROVE IsPrefix(s, mem["ITCM"])
  <2>1. /\ mem["ITCM"] \in [1 .. Window -> Content] /\ Window \in Nat
        /\ Len(s) \in Nat /\ Len(s) <= Window /\ \A k \in 1 .. Len(s) : s[k] = mem["ITCM"][k]
    <3>1. "ITCM" \in Windows /\ mem \in [Windows -> [1 .. Window -> Content]]
      BY <1>1 DEF IInv, Types, Windows
    <3>2. Len(s) <= Window /\ \A k \in 1 .. Len(s) : s[k] = mem["ITCM"][k]
      BY <1>1 DEF Copied
    <3>3. QED
      BY <3>1, <3>2, LoaderAssumption
  <2>2. mem["ITCM"] \in Seq(Content) /\ Len(mem["ITCM"]) = Window
    BY <2>1
  <2>3. SubSeq(s, 1, Len(s)) = SubSeq(mem["ITCM"], 1, Len(s))
    BY <2>1, <2>2
  <2>4. QED
    BY <2>1, <2>2, <2>3 DEF IsPrefix
<1>2. IInv => DumpIsWindow
  <2> SUFFICES ASSUME IInv, clean
               PROVE  IsPrefix(dump, mem["ITCM"]) /\ IsPrefix(copy, mem["ITCM"])
    BY DEF DumpIsWindow
  <2>1. Copied(copy) /\ Copied(dump) /\ copy \in Seq(Content) /\ dump \in Seq(Content)
    BY DEF IInv, Dumped, Types
  <2>2. QED
    BY <1>1, <2>1
<1>3. QED
  BY Invariance, <1>2, PTL
=============================================================================
