----------------------------- MODULE MemLoader -----------------------------
(***************************************************************************)
(* mem_loader: main and load_file_to_window, once for the ITCM and, if a   *)
(* second file is given, once for the BRAM; and mem_dump, which may run at *)
(* the same time.  Every call to the system may fail, mem_loader may be    *)
(* killed between two stores and run again, and the files may still grow   *)
(* while it runs (the images are copied to the board).                     *)
(*                                                                         *)
(* The word at position k of the image for window w is <<w, k>>, in every  *)
(* build of it: what a file holds is told by its size alone.               *)
(***************************************************************************)
EXTENDS Integers, Sequences, SequencesExt

CONSTANTS
  Window,        \* words of a window
  Sizes,         \* sizes a file can have, in bytes
  MaxRuns,       \* bound: how often mem_loader is run, and mem_dump
  MaxDumps,
  Old, Zero      \* words: what a window held before, and padding

ASSUME LoaderAssumption ==
  /\ Window \in Nat /\ Window > 0 /\ Window % 2 = 0
  /\ Sizes \subseteq Nat
  /\ {MaxRuns, MaxDumps} \subseteq Nat

Nothing == -1
Windows == {"ITCM", "BRAM"}

VARIABLES
  mem,           \* the windows
  size,          \* sizes of the files
  pc,
  both,          \* argc = 3
  window,        \* the window under way
  fileSize,      \* fileSize
  buffer,        \* fileBuffer
  i,             \* i
  before,        \* history: the windows when the tool was started
  taken,         \* history: bytes of the files this run has loaded, or Nothing
  runs,
  dpc,           \* of mem_dump
  copy,          \* the words of its buffer it has read
  dump,          \* itcm-dump.bin
  clean,         \* history: the ITCM is as it was when mem_dump was started
  dumps

load == <<window, fileSize, buffer, i>>
run == <<both, before, runs>>
loader == <<pc, load, run, taken>>
dumper == <<dpc, copy, dump, clean, dumps>>
vars == <<mem, size, loader, dumper>>
-----------------------------------------------------------------------------
Words(w, bytes) == [k \in 1 .. bytes \div 4 |-> <<w, k>>]

Padded(bytes) == IF bytes % 8 = 0 THEN bytes ELSE bytes + 8 - (bytes % 8)

Fits(bytes) == bytes % 4 = 0 /\ Padded(bytes) <= 4 * Window

\* main: the arguments, and the opening of /dev/mem.
Main ==
  /\ pc = "idle" /\ runs < MaxRuns
  /\ runs' = runs + 1 /\ before' = mem /\ taken' = [w \in Windows |-> Nothing]
  /\ both' \in BOOLEAN /\ window' = "ITCM"
  /\ pc' \in {"map", "exit1"}
  /\ UNCHANGED <<mem, size, dumper, fileSize, buffer, i>>

\* Mutant of the next definition: main does not look at what the call returned.
RefuseGoesOn ==
  /\ pc = "map"
  /\ IF window = "ITCM" /\ both
     THEN window' = "BRAM" /\ UNCHANGED pc ELSE pc' = "exit1" /\ UNCHANGED window
  /\ UNCHANGED <<mem, size, dumper, run, fileSize, buffer, i, taken>>

\* An ELF file, or mmap, fopen or fseek fail.
Refuse ==
  /\ pc = "map" /\ pc' = "exit1"
  /\ UNCHANGED <<mem, size, dumper, run, load, taken>>

\* ftell, the checks of the size, and calloc: the buffer is zeroed.
Measure ==
  /\ pc = "map"
  /\ fileSize' = size[window]
  /\ \/ Fits(fileSize') /\ pc' = "read"
          /\ buffer' = [k \in 1 .. Padded(fileSize') \div 4 |-> Zero]
     \/ pc' = "exit1" /\ UNCHANGED buffer
  /\ UNCHANGED <<mem, size, dumper, run, window, i, taken>>

\* Mutant of the next definition: what fread returns is not compared.
ReadUnchecked ==
  /\ pc = "read"
  /\ \E n \in 0 .. fileSize \div 4 :
       /\ buffer' = Words(window, 4 * n) \o SubSeq(buffer, n + 1, Len(buffer))
       /\ pc' = "store" /\ i' = 0
  /\ UNCHANGED <<mem, size, dumper, run, window, fileSize, taken>>

\* fread: a short one is refused.
Read ==
  /\ pc = "read"
  /\ \E n \in 0 .. fileSize \div 4 :
       /\ buffer' = Words(window, 4 * n) \o SubSeq(buffer, n + 1, Len(buffer))
       /\ pc' = IF 4 * n = fileSize THEN "store" ELSE "exit1"
       /\ i' = 0
  /\ UNCHANGED <<mem, size, dumper, run, window, fileSize, taken>>

\* One store; after the last one main goes on to the next window.
Store ==
  /\ pc = "store" /\ i < Len(buffer)
  /\ mem' = [mem EXCEPT ![window][i + 1] = buffer[i + 1]]
  /\ i' = i + 1
  /\ clean' = (clean /\ window # "ITCM")
  /\ UNCHANGED <<size, run, pc, window, fileSize, buffer, taken, dpc, copy, dump, dumps>>

Loaded ==
  /\ pc = "store" /\ i = Len(buffer)
  /\ taken' = [taken EXCEPT ![window] = fileSize]
  /\ IF window = "ITCM" /\ both
     THEN window' = "BRAM" /\ pc' = "map" ELSE pc' = "exit0" /\ UNCHANGED window
  /\ UNCHANGED <<mem, size, dumper, run, fileSize, buffer, i>>

Exit ==
  /\ pc \in {"exit0", "exit1"} /\ pc' = "idle"
  /\ UNCHANGED <<mem, size, dumper, run, load, taken>>

\* The tool is killed; the windows keep what they have.
Kill ==
  /\ pc \in {"map", "read", "store"} /\ pc' = "idle"
  /\ UNCHANGED <<mem, size, dumper, run, load, taken>>

\* More of an image arrives.
Grow ==
  /\ \E w \in Windows, s \in Sizes :
       s > size[w] /\ size' = [size EXCEPT ![w] = s]
  /\ UNCHANGED <<mem, loader, dumper>>
-----------------------------------------------------------------------------
(***************************************************************************)
(* mem_dump.                                                               *)
(***************************************************************************)
\* /dev/mem is opened and mapped and the file created, which empties it; if one of
\* them fails, nothing changes.
DumpStart ==
  /\ dpc = "off" /\ dumps < MaxDumps
  /\ dumps' = dumps + 1
  /\ dpc' = "copy" /\ copy' = <<>> /\ dump' = <<>> /\ clean' = TRUE
  /\ UNCHANGED <<mem, size, loader>>

\* Mutant of the next definition: the pointer is moved on too early.
DumpCopyNext ==
  /\ dpc = "copy" /\ Len(copy) < Window
  /\ copy' = Append(copy, mem["ITCM"][((Len(copy) + 1) % Window) + 1])
  /\ UNCHANGED <<mem, size, loader, dpc, dump, clean, dumps>>

DumpCopy ==
  /\ dpc = "copy" /\ Len(copy) < Window
  /\ copy' = Append(copy, mem["ITCM"][Len(copy) + 1])
  /\ UNCHANGED <<mem, size, loader, dpc, dump, clean, dumps>>

\* fwrite, which may write less; success is reported in any case.
DumpWrite ==
  /\ dpc = "copy" /\ Len(copy) = Window
  /\ \E n \in 0 .. Window : dump' = SubSeq(copy, 1, n)
  /\ dpc' = "off" /\ copy' = <<>>
  /\ UNCHANGED <<mem, size, loader, clean, dumps>>
-----------------------------------------------------------------------------
Init ==
  /\ mem = [w \in Windows |-> [k \in 1 .. Window |-> Old]] /\ before = mem
  /\ size \in [Windows -> Sizes]
  /\ pc = "idle" /\ both = FALSE /\ window = "ITCM" /\ fileSize = 0 /\ buffer = <<>> /\ i = 0
  /\ taken = [w \in Windows |-> Nothing] /\ runs = 0
  /\ dpc = "off" /\ copy = <<>> /\ dump = <<>> /\ clean = TRUE /\ dumps = 0

Next ==
  \/ Main \/ Refuse \/ Measure \/ Read \/ Store \/ Loaded \/ Exit \/ Kill \/ Grow
  \/ DumpStart \/ DumpCopy \/ DumpWrite

Spec == Init /\ [][Next]_vars
-----------------------------------------------------------------------------
(***************************************************************************)
(* Properties.                                                             *)
(***************************************************************************)
\* A window holds what this run has loaded, padded, and behind it what it held.
Holds(w) ==
  /\ taken[w] # Nothing
  /\ \A k \in 1 .. Window :
       mem[w][k] = IF 4 * k <= taken[w] THEN <<w, k>>
                   ELSE IF 4 * k <= Padded(taken[w]) THEN Zero ELSE before[w][k]

\* An exit with 0 means that all windows asked for hold their files, as long as
\* they were when measured, whatever earlier runs left in the windows.
ExitMeansLoaded ==
  pc = "exit0" => Holds("ITCM") /\ (both => Holds("BRAM"))

\* The BRAM is not touched before the ITCM is complete: a refused or killed load
\* never leaves a new BRAM image with an old ITCM image.
BramAfterItcm == [][mem'["BRAM"] # mem["BRAM"] => Holds("ITCM")]_vars

\* What mem_dump writes while mem_loader leaves the ITCM alone is the ITCM, up to
\* where the disk is full: a dump can be compared with the image.
DumpIsWindow == clean => IsPrefix(dump, mem["ITCM"]) /\ IsPrefix(copy, mem["ITCM"])
=============================================================================
