---------------------------- MODULE TraceConfig ----------------------------
(***************************************************************************)
(* trc_fs_cfg_trace.sh: how the C-Trace unit is activated, configured and  *)
(* enabled through a register bus that now and then loses a write or       *)
(* commits half of it, and how ctrace_set_watchpoints fills the table of   *)
(* watchpoints, which the unit wants strictly ascending.                   *)
(***************************************************************************)
EXTENDS Integers, Sequences, SequencesExt, FiniteSetsExt

CONSTANTS
  Num,           \* CT_WP_NUM, the number of slots
  Retries,       \* max_retries of verified_write
  MaxFlakes,     \* the bus fails at most so many successive writes,
  MayStick,      \* the bus may be broken for good
  Inputs,        \* the lists of PCs ctrace_set_watchpoints may be given
  Junk           \* what a slot holds at first, or a register half written

ASSUME ConfigAssumption ==
  /\ Num \in Nat \ {0} /\ Retries \in Nat \ {0} /\ MaxFlakes \in Nat /\ MaxFlakes < Retries
  /\ MayStick \in BOOLEAN /\ Junk # "Enable"
  /\ Inputs \subseteq Seq(Nat)

VARIABLES
  pcs,           \* the arguments of ctrace_set_watchpoints
  step,          \* the write of the script that comes next
  try,           \* the attempt of verified_write
  regs,          \* the registers of the unit
  flakes,        \* successive writes the bus has failed
  stuck,         \* the bus is broken and may fail any number of them
  failed         \* the registers verified_write gave up on

vars == <<pcs, step, try, regs, flakes, stuck, failed>>

\* A register is named by a tuple: a control register, or a half of a slot.
Control == <<"trTeControl">>
Data == <<"trTeDataControl">>
Timestamps == <<"trTsControl">>
Addr(slot) == <<"wp", slot, "Addr">>
Cmd(slot) == <<"wp", slot, "Cmd">>
Slots == 0 .. Num - 1
Registers == {Control, Data, Timestamps} \cup {Addr(s) : s \in Slots} \cup {Cmd(s) : s \in Slots}
-----------------------------------------------------------------------------
(***************************************************************************)
(* ctrace_set_watchpoints.                                                 *)
(***************************************************************************)
Digit(n, i) == (n \div 10^i) % 10

\* bash reads the ten digits of %010u as octal if the first is a zero; a digit
\* above seven is an error, and the (( )) it stands in is false.
ReadsAsOctal(n) == n < 1000000000
Readable(n) == ReadsAsOctal(n) => \A i \in 0 .. 9 : Digit(n, i) < 8
Octal[n \in Nat] == IF n = 0 THEN 0 ELSE 8 * Octal[n \div 10] + (n % 10)
Read(n) == IF ReadsAsOctal(n) THEN Octal[n] ELSE n

Unique(s) == Cardinality(Range(s)) = Len(s)

\* A list without duplicates in ascending order: k - 1 PCs are below the k-th.  sort
\* compares strings, but a PC of 32 bits has no more than the ten digits of %010u.
Sorted(s) ==
  LET Below(pc) == {p \in Range(s) : p < pc}
  IN  [k \in 1 .. Len(s) |-> CHOOSE pc \in Range(s) : Cardinality(Below(pc)) = k - 1]

Sentinels(s) == Num - Len(s)
LastSentinel(s) == 2 * Sentinels(s) - 1

\* Mutant of the next definition: the sentinels may reach the first real PC.
SentinelsFitAlways(s) == TRUE
SentinelsFit(s) ==
  Sentinels(s) > 0 =>
    LET smallest == Sorted(s)[1] IN ~(Readable(smallest) /\ LastSentinel(s) >= Read(smallest))

\* The empty list is taken for one with a duplicate.
\* Mutant of the next definition: a full table is taken for one too long.
AcceptedShort(s) == Len(s) \in 1 .. Num - 1 /\ Unique(s) /\ SentinelsFit(s)
Accepted(s) == Len(s) \in 1 .. Num /\ Unique(s) /\ SentinelsFit(s)

\* The slots: odd sentinels with no command, then the real PCs.
SlotAddrs(s) == [n \in 1 .. Sentinels(s) |-> 2 * n - 1] \o Sorted(s)
SlotCmd(s, slot) == IF slot < Sentinels(s) THEN "NONE" ELSE "DAQ"

Write(reg, val) == [reg |-> reg, val |-> val]
SlotWrites(s) ==
  LET addrs == SlotAddrs(s)
  IN  [i \in 1 .. 2 * Num |->
         LET slot == (i - 1) \div 2
         IN  IF i % 2 = 1 THEN Write(Addr(slot), addrs[slot + 1])
                          ELSE Write(Cmd(slot), SlotCmd(s, slot))]
-----------------------------------------------------------------------------
(***************************************************************************)
(* main.                                                                   *)
(***************************************************************************)
\* Mutant of the next definition: the unit is enabled before its watchpoints are set.
WritesEnableFirst(s) ==
  << Write(Control, "Activate"), Write(Control, "Activate"), Write(Control, "Configure"),
     Write(Data, "Off"), Write(Timestamps, "On"), Write(Control, "Enable") >>
  \o (IF Accepted(s) THEN SlotWrites(s) ELSE <<>>)

\* The first write primes the bus and is not verified.  main does not look at
\* what verified_write and ctrace_set_watchpoints return.
Writes(s) ==
  << Write(Control, "Activate"), Write(Control, "Activate"), Write(Control, "Configure"),
     Write(Data, "Off"), Write(Timestamps, "On") >>
  \o (IF Accepted(s) THEN SlotWrites(s) ELSE <<>>)
  \o << Write(Control, "Enable") >>
Scripts == [s \in Inputs |-> Writes(s)]
Script == Scripts[pcs]
Done == step > Len(Script)

\* What the bus makes of a write: it commits it or, unless it has failed as often
\* as it may, leaves the register alone or commits a part.
Outcomes(w) == {w.val} \cup IF flakes < MaxFlakes \/ stuck THEN {regs[w.reg], Junk} ELSE {}

Put(w, got) ==
  /\ regs' = [regs EXCEPT ![w.reg] = got]
  /\ flakes' = IF got = w.val THEN 0 ELSE Min({flakes + 1, MaxFlakes})

Prime ==
  /\ step = 1
  /\ \E got \in Outcomes(Script[1]) : Put(Script[1], got)
  /\ step' = 2
  /\ UNCHANGED <<pcs, try, stuck, failed>>

\* Mutants of the next definition: the hardware's Empty bit is compared, too; the
\* value read back is not looked at.
ReadsBackUnmasked(w, empty) == regs'[w.reg] = w.val /\ (w.reg = Control => empty)
ReadsBackIgnored(w, empty) == TRUE
ReadsBack(w, empty) == regs'[w.reg] = w.val

GiveUp == try = Retries

\* Mutant of the next definition: the tries begin anew.
TryAnew(w) == try' = 1 /\ UNCHANGED <<step, failed>>
LastTryFailed(w) == step' = step + 1 /\ try' = 1 /\ failed' = failed \cup {w.reg}

\* One round of the loop of verified_write.
VerifiedWrite ==
  /\ step > 1 /\ ~Done
  /\ LET w == Script[step]
     IN  \E got \in Outcomes(w), empty \in BOOLEAN :
           /\ Put(w, got)
           /\ \/ ReadsBack(w, empty) /\ step' = step + 1 /\ try' = 1 /\ UNCHANGED failed
              \/ ~ReadsBack(w, empty) /\ ~GiveUp /\ try' = try + 1 /\ UNCHANGED <<step, failed>>
              \/ ~ReadsBack(w, empty) /\ GiveUp /\ LastTryFailed(w)
  /\ UNCHANGED <<pcs, stuck>>
-----------------------------------------------------------------------------
\* The unit is as it comes out of reset, or as an earlier call left it.
Init ==
  /\ pcs \in Inputs /\ step = 1 /\ try = 1 /\ flakes = 0 /\ failed = {}
  /\ stuck \in {FALSE, MayStick}
  /\ \E c \in {"Reset", "Enable"} :
       regs = [r \in Registers |-> IF r = Control THEN c ELSE Junk]

Next == Prime \/ VerifiedWrite
Spec == Init /\ [][Next]_vars
FairSpec == Spec /\ WF_vars(Next)
-----------------------------------------------------------------------------
(***************************************************************************)
(* Properties.                                                             *)
(***************************************************************************)
\* "Enable is set last to actually start emitting trace": from the activation to
\* the last write the unit is not enabled, even if an earlier run left it so,
\* unless the bus is broken.
NotEnabledWhileConfiguring ==
  ~stuck /\ step \in 3 .. Len(Script) - 1 => regs[Control] # "Enable"

\* When the script ends every register it raised no alarm about holds what was
\* last written to it, whatever the bus did to the attempts.
DoneMeansConfigured ==
  Done => \A i \in DOMAIN Script :
    (/\ Script[i].reg \notin failed
     /\ \A j \in i + 1 .. Len(Script) : Script[j].reg # Script[i].reg) =>
      regs[Script[i].reg] = Script[i].val

\* A bus that fails fewer writes in a row than verified_write makes raises no alarm.
NoFalseAlarm == ~stuck => failed = {}

\* "so the final table is strictly ascending + unique".
TableAscending ==
  Done /\ failed = {} /\ Accepted(pcs) =>
    \A s \in 0 .. Num - 2 : regs[Addr(s)] < regs[Addr(s + 1)]

\* "PC1:CMD1 [PC2:CMD2 ...]  Up to 15 pairs in any order": what would make an
\* ascending table is accepted, as far as bash reads it as it is meant.
ReadAsMeant(s) == \A i \in DOMAIN s : ~ReadsAsOctal(s[i])
Valid(s) ==
  /\ Len(s) \in 1 .. Num /\ Unique(s)
  /\ Sentinels(s) > 0 => \A i \in DOMAIN s : s[i] > LastSentinel(s)
ValidAccepted == Valid(pcs) /\ ReadAsMeant(pcs) => Accepted(pcs)

\* Whatever the bus does, the script comes to its end.
ScriptEnds == <>Done
=============================================================================
