--------------------------- MODULE TraceSetupProofs --------------------------
(***************************************************************************)
(* What the two scripts make of the arguments they are given, for tables   *)
(* of any size, lists and addresses of any kind and any number of tries.   *)
(*                                                                         *)
(* verified_write on a bus that loses writes: no false alarm, no early     *)
(* enable, and what raised no alarm is configured.  ctrace_set_watchpoints *)
(* on its arguments: what it accepts, and that its table ascends.  And     *)
(* trc_fs_cfg_eth.sh: all checks before the first write, every byte at its *)
(* place.                                                                  *)
(***************************************************************************)
EXTENDS TraceSetup, SequenceTheorems, FiniteSetTheorems, WellFoundedInduction,
        TLAPS

Types ==
  /\ pcs \in Inputs
  /\ step \in Nat \ {0} /\ try \in 1 .. Retries /\ flakes \in 0 .. MaxFlakes
  /\ DOMAIN regs = Registers /\ regs = [r \in Registers |-> regs[r]]
  /\ step = 1 => try = 1
  /\ stuck \in BOOLEAN

\* Unless the bus is broken every try after the first follows a failed one.
Tries == stuck = FALSE => failed = {} /\ (step > 1 => try - 1 <= flakes)

\* Unless the bus is broken the unit is active, then configuring.
Configuring ==
  stuck = FALSE =>
    /\ step = 3 => regs[Control] \in {"Activate", "Configure", Junk}
    /\ step \in 4 .. Len(Script) - 1 => regs[Control] = "Configure"

\* What has been written, raised no alarm and is not written again is there.
Settled(i) ==
  /\ Script[i].reg \notin failed
  /\ \A j \in i + 1 .. Len(Script) : j <= step => Script[j].reg # Script[i].reg
Configured ==
  \A i \in 1 .. Len(Script) : i < step /\ Settled(i) => regs[Script[i].reg] = Script[i].val

IInv == Types /\ Tries /\ Configuring /\ Configured
-----------------------------------------------------------------------------
(***************************************************************************)
(* The script.                                                             *)
(***************************************************************************)
\* No slot of the table is the control register.
LEMMA ControlApart ==
  /\ Control \in Registers /\ Data \in Registers /\ Timestamps \in Registers
  /\ Data # Control /\ Timestamps # Control
  /\ \A slot \in Slots : /\ Addr(slot) \in Registers /\ Addr(slot) # Control
                         /\ Cmd(slot) \in Registers /\ Cmd(slot) # Control
<1>1. Data # Control /\ Timestamps # Control
  BY DEF Control, Data, Timestamps
<1>2. \A slot \in Slots : Addr(slot) # Control /\ Cmd(slot) # Control
  BY DEF Control, Addr, Cmd
<1>3. QED
  BY <1>1, <1>2 DEF Registers

\* The writes of the table are to slots.
LEMMA SlotWritesShape ==
  ASSUME NEW s \in Inputs
  PROVE  \E T : /\ SlotWrites(s) \in Seq(T) /\ Len(SlotWrites(s)) = 2 * Num
                /\ \A w \in T : w.reg \in Registers /\ w.reg # Control
<1> DEFINE W(i) == LET slot == (i - 1) \div 2
                   IN  IF i % 2 = 1 THEN Write(Addr(slot), SlotAddrs(s)[slot + 1])
                                    ELSE Write(Cmd(slot), SlotCmd(s, slot))
           T == {W(i) : i \in 1 .. 2 * Num}
<1>1. Num \in Nat /\ 2 * Num \in Nat
  BY ConfigAssumption
<1>2. SlotWrites(s) = [i \in 1 .. 2 * Num |-> W(i)]
  BY DEF SlotWrites
<1>3. SlotWrites(s) \in Seq(T) /\ Len(SlotWrites(s)) = 2 * Num
  <2>1. PICK n \in Nat : n = 2 * Num
    BY <1>1
  <2>2. SlotWrites(s) \in [1 .. n -> T]
    BY <1>2, <2>1
  <2> HIDE DEF T
  <2>3. SlotWrites(s) \in Seq(T) /\ Len(SlotWrites(s)) = n
    BY <2>2
  <2>4. QED
    BY <2>1, <2>3
<1>4. ASSUME NEW i \in 1 .. 2 * Num PROVE W(i).reg \in Registers /\ W(i).reg # Control
  <2>1. (i - 1) \div 2 \in Slots
    BY <1>1, SMT DEF Slots
  <2>2. PICK slot \in Slots : slot = (i - 1) \div 2
    BY <2>1
  <2>3. W(i).reg = Addr(slot) \/ W(i).reg = Cmd(slot)
    BY <2>2 DEF Write
  <2>4. QED
    BY <2>3, ControlApart
<1>5. \A w \in T : w.reg \in Registers /\ w.reg # Control
  BY <1>4
<1> HIDE DEF T
<1>6. QED
  BY <1>3, <1>5

\* Two lists of writes, one behind the other: the length, and the parts.
LEMMA ConcatLen ==
  ASSUME NEW U, NEW a \in Seq(U), NEW b \in Seq(U)
  PROVE  a \o b \in Seq(U) /\ Len(a \o b) = Len(a) + Len(b)
  OBVIOUS

\* The first of two lists.
LEMMA ConcatFirst ==
  ASSUME NEW U, NEW a \in Seq(U), NEW b \in Seq(U), NEW i \in 1 .. Len(a)
  PROVE  (a \o b)[i] = a[i]
  OBVIOUS

\* The second of two lists.
LEMMA ConcatSecond ==
  ASSUME NEW U, NEW a \in Seq(U), NEW b \in Seq(U), NEW k \in Len(a) + 1 .. Len(a) + Len(b)
  PROVE  (a \o b)[k] = b[k - Len(a)]
  OBVIOUS

\* Three lists, the first of five writes and the last of one.
Chain(h, m, t) == (h \o m) \o t
\* Its length, and where its parts are.
LEMMA ThreeParts ==
  ASSUME NEW U, NEW h \in Seq(U), NEW m \in Seq(U), NEW t \in Seq(U),
         Len(h) = 5, Len(t) = 1
  PROVE  /\ Len(Chain(h, m, t)) = Len(m) + 6 /\ Len(m) \in Nat
         /\ \A i \in 1 .. 5 : Chain(h, m, t)[i] = h[i]
         /\ \A i \in 1 .. Len(m) : Chain(h, m, t)[i + 5] = m[i]
         /\ Chain(h, m, t)[Len(m) + 6] = t[1]
<1>1. PICK a : a = h \o m
  OBVIOUS
<1>2. PICK c : c = a \o t
  OBVIOUS
<1>3. a \in Seq(U) /\ Len(a) = Len(m) + 5 /\ Len(m) \in Nat
  <2>1. a \in Seq(U) /\ Len(a) = Len(h) + Len(m)
    BY <1>1, ConcatLen
  <2>2. QED
    BY <2>1
<1>4. Len(c) = Len(m) + 6
  <2>1. Len(c) = Len(a) + Len(t)
    BY <1>2, <1>3, ConcatLen
  <2>2. QED
    BY <2>1, <1>3
<1>5. ASSUME NEW i \in 1 .. Len(a) PROVE c[i] = a[i]
  BY <1>2, <1>3, ConcatFirst
<1>6. ASSUME NEW i \in 1 .. 5 PROVE c[i] = h[i]
  <2>1. i \in 1 .. Len(h) /\ i \in 1 .. Len(a)
    BY <1>3
  <2>2. a[i] = h[i]
    BY <1>1, <2>1, ConcatFirst
  <2>3. QED
    BY <1>5, <2>1, <2>2
<1>7. ASSUME NEW i \in 1 .. Len(m) PROVE c[i + 5] = m[i]
  <2>1. PICK k : k = i + 5
    OBVIOUS
  <2>2. k \in Len(h) + 1 .. Len(h) + Len(m) /\ k \in 1 .. Len(a) /\ k - Len(h) = i
    BY <1>3, <2>1
  <2>3. a[k] = m[k - Len(h)]
    BY <1>1, <2>2, ConcatSecond
  <2>4. QED
    BY <1>5, <2>1, <2>2, <2>3
<1>8. c[Len(m) + 6] = t[1]
  <2>1. PICK k : k = Len(m) + 6
    OBVIOUS
  <2>2. k \in Len(a) + 1 .. Len(a) + Len(t) /\ k - Len(a) = 1
    BY <1>3, <2>1
  <2>3. c[k] = t[k - Len(a)]
    BY <1>2, <1>3, <2>2, ConcatSecond
  <2>4. QED
    BY <2>1, <2>2, <2>3
<1>9. c = Chain(h, m, t)
  BY <1>1, <1>2 DEF Chain
<1>10. QED
  BY <1>3, <1>4, <1>6, <1>7, <1>8, <1>9

\* Such a list is a sequence.
LEMMA ChainIsList ==
  ASSUME NEW U, NEW h \in Seq(U), NEW m \in Seq(U), NEW t \in Seq(U)
  PROVE  Chain(h, m, t) \in Seq(U)
<1>1. PICK a : a = h \o m
  OBVIOUS
<1>2. a \in Seq(U)
  BY <1>1, ConcatLen
<1>3. a \o t \in Seq(U)
  BY <1>2, ConcatLen
<1>4. QED
  BY <1>1, <1>3 DEF Chain

\* If the list is accepted the table comes between five writes and the last one.
Others == {Control, Data, Timestamps}
TableInScript ==
  Accepted(pcs) =>
    /\ Len(Script) = 2 * Num + 6
    /\ \A i \in 1 .. 5 : Script[i].reg \in Others
    /\ \A i \in 1 .. 2 * Num : Script[i + 5] = SlotWrites(pcs)[i]
    /\ Script[2 * Num + 6].reg \in Others

\* The unit is activated and set to configure first and enabled last; in between
\* its control register is not written.
LEMMA ScriptShape ==
  ASSUME pcs \in Inputs
  PROVE  /\ Len(Script) \in Nat /\ Len(Script) >= 6 /\ DOMAIN Script = 1 .. Len(Script)
         /\ \A i \in 1 .. Len(Script) : Script[i].reg \in Registers
         /\ Script[1].reg = Control /\ Script[2] = Write(Control, "Activate")
         /\ Script[3] = Write(Control, "Configure")
         /\ \A i \in 4 .. Len(Script) - 1 : Script[i].reg # Control
         /\ TableInScript
<1> DEFINE h == << Write(Control, "Activate"), Write(Control, "Activate"),
                   Write(Control, "Configure"), Write(Data, "Off"), Write(Timestamps, "On") >>
           m == IF Accepted(pcs) THEN SlotWrites(pcs) ELSE <<>>
           t == << Write(Control, "Enable") >>
<1>1. Script = (h \o m) \o t
  BY DEF Script, Scripts, Writes
<1>2. PICK T : /\ m \in Seq(T) /\ \A w \in T : w.reg \in Registers /\ w.reg # Control
               /\ Accepted(pcs) => Len(m) = 2 * Num /\ m = SlotWrites(pcs)
  <2>1. CASE Accepted(pcs)
    BY <2>1, SlotWritesShape
  <2>2. CASE ~Accepted(pcs)
    <3>1. m = <<>>
      BY <2>2
    <3> HIDE DEF m
    <3> WITNESS {}
    <3>2. QED
      BY <2>2, <3>1
  <2>3. QED
    BY <2>1, <2>2
<1> HIDE DEF m
<1> DEFINE U == T \cup {h[i] : i \in 1 .. 5} \cup {t[1]}
<1>3. m \in Seq(U)
  <2>1. T \subseteq U
    OBVIOUS
  <2> HIDE DEF U
  <2>2. QED
    BY <1>2, <2>1, SeqMonotonic
<1>4. h \in Seq(U) /\ t \in Seq(U) /\ Len(h) = 5 /\ Len(t) = 1
  OBVIOUS
<1>5. /\ h[1].reg = Control /\ h[2] = Write(Control, "Activate")
      /\ h[3] = Write(Control, "Configure") /\ t[1].reg = Control
      /\ \A i \in 4 .. 5 : h[i].reg \in {Data, Timestamps}
  BY DEF Write
<1>6. Control \in Registers /\ \A r \in {Data, Timestamps} : r \in Registers /\ r # Control
  BY ControlApart
<1>7. h[2].reg = Control /\ h[3].reg = Control
  BY <1>5 DEF Write
<1> HIDE DEF h, t, U
<1>8. /\ Len(Script) = Len(m) + 6 /\ Len(m) \in Nat
      /\ \A i \in 1 .. 5 : Script[i] = h[i]
      /\ \A i \in 1 .. Len(m) : Script[i + 5] = m[i]
      /\ Script[Len(m) + 6] = t[1]
      /\ DOMAIN Script = 1 .. Len(Script)
  <2>1. PICK V, hh, mm, tt : V = U /\ hh = h /\ mm = m /\ tt = t
    OBVIOUS
  <2>2. hh \in Seq(V) /\ mm \in Seq(V) /\ tt \in Seq(V) /\ Len(hh) = 5 /\ Len(tt) = 1
    BY <1>3, <1>4, <2>1
  <2>3. PICK c : c = Chain(hh, mm, tt)
    OBVIOUS
  <2>4. /\ Len(c) = Len(mm) + 6 /\ Len(mm) \in Nat
        /\ \A i \in 1 .. 5 : c[i] = hh[i]
        /\ \A i \in 1 .. Len(mm) : c[i + 5] = mm[i]
        /\ c[Len(mm) + 6] = tt[1]
    BY <2>2, <2>3, ThreeParts
  <2>5. c \in Seq(V)
    BY <2>2, <2>3, ChainIsList
  <2>6. DOMAIN c = 1 .. Len(c)
    BY <2>5
  <2>7. Script = c
    BY <1>1, <2>1, <2>3 DEF Chain
  <2>8. QED
    BY <2>1, <2>4, <2>6, <2>7
<1>9. ASSUME NEW i \in 1 .. Len(Script)
      PROVE  Script[i].reg \in Registers /\ (i \in 4 .. Len(Script) - 1 => Script[i].reg # Control)
  <2>1. CASE i \in 1 .. 3
    BY <1>5, <1>6, <1>7, <1>8, <2>1
  <2>2. CASE i \in 4 .. 5
    BY <1>5, <1>6, <1>8, <2>2
  <2>3. CASE i \in 6 .. Len(m) + 5
    <3>1. i - 5 \in 1 .. Len(m) /\ Script[i] = m[i - 5]
      <4>1. i - 5 \in 1 .. Len(m) /\ (i - 5) + 5 = i
        BY <1>8, <2>3
      <4>2. QED
        BY <1>8, <4>1
    <3>2. m[i - 5] \in T
      BY <1>2, <3>1, ElementOfSeq
    <3>3. QED
      BY <1>2, <3>1, <3>2
  <2>4. CASE i = Len(m) + 6
    BY <1>5, <1>6, <1>8, <2>4
  <2>5. QED
    BY <1>8, <2>1, <2>2, <2>3, <2>4
<1>10. TableInScript
  <2> SUFFICES ASSUME Accepted(pcs)
               PROVE  /\ Len(Script) = 2 * Num + 6
                      /\ \A i \in 1 .. 5 : Script[i].reg \in Others
                      /\ \A i \in 1 .. 2 * Num : Script[i + 5] = SlotWrites(pcs)[i]
                      /\ Script[2 * Num + 6].reg \in Others
    BY DEF TableInScript
  <2>1. Len(m) = 2 * Num /\ m = SlotWrites(pcs)
    BY <1>2
  <2>2. \A i \in 1 .. 5 : h[i].reg \in Others
    <3>1. \A i \in 1 .. 5 : i = 1 \/ i = 2 \/ i = 3 \/ i \in 4 .. 5
      OBVIOUS
    <3>2. QED
      BY <1>5, <1>7, <3>1 DEF Others
  <2>3. \A i \in 1 .. 5 : Script[i].reg \in Others
    BY <1>8, <2>2
  <2>4. \A i \in 1 .. 2 * Num : Script[i + 5] = SlotWrites(pcs)[i]
    BY <1>8, <2>1
  <2>5. Script[2 * Num + 6].reg \in Others
    BY <1>5, <1>8, <2>1 DEF Others
  <2>6. QED
    BY <1>8, <2>1, <2>3, <2>4, <2>5
<1>11. QED
  BY <1>5, <1>8, <1>9, <1>10
-----------------------------------------------------------------------------
(***************************************************************************)
(* The steps.                                                              *)
(***************************************************************************)
\* Min of FiniteSetsExt, of two numbers.
LEMMA MinOfTwo ==
  ASSUME NEW a \in Nat, NEW b \in Nat
  PROVE  Min({a, b}) \in {a, b} /\ Min({a, b}) <= b /\ (a <= b => Min({a, b}) = a)
<1>1. \E c \in {a, b} : \A d \in {a, b} : c <= d
  <2>1. CASE a <= b
    BY <2>1
  <2>2. CASE ~(a <= b)
    BY <2>2
  <2>3. QED
    BY <2>1, <2>2
<1>2. Min({a, b}) \in {a, b} /\ \A d \in {a, b} : Min({a, b}) <= d
  BY <1>1 DEF Min
<1>3. QED
  BY <1>2

\* What one write does: it is committed, or the bus has failed, which an intact bus
\* does only so often in a row.
Attempt(w, got) ==
  /\ DOMAIN regs' = Registers /\ regs' = [r \in Registers |-> regs'[r]]
  /\ regs'[w.reg] = got
  /\ \A r \in Registers : r # w.reg => regs'[r] = regs[r]
  /\ flakes' \in 0 .. MaxFlakes
  /\ got # w.val /\ stuck = FALSE =>
       flakes < MaxFlakes /\ flakes' = flakes + 1 /\ got \in {regs[w.reg], Junk}
\* It is an attempt whatever the bus makes of it.
LEMMA PutIsAttempt ==
  ASSUME Types, NEW w, w.reg \in Registers, NEW got, got \in Outcomes(w), Put(w, got)
  PROVE  Attempt(w, got)
<1>1. flakes \in 0 .. MaxFlakes /\ MaxFlakes \in Nat /\ DOMAIN regs = Registers
  BY ConfigAssumption DEF Types
<1>2. regs' = [regs EXCEPT ![w.reg] = got]
  BY DEF Put
<1>3. /\ DOMAIN regs' = Registers /\ regs'[w.reg] = got
      /\ \A r \in Registers : r # w.reg => regs'[r] = regs[r]
  BY <1>1, <1>2
<1>4. regs' = [r \in Registers |-> regs'[r]]
  BY <1>1, <1>2
<1>5. CASE got = w.val
  <2>1. flakes' = 0
    BY <1>5 DEF Put
  <2>2. QED
    BY <1>1, <1>3, <1>4, <1>5, <2>1 DEF Attempt
<1>6. CASE got # w.val
  <2>1. flakes' = Min({flakes + 1, MaxFlakes})
    BY <1>6 DEF Put
  <2>2. flakes + 1 \in Nat
    BY <1>1
  <2>3. flakes' \in {flakes + 1, MaxFlakes} /\ flakes' <= MaxFlakes /\ (flakes + 1 <= MaxFlakes => flakes' = flakes + 1)
    BY <1>1, <2>1, <2>2, MinOfTwo
  <2>4. flakes' \in 0 .. MaxFlakes
    BY <1>1, <2>3
  <2>5. stuck = FALSE => flakes < MaxFlakes /\ got \in {regs[w.reg], Junk}
    BY <1>6 DEF Outcomes
  <2>6. QED
    BY <1>1, <1>3, <1>4, <2>3, <2>4, <2>5 DEF Attempt
<1>7. QED
  BY <1>5, <1>6

\* What a round of verified_write comes to.
Committed(w, got) == got = w.val /\ step' = step + 1 /\ try' = 1 /\ failed' = failed
Repeated(w, got) ==
  got # w.val /\ try # Retries /\ step' = step /\ try' = try + 1 /\ failed' = failed
GivenUp(w, got) ==
  got # w.val /\ try = Retries /\ step' = step + 1 /\ try' = 1 /\ failed' = failed \cup {w.reg}
\* Every round is one of these.
LEMMA WriteShape ==
  ASSUME Types, VerifiedWrite, NEW w, w = Script[step]
  PROVE  /\ step \in 2 .. Len(Script) /\ pcs' = pcs /\ stuck' = stuck
         /\ \E got : /\ Attempt(w, got)
                     /\ Committed(w, got) \/ Repeated(w, got) \/ GivenUp(w, got)
<1>1. /\ Len(Script) \in Nat /\ \A i \in 1 .. Len(Script) : Script[i].reg \in Registers
      /\ step \in Nat
  BY ScriptShape DEF Types
<1>2. step \in 2 .. Len(Script) /\ pcs' = pcs /\ stuck' = stuck
  BY <1>1 DEF VerifiedWrite, Done
<1>3. w.reg \in Registers
  BY <1>1, <1>2
<1>4. PICK got \in Outcomes(w), empty \in BOOLEAN :
        /\ Put(w, got)
        /\ \/ regs'[w.reg] = w.val /\ step' = step + 1 /\ try' = 1 /\ failed' = failed
           \/ regs'[w.reg] # w.val /\ ~GiveUp /\ try' = try + 1 /\ step' = step /\ failed' = failed
           \/ regs'[w.reg] # w.val /\ GiveUp /\ LastTryFailed(w)
  BY DEF VerifiedWrite, ReadsBack
<1>5. Attempt(w, got)
  BY <1>3, <1>4, PutIsAttempt
<1>6. regs'[w.reg] = got
  BY <1>5 DEF Attempt
<1>7. Committed(w, got) \/ Repeated(w, got) \/ GivenUp(w, got)
  BY <1>4, <1>6 DEF Committed, Repeated, GivenUp, GiveUp, LastTryFailed
<1>8. QED
  BY <1>2, <1>5, <1>7
-----------------------------------------------------------------------------
(***************************************************************************)
(* The invariant.                                                          *)
(***************************************************************************)
\* While the arguments stay, so does the script.
LEMMA ScriptStays ==
  ASSUME pcs' = pcs
  PROVE  Script' = Script
BY DEF Script, Scripts

\* Before the first write nothing is known of the unit.
LEMMA InitIInv ==
  ASSUME Init
  PROVE  IInv
<1>1. Types
  <2>1. MayStick \in BOOLEAN /\ stuck \in {FALSE, MayStick}
    BY ConfigAssumption DEF Init
  <2>2. stuck \in BOOLEAN
    BY <2>1, Zenon
  <2>3. /\ pcs \in Inputs /\ step \in Nat \ {0} /\ try \in 1 .. Retries /\ flakes \in 0 .. MaxFlakes
        /\ step = 1 => try = 1
    BY ConfigAssumption DEF Init
  <2>4. DOMAIN regs = Registers /\ regs = [r \in Registers |-> regs[r]]
    BY DEF Init
  <2>5. QED
    BY <2>2, <2>3, <2>4, Zenon DEF Types
<1>2. Tries /\ Configuring /\ Configured
  BY DEF Init, Tries, Configuring, Configured
<1>3. QED
  BY <1>1, <1>2 DEF IInv

\* The first write may do anything to the control register, which is written again.
LEMMA PrimeIInv ==
  ASSUME IInv, Prime
  PROVE  IInv'
<1> DEFINE w == Script[1]
<1>1. /\ Len(Script) \in Nat /\ Len(Script) >= 6
      /\ w.reg = Control /\ Script[2].reg = Control /\ w.reg \in Registers
  BY ScriptShape DEF IInv, Types, Write
<1>2. pcs' = pcs /\ step = 1 /\ step' = 2 /\ try' = try /\ stuck' = stuck /\ failed' = failed
  BY DEF Prime
<1>3. PICK got \in Outcomes(w) : Put(w, got)
  BY DEF Prime
<1>4. Attempt(w, got)
  BY <1>1, <1>3, PutIsAttempt DEF IInv
<1>5. Script' = Script
  BY <1>2, ScriptStays
<1>6. Types'
  BY <1>2, <1>4 DEF Attempt, IInv, Types
<1>7. Tries'
  <2>1. try = 1 /\ flakes' \in Nat
    BY <1>2, <1>4, ConfigAssumption DEF Attempt, IInv, Types
  <2>2. stuck = FALSE => failed = {}
    BY DEF IInv, Tries
  <2>3. QED
    BY <1>2, <2>1, <2>2 DEF Tries
<1>8. Configuring'
  BY <1>2 DEF Configuring
<1>9. Configured'
  <2> SUFFICES ASSUME NEW i \in 1 .. Len(Script), i < 2, Settled(i)'
               PROVE  FALSE
    BY <1>2, <1>5 DEF Configured
  <2>1. i = 1 /\ 2 \in i + 1 .. Len(Script)
    BY <1>1
  <2>2. Script[2].reg # Script[i].reg
    BY <1>2, <1>5, <2>1 DEF Settled
  <2>3. QED
    BY <1>1, <2>1, <2>2
<1>10. QED
  BY <1>6, <1>7, <1>8, <1>9 DEF IInv

\* A bus that is intact fails too seldom for verified_write to give up.
LEMMA NeverGivenUp ==
  ASSUME IInv, NEW w, NEW got, Attempt(w, got), GivenUp(w, got), stuck = FALSE, step > 1
  PROVE  FALSE
<1>1. Retries - 1 <= flakes /\ flakes < MaxFlakes
  BY DEF IInv, Tries, Attempt, GivenUp
<1>2. Retries \in Nat /\ MaxFlakes \in Nat /\ MaxFlakes < Retries /\ flakes \in Nat
  BY ConfigAssumption DEF IInv, Types
<1>3. QED
  BY <1>1, <1>2

\* A round of verified_write keeps the types, and the tries in step with the failures.
LEMMA WriteTries ==
  ASSUME IInv, VerifiedWrite
  PROVE  Types' /\ Tries'
<1> DEFINE w == Script[step]
<1>1. step \in 2 .. Len(Script) /\ pcs' = pcs /\ stuck' = stuck /\ Len(Script) \in Nat
  BY WriteShape, ScriptShape DEF IInv, Types
<1>2. PICK got : Attempt(w, got) /\ (Committed(w, got) \/ Repeated(w, got) \/ GivenUp(w, got))
  BY WriteShape DEF IInv
<1>3. /\ Retries \in Nat \ {0} /\ try \in 1 .. Retries /\ step \in Nat /\ pcs \in Inputs
      /\ MaxFlakes \in Nat /\ flakes \in 0 .. MaxFlakes
  BY ConfigAssumption DEF IInv, Types
<1>4. step' \in Nat \ {0} /\ step' > 1 /\ try' \in 1 .. Retries
  BY <1>1, <1>2, <1>3 DEF Committed, Repeated, GivenUp
<1>5. Types'
  <2>1. stuck' \in BOOLEAN
    BY <1>1, Zenon DEF IInv, Types
  <2>2. step' = 1 => try' = 1
    BY <1>4
  <2>3. QED
    BY <1>1, <1>2, <1>3, <1>4, <2>1, <2>2, Zenon DEF Types, Attempt
<1>6. ASSUME stuck = FALSE PROVE failed' = {} /\ try' - 1 <= flakes'
  <2>1. failed = {} /\ try - 1 <= flakes
    BY <1>1, <1>6 DEF IInv, Tries
  <2>2. flakes' \in Nat
    BY <1>2, <1>3 DEF Attempt
  <2>3. CASE Committed(w, got)
    BY <2>1, <2>2, <2>3 DEF Committed
  <2>4. CASE Repeated(w, got)
    <3>1. got # w.val /\ try' = try + 1 /\ failed' = failed
      BY <2>4 DEF Repeated
    <3>2. flakes' = flakes + 1
      BY <1>2, <1>6, <3>1 DEF Attempt
    <3>3. QED
      BY <1>3, <2>1, <3>1, <3>2
  <2>5. CASE GivenUp(w, got)
    <3>1. step > 1
      BY <1>1
    <3>2. QED
      BY <1>2, <1>6, <2>5, <3>1, NeverGivenUp, Zenon
  <2>6. QED
    BY <1>2, <2>3, <2>4, <2>5
<1>7. Tries'
  BY <1>1, <1>6 DEF Tries
<1>8. QED
  BY <1>5, <1>7

\* It takes the unit from one state of its activation to the next.
LEMMA WriteConfiguring ==
  ASSUME IInv, VerifiedWrite
  PROVE  Configuring'
<1> DEFINE w == Script[step]
<1>1. step \in 2 .. Len(Script) /\ pcs' = pcs /\ stuck' = stuck
  BY WriteShape DEF IInv
<1>2. PICK got : Attempt(w, got) /\ (Committed(w, got) \/ Repeated(w, got) \/ GivenUp(w, got))
  BY WriteShape DEF IInv
<1>3. /\ Len(Script) \in Nat /\ Len(Script) >= 6
      /\ Script[2].reg = Control /\ Script[2].val = "Activate"
      /\ Script[3].reg = Control /\ Script[3].val = "Configure"
      /\ \A i \in 4 .. Len(Script) - 1 : Script[i].reg # Control
  BY ScriptShape DEF IInv, Types, Write
<1>4. Script' = Script /\ Control \in Registers
  BY <1>1, ScriptStays, ControlApart
<1> SUFFICES ASSUME stuck = FALSE
             PROVE  /\ step' = 3 => regs'[Control] \in {"Activate", "Configure", Junk}
                    /\ step' \in 4 .. Len(Script) - 1 => regs'[Control] = "Configure"
  BY <1>1, <1>4 DEF Configuring
<1>5. \/ got = w.val /\ step' = step + 1
      \/ got # w.val /\ step' = step /\ got \in {regs[w.reg], Junk}
  <2>1. step > 1
    BY <1>1
  <2>2. ~GivenUp(w, got)
    BY <1>2, <2>1, NeverGivenUp, Zenon
  <2>3. QED
    BY <1>2, <2>2 DEF Committed, Repeated, Attempt
<1>6. regs'[w.reg] = got /\ (w.reg # Control => regs'[Control] = regs[Control])
  BY <1>2, <1>4 DEF Attempt
<1>7. /\ step = 3 => regs[Control] \in {"Activate", "Configure", Junk}
      /\ step \in 4 .. Len(Script) - 1 => regs[Control] = "Configure"
  BY DEF IInv, Configuring
<1>8. CASE step = 2
  BY <1>3, <1>5, <1>6, <1>8
<1>9. CASE step = 3
  BY <1>3, <1>5, <1>6, <1>7, <1>9
<1>10. CASE step \in 4 .. Len(Script) - 1
  <2>1. w.reg # Control
    BY <1>3, <1>10
  <2>2. regs'[Control] = "Configure"
    BY <1>6, <1>7, <1>10, <2>1
  <2>3. step' # 3
    BY <1>5, <1>10
  <2>4. QED
    BY <2>2, <2>3
<1>11. CASE step = Len(Script)
  BY <1>3, <1>5, <1>11
<1>12. QED
  BY <1>1, <1>3, <1>8, <1>9, <1>10, <1>11

\* It leaves what was written before, and what it gives up it says.
LEMMA WriteConfigured ==
  ASSUME IInv, VerifiedWrite
  PROVE  Configured'
<1> DEFINE w == Script[step]
<1>1. step \in 2 .. Len(Script) /\ pcs' = pcs
  BY WriteShape DEF IInv
<1>2. PICK got : Attempt(w, got) /\ (Committed(w, got) \/ Repeated(w, got) \/ GivenUp(w, got))
  BY WriteShape DEF IInv
<1>3. Len(Script) \in Nat /\ \A i \in 1 .. Len(Script) : Script[i].reg \in Registers
  BY ScriptShape DEF IInv, Types
<1>4. Script' = Script
  BY <1>1, ScriptStays
<1> SUFFICES ASSUME NEW i \in 1 .. Len(Script), i < step', Settled(i)'
             PROVE  regs'[Script[i].reg] = Script[i].val
  BY <1>4 DEF Configured
<1>5. /\ Script[i].reg \notin failed'
      /\ \A j \in i + 1 .. Len(Script) : j <= step' => Script[j].reg # Script[i].reg
  BY <1>4 DEF Settled
<1>6. /\ step' \in {step, step + 1} /\ failed \subseteq failed'
      /\ step' = step + 1 => got = w.val \/ w.reg \in failed'
  BY <1>1, <1>2 DEF Committed, Repeated, GivenUp
<1>7. CASE i = step
  <2>1. got = w.val
    BY <1>1, <1>5, <1>6, <1>7
  <2>2. QED
    BY <1>2, <1>7, <2>1 DEF Attempt
<1>8. CASE i < step
  <2>1. step \in i + 1 .. Len(Script) /\ step <= step'
    BY <1>1, <1>3, <1>6, <1>8
  <2>2. Script[i].reg # w.reg
    BY <1>5, <2>1
  <2>3. regs'[Script[i].reg] = regs[Script[i].reg]
    BY <1>2, <1>3, <2>2 DEF Attempt
  <2>4. \A j \in i + 1 .. Len(Script) : j <= step => Script[j].reg # Script[i].reg
    BY <1>1, <1>3, <1>5, <1>6
  <2>5. Settled(i)
    BY <1>5, <1>6, <2>4 DEF Settled
  <2>6. QED
    BY <1>8, <2>3, <2>5 DEF IInv, Configured
<1>9. QED
  BY <1>1, <1>3, <1>6, <1>7, <1>8

\* Every step keeps the invariant.
LEMMA StepIInv ==
  ASSUME IInv, [Next]_vars
  PROVE  IInv'
<1>1. CASE Prime
  BY <1>1, PrimeIInv
<1>2. CASE VerifiedWrite
  BY <1>2, WriteTries, WriteConfiguring, WriteConfigured DEF IInv
<1>3. CASE UNCHANGED vars
  <2>1. Script' = Script
    BY <1>3, ScriptStays DEF vars
  <2>2. Types' /\ Tries'
    BY <1>3 DEF vars, IInv, Types, Tries
  <2>3. Configuring'
    BY <1>3, <2>1 DEF vars, IInv, Configuring
  <2>4. Configured'
    BY <1>3, <2>1 DEF vars, IInv, Configured, Settled
  <2>5. QED
    BY <2>2, <2>3, <2>4 DEF IInv
<1>4. QED
  BY <1>1, <1>2, <1>3 DEF Next
-----------------------------------------------------------------------------
(***************************************************************************)
(* The list in ascending order.                                            *)
(***************************************************************************)
\* Those of S that are below p.
BelowIn(S, p) == {q \in S : q < p}

\* The smaller of two has fewer below it.
LEMMA FewerBelow ==
  ASSUME NEW S, S \subseteq Nat, IsFiniteSet(S), NEW p \in S, NEW q \in S, p < q
  PROVE  /\ Cardinality(BelowIn(S, p)) \in Nat /\ Cardinality(BelowIn(S, q)) \in Nat
         /\ Cardinality(BelowIn(S, p)) < Cardinality(BelowIn(S, q))
<1>1. BelowIn(S, p) \in SUBSET BelowIn(S, q) /\ BelowIn(S, q) \in SUBSET S
  <2>1. p \in Nat /\ q \in Nat /\ \A r \in S : r \in Nat
    OBVIOUS
  <2>2. \A r \in S : r < p => r < q
    BY <2>1
  <2>3. QED
    BY <2>2 DEF BelowIn
<1>2. p \in BelowIn(S, q) /\ p \notin BelowIn(S, p)
  BY DEF BelowIn
<1>3. IsFiniteSet(BelowIn(S, q))
  BY <1>1, FS_Subset
<1>4. /\ IsFiniteSet(BelowIn(S, p))
      /\ Cardinality(BelowIn(S, p)) <= Cardinality(BelowIn(S, q))
      /\ Cardinality(BelowIn(S, q)) = Cardinality(BelowIn(S, p)) => BelowIn(S, q) = BelowIn(S, p)
  BY <1>1, <1>3, FS_Subset
<1>5. Cardinality(BelowIn(S, p)) \in Nat /\ Cardinality(BelowIn(S, q)) \in Nat
  BY <1>3, <1>4, FS_CardinalityType
<1>6. BelowIn(S, q) # BelowIn(S, p)
  BY <1>2
<1>7. QED
  BY <1>4, <1>5, <1>6

\* For every k below the size of S there is an element that k others are below.
LEMMA EveryRank ==
  ASSUME NEW S, S \subseteq Nat, IsFiniteSet(S), NEW k \in 0 .. Cardinality(S) - 1
  PROVE  \E p \in S : Cardinality(BelowIn(S, p)) = k
<1>1. PICK n \in Nat : n = Cardinality(S)
  BY FS_CardinalityType
<1> DEFINE f == [p \in S |-> Cardinality(BelowIn(S, p))]
           T == 0 .. n - 1
<1>2. \A p \in S : Cardinality(BelowIn(S, p)) \in T
  <2> SUFFICES ASSUME NEW p \in S PROVE Cardinality(BelowIn(S, p)) \in T
    OBVIOUS
  <2>1. BelowIn(S, p) \in SUBSET (S \ {p})
    BY DEF BelowIn
  <2>2. IsFiniteSet(S \ {p}) /\ Cardinality(S \ {p}) = n - 1
    BY <1>1, FS_RemoveElement
  <2>3. IsFiniteSet(BelowIn(S, p)) /\ Cardinality(BelowIn(S, p)) <= n - 1
    BY <2>1, <2>2, FS_Subset
  <2>4. QED
    BY <1>1, <2>3, FS_CardinalityType
<1>3. f \in [S -> T]
  BY <1>2
<1>4. \A p \in S, q \in S : f[p] = f[q] => p = q
  <2> SUFFICES ASSUME NEW p \in S, NEW q \in S, p # q PROVE f[p] # f[q]
    OBVIOUS
  <2>1. f[p] = Cardinality(BelowIn(S, p)) /\ f[q] = Cardinality(BelowIn(S, q))
    OBVIOUS
  <2> HIDE DEF f
  <2>2. CASE p < q
    <3>1. f[p] \in Nat /\ f[q] \in Nat /\ f[p] < f[q]
      BY <2>1, <2>2, FewerBelow
    <3>2. QED
      BY <3>1
  <2>3. CASE q < p
    <3>1. f[p] \in Nat /\ f[q] \in Nat /\ f[q] < f[p]
      BY <2>1, <2>3, FewerBelow
    <3>2. QED
      BY <3>1
  <2>4. p \in Nat /\ q \in Nat
    OBVIOUS
  <2>5. QED
    BY <2>2, <2>3, <2>4
<1> HIDE DEF f
<1>5. f \in Injection(S, T)
  BY <1>3, <1>4 DEF Injection, IsInjective
<1>6. IsFiniteSet(T) /\ Cardinality(T) = n
  BY <1>1, FS_Interval
<1>7. f \in Surjection(S, T)
  BY <1>1, <1>5, <1>6, FS_Injection
<1>8. k \in T
  BY <1>1
<1>9. PICK p \in S : f[p] = k
  BY <1>7, <1>8 DEF Surjection
<1>10. QED
  BY <1>9 DEF f

\* The elements of a list are finitely many.
LEMMA RangeFinite ==
  ASSUME NEW s \in Seq(Nat)
  PROVE  IsFiniteSet(Range(s)) /\ Range(s) \subseteq Nat /\ \A i \in 1 .. Len(s) : s[i] \in Range(s)
<1>1. DOMAIN s = 1 .. Len(s) /\ Len(s) \in Nat /\ s \in [1 .. Len(s) -> Nat]
  OBVIOUS
<1>2. s \in Surjection(1 .. Len(s), Range(s))
  BY <1>1 DEF Surjection, Range
<1>3. IsFiniteSet(1 .. Len(s))
  BY <1>1, FS_Interval
<1>4. IsFiniteSet(Range(s))
  BY <1>2, <1>3, FS_Surjection
<1>5. QED
  BY <1>1, <1>4 DEF Range

\* A list without duplicates is sorted into an ascending one of its PCs.
LEMMA SortedAscends ==
  ASSUME NEW s \in Seq(Nat), Unique(s)
  PROVE  /\ Sorted(s) \in [1 .. Len(s) -> Range(s)]
         /\ \A k \in 1 .. Len(s) - 1 : Sorted(s)[k] < Sorted(s)[k + 1]
<1> DEFINE S == Range(s)
<1>1. IsFiniteSet(S) /\ S \subseteq Nat /\ Cardinality(S) = Len(s) /\ Len(s) \in Nat
  BY RangeFinite DEF Unique
<1>2. Sorted(s) = [k \in 1 .. Len(s) |-> CHOOSE p \in S : Cardinality(BelowIn(S, p)) = k - 1]
  BY DEF Sorted, BelowIn
<1> HIDE DEF S
<1>3. \A k \in 1 .. Len(s) : Sorted(s)[k] \in S /\ Cardinality(BelowIn(S, Sorted(s)[k])) = k - 1
  <2> SUFFICES ASSUME NEW k \in 1 .. Len(s)
               PROVE  Sorted(s)[k] \in S /\ Cardinality(BelowIn(S, Sorted(s)[k])) = k - 1
    OBVIOUS
  <2>1. k - 1 \in 0 .. Cardinality(S) - 1
    BY <1>1
  <2>2. \E p \in S : Cardinality(BelowIn(S, p)) = k - 1
    BY <1>1, <2>1, EveryRank
  <2>3. Sorted(s)[k] = CHOOSE p \in S : Cardinality(BelowIn(S, p)) = k - 1
    BY <1>2
  <2>4. QED
    BY <2>2, <2>3
<1>4. Sorted(s) \in [1 .. Len(s) -> S]
  BY <1>2, <1>3
<1>5. ASSUME NEW k \in 1 .. Len(s) - 1
      PROVE  Sorted(s)[k] < Sorted(s)[k + 1]
  <2>1. PICK p \in S, q \in S : p = Sorted(s)[k] /\ q = Sorted(s)[k + 1]
    <3>1. k \in 1 .. Len(s) /\ k + 1 \in 1 .. Len(s)
      BY <1>1
    <3>2. QED
      BY <1>3, <3>1
  <2>2. Cardinality(BelowIn(S, p)) = k - 1 /\ Cardinality(BelowIn(S, q)) = k
    <3>1. k \in 1 .. Len(s) /\ k + 1 \in 1 .. Len(s) /\ (k + 1) - 1 = k
      BY <1>1
    <3>2. QED
      BY <1>3, <2>1, <3>1
  <2>3. p # q /\ p \in Nat /\ q \in Nat
    BY <1>1, <2>2
  <2>4. ~(q < p)
    <3> SUFFICES ASSUME q < p PROVE FALSE
      OBVIOUS
    <3>1. k < k - 1
      BY <1>1, <2>2, FewerBelow, Zenon
    <3>2. QED
      BY <1>1, <3>1
  <2>5. QED
    BY <2>1, <2>3, <2>4
<1>6. QED
  BY <1>4, <1>5 DEF S
-----------------------------------------------------------------------------
(***************************************************************************)
(* Numbers read as octal.  Octal is defined by recursion; that there is    *)
(* such a function is shown by induction, which rests on the               *)
(* well-foundedness of Nat.                                                *)
(***************************************************************************)
\* The order of the naturals, as a relation.
Less == {p \in Nat \X Nat : p[1] < p[2]}
\* Induction in which what holds below n may be used for n.
LEMMA Naturals ==
  ASSUME NEW S, \A n \in Nat : (\A m \in 0 .. n - 1 : m \in S) => n \in S
  PROVE  \A n \in Nat : n \in S
<1> DEFINE T == {n \in Nat : n \notin S}
<1> SUFFICES ASSUME T # {} PROVE FALSE
  OBVIOUS
<1>1. PICK x \in T : \A y \in T : ~(<<y, x>> \in Less)
  <2>1. T \subseteq Nat
    OBVIOUS
  <2>2. IsWellFoundedOn(Less, Nat)
    BY NatLessThanWellFounded, Zenon DEF OpToRel, Less
  <2> HIDE DEF T
  <2>3. QED
    BY <2>1, <2>2, WFMin, Zenon
<1>2. x \in Nat /\ x \notin S
  OBVIOUS
<1>3. \A m \in 0 .. x - 1 : m \in Nat /\ <<m, x>> \in Less
  BY <1>2 DEF Less
<1>4. \A m \in 0 .. x - 1 : m \in S
  BY <1>1, <1>3
<1>5. QED
  BY <1>2, <1>4

\* The value of n when the value of n without its last digit is given by g.
Horner(g, n) == IF n = 0 THEN 0 ELSE 8 * g[n \div 10] + (n % 10)
\* g is Octal up to k.
UpTo(g, k) == \A n \in 0 .. k : g[n] = Horner(g, n)

\* A number without its last digit is smaller.
LEMMA Shorter ==
  ASSUME NEW n \in Nat, n # 0
  PROVE  n \div 10 \in 0 .. n - 1 /\ n % 10 \in 0 .. 9 /\ n = 10 * (n \div 10) + (n % 10)
OBVIOUS

\* Two such functions agree.
LEMMA UpToAgrees ==
  ASSUME NEW g, NEW h, NEW k \in Nat, NEW l \in Nat, UpTo(g, k), UpTo(h, l)
  PROVE  \A n \in Nat : n <= k /\ n <= l => g[n] = h[n]
<1> DEFINE S == {n \in Nat : n <= k /\ n <= l => g[n] = h[n]}
<1>1. ASSUME NEW n \in Nat, \A m \in 0 .. n - 1 : m \in S PROVE n \in S
  <2> SUFFICES ASSUME n <= k, n <= l PROVE g[n] = h[n]
    OBVIOUS
  <2>1. g[n] = Horner(g, n) /\ h[n] = Horner(h, n)
    BY DEF UpTo
  <2>2. CASE n = 0
    BY <2>1, <2>2 DEF Horner
  <2>3. CASE n # 0
    <3>1. PICK m \in 0 .. n - 1 : m = n \div 10 /\ m <= k /\ m <= l
      BY <2>3, Shorter
    <3>2. g[m] = h[m]
      BY <1>1, <3>1
    <3>3. QED
      BY <2>1, <2>3, <3>1, <3>2 DEF Horner
  <2>4. QED
    BY <2>2, <2>3
<1> HIDE DEF S
<1>2. \A n \in Nat : n \in S
  BY <1>1, Naturals
<1>3. QED
  BY <1>2 DEF S

\* There is one up to any number.
LEMMA UpToExists == \A k \in Nat : \E g : UpTo(g, k)
<1> DEFINE S == {k \in Nat : \E g : UpTo(g, k)}
<1>1. ASSUME NEW k \in Nat, \A m \in 0 .. k - 1 : m \in S PROVE k \in S
  <2>1. CASE k = 0
    <3>1. UpTo([n \in {0} |-> 0], 0)
      BY DEF UpTo, Horner
    <3>2. QED
      BY <2>1, <3>1
  <2>2. CASE k # 0
    <3>1. PICK j \in Nat : j = k - 1 /\ j \in S
      BY <1>1, <2>2
    <3>2. PICK g : UpTo(g, j)
      BY <3>1
    <3> DEFINE h == [n \in 0 .. k |-> IF n = k THEN Horner(g, k) ELSE g[n]]
    <3>3. \A n \in 0 .. j : h[n] = g[n]
      BY <2>2, <3>1
    <3>4. h[k] = Horner(g, k)
      OBVIOUS
    <3> HIDE DEF h
    <3>5. ASSUME NEW n \in 0 .. k PROVE Horner(h, n) = Horner(g, n)
      <4>1. CASE n = 0
        BY <4>1 DEF Horner
      <4>2. CASE n # 0
        <5>1. n \div 10 \in 0 .. j
          BY <2>2, <3>1, <4>2, Shorter
        <5>2. h[n \div 10] = g[n \div 10]
          BY <3>3, <5>1
        <5>3. QED
          BY <4>2, <5>2 DEF Horner
      <4>3. QED
        BY <4>1, <4>2
    <3>6. ASSUME NEW n \in 0 .. k PROVE h[n] = Horner(h, n)
      <4>1. CASE n = k
        BY <3>4, <3>5, <4>1
      <4>2. CASE n # k
        <5>1. n \in 0 .. j
          BY <3>1, <4>2
        <5>2. g[n] = Horner(g, n)
          BY <3>2, <5>1 DEF UpTo
        <5>3. QED
          BY <3>3, <3>5, <5>1, <5>2
      <4>3. QED
        BY <4>1, <4>2
    <3>7. UpTo(h, k)
      BY <3>6 DEF UpTo
    <3>8. QED
      BY <3>7
  <2>3. QED
    BY <2>1, <2>2
<1> HIDE DEF S
<1>2. \A k \in Nat : k \in S
  BY <1>1, Naturals
<1>3. QED
  BY <1>2 DEF S

\* Octal is what its definition says.
LEMMA OctalIs == \A n \in Nat : Octal[n] = Horner(Octal, n)
<1> DEFINE G(k) == CHOOSE g : UpTo(g, k)
           F == [n \in Nat |-> G(n)[n]]
           Defining(f) == f = [n \in Nat |-> IF n = 0 THEN 0 ELSE 8 * f[n \div 10] + (n % 10)]
<1>1. \A k \in Nat : UpTo(G(k), k)
  BY UpToExists
<1> HIDE DEF G
<1>2. ASSUME NEW n \in Nat PROVE F[n] = IF n = 0 THEN 0 ELSE 8 * F[n \div 10] + (n % 10)
  <2>1. F[n] = G(n)[n] /\ G(n)[n] = Horner(G(n), n)
    BY <1>1 DEF UpTo
  <2>2. CASE n = 0
    BY <2>1, <2>2 DEF Horner
  <2>3. CASE n # 0
    <3>1. PICK m \in Nat : m = n \div 10 /\ m <= n
      BY <2>3, Shorter
    <3>2. F[m] = G(m)[m]
      OBVIOUS
    <3>3. G(n)[m] = G(m)[m]
      BY <1>1, <3>1, UpToAgrees
    <3>4. QED
      BY <2>1, <2>3, <3>1, <3>2, <3>3 DEF Horner
  <2>4. QED
    BY <2>2, <2>3
<1>3. Defining(F)
  <2>1. F = [n \in Nat |-> F[n]]
    OBVIOUS
  <2> HIDE DEF F
  <2>2. QED
    BY <1>2, <2>1
<1> HIDE DEF F
<1>4. Octal = CHOOSE f : Defining(f)
  BY DEF Octal
<1>5. Defining(Octal)
  BY <1>3, <1>4
<1>6. QED
  BY <1>5 DEF Horner

\* Read as octal, digits are worth no more than read as decimal.
LEMMA OctalIsLess == \A n \in Nat : Octal[n] \in 0 .. n
<1> DEFINE S == {n \in Nat : Octal[n] \in 0 .. n}
<1>1. ASSUME NEW n \in Nat, \A m \in 0 .. n - 1 : m \in S PROVE n \in S
  <2>1. CASE n = 0
    BY <2>1, OctalIs DEF Horner
  <2>2. CASE n # 0
    <3>1. PICK m \in 0 .. n - 1 : m = n \div 10 /\ n % 10 \in 0 .. 9 /\ n = 10 * m + (n % 10)
      BY <2>2, Shorter
    <3>2. Octal[m] \in 0 .. m
      BY <1>1
    <3>3. Octal[n] = 8 * Octal[m] + (n % 10)
      BY <2>2, <3>1, OctalIs DEF Horner
    <3>4. 8 * Octal[m] + (n % 10) \in 0 .. n
      BY <3>1, <3>2
    <3>5. QED
      BY <3>3, <3>4
  <2>3. QED
    BY <2>1, <2>2
<1> HIDE DEF S
<1>2. \A n \in Nat : n \in S
  BY <1>1, Naturals
<1>3. QED
  BY <1>2 DEF S
-----------------------------------------------------------------------------
(***************************************************************************)
(* The table of watchpoints.                                               *)
(***************************************************************************)
\* A number of ten digits is read as what it is.
LEMMA TenDigits ==
  ASSUME NEW n \in Nat, ~ReadsAsOctal(n)
  PROVE  Readable(n) /\ Read(n) = n
<1>1. Readable(n)
  BY DEF Readable
<1>2. Read(n) = n
  BY Zenon DEF Read
<1>3. QED
  BY <1>1, <1>2

\* Read as octal or not, a number of decimal digits is not read as a larger one.
LEMMA ReadIsLess ==
  ASSUME NEW n \in Nat
  PROVE  Read(n) \in 0 .. n
<1>1. CASE ReadsAsOctal(n)
  <2>1. Read(n) = Octal[n]
    BY <1>1, Zenon DEF Read
  <2>2. QED
    BY <2>1, OctalIsLess
<1>2. CASE ~ReadsAsOctal(n)
  BY <1>2, TenDigits
<1>3. QED
  BY <1>1, <1>2

\* No PC of the list has a digit above seven where bash reads octal.
AllReadable(s) == \A i \in DOMAIN s : Readable(s[i])

\* The addresses of the table ascend: the sentinels, from the last of them to the
\* first PC, and the PCs.
LEMMA AddrsAscend ==
  ASSUME NEW s \in Inputs, Accepted(s), AllReadable(s)
  PROVE  \A k \in 1 .. Num - 1 : SlotAddrs(s)[k] < SlotAddrs(s)[k + 1]
<1>1. /\ s \in Seq(Nat) /\ Num \in Nat /\ Len(s) \in 1 .. Num
      /\ Unique(s) /\ SentinelsFit(s)
  BY ConfigAssumption DEF Accepted
<1>2. PICK m \in Nat, l \in Nat : m = Num - Len(s) /\ l = Len(s) /\ l # 0
  BY <1>1
<1>3. PICK a : a = [n \in 1 .. m |-> 2 * n - 1]
  OBVIOUS
<1>4. PICK b : b = Sorted(s)
  OBVIOUS
<1>5. Range(s) \subseteq Nat
  BY <1>1, RangeFinite
<1>6. /\ b \in [1 .. l -> Range(s)] /\ \A k \in 1 .. l - 1 : b[k] < b[k + 1]
  BY <1>1, <1>2, <1>4, SortedAscends
<1>7. /\ a \in Seq(Nat) /\ Len(a) = m /\ \A n \in 1 .. m : a[n] = 2 * n - 1
      /\ b \in Seq(Nat) /\ Len(b) = l
  <2>1. \A n \in 1 .. m : 2 * n - 1 \in Nat
    OBVIOUS
  <2>2. a \in [1 .. m -> Nat] /\ b \in [1 .. l -> Nat]
    BY <1>3, <1>5, <1>6, <2>1
  <2>3. QED
    BY <1>3, <2>2
<1>8. SlotAddrs(s) = a \o b
  BY <1>2, <1>3, <1>4 DEF SlotAddrs, Sentinels
<1>9. PICK c : c = a \o b
  OBVIOUS
<1>10. /\ \A i \in 1 .. m : c[i] = 2 * i - 1
       /\ \A k \in m + 1 .. m + l : c[k] = b[k - m]
  BY <1>7, <1>9, ConcatFirst, ConcatSecond
<1>11. m > 0 => 2 * m - 1 < b[1]
  <2> SUFFICES ASSUME m > 0 PROVE 2 * m - 1 < b[1]
    OBVIOUS
  <2>1. 1 \in 1 .. l
    BY <1>2
  <2>2. b[1] \in Range(s) /\ b[1] \in Nat
    BY <1>5, <1>6, <2>1
  <2>3. Readable(b[1])
    BY <2>2, Zenon DEF AllReadable, Range
  <2>4. Read(b[1]) \in 0 .. b[1]
    BY <2>2, ReadIsLess
  <2>5. Sentinels(s) = m /\ LastSentinel(s) = 2 * m - 1
    BY <1>2 DEF Sentinels, LastSentinel
  <2>6. ~(Readable(b[1]) /\ LastSentinel(s) >= Read(b[1]))
    BY <1>1, <1>4, <2>5, Zenon DEF SentinelsFit
  <2>7. QED
    BY <2>2, <2>3, <2>4, <2>5, <2>6
<1>12. ASSUME NEW k \in 1 .. Num - 1
       PROVE  c[k] < c[k + 1]
  <2>1. m + l = Num
    BY <1>1, <1>2
  <2>2. CASE k + 1 <= m
    BY <1>10, <2>2
  <2>3. CASE k = m
    <3>1. c[k] = 2 * m - 1 /\ c[k + 1] = b[1] /\ m > 0
      <4>1. k \in 1 .. m /\ k + 1 \in m + 1 .. m + l /\ (k + 1) - m = 1
        <5>1. k >= 1 /\ l >= 1 /\ k \in Nat
          BY <1>1, <1>2
        <5>2. QED
          BY <2>3, <5>1
      <4>2. QED
        BY <1>10, <2>3, <4>1
    <3>2. QED
      BY <1>11, <3>1
  <2>4. CASE k > m
    <3>1. PICK n \in 1 .. l - 1 : n = k - m
      BY <2>1, <2>4
    <3>2. /\ k \in m + 1 .. m + l /\ k - m = n
          /\ k + 1 \in m + 1 .. m + l /\ (k + 1) - m = n + 1
      BY <2>1, <2>4, <3>1
    <3>3. c[k] = b[n] /\ c[k + 1] = b[n + 1]
      BY <1>10, <3>2
    <3>4. QED
      BY <1>6, <3>3
  <2>5. QED
    BY <2>2, <2>3, <2>4
<1>13. QED
  BY <1>8, <1>9, <1>12

\* Addresses of different slots are different registers, and none is a command or
\* one of the others.
LEMMA AddrsApart ==
  ASSUME NEW p \in Slots, NEW q \in Slots
  PROVE  /\ Addr(p) = Addr(q) => p = q
         /\ Addr(p) # Cmd(q) /\ Addr(p) \notin Others
<1>1. Addr(p) = Addr(q) => p = q
  BY DEF Addr
<1>2. Addr(p) # Cmd(q)
  BY DEF Addr, Cmd
<1>3. Addr(p) \notin Others
  BY DEF Addr, Others, Control, Data, Timestamps
<1>4. QED
  BY <1>1, <1>2, <1>3

\* Of the writes of the table only one is to the address of a slot.
LEMMA WriteOfSlot ==
  ASSUME NEW slot \in Slots
  PROVE  /\ 2 * slot + 1 \in 1 .. 2 * Num
         /\ SlotWrites(pcs)[2 * slot + 1] = Write(Addr(slot), SlotAddrs(pcs)[slot + 1])
         /\ \A i \in 2 * slot + 2 .. 2 * Num : SlotWrites(pcs)[i].reg # Addr(slot)
<1>1. Num \in Nat /\ slot \in 0 .. Num - 1
  BY ConfigAssumption DEF Slots
<1>2. /\ 2 * slot + 1 \in 1 .. 2 * Num /\ (2 * slot + 1) % 2 = 1
      /\ ((2 * slot + 1) - 1) \div 2 = slot
  BY <1>1
<1>3. SlotWrites(pcs)[2 * slot + 1] = Write(Addr(slot), SlotAddrs(pcs)[slot + 1])
  BY <1>2, Zenon DEF SlotWrites
<1>4. ASSUME NEW i \in 2 * slot + 2 .. 2 * Num
      PROVE  SlotWrites(pcs)[i].reg # Addr(slot)
  <2>1. i \in 1 .. 2 * Num
    BY <1>1
  <2>2. PICK other \in Slots : other = (i - 1) \div 2 /\ (i % 2 = 1 => other # slot)
    <3>1. (i - 1) \div 2 \in Slots
      BY <1>1, SMT DEF Slots
    <3>2. i % 2 = 1 => (i - 1) \div 2 # slot
      BY <1>1
    <3>3. QED
      BY <3>1, <3>2
  <2>3. SlotWrites(pcs)[i] = IF i % 2 = 1 THEN Write(Addr(other), SlotAddrs(pcs)[other + 1])
                             ELSE Write(Cmd(other), SlotCmd(pcs, other))
    BY <2>1, <2>2, Zenon DEF SlotWrites
  <2>4. SlotWrites(pcs)[i].reg = Cmd(other) \/ (SlotWrites(pcs)[i].reg = Addr(other) /\ other # slot)
    BY <2>2, <2>3 DEF Write
  <2>5. QED
    BY <2>4, AddrsApart
<1>5. QED
  BY <1>2, <1>3, <1>4

\* When the script ends without an alarm the address of each slot is the list's.
LEMMA SlotHolds ==
  ASSUME IInv, Done, failed = {}, Accepted(pcs), NEW slot \in Slots
  PROVE  regs[Addr(slot)] = SlotAddrs(pcs)[slot + 1]
<1>1. Num \in Nat /\ slot \in 0 .. Num - 1
  BY ConfigAssumption DEF Slots
<1>2. PICK n \in Nat : n = 2 * slot + 1
  BY <1>1
<1>3. PICK i \in Nat : i = n + 5
  OBVIOUS
<1>4. /\ Len(Script) = 2 * Num + 6 /\ step \in Nat
      /\ \A k \in 1 .. 2 * Num : Script[k + 5] = SlotWrites(pcs)[k]
      /\ Script[2 * Num + 6].reg \in Others
  BY ScriptShape DEF TableInScript, IInv, Types
<1>5. n \in 1 .. 2 * Num /\ Script[i] = Write(Addr(slot), SlotAddrs(pcs)[slot + 1])
  BY <1>2, <1>3, <1>4, WriteOfSlot
<1>6. Script[i].reg = Addr(slot) /\ Script[i].val = SlotAddrs(pcs)[slot + 1]
  BY <1>5 DEF Write
<1>7. ASSUME NEW j \in i + 1 .. Len(Script) PROVE Script[j].reg # Addr(slot)
  <2>1. CASE j = 2 * Num + 6
    BY <1>4, <2>1, AddrsApart
  <2>2. CASE j # 2 * Num + 6
    <3>1. PICK k \in Nat : k = j - 5 /\ k \in n + 1 .. 2 * Num /\ k + 5 = j
      <4>1. j - 5 \in n + 1 .. 2 * Num /\ j - 5 \in Nat /\ (j - 5) + 5 = j
        BY <1>1, <1>3, <1>4, <1>5, <2>2
      <4>2. QED
        BY <4>1
    <3>2. Script[j] = SlotWrites(pcs)[k]
      BY <1>4, <1>5, <3>1
    <3>3. k \in 2 * slot + 2 .. 2 * Num
      BY <1>1, <1>2, <3>1
    <3>4. QED
      BY <3>2, <3>3, WriteOfSlot
  <2>3. QED
    BY <2>1, <2>2
<1>8. i \in 1 .. Len(Script) /\ i < step
  BY <1>1, <1>3, <1>4, <1>5 DEF Done
<1>9. Settled(i)
  BY <1>6, <1>7 DEF Settled
<1>10. QED
  BY <1>6, <1>8, <1>9 DEF IInv, Configured
-----------------------------------------------------------------------------
(***************************************************************************)
(* trc_fs_cfg_eth.sh.                                                      *)
(***************************************************************************)
EthRegisters == {"control", "bus1c", "bus30", "mac0", "mac1", "ip"}
EthValid == MacValid /\ IpValid

EthTypes ==
  /\ args \in Arguments /\ ethStep \in 0 .. 7
  /\ DOMAIN ethRegs = EthRegisters /\ ethRegs = [r \in EthRegisters |-> ethRegs[r]]

\* The first write comes after all checks; a call refused writes nothing.
Refused == ethStep = 0 \/ ~EthValid => \A r \in EthRegisters : ethRegs[r] = Earlier
Checked == ethStep \in 1 .. 6 => EthValid

\* What has been written is there, unless devmem may have refused it.
Stored ==
  EthValid =>
    \A k \in 1 .. 6 :
      k < ethStep => ethRegs[EthScript[k].reg] = EthScript[k].val \/ (k = 6 /\ OctetBeyond)

EthInv == EthTypes /\ Refused /\ Checked /\ Stored

\* Six writes, in the three parts of the script.
InThree(q, h, m, t) ==
  /\ \A i \in 1 .. 3 : q[i] = h[i]
  /\ \A i \in 4 .. 5 : q[i] = m[i - 3]
  /\ q[6] = t[1]
\* They are the elements of the parts.
LEMMA SixInThree ==
  ASSUME NEW U, NEW h \in Seq(U), NEW m \in Seq(U), NEW t \in Seq(U),
         Len(h) = 3, Len(m) = 2, Len(t) = 1
  PROVE  InThree(Chain(h, m, t), h, m, t)
<1>0. PICK q : q = (h \o m) \o t
  OBVIOUS
<1>1. PICK p : p = h \o m
  OBVIOUS
<1>2. p \in Seq(U) /\ Len(p) = Len(h) + Len(m)
  BY <1>1, ConcatProperties
<1>3. Len(p) = 5
  BY <1>2
<1>4. ASSUME NEW i \in 1 .. Len(p) PROVE q[i] = p[i]
  BY <1>0, <1>1, <1>2, ConcatFirst
<1>5. ASSUME NEW i \in 1 .. 3 PROVE q[i] = h[i]
  <2>1. i \in 1 .. Len(h) /\ i \in 1 .. Len(p)
    BY <1>3
  <2>2. p[i] = h[i]
    BY <1>1, <2>1, ConcatFirst
  <2>3. QED
    BY <1>4, <2>1, <2>2
<1>6. ASSUME NEW i \in 4 .. 5 PROVE q[i] = m[i - 3]
  <2>1. i \in Len(h) + 1 .. Len(h) + Len(m) /\ i \in 1 .. Len(p) /\ i - Len(h) = i - 3
    BY <1>3
  <2>2. p[i] = m[i - Len(h)]
    BY <1>1, <2>1, ConcatSecond
  <2>3. QED
    BY <1>4, <2>1, <2>2
<1>7. q[6] = t[1]
  <2>1. PICK k : k = 6
    OBVIOUS
  <2>2. k \in Len(p) + 1 .. Len(p) + Len(t) /\ k - Len(p) = 1
    BY <1>3, <2>1
  <2>3. q[k] = t[k - Len(p)]
    BY <1>0, <1>1, <1>2, <2>2, ConcatSecond
  <2>4. QED
    BY <2>1, <2>2, <2>3
<1>8. QED
  BY <1>0, <1>5, <1>6, <1>7 DEF InThree, Chain

\* The registers in the order of the writes.
EthOrder == << "control", "bus1c", "bus30", "mac0", "mac1", "ip" >>

\* The six writes are to them, the last three with what the addresses say.
LEMMA EthScriptShape ==
  /\ \A k \in 1 .. 6 : EthScript[k].reg = EthOrder[k]
  /\ EthScript[4].val = Reverse(SubSeq(Fields(args.mac), 1, 4))
  /\ EthScript[5].val = Reverse(SubSeq(Fields(args.mac), 5, 6))
  /\ EthScript[6].val = IpReg
<1>1. PICK a, b, c, d, e, f :
        /\ a = EthWrite("control", \h1936) /\ b = EthWrite("bus1c", \h5a0)
        /\ c = EthWrite("bus30", \h20)
        /\ d = EthWrite("mac0", Reverse(SubSeq(Fields(args.mac), 1, 4)))
        /\ e = EthWrite("mac1", Reverse(SubSeq(Fields(args.mac), 5, 6)))
        /\ f = EthWrite("ip", IpReg)
  OBVIOUS
<1>2. EthScript = (<<a, b, c>> \o <<d, e>>) \o <<f>>
  BY <1>1 DEF EthScript, MacRegs
<1>3. PICK U : U = {a, b, c, d, e, f}
  OBVIOUS
<1>4. PICK h, m, t : h = <<a, b, c>> /\ m = <<d, e>> /\ t = <<f>>
  OBVIOUS
<1>5. /\ h \in Seq(U) /\ m \in Seq(U) /\ t \in Seq(U)
      /\ Len(h) = 3 /\ Len(m) = 2 /\ Len(t) = 1
      /\ h[1] = a /\ h[2] = b /\ h[3] = c /\ m[1] = d /\ m[2] = e /\ t[1] = f
  BY <1>3, <1>4
<1>8. PICK q : q = Chain(h, m, t)
  OBVIOUS
<1>9. /\ q[1] = a /\ q[2] = b /\ q[3] = c /\ q[4] = d /\ q[5] = e /\ q[6] = f
  <2>1. InThree(Chain(h, m, t), h, m, t)
    BY <1>5, SixInThree, Zenon
  <2>2. InThree(q, h, m, t)
    BY <1>8, <2>1, Zenon
  <2>3. /\ q[1] = h[1] /\ q[2] = h[2] /\ q[3] = h[3]
        /\ q[4] = m[4 - 3] /\ q[5] = m[5 - 3] /\ q[6] = t[1]
    BY <2>2 DEF InThree
  <2>4. QED
    BY <1>5, <2>3
<1>10. EthScript = q
  BY <1>2, <1>4, <1>8, Zenon DEF Chain
<1>11. \A k \in 1 .. 6 : k = 1 \/ k = 2 \/ k = 3 \/ k = 4 \/ k = 5 \/ k = 6
  OBVIOUS
<1>12. \A k \in 1 .. 6 : q[k].reg = EthOrder[k]
  BY <1>1, <1>9, <1>11 DEF EthWrite, EthOrder
<1>13. QED
  BY <1>1, <1>9, <1>10, <1>12 DEF EthWrite

\* Before the checks nothing is written.
LEMMA EthInitInv == EthInit => EthInv
<1> SUFFICES ASSUME EthInit PROVE EthInv
  OBVIOUS
<1>1. EthTypes /\ Refused
  BY DEF EthInit, EthTypes, EthRegisters, Refused
<1>2. Checked /\ Stored
  BY DEF EthInit, Checked, Stored
<1>3. QED
  BY <1>1, <1>2 DEF EthInv

\* A write leaves the registers of the others alone.
LEMMA EthStoreInv ==
  ASSUME EthInv, EthStore
  PROVE  EthInv'
<1>1. /\ ethStep \in 1 .. 6 /\ ethStep' = ethStep + 1 /\ args' = args
      /\ \/ ethRegs' = [ethRegs EXCEPT ![EthScript[ethStep].reg] = EthScript[ethStep].val]
         \/ EthScript[ethStep].reg = "ip" /\ OctetBeyond /\ ethRegs' = ethRegs
  BY DEF EthStore, EthEnd
<1>2. EthScript' = EthScript /\ EthValid' = EthValid /\ OctetBeyond' = OctetBeyond
  BY <1>1 DEF EthScript, MacRegs, IpReg, OctetBeyond, EthValid, MacValid, IpValid
<1>3. EthValid
  BY <1>1 DEF EthInv, Checked
<1>4. PICK reg \in EthRegisters : reg = EthScript[ethStep].reg /\ reg = EthOrder[ethStep]
  <2>1. EthOrder[ethStep] \in EthRegisters
    BY <1>1 DEF EthOrder, EthRegisters
  <2>2. QED
    BY <1>1, <2>1, EthScriptShape
<1>5. /\ DOMAIN ethRegs' = EthRegisters
      /\ ethRegs' = [r \in EthRegisters |-> ethRegs'[r]]
      /\ ethRegs'[reg] = EthScript[ethStep].val \/ (reg = "ip" /\ OctetBeyond)
      /\ \A r \in EthRegisters : r # reg => ethRegs'[r] = ethRegs[r]
  BY <1>1, <1>4 DEF EthInv, EthTypes
<1>6. EthTypes'
  BY <1>1, <1>5 DEF EthInv, EthTypes
<1>7. Refused' /\ Checked'
  BY <1>1, <1>2, <1>3 DEF Refused, Checked
<1>8. Stored'
  <2> SUFFICES ASSUME NEW k \in 1 .. 6, k < ethStep + 1
               PROVE  \/ ethRegs'[EthScript[k].reg] = EthScript[k].val
                      \/ k = 6 /\ OctetBeyond
    BY <1>1, <1>2 DEF Stored
  <2>1. CASE k = ethStep
    <3>1. reg = "ip" => k = 6
      BY <1>1, <1>4, <2>1 DEF EthOrder
    <3>2. QED
      BY <1>4, <1>5, <2>1, <3>1
  <2>2. CASE k < ethStep
    <3>1. EthScript[k].reg = EthOrder[k] /\ EthOrder[k] \in EthRegisters /\ EthOrder[k] # reg
      BY <1>1, <1>4, <2>2, EthScriptShape DEF EthOrder, EthRegisters
    <3>2. ethRegs'[EthScript[k].reg] = ethRegs[EthScript[k].reg]
      BY <1>5, <3>1
    <3>3. QED
      BY <1>3, <2>2, <3>2 DEF EthInv, Stored
  <2>3. QED
    BY <1>1, <2>1, <2>2
<1>9. QED
  BY <1>6, <1>7, <1>8 DEF EthInv

\* Every step keeps it.
LEMMA EthStepInv == EthInv /\ [EthNext]_ethVars => EthInv'
<1> SUFFICES ASSUME EthInv, [EthNext]_ethVars PROVE EthInv'
  OBVIOUS
<1>1. CASE EthCheck
  <2>1. /\ ethStep = 0 /\ args' = args /\ ethRegs' = ethRegs
        /\ ethStep' = IF EthValid THEN 1 ELSE 7
    BY <1>1 DEF EthCheck, EthEnd, EthValid
  <2>2. EthScript' = EthScript /\ EthValid' = EthValid /\ OctetBeyond' = OctetBeyond
    BY <2>1 DEF EthScript, MacRegs, IpReg, OctetBeyond, EthValid, MacValid, IpValid
  <2>3. ethStep' \in 0 .. 7 /\ (EthValid => ethStep' = 1) /\ (~EthValid => ethStep' = 7)
    BY <2>1
  <2>4. EthTypes' /\ Refused'
    BY <2>1, <2>2, <2>3 DEF EthInv, EthTypes, Refused
  <2>5. Checked' /\ Stored'
    BY <2>1, <2>2, <2>3 DEF Checked, Stored
  <2>6. QED
    BY <2>4, <2>5 DEF EthInv
<1>2. CASE EthStore
  BY <1>2, EthStoreInv
<1>3. CASE UNCHANGED ethVars
  BY <1>3 DEF ethVars, EthInv, EthTypes, Refused, Checked, Stored, EthScript, MacRegs,
              IpReg, OctetBeyond, EthValid, MacValid, IpValid
<1>4. QED
  BY <1>1, <1>2, <1>3 DEF EthNext

\* The fields of a word are a sequence.
LEMMA FieldsAreList ==
  ASSUME NEW S, NEW word \in Seq(S)
  PROVE  Fields(word) \in Seq(S)
<1>1. word # <<>> => Front(word) \in Seq(S)
  BY DEF Front
<1>2. QED
  BY <1>1 DEF Fields

\* Reversed twice a sequence is what it was.
LEMMA ReversedTwice ==
  ASSUME NEW S, NEW s \in Seq(S)
  PROVE  Reverse(Reverse(s)) = s
<1>1. PICK n \in Nat : n = Len(s)
  OBVIOUS
<1>2. s \in [1 .. n -> S]
  BY <1>1
<1>3. PICK r : r = [i \in 1 .. n |-> s[n - i + 1]]
  OBVIOUS
<1>4. Reverse(s) = r
  BY <1>1, <1>3 DEF Reverse
<1>5. r \in [1 .. n -> S]
  <2>1. \A i \in 1 .. n : n - i + 1 \in 1 .. n
    OBVIOUS
  <2>2. QED
    BY <1>2, <1>3, <2>1
<1>6. Len(r) = n
  BY <1>5
<1>7. Reverse(r) = [i \in 1 .. n |-> r[n - i + 1]]
  BY <1>6 DEF Reverse
<1>8. \A i \in 1 .. n : r[n - i + 1] = s[i]
  <2> TAKE i \in 1 .. n
  <2>1. n - i + 1 \in 1 .. n /\ n - (n - i + 1) + 1 = i
    OBVIOUS
  <2>2. QED
    BY <1>3, <2>1
<1>9. QED
  BY <1>2, <1>4, <1>7, <1>8

\* An address of six bytes is its first four and its last two.
LEMMA FourAndTwo ==
  ASSUME NEW S, NEW s \in Seq(S), Len(s) = 6
  PROVE  /\ SubSeq(s, 1, 4) \in Seq(S) /\ SubSeq(s, 5, 6) \in Seq(S)
         /\ SubSeq(s, 1, 4) \o SubSeq(s, 5, 6) = s
<1>1. \A i \in 1 .. Len(s) : s[i] \in S
  BY ElementOfSeq
<1>2. (\A i \in 1 .. 4 : s[i] \in S) /\ (\A i \in 5 .. 6 : s[i] \in S)
  <2>1. 1 .. 4 \subseteq 1 .. Len(s) /\ 5 .. 6 \subseteq 1 .. Len(s)
    OBVIOUS
  <2>2. QED
    BY <1>1, <2>1, Zenon
<1>3. SubSeq(s, 1, 4) \in Seq(S)
  <2>1. 1 \in Int /\ 4 \in Int
    OBVIOUS
  <2>2. QED
    BY <1>2, <2>1, SubSeqProperties, Zenon
<1>4. SubSeq(s, 5, 6) \in Seq(S)
  <2>1. 5 \in Int /\ 6 \in Int
    OBVIOUS
  <2>2. QED
    BY <1>2, <2>1, SubSeqProperties, Zenon
<1>5. SubSeq(s, 1, 4) \o SubSeq(s, 4 + 1, 6) = SubSeq(s, 1, 6)
  <2>1. 1 \in 1 .. Len(s) + 1 /\ 4 \in 1 - 1 .. Len(s) /\ 6 \in 4 .. Len(s)
    OBVIOUS
  <2>2. QED
    BY <2>1, ConcatAdjacentSubSeq, Zenon
<1>6. SubSeq(s, 1, 6) = s
  BY SubSeqFull, Zenon
<1>7. 4 + 1 = 5
  OBVIOUS
<1>8. QED
  BY <1>3, <1>4, <1>5, <1>6, <1>7
-----------------------------------------------------------------------------
(***************************************************************************)
(* The two scripts, one after the other.                                   *)
(***************************************************************************)
\* trc_fs_cfg_trace.sh runs after the other as it does alone.
LEMMA TraceRuns == SetupSpec => Spec
<1>1. SetupInit => Init
  BY DEF SetupInit
<1>2. [SetupNext]_setupVars => [Next]_vars
  BY DEF SetupNext, setupVars
<1>3. QED
  BY <1>1, <1>2, PTL DEF SetupSpec, Spec

\* And trc_fs_cfg_eth.sh, before it.
LEMMA EthRuns == SetupSpec => EthInit /\ [][EthNext]_ethVars
<1>1. SetupInit => EthInit
  BY DEF SetupInit
<1>2. [SetupNext]_setupVars => [EthNext]_ethVars
  BY DEF SetupNext, setupVars
<1>3. QED
  BY <1>1, <1>2, PTL DEF SetupSpec
-----------------------------------------------------------------------------
(***************************************************************************)
(* What the scripts promise.                                               *)
(***************************************************************************)
\* What the theorems on the trace unit rest on, for any table, any number of tries
\* and any bus.
THEOREM Invariance == SetupSpec => []IInv
<1>1. Init => IInv
  BY InitIInv
<1>2. IInv /\ [Next]_vars => IInv'
  BY StepIInv
<1>3. QED
  BY <1>1, <1>2, TraceRuns, PTL DEF Spec

\* What the theorem on the addresses rests on.
THEOREM EthInvariance == SetupSpec => []EthInv
BY EthInitInv, EthStepInv, EthRuns, PTL

\* verified_write raises no alarm on a bus that fails fewer writes in a row than it
\* makes.
THEOREM AlarmsAreTrue == SetupSpec => []NoFalseAlarm
<1>1. IInv => NoFalseAlarm
  BY DEF IInv, Types, Tries, NoFalseAlarm
<1>2. QED
  BY <1>1, Invariance, PTL

\* Enable is set last: until then the unit is not enabled, also if an earlier run
\* left it so, and whatever half a write leaves in the register.
THEOREM EnabledLast == SetupSpec => []NotEnabledWhileConfiguring
<1>1. IInv => NotEnabledWhileConfiguring
  <2> SUFFICES ASSUME IInv, ~stuck, step \in 3 .. Len(Script) - 1
               PROVE  regs[Control] # "Enable"
    BY DEF NotEnabledWhileConfiguring
  <2>1. Len(Script) \in Nat /\ stuck = FALSE
    BY ScriptShape DEF IInv, Types
  <2>2. CASE step = 3
    BY <2>1, <2>2, ConfigAssumption DEF IInv, Configuring
  <2>3. CASE step \in 4 .. Len(Script) - 1
    BY <2>1, <2>3 DEF IInv, Configuring
  <2>4. QED
    BY <2>1, <2>2, <2>3
<1>2. QED
  BY <1>1, Invariance, PTL

\* At the end every register without an alarm holds what was last written to it,
\* however often the bus lost or split a write.
THEOREM EndIsConfigured == SetupSpec => []DoneMeansConfigured
<1>1. IInv => DoneMeansConfigured
  <2> SUFFICES ASSUME IInv, Done, NEW i \in DOMAIN Script, Script[i].reg \notin failed,
                      \A j \in i + 1 .. Len(Script) : Script[j].reg # Script[i].reg
               PROVE  regs[Script[i].reg] = Script[i].val
    BY DEF DoneMeansConfigured
  <2>1. Len(Script) \in Nat /\ DOMAIN Script = 1 .. Len(Script) /\ step \in Nat
    BY ScriptShape DEF IInv, Types
  <2>2. i \in 1 .. Len(Script) /\ i < step
    BY <2>1 DEF Done
  <2>3. Settled(i)
    BY DEF Settled
  <2>4. QED
    BY <2>2, <2>3 DEF IInv, Configured
<1>2. QED
  BY <1>1, Invariance, PTL

\* ctrace_set_watchpoints accepts every list that makes an ascending table, as far as
\* bash reads its PCs as they are meant.
THEOREM ValidIsAccepted == SetupSpec => []ValidAccepted
<1>1. IInv => ValidAccepted
  <2> SUFFICES ASSUME IInv, Valid(pcs), ReadAsMeant(pcs), Sentinels(pcs) > 0
               PROVE  ~(LastSentinel(pcs) >= Read(Sorted(pcs)[1]))
    <3>1. (Sentinels(pcs) > 0 => ~(LastSentinel(pcs) >= Read(Sorted(pcs)[1]))) => SentinelsFit(pcs)
      BY Zenon DEF SentinelsFit
    <3>2. Valid(pcs) /\ SentinelsFit(pcs) => Accepted(pcs)
      BY Zenon DEF Valid, Accepted
    <3>3. QED
      BY <3>1, <3>2, Zenon DEF ValidAccepted
  <2>1. pcs \in Seq(Nat) /\ Unique(pcs) /\ Len(pcs) \in 1 .. Num /\ Num \in Nat
    BY ConfigAssumption DEF Valid, IInv, Types
  <2>2. PICK i \in DOMAIN pcs : Sorted(pcs)[1] = pcs[i]
    <3>1. Sorted(pcs)[1] \in Range(pcs)
      BY <2>1, SortedAscends
    <3>2. QED
      BY <3>1 DEF Range
  <2>3. pcs[i] \in Nat /\ ~ReadsAsOctal(pcs[i]) /\ pcs[i] > LastSentinel(pcs)
    BY <2>1 DEF ReadAsMeant, Valid
  <2>4. LastSentinel(pcs) \in Int
    BY <2>1 DEF LastSentinel, Sentinels
  <2>5. QED
    BY <2>2, <2>3, <2>4, TenDigits
<1>2. QED
  BY <1>1, Invariance, PTL

\* The final table is strictly ascending, sentinels and PCs, if bash can read every
\* PC: those it takes for octal it takes for smaller ones, which is on the safe side.
THEOREM TableIsAscending == SetupSpec => [](AllReadable(pcs) => TableAscending)
<1>1. IInv => (AllReadable(pcs) => TableAscending)
  <2> SUFFICES ASSUME IInv, AllReadable(pcs), Done, failed = {}, Accepted(pcs),
                      NEW s \in 0 .. Num - 2
               PROVE  regs[Addr(s)] < regs[Addr(s + 1)]
    BY DEF TableAscending
  <2>1. pcs \in Inputs /\ Num \in Nat
    BY ConfigAssumption DEF IInv, Types
  <2>2. s \in Slots /\ s + 1 \in Slots /\ s + 1 \in 1 .. Num - 1
    BY <2>1 DEF Slots
  <2>3. SlotAddrs(pcs)[s + 1] < SlotAddrs(pcs)[(s + 1) + 1]
    BY <2>1, <2>2, AddrsAscend
  <2>4. /\ regs[Addr(s)] = SlotAddrs(pcs)[s + 1]
        /\ regs[Addr(s + 1)] = SlotAddrs(pcs)[(s + 1) + 1]
    BY <2>2, SlotHolds
  <2>5. QED
    BY <2>3, <2>4
<1>2. QED
  BY <1>1, Invariance, PTL

\* When trc_fs_cfg_eth.sh has ended the frames go to the host it was given, or, if
\* one of the addresses is wrong, nothing has been written; octets with a leading
\* zero, and all of an address with one beyond what [ reads, may become others.
THEOREM DestinationIsWhole == SetupSpec => []DestinationWhole
<1>1. EthInv => DestinationWhole
  <2> SUFFICES ASSUME EthInv, ethStep = 7 PROVE DestinationWhole
    BY DEF DestinationWhole, EthDone, EthEnd
  <2>1. ASSUME ~EthValid
        PROVE  \A r \in {"control", "mac0", "mac1", "ip"} : ethRegs[r] = Earlier
    BY <2>1 DEF EthInv, Refused, EthRegisters
  <2>2. ASSUME EthValid
        PROVE  /\ Reverse(ethRegs.mac0) \o Reverse(ethRegs.mac1) = Fields(args.mac)
               /\ OctetBeyond \/ \A i \in 1 .. 4 :
                    LeadingZero(Fields(args.ip)[i])
                    \/ ethRegs.ip[i] = Number(10, Fields(args.ip)[i])
    <3>1. \A k \in 1 .. 6 : ethRegs[EthOrder[k]] = EthScript[k].val \/ (k = 6 /\ OctetBeyond)
      BY <2>2, EthScriptShape DEF EthInv, Stored
    <3>2. /\ ethRegs["mac0"] = EthScript[4].val /\ ethRegs["mac1"] = EthScript[5].val
          /\ ethRegs["ip"] = EthScript[6].val \/ OctetBeyond
      BY <3>1 DEF EthOrder
    <3>3. PICK S, mac : mac \in Seq(S) /\ mac = Fields(args.mac) /\ Len(mac) = 6
      <4>1. args \in Arguments /\ args.mac \in Seq({Empty, Bad} \cup 0 .. 255)
        BY EthAssumption DEF EthInv, EthTypes
      <4>2. Fields(args.mac) \in Seq({Empty, Bad} \cup 0 .. 255)
        BY <4>1, FieldsAreList
      <4>3. QED
        BY <2>2, <4>2 DEF EthValid, MacValid
    <3>4. /\ Reverse(ethRegs["mac0"]) = SubSeq(mac, 1, 4)
          /\ Reverse(ethRegs["mac1"]) = SubSeq(mac, 5, 6)
      <4>1. SubSeq(mac, 1, 4) \in Seq(S) /\ SubSeq(mac, 5, 6) \in Seq(S)
        BY <3>3, FourAndTwo
      <4>2. /\ ethRegs["mac0"] = Reverse(SubSeq(mac, 1, 4))
            /\ ethRegs["mac1"] = Reverse(SubSeq(mac, 5, 6))
        BY <3>2, <3>3, EthScriptShape, Zenon
      <4>3. QED
        BY <4>1, <4>2, ReversedTwice
    <3>5. Reverse(ethRegs.mac0) \o Reverse(ethRegs.mac1) = Fields(args.mac)
      BY <3>3, <3>4, FourAndTwo
    <3>6. OctetBeyond \/ \A i \in 1 .. 4 : ethRegs.ip[i] = Hex(Fields(args.ip)[i])
      BY <3>2, EthScriptShape DEF IpReg
    <3>7. QED
      BY <3>5, <3>6 DEF Hex
  <2>3. QED
    BY <2>1, <2>2 DEF DestinationWhole, EthValid
<1>2. QED
  BY <1>1, EthInvariance, PTL
=============================================================================
