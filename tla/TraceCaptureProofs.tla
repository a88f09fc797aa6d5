------------------------- MODULE TraceCaptureProofs -------------------------
(***************************************************************************)
(* udp2nexus never joins what does not follow in the stream and never cuts *)
(* what does, for logs of any length and numbers of any width, as long as  *)
(* the outages and delays of the network are short against that width.     *)
(***************************************************************************)
EXTENDS TraceCapture, SequenceTheorems, WellFoundedInduction, TLAPS

\* What may still arrive is young, and the network is never silent for long.
Network == sent <= high + Outage /\ \A n \in net : n > sent - Lifetime

\* The last record is as old as a late datagram may be.
LastArrival ==
  phase = "logging" /\ log # <<>> =>
    high - Lifetime < log[Len(log)].n /\ log[Len(log)].n <= high

\* Two successive records are not so far apart that the numbers repeat.
Near(m, n) == n - (m + 1) < Modulus /\ (m + 1) - n < Modulus
Neighbours == \A i \in 1 .. Len(log) - 1 : Near(log[i].n, log[i + 1].n)

\* What udp2nexus knows of the last record it has read.
Progress ==
  /\ phase = "logging" => pos = 0
  /\ pos = 0 => files = <<>> /\ streaming = FALSE
  /\ pos > 0 => expected = Succ16(Seqno(log[pos].n))

OpenFile ==
  phase = "converting" /\ files # <<>> =>
    LET f == files[Len(files)]
    IN  IF streaming THEN f # <<>> /\ f[Len(f)] = log[pos].n ELSE f = <<>>

-----------------------------------------------------------------------------
(***************************************************************************)
(* Numbers of a limited width.                                             *)
(***************************************************************************)
\* A number is a multiple of the modulus and its remainder.
LEMMA Division ==
  ASSUME NEW m \in Nat \ {0}, NEW a \in Nat
  PROVE  \E q \in Nat : a = m * q + (a % m) /\ a % m \in 0 .. m - 1
<1>1. a \div m \in Nat /\ a % m \in 0 .. m - 1 /\ a = m * (a \div m) + (a % m)
  BY SMT
<1>2. QED
  BY <1>1

\* Two multiples of the modulus are the same or at least the modulus apart.
LEMMA Multiples ==
  ASSUME NEW m \in Nat \ {0}, NEW p \in Nat, NEW q \in Nat, p < q
  PROVE  m * p \in Nat /\ m * q \in Nat /\ m * q >= m * p + m
<1>1. PICK k \in Nat : q = p + 1 + k
  <2>1. q - p - 1 \in Nat /\ q = p + 1 + (q - p - 1)
    BY SMT
  <2>2. QED
    BY <2>1
<1>2. m * q = m * p + m + m * k
  BY <1>1, SMT
<1>3. m * k \in Nat /\ m * p \in Nat /\ m * q \in Nat
  BY SMT
<1>4. QED
  BY <1>2, <1>3, SMT

\* Numbers less than the modulus apart are the same if their remainders are.
LEMMA SameRemainder ==
  ASSUME NEW m \in Nat \ {0}, NEW a \in Nat, NEW b \in Nat,
         a - b < m, b - a < m, a % m = b % m
  PROVE  a = b
<1>1. PICK p \in Nat : a = m * p + (a % m) /\ a % m \in 0 .. m - 1
  BY Division
<1>2. PICK q \in Nat : b = m * q + (b % m) /\ b % m \in 0 .. m - 1
  BY Division
<1>3. p = q
  <2>1. CASE p < q
    <3>1. m * p \in Nat /\ m * q \in Nat /\ m * q >= m * p + m
      BY <2>1, Multiples
    <3>2. QED
      BY <1>1, <1>2, <3>1, SMT
  <2>2. CASE q < p
    <3>1. m * p \in Nat /\ m * q \in Nat /\ m * p >= m * q + m
      BY <2>2, Multiples
    <3>2. QED
      BY <1>1, <1>2, <3>1, SMT
  <2>3. QED
    BY <2>1, <2>2, SMT
<1>4. QED
  BY <1>1, <1>2, <1>3

\* The remainder of a successor is that of the successor of the remainder.
LEMMA NextRemainder ==
  ASSUME NEW m \in Nat \ {0}, NEW a \in Nat
  PROVE  ((a % m) + 1) % m = (a + 1) % m
<1>1. PICK q \in Nat : a = m * q + (a % m) /\ a % m \in 0 .. m - 1
  BY Division
<1>2. PICK p \in Nat : a + 1 = m * p + ((a + 1) % m) /\ (a + 1) % m \in 0 .. m - 1
  <2>1. a + 1 \in Nat
    OBVIOUS
  <2>2. QED
    BY <2>1, Division
<1>3. m * q \in Nat /\ m * p \in Nat
  BY SMT
<1>4. CASE a % m = m - 1
  <2>1. ((a % m) + 1) % m = 0
    BY <1>4, SMT
  <2>2. m * (q + 1) = m * q + m
    BY SMT
  <2>3. p = q + 1
    <3>1. CASE p < q + 1
      BY <1>1, <1>2, <1>3, <1>4, <2>2, <3>1, Multiples, SMT
    <3>2. CASE q + 1 < p
      BY <1>1, <1>2, <1>3, <1>4, <2>2, <3>2, Multiples, SMT
    <3>3. QED
      BY <3>1, <3>2, SMT
  <2>4. QED
    BY <1>1, <1>2, <1>3, <1>4, <2>1, <2>2, <2>3, SMT
<1>5. CASE a % m # m - 1
  <2>1. ((a % m) + 1) % m = (a % m) + 1
    BY <1>1, <1>5, SMT
  <2>2. p = q
    <3>1. CASE p < q
      <4>1. m * q >= m * p + m
        BY <3>1, Multiples
      <4>2. QED
        BY <1>1, <1>2, <1>3, <1>5, <4>1, SMT
    <3>2. CASE q < p
      <4>1. m * p >= m * q + m
        BY <3>2, Multiples
      <4>2. QED
        BY <1>1, <1>2, <1>3, <1>5, <4>1, SMT
    <3>3. QED
      BY <3>1, <3>2, SMT
  <2>3. QED
    BY <1>1, <1>2, <1>3, <2>1, <2>2, SMT
<1>6. QED
  BY <1>4, <1>5

\* The number that follows that of datagram m is that of datagram m + 1.
LEMMA SuccOfSeqno ==
  ASSUME first \in Nat, NEW m \in Nat \ {0}
  PROVE  Succ16(Seqno(m)) = Seqno(m + 1)
<1>1. Modulus \in Nat \ {0} /\ first + m - 1 \in Nat
  BY CaptureAssumption
<1>2. (((first + m - 1) % Modulus) + 1) % Modulus = ((first + m - 1) + 1) % Modulus
  BY <1>1, NextRemainder
<1>3. (first + m - 1) + 1 = first + (m + 1) - 1
  OBVIOUS
<1>4. QED
  BY <1>2, <1>3 DEF Succ16, Seqno

\* Among datagrams near each other only the next one carries the next number.
LEMMA NextOnly ==
  ASSUME first \in Nat, NEW m \in Nat \ {0}, NEW n \in Nat \ {0}, Near(m, n)
  PROVE  Seqno(n) = Succ16(Seqno(m)) <=> n = m + 1
<1>1. Modulus \in Nat \ {0} /\ first + n - 1 \in Nat /\ first + m \in Nat
  BY CaptureAssumption
<1>2. ASSUME Seqno(n) = Seqno(m + 1) PROVE n = m + 1
  <2>1. (first + n - 1) % Modulus = (first + m) % Modulus
    <3>1. first + (m + 1) - 1 = first + m
      OBVIOUS
    <3>2. QED
      BY <1>2, <3>1 DEF Seqno
  <2>2. (first + n - 1) - (first + m) < Modulus /\ (first + m) - (first + n - 1) < Modulus
    BY <1>1 DEF Near
  <2>3. first + n - 1 = first + m
    BY <1>1, <2>1, <2>2, SameRemainder
  <2>4. QED
    BY <2>3
<1>3. QED
  BY <1>2, SuccOfSeqno
-----------------------------------------------------------------------------
(***************************************************************************)
(* Types.                                                                  *)
(***************************************************************************)
\* The variables have their types at first.
LEMMA TypesInit == Init => TypeOK
<1>1. Init => first \in 0 .. Modulus - 1 /\ expected \in 0 .. Modulus - 1
  BY CaptureAssumption DEF Init
<1>2. Init => net \in SUBSET (1 .. sent) /\ log \in Seq([n : 1 .. sent, whole : BOOLEAN])
              /\ files \in Seq(Seq(1 .. sent))
  BY DEF Init
<1>3. Init => sent \in 0 .. MaxSent /\ high \in 0 .. sent /\ pos \in 0 .. Len(log)
  BY CaptureAssumption DEF Init
<1>4. Init => phase \in {"logging", "converting", "done"} /\ streaming \in BOOLEAN
  BY DEF Init
<1>5. QED
  BY <1>1, <1>2, <1>3, <1>4 DEF TypeOK

\* What is typed stays so when more has been sent.
LEMMA MoreSent ==
  ASSUME NEW m \in Nat, NEW l \in Seq([n : 1 .. m, whole : BOOLEAN]), NEW f \in Seq(Seq(1 .. m))
  PROVE  l \in Seq([n : 1 .. m + 1, whole : BOOLEAN]) /\ f \in Seq(Seq(1 .. m + 1))
<1> DEFINE S == [n : 1 .. m, whole : BOOLEAN]
          T == [n : 1 .. m + 1, whole : BOOLEAN]
<1>1. 1 .. m \subseteq 1 .. m + 1
  OBVIOUS
<1>2. S \subseteq T
  BY <1>1
<1>3. Seq(1 .. m) \subseteq Seq(1 .. m + 1)
  BY <1>1, SeqMonotonic
<1> HIDE DEF S, T
<1>4. l \in Seq(S)
  BY DEF S
<1>5. l \in Seq(T) /\ f \in Seq(Seq(1 .. m + 1))
  BY <1>2, <1>3, <1>4, SeqMonotonic
<1>6. QED
  BY <1>5 DEF T

\* Every step keeps the types.
LEMMA TypesStep == TypeOK /\ [Next]_vars => TypeOK'
<1> SUFFICES ASSUME TypeOK, [Next]_vars PROVE TypeOK'
  OBVIOUS
<1> DEFINE R == [n : 1 .. sent, whole : BOOLEAN]
<1>0. /\ sent \in Nat /\ MaxSent \in Nat /\ sent <= MaxSent
      /\ net \subseteq 1 .. sent /\ high \in 0 .. sent
      /\ log \in Seq(R) /\ files \in Seq(Seq(1 .. sent)) /\ pos \in 0 .. Len(log)
  BY CaptureAssumption DEF TypeOK
<1> HIDE DEF R
<1>1. ASSUME Send PROVE TypeOK'
  <2>1. sent' = sent + 1 /\ sent' \in 0 .. MaxSent /\ high \in 0 .. sent'
    BY <1>0, <1>1 DEF Send
  <2>2. net' \subseteq 1 .. sent'
    <3>1. net' = {n \in net : n > sent' - Lifetime} \cup {sent'}
      BY <1>1 DEF Send
    <3>2. 1 .. sent \subseteq 1 .. sent' /\ sent' \in 1 .. sent'
      BY <1>0, <2>1
    <3>3. QED
      BY <1>0, <3>1, <3>2
  <2>3. log \in Seq([n : 1 .. sent', whole : BOOLEAN]) /\ files \in Seq(Seq(1 .. sent'))
    BY <1>0, <2>1, MoreSent DEF R
  <2>4. QED
    BY <1>1, <2>1, <2>2, <2>3 DEF Send, converter, TypeOK
<1>2. ASSUME Lose PROVE TypeOK'
  BY <1>2 DEF Lose, converter, TypeOK
<1>3. ASSUME LogData PROVE TypeOK'
  <2>1. PICK n \in net : /\ log' = Append(log, Record(n, TRUE))
                         /\ high' = IF n > high THEN n ELSE high
                         /\ net' \in {net, net \ {n}}
    BY <1>3 DEF LogData
  <2>2. Record(n, TRUE) \in R
    BY <1>0 DEF Record, R
  <2>3. log' \in Seq(R) /\ Len(log') = Len(log) + 1
    BY <1>0, <2>1, <2>2, AppendProperties
  <2>4. high' \in 0 .. sent /\ net' \subseteq 1 .. sent /\ pos \in 0 .. Len(log')
    BY <1>0, <2>1, <2>3
  <2>5. QED
    BY <1>3, <2>3, <2>4 DEF LogData, converter, TypeOK, R
<1>4. ASSUME StopLogging PROVE TypeOK'
  <2>1. CASE log' = log
    BY <1>4, <2>1 DEF StopLogging, converter, TypeOK
  <2>2. ASSUME NEW n \in net, log' = Append(log, Record(n, FALSE)) PROVE TypeOK'
    <3>1. Record(n, FALSE) \in R
      BY <1>0 DEF Record, R
    <3>2. log' \in Seq(R) /\ Len(log') = Len(log) + 1
      BY <1>0, <2>2, <3>1, AppendProperties
    <3>3. pos \in 0 .. Len(log')
      BY <1>0, <3>2
    <3>4. QED
      BY <1>4, <3>2, <3>3 DEF StopLogging, converter, TypeOK, R
  <2>3. QED
    BY <1>4, <2>1, <2>2 DEF StopLogging
<1>5. ASSUME NextEntry PROVE TypeOK'
  <2> DEFINE n == log[pos + 1].n
  <2>1. pos + 1 \in 1 .. Len(log)
    BY <1>0, <1>5 DEF NextEntry, HasEntry
  <2>2. n \in 1 .. sent
    <3>1. log[pos + 1] \in R
      BY <1>0, <2>1
    <3>2. QED
      BY <3>1 DEF R
  <2>3. expected' \in 0 .. Modulus - 1
    <3>1. Modulus \in Nat \ {0} /\ first \in Nat
      BY CaptureAssumption DEF TypeOK
    <3>2. first + n - 1 \in Nat
      BY <1>0, <2>2, <3>1
    <3>3. \A a \in Nat : a % Modulus \in 0 .. Modulus - 1
      BY <3>1, SMT
    <3>4. Seqno(n) + 1 \in Nat
      BY <3>2, <3>3 DEF Seqno
    <3>5. Succ16(Seqno(n)) \in 0 .. Modulus - 1
      BY <3>3, <3>4 DEF Succ16
    <3>6. QED
      BY <1>5, <3>5 DEF NextEntry
  <2>4. pos' \in 0 .. Len(log)
    BY <1>0, <1>5, <2>1 DEF NextEntry
  <2>5. streaming' \in BOOLEAN /\ files' \in Seq(Seq(1 .. sent))
    <3> HIDE DEF n
    <3>1. CASE Continue(n)
      <4>1. streaming' \in BOOLEAN
        BY <3>1 DEF Continue, TypeOK
      <4>2. CASE streaming /\ files # <<>>
        <5>1. Len(files) \in DOMAIN files /\ files[Len(files)] \in Seq(1 .. sent)
          BY <1>0, <4>2
        <5>2. Append(files[Len(files)], n) \in Seq(1 .. sent)
          BY <2>2, <5>1
        <5>3. files' = [files EXCEPT ![Len(files)] = Append(files[Len(files)], n)]
          BY <3>1, <4>2 DEF Continue
        <5>4. QED
          BY <1>0, <4>1, <5>1, <5>2, <5>3, ExceptSeq
      <4>3. CASE streaming /\ files = <<>>
        <5>1. files' = <<>>
          BY <3>1, <4>3 DEF Continue
        <5>2. QED
          BY <4>1, <5>1
      <4>4. CASE ~streaming
        BY <1>0, <3>1, <4>1, <4>4 DEF Continue
      <4>5. QED
        BY <4>2, <4>3, <4>4
    <3>2. CASE NewFile(n)
      <4>1. streaming' \in BOOLEAN
        BY <3>2 DEF NewFile, TypeOK
      <4>2. <<n>> \in Seq(1 .. sent) /\ <<>> \in Seq(1 .. sent)
        BY <2>2
      <4>3. QED
        BY <1>0, <3>2, <4>1, <4>2, AppendProperties DEF NewFile
    <3>3. QED
      BY <1>5, <3>1, <3>2 DEF NextEntry, n
  <2>6. QED
    BY <1>5, <2>3, <2>4, <2>5 DEF NextEntry, logger, TypeOK
<1>6. ASSUME Finish PROVE TypeOK'
  BY <1>6 DEF Finish, logger, TypeOK
<1>7. CASE UNCHANGED vars
  BY <1>7 DEF vars, TypeOK
<1>8. QED
  BY <1>1, <1>2, <1>3, <1>4, <1>5, <1>6, <1>7 DEF Next
-----------------------------------------------------------------------------
(***************************************************************************)
(* The network and the log.                                                *)
(***************************************************************************)
\* Datagrams on their way stay young, and the outages short.
LEMMA NetworkStep == TypeOK /\ Network /\ [Next]_vars => Network'
<1> SUFFICES ASSUME TypeOK, Network, [Next]_vars PROVE Network'
  OBVIOUS
<1>0. /\ sent \in Nat /\ high \in Nat /\ net \subseteq 1 .. sent
      /\ Outage \in Nat \ {0} /\ Lifetime \in Nat \ {0}
  BY CaptureAssumption DEF TypeOK
<1>1. CASE Send
  BY <1>0, <1>1 DEF Send, Network
<1>2. CASE LogData
  BY <1>0, <1>2 DEF LogData, Network
<1>3. CASE Lose
  BY <1>0, <1>3 DEF Lose, Network
<1>4. CASE StopLogging \/ NextEntry \/ Finish \/ UNCHANGED vars
  BY <1>4 DEF StopLogging, NextEntry, Finish, logger, vars, Network
<1>5. QED
  BY <1>1, <1>2, <1>3, <1>4 DEF Next

\* What is appended to the log is near its last record, and no older than it may be.
LEMMA LogStep ==
  TypeOK /\ Network /\ LastArrival /\ Neighbours /\ [Next]_vars => LastArrival' /\ Neighbours'
<1> SUFFICES ASSUME TypeOK, Network, LastArrival, Neighbours, [Next]_vars
             PROVE  LastArrival' /\ Neighbours'
  OBVIOUS
<1> DEFINE R == [n : 1 .. sent, whole : BOOLEAN]
<1>0. /\ sent \in Nat /\ high \in 0 .. sent /\ net \subseteq 1 .. sent /\ log \in Seq(R)
      /\ Outage \in Nat \ {0} /\ Lifetime \in Nat \ {0} /\ Modulus \in Nat \ {0}
      /\ Outage + Lifetime <= Modulus
  BY CaptureAssumption DEF TypeOK
<1>1. ASSUME NEW n \in net, NEW w \in BOOLEAN, phase = "logging", log' = Append(log, Record(n, w))
      PROVE  Neighbours' /\ log'[Len(log')].n = n /\ log' # <<>>
  <2>1. Record(n, w) \in R /\ Record(n, w).n = n
    BY <1>0 DEF Record
  <2>2. /\ Len(log') = Len(log) + 1 /\ log'[Len(log) + 1] = Record(n, w)
        /\ \A i \in 1 .. Len(log) : log'[i] = log[i]
        /\ log' # <<>>
    BY <1>0, <1>1, <2>1, AppendProperties
  <2>3. ASSUME NEW i \in 1 .. Len(log') - 1 PROVE Near(log'[i].n, log'[i + 1].n)
    <3>1. CASE i < Len(log)
      <4>1. i \in 1 .. Len(log) - 1 /\ i \in 1 .. Len(log) /\ i + 1 \in 1 .. Len(log)
        BY <1>0, <3>1
      <4>2. QED
        BY <2>2, <4>1 DEF Neighbours
    <3>2. CASE i = Len(log)
      <4>1. Len(log) \in 1 .. Len(log) /\ log # <<>> /\ log'[i] = log[Len(log)]
        BY <1>0, <2>2, <3>2
      <4>2. PICK m \in 1 .. sent : m = log[Len(log)].n
        <5>1. log[Len(log)] \in R
          BY <1>0, <4>1, ElementOfSeq
        <5>2. QED
          BY <5>1
      <4>3. high - Lifetime < m /\ m <= high
        BY <1>1, <4>1, <4>2 DEF LastArrival
      <4>4. n > sent - Lifetime /\ n <= sent /\ sent <= high + Outage /\ n \in Nat
        BY <1>0 DEF Network
      <4>5. Near(m, n)
        BY <1>0, <4>3, <4>4 DEF Near
      <4>6. QED
        BY <2>1, <2>2, <3>2, <4>1, <4>2, <4>5
    <3>3. QED
      BY <1>0, <2>2, <3>1, <3>2
  <2>4. QED
    BY <2>1, <2>2, <2>3 DEF Neighbours, Near
<1>2. CASE LogData
  <2>1. PICK n \in net : log' = Append(log, Record(n, TRUE)) /\ high' = IF n > high THEN n ELSE high
    BY <1>2 DEF LogData
  <2>2. Neighbours' /\ log'[Len(log')].n = n
    BY <1>1, <1>2, <2>1 DEF LogData
  <2>3. n > sent - Lifetime /\ n \in Nat
    BY <1>0 DEF Network
  <2>4. high' - Lifetime < n /\ n <= high'
    BY <1>0, <2>1, <2>3
  <2>5. QED
    BY <2>2, <2>4 DEF LastArrival
<1>3. CASE StopLogging
  <2>1. phase = "logging" /\ phase' # "logging"
    BY <1>3 DEF StopLogging
  <2>2. CASE log' = log
    BY <2>1, <2>2 DEF LastArrival, Neighbours, Near
  <2>3. ASSUME NEW n \in net, log' = Append(log, Record(n, FALSE)) PROVE Neighbours'
    BY <1>1, <2>1, <2>3
  <2>4. QED
    BY <1>3, <2>1, <2>2, <2>3 DEF StopLogging, LastArrival
<1>4. CASE Send \/ Lose
  BY <1>4 DEF Send, Lose, LastArrival, Neighbours, Near
<1>5. CASE NextEntry \/ Finish \/ UNCHANGED vars
  <2>1. UNCHANGED logger /\ (phase' = "logging" => phase = "logging")
    BY <1>5 DEF NextEntry, Finish, logger, vars
  <2>2. QED
    BY <2>1 DEF logger, LastArrival, Neighbours, Near
<1>6. QED
  BY <1>2, <1>3, <1>4, <1>5 DEF Next
-----------------------------------------------------------------------------
(***************************************************************************)
(* The files.                                                              *)
(***************************************************************************)
\* udp2nexus knows what it has read last, and where it is written.
FilesInv ==
  /\ Progress /\ OpenFile /\ FilesContiguous /\ FilesMaximal
  /\ streaming = TRUE => files # <<>>

\* One record is read.
LEMMA EntryStep ==
  ASSUME TypeOK, Neighbours, FilesInv, NextEntry
  PROVE  FilesInv'
<1> DEFINE n == log[pos + 1].n
           L == Len(files)
<1>0. /\ log \in Seq([n : 1 .. sent, whole : BOOLEAN]) /\ files \in Seq(Seq(1 .. sent))
      /\ pos \in Nat /\ first \in Nat /\ L \in Nat /\ sent \in Nat /\ streaming \in BOOLEAN
      /\ DOMAIN files = 1 .. L
  BY CaptureAssumption DEF TypeOK
<1>1. /\ pos + 1 \in 1 .. Len(log) /\ phase = "converting" /\ phase' = "converting"
      /\ log' = log /\ pos' = pos + 1 /\ expected' = Succ16(Seqno(n)) /\ first' = first
      /\ Continue(n) \/ NewFile(n)
  BY <1>0 DEF NextEntry, HasEntry, logger
<1>2. n \in 1 .. sent /\ n \in Nat \ {0}
  <2>1. log[pos + 1] \in [n : 1 .. sent, whole : BOOLEAN]
    BY <1>0, <1>1, ElementOfSeq
  <2>2. QED
    BY <1>0, <2>1
<1> HIDE DEF n, L
<1>3. Progress'
  <2>1. n = (log'[pos']).n
    BY <1>1 DEF n
  <2>2. expected' = (((first + n - 1) % Modulus) + 1) % Modulus
    BY <1>1 DEF Succ16, Seqno
  <2>3. expected' = (((first' + (log'[pos']).n - 1) % Modulus) + 1) % Modulus
    BY <1>1, <2>1, <2>2, Zenon
  <2>4. pos' > 0 /\ pos' # 0 /\ phase' # "logging"
    BY <1>0, <1>1
  <2>5. QED
    BY <2>3, <2>4, Zenon DEF Progress, Succ16, Seqno
<1>4. ASSUME streaming = TRUE
      PROVE  /\ L \in 1 .. L /\ files # <<>> /\ files[L] \in Seq(1 .. sent) /\ files[L] # <<>>
             /\ Len(files[L]) \in Nat \ {0}
             /\ Matches(Seqno(n)) <=> n = files[L][Len(files[L])] + 1
  <2>1. files # <<>> /\ L \in 1 .. L
    BY <1>0, <1>4 DEF FilesInv, L
  <2>2. files[L] # <<>> /\ files[L][Len(files[L])] = log[pos].n
    BY <1>1, <1>4, <2>1 DEF FilesInv, OpenFile, L
  <2>3. files[L] \in Seq(1 .. sent)
    BY <1>0, <2>1, ElementOfSeq DEF L
  <2>4. Len(files[L]) \in Nat \ {0}
    BY <2>2, <2>3
  <2>5. pos > 0 /\ expected = Succ16(Seqno(log[pos].n))
    BY <1>0, <1>4 DEF FilesInv, Progress
  <2>6. log[pos].n \in Nat \ {0} /\ Near(log[pos].n, n)
    <3>1. pos \in 1 .. Len(log) /\ pos \in 1 .. Len(log) - 1
      BY <1>0, <1>1, <2>5
    <3>2. log[pos] \in [n : 1 .. sent, whole : BOOLEAN]
      BY <1>0, <3>1, ElementOfSeq
    <3>3. QED
      BY <1>0, <3>1, <3>2 DEF Neighbours, n
  <2>7. Seqno(n) = Succ16(Seqno(log[pos].n)) <=> n = log[pos].n + 1
    BY <1>0, <1>2, <2>6, NextOnly
  <2>8. QED
    BY <2>1, <2>2, <2>3, <2>4, <2>5, <2>7 DEF Matches
<1>5. CASE Continue(n) /\ streaming = TRUE
  <2> DEFINE f == files[L]
             g == Append(f, n)
  <2>1. files' = [files EXCEPT ![L] = g] /\ streaming' = TRUE
    BY <1>4, <1>5 DEF Continue, L
  <2>2. n = f[Len(f)] + 1
    BY <1>4, <1>5 DEF Continue
  <2>3. /\ Len(g) = Len(f) + 1 /\ g # <<>> /\ g[Len(f) + 1] = n
        /\ \A i \in 1 .. Len(f) : g[i] = f[i]
    BY <1>2, <1>4, <1>5, AppendProperties
  <2>4. /\ Len(files') = L /\ files'[L] = g
        /\ \A k \in 1 .. L : k # L => files'[k] = files[k]
        /\ files' \in Seq(Seq(1 .. sent)) /\ DOMAIN files' = 1 .. L
    <3>1. g \in Seq(1 .. sent)
      BY <1>2, <1>4, <1>5, AppendProperties
    <3>2. L \in 1 .. Len(files) /\ Len(files) = L
      BY <1>4, <1>5 DEF L
    <3> HIDE DEF g
    <3>3. /\ Len(files') = Len(files) /\ files' \in Seq(Seq(1 .. sent))
          /\ \A k \in 1 .. Len(files) : files'[k] = IF k = L THEN g ELSE files[k]
      BY <1>0, <2>1, <3>1, <3>2, ExceptSeq
    <3>4. QED
      BY <3>2, <3>3
  <2> HIDE DEF g
  <2>5. OpenFile'
    <3>1. files'[Len(files')] = g /\ g[Len(g)] = n /\ log'[pos'].n = n
      BY <1>1, <1>4, <1>5, <2>3, <2>4 DEF n
    <3>2. QED
      BY <2>1, <2>3, <3>1 DEF OpenFile
  <2>6. FilesContiguous'
    <3> SUFFICES ASSUME NEW k \in 1 .. L, NEW i \in 1 .. Len(files'[k]) - 1
                 PROVE  files'[k][i + 1] = files'[k][i] + 1
      BY <2>4 DEF FilesContiguous
    <3>1. CASE k # L
      <4>1. k \in DOMAIN files /\ files'[k] = files[k]
        BY <1>0, <2>4, <3>1
      <4>2. QED
        BY <4>1 DEF FilesInv, FilesContiguous
    <3>2. CASE k = L /\ i < Len(f)
      <4>1. i \in 1 .. Len(f) - 1 /\ i \in 1 .. Len(f) /\ i + 1 \in 1 .. Len(f) /\ L \in DOMAIN files
        BY <1>0, <1>4, <1>5, <3>2 DEF L
      <4>2. f[i + 1] = f[i] + 1
        BY <4>1 DEF FilesInv, FilesContiguous
      <4>3. QED
        BY <2>3, <2>4, <3>2, <4>1, <4>2
    <3>3. CASE k = L /\ i = Len(f)
      BY <1>4, <1>5, <2>2, <2>3, <2>4, <3>3
    <3>4. QED
      BY <1>4, <1>5, <2>3, <2>4, <3>1, <3>2, <3>3
  <2>7. FilesMaximal'
    <3> SUFFICES ASSUME NEW k \in 1 .. L - 1, files'[k] # <<>>, files'[k + 1] # <<>>
                 PROVE  files'[k + 1][1] # files'[k][Len(files'[k])] + 1
      BY <2>4 DEF FilesMaximal, Last
    <3>1. k \in 1 .. Len(files) - 1 /\ files'[k] = files[k]
      <4>1. k \in 1 .. L /\ k # L
        BY <1>0
      <4>2. QED
        BY <2>4, <4>1 DEF L
    <3>2. files[k + 1] # <<>> /\ files'[k + 1][1] = files[k + 1][1]
      <4>1. CASE k + 1 = L
        <5>1. 1 \in 1 .. Len(f) /\ f # <<>>
          BY <1>4, <1>5
        <5>2. g[1] = f[1] /\ files'[k + 1] = g
          BY <2>3, <2>4, <4>1, <5>1
        <5>3. QED
          BY <4>1, <5>1, <5>2
      <4>2. CASE k + 1 # L
        BY <1>0, <2>4, <4>2
      <4>3. QED
        BY <4>1, <4>2
    <3>3. QED
      BY <3>1, <3>2 DEF FilesInv, FilesMaximal, Last
  <2>8. QED
    BY <1>3, <1>4, <1>5, <2>4, <2>5, <2>6, <2>7 DEF FilesInv
<1>6. CASE Continue(n) /\ streaming = FALSE
  <2>1. files' = files /\ streaming' = FALSE
    BY <1>6 DEF Continue
  <2>2. QED
    BY <1>1, <1>3, <1>6, <2>1 DEF FilesInv, OpenFile, FilesContiguous, FilesMaximal, Last
<1>7. CASE NewFile(n)
  <2> DEFINE g == IF streaming' THEN <<n>> ELSE <<>>
  <2>1. files' = Append(files, g) /\ streaming' \in BOOLEAN /\ ~Matches(Seqno(n))
    BY <1>7 DEF NewFile
  <2>2. g \in Seq(1 .. sent) /\ Len(g) \in {0, 1} /\ (streaming' => g[Len(g)] = n /\ g # <<>>)
        /\ (~streaming' => g = <<>>) /\ (g # <<>> => g[1] = n)
    <3>1. CASE streaming'
      <4>1. g = <<n>>
        BY <3>1
      <4>2. QED
        BY <1>2, <3>1, <4>1
    <3>2. CASE ~streaming'
      <4>1. g = <<>>
        BY <3>2
      <4>2. QED
        BY <3>2, <4>1
    <3>3. QED
      BY <3>1, <3>2
  <2> HIDE DEF g
  <2>3. /\ Len(files') = L + 1 /\ files' # <<>> /\ files'[L + 1] = g
        /\ \A k \in 1 .. L : files'[k] = files[k]
        /\ DOMAIN files' = 1 .. L + 1
    <3>1. /\ Len(files') = L + 1 /\ files'[L + 1] = g /\ \A k \in 1 .. L : files'[k] = files[k]
      BY <1>0, <2>1, <2>2, AppendProperties DEF L
    <3>2. DOMAIN files' = 1 .. L + 1 /\ files' # <<>>
      BY <1>0, <3>1, EmptySeq
    <3>3. QED
      BY <3>1, <3>2
  <2>4. OpenFile'
    <3>1. files'[Len(files')] = g /\ log'[pos'].n = n
      BY <1>1, <2>3 DEF n
    <3>2. QED
      BY <2>1, <2>2, <3>1 DEF OpenFile
  <2>5. FilesContiguous'
    <3> SUFFICES ASSUME NEW k \in 1 .. L + 1, NEW i \in 1 .. Len(files'[k]) - 1
                 PROVE  files'[k][i + 1] = files'[k][i] + 1
      BY <2>3 DEF FilesContiguous
    <3>1. CASE k = L + 1
      BY <2>2, <2>3, <3>1
    <3>2. CASE k # L + 1
      <4>1. k \in 1 .. L
        BY <1>0, <3>2
      <4>2. QED
        BY <1>0, <2>3, <4>1 DEF FilesInv, FilesContiguous
    <3>3. QED
      BY <3>1, <3>2
  <2>6. FilesMaximal'
    <3> SUFFICES ASSUME NEW k \in 1 .. L, files'[k] # <<>>, files'[k + 1] # <<>>
                 PROVE  files'[k + 1][1] # files'[k][Len(files'[k])] + 1
      BY <1>0, <2>3 DEF FilesMaximal, Last
    <3>1. CASE k = L
      <4>1. files[L] # <<>> /\ files'[L] = files[L] /\ g # <<>> /\ g[1] = n
        BY <2>2, <2>3, <3>1
      <4>2. streaming = TRUE
        <5>1. files # <<>>
          BY <1>0, <3>1 DEF L
        <5>2. QED
          BY <1>0, <1>1, <4>1, <5>1 DEF FilesInv, OpenFile, L
      <4>3. QED
        BY <1>4, <2>1, <2>3, <3>1, <4>1, <4>2
    <3>2. CASE k # L
      <4>1. k \in 1 .. L - 1 /\ k + 1 \in 1 .. L
        BY <1>0, <3>2
      <4>2. QED
        BY <2>3, <4>1 DEF FilesInv, FilesMaximal, Last, L
    <3>3. QED
      BY <3>1, <3>2
  <2>7. QED
    BY <1>3, <2>3, <2>4, <2>5, <2>6 DEF FilesInv
<1>8. QED
  BY <1>0, <1>1, <1>5, <1>6, <1>7

\* Every step keeps what is known of the files.
LEMMA FilesStep == TypeOK /\ Neighbours /\ FilesInv /\ [Next]_vars => FilesInv'
<1> SUFFICES ASSUME TypeOK, Neighbours, FilesInv, [Next]_vars PROVE FilesInv'
  OBVIOUS
<1>1. CASE NextEntry
  BY <1>1, EntryStep
<1>2. CASE Send \/ LogData \/ StopLogging
  <2>1. UNCHANGED converter /\ first' = first /\ phase = "logging" /\ pos = 0
    BY <1>2 DEF Send, LogData, StopLogging, FilesInv, Progress
  <2>2. files = <<>> /\ streaming = FALSE
    BY <2>1 DEF FilesInv, Progress
  <2>3. QED
    BY <2>1, <2>2 DEF converter, FilesInv, Progress, OpenFile, FilesContiguous, FilesMaximal
<1>3. CASE Finish \/ Lose
  BY <1>3 DEF Finish, Lose, logger, converter, FilesInv, Progress, OpenFile, FilesContiguous, FilesMaximal, Last,
              Succ16, Seqno
<1>4. CASE UNCHANGED vars
  BY <1>4 DEF vars, FilesInv, Progress, OpenFile, FilesContiguous, FilesMaximal, Last,
              Succ16, Seqno
<1>5. QED
  BY <1>1, <1>2, <1>3, <1>4 DEF Next
-----------------------------------------------------------------------------
(***************************************************************************)
(* All files together.  FlattenSeq is a recursive function; that there is  *)
(* one, and what it is, takes induction over the length of its argument,   *)
(* here by the well-foundedness of Nat.                                    *)
(***************************************************************************)
\* The order of the naturals, as a relation.
Less == {p \in Nat \X Nat : p[1] < p[2]}
\* Induction over the naturals, for a set instead of a predicate.
LEMMA Naturals ==
  ASSUME NEW S, 0 \in S, \A n \in Nat : n \in S => n + 1 \in S
  PROVE  \A n \in Nat : n \in S
<1> DEFINE T == {n \in Nat : n \notin S}
<1> SUFFICES ASSUME T # {} PROVE FALSE
  OBVIOUS
<1>1. PICK x \in T : \A y \in T : ~(<<y, x>> \in Less)
  <2>1. T \subseteq Nat
    OBVIOUS
  <2>2. IsWellFoundedOn(Less, Nat)
    BY NatLessThanWellFounded, Zenon DEF OpToRel, Less
  <2> HIDE DEF T
  <2>3. QED
    BY <2>1, <2>2, WFMin, Zenon
<1>2. x \in Nat /\ x # 0
  OBVIOUS
<1>3. x - 1 \in Nat /\ <<x - 1, x>> \in Less /\ x = (x - 1) + 1
  BY <1>2 DEF Less
<1>4. x - 1 \notin T
  BY <1>1, <1>3
<1>5. QED
  BY <1>1, <1>3, <1>4

\* What FlattenSeq computes: g[i] is the first i sequences of s, one after the other.
Joins(g, s, n) == g = [i \in 1 .. n |-> IF i = 1 THEN s[i] ELSE g[i - 1] \o s[i]]

\* There is such a function.
LEMMA JoinsExist == ASSUME NEW s PROVE \A n \in Nat : \E g : Joins(g, s, n)
<1> DEFINE T == {n \in Nat : \E g : Joins(g, s, n)}
<1>1. 0 \in T
  <2>1. Joins([i \in 1 .. 0 |-> 0], s, 0)
    BY DEF Joins
  <2>2. QED
    BY <2>1
<1>2. ASSUME NEW n \in Nat, n \in T PROVE n + 1 \in T
  <2>1. PICK g : Joins(g, s, n)
    BY <1>2
  <2> DEFINE h == [i \in 1 .. n + 1 |->
                     IF i = n + 1 THEN IF i = 1 THEN s[i] ELSE g[n] \o s[i] ELSE g[i]]
  <2>2. ASSUME NEW i \in 1 .. n + 1
        PROVE  h[i] = IF i = 1 THEN s[i] ELSE h[i - 1] \o s[i]
    <3>1. CASE i = n + 1
      <4>1. CASE n = 0
        BY <3>1, <4>1
      <4>2. CASE n # 0
        <5>1. i - 1 \in 1 .. n + 1 /\ i - 1 # n + 1 /\ i # 1 /\ i - 1 = n
          BY <3>1, <4>2
        <5>2. h[i - 1] = g[n]
          BY <5>1
        <5>3. QED
          BY <3>1, <5>1, <5>2
      <4>3. QED
        BY <4>1, <4>2
    <3>2. CASE i # n + 1
      <4>1. i \in 1 .. n /\ h[i] = g[i]
        BY <3>2
      <4>2. g[i] = IF i = 1 THEN s[i] ELSE g[i - 1] \o s[i]
        BY <2>1, <4>1 DEF Joins
      <4>3. i # 1 => i - 1 \in 1 .. n + 1 /\ i - 1 # n + 1
        BY <4>1
      <4>4. QED
        BY <4>1, <4>2, <4>3
    <3>3. QED
      BY <3>1, <3>2
  <2>3. h = [i \in 1 .. n + 1 |-> h[i]]
    OBVIOUS
  <2> HIDE DEF h
  <2>4. Joins(h, s, n + 1)
    BY <2>2, <2>3 DEF Joins
  <2>5. QED
    BY <2>4
<1> HIDE DEF T
<1>3. \A n \in Nat : n \in T
  BY <1>1, <1>2, Naturals
<1>4. QED
  BY <1>3 DEF T

\* Two sequences, or functions, are the same up to n.
Agree(s, t, n) == \A i \in 1 .. n : s[i] = t[i]

\* Two such functions agree where the sequences do.
LEMMA JoinsAgree ==
  ASSUME NEW s, NEW t, NEW m \in Nat, NEW n \in Nat, NEW g, NEW h, Joins(g, s, m), Joins(h, t, n),
         NEW k \in Nat, k <= m, k <= n, Agree(s, t, k)
  PROVE  Agree(g, h, k)
<1> DEFINE T == {i \in Nat : i \in 1 .. k => g[i] = h[i]}
<1>1. 0 \in T
  OBVIOUS
<1>2. ASSUME NEW i \in Nat, i \in T PROVE i + 1 \in T
  <2> SUFFICES ASSUME i + 1 \in 1 .. k PROVE g[i + 1] = h[i + 1]
    OBVIOUS
  <2>1. g[i + 1] = IF i + 1 = 1 THEN s[i + 1] ELSE g[i] \o s[i + 1]
    <3>1. i + 1 \in 1 .. m /\ (i + 1) - 1 = i
      OBVIOUS
    <3>2. g[i + 1] = IF i + 1 = 1 THEN s[i + 1] ELSE g[(i + 1) - 1] \o s[i + 1]
      BY <3>1, Zenon DEF Joins
    <3>3. QED
      BY <3>1, <3>2
  <2>2. h[i + 1] = IF i + 1 = 1 THEN t[i + 1] ELSE h[i] \o t[i + 1]
    <3>1. i + 1 \in 1 .. n /\ (i + 1) - 1 = i
      OBVIOUS
    <3>2. h[i + 1] = IF i + 1 = 1 THEN t[i + 1] ELSE h[(i + 1) - 1] \o t[i + 1]
      BY <3>1, Zenon DEF Joins
    <3>3. QED
      BY <3>1, <3>2
  <2>3. i # 0 => g[i] = h[i]
    BY <1>2
  <2>4. QED
    BY <2>1, <2>2, <2>3 DEF Agree
<1> HIDE DEF T
<1>3. \A i \in Nat : i \in T
  BY <1>1, <1>2, Naturals
<1>4. QED
  BY <1>3 DEF T, Agree

\* They are sequences of what the sequences of s are of.
LEMMA JoinsType ==
  ASSUME NEW E, NEW s \in Seq(Seq(E)), NEW g, Joins(g, s, Len(s))
  PROVE  \A i \in 1 .. Len(s) : g[i] \in Seq(E)
<1> DEFINE T == {i \in Nat : i \in 1 .. Len(s) => g[i] \in Seq(E)}
<1>1. 0 \in T
  OBVIOUS
<1>2. ASSUME NEW i \in Nat, i \in T PROVE i + 1 \in T
  <2> SUFFICES ASSUME i + 1 \in 1 .. Len(s) PROVE g[i + 1] \in Seq(E)
    OBVIOUS
  <2>1. g[i + 1] = IF i + 1 = 1 THEN s[i + 1] ELSE g[i] \o s[i + 1]
    <3>1. (i + 1) - 1 = i
      OBVIOUS
    <3>2. QED
      BY <3>1 DEF Joins
  <2>2. s[i + 1] \in Seq(E)
    BY ElementOfSeq
  <2>3. CASE i = 0
    BY <2>1, <2>2, <2>3
  <2>4. CASE i # 0
    <3>1. g[i] \in Seq(E)
      BY <1>2, <2>4
    <3>2. QED
      BY <2>1, <2>2, <2>4, <3>1, ConcatProperties
  <2>5. QED
    BY <2>3, <2>4
<1> HIDE DEF T
<1>3. \A i \in Nat : i \in T
  BY <1>1, <1>2, Naturals
<1>4. QED
  BY <1>3 DEF T

\* FlattenSeq is the last value of such a function.
LEMMA FlattenJoins ==
  ASSUME NEW E, NEW s \in Seq(Seq(E)), s # <<>>
  PROVE  \E g : Joins(g, s, Len(s)) /\ FlattenSeq(s) = g[Len(s)]
<1> DEFINE g == CHOOSE f : Joins(f, s, Len(s))
<1>1. Joins(g, s, Len(s))
  <2>1. Len(s) \in Nat
    OBVIOUS
  <2>2. QED
    BY <2>1, JoinsExist
<1>2. FlattenSeq(s) = g[Len(s)]
  <2>1. Len(s) # 0
    BY EmptySeq
  <2>2. QED
    BY <2>1 DEF FlattenSeq, Joins
<1>3. QED
  BY <1>1, <1>2

\* What FlattenSeq makes of sequences is a sequence of what they are of.
LEMMA FlattenType ==
  ASSUME NEW E, NEW s \in Seq(Seq(E)) PROVE FlattenSeq(s) \in Seq(E)
<1>1. CASE s = <<>>
  <2>1. FlattenSeq(s) = <<>>
    BY <1>1, EmptySeq DEF FlattenSeq
  <2>2. QED
    BY <2>1
<1>2. CASE s # <<>>
  <2>1. PICK g : Joins(g, s, Len(s)) /\ FlattenSeq(s) = g[Len(s)]
    BY <1>2, FlattenJoins
  <2>2. Len(s) \in 1 .. Len(s)
    BY <1>2, EmptySeq
  <2>3. QED
    BY <2>1, <2>2, JoinsType
<1>3. QED
  BY <1>1, <1>2

\* How such a function goes on.
LEMMA JoinsNext ==
  ASSUME NEW s, NEW n \in Nat, NEW g, Joins(g, s, n), NEW i \in 1 .. n
  PROVE  g[i] = IF i = 1 THEN s[i] ELSE g[i - 1] \o s[i]
BY Zenon DEF Joins

\* Appending is joining with a sequence of one element, in any place.
LEMMA AppendJoins ==
  ASSUME NEW E, NEW a \in Seq(E), NEW b \in Seq(E), NEW x \in E
  PROVE  a \o Append(b, x) = Append(a \o b, x)
<1> DEFINE c == <<x>>
<1>1. c \in Seq(E)
  OBVIOUS
<1>2. a \o b \in Seq(E)
  BY ConcatProperties
<1>3. Append(b, x) = b \o c /\ Append(a \o b, x) = (a \o b) \o c
  BY <1>1, <1>2, AppendIsConcat
<1> HIDE DEF c
<1>4. (a \o b) \o c = a \o (b \o c)
  BY <1>1, SMT
<1>5. QED
  BY <1>3, <1>4, SMT

\* A sequence more comes at the end.
LEMMA FlattenAppend ==
  ASSUME NEW E, NEW s \in Seq(Seq(E)), NEW e \in Seq(E)
  PROVE  FlattenSeq(Append(s, e)) = FlattenSeq(s) \o e
<1>1. PICK t : t = Append(s, e)
  OBVIOUS
<1>2. PICK n \in Nat : n = Len(s)
  OBVIOUS
<1>3. /\ t \in Seq(Seq(E)) /\ t # <<>> /\ Len(t) = n + 1
      /\ t[n + 1] = e /\ \A i \in 1 .. n : s[i] = t[i]
  BY <1>1, <1>2, AppendProperties
<1>4. PICK h : Joins(h, t, n + 1) /\ FlattenSeq(t) = h[n + 1]
  BY <1>3, FlattenJoins
<1>5. n + 1 \in Nat /\ n + 1 \in 1 .. n + 1 /\ n <= n /\ n <= n + 1 /\ (n + 1) - 1 = n
  OBVIOUS
<1>6. h[n + 1] = IF n + 1 = 1 THEN e ELSE h[n] \o e
  BY <1>3, <1>4, <1>5, JoinsNext
<1>7. CASE s = <<>>
  <2>1. n = 0 /\ FlattenSeq(s) = <<>>
    BY <1>2, <1>7, EmptySeq DEF FlattenSeq
  <2>2. <<>> \o e = e
    BY ConcatEmptySeq
  <2>3. QED
    BY <1>1, <1>4, <1>6, <2>1, <2>2
<1>8. CASE s # <<>>
  <2>1. n \in Nat /\ n # 0
    BY <1>2, <1>8, EmptySeq
  <2>2. PICK g : Joins(g, s, n) /\ FlattenSeq(s) = g[n]
    BY <1>2, <1>8, FlattenJoins
  <2>3. g[n] = h[n]
    <3>1. Agree(s, t, n)
      BY <1>3 DEF Agree
    <3>2. Agree(g, h, n)
      BY <1>4, <1>5, <2>2, <3>1, JoinsAgree, Zenon
    <3>3. QED
      BY <2>1, <3>2 DEF Agree
  <2>4. h[n + 1] = h[n] \o e
    BY <1>6, <2>1
  <2>5. QED
    BY <1>1, <1>4, <2>2, <2>3, <2>4, Zenon
<1>9. QED
  BY <1>7, <1>8

\* t is s with x at the end of its last sequence.
Grows(s, t, x) ==
  /\ Len(t) = Len(s) /\ t[Len(s)] = Append(s[Len(s)], x)
  /\ \A i \in 1 .. Len(s) : i # Len(s) => s[i] = t[i]

\* When the last sequence grows, so does the whole.
LEMMA FlattenGrows ==
  ASSUME NEW E, NEW s \in Seq(Seq(E)), s # <<>>, NEW x \in E, NEW t \in Seq(Seq(E)), Grows(s, t, x)
  PROVE  FlattenSeq(t) = Append(FlattenSeq(s), x)
<1>1. PICK n \in Nat : n = Len(s) /\ n # 0
  BY EmptySeq
<1>2. n \in 1 .. n /\ t # <<>>
  BY <1>1, EmptySeq DEF Grows
<1>3. PICK g : Joins(g, s, n) /\ FlattenSeq(s) = g[n]
  BY <1>1, FlattenJoins
<1>4. PICK h : Joins(h, t, n) /\ FlattenSeq(t) = h[n]
  BY <1>1, <1>2, FlattenJoins DEF Grows
<1>5. PICK b \in Seq(E) : b = s[n] /\ t[n] = Append(b, x)
  BY <1>1, <1>2, ElementOfSeq DEF Grows
<1>6. /\ g[n] = IF n = 1 THEN s[n] ELSE g[n - 1] \o s[n]
      /\ h[n] = IF n = 1 THEN t[n] ELSE h[n - 1] \o t[n]
  BY <1>2, <1>3, <1>4, JoinsNext
<1>7. CASE n = 1
  BY <1>3, <1>4, <1>5, <1>6, <1>7
<1>8. CASE n # 1
  <2>1. PICK k \in Nat : k = n - 1 /\ k # 0 /\ k <= n /\ k \in 1 .. n
    <3>1. n - 1 \in Nat /\ n - 1 # 0 /\ n - 1 <= n /\ n - 1 \in 1 .. n
      BY <1>1, <1>8
    <3>2. QED
      BY <3>1
  <2>2. Agree(s, t, k)
    BY <1>1, <2>1 DEF Grows, Agree
  <2>3. g[k] = h[k]
    <3>1. Agree(g, h, k)
      BY <1>3, <1>4, <2>1, <2>2, JoinsAgree, Zenon
    <3>2. k \in 1 .. k
      BY <2>1
    <3>3. QED
      BY <3>1, <3>2 DEF Agree
  <2>4. PICK a \in Seq(E) : a = g[k]
    BY <1>1, <1>3, <2>1, JoinsType
  <2>5. a \o Append(b, x) = Append(a \o b, x)
    BY AppendJoins
  <2>6. QED
    BY <1>3, <1>4, <1>5, <1>6, <1>8, <2>1, <2>3, <2>4, <2>5
<1>9. QED
  BY <1>7, <1>8

\* The first p records, without what else the log says of them.
Numbers(p) == [i \in 1 .. p |-> log[i].n]

\* Records left out are the first, with the number expected at first, or those of
\* a file that could not be opened.
Extraction ==
  /\ pos = 0 => expected = Modulus - 1
  /\ pos > 0 /\ Seqno(log[1].n) # Modulus - 1 => files # <<>>
  /\ ExtractedUnlessFFFF

\* What has been read grows by the record that is read.
LEMMA NumbersGrow ==
  ASSUME TypeOK, NEW p \in Nat, p + 1 \in 1 .. Len(log)
  PROVE  /\ Numbers(p) \in Seq(1 .. sent) /\ log[p + 1].n \in 1 .. sent
         /\ Numbers(p + 1) = Append(Numbers(p), log[p + 1].n)
<1>1. \A i \in 1 .. p + 1 : log[i].n \in 1 .. sent
  <2> SUFFICES ASSUME NEW i \in 1 .. p + 1 PROVE log[i].n \in 1 .. sent
    OBVIOUS
  <2>1. log \in Seq([n : 1 .. sent, whole : BOOLEAN]) /\ i \in 1 .. Len(log)
    BY DEF TypeOK
  <2>2. log[i] \in [n : 1 .. sent, whole : BOOLEAN]
    BY <2>1, ElementOfSeq
  <2>3. QED
    BY <2>2
<1>2. /\ Numbers(p) \in [1 .. p -> 1 .. sent] /\ log[p + 1].n \in 1 .. sent
      /\ Numbers(p + 1) \in [1 .. p + 1 -> 1 .. sent]
  BY <1>1 DEF Numbers
<1>3. Numbers(p) \in Seq(1 .. sent) /\ Numbers(p + 1) \in Seq(1 .. sent)
  <2>1. \A m \in Nat : [1 .. m -> 1 .. sent] \subseteq Seq(1 .. sent)
    BY SeqDef, Zenon
  <2>2. p + 1 \in Nat
    OBVIOUS
  <2>3. QED
    BY <1>2, <2>1, <2>2, Zenon
<1>4. Len(Numbers(p)) = p /\ Len(Numbers(p + 1)) = p + 1
  BY <1>2, <1>3
<1>5. PICK a \in Seq(1 .. sent) : a = Append(Numbers(p), log[p + 1].n)
  BY <1>2, <1>3, AppendProperties
<1>6. Len(a) = p + 1 /\ a[p + 1] = log[p + 1].n /\ \A i \in 1 .. p : a[i] = log[i].n
  BY <1>2, <1>3, <1>4, <1>5, AppendProperties DEF Numbers
<1>7. \A i \in 1 .. p + 1 : a[i] = Numbers(p + 1)[i]
  BY <1>6 DEF Numbers
<1>8. a = Numbers(p + 1)
  BY <1>3, <1>4, <1>6, <1>7, SeqEqual
<1>9. QED
  BY <1>2, <1>3, <1>5, <1>8

\* One record is read, and is in the files afterwards.
LEMMA ExtractStep ==
  ASSUME TypeOK, TypeOK', FilesInv, Extraction, NextEntry
  PROVE  Extraction'
<1> DEFINE n == log[pos + 1].n
           L == Len(files)
<1>0. /\ files \in Seq(Seq(1 .. sent)) /\ files' \in Seq(Seq(1 .. sent)) /\ sent' = sent
      /\ pos \in Nat /\ L \in Nat /\ streaming \in BOOLEAN /\ DOMAIN files = 1 .. L
  BY DEF TypeOK, NextEntry, logger
<1>1. /\ pos + 1 \in 1 .. Len(log) /\ log' = log /\ pos' = pos + 1 /\ first' = first
      /\ phase = "converting"
      /\ Continue(n) \/ NewFile(n)
  BY <1>0 DEF NextEntry, HasEntry, logger
<1>2. /\ Numbers(pos) \in Seq(1 .. sent) /\ n \in 1 .. sent
      /\ Numbers(pos + 1) = Append(Numbers(pos), n)
  BY <1>0, <1>1, NumbersGrow
<1>3. <<n>> \in Seq(1 .. sent) /\ Append(Numbers(pos), n) = Numbers(pos) \o <<n>>
  BY <1>2, AppendIsConcat
<1> HIDE DEF n, L
<1>4. /\ (Seqno(log[1].n))' = Seqno(log[1].n) /\ (Numbers(pos))' = Numbers(pos + 1)
      /\ pos' > 0 /\ pos' # 0
  BY <1>0, <1>1 DEF Seqno, Numbers
<1>5. CASE Continue(n) /\ streaming
  <2>1. /\ files # <<>> /\ pos > 0 /\ L \in 1 .. L /\ files' = [files EXCEPT ![L] = Append(files[L], n)]
        /\ files[L] # <<>>
    <3>1. files # <<>> /\ pos # 0 /\ files[Len(files)] # <<>>
      <4>1. streaming = TRUE
        BY <1>0, <1>5, Zenon
      <4>2. files # <<>> /\ pos # 0
        BY <4>1 DEF FilesInv, Progress
      <4>3. files[Len(files)] # <<>>
        BY <1>1, <4>1, <4>2, Zenon DEF FilesInv, OpenFile
      <4>4. QED
        BY <4>2, <4>3
    <3>2. files' = [files EXCEPT ![Len(files)] = Append(files[Len(files)], n)]
      BY <1>5 DEF Continue
    <3>3. Len(files) # 0 /\ Len(files) \in 1 .. Len(files)
      BY <1>0, <3>1, EmptySeq DEF L
    <3>4. pos > 0
      BY <1>0, <3>1
    <3>5. QED
      BY <3>1, <3>2, <3>3, <3>4 DEF L
  <2>2. Grows(files, files', n) /\ files' # <<>> /\ DOMAIN files' = 1 .. L
        /\ \A k \in 1 .. L : k # L => files'[k] = files[k]
    <3>1. files[L] \in Seq(1 .. sent)
      BY <1>0, <2>1, ElementOfSeq DEF L
    <3>2. PICK g \in Seq(1 .. sent) : g = Append(files[L], n)
      BY <1>2, <3>1, AppendProperties
    <3>3. L \in 1 .. Len(files) /\ Len(files) = L
      BY <2>1 DEF L
    <3>4. /\ Len(files') = L
          /\ \A k \in 1 .. L : files'[k] = IF k = L THEN g ELSE files[k]
      BY <1>0, <2>1, <3>2, <3>3, ExceptSeq
    <3>5. QED
      BY <1>0, <2>1, <3>2, <3>3, <3>4 DEF Grows
  <2>3. FlattenSeq(files') = Append(FlattenSeq(files), n)
    <3>1. PICK t \in Seq(Seq(1 .. sent)) : t = files'
      BY <1>0
    <3>2. Grows(files, t, n)
      BY <2>2, <3>1
    <3>3. files \in Seq(Seq(1 .. sent)) /\ files # <<>> /\ n \in 1 .. sent
      BY <1>0, <1>2, <2>1
    <3>4. FlattenSeq(t) = Append(FlattenSeq(files), n)
      BY <3>2, <3>3, FlattenGrows, ZenonT(60)
    <3>5. QED
      BY <3>1, <3>4
  <2>4. (\A k \in DOMAIN files' : files'[k] # <<>>) => \A k \in DOMAIN files : files[k] # <<>>
    BY <1>0, <2>1, <2>2
  <2>5. QED
    BY <1>2, <1>4, <2>1, <2>2, <2>3, <2>4 DEF Extraction, ExtractedUnlessFFFF, AllExtracted, Numbers
<1>6. CASE Continue(n) /\ ~streaming
  <2>1. files' = files /\ Seqno(n) = expected
    BY <1>6 DEF Continue, Matches
  <2>2. CASE pos = 0
    <3>1. n = log[1].n /\ Seqno(log[1].n) = Modulus - 1
      BY <2>1, <2>2 DEF n, Extraction
    <3>2. QED
      BY <1>4, <3>1 DEF Extraction, ExtractedUnlessFFFF
  <2>3. CASE pos # 0
    <3>1. pos > 0
      BY <1>0, <2>3
    <3>2. files # <<>> => L \in DOMAIN files /\ files[L] = <<>>
      <4> SUFFICES ASSUME files # <<>> PROVE L \in DOMAIN files /\ files[L] = <<>>
        OBVIOUS
      <4>1. files[Len(files)] = <<>>
        BY <1>1, <1>6, Zenon DEF FilesInv, OpenFile
      <4>2. L # 0
        BY <1>0, EmptySeq DEF L
      <4>3. QED
        BY <1>0, <4>1, <4>2 DEF L
    <3>3. QED
      BY <1>4, <2>1, <3>1, <3>2 DEF Extraction, ExtractedUnlessFFFF
  <2>4. QED
    BY <2>2, <2>3
<1>7. CASE NewFile(n)
  <2> DEFINE g == IF streaming' THEN <<n>> ELSE <<>>
  <2>1. files' = Append(files, g) /\ g \in Seq(1 .. sent)
    <3>1. files' = Append(files, g)
      BY <1>7 DEF NewFile
    <3>2. g = <<n>> \/ g = <<>>
      OBVIOUS
    <3>3. <<>> \in Seq(1 .. sent)
      OBVIOUS
    <3> HIDE DEF g
    <3>4. QED
      BY <1>3, <3>1, <3>2, <3>3
  <2> HIDE DEF g
  <2>2. /\ Len(files') = L + 1 /\ files' # <<>> /\ files'[L + 1] = g
        /\ DOMAIN files' = 1 .. L + 1 /\ \A k \in 1 .. L : files'[k] = files[k]
    BY <1>0, <2>1, AppendProperties DEF L
  <2>3. FlattenSeq(files') = FlattenSeq(files) \o g
    BY <1>0, <2>1, FlattenAppend
  <2>4. ASSUME Seqno(log[1].n) # Modulus - 1, \A k \in DOMAIN files' : files'[k] # <<>>
        PROVE  FlattenSeq(files') = Numbers(pos + 1)
    <3>1. g = <<n>>
      <4>1. L + 1 \in DOMAIN files'
        BY <1>0, <2>2
      <4>2. g # <<>>
        BY <2>2, <2>4, <4>1
      <4>3. QED
        BY <4>2 DEF g
    <3>2. FlattenSeq(files) = Numbers(pos)
      <4>1. CASE pos = 0
        <5>1. files = <<>> /\ Numbers(pos) = <<>>
          BY <4>1 DEF FilesInv, Progress, Numbers
        <5>2. QED
          BY <5>1, EmptySeq DEF FlattenSeq
      <4>2. CASE pos # 0
        <5>1. pos > 0 /\ \A k \in DOMAIN files : files[k] # <<>>
          BY <1>0, <2>2, <2>4, <4>2
        <5>2. QED
          BY <2>4, <5>1 DEF Extraction, ExtractedUnlessFFFF, AllExtracted, Numbers
      <4>3. QED
        BY <4>1, <4>2
    <3>3. QED
      BY <1>2, <1>3, <2>3, <3>1, <3>2
  <2>5. QED
    BY <1>4, <2>2, <2>4 DEF Extraction, ExtractedUnlessFFFF, AllExtracted, Numbers
<1>8. QED
  BY <1>0, <1>1, <1>5, <1>6, <1>7

\* Every step keeps the records together.
LEMMA ExtractionStep ==
  TypeOK /\ TypeOK' /\ FilesInv /\ Extraction /\ [Next]_vars => Extraction'
<1> SUFFICES ASSUME TypeOK, TypeOK', FilesInv, Extraction, [Next]_vars PROVE Extraction'
  OBVIOUS
<1>1. CASE NextEntry
  BY <1>1, ExtractStep
<1>2. CASE Send \/ LogData \/ StopLogging
  <2>1. UNCHANGED converter /\ pos = 0
    BY <1>2 DEF Send, LogData, StopLogging, FilesInv, Progress
  <2>2. QED
    BY <2>1 DEF converter, Extraction, ExtractedUnlessFFFF
<1>3. CASE Finish \/ Lose \/ UNCHANGED vars
  <2>1. UNCHANGED <<first, log, pos, expected, files>>
    BY <1>3 DEF Finish, Lose, logger, converter, vars
  <2>2. QED
    BY <2>1 DEF Extraction, ExtractedUnlessFFFF, AllExtracted, Seqno
<1>4. QED
  BY <1>1, <1>2, <1>3 DEF Next
\* The inductive invariant.
IInv == TypeOK /\ Network /\ LastArrival /\ Neighbours /\ FilesInv /\ Extraction
-----------------------------------------------------------------------------
(***************************************************************************)
(* The theorems.                                                           *)
(***************************************************************************)
\* Every reachable state is typed and has the facts above.
THEOREM Invariance == Spec => []IInv
<1>1. Init => IInv
  <2> SUFFICES ASSUME Init PROVE IInv
    OBVIOUS
  <2>1. TypeOK
    BY TypesInit
  <2>2. Network /\ LastArrival /\ Neighbours
    BY CaptureAssumption DEF Init, Network, LastArrival, Neighbours
  <2>3. FilesInv
    BY DEF Init, FilesInv, Progress, OpenFile, FilesContiguous, FilesMaximal
  <2>4. Extraction
    BY DEF Init, Extraction, ExtractedUnlessFFFF
  <2>5. QED
    BY <2>1, <2>2, <2>3, <2>4 DEF IInv
<1>2. IInv /\ [Next]_vars => IInv'
  BY TypesStep, NetworkStep, LogStep, FilesStep, ExtractionStep DEF IInv
<1>3. QED
  BY <1>1, <1>2, PTL DEF Spec

\* The log, the numbers and the files keep their types.
THEOREM TypeCorrect == Spec => []TypeOK
<1>1. IInv => TypeOK
  BY DEF IInv
<1>2. QED
  BY Invariance, <1>1, PTL

\* Each output file is an unbroken piece of the stream.
THEOREM PiecesUnbroken == Spec => []FilesContiguous
<1>1. IInv => FilesContiguous
  BY DEF IInv, FilesInv
<1>2. QED
  BY Invariance, <1>1, PTL

\* Two successive files are never parts of one run of numbers.
THEOREM PiecesMaximal == Spec => []FilesMaximal
<1>1. IInv => FilesMaximal
  BY DEF IInv, FilesInv
<1>2. QED
  BY Invariance, <1>1, PTL

\* The files are all the complete records read, in their order, unless the log
\* starts with the number expected at first or a file could not be opened.
THEOREM NothingLeftOut == Spec => []ExtractedUnlessFFFF
<1>1. IInv => ExtractedUnlessFFFF
  BY DEF IInv, Extraction
<1>2. QED
  BY Invariance, <1>1, PTL
=============================================================================
