---------------------------- MODULE TraceCapture ----------------------------
(***************************************************************************)
(* The way of the trace from the TSN Tracelink to disk: numbered datagrams *)
(* over UDP, which loses, duplicates and reorders them; udplog.py, which   *)
(* appends what it receives to a log; and udp2nexus, which cuts the log    *)
(* into one file for each unbroken run of sequence numbers.                *)
(*                                                                         *)
(* Datagrams are told apart by their place n in the stream; the number     *)
(* they carry is 16 bits wide.                                             *)
(***************************************************************************)
EXTENDS Integers, Sequences, SequencesExt

CONSTANTS
  Modulus,       \* 2^16
  Firsts,        \* the sequence numbers the first datagram may carry
  Outage,        \* the network delivers one of any so many successive datagrams
  Lifetime,      \* no datagram arrives so many datagrams later, or more
  OpenMayFail,   \* whether fopen of an output file may fail
  MaxSent, MaxLog  \* bounds on the datagrams sent and logged

ASSUME CaptureAssumption ==
  /\ Modulus \in Nat \ {0} /\ Outage \in Nat \ {0} /\ Lifetime \in Nat \ {0}
  /\ Outage + Lifetime <= Modulus
  /\ Firsts \subseteq 0 .. Modulus - 1
  /\ OpenMayFail \in BOOLEAN
  /\ MaxSent \in Nat /\ MaxLog \in Nat

VARIABLES
  first,         \* the sequence number of datagram 1
  sent,          \* datagrams 1 .. sent have been sent
  net,           \* those that may still arrive
  high,          \* the latest datagram that has arrived
  log,           \* the records of the log file
  phase,         \* "logging", "converting" or "done"
  pos,           \* records udp2nexus has read
  expected,      \* _glblSeqnoExp
  streaming,     \* _glblstream is not NULL
  files          \* files[k]: what has been written to the k-th output file

vars == <<first, sent, net, high, log, phase, pos, expected, streaming, files>>
logger == <<first, sent, net, high, log>>
converter == <<pos, expected, streaming, files>>

Seqno(n) == (first + n - 1) % Modulus
-----------------------------------------------------------------------------
(***************************************************************************)
(* The Tracelink and the network.                                          *)
(***************************************************************************)
Send ==
  /\ phase = "logging" /\ sent < MaxSent /\ sent < high + Outage
  /\ sent' = sent + 1
  /\ net' = {n \in net : n > sent' - Lifetime} \cup {sent'}
  /\ UNCHANGED <<first, high, log, phase, converter>>

Lose ==
  /\ \E n \in net : net' = net \ {n}
  /\ UNCHANGED <<first, sent, high, log, phase, converter>>
-----------------------------------------------------------------------------
(***************************************************************************)
(* udplog.py.                                                              *)
(***************************************************************************)
Record(n, whole) == [n |-> n, whole |-> whole]

\* recvfrom and log_data; what has arrived may arrive again.
LogData ==
  /\ phase = "logging" /\ Len(log) < MaxLog
  /\ \E n \in net :
       /\ log' = Append(log, Record(n, TRUE))
       /\ high' = IF n > high THEN n ELSE high
       /\ net' \in {net, net \ {n}}
  /\ UNCHANGED <<first, sent, phase, converter>>

\* Ctrl-C or an exception.  In the middle of log_data it leaves the record that
\* was being written incomplete, for the with statement writes out its part.
StopLogging ==
  /\ phase = "logging" /\ phase' = "converting"
  /\ log' \in {log} \cup {Append(log, Record(n, FALSE)) : n \in net}
  /\ UNCHANGED <<first, sent, net, high, converter>>
-----------------------------------------------------------------------------
(***************************************************************************)
(* udp2nexus.                                                              *)
(***************************************************************************)
\* The end of the log, or an incomplete record, ends the loop of parse_file.
HasEntry == pos < Len(log) /\ log[pos + 1].whole

Finish ==
  /\ phase = "converting" /\ ~HasEntry
  /\ phase' = "done"
  /\ streaming' = FALSE
  /\ UNCHANGED <<logger, pos, expected, files>>

\* Mutant of the next definition: no wrap to 16 bits.
SuccUnwrapped(s) == s + 1
Succ16(s) == (s + 1) % Modulus

\* Mutant of the next definition: no gap is seen while a file is open.
AlwaysMatches(s) == streaming
Matches(s) == s = expected

\* Mutant of the next definition: what is expected is not written.
ContinueEmpty(n) == Matches(Seqno(n)) /\ UNCHANGED <<streaming, files>>

\* A number that is not the expected one closes the file and opens the next.
Continue(n) == /\ Matches(Seqno(n))
               /\ UNCHANGED streaming
               /\ files' = IF streaming
                           THEN [files EXCEPT ![Len(files)] = Append(@, n)] ELSE files
NewFile(n) == /\ ~Matches(Seqno(n))
              /\ streaming' \in {TRUE, ~OpenMayFail}
              /\ files' = Append(files, IF streaming' THEN <<n>> ELSE <<>>)

NextEntry ==
  /\ phase = "converting" /\ HasEntry
  /\ LET n == log[pos + 1].n
     IN  /\ Continue(n) \/ NewFile(n)
         /\ expected' = Succ16(Seqno(n))
  /\ pos' = pos + 1
  /\ UNCHANGED <<logger, phase>>
-----------------------------------------------------------------------------
Init ==
  /\ first \in Firsts /\ sent = 0 /\ net = {} /\ high = 0
  /\ log = <<>> /\ phase = "logging"
  /\ pos = 0 /\ expected = Modulus - 1 /\ streaming = FALSE /\ files = <<>>

Next == Send \/ Lose \/ LogData \/ StopLogging \/ NextEntry \/ Finish

Spec == Init /\ [][Next]_vars
-----------------------------------------------------------------------------
(***************************************************************************)
(* Properties.                                                             *)
(***************************************************************************)
\* Datagrams, records and 16-bit numbers.
TypeOK ==
  /\ first \in 0 .. Modulus - 1
  /\ sent \in 0 .. MaxSent /\ high \in 0 .. sent /\ net \in SUBSET (1 .. sent)
  /\ log \in Seq([n : 1 .. sent, whole : BOOLEAN])
  /\ phase \in {"logging", "converting", "done"}
  /\ pos \in 0 .. Len(log)
  /\ expected \in 0 .. Modulus - 1 /\ streaming \in BOOLEAN
  /\ files \in Seq(Seq(1 .. sent))

\* Each output file is an unbroken piece of the stream the Tracelink sent: what
\* is lost, doubled or overtaken on the way never ends up inside a file.
FilesContiguous ==
  \A k \in DOMAIN files : \A i \in 1 .. Len(files[k]) - 1 :
    files[k][i + 1] = files[k][i] + 1

\* And the pieces are as long as they can be: two successive files are never
\* parts of one run of numbers, not even where the numbers wrap.
FilesMaximal ==
  \A k \in 1 .. Len(files) - 1 :
    files[k] # <<>> /\ files[k + 1] # <<>> =>
      files[k + 1][1] # Last(files[k]) + 1

\* "The NEXUS stream is extracted from the UDP frames": the files together are
\* all the complete records read, in the order of the log.
AllExtracted == FlattenSeq(files) = [i \in 1 .. pos |-> log[i].n]

\* They are, unless the log starts with the number _glblSeqnoExp starts with or an
\* output file could not be opened, which leaves its records out.
ExtractedUnlessFFFF ==
  /\ pos > 0 /\ Seqno(log[1].n) # Modulus - 1
  /\ \A k \in DOMAIN files : files[k] # <<>>
  => AllExtracted
=============================================================================
