--------------------------- MODULE TraceMessages ---------------------------
(***************************************************************************)
(* The data-transfer protocol of ctrace.h on top of direct-data messages:  *)
(* the calls of ctrace_test_main and the scheduler's ownership messages on *)
(* one side, and on the other a reader of the trace that knows the markers *)
(* of ctrace.h and nothing else.  In between the trace keeps its order and *)
(* may lose messages.                                                      *)
(*                                                                         *)
(* A value is a sequence of words of 16 bits, the lowest first.  Signed    *)
(* values, floats and pointers are words already, as the casts and unions  *)
(* of ctrace.h make them.                                                  *)
(***************************************************************************)
EXTENDS Integers, Sequences, SequencesExt

CONSTANTS
  HasF, HasD,    \* the extensions CSR_MISA shows
  MainAddress,   \* &ctrace_test_main
  Ids,           \* the ids of tasks
  Lossy,         \* the trace may lose messages
  None           \* no value

Words == 0 .. 65535

ASSUME MessagesAssumption ==
  /\ {HasF, HasD, Lossy} \subseteq BOOLEAN
  /\ MainAddress \in Words \X Words
  /\ Ids \subseteq Words \ {0}

VARIABLES
  counter,       \* counter of ctrace_test_main, modulo eight
  todo,          \* what the running call has yet to emit
  part,          \* words the reader has of the value under way
  sent,          \* history: the value whose last word was emitted last
  got,           \* the value the reader has read last
  lost,          \* the last message was lost
  everLost       \* history: one was

vars == <<counter, todo, part, sent, got, lost, everLost>>
reader == <<part, got>>
-----------------------------------------------------------------------------
(***************************************************************************)
(* ctrace.h.                                                               *)
(***************************************************************************)
Value(kind, width, words) == [kind |-> kind, width |-> width, words |-> words]

\* __builtin_ctrace_build_command_word, and the write of the command register.
Message(command, data) == [cmd |-> command, data |-> data % 16777216]

Kinds == <<"PTR", "INT", "UINT", "FLOAT">>
KindCode(kind) == (CHOOSE k \in 1 .. 4 : Kinds[k] = kind) - 1

\* Mutant of the next definition: a value of 64 bits is marked as one of 32.
WidthMixedUp(width) == IF width = 64 THEN 4 ELSE width \div 8
WidthCode(width) == width \div 8

\* Mutant of the next definition: all words are marked as the last.
MoreNever(k, n) == FALSE
More(k, n) == k < n

Indicator(kind, width, more) ==
  (IF more THEN 64 ELSE 0) + 16 * KindCode(kind) + WidthCode(width)

\* The emit functions of all types: one message for each word, and with it, for
\* the history, which word of which value it is.
EmitData(v) ==
  [k \in 1 .. Len(v.words) |->
     [msg |-> Message("DAQ_DIRECT_DATA",
                65536 * Indicator(v.kind, v.width, More(k, Len(v.words))) + v.words[k]),
      of |-> v, word |-> k]]

Other(command, data) == << [msg |-> Message(command, data), of |-> None, word |-> 0] >>
EmitMarker(tag) == Other("DAQ_PC_CURR", tag)
EmitPc == Other("DAQ_PC_CURR", 0)
EmitNop == Other("NONE", 0)
OwnershipTrace(id) == Other("DAQ_DIRECT_DATA", 8388608 + id)
-----------------------------------------------------------------------------
(***************************************************************************)
(* ctrace_test_main.                                                       *)
(***************************************************************************)
Small(kind, b, w) ==
  EmitData(Value(kind, 8, <<b>>)) \o EmitData(Value(kind, 16, <<w>>))
\* 8, 16, 32 and 64 bits: b, and words that are low except for the highest.
Family(kind, b, low, high) ==
  Small(kind, b, high) \o EmitData(Value(kind, 32, <<low, high>>))
    \o EmitData(Value(kind, 64, <<low, low, low, high>>))

DeadBeef == EmitData(Value("UINT", 32, <<48879, 57005>>))
\* Floating point, where the processor has it.
Half == IF HasF THEN EmitData(Value("FLOAT", 32, <<0, 16128>>)) ELSE <<>>
TwoPointTwo ==
  IF HasD THEN EmitData(Value("FLOAT", 64, <<39322, 39321, 39321, 16385>>)) ELSE <<>>

Calls(c) ==
  CASE c = 0 -> EmitMarker(222) \o EmitMarker(173) \o EmitMarker(190) \o EmitMarker(239)
    [] c = 1 -> EmitPc \o EmitNop
    [] c = 2 -> Family("UINT", 0, 0, 0)
    [] c = 3 -> Family("UINT", 255, 65535, 65535)
    [] c = 4 -> Family("INT", 128, 0, 32768)
    [] c = 5 -> Family("INT", 127, 65535, 32767)
    [] c = 6 -> DeadBeef \o Half \o TwoPointTwo
    [] c = 7 -> EmitData(Value("PTR", 32, <<0, 0>>)) \o EmitData(Value("PTR", 32, MainAddress))

\* The scheduler's message comes before a task, when no call is under way.
Task ==
  /\ todo = <<>>
  /\ \E id \in Ids : todo' = OwnershipTrace(id)
  /\ UNCHANGED <<counter, reader, sent, lost, everLost>>

TestMain ==
  /\ todo = <<>>
  /\ todo' = Calls(counter)
  /\ counter' = (counter + 1) % 8
  /\ UNCHANGED <<reader, sent, lost, everLost>>
-----------------------------------------------------------------------------
(***************************************************************************)
(* The reader.                                                             *)
(***************************************************************************)
IndicatorOf(m) == m.data \div 65536
IsData(m) == m.cmd = "DAQ_DIRECT_DATA" /\ IndicatorOf(m) \in 1 .. 127
IsOwnership(m) == m.cmd = "DAQ_DIRECT_DATA" /\ IndicatorOf(m) >= 128

WordOf(m) == [kind |-> Kinds[((IndicatorOf(m) \div 16) % 4) + 1],
              width |-> 8 * (IndicatorOf(m) % 16), word |-> m.data % 65536]
Complete(s) ==
  /\ \A k \in DOMAIN s : s[k].kind = s[1].kind /\ s[k].width = s[1].width
  /\ Len(s) = IF s[1].width = 8 THEN 1 ELSE s[1].width \div 16
Assembled(s) == Value(s[1].kind, s[1].width, [k \in DOMAIN s |-> s[k].word])

\* Words are collected up to the one without the marker for more; five or more
\* are too many in any case.
Collect(m) ==
  LET s == IF Len(part) < 5 THEN Append(part, WordOf(m)) ELSE part
  IN  IF IndicatorOf(m) >= 64
      THEN part' = s /\ UNCHANGED got
      ELSE part' = <<>> /\ got' = IF Complete(s) THEN Assembled(s) ELSE got

Receive(m) ==
  \/ IsData(m) /\ Collect(m)
  \/ IsOwnership(m) /\ part' = <<>> /\ UNCHANGED got
  \/ ~IsData(m) /\ ~IsOwnership(m) /\ UNCHANGED reader

\* A message with the last word of its value.
Ends(e) == e.word > 0 /\ e.word = Len(e.of.words)

\* The next message of the call: it arrives, or is lost, unless the one before it
\* was lost, too.
Emit ==
  /\ todo # <<>>
  /\ todo' = Tail(todo)
  /\ sent' = IF Ends(Head(todo)) THEN Head(todo).of ELSE sent
  /\ UNCHANGED counter

Arrive == Emit /\ Receive(Head(todo).msg) /\ lost' = FALSE /\ UNCHANGED everLost
Lose == Emit /\ Lossy /\ ~lost /\ lost' = TRUE /\ everLost' = TRUE /\ UNCHANGED reader
-----------------------------------------------------------------------------
\* Nothing initialises counter.
Init ==
  /\ counter \in 0 .. 7 /\ todo = <<>> /\ part = <<>>
  /\ sent = None /\ got = None /\ lost = FALSE /\ everLost = FALSE

Next == Task \/ TestMain \/ Arrive \/ Lose

Spec == Init /\ [][Next]_vars
-----------------------------------------------------------------------------
(***************************************************************************)
(* Properties.                                                             *)
(***************************************************************************)
\* While nothing is lost, the reader has read every value, of whatever type and
\* width, as it was emitted, as soon as its last message is out.
RoundTrip == ~everLost => got = sent

\* The markers make the stream self-synchronising: if no two successive messages
\* are lost, a value may be missed but none is read that was not emitted.
NoFalseValue == [][got' # got => got' = sent']_vars
=============================================================================
