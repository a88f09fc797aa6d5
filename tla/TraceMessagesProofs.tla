------------------------- MODULE TraceMessagesProofs -------------------------
(***************************************************************************)
(* Theorems about TraceMessages, for every address, every set of ids, with *)
(* or without floating point, and with or without loss: the reader of the  *)
(* trace reads what was emitted, and nothing else.                         *)
(*                                                                         *)
(* The argument is about what the reader may have collected, in each state *)
(* of the call: at a boundary between values nothing, or the words of a    *)
(* value whose last word was lost (LeftOver), and inside of a value its    *)
(* words up to now, or a number or width of words that the words to come   *)
(* cannot make into a value (UnderWay).                                    *)
(***************************************************************************)
EXTENDS TraceMessages, SequenceTheorems, TLAPS

KindSet == {"PTR", "INT", "UINT", "FLOAT"}
WordRecords == [kind : KindSet, width : {8, 16, 32, 64}, word : Words]
IsValue(v) ==
  /\ v = Value(v.kind, v.width, v.words)
  /\ v.kind \in KindSet /\ v.width \in {8, 16, 32, 64}
  /\ v.words \in Seq(Words) /\ Len(v.words) = IF v.width = 8 THEN 1 ELSE v.width \div 16

\* What is emitted are words of values, in their order, and messages without data.
IsWord(e) ==
  IsValue(e.of) /\ e.word \in 1 .. Len(e.of.words) /\ e.msg = EmitData(e.of)[e.word].msg
IsOther(e) == e.word = 0 /\ ~IsData(e.msg)
GoesOn(e) == e.word > 0 /\ ~Ends(e)

Stream(t) ==
  /\ t \in Seq(Range(t))
  /\ \A k \in 1 .. Len(t) : IsOther(t[k]) \/ IsWord(t[k])
  /\ \A k \in 1 .. Len(t) :
       GoesOn(t[k]) => k < Len(t) /\ t[k + 1].of = t[k].of /\ t[k + 1].word = t[k].word + 1
  /\ \A k \in 2 .. Len(t) : GoesOn(t[k - 1]) \/ t[k].word \in {0, 1}

\* At a boundary the reader expects a value to begin.
Boundary == todo = <<>> \/ Head(todo).word \in {0, 1}
Whole(t) == Stream(t) /\ (t # <<>> => t[1].word \in {0, 1})

Types ==
  /\ counter \in 0 .. 7 /\ lost \in BOOLEAN /\ everLost \in BOOLEAN
  /\ part \in Seq(WordRecords)
  /\ Stream(todo)

\* Markers, which leave the words of the reader alone, are only in the first calls.
NoValues == counter \in {1, 2} /\ \A k \in 1 .. Len(todo) : todo[k].word = 0
Markers == (\E k \in 1 .. Len(todo) : todo[k].word = 0 /\ ~IsOwnership(todo[k].msg)) => NoValues
ByteNext == todo # <<>> /\ Head(todo).word = 1 /\ Ends(Head(todo))

\* Words left over from a value whose last word was lost.
Left(p) == p = <<>> \/ Len(p) >= 2 \/ p[1].width = 32
LeftOver ==
  Boundary =>
    /\ part = <<>> \/ lost = TRUE \/ NoValues \/ ByteNext
    /\ Left(part)

\* What the reader has of a value under way: the words up to now, or too many of
\* them, or too few, or a word of a narrower value.
ReadWord(v, k) == [kind |-> v.kind, width |-> v.width, word |-> v.words[k]]
Exact(v, k, p) == p = [i \in 1 .. k - 1 |-> ReadWord(v, i)]
Narrower(p) == p # <<>> /\ p[1].width = 32
Second(p, l) ==
  \/ p = <<>> /\ l = TRUE
  \/ Len(p) >= 3 /\ l = FALSE
Third(p, l) == Len(p) = 1 \/ Len(p) >= 4 \/ (Len(p) >= 3 /\ l = TRUE)
Fourth(p, l) == Len(p) = 2 \/ Len(p) >= 4 \/ (Len(p) = 1 /\ l = TRUE)
UnderWay(v, k, p, l) ==
  \/ Exact(v, k, p)
  \/ v.width = 32 /\ ((p = <<>> /\ l = TRUE) \/ Len(p) >= 2)
  \/ v.width = 64 /\ Narrower(p)
  \/ v.width = 64 /\ k = 2 /\ Second(p, l)
  \/ v.width = 64 /\ k = 3 /\ Third(p, l)
  \/ v.width = 64 /\ k = 4 /\ Fourth(p, l)
Collecting == ~Boundary => UnderWay(Head(todo).of, Head(todo).word, part, lost)

\* As long as nothing is lost the reader has all that was emitted.
Lossless ==
  everLost = FALSE =>
    /\ lost = FALSE /\ got = sent
    /\ IF Boundary THEN part = <<>> ELSE Exact(Head(todo).of, Head(todo).word, part)

IInv == Types /\ Markers /\ LeftOver /\ Collecting /\ Lossless
-----------------------------------------------------------------------------
(***************************************************************************)
(* What the markers say of a message.                                      *)
(***************************************************************************)
\* The bits of the type are the type.
LEMMA Types2Bits ==
  ASSUME NEW kind \in KindSet
  PROVE  KindCode(kind) \in 0 .. 3 /\ Kinds[KindCode(kind) + 1] = kind
<1>1. \E k \in 1 .. 4 : Kinds[k] = kind
  <2>1. 1 \in 1 .. 4 /\ 2 \in 1 .. 4 /\ 3 \in 1 .. 4 /\ 4 \in 1 .. 4
    OBVIOUS
  <2>2. QED
    BY <2>1 DEF Kinds, KindSet
<1>2. PICK k \in 1 .. 4 : k = (CHOOSE j \in 1 .. 4 : Kinds[j] = kind) /\ Kinds[k] = kind
  BY <1>1
<1>3. PICK c \in 0 .. 3 : c = KindCode(kind) /\ c + 1 = k
  <2>1. KindCode(kind) = k - 1
    BY <1>2 DEF KindCode
  <2>2. k - 1 \in 0 .. 3 /\ (k - 1) + 1 = k
    OBVIOUS
  <2>3. QED
    BY <2>1, <2>2
<1>4. QED
  BY <1>2, <1>3

\* An indicator is the type, the width and whether there is more.
Says(i, kind, width, more) ==
  /\ i \in 1 .. 127 /\ (i \div 16) % 4 = KindCode(kind) /\ 8 * (i % 16) = width
  /\ i >= 64 <=> more
\* Each that the emit functions make.
LEMMA IndicatorBits ==
  ASSUME NEW kind \in KindSet, NEW width \in {8, 16, 32, 64}, NEW k \in Nat, NEW n \in Nat,
         NEW i, i = Indicator(kind, width, More(k, n))
  PROVE  Says(i, kind, width, k < n)
<1>1. PICK c \in 0 .. 3 : c = KindCode(kind)
  BY Types2Bits
<1>2. PICK w \in 1 .. 8 : w = width \div 8 /\ 8 * w = width
  <2>1. width \div 8 \in 1 .. 8 /\ 8 * (width \div 8) = width
    OBVIOUS
  <2>2. QED
    BY <2>1
<1>3. CASE k < n
  <2>1. i = 64 + 16 * c + w
    BY <1>1, <1>2, <1>3 DEF Indicator, More, WidthCode
  <2>2. i \in Int /\ i \in 65 .. 127 /\ (i \div 16) % 4 = c /\ i % 16 = w
    BY <2>1
  <2>3. QED
    BY <1>1, <1>2, <1>3, <2>2 DEF Says
<1>4. CASE ~(k < n)
  <2>1. i = 16 * c + w
    <3>1. i = 0 + 16 * c + w
      BY <1>1, <1>2, <1>4 DEF Indicator, More, WidthCode
    <3>2. QED
      BY <1>2, <3>1
  <2>2. i \in Int /\ i \in 1 .. 63 /\ (i \div 16) % 4 = c /\ i % 16 = w
    BY <2>1
  <2>3. QED
    BY <1>1, <1>2, <1>4, <2>2 DEF Says
<1>5. QED
  BY <1>3, <1>4

\* A word has 16 bits.
LEMMA WordIs ==
  ASSUME NEW w \in Words
  PROVE  w \in Nat /\ w <= 65535
BY SMT DEF Words

\* The reader takes the message of a word for that word.
LEMMA WordIsRead ==
  ASSUME NEW e, IsWord(e)
  PROVE  /\ IsData(e.msg) /\ WordOf(e.msg) = ReadWord(e.of, e.word)
         /\ ReadWord(e.of, e.word) \in WordRecords
         /\ IndicatorOf(e.msg) >= 64 <=> GoesOn(e)
<1>1. PICK v, k : v = e.of /\ k = e.word
  OBVIOUS
<1>2. IsValue(v) /\ k \in 1 .. Len(v.words) /\ e.msg = EmitData(v)[k].msg
  BY <1>1 DEF IsWord
<1>3. PICK n \in Nat : n = Len(v.words) /\ k \in 1 .. n
  BY <1>2 DEF IsValue
<1>4. PICK i : i = Indicator(v.kind, v.width, More(k, n))
  OBVIOUS
<1>5. /\ i \in 1 .. 127 /\ (i \div 16) % 4 = KindCode(v.kind) /\ 8 * (i % 16) = v.width
      /\ i >= 64 <=> k < n
  <2>1. v.kind \in KindSet /\ v.width \in {8, 16, 32, 64} /\ k \in Nat
    BY <1>2, <1>3 DEF IsValue
  <2>2. Says(i, v.kind, v.width, k < n)
    BY <1>3, <1>4, <2>1, IndicatorBits, Zenon
  <2>3. QED
    BY <2>2 DEF Says
<1>6. v.words[k] \in Words
  BY <1>2, ElementOfSeq DEF IsValue
<1>7. e.msg = Message("DAQ_DIRECT_DATA", 65536 * i + v.words[k])
  BY <1>2, <1>3, <1>4 DEF EmitData
<1>8. e.msg.cmd = "DAQ_DIRECT_DATA" /\ e.msg.data = (65536 * i + v.words[k]) % 16777216
  BY <1>7 DEF Message
<1>9. IndicatorOf(e.msg) = i /\ e.msg.data % 65536 = v.words[k]
  <2>1. i \in Nat /\ i <= 128 /\ v.words[k] \in Nat /\ v.words[k] <= 65535
    BY <1>5, <1>6, WordIs, SMT
  <2>2. PICK w, d : w = v.words[k] /\ d = e.msg.data
    OBVIOUS
  <2>3. i \in Nat /\ i <= 128 /\ w \in Nat /\ w <= 65535 /\ d = (65536 * i + w) % 16777216
    BY <1>8, <2>1, <2>2, SMT
  <2>4. d \div 65536 = i /\ d % 65536 = w
    BY <2>3, SMT
  <2>5. QED
    BY <2>2, <2>4, SMT DEF IndicatorOf
<1>10. IsData(e.msg)
  BY <1>5, <1>8, <1>9 DEF IsData
<1>11. WordOf(e.msg) = ReadWord(v, k)
  <2>1. Kinds[((i \div 16) % 4) + 1] = v.kind
    BY <1>2, <1>5, Types2Bits DEF IsValue
  <2>2. QED
    BY <1>5, <1>9, <2>1 DEF WordOf, ReadWord
<1>12. ReadWord(v, k) \in WordRecords
  BY <1>2, <1>6 DEF ReadWord, WordRecords, IsValue
<1>13. GoesOn(e) <=> k < n
  BY <1>1, <1>3 DEF GoesOn, Ends
<1>14. QED
  BY <1>1, <1>5, <1>9, <1>10, <1>11, <1>12, <1>13
-----------------------------------------------------------------------------
(***************************************************************************)
(* What is emitted.                                                        *)
(***************************************************************************)
\* A sequence is one of its elements.
LEMMA OfItsRange ==
  ASSUME NEW S, NEW t \in Seq(S)
  PROVE  /\ t \in Seq(Range(t)) /\ Len(t) \in Nat
         /\ \A k \in 1 .. Len(t) : t[k] \in Range(t)
<1>1. PICK n \in Nat : n = Len(t) /\ t \in [1 .. n -> S]
  OBVIOUS
<1>2. \A k \in 1 .. n : t[k] \in Range(t)
  BY <1>1 DEF Range
<1>3. PICK R : R = Range(t)
  OBVIOUS
<1>4. t \in [1 .. n -> R]
  BY <1>1, <1>2, <1>3
<1>5. t \in Seq(R)
  BY <1>4
<1>6. QED
  BY <1>1, <1>2, <1>3, <1>5

\* One list behind another, element by element.
Joined(c, a, b) ==
  /\ c \in Seq(Range(c)) /\ Len(c) = Len(a) + Len(b) /\ Len(a) \in Nat /\ Len(b) \in Nat
  /\ \A k \in 1 .. Len(a) : c[k] = a[k]
  /\ \A k \in 1 .. Len(b) : c[k + Len(a)] = b[k]
\* That is what \o makes.
LEMMA Join ==
  ASSUME NEW S, NEW a \in Seq(S), NEW T, NEW b \in Seq(T)
  PROVE  Joined(a \o b, a, b)
<1>1. PICK U : U = S \cup T
  OBVIOUS
<1>2. a \in Seq(U) /\ b \in Seq(U)
  BY <1>1
<1>3. PICK c : c = a \o b
  OBVIOUS
<1>4. c \in Seq(U) /\ Len(c) = Len(a) + Len(b) /\ Len(a) \in Nat /\ Len(b) \in Nat
  BY <1>2, <1>3, ConcatProperties
<1>5. c \in Seq(Range(c))
  BY <1>4, OfItsRange
<1>6. ASSUME NEW k \in 1 .. Len(a) PROVE c[k] = a[k]
  BY <1>2, <1>3, <1>4
<1>7. ASSUME NEW k \in 1 .. Len(b) PROVE c[k + Len(a)] = b[k]
  BY <1>2, <1>3, <1>4
<1>8. QED
  BY <1>3, <1>4, <1>5, <1>6, <1>7 DEF Joined

\* Only words of values, and only messages without data.
AllWords(t) == Whole(t) /\ \A k \in 1 .. Len(t) : t[k].word > 0
NoWords(t) == Whole(t) /\ \A k \in 1 .. Len(t) : t[k].word = 0

\* One whole stream behind another is one.
LEMMA WholeJoin ==
  ASSUME NEW a, Whole(a), NEW b, Whole(b)
  PROVE  /\ Whole(a \o b)
         /\ AllWords(a) /\ AllWords(b) => AllWords(a \o b)
         /\ NoWords(a) /\ NoWords(b) => NoWords(a \o b)
         /\ a # <<>> => a \o b # <<>> /\ (a \o b)[1] = a[1]
<1>1. PICK c : c = a \o b
  OBVIOUS
<1>2. PICK m \in Nat, n \in Nat : m = Len(a) /\ n = Len(b)
  BY OfItsRange DEF Whole, Stream
<1>3. a \in Seq(Range(a)) /\ b \in Seq(Range(b)) /\ Stream(a) /\ Stream(b)
  BY DEF Whole, Stream
<1>4. Joined(c, a, b)
  BY <1>1, <1>3, Join
<1>5. /\ c \in Seq(Range(c)) /\ Len(c) = m + n
      /\ \A k \in 1 .. m : c[k] = a[k]
      /\ \A k \in 1 .. n : c[k + m] = b[k]
  BY <1>2, <1>4 DEF Joined
<1>6. ASSUME NEW k \in m + 1 .. m + n
      PROVE  k - m \in 1 .. n /\ c[k] = b[k - m]
  <2>1. k - m \in 1 .. n /\ (k - m) + m = k
    OBVIOUS
  <2>2. QED
    BY <1>5, <2>1
<1>7. ASSUME NEW k \in 1 .. m + n PROVE k \in 1 .. m \/ k \in m + 1 .. m + n
  OBVIOUS
<1>8. a # <<>> => m > 0 /\ a[1].word \in {0, 1} /\ c # <<>> /\ c[1] = a[1]
  <2> SUFFICES ASSUME a # <<>>
               PROVE  m > 0 /\ a[1].word \in {0, 1} /\ c # <<>> /\ c[1] = a[1]
    OBVIOUS
  <2>1. m > 0
    BY <1>2, <1>3
  <2>2. 1 \in 1 .. m /\ c # <<>>
    BY <1>5, <2>1
  <2>3. QED
    BY <1>5, <2>1, <2>2 DEF Whole
<1>9. b # <<>> => b[1].word \in {0, 1}
  BY DEF Whole
<1>10. n > 0 => b # <<>>
  BY <1>2
<1>11. ASSUME NEW k \in 1 .. m + n PROVE IsOther(c[k]) \/ IsWord(c[k])
  <2>1. CASE k \in 1 .. m
    BY <1>2, <1>3, <1>5, <2>1 DEF Stream
  <2>2. CASE k \in m + 1 .. m + n
    BY <1>2, <1>3, <1>6, <2>2 DEF Stream
  <2>3. QED
    BY <1>7, <2>1, <2>2
<1>12. ASSUME NEW k \in 1 .. m + n, GoesOn(c[k])
       PROVE  k < m + n /\ c[k + 1].of = c[k].of /\ c[k + 1].word = c[k].word + 1
  <2>1. CASE k \in 1 .. m
    <3>1. GoesOn(a[k]) /\ k \in 1 .. Len(a) /\ c[k] = a[k]
      BY <1>2, <1>5, <1>12, <2>1
    <3>2. k < m /\ a[k + 1].of = a[k].of /\ a[k + 1].word = a[k].word + 1
      BY <1>2, <1>3, <3>1 DEF Stream
    <3>3. k + 1 \in 1 .. m
      BY <2>1, <3>2
    <3>4. QED
      BY <1>5, <3>1, <3>2, <3>3
  <2>2. CASE k \in m + 1 .. m + n
    <3>1. PICK j \in 1 .. n : j = k - m /\ c[k] = b[j] /\ k = j + m
      BY <1>6, <2>2
    <3>2. j < n /\ b[j + 1].of = b[j].of /\ b[j + 1].word = b[j].word + 1
      BY <1>2, <1>3, <1>12, <3>1 DEF Stream
    <3>3. k + 1 \in m + 1 .. m + n /\ (k + 1) - m = j + 1
      BY <3>1, <3>2
    <3>4. c[k + 1] = b[j + 1]
      BY <1>6, <3>3
    <3>5. QED
      BY <3>1, <3>2, <3>4
  <2>3. QED
    BY <1>7, <2>1, <2>2
<1>13. ASSUME NEW k \in 2 .. m + n PROVE GoesOn(c[k - 1]) \/ c[k].word \in {0, 1}
  <2>1. CASE k \in 2 .. m
    <3>1. k \in 1 .. m /\ k - 1 \in 1 .. m
      BY <2>1
    <3>2. c[k] = a[k] /\ c[k - 1] = a[k - 1]
      BY <1>5, <3>1
    <3>3. QED
      BY <1>2, <1>3, <2>1, <3>2 DEF Stream
  <2>2. CASE k = m + 1
    <3>1. 1 \in 1 .. n /\ k = 1 + m
      BY <2>2
    <3>2. c[k] = b[1] /\ b # <<>>
      BY <1>5, <1>10, <3>1
    <3>3. QED
      BY <1>9, <3>2
  <2>3. CASE k \in m + 2 .. m + n
    <3>1. PICK j \in 2 .. n : j = k - m
      BY <2>3
    <3>2. k \in m + 1 .. m + n /\ k - 1 \in m + 1 .. m + n /\ (k - 1) - m = j - 1
      BY <2>3, <3>1
    <3>3. c[k] = b[j] /\ c[k - 1] = b[j - 1]
      BY <1>6, <3>1, <3>2
    <3>4. QED
      BY <1>2, <1>3, <3>1, <3>3 DEF Stream
  <2>4. QED
    BY <2>1, <2>2, <2>3
<1>14. Whole(c)
  <2>1. Stream(c)
    BY <1>5, <1>11, <1>12, <1>13 DEF Stream
  <2>2. c # <<>> => c[1].word \in {0, 1}
    <3>1. CASE a # <<>>
      BY <1>8, <3>1
    <3>2. CASE a = <<>>
      <4>1. m = 0
        BY <1>2, <3>2
      <4>2. c # <<>> => n > 0
        BY <1>5, <4>1
      <4>3. n > 0 => c[1] = b[1]
        BY <1>5, <4>1
      <4>4. QED
        BY <1>9, <1>10, <4>2, <4>3
    <3>3. QED
      BY <3>1, <3>2
  <2>3. QED
    BY <2>1, <2>2 DEF Whole
<1>15. ASSUME AllWords(a), AllWords(b), NEW k \in 1 .. m + n PROVE c[k].word > 0
  <2>1. CASE k \in 1 .. m
    BY <1>2, <1>5, <1>15, <2>1 DEF AllWords
  <2>2. CASE k \in m + 1 .. m + n
    BY <1>2, <1>6, <1>15, <2>2 DEF AllWords
  <2>3. QED
    BY <1>7, <2>1, <2>2
<1>16. ASSUME NoWords(a), NoWords(b), NEW k \in 1 .. m + n PROVE c[k].word = 0
  <2>1. CASE k \in 1 .. m
    BY <1>2, <1>5, <1>16, <2>1 DEF NoWords
  <2>2. CASE k \in m + 1 .. m + n
    BY <1>2, <1>6, <1>16, <2>2 DEF NoWords
  <2>3. QED
    BY <1>7, <2>1, <2>2
<1>17. AllWords(a) /\ AllWords(b) => AllWords(c)
  BY <1>5, <1>14, <1>15 DEF AllWords
<1>18. NoWords(a) /\ NoWords(b) => NoWords(c)
  BY <1>5, <1>14, <1>16 DEF NoWords
<1>19. QED
  BY <1>1, <1>8, <1>14, <1>17, <1>18

\* A value of the four kinds, with as many words as its width has.
LEMMA ValueOf ==
  ASSUME NEW kind \in KindSet, NEW width \in {8, 16, 32, 64}, NEW words \in Seq(Words),
         \/ width \in {8, 16} /\ Len(words) = 1
         \/ width = 32 /\ Len(words) = 2
         \/ width = 64 /\ Len(words) = 4
  PROVE  IsValue(Value(kind, width, words))
<1>1. PICK v : v = Value(kind, width, words)
  OBVIOUS
<1>2. v.kind = kind /\ v.width = width /\ v.words = words
  BY <1>1 DEF Value
<1>3. Len(words) = IF width = 8 THEN 1 ELSE width \div 16
  <2>1. 16 \div 16 = 1 /\ 32 \div 16 = 2 /\ 64 \div 16 = 4
    OBVIOUS
  <2>2. CASE width = 8
    BY <2>2
  <2>3. CASE width = 16
    BY <2>1, <2>3
  <2>4. CASE width = 32
    BY <2>1, <2>4
  <2>5. CASE width = 64
    BY <2>1, <2>5
  <2>6. QED
    BY <2>2, <2>3, <2>4, <2>5
<1>4. QED
  BY <1>1, <1>2, <1>3 DEF IsValue

\* A value has one, two or four words, for at most 16, for 32 and for 64 bits.
LEMMA Lengths ==
  ASSUME NEW v, IsValue(v)
  PROVE  \/ v.width \in {8, 16} /\ Len(v.words) = 1
         \/ v.width = 32 /\ Len(v.words) = 2
         \/ v.width = 64 /\ Len(v.words) = 4
BY DEF IsValue

\* At least one, at most four.
LEMMA LengthIs ==
  ASSUME NEW v, IsValue(v)
  PROVE  /\ Len(v.words) \in Nat /\ Len(v.words) > 0 /\ Len(v.words) <= 4
         /\ Len(v.words) = 1 \/ Len(v.words) > 1
<1>1. PICK n \in {1, 2, 4} : n = Len(v.words)
  BY Lengths
<1>2. n \in Nat /\ n > 0 /\ n <= 4 /\ (n = 1 \/ n > 1)
  OBVIOUS
<1>3. QED
  BY <1>1, <1>2

\* With more than one it is a value of 32 or 64 bits, with more than two of 64.
LEMMA SeveralWords ==
  ASSUME NEW v, IsValue(v), Len(v.words) > 1
  PROVE  /\ (v.width = 32 /\ Len(v.words) = 2) \/ (v.width = 64 /\ Len(v.words) = 4)
         /\ Len(v.words) > 2 => v.width = 64 /\ Len(v.words) = 4
<1>1. PICK n \in {1, 2, 4} : n = Len(v.words)
  BY Lengths
<1>2. n > 1
  BY <1>1
<1>3. n # 1 /\ (n > 2 => n # 2)
  BY <1>2
<1>4. 2 # 1 /\ 4 # 1 /\ 4 # 2
  OBVIOUS
<1>5. (v.width = 32 /\ n = 2) \/ (v.width = 64 /\ n = 4)
  BY <1>1, <1>3, Lengths
<1>6. QED
  BY <1>1, <1>3, <1>5

\* What the emit functions make of a value.
LEMMA DataIs ==
  ASSUME NEW v, IsValue(v), NEW t, t = EmitData(v)
  PROVE  /\ t \in Seq(Range(t)) /\ Len(t) = Len(v.words) /\ Len(t) > 0
         /\ \A k \in 1 .. Len(t) :
              t[k].of = v /\ t[k].word = k /\ IsWord(t[k]) /\ (GoesOn(t[k]) <=> k < Len(t))
<1> DEFINE Msg(k) == Message("DAQ_DIRECT_DATA",
                       65536 * Indicator(v.kind, v.width, More(k, Len(v.words))) + v.words[k])
<1>1. PICK n \in Nat : n = Len(v.words) /\ n > 0
  BY LengthIs
<1>2. t = [k \in 1 .. Len(v.words) |-> [msg |-> Msg(k), of |-> v, word |-> k]]
  BY SMT DEF EmitData
<1> HIDE DEF Msg
<1>3. t = [k \in 1 .. n |-> [msg |-> Msg(k), of |-> v, word |-> k]]
  BY <1>1, <1>2
<1>4. t \in [1 .. n -> Range(t)]
  BY <1>3 DEF Range
<1>5. t \in Seq(Range(t)) /\ Len(t) = n
  BY <1>1, <1>4
<1>6. ASSUME NEW k \in 1 .. n
      PROVE  t[k].of = v /\ t[k].word = k /\ IsWord(t[k]) /\ (GoesOn(t[k]) <=> k < n)
  <2>1. t[k].of = v /\ t[k].word = k
    BY <1>3
  <2>2. t[k].msg = EmitData(v)[k].msg
    OBVIOUS
  <2>3. IsWord(t[k])
    BY <1>1, <2>1, <2>2 DEF IsWord
  <2>4. GoesOn(t[k]) <=> k < n
    BY <1>1, <2>1 DEF GoesOn, Ends
  <2>5. QED
    BY <2>1, <2>3, <2>4
<1>7. QED
  BY <1>1, <1>5, <1>6

\* It is a whole stream, of words only, and begins with the first; a byte is one word.
LEMMA WholeData ==
  ASSUME NEW v, IsValue(v)
  PROVE  /\ AllWords(EmitData(v)) /\ EmitData(v) # <<>>
         /\ EmitData(v)[1].word = 1
         /\ v.width = 8 => Ends(EmitData(v)[1])
<1>1. PICK t : t = EmitData(v)
  OBVIOUS
<1>2. PICK n \in Nat : n = Len(t) /\ n > 0
  BY <1>1, DataIs, Lengths
<1>3. t \in Seq(Range(t)) /\ Len(t) = n /\ n = Len(v.words)
  BY <1>1, <1>2, DataIs
<1>4. \A k \in 1 .. n :
         t[k].of = v /\ t[k].word = k /\ IsWord(t[k]) /\ (GoesOn(t[k]) <=> k < n)
  BY <1>1, <1>2, DataIs
<1>5. 1 \in 1 .. n /\ t # <<>>
  BY <1>2
<1>6. \A k \in 1 .. n : GoesOn(t[k]) => k < n /\ t[k + 1].of = t[k].of /\ t[k + 1].word = t[k].word + 1
  <2> SUFFICES ASSUME NEW k \in 1 .. n, GoesOn(t[k])
               PROVE  k < n /\ t[k + 1].of = t[k].of /\ t[k + 1].word = t[k].word + 1
    OBVIOUS
  <2>1. k < n /\ k + 1 \in 1 .. n
    BY <1>4
  <2>2. QED
    BY <1>4, <2>1
<1>7. \A k \in 2 .. n : GoesOn(t[k - 1]) \/ t[k].word \in {0, 1}
  <2> SUFFICES ASSUME NEW k \in 2 .. n PROVE GoesOn(t[k - 1])
    OBVIOUS
  <2>1. k - 1 \in 1 .. n /\ k - 1 < n
    OBVIOUS
  <2>2. QED
    BY <1>4, <2>1
<1>8. Whole(t)
  BY <1>3, <1>4, <1>5, <1>6, <1>7 DEF Whole, Stream
<1>9. AllWords(t)
  BY <1>3, <1>4, <1>8 DEF AllWords
<1>10. v.width = 8 => n = 1 /\ Ends(t[1])
  BY <1>3, <1>4, <1>5, Lengths DEF Ends
<1>11. QED
  BY <1>1, <1>4, <1>5, <1>9, <1>10

\* A single message without data is one, too.
LEMMA WholeOther ==
  ASSUME NEW e, IsOther(e)
  PROVE  NoWords(<<e>>) /\ <<e>> # <<>>
<1>1. PICK t : t = <<e>>
  OBVIOUS
<1>2. t \in Seq({e}) /\ Len(t) = 1 /\ t[1] = e
  BY <1>1
<1>3. t \in Seq(Range(t))
  BY <1>2, OfItsRange
<1>4. e.word = 0 /\ ~GoesOn(e)
  BY DEF IsOther, GoesOn
<1>5. \A k \in 1 .. Len(t) : t[k] = e
  BY <1>2
<1>6. \A k \in 2 .. Len(t) : FALSE
  BY <1>2
<1>7. Stream(t)
  BY <1>3, <1>4, <1>5, <1>6 DEF Stream
<1>8. QED
  BY <1>1, <1>2, <1>4, <1>5, <1>7 DEF NoWords, Whole

\* A marker is a message without data, as are the program counter and the nop.
LEMMA MarkerIsOther ==
  ASSUME NEW command \in {"DAQ_PC_CURR", "NONE"}, NEW data
  PROVE  NoWords(Other(command, data))
<1>1. PICK e : e = [msg |-> Message(command, data), of |-> None, word |-> 0]
  OBVIOUS
<1>2. e.word = 0 /\ e.msg = Message(command, data)
  BY <1>1
<1>3. e.msg.cmd = command
  BY <1>2 DEF Message
<1>4. IsOther(e)
  BY <1>2, <1>3 DEF IsOther, IsData
<1>5. Other(command, data) = <<e>>
  BY <1>1 DEF Other
<1>6. QED
  BY <1>4, <1>5, WholeOther

\* The message of the scheduler is one, and the reader takes it for what it is.
LEMMA OwnershipIsOther ==
  ASSUME NEW id \in Ids, NEW t, t = OwnershipTrace(id)
  PROVE  NoWords(t) /\ t # <<>> /\ Len(t) = 1 /\ IsOwnership(t[1].msg)
<1>1. PICK n : n = 8388608 + id
  OBVIOUS
<1>2. PICK e : e = [msg |-> Message("DAQ_DIRECT_DATA", n), of |-> None, word |-> 0]
  OBVIOUS
<1>3. t = <<e>>
  BY <1>1, <1>2, SMT DEF OwnershipTrace, Other
<1>4. e.word = 0 /\ e.msg.cmd = "DAQ_DIRECT_DATA" /\ e.msg.data = n % 16777216
  BY <1>2, SMT DEF Message
<1>5. IndicatorOf(e.msg) = 128
  <2>1. id \in Nat /\ id <= 65535
    <3>1. id \in Words
      BY MessagesAssumption
    <3>2. QED
      BY <3>1, WordIs, SMT
  <2>2. PICK d : d = e.msg.data
    OBVIOUS
  <2>3. d = (8388608 + id) % 16777216
    BY <1>1, <1>4, <2>2, SMT
  <2>4. d = 8388608 + id
    BY <2>1, <2>3, SMT
  <2>5. d \div 65536 = 128
    BY <2>1, <2>4, SMT
  <2>6. QED
    BY <2>2, <2>5, SMT DEF IndicatorOf
<1>6. ~IsData(e.msg) /\ IsOwnership(e.msg)
  BY <1>4, <1>5 DEF IsData, IsOwnership
<1>7. IsOther(e)
  BY <1>4, <1>6 DEF IsOther
<1>8. NoWords(t)
  BY <1>3, <1>7, WholeOther
<1>9. t # <<>> /\ Len(t) = 1 /\ t[1] = e
  BY <1>3
<1>10. QED
  BY <1>6, <1>8, <1>9

\* The four widths of words.
LEMMA Tuples ==
  ASSUME NEW a \in Words, NEW b \in Words, NEW c \in Words, NEW d \in Words
  PROVE  /\ <<a>> \in Seq(Words) /\ Len(<<a>>) = 1
         /\ <<a, b>> \in Seq(Words) /\ Len(<<a, b>>) = 2
         /\ <<a, b, c, d>> \in Seq(Words) /\ Len(<<a, b, c, d>>) = 4
OBVIOUS

\* The calls of a family emit words only, and first those of a byte.
LEMMA FamilyIsWords ==
  ASSUME NEW kind \in KindSet, NEW b \in Words, NEW low \in Words, NEW high \in Words,
         NEW t, t = Family(kind, b, low, high)
  PROVE  AllWords(t) /\ t # <<>> /\ t[1].word = 1 /\ Ends(t[1])
<1>1. PICK v8, v16, v32, v64 :
        /\ v8 = Value(kind, 8, <<b>>) /\ v16 = Value(kind, 16, <<high>>)
        /\ v32 = Value(kind, 32, <<low, high>>)
        /\ v64 = Value(kind, 64, <<low, low, low, high>>)
  OBVIOUS
<1>2. IsValue(v8) /\ IsValue(v16) /\ IsValue(v32) /\ IsValue(v64)
  <2>1. IsValue(v8)
    BY <1>1, Tuples, ValueOf
  <2>2. IsValue(v16)
    BY <1>1, Tuples, ValueOf
  <2>3. IsValue(v32)
    BY <1>1, Tuples, ValueOf
  <2>4. IsValue(v64)
    BY <1>1, Tuples, ValueOf
  <2>5. QED
    BY <2>1, <2>2, <2>3, <2>4
<1>3. PICK e8, e16, e32, e64 :
        e8 = EmitData(v8) /\ e16 = EmitData(v16) /\ e32 = EmitData(v32) /\ e64 = EmitData(v64)
  OBVIOUS
<1>4. AllWords(e8) /\ AllWords(e16) /\ AllWords(e32) /\ AllWords(e64)
  BY <1>2, <1>3, WholeData
<1>5. e8 # <<>> /\ e8[1].word = 1 /\ Ends(e8[1])
  <2>1. v8.width = 8
    BY <1>1 DEF Value
  <2>2. QED
    BY <1>2, <1>3, <2>1, WholeData
<1>6. t = ((e8 \o e16) \o e32) \o e64
  BY <1>1, <1>3, SMT DEF Family, Small
<1>7. PICK x : x = e8 \o e16
  OBVIOUS
<1>8. PICK y : y = x \o e32
  OBVIOUS
<1>9. AllWords(x) /\ x # <<>> /\ x[1] = e8[1]
  BY <1>4, <1>5, <1>7, WholeJoin, SMT DEF AllWords
<1>10. AllWords(y) /\ y # <<>> /\ y[1] = e8[1]
  BY <1>4, <1>8, <1>9, WholeJoin, SMT DEF AllWords
<1>11. AllWords(t) /\ t # <<>> /\ t[1] = e8[1]
  <2>1. t = y \o e64
    BY <1>6, <1>7, <1>8
  <2>2. QED
    BY <1>4, <1>10, <2>1, WholeJoin, SMT DEF AllWords
<1>12. QED
  BY <1>5, <1>11

\* The words in the calls are words.
LEMMA WordsOfCalls ==
  /\ 0 \in Words /\ 127 \in Words /\ 128 \in Words /\ 255 \in Words /\ 16128 \in Words
  /\ 16385 \in Words /\ 32767 \in Words /\ 32768 \in Words /\ 39321 \in Words
  /\ 39322 \in Words /\ 48879 \in Words /\ 57005 \in Words /\ 65535 \in Words
BY SMT DEF Words

\* So are the kinds.
LEMMA KindsOfCalls ==
  "PTR" \in KindSet /\ "INT" \in KindSet /\ "UINT" \in KindSet /\ "FLOAT" \in KindSet
BY DEF KindSet

\* A value of 32 bits is emitted as words only.
LEMMA WordsOf32 ==
  ASSUME NEW kind \in KindSet, NEW a \in Words, NEW b \in Words
  PROVE  AllWords(EmitData(Value(kind, 32, <<a, b>>)))
<1>1. IsValue(Value(kind, 32, <<a, b>>))
  BY Tuples, ValueOf
<1>2. QED
  BY <1>1, WholeData

\* And one of 64.
LEMMA WordsOf64 ==
  ASSUME NEW kind \in KindSet, NEW a \in Words, NEW b \in Words, NEW c \in Words, NEW d \in Words
  PROVE  AllWords(EmitData(Value(kind, 64, <<a, b, c, d>>)))
<1>1. IsValue(Value(kind, 64, <<a, b, c, d>>))
  BY Tuples, ValueOf
<1>2. QED
  BY <1>1, WholeData

\* Words behind words are words, and markers behind markers are none.
Cat(a, b) == a \o b
\* The former.
LEMMA WordsJoin ==
  ASSUME NEW a, AllWords(a), NEW b, AllWords(b)
  PROVE  AllWords(Cat(a, b))
BY WholeJoin, SMT DEF AllWords, Cat

\* The latter.
LEMMA NoWordsJoin ==
  ASSUME NEW a, NoWords(a), NEW b, NoWords(b)
  PROVE  NoWords(Cat(a, b))
BY WholeJoin, SMT DEF NoWords, Cat

\* The calls one by one: markers in the first.
LEMMA Call0 == NoWords(Calls(0))
<1>1. PICK x, y, z, u :
        x = EmitMarker(222) /\ y = EmitMarker(173) /\ z = EmitMarker(190) /\ u = EmitMarker(239)
  OBVIOUS
<1>2. NoWords(x) /\ NoWords(y) /\ NoWords(z) /\ NoWords(u)
  BY <1>1, MarkerIsOther, SMT DEF EmitMarker
<1>3. Calls(0) = Cat(Cat(Cat(x, y), z), u)
  BY <1>1, SMT DEF Calls, Cat
<1>4. NoWords(Cat(Cat(Cat(x, y), z), u))
  BY <1>2, NoWordsJoin, Zenon
<1>5. QED
  BY <1>3, <1>4, Zenon

\* The program counter and a nop in the second.
LEMMA Call1 == NoWords(Calls(1))
<1>1. NoWords(EmitPc) /\ NoWords(EmitNop)
  BY MarkerIsOther, SMT DEF EmitPc, EmitNop
<1>2. Calls(1) = Cat(EmitPc, EmitNop)
  BY SMT DEF Calls, Cat
<1>3. QED
  BY <1>1, <1>2, NoWordsJoin, Zenon

\* The families of four widths: zero, with a byte first.
LEMMA Call2 == AllWords(Calls(2)) /\ Calls(2) # <<>> /\ Calls(2)[1].word = 1 /\ Ends(Calls(2)[1])
<1>1. PICK w, kind : w = 0 /\ kind = "UINT"
  OBVIOUS
<1>2. Calls(2) = Family(kind, w, w, w)
  BY <1>1, SMT DEF Calls
<1>3. w \in Words /\ kind \in KindSet
  BY <1>1, WordsOfCalls, KindsOfCalls, SMT
<1>4. QED
  BY <1>2, <1>3, FamilyIsWords, Zenon

\* The largest unsigned values.
LEMMA Call3 == AllWords(Calls(3))
<1>1. Calls(3) = Family("UINT", 255, 65535, 65535)
  BY SMT DEF Calls
<1>2. QED
  BY <1>1, WordsOfCalls, KindsOfCalls, FamilyIsWords, SMT

\* The smallest signed values.
LEMMA Call4 == AllWords(Calls(4))
<1>1. Calls(4) = Family("INT", 128, 0, 32768)
  BY SMT DEF Calls
<1>2. QED
  BY <1>1, WordsOfCalls, KindsOfCalls, FamilyIsWords, SMT

\* The largest signed values.
LEMMA Call5 == AllWords(Calls(5))
<1>1. Calls(5) = Family("INT", 127, 65535, 32767)
  BY SMT DEF Calls
<1>2. QED
  BY <1>1, WordsOfCalls, KindsOfCalls, FamilyIsWords, SMT

\* A value of 32 bits, and floating point where there is any.
LEMMA Call6 == AllWords(Calls(6))
<1>1. AllWords(DeadBeef)
  BY WordsOfCalls, KindsOfCalls, WordsOf32, SMT DEF DeadBeef
<1>2. AllWords(<<>>)
  BY DEF AllWords, Whole, Stream
<1>3. AllWords(Half)
  <2>1. AllWords(EmitData(Value("FLOAT", 32, <<0, 16128>>)))
    BY WordsOfCalls, KindsOfCalls, WordsOf32, SMT
  <2>2. QED
    BY <1>2, <2>1, SMT DEF Half
<1>4. AllWords(TwoPointTwo)
  <2>1. AllWords(EmitData(Value("FLOAT", 64, <<39322, 39321, 39321, 16385>>)))
    BY WordsOfCalls, KindsOfCalls, WordsOf64, SMT
  <2>2. QED
    BY <1>2, <2>1, SMT DEF TwoPointTwo
<1>5. Calls(6) = Cat(Cat(DeadBeef, Half), TwoPointTwo)
  BY SMT DEF Calls, Cat
<1>6. QED
  BY <1>1, <1>3, <1>4, <1>5, WordsJoin, Zenon

\* Two pointers in the last.
LEMMA Call7 == AllWords(Calls(7))
<1>1. PICK a \in Words, b \in Words : MainAddress = <<a, b>>
  BY MessagesAssumption
<1>2. PICK x, y :
        /\ x = EmitData(Value("PTR", 32, <<0, 0>>))
        /\ y = EmitData(Value("PTR", 32, MainAddress))
  OBVIOUS
<1>3. AllWords(x)
  BY <1>2, WordsOfCalls, KindsOfCalls, WordsOf32, SMT
<1>4. AllWords(y)
  BY <1>1, <1>2, KindsOfCalls, WordsOf32, SMT
<1>5. Calls(7) = Cat(x, y)
  BY <1>2, SMT DEF Calls, Cat
<1>6. QED
  BY <1>3, <1>4, <1>5, WordsJoin, Zenon

\* All of them.
LEMMA CallsAreWhole ==
  ASSUME NEW c \in 0 .. 7
  PROVE  IF c \in {0, 1} THEN NoWords(Calls(c)) ELSE AllWords(Calls(c))
<1>1. c \in {0, 1, 2, 3, 4, 5, 6, 7}
  OBVIOUS
<1>2. QED
  BY <1>1, Call0, Call1, Call2, Call3, Call4, Call5, Call6, Call7
-----------------------------------------------------------------------------
(***************************************************************************)
(* One message less.                                                       *)
(***************************************************************************)
Rest(u, t) ==
  /\ Stream(u) /\ Len(u) = Len(t) - 1
  /\ \A k \in 1 .. Len(u) : u[k] = t[k + 1] /\ k + 1 \in 1 .. Len(t)
  /\ GoesOn(t[1]) => u # <<>> /\ u[1].of = t[1].of /\ u[1].word = t[1].word + 1
  /\ ~GoesOn(t[1]) => Whole(u)
\* The rest of a stream is one, and whole if no word of a value is before it.
LEMMA RestOfStream ==
  ASSUME NEW t, Stream(t), t # <<>>
  PROVE  Rest(Tail(t), t) /\ Head(t) = t[1] /\ (IsOther(t[1]) \/ IsWord(t[1]))
<1>1. PICK R : R = Range(t) /\ t \in Seq(R)
  BY DEF Stream
<1>2. PICK n \in Nat : n = Len(t) /\ n > 0
  BY <1>1
<1>3. PICK u : u = Tail(t)
  OBVIOUS
<1>4. u \in Seq(R) /\ Len(u) = n - 1
  BY <1>1, <1>2, <1>3
<1>5. \A k \in 1 .. n - 1 : u[k] = t[k + 1] /\ k + 1 \in 1 .. n
  BY <1>1, <1>2, <1>3
<1>6. u \in Seq(Range(u))
  BY <1>4, OfItsRange
<1>7. /\ \A k \in 1 .. n : IsOther(t[k]) \/ IsWord(t[k])
      /\ \A k \in 1 .. n :
           GoesOn(t[k]) => k < n /\ t[k + 1].of = t[k].of /\ t[k + 1].word = t[k].word + 1
      /\ \A k \in 2 .. n : GoesOn(t[k - 1]) \/ t[k].word \in {0, 1}
  BY <1>2 DEF Stream
<1>8. ASSUME NEW k \in 1 .. n - 1 PROVE IsOther(u[k]) \/ IsWord(u[k])
  BY <1>5, <1>7
<1>9. ASSUME NEW k \in 1 .. n - 1, GoesOn(u[k])
      PROVE  k < n - 1 /\ u[k + 1].of = u[k].of /\ u[k + 1].word = u[k].word + 1
  <2>1. PICK j \in 1 .. n : j = k + 1 /\ u[k] = t[j]
    BY <1>5
  <2>2. j < n /\ t[j + 1].of = t[j].of /\ t[j + 1].word = t[j].word + 1
    BY <1>7, <1>9, <2>1
  <2>3. k + 1 \in 1 .. n - 1 /\ (k + 1) + 1 = j + 1
    BY <2>1, <2>2
  <2>4. u[k + 1] = t[j + 1]
    BY <1>5, <2>3
  <2>5. QED
    BY <2>1, <2>2, <2>3, <2>4
<1>10. ASSUME NEW k \in 2 .. n - 1 PROVE GoesOn(u[k - 1]) \/ u[k].word \in {0, 1}
  <2>1. PICK j \in 2 .. n : j = k + 1 /\ u[k] = t[j]
    BY <1>5
  <2>2. k - 1 \in 1 .. n - 1 /\ (k - 1) + 1 = j - 1
    BY <2>1
  <2>3. u[k - 1] = t[j - 1]
    BY <1>5, <2>2
  <2>4. QED
    BY <1>7, <2>1, <2>3
<1>11. Stream(u)
  BY <1>4, <1>6, <1>8, <1>9, <1>10 DEF Stream
<1>12. 1 \in 1 .. n /\ (n > 1 => 2 \in 2 .. n /\ u[1] = t[2] /\ u # <<>>) /\ (u # <<>> => n > 1)
  BY <1>2, <1>4, <1>5
<1>13. GoesOn(t[1]) => u # <<>> /\ u[1].of = t[1].of /\ u[1].word = t[1].word + 1
  <2> SUFFICES ASSUME GoesOn(t[1])
               PROVE  u # <<>> /\ u[1].of = t[1].of /\ u[1].word = t[1].word + 1
    OBVIOUS
  <2>1. 1 < n /\ t[2].of = t[1].of /\ t[2].word = t[1].word + 1
    BY <1>7, <1>12
  <2>2. QED
    BY <1>12, <2>1
<1>14. ~GoesOn(t[1]) => Whole(u)
  <2> SUFFICES ASSUME ~GoesOn(t[1]), u # <<>> PROVE u[1].word \in {0, 1}
    BY <1>11 DEF Whole
  <2>1. n > 1 /\ 2 \in 2 .. n /\ u[1] = t[2]
    BY <1>12
  <2>2. GoesOn(t[2 - 1]) \/ t[2].word \in {0, 1}
    BY <1>7, <2>1
  <2>3. QED
    BY <2>1, <2>2
<1>15. Rest(u, t)
  BY <1>2, <1>4, <1>5, <1>11, <1>13, <1>14 DEF Rest
<1>16. QED
  BY <1>1, <1>3, <1>7, <1>12, <1>15
-----------------------------------------------------------------------------
(***************************************************************************)
(* What the reader collects.                                               *)
(***************************************************************************)
Collected(s, p, w) ==
  /\ s \in Seq(WordRecords) /\ Len(p) \in Nat
  /\ Len(s) = IF Len(p) < 5 THEN Len(p) + 1 ELSE Len(p)
  /\ \A k \in 1 .. Len(p) : s[k] = p[k]
  /\ Len(p) < 5 => s[Len(p) + 1] = w
\* A word more, if there is room.
LEMMA CollectOne ==
  ASSUME NEW p \in Seq(WordRecords), NEW w \in WordRecords, NEW s,
         s = IF Len(p) < 5 THEN Append(p, w) ELSE p
  PROVE  Collected(s, p, w)
<1>1. CASE Len(p) < 5
  BY <1>1 DEF Collected
<1>2. CASE ~(Len(p) < 5)
  BY <1>2 DEF Collected
<1>3. QED
  BY <1>1, <1>2

\* The words of a value up to one of them, and that one, are those up to the next.
LEMMA ExactGrows ==
  ASSUME NEW v, IsValue(v), NEW k \in 1 .. Len(v.words), NEW p, Exact(v, k, p),
         NEW s, Collected(s, p, ReadWord(v, k))
  PROVE  Exact(v, k + 1, s) /\ Len(p) = k - 1 /\ Len(s) = k
<1>1. k \in 1 .. 4
  BY LengthIs
<1>2. Len(p) = k - 1 /\ \A i \in 1 .. k - 1 : p[i] = ReadWord(v, i)
  BY <1>1 DEF Exact
<1>3. Len(s) = k /\ s[k] = ReadWord(v, k) /\ \A i \in 1 .. k - 1 : s[i] = p[i]
  BY <1>1, <1>2 DEF Collected
<1>4. ASSUME NEW i \in 1 .. k PROVE s[i] = ReadWord(v, i)
  <2>1. i = k \/ i \in 1 .. k - 1
    BY <1>1
  <2>2. QED
    BY <1>2, <1>3, <2>1
<1>5. s = [i \in 1 .. k |-> ReadWord(v, i)]
  <2>1. s \in [1 .. k -> WordRecords]
    BY <1>3 DEF Collected
  <2>2. QED
    BY <1>4, <2>1
<1>6. (k + 1) - 1 = k
  BY <1>1
<1>7. QED
  BY <1>2, <1>3, <1>5, <1>6 DEF Exact

\* All words of a value make up that value.
LEMMA ExactIsComplete ==
  ASSUME NEW v, IsValue(v), NEW s, Exact(v, Len(v.words) + 1, s)
  PROVE  Complete(s) /\ Assembled(s) = v
<1>1. PICK n \in Nat : n = Len(v.words) /\ n > 0
  BY LengthIs
<1>2. s = [i \in 1 .. n |-> ReadWord(v, i)]
  <2>1. (n + 1) - 1 = n
    OBVIOUS
  <2>2. QED
    BY <1>1, <2>1 DEF Exact
<1>3. DOMAIN s = 1 .. n /\ Len(s) = n /\ 1 \in 1 .. n
  BY <1>1, <1>2
<1>4. \A i \in 1 .. n : s[i].kind = v.kind /\ s[i].width = v.width /\ s[i].word = v.words[i]
  BY <1>2 DEF ReadWord
<1>5. Complete(s)
  <2>1. n = IF v.width = 8 THEN 1 ELSE v.width \div 16
    BY <1>1 DEF IsValue
  <2>2. QED
    BY <1>3, <1>4, <2>1 DEF Complete
<1>6. [i \in DOMAIN s |-> s[i].word] = v.words
  <2>1. v.words = [i \in 1 .. n |-> v.words[i]]
    BY <1>1 DEF IsValue
  <2>2. QED
    BY <1>3, <1>4, <2>1
<1>7. Assembled(s) = Value(v.kind, v.width, v.words)
  BY <1>3, <1>4, <1>6 DEF Assembled
<1>8. QED
  BY <1>5, <1>7 DEF IsValue

\* What looks like a value with the last word of one has as many words, all as wide.
LEMMA CompleteShape ==
  ASSUME NEW v, IsValue(v), NEW p \in Seq(WordRecords),
         NEW s, Collected(s, p, ReadWord(v, Len(v.words))), Complete(s)
  PROVE  Len(p) = Len(v.words) - 1 /\ (p # <<>> => p[1].width = v.width)
<1>1. PICK m \in Nat : m = Len(p)
  OBVIOUS
<1>2. PICK n \in {1, 2, 4} : n = Len(v.words)
  BY Lengths
<1>3. /\ s \in Seq(WordRecords) /\ Len(s) = IF m < 5 THEN m + 1 ELSE m
      /\ \A k \in 1 .. m : s[k] = p[k]
      /\ m < 5 => s[m + 1] = ReadWord(v, n)
  BY <1>1, <1>2 DEF Collected
<1>4. PICK l \in Nat : l = Len(s) /\ l > 0 /\ (m < 5 => l = m + 1) /\ l >= m
  BY <1>3
<1>5. DOMAIN s = 1 .. l /\ 1 \in 1 .. l /\ s[1] \in WordRecords
  BY <1>3, <1>4
<1>6. PICK width \in {8, 16, 32, 64} : width = s[1].width
  BY <1>5 DEF WordRecords
<1>7. /\ \A k \in 1 .. l : s[k].width = width
      /\ l = IF width = 8 THEN 1 ELSE width \div 16
  BY <1>4, <1>5, <1>6 DEF Complete
<1>8. l \in {1, 2, 4}
  <2>1. 16 \div 16 = 1 /\ 32 \div 16 = 2 /\ 64 \div 16 = 4
    OBVIOUS
  <2>2. QED
    BY <1>6, <1>7, <2>1
<1>9. m < 5 /\ l = m + 1
  BY <1>4, <1>8
<1>10. width = v.width
  <2>1. l \in 1 .. l /\ s[l] = ReadWord(v, n)
    BY <1>3, <1>4, <1>9
  <2>2. QED
    BY <1>7, <2>1 DEF ReadWord
<1>11. l = n
  <2>1. n = IF v.width = 8 THEN 1 ELSE v.width \div 16
    BY <1>2 DEF IsValue
  <2>2. QED
    BY <1>7, <1>10, <2>1
<1>12. p # <<>> => p[1].width = v.width
  <2> SUFFICES ASSUME p # <<>> PROVE p[1].width = v.width
    OBVIOUS
  <2>1. m > 0
    BY <1>1
  <2>2. 1 \in 1 .. m
    BY <2>1
  <2>3. QED
    BY <1>3, <1>6, <1>10, <2>2
<1>13. QED
  BY <1>1, <1>2, <1>9, <1>11, <1>12

\* Before the last word: what the reader has is the value under way, or no value.
BeforeLast(v, p, l) ==
  IF Len(v.words) = 1 THEN p \in Seq(WordRecords) ELSE UnderWay(v, Len(v.words), p, l)
\* So that what looks like a value is that value.
LEMMA CompleteIsExact ==
  ASSUME NEW v, IsValue(v), NEW p \in Seq(WordRecords), NEW l, BeforeLast(v, p, l),
         NEW s, Collected(s, p, ReadWord(v, Len(v.words))), Complete(s)
  PROVE  Assembled(s) = v
<1>1. Len(p) = Len(v.words) - 1 /\ (p # <<>> => p[1].width = v.width)
  BY CompleteShape
<1>2. Exact(v, Len(v.words), p)
  <2>1. CASE Len(v.words) = 1
    <3>1. Len(p) = 0
      BY <1>1, <2>1
    <3>2. p = <<>>
      BY <3>1
    <3>3. QED
      BY <2>1, <3>2 DEF Exact
  <2>2. CASE v.width = 32 /\ Len(v.words) = 2
    <3>1. Len(p) = 1
      BY <1>1, <2>2
    <3>2. UnderWay(v, 2, p, l)
      BY <2>2 DEF BeforeLast
    <3>3. Exact(v, 2, p)
      <4>1. Len(<<>>) # 1
        OBVIOUS
      <4>2. p # <<>>
        BY <3>1, <4>1, Zenon
      <4>3. QED
        BY <2>2, <3>1, <3>2, <4>2 DEF UnderWay
    <3>4. QED
      BY <2>2, <3>3
  <2>3. CASE v.width = 64 /\ Len(v.words) = 4
    <3>1. Len(p) = 3 /\ p # <<>> /\ p[1].width = 64
      <4>1. Len(p) = 3
        BY <1>1, <2>3
      <4>2. p # <<>>
        BY <4>1
      <4>3. QED
        BY <1>1, <2>3, <4>1, <4>2
    <3>2. UnderWay(v, 4, p, l)
      BY <2>3 DEF BeforeLast
    <3>3. ~Narrower(p) /\ ~Fourth(p, l)
      BY <3>1 DEF Narrower, Fourth
    <3>4. Exact(v, 4, p)
      BY <2>3, <3>2, <3>3 DEF UnderWay
    <3>5. QED
      BY <2>3, <3>4
  <2>4. QED
    BY <2>1, <2>2, <2>3, Lengths
<1>3. Len(v.words) \in 1 .. Len(v.words)
  BY LengthIs
<1>4. Exact(v, Len(v.words) + 1, s)
  BY <1>2, <1>3, ExactGrows
<1>5. QED
  BY <1>4, ExactIsComplete
-----------------------------------------------------------------------------
(***************************************************************************)
(* From one word of a value to the next.                                   *)
(***************************************************************************)
\* What the reader has once the first of several words has arrived.
LEMMA FirstArrives ==
  ASSUME NEW v, IsValue(v), Len(v.words) > 1, NEW p \in Seq(WordRecords), Left(p),
         NEW s, Collected(s, p, ReadWord(v, 1))
  PROVE  UnderWay(v, 2, s, FALSE)
<1>1. PICK m \in Nat : m = Len(p) /\ (p # <<>> => m > 0)
  OBVIOUS
<1>2. (m < 5 => Len(s) = m + 1) /\ (m >= 5 => Len(s) = m)
      /\ \A k \in 1 .. m : s[k] = p[k]
  BY <1>1 DEF Collected
<1>3. v.width = 32 \/ v.width = 64
  BY SeveralWords
<1>4. CASE p = <<>>
  <2>1. Exact(v, 1, p) /\ 1 \in 1 .. Len(v.words) /\ 1 + 1 = 2
    BY <1>4, LengthIs DEF Exact
  <2>2. Exact(v, 2, s)
    BY <2>1, ExactGrows
  <2>3. QED
    BY <2>2 DEF UnderWay
<1>5. CASE m >= 2
  <2>1. Len(s) >= 3
    BY <1>2, <1>5
  <2>2. Second(s, FALSE) /\ Len(s) >= 2
    BY <2>1, <1>2, <1>5 DEF Second
  <2>3. QED
    BY <1>3, <2>2 DEF UnderWay
<1>6. CASE m = 1 /\ p[1].width = 32
  <2>1. Len(s) = 2 /\ s[1] = p[1]
    BY <1>2, <1>6
  <2>2. Len(<<>>) # 2
    OBVIOUS
  <2>3. s # <<>>
    BY <2>1, <2>2, Zenon
  <2>4. Narrower(s) /\ Len(s) >= 2
    BY <1>6, <2>1, <2>3 DEF Narrower
  <2>5. QED
    BY <1>3, <2>4 DEF UnderWay
<1>7. QED
  <2>1. CASE p # <<>> /\ m < 2
    <3>1. m = 1 /\ p[1].width = 32
      BY <1>1, <2>1 DEF Left
    <3>2. QED
      BY <1>6, <3>1
  <2>2. m < 2 \/ m >= 2
    OBVIOUS
  <2>3. QED
    BY <1>4, <1>5, <2>1, <2>2, Zenon

\* And once the next has, that is not the last.
LEMMA NextArrives ==
  ASSUME NEW v, IsValue(v), NEW k \in 2 .. Len(v.words) - 1,
         NEW p \in Seq(WordRecords), NEW l \in BOOLEAN, UnderWay(v, k, p, l),
         NEW s, Collected(s, p, ReadWord(v, k))
  PROVE  UnderWay(v, k + 1, s, FALSE)
<1>1. PICK m \in Nat, n \in Nat : /\ m = Len(p) /\ (p # <<>> => m > 0) /\ (p = <<>> => m = 0)
                                /\ n = Len(s)
  BY DEF Collected
<1>2. (m < 5 => n = m + 1) /\ (m >= 5 => n = m)
      /\ \A i \in 1 .. m : s[i] = p[i]
  BY <1>1 DEF Collected
<1>3. v.width = 64 /\ Len(v.words) = 4 /\ (k = 2 \/ k = 3) /\ k \in 1 .. Len(v.words)
  <2>1. v.width = 64 /\ Len(v.words) = 4
    <3>1. Len(v.words) > 1 /\ Len(v.words) > 2
      BY LengthIs
    <3>2. QED
      BY <3>1, SeveralWords
  <2>2. QED
    BY <2>1
<1>4. CASE Exact(v, k, p)
  <2>1. Exact(v, k + 1, s)
    BY <1>3, <1>4, ExactGrows
  <2>2. QED
    BY <2>1 DEF UnderWay
<1>5. CASE Narrower(p)
  <2>1. m > 0 /\ 1 \in 1 .. m
    BY <1>1, <1>5 DEF Narrower
  <2>2. s[1] = p[1] /\ Len(s) > 0
    BY <1>1, <1>2, <2>1
  <2>3. Len(<<>>) = 0
    OBVIOUS
  <2>4. s # <<>>
    BY <2>2, <2>3
  <2>5. Narrower(s)
    BY <1>5, <2>2, <2>4 DEF Narrower
  <2>6. QED
    BY <1>3, <2>5 DEF UnderWay
<1>6. CASE k = 2 /\ Second(p, l)
  <2>1. m = 0 \/ m >= 3
    <3>1. p = <<>> \/ Len(p) >= 3
      BY <1>6 DEF Second
    <3>2. QED
      BY <1>1, <3>1
  <2>2. n = 1 \/ n >= 4
    BY <1>1, <1>2, <2>1
  <2>3. k + 1 = 3 /\ Third(s, FALSE)
    BY <1>1, <1>6, <2>2 DEF Third
  <2>4. QED
    BY <1>3, <2>3 DEF UnderWay
<1>7. CASE k = 3 /\ Third(p, l)
  <2>1. m = 1 \/ m >= 3
    <3>1. Len(p) = 1 \/ Len(p) >= 4 \/ Len(p) >= 3
      BY <1>7 DEF Third
    <3>2. QED
      BY <1>1, <3>1
  <2>2. n = 2 \/ n >= 4
    BY <1>1, <1>2, <2>1
  <2>3. k + 1 = 4 /\ Fourth(s, FALSE)
    BY <1>1, <1>7, <2>2 DEF Fourth
  <2>4. QED
    BY <1>3, <2>3 DEF UnderWay
<1>8. k # 4 /\ v.width # 32
  BY <1>3
<1>9. QED
  BY <1>4, <1>5, <1>6, <1>7, <1>8 DEF UnderWay

\* What the reader has once the first of several words has been lost.
LEMMA FirstIsLost ==
  ASSUME NEW v, IsValue(v), Len(v.words) > 1
  PROVE  UnderWay(v, 2, <<>>, TRUE)
<1>1. v.width = 32 \/ v.width = 64
  BY SeveralWords
<1>2. Second(<<>>, TRUE)
  BY DEF Second
<1>3. QED
  BY <1>1, <1>2 DEF UnderWay

\* And once the next has, the one before it having arrived.
LEMMA NextIsLost ==
  ASSUME NEW v, IsValue(v), NEW k \in 2 .. Len(v.words) - 1,
         NEW p \in Seq(WordRecords), UnderWay(v, k, p, FALSE)
  PROVE  UnderWay(v, k + 1, p, TRUE)
<1>1. v.width = 64 /\ Len(v.words) = 4 /\ (k = 2 \/ k = 3)
  <2>1. v.width = 64 /\ Len(v.words) = 4
    <3>1. Len(v.words) > 1 /\ Len(v.words) > 2
      BY LengthIs
    <3>2. QED
      BY <3>1, SeveralWords
  <2>2. QED
    BY <2>1
<1>2. CASE Exact(v, k, p)
  <2>1. Len(p) = k - 1
    BY <1>1, <1>2 DEF Exact
  <2>2. CASE k = 2
    <3>1. Third(p, TRUE) /\ k + 1 = 3
      BY <2>1, <2>2 DEF Third
    <3>2. QED
      BY <1>1, <3>1 DEF UnderWay
  <2>3. CASE k = 3
    <3>1. Fourth(p, TRUE) /\ k + 1 = 4
      BY <2>1, <2>3 DEF Fourth
    <3>2. QED
      BY <1>1, <3>1 DEF UnderWay
  <2>4. QED
    BY <1>1, <2>2, <2>3
<1>3. CASE Narrower(p)
  BY <1>1, <1>3 DEF UnderWay
<1>4. CASE k = 2 /\ Second(p, FALSE)
  <2>1. Third(p, TRUE) /\ k + 1 = 3
    BY <1>4 DEF Second, Third
  <2>2. QED
    BY <1>1, <2>1 DEF UnderWay
<1>5. CASE k = 3 /\ Third(p, FALSE)
  <2>1. Fourth(p, TRUE) /\ k + 1 = 4
    BY <1>5 DEF Third, Fourth
  <2>2. QED
    BY <1>1, <2>1 DEF UnderWay
<1>6. k # 4 /\ v.width # 32
  BY <1>1
<1>7. QED
  BY <1>2, <1>3, <1>4, <1>5, <1>6 DEF UnderWay

\* And once the last of several has.
LEMMA LastIsLost ==
  ASSUME NEW v, IsValue(v), Len(v.words) > 1,
         NEW p \in Seq(WordRecords), UnderWay(v, Len(v.words), p, FALSE)
  PROVE  Left(p)
<1>1. CASE v.width = 32 /\ Len(v.words) = 2
  <2>1. CASE Exact(v, 2, p)
    <3>1. p[1] = ReadWord(v, 1)
      BY <2>1 DEF Exact
    <3>2. QED
      BY <1>1, <3>1 DEF Left, ReadWord
  <2>2. QED
    BY <1>1, <2>1 DEF UnderWay, Left
<1>2. CASE v.width = 64 /\ Len(v.words) = 4
  <2>1. CASE Exact(v, 4, p)
    <3>1. Len(p) = 3
      BY <2>1 DEF Exact
    <3>2. QED
      BY <3>1 DEF Left
  <2>2. CASE Narrower(p)
    BY <2>2 DEF Narrower, Left
  <2>3. CASE Fourth(p, FALSE)
    <3>1. PICK m \in Nat : m = Len(p)
      OBVIOUS
    <3>2. m = 2 \/ m >= 4
      BY <2>3, <3>1 DEF Fourth
    <3>3. m >= 2
      BY <3>2
    <3>4. QED
      BY <3>1, <3>3 DEF Left
  <2>4. UnderWay(v, 4, p, FALSE)
    BY <1>2
  <2>5. 4 # 2 /\ 4 # 3 /\ v.width # 32
    BY <1>2
  <2>6. Exact(v, 4, p) \/ Narrower(p) \/ Fourth(p, FALSE)
    BY <2>4, <2>5 DEF UnderWay
  <2>7. QED
    BY <2>1, <2>2, <2>3, <2>6
<1>3. QED
  BY <1>1, <1>2, SeveralWords
-----------------------------------------------------------------------------
(***************************************************************************)
(* The invariant.                                                          *)
(***************************************************************************)
\* It holds at the start.
LEMMA InitIInv == Init => IInv
<1> SUFFICES ASSUME Init PROVE IInv
  OBVIOUS
<1>1. todo = <<>> /\ part = <<>> /\ counter \in 0 .. 7 /\ sent = None /\ got = None
      /\ lost = FALSE /\ everLost = FALSE
  BY DEF Init
<1>2. Stream(<<>>)
  BY DEF Stream
<1>3. Types
  <2>1. part \in Seq(WordRecords) /\ counter \in 0 .. 7 /\ Stream(todo)
    BY <1>1, <1>2
  <2>2. lost \in BOOLEAN /\ everLost \in BOOLEAN
    BY <1>1, Zenon
  <2>3. QED
    BY <2>1, <2>2 DEF Types
<1>4. Boundary
  BY <1>1 DEF Boundary
<1>5. ~\E k \in 1 .. Len(todo) : TRUE
  BY <1>1
<1>6. Markers
  BY <1>5 DEF Markers
<1>7. LeftOver /\ Collecting
  BY <1>1, <1>4 DEF LeftOver, Left, Collecting
<1>8. Lossless
  BY <1>1, <1>4 DEF Lossless
<1>9. QED
  BY <1>3, <1>6, <1>7, <1>8 DEF IInv

\* A whole stream begins at a boundary.
LEMMA WholeBegins ==
  ASSUME NEW t, Whole(t)
  PROVE  t = <<>> \/ (Head(t) = t[1] /\ Head(t).word \in {0, 1})
<1>1. t \in Seq(Range(t))
  BY DEF Whole, Stream
<1>2. CASE t # <<>>
  <2>1. Head(t) = t[1]
    BY <1>1, <1>2
  <2>2. QED
    BY <1>2, <2>1 DEF Whole
<1>3. QED
  BY <1>2

\* The scheduler's message neither is part of a value nor leaves one.
LEMMA TaskStep ==
  ASSUME IInv, Task
  PROVE  IInv' /\ got' = got
<1>1. PICK id \in Ids : todo' = OwnershipTrace(id)
  BY DEF Task
<1>2. todo = <<>> /\ counter' = counter /\ part' = part /\ got' = got /\ sent' = sent
      /\ lost' = lost /\ everLost' = everLost
  BY DEF Task, reader
<1>3. NoWords(todo') /\ todo' # <<>> /\ Len(todo') = 1 /\ IsOwnership(todo'[1].msg)
  BY <1>1, OwnershipIsOther
<1>4. Boundary /\ Boundary' /\ ~ByteNext
  <2>1. Whole(todo')
    BY <1>3 DEF NoWords
  <2>2. Boundary'
    BY <2>1, WholeBegins DEF Boundary
  <2>3. QED
    BY <1>2, <2>2 DEF Boundary, ByteNext
<1>5. Types /\ LeftOver /\ Lossless
  BY DEF IInv
<1>6. Types'
  BY <1>2, <1>3, <1>5 DEF Types, NoWords, Whole
<1>7. Markers'
  <2>1. \A k \in 1 .. Len(todo') : k = 1
    BY <1>3
  <2>2. ~\E k \in 1 .. Len(todo') : todo'[k].word = 0 /\ ~IsOwnership(todo'[k].msg)
    BY <1>3, <2>1
  <2>3. QED
    BY <2>2 DEF Markers
<1>8. NoValues => NoValues'
  BY <1>2, <1>3 DEF NoValues, NoWords
<1>9. LeftOver'
  BY <1>2, <1>4, <1>5, <1>8 DEF LeftOver
<1>10. Collecting'
  BY <1>4 DEF Collecting
<1>11. Lossless'
  BY <1>2, <1>4, <1>5 DEF Lossless
<1>12. QED
  BY <1>2, <1>6, <1>7, <1>9, <1>10, <1>11 DEF IInv

\* Markers come before anything else, and then a byte, which no left over word survives.
LEMMA TestMainStep ==
  ASSUME IInv, TestMain
  PROVE  IInv' /\ got' = got
<1>1. todo = <<>> /\ todo' = Calls(counter) /\ counter' = (counter + 1) % 8
      /\ part' = part /\ got' = got /\ sent' = sent /\ lost' = lost /\ everLost' = everLost
  BY DEF TestMain, reader
<1>2. Types /\ LeftOver /\ Lossless
  BY DEF IInv
<1>3. counter \in 0 .. 7 /\ counter' \in 0 .. 7 /\ (counter \in {0, 1} => counter' \in {1, 2})
  <2>1. counter \in 0 .. 7
    BY <1>2 DEF Types
  <2>2. QED
    BY <1>1, <2>1
<1>4. IF counter \in {0, 1} THEN NoWords(todo') ELSE AllWords(todo')
  BY <1>1, <1>3, CallsAreWhole, Zenon
<1>5. Whole(todo')
  BY <1>4 DEF NoWords, AllWords
<1>6. Boundary /\ Boundary' /\ ~ByteNext
  <2>1. Boundary'
    BY <1>5, WholeBegins DEF Boundary
  <2>2. QED
    BY <1>1, <2>1 DEF Boundary, ByteNext
<1>7. Types'
  BY <1>1, <1>2, <1>3, <1>5 DEF Types, Whole
<1>8. counter \in {0, 1} => NoValues'
  BY <1>3, <1>4 DEF NoValues, NoWords
<1>9. Markers'
  <2>1. CASE counter \in {0, 1}
    BY <1>8, <2>1 DEF Markers
  <2>2. CASE counter \notin {0, 1}
    <3>1. \A k \in 1 .. Len(todo') : todo'[k].word > 0
      BY <1>4, <2>2 DEF AllWords
    <3>2. \A k \in 1 .. Len(todo') : todo'[k].word # 0
      BY <3>1
    <3>3. QED
      BY <3>2 DEF Markers
  <2>3. QED
    BY <2>1, <2>2
<1>10. NoValues => NoValues' \/ ByteNext'
  <2>1. CASE counter = 1
    BY <1>8, <2>1
  <2>2. CASE counter = 2
    <3>1. todo' = Calls(2)
      BY <1>1, <2>2
    <3>2. todo' # <<>> /\ todo'[1].word = 1 /\ Ends(todo'[1])
      BY <3>1, Call2
    <3>3. Head(todo') = todo'[1]
      BY <1>5, <3>2, WholeBegins
    <3>4. QED
      BY <3>2, <3>3 DEF ByteNext
  <2>3. QED
    BY <2>1, <2>2 DEF NoValues
<1>11. LeftOver'
  BY <1>1, <1>2, <1>6, <1>10 DEF LeftOver
<1>12. Collecting'
  BY <1>6 DEF Collecting
<1>13. Lossless'
  BY <1>1, <1>2, <1>6 DEF Lossless
<1>14. QED
  BY <1>1, <1>7, <1>9, <1>11, <1>12, <1>13 DEF IInv

\* What has been emitted, and what is left to emit.
Emitted(e) ==
  /\ todo # <<>> /\ e = Head(todo) /\ (IsOther(e) \/ IsWord(e))
  /\ IsOther(e) => e.word = 0 /\ ~Ends(e) /\ ~GoesOn(e) /\ ~IsData(e.msg)
  /\ IsWord(e) => IsData(e.msg) /\ ~IsOwnership(e.msg) /\ e.word > 0 /\ ~NoValues
  /\ IsOther(e) /\ ~IsOwnership(e.msg) => NoValues
  /\ Stream(todo') /\ counter' = counter /\ Markers' /\ (NoValues => NoValues')
  /\ GoesOn(e) => ~Boundary' /\ Head(todo').of = e.of /\ Head(todo').word = e.word + 1
  /\ ~GoesOn(e) => Boundary'
\* All that holds of a message when it is emitted.
LEMMA EmitStep ==
  ASSUME IInv, Emit, NEW e, e = Head(todo)
  PROVE  Emitted(e)
<1>1. todo # <<>> /\ todo' = Tail(todo) /\ counter' = counter
  BY DEF Emit
<1>2. Stream(todo) /\ Markers
  BY DEF IInv, Types
<1>3. Rest(todo', todo) /\ e = todo[1] /\ (IsOther(e) \/ IsWord(e))
  BY <1>1, <1>2, RestOfStream
<1>4. PICK n \in Nat : n = Len(todo) /\ n > 0 /\ 1 \in 1 .. n
  BY <1>1, <1>2 DEF Stream
<1>5. Stream(todo') /\ \A k \in 1 .. Len(todo') : todo'[k] = todo[k + 1] /\ k + 1 \in 1 .. n
  BY <1>3, <1>4 DEF Rest
<1>6. NoValues => NoValues'
  BY <1>1, <1>4, <1>5 DEF NoValues
<1>7. Markers'
  BY <1>2, <1>4, <1>5, <1>6 DEF Markers
<1>8. ASSUME IsOther(e)
      PROVE  e.word = 0 /\ ~Ends(e) /\ ~GoesOn(e) /\ ~IsData(e.msg)
  BY <1>8 DEF IsOther, Ends, GoesOn
<1>9. ASSUME IsWord(e)
      PROVE  IsData(e.msg) /\ ~IsOwnership(e.msg) /\ e.word > 0 /\ ~NoValues /\ e.word \in Nat
  <2>1. IsData(e.msg)
    BY <1>9, WordIsRead
  <2>2. ~IsOwnership(e.msg)
    BY <2>1 DEF IsData, IsOwnership
  <2>3. e.word > 0 /\ e.word \in Nat
    BY <1>9, LengthIs DEF IsWord
  <2>4. e.word # 0
    BY <2>3
  <2>5. ~NoValues
    BY <1>3, <1>4, <2>4 DEF NoValues
  <2>6. QED
    BY <2>1, <2>2, <2>3, <2>5
<1>10. ASSUME IsOther(e), ~IsOwnership(e.msg) PROVE NoValues
  BY <1>2, <1>3, <1>4, <1>8, <1>10 DEF Markers
<1>11. ASSUME GoesOn(e)
       PROVE  ~Boundary' /\ Head(todo').of = e.of /\ Head(todo').word = e.word + 1
  <2>1. IsWord(e)
    BY <1>3, <1>8, <1>11
  <2>2. todo' # <<>> /\ todo'[1].of = e.of /\ todo'[1].word = e.word + 1
    BY <1>3, <1>11 DEF Rest
  <2>3. Head(todo') = todo'[1]
    BY <1>5, <2>2, RestOfStream
  <2>4. e.word + 1 \notin {0, 1}
    BY <1>9, <2>1
  <2>5. QED
    BY <2>2, <2>3, <2>4 DEF Boundary
<1>12. ASSUME ~GoesOn(e) PROVE Boundary'
  <2>1. Whole(todo')
    BY <1>3, <1>12 DEF Rest
  <2>2. QED
    BY <2>1, WholeBegins DEF Boundary
<1>13. QED
  BY <1>1, <1>3, <1>5, <1>6, <1>7, <1>8, <1>9, <1>10, <1>11, <1>12, Zenon DEF Emitted

\* What the step does to the rest of the state.
LEMMA ArriveDoes ==
  ASSUME Arrive, NEW e, e = Head(todo)
  PROVE  /\ Emit /\ sent' = (IF Ends(e) THEN e.of ELSE sent)
         /\ Receive(e.msg) /\ lost' = FALSE /\ everLost' = everLost
BY DEF Arrive, Emit

\* A loss leaves the reader alone, and follows no other loss.
LEMMA LoseDoes ==
  ASSUME IInv, Lose, NEW e, e = Head(todo)
  PROVE  /\ Emit /\ sent' = (IF Ends(e) THEN e.of ELSE sent)
         /\ lost = FALSE /\ lost' = TRUE /\ everLost' = TRUE /\ part' = part /\ got' = got
<1>1. lost = FALSE
  BY Zenon DEF Lose, IInv, Types
<1>2. QED
  BY <1>1 DEF Lose, Emit, reader

\* A message without data arrives.
LEMMA OtherArrives ==
  ASSUME IInv, Arrive, NEW e, e = Head(todo), IsOther(e)
  PROVE  IInv' /\ got' = got
<1>1. Emit /\ Receive(e.msg) /\ lost' = FALSE /\ everLost' = everLost /\ sent' = sent
  <2>1. Emit /\ sent' = (IF Ends(e) THEN e.of ELSE sent)
         /\ Receive(e.msg) /\ lost' = FALSE /\ everLost' = everLost
    BY ArriveDoes
  <2>2. ~Ends(e)
    BY <2>1, EmitStep DEF Emitted
  <2>3. QED
    BY <2>1, <2>2
<1>2. Emitted(e)
  BY <1>1, EmitStep
<1>3. Boundary /\ Boundary' /\ ~IsData(e.msg)
  BY <1>2 DEF Emitted, Boundary
<1>4. got' = got /\ (part' = <<>> \/ (part' = part /\ NoValues))
  BY <1>1, <1>2, <1>3 DEF Receive, Emitted, reader
<1>5. Types /\ LeftOver /\ Lossless
  BY DEF IInv
<1>6. Types'
  <2>1. part' \in Seq(WordRecords)
    <3>1. <<>> \in Seq(WordRecords) /\ part \in Seq(WordRecords)
      BY <1>5 DEF Types
    <3>2. QED
      BY <1>4, <3>1, Zenon
  <2>2. lost' \in BOOLEAN /\ everLost' \in BOOLEAN
    BY <1>1, <1>5, Zenon DEF Types
  <2>3. counter' \in 0 .. 7 /\ Stream(todo')
    BY <1>2, <1>5 DEF Types, Emitted
  <2>4. QED
    BY <2>1, <2>2, <2>3 DEF Types
<1>7. NoValues => NoValues'
  BY <1>2 DEF Emitted
<1>8. LeftOver'
  BY <1>3, <1>4, <1>5, <1>7, Zenon DEF LeftOver, Left
<1>9. Collecting'
  BY <1>3 DEF Collecting
<1>10. Lossless'
  BY <1>1, <1>3, <1>4, <1>5 DEF Lossless
<1>11. Markers'
  BY <1>2 DEF Emitted
<1>12. QED
  BY <1>4, <1>6, <1>8, <1>9, <1>10, <1>11 DEF IInv

\* It is lost.
LEMMA OtherIsLost ==
  ASSUME IInv, Lose, NEW e, e = Head(todo), IsOther(e)
  PROVE  IInv'
<1>1. Emit /\ lost' = TRUE /\ everLost' = TRUE /\ part' = part
  BY LoseDoes
<1>2. Emitted(e)
  BY <1>1, EmitStep
<1>3. Boundary /\ Boundary'
  BY <1>2 DEF Emitted, Boundary
<1>4. Types /\ LeftOver
  BY DEF IInv
<1>5. Types'
  <2>1. lost' \in BOOLEAN /\ everLost' \in BOOLEAN
    BY <1>1, Zenon
  <2>2. QED
    BY <1>1, <1>2, <1>4, <2>1 DEF Types, Emitted
<1>6. LeftOver'
  BY <1>1, <1>3, <1>4, Zenon DEF LeftOver, Left
<1>7. Collecting'
  BY <1>3 DEF Collecting
<1>8. Lossless'
  BY <1>1, Zenon DEF Lossless
<1>9. Markers'
  BY <1>2 DEF Emitted
<1>10. QED
  BY <1>5, <1>6, <1>7, <1>8, <1>9 DEF IInv

\* What the invariant says before a word of a value.
Before(v, k) ==
  /\ IsValue(v) /\ k \in 1 .. Len(v.words) /\ part \in Seq(WordRecords)
  /\ k = 1 => Left(part) /\ (part = <<>> \/ lost = TRUE \/ Len(v.words) = 1)
  /\ k # 1 => UnderWay(v, k, part, lost)
  /\ everLost = FALSE => Exact(v, k, part) /\ got = sent
\* That holds before each.
LEMMA BeforeWord ==
  ASSUME IInv, Emit, NEW e, e = Head(todo), IsWord(e)
  PROVE  Before(e.of, e.word) /\ (GoesOn(e) <=> e.word # Len(e.of.words))
         /\ (Ends(e) <=> e.word = Len(e.of.words))
<1>1. Emitted(e) /\ Types /\ LeftOver /\ Collecting /\ Lossless
  BY EmitStep DEF IInv
<1>2. IsValue(e.of) /\ e.word \in 1 .. Len(e.of.words) /\ e.word > 0
  BY <1>1 DEF IsWord, Emitted
<1>3. (Ends(e) <=> e.word = Len(e.of.words)) /\ (GoesOn(e) <=> e.word # Len(e.of.words))
  BY <1>2, Zenon DEF Ends, GoesOn
<1>4. e.word = 1 <=> Boundary
  <2>1. todo # <<>> /\ e.word # 0
    BY <1>1, <1>2 DEF Emitted
  <2>2. QED
    BY <2>1 DEF Boundary
<1>5. ASSUME e.word = 1
      PROVE  Left(part) /\ (part = <<>> \/ lost = TRUE \/ Len(e.of.words) = 1)
  <2>1. Left(part) /\ (part = <<>> \/ lost = TRUE \/ NoValues \/ ByteNext)
    BY <1>1, <1>4, <1>5, Zenon DEF LeftOver
  <2>2. ~NoValues
    BY <1>1 DEF Emitted
  <2>3. ByteNext => Len(e.of.words) = 1
    BY <1>3, <1>5 DEF ByteNext
  <2>4. QED
    BY <2>1, <2>2, <2>3, Zenon
<1>6. ASSUME e.word # 1 PROVE UnderWay(e.of, e.word, part, lost)
  BY <1>1, <1>4, <1>6 DEF Collecting
<1>7. ASSUME everLost = FALSE PROVE Exact(e.of, e.word, part) /\ got = sent
  <2>1. CASE Boundary
    <3>1. part = <<>> /\ e.word = 1 /\ got = sent
      BY <1>1, <1>4, <1>7, <2>1, Zenon DEF Lossless
    <3>2. Exact(e.of, 1, <<>>)
      BY DEF Exact
    <3>3. QED
      BY <3>1, <3>2
  <2>2. CASE ~Boundary
    BY <1>1, <1>7, <2>2, Zenon DEF Lossless
  <2>3. QED
    BY <2>1, <2>2
<1>8. part \in Seq(WordRecords)
  BY <1>1 DEF Types
<1>9. QED
  BY <1>2, <1>3, <1>5, <1>6, <1>7, <1>8, Zenon DEF Before

\* A word arrives that is not the last of its value.
LEMMA WordArrives ==
  ASSUME IInv, Arrive, NEW e, e = Head(todo), IsWord(e), GoesOn(e)
  PROVE  IInv' /\ got' = got
<1>1. Emit /\ Receive(e.msg) /\ lost' = FALSE /\ everLost' = everLost
      /\ sent' = (IF Ends(e) THEN e.of ELSE sent)
  BY ArriveDoes
<1>2. Emitted(e)
  BY <1>1, EmitStep
<1>3. Before(e.of, e.word) /\ e.word # Len(e.of.words) /\ ~Ends(e)
  BY <1>1, BeforeWord
<1>4. PICK v, k : v = e.of /\ k = e.word
  OBVIOUS
<1>5. /\ IsData(e.msg) /\ WordOf(e.msg) = ReadWord(v, k) /\ ReadWord(v, k) \in WordRecords
      /\ IndicatorOf(e.msg) >= 64
  BY <1>4, WordIsRead
<1>6. sent' = sent /\ Collect(e.msg)
  BY <1>1, <1>2, <1>3, <1>5 DEF Receive, Emitted
<1>7. PICK s : s = (IF Len(part) < 5 THEN Append(part, ReadWord(v, k)) ELSE part)
  OBVIOUS
<1>8. part' = s /\ got' = got
  BY <1>5, <1>6, <1>7, Zenon DEF Collect
<1>9. IsValue(v) /\ k \in 1 .. Len(v.words) /\ k # Len(v.words) /\ part \in Seq(WordRecords)
  BY <1>3, <1>4 DEF Before
<1>10. Collected(s, part, ReadWord(v, k))
  BY <1>5, <1>7, <1>9, CollectOne
<1>11. UnderWay(v, k + 1, s, FALSE)
  <2>1. CASE k = 1
    <3>1. Left(part) /\ Len(v.words) > 1
      BY <1>3, <1>4, <1>9, <2>1, LengthIs DEF Before
    <3>2. Collected(s, part, ReadWord(v, 1))
      BY <1>10, <2>1
    <3>3. UnderWay(v, 2, s, FALSE)
      BY <1>9, <3>1, <3>2, FirstArrives
    <3>4. k + 1 = 2
      BY <2>1
    <3>5. QED
      BY <3>3, <3>4
  <2>2. CASE k # 1
    <3>1. UnderWay(v, k, part, lost)
      BY <1>3, <1>4, <2>2 DEF Before
    <3>2. k \in 2 .. Len(v.words) - 1
      BY <1>9, <2>2, LengthIs
    <3>3. lost \in BOOLEAN
      BY DEF IInv, Types
    <3>4. QED
      BY <1>9, <1>10, <3>1, <3>2, <3>3, NextArrives, Zenon
  <2>3. QED
    BY <2>1, <2>2
<1>12. ~Boundary' /\ Head(todo').of = v /\ Head(todo').word = k + 1
  BY <1>2, <1>4 DEF Emitted
<1>13. Types'
  <2>1. part' \in Seq(WordRecords)
    BY <1>8, <1>10 DEF Collected
  <2>2. lost' \in BOOLEAN /\ everLost' \in BOOLEAN
    BY <1>1, Zenon DEF IInv, Types
  <2>3. counter' \in 0 .. 7 /\ Stream(todo')
    BY <1>2 DEF IInv, Types, Emitted
  <2>4. QED
    BY <2>1, <2>2, <2>3 DEF Types
<1>14. LeftOver'
  BY <1>12 DEF LeftOver
<1>15. Collecting'
  BY <1>1, <1>8, <1>11, <1>12, Zenon DEF Collecting
<1>16. Lossless'
  <2>1. ASSUME everLost = FALSE PROVE Exact(v, k + 1, s) /\ got = sent
    <3>1. Exact(v, k, part) /\ got = sent
      BY <1>3, <1>4, <2>1 DEF Before
    <3>2. QED
      BY <1>9, <1>10, <3>1, ExactGrows, Zenon
  <2>2. QED
    BY <1>1, <1>6, <1>8, <1>12, <2>1, Zenon DEF Lossless
<1>17. Markers'
  BY <1>2 DEF Emitted
<1>18. QED
  BY <1>8, <1>13, <1>14, <1>15, <1>16, <1>17 DEF IInv

\* The last word of a value arrives: if the reader takes what it has for a value, it is
\* that value, and if nothing has been lost it does.
LEMMA LastArrives ==
  ASSUME IInv, Arrive, NEW e, e = Head(todo), IsWord(e), ~GoesOn(e)
  PROVE  IInv' /\ (got' # got => got' = sent')
<1>1. Emit /\ Receive(e.msg) /\ lost' = FALSE /\ everLost' = everLost
      /\ sent' = (IF Ends(e) THEN e.of ELSE sent)
  BY ArriveDoes
<1>2. Emitted(e)
  BY <1>1, EmitStep
<1>3. Before(e.of, e.word) /\ e.word = Len(e.of.words) /\ Ends(e)
  BY <1>1, BeforeWord
<1>4. PICK v, k : v = e.of /\ k = e.word
  OBVIOUS
<1>5. /\ IsData(e.msg) /\ WordOf(e.msg) = ReadWord(v, k) /\ ReadWord(v, k) \in WordRecords
      /\ ~(IndicatorOf(e.msg) >= 64)
  BY <1>4, WordIsRead
<1>6. sent' = v /\ Collect(e.msg)
  BY <1>1, <1>2, <1>3, <1>4, <1>5 DEF Receive, Emitted
<1>7. PICK s : s = (IF Len(part) < 5 THEN Append(part, ReadWord(v, k)) ELSE part)
  OBVIOUS
<1>8. part' = <<>> /\ got' = IF Complete(s) THEN Assembled(s) ELSE got
  BY <1>5, <1>6, <1>7, Zenon DEF Collect
<1>9. IsValue(v) /\ k \in 1 .. Len(v.words) /\ k = Len(v.words) /\ part \in Seq(WordRecords)
  BY <1>3, <1>4 DEF Before
<1>10. Collected(s, part, ReadWord(v, k))
  BY <1>5, <1>7, <1>9, CollectOne
<1>11. Collected(s, part, ReadWord(v, Len(v.words)))
  BY <1>9, <1>10
<1>12. Complete(s) => Assembled(s) = v
  <2>1. BeforeLast(v, part, lost)
    <3>1. CASE Len(v.words) = 1
      BY <1>9, <3>1 DEF BeforeLast
    <3>2. CASE Len(v.words) # 1
      <4>1. UnderWay(v, k, part, lost)
        BY <1>3, <1>4, <1>9, <3>2 DEF Before
      <4>2. QED
        BY <1>9, <3>2, <4>1 DEF BeforeLast
    <3>3. QED
      BY <3>1, <3>2
  <2>2. QED
    BY <1>9, <1>11, <2>1, CompleteIsExact, Zenon
<1>13. everLost = FALSE => got' = sent'
  <2> SUFFICES ASSUME everLost = FALSE PROVE got' = sent'
    OBVIOUS
  <2>1. Exact(v, k, part)
    BY <1>3, <1>4 DEF Before
  <2>2. Exact(v, k + 1, s)
    BY <1>9, <1>10, <2>1, ExactGrows
  <2>3. Exact(v, Len(v.words) + 1, s)
    BY <1>9, <2>2
  <2>4. Complete(s) /\ Assembled(s) = v
    BY <1>9, <2>3, ExactIsComplete
  <2>5. QED
    BY <1>6, <1>8, <2>4
<1>14. Boundary'
  BY <1>2 DEF Emitted
<1>15. Types'
  <2>1. part' \in Seq(WordRecords)
    BY <1>8
  <2>2. lost' \in BOOLEAN /\ everLost' \in BOOLEAN
    BY <1>1, Zenon DEF IInv, Types
  <2>3. counter' \in 0 .. 7 /\ Stream(todo')
    BY <1>2 DEF IInv, Types, Emitted
  <2>4. QED
    BY <2>1, <2>2, <2>3 DEF Types
<1>16. LeftOver'
  BY <1>8, Zenon DEF LeftOver, Left
<1>17. Collecting'
  BY <1>14 DEF Collecting
<1>18. Lossless'
  BY <1>1, <1>8, <1>13, <1>14, Zenon DEF Lossless
<1>19. Markers'
  BY <1>2 DEF Emitted
<1>20. QED
  BY <1>6, <1>8, <1>12, <1>15, <1>16, <1>17, <1>18, <1>19, Zenon DEF IInv

\* A word of a value is lost, the message before it having arrived.
LEMMA WordIsLost ==
  ASSUME IInv, Lose, NEW e, e = Head(todo), IsWord(e)
  PROVE  IInv'
<1>1. Emit /\ lost = FALSE /\ lost' = TRUE /\ everLost' = TRUE /\ part' = part
  BY LoseDoes
<1>2. Emitted(e)
  BY <1>1, EmitStep
<1>3. PICK v, k : v = e.of /\ k = e.word
  OBVIOUS
<1>4. Before(v, k) /\ (GoesOn(e) <=> k # Len(v.words))
  BY <1>1, <1>3, BeforeWord
<1>5. IsValue(v) /\ k \in 1 .. Len(v.words) /\ part \in Seq(WordRecords)
  BY <1>4 DEF Before
<1>6. k # 1 => UnderWay(v, k, part, FALSE)
  BY <1>1, <1>4 DEF Before
<1>7. k = 1 => Left(part) /\ (part = <<>> \/ Len(v.words) = 1)
  BY <1>1, <1>4, Zenon DEF Before
<1>8. Types'
  <2>1. lost' \in BOOLEAN /\ everLost' \in BOOLEAN
    BY <1>1, Zenon
  <2>2. QED
    BY <1>1, <1>2, <2>1 DEF IInv, Types, Emitted
<1>9. Markers'
  BY <1>2 DEF Emitted
<1>10. Lossless'
  BY <1>1, Zenon DEF Lossless
<1>11. CASE GoesOn(e)
  <2>1. ~Boundary' /\ Head(todo').of = v /\ Head(todo').word = k + 1
    BY <1>2, <1>3, <1>11 DEF Emitted
  <2>2. UnderWay(v, k + 1, part, TRUE)
    <3>1. CASE k = 1
      <4>1. Len(v.words) # 1
        BY <1>4, <1>11, <3>1
      <4>2. part = <<>> /\ k + 1 = 2
        BY <1>7, <3>1, <4>1
      <4>3. Len(v.words) > 1
        BY <1>5, <4>1, LengthIs, Zenon
      <4>4. QED
        BY <1>5, <4>2, <4>3, FirstIsLost
    <3>2. CASE k # 1
      <4>1. k \in 2 .. Len(v.words) - 1
        BY <1>4, <1>5, <1>11, <3>2, LengthIs
      <4>2. QED
        BY <1>5, <1>6, <3>2, <4>1, NextIsLost
    <3>3. QED
      BY <3>1, <3>2
  <2>3. LeftOver'
    BY <2>1 DEF LeftOver
  <2>4. Collecting'
    BY <1>1, <2>1, <2>2, Zenon DEF Collecting
  <2>5. QED
    BY <1>8, <1>9, <1>10, <2>3, <2>4 DEF IInv
<1>12. CASE ~GoesOn(e)
  <2>1. Boundary' /\ k = Len(v.words)
    BY <1>2, <1>4, <1>12 DEF Emitted
  <2>2. Left(part)
    <3>1. CASE k = 1
      BY <1>7, <3>1
    <3>2. CASE k # 1
      <4>1. UnderWay(v, Len(v.words), part, FALSE) /\ Len(v.words) # 1
        BY <1>6, <2>1, <3>2
      <4>2. Len(v.words) > 1
        BY <1>5, <4>1, LengthIs, Zenon
      <4>3. QED
        BY <1>5, <4>1, <4>2, LastIsLost
    <3>3. QED
      BY <3>1, <3>2
  <2>3. LeftOver'
    BY <1>1, <2>2, Zenon DEF LeftOver, Left
  <2>4. Collecting'
    BY <2>1 DEF Collecting
  <2>5. QED
    BY <1>8, <1>9, <1>10, <2>3, <2>4 DEF IInv
<1>13. QED
  BY <1>11, <1>12

\* Every step, and what it lets the reader read.
LEMMA NextIInv == IInv /\ [Next]_vars => IInv' /\ (got' # got => got' = sent')
<1> SUFFICES ASSUME IInv, [Next]_vars PROVE IInv' /\ (got' # got => got' = sent')
  OBVIOUS
<1>1. CASE Task
  BY <1>1, TaskStep
<1>2. CASE TestMain
  BY <1>2, TestMainStep
<1>3. PICK e : e = Head(todo)
  OBVIOUS
<1>4. ASSUME Emit PROVE IsOther(e) \/ IsWord(e)
  BY <1>3, <1>4, EmitStep DEF Emitted
<1>5. CASE Arrive
  <2>1. CASE IsOther(e)
    BY <1>3, <1>5, <2>1, OtherArrives
  <2>2. CASE IsWord(e) /\ GoesOn(e)
    BY <1>3, <1>5, <2>2, WordArrives
  <2>3. CASE IsWord(e) /\ ~GoesOn(e)
    BY <1>3, <1>5, <2>3, LastArrives
  <2>4. QED
    BY <1>4, <1>5, <2>1, <2>2, <2>3 DEF Arrive
<1>6. CASE Lose
  <2>1. got' = got
    BY <1>3, <1>6, LoseDoes
  <2>2. CASE IsOther(e)
    BY <1>3, <1>6, <2>1, <2>2, OtherIsLost
  <2>3. CASE IsWord(e)
    BY <1>3, <1>6, <2>1, <2>3, WordIsLost
  <2>4. QED
    BY <1>4, <1>6, <2>2, <2>3 DEF Lose
<1>7. CASE UNCHANGED vars
  BY <1>7 DEF vars, IInv, Types, Markers, NoValues, LeftOver, Left, Boundary, ByteNext, Collecting,
              Lossless
<1>8. QED
  BY <1>1, <1>2, <1>5, <1>6, <1>7 DEF Next

\* The invariant holds always.
THEOREM Invariance == Spec => []IInv
<1>1. QED
  BY InitIInv, NextIInv, PTL DEF Spec

\* While nothing is lost, every value is read back as it was emitted, as soon as its last
\* message is out: whatever its type and width, whichever of the calls it comes from,
\* and with the scheduler's messages between the calls.
THEOREM ValuesRoundTrip == Spec => []RoundTrip
<1>1. IInv => RoundTrip
  BY Zenon DEF IInv, Types, Lossless, RoundTrip
<1>2. QED
  BY <1>1, Invariance, PTL

\* However many messages are lost, as long as no two of them in a row, the reader reads
\* no value but the one emitted last.
THEOREM NothingFalseIsRead == Spec => NoFalseValue
<1>1. IInv /\ [Next]_vars => [got' # got => got' = sent']_vars
  BY NextIInv
<1>2. QED
  BY <1>1, Invariance, PTL DEF Spec, NoFalseValue
=============================================================================
