------------------------- MODULE InputFramingProofs -------------------------
(* What the reader thread queues as a message is one, nothing is lost of     *)
(* what it reads, no bytes from a serial port end it, and what a module      *)
(* sends arrives as it is: for any lines, messages and noise.                *)
EXTENDS InputFraming, FiniteSetTheorems, WellFoundedInduction, TLAPS
-----------------------------------------------------------------------------
(* Induction and recursive functions over the numbers, for sets.           *)
(* Finite sets are well-founded by inclusion, so the sets 1..n have one    *)
(* that is least.                                                          *)
LEMMA LeastNat ==
  ASSUME NEW T, T \subseteq Nat, T # {} PROVE \E n \in T : \A m \in T : n <= m
<1> DEFINE I == {1 .. n : n \in T}
           R == StrictSubsetOrdering(Nat)
<1>1. I \subseteq FiniteSubsetsOf(Nat)
  <2> SUFFICES ASSUME NEW n \in T PROVE 1 .. n \in FiniteSubsetsOf(Nat) OBVIOUS
  <2>1. n \in Int /\ 1 \in Int OBVIOUS
  <2>2. IsFiniteSet(1 .. n) BY <2>1, FS_Interval
  <2> QED BY <2>2 DEF FiniteSubsetsOf
<1>2. I # {} OBVIOUS
<1>3. IsWellFoundedOn(R, FiniteSubsetsOf(Nat)) BY FS_StrictSubsetOrderingWellFounded
<1>4. \E x \in I : \A y \in I : <<y, x>> \notin R
  <2> HIDE DEF I, R
  <2> QED BY <1>1, <1>2, <1>3, WFMin
<1>5. PICK n \in T : \A m \in T : <<1 .. m, 1 .. n>> \notin R BY <1>4
<1>6. \A m \in T : n <= m
  <2> SUFFICES ASSUME NEW m \in T, m < n PROVE FALSE OBVIOUS
  <2>1. m \in Nat /\ n \in Nat OBVIOUS
  <2>2. n \in 1 .. n /\ n \notin 1 .. m BY <2>1
  <2>3. 1 .. m \subseteq 1 .. n /\ 1 .. m # 1 .. n BY <2>1, <2>2
  <2>4. 1 .. m \in SUBSET Nat /\ 1 .. n \in SUBSET Nat BY <2>1
  <2> QED BY <1>5, <2>3, <2>4 DEF StrictSubsetOrdering
<1> QED BY <1>6

LEMMA Induction ==
  ASSUME NEW S, 0 \in S, \A n \in Nat : n \in S => n + 1 \in S PROVE Nat \subseteq S
<1> DEFINE T == Nat \ S
<1> SUFFICES ASSUME T # {} PROVE FALSE OBVIOUS
<1>1. T \subseteq Nat OBVIOUS
<1>2. PICK n \in T : \A m \in T : n <= m BY <1>1, LeastNat
<1>3. n # 0 /\ n - 1 \in Nat /\ n - 1 \notin T BY <1>2
<1> QED BY <1>3

(* A function of the numbers from a to b may be defined by its value at a  *)
(* and a step from each number to the next.                                *)
Steps(R, base, step, a, b) == base \in R /\ step \in [Int \X R -> R] /\ a \in Int /\ b \in Int
Recurs(g, base, step, a, b) ==
  \A i \in a .. b : g[i] = IF i = a THEN base ELSE step[<<i, g[i - 1]>>]
LEMMA Recursion ==
  ASSUME NEW R, NEW base, NEW step, NEW a, NEW b, Steps(R, base, step, a, b)
  PROVE  \E g \in [a .. b -> R] : Recurs(g, base, step, a, b)
<1>0. base \in R /\ step \in [Int \X R -> R] /\ a \in Int /\ b \in Int BY DEF Steps
<1> USE <1>0
<1> DEFINE Is(n, g) == \A i \in a .. a + n : g[i] = IF i = a THEN base ELSE step[<<i, g[i - 1]>>]
           S == {n \in Nat : \E g \in [a .. a + n -> R] : Is(n, g)}
<1>1. 0 \in S
  <2>1. Is(0, [i \in a .. a + 0 |-> base]) OBVIOUS
  <2> QED BY <2>1
<1>2. ASSUME NEW n \in Nat, n \in S PROVE n + 1 \in S
  <2>1. PICK g \in [a .. a + n -> R] : Is(n, g) BY <1>2
  <2> DEFINE e == step[<<a + n + 1, g[a + n]>>]
             h == [i \in a .. a + (n + 1) |-> IF i = a + n + 1 THEN e ELSE g[i]]
  <2>2. e \in R
    <3>1. a + n \in a .. a + n /\ a + n + 1 \in Int OBVIOUS
    <3>2. g[a + n] \in R BY <3>1
    <3> QED BY <3>1, <3>2
  <2>3. h \in [a .. a + (n + 1) -> R] BY <2>2
  <2>4. ASSUME NEW i \in a .. a + (n + 1) PROVE h[i] = IF i = a THEN base ELSE step[<<i, h[i - 1]>>]
    <3> HIDE DEF e
    <3>1. CASE i = a + n + 1
      <4>1. h[i] = e /\ i # a /\ i - 1 = a + n BY <3>1
      <4>2. h[i - 1] = g[a + n] BY <4>1
      <4> QED BY <3>1, <4>1, <4>2 DEF e
    <3>2. CASE i # a + n + 1
      <4>1. i \in a .. a + n /\ h[i] = g[i] BY <3>2
      <4>2. g[i] = IF i = a THEN base ELSE step[<<i, g[i - 1]>>] BY <2>1, <4>1
      <4>3. i # a => h[i - 1] = g[i - 1] BY <4>1
      <4> QED BY <4>1, <4>2, <4>3
    <3> QED BY <3>1, <3>2
  <2>5. Is(n + 1, h) BY <2>4
  <2> HIDE DEF Is, h
  <2> QED BY <2>3, <2>5
<1>3. Nat \subseteq S
  <2> HIDE DEF S
  <2> QED BY <1>1, <1>2, Induction
<1>4. CASE b >= a
  <2>1. b - a \in Nat /\ a + (b - a) = b BY <1>4
  <2>2. b - a \in S BY <1>3, <2>1
  <2>3. PICK g \in [a .. a + (b - a) -> R] : Is(b - a, g) BY <2>2
  <2> QED BY <2>1, <2>3 DEF Recurs
<1>5. CASE b < a
  <2>1. a .. b = {} BY <1>5
  <2> DEFINE g == [i \in a .. b |-> base]
  <2>2. Recurs(g, base, step, a, b) BY <2>1 DEF Recurs
  <2>3. g \in [a .. b -> R] OBVIOUS
  <2> QED BY <2>2, <2>3
<1> QED BY <1>4, <1>5
-----------------------------------------------------------------------------
(* While a message is read its first byte is the start code, and once the  *)
(* header is there it is valid and the message not complete.               *)
PartialOK ==
  is_hmtl =>
    /\ data # <<>> /\ data[1] = STARTCODE
    /\ Len(data) >= HdrLen => ValidHeader(data) /\ Len(data) < data[3]

FrameInv == TypeOK /\ PartialOK /\ FramesAreFrames /\ SerialReaderLives

LEMMA Concatenation ==
  ASSUME NEW S, NEW s \in Seq(S), NEW t \in Seq(S) PROVE s \o t \in Seq(S)
OBVIOUS
LEMMA Remainder ==
  ASSUME NEW S, NEW s \in Seq(S), s # <<>>
  PROVE  Head(s) \in S /\ Tail(s) \in Seq(S)
OBVIOUS
LEMMA Appended ==
  ASSUME NEW S, NEW s \in Seq(S), NEW e \in S
  PROVE  /\ Append(s, e) \in Seq(S) /\ Append(s, e) # <<>> /\ Len(Append(s, e)) = Len(s) + 1
         /\ \A i \in 1 .. Len(s) : Append(s, e)[i] = s[i]
         /\ Append(s, e)[Len(s) + 1] = e
OBVIOUS

LEMMA ByteIsNat == ASSUME NEW b \in Byte PROVE b \in Nat /\ b \in Int
BY DEF Byte
LEMMA Zero == 0 \in 0 .. MAX_PARTIAL_FRAME_READS /\ 0 \in 0 .. MaxSent /\ <<>> \in Seq(Byte)
BY FramingAssumption

LEMMA TakeType ==
  ASSUME TypeOK, Take
  PROVE  /\ char \in Byte /\ rest \in Seq(Byte)
         /\ line' \in Seq(Byte) /\ seen \in Seq(Byte)
         /\ source' = source /\ sent' = sent
         /\ Append(data, char) \in Seq(Byte)
<1>1. CASE pushback # <<>>
  <2>1. char \in Byte /\ rest \in Seq(Byte) BY <1>1, Remainder DEF TypeOK, char, rest
  <2> QED BY <1>1, <2>1, Appended DEF TypeOK, Take, seen
<1>2. CASE pushback = <<>>
  <2>1. line # <<>> BY <1>2 DEF Take, HasUnit
  <2>2. char \in Byte /\ Tail(line) \in Seq(Byte) BY <1>2, <2>1, Remainder DEF TypeOK, char
  <2>3. rest \in Seq(Byte) BY <1>2 DEF rest
  <2> QED BY <1>2, <2>2, <2>3, Appended DEF TypeOK, Take, seen
<1> QED BY <1>1, <1>2

Whole(d) == Len(d) >= HdrLen /\ d[1] = STARTCODE /\ ValidHeader(d) /\ Len(d) = d[3]
Begun(d) ==
  /\ d # <<>> /\ d[1] = STARTCODE
  /\ Len(d) >= HdrLen => ValidHeader(d) /\ Len(d) < d[3]

(* The conjuncts of TypeOK that every step of the reader has to establish.  *)
Streams ==
  /\ source' = source /\ sent' = sent
  /\ line' \in Seq(Byte) /\ pushback' \in Seq(Byte)

(* The reader queues text or a whole message, if it has anything.           *)
LEMMA QueueKeeps ==
  ASSUME FrameInv, Streams, NEW d \in Seq(Byte), NEW hmtl \in BOOLEAN, NEW bytes \in Seq(Byte),
         Queue(d, hmtl, bytes), hmtl => Whole(d)
  PROVE  FrameInv'
<1>0. data' = <<>> /\ is_hmtl' = FALSE /\ empty_reads' = 0 BY DEF Queue
<1>1. /\ data' = <<>> /\ is_hmtl' = FALSE
      /\ data' \in Seq(Byte) /\ is_hmtl' \in BOOLEAN /\ empty_reads' \in 0 .. MAX_PARTIAL_FRAME_READS
  BY <1>0, Zero
<1>2. PartialOK' BY <1>1 DEF PartialOK
<1>3. CASE d = <<>>
  <2>1. read' = bytes /\ UNCHANGED <<item, of, count, due, alive>> BY <1>3 DEF Queue
  <2>2. TypeOK' BY <1>1, <2>1 DEF FrameInv, TypeOK, Streams
  <2>3. FramesAreFrames' BY <2>1 DEF FrameInv, FramesAreFrames, ValidHeader
  <2>4. SerialReaderLives' BY <2>1 DEF FrameInv, SerialReaderLives, Streams
  <2> QED BY <1>2, <2>2, <2>3, <2>4 DEF FrameInv
<1>4. CASE d # <<>>
  <2>1. ~(hmtl /\ Len(d) < HdrLen) BY DEF HdrLen, Whole
  <2>2. /\ item' = [data |-> d, is_hmtl |-> hmtl] /\ count' = count + 1 /\ due' = NULL
        /\ of' = SubSeq(bytes, 1, Len(bytes) - Len(pushback')) /\ read' = pushback' /\ alive' = alive
    BY <1>4, <2>1 DEF Queue
  <2>3. of' \in Seq(Byte)
    <3>1. pushback' \in Seq(Byte) BY DEF Streams
    <3>2. Len(bytes) \in Nat /\ Len(pushback') \in Nat BY <3>1
    <3>3. \A i \in 1 .. Len(bytes) - Len(pushback') : i \in 1 .. Len(bytes) BY <3>2
    <3> QED BY <2>2, <3>2, <3>3
  <2>4. item' \in [data : Seq(Byte), is_hmtl : BOOLEAN] BY <2>2
  <2>5. count' \in Nat BY <2>2 DEF FrameInv, TypeOK
  <2>6. TypeOK' BY <1>1, <2>2, <2>3, <2>4, <2>5 DEF FrameInv, TypeOK, Streams
  <2>7. FramesAreFrames' BY <2>2 DEF FramesAreFrames, ValidHeader, Whole
  <2>8. SerialReaderLives' BY <2>2 DEF FrameInv, SerialReaderLives, Streams
  <2> QED BY <1>2, <2>6, <2>7, <2>8 DEF FrameInv
<1> QED BY <1>3, <1>4

(* The reader goes on with the text or the message it has begun.            *)
LEMMA ContinueKeeps ==
  ASSUME FrameInv, Streams, seen \in Seq(Byte), NEW d \in Seq(Byte), NEW hmtl \in BOOLEAN,
         Continue(d, hmtl), hmtl => Begun(d)
  PROVE  FrameInv'
<1>1. /\ data' = d /\ is_hmtl' = hmtl /\ empty_reads' \in 0 .. MAX_PARTIAL_FRAME_READS
      /\ read' = seen /\ UNCHANGED <<item, of, count, due, alive>>
  BY Zero DEF Continue
<1>2. TypeOK' BY <1>1 DEF FrameInv, TypeOK, Streams
<1>3. PartialOK' BY <1>1 DEF PartialOK, Begun, ValidHeader
<1>4. FramesAreFrames' BY <1>1 DEF FrameInv, FramesAreFrames, ValidHeader
<1>5. SerialReaderLives' BY <1>1 DEF FrameInv, SerialReaderLives, Streams
<1> QED BY <1>2, <1>3, <1>4, <1>5 DEF FrameInv

LEMMA TakeStreams ==
  ASSUME FrameInv, Take, pushback' \in Seq(Byte)
  PROVE  Streams /\ seen \in Seq(Byte)
BY TakeType DEF FrameInv, Streams
-----------------------------------------------------------------------------
LEMMA InitFrame == Init => FrameInv
<1> SUFFICES ASSUME Init PROVE FrameInv OBVIOUS
<1>1. TypeOK BY Zero DEF Init, TypeOK
<1>2. PartialOK /\ FramesAreFrames /\ SerialReaderLives
  BY DEF Init, PartialOK, FramesAreFrames, SerialReaderLives
<1> QED BY <1>1, <1>2 DEF FrameInv

LEMMA SendKeeps ==
  ASSUME FrameInv, NEW chunk \in Seq(Byte), NEW promise,
         promise = NULL \/ promise \in [data : Seq(Byte), is_hmtl : BOOLEAN],
         Send(chunk, promise)
  PROVE  FrameInv'
<1>1. sent' \in 0 .. MaxSent BY FramingAssumption DEF Send, FrameInv, TypeOK
<1>2. line' \in Seq(Byte) BY Concatenation DEF Send, FrameInv, TypeOK
<1>3. TypeOK' BY <1>1, <1>2 DEF Send, FrameInv, TypeOK
<1>4. PartialOK' /\ FramesAreFrames' /\ SerialReaderLives'
  BY DEF Send, FrameInv, PartialOK, FramesAreFrames, SerialReaderLives, ValidHeader
<1> QED BY <1>3, <1>4 DEF FrameInv

LEMMA StartAfterTextKeeps ==
  ASSUME FrameInv, ReadStartAfterText PROVE FrameInv'
<1>1. TypeOK /\ Take /\ Queue(data, FALSE, seen) BY DEF FrameInv, ReadStartAfterText
<1>2. data \in Seq(Byte) BY <1>1 DEF TypeOK
<1>3. <<char>> \in Seq(Byte) BY <1>1, TakeType
<1>4. pushback' \in Seq(Byte) BY <1>1, <1>3, TakeType, Concatenation DEF ReadStartAfterText
<1>5. Streams /\ seen \in Seq(Byte) BY <1>1, <1>4, TakeStreams
<1> QED BY <1>1, <1>2, <1>5, QueueKeeps

LEMMA TextKeeps ==
  ASSUME FrameInv, ReadText PROVE FrameInv'
<1>1. TypeOK /\ Take BY DEF FrameInv, ReadText
<1>2. pushback' \in Seq(Byte) BY <1>1, TakeType DEF ReadText
<1>3. Streams /\ seen \in Seq(Byte) BY <1>1, <1>2, TakeStreams
<1>4. data \in Seq(Byte) /\ Append(data, char) \in Seq(Byte) BY <1>1, TakeType DEF TypeOK
<1>5. CASE Queue(data, FALSE, seen) BY <1>3, <1>4, <1>5, QueueKeeps
<1>6. CASE Continue(data, FALSE) BY <1>3, <1>4, <1>6, ContinueKeeps
<1>7. CASE Continue(Append(data, char), FALSE) BY <1>3, <1>4, <1>7, ContinueKeeps
<1> QED BY <1>5, <1>6, <1>7 DEF ReadText

(* A byte more makes of a message begun one that is begun or whole, unless  *)
(* its header turns out to be none.                                         *)
LEMMA Grows ==
  ASSUME FrameInv, Take, is_hmtl \/ (char = STARTCODE /\ data = <<>>),
         ~(Len(Append(data, char)) = HdrLen /\ ~ValidHeader(Append(data, char)))
  PROVE  IF FrameComplete(Append(data, char)) THEN Whole(Append(data, char)) ELSE Begun(Append(data, char))
<1> DEFINE d == Append(data, char)
<1>1. TypeOK /\ data \in Seq(Byte) /\ char \in Byte BY TakeType DEF FrameInv, TypeOK
<1>2. /\ d \in Seq(Byte) /\ d # <<>> /\ Len(d) = Len(data) + 1 /\ Len(data) \in Nat
      /\ \A i \in 1 .. Len(data) : d[i] = data[i]
      /\ d[Len(data) + 1] = char
  BY <1>1, Appended
<1>3. d[1] = STARTCODE
  <2>1. CASE data = <<>> BY <2>1, <1>2 DEF FrameInv, PartialOK
  <2>2. CASE data # <<>>
    <3>1. data[1] = STARTCODE BY <2>2 DEF FrameInv, PartialOK
    <3>2. 1 \in 1 .. Len(data) BY <2>2, <1>1
    <3> QED BY <3>1, <3>2, <1>2
  <2> QED BY <2>1, <2>2
<1>4. CASE Len(d) < HdrLen BY <1>4, <1>2, <1>3 DEF FrameComplete, Begun, HdrLen
<1>5. CASE Len(d) = HdrLen
  <2>1. ValidHeader(d) BY <1>5
  <2>2. d[3] \in Int
    <3>1. d[3] \in Byte BY <1>2, <1>5 DEF HdrLen
    <3> QED BY <3>1, ByteIsNat
  <2> QED BY <2>1, <2>2, <1>5, <1>2, <1>3 DEF FrameComplete, Whole, Begun, ValidHeader, HdrLen
<1>6. CASE Len(d) > HdrLen
  <2>1. Len(data) >= HdrLen /\ data # <<>> BY <1>6, <1>2 DEF HdrLen
  <2>2. is_hmtl BY <2>1
  <2>3. ValidHeader(data) /\ Len(data) < data[3] BY <2>1, <2>2 DEF FrameInv, PartialOK
  <2>4. d[2] = data[2] /\ d[3] = data[3] BY <1>2, <2>1 DEF HdrLen
  <2>5. data[3] \in Int
    <3>1. data[3] \in Byte BY <1>1, <2>1 DEF HdrLen
    <3> QED BY <3>1, ByteIsNat
  <2>6. ValidHeader(d) BY <2>3, <2>4 DEF ValidHeader
  <2> QED BY <1>2, <1>3, <1>6, <2>3, <2>4, <2>5, <2>6 DEF FrameComplete, Whole, Begun, HdrLen
<1>7. HdrLen \in Nat BY DEF HdrLen
<1> QED BY <1>2, <1>4, <1>5, <1>6, <1>7

LEMMA FrameByteKeeps ==
  ASSUME FrameInv, ReadFrameByte PROVE FrameInv'
<1> DEFINE d == Append(data, char)
<1>1. TypeOK /\ Take /\ (is_hmtl \/ (char = STARTCODE /\ data = <<>>))
  BY DEF FrameInv, ReadFrameByte
<1>2. data \in Seq(Byte) /\ char \in Byte /\ rest \in Seq(Byte) BY <1>1, TakeType DEF TypeOK
<1>3. d \in Seq(Byte) /\ d # <<>> BY <1>2, Appended
<1>4. Rescan(d) \o rest \in Seq(Byte) BY <1>2, <1>3, Remainder, Concatenation DEF Rescan
<1>5. <<>> \in Seq(Byte) OBVIOUS
<1>6. CASE Len(d) = HdrLen /\ ~ValidHeader(d)
  <2>1. pushback' = Rescan(d) \o rest /\ Continue(<<>>, FALSE) BY <1>6 DEF ReadFrameByte
  <2>2. Streams /\ seen \in Seq(Byte) BY <2>1, <1>1, <1>4, TakeStreams
  <2> QED BY <2>1, <2>2, <1>5, ContinueKeeps
<1>7. CASE ~(Len(d) = HdrLen /\ ~ValidHeader(d))
  <2>1. pushback' = rest BY <1>7 DEF ReadFrameByte
  <2>2. Streams /\ seen \in Seq(Byte) BY <2>1, <1>1, <1>2, TakeStreams
  <2>3. IF FrameComplete(d) THEN Whole(d) ELSE Begun(d) BY <1>1, <1>7, Grows
  <2>4. CASE FrameComplete(d)
    <3>1. Queue(d, TRUE, seen) BY <2>4, <1>7 DEF ReadFrameByte
    <3> QED BY <3>1, <2>2, <2>3, <2>4, <1>3, QueueKeeps
  <2>5. CASE ~FrameComplete(d)
    <3>1. Continue(d, TRUE) BY <2>5, <1>7 DEF ReadFrameByte
    <3> QED BY <3>1, <2>2, <2>3, <2>5, <1>3, ContinueKeeps
  <2> QED BY <2>4, <2>5
<1> QED BY <1>6, <1>7

LEMMA EmptyReadKeeps ==
  ASSUME FrameInv, EmptyRead PROVE FrameInv'
<1>1. TypeOK /\ PartialOK BY DEF FrameInv
<1>2. CASE Waits(data, is_hmtl)
  <2>1. data # <<>> /\ data \in Seq(Byte) BY <1>1, <1>2 DEF TypeOK, PartialOK, Waits
  <2>2. Rescan(data) \in Seq(Byte) BY <2>1, Remainder DEF Rescan
  <2>3. CASE GivesUp(empty_reads + 1)
    <3>1. /\ pushback' = Rescan(data) /\ data' = <<>> /\ is_hmtl' = FALSE /\ empty_reads' = 0
          /\ due' = NULL \/ due' = due
          /\ UNCHANGED <<item, of, count, alive, source, line, sent, read>>
      BY <1>2, <2>3 DEF EmptyRead
    <3>2. TypeOK' BY <1>1, <2>2, <3>1, Zero DEF TypeOK
    <3>3. PartialOK' /\ FramesAreFrames' /\ SerialReaderLives'
      BY <3>1 DEF FrameInv, PartialOK, FramesAreFrames, SerialReaderLives, ValidHeader
    <3> QED BY <3>2, <3>3 DEF FrameInv
  <2>4. CASE ~GivesUp(empty_reads + 1)
    <3>1. /\ empty_reads' = empty_reads + 1
          /\ UNCHANGED <<pushback, data, is_hmtl, item, of, count, due, alive, source, line, sent, read>>
      BY <1>2, <2>4 DEF EmptyRead
    <3>2. empty_reads' \in 0 .. MAX_PARTIAL_FRAME_READS
      BY <1>1, <2>4, <3>1, FramingAssumption DEF TypeOK, GivesUp
    <3>3. TypeOK' BY <1>1, <3>1, <3>2 DEF TypeOK
    <3>4. PartialOK' /\ FramesAreFrames' /\ SerialReaderLives'
      BY <3>1 DEF FrameInv, PartialOK, FramesAreFrames, SerialReaderLives, ValidHeader
    <3> QED BY <3>3, <3>4 DEF FrameInv
  <2> QED BY <2>3, <2>4
<1>3. CASE ~Waits(data, is_hmtl)
  <2>1. Queue(data, is_hmtl, read) /\ UNCHANGED <<pushback, source, line, sent>> BY <1>3 DEF EmptyRead
  <2>2. Streams BY <1>1, <2>1 DEF Streams, TypeOK
  <2>3. ~is_hmtl
    <3>1. SUFFICES ASSUME is_hmtl PROVE FALSE OBVIOUS
    <3>2. FrameComplete(data) BY <1>3, <3>1 DEF Waits
    <3>3. Len(data) >= HdrLen /\ Len(data) >= data[3] BY <3>2 DEF FrameComplete
    <3>4. Len(data) < data[3] BY <1>1, <3>1, <3>3 DEF PartialOK
    <3>5. data[3] \in Byte /\ Len(data) \in Nat BY <1>1, <3>3 DEF TypeOK, HdrLen
    <3>6. data[3] \in Nat BY <3>5, ByteIsNat
    <3> QED BY <3>3, <3>4, <3>5, <3>6
  <2> QED BY <1>1, <2>1, <2>2, <2>3, QueueKeeps DEF TypeOK
<1> QED BY <1>2, <1>3

LEMMA ReaderDiesKeeps ==
  ASSUME FrameInv, ReaderDies PROVE FrameInv'
BY DEF ReaderDies, FrameInv, TypeOK, PartialOK, FramesAreFrames, SerialReaderLives, ValidHeader

LEMMA StepKeeps ==
  ASSUME FrameInv, [Next]_vars PROVE FrameInv'
<1>1. CASE SendLine
  <2>1. PICK text \in Lines : Send(text \o <<CR, LF>>, [data |-> text, is_hmtl |-> FALSE])
    BY <1>1 DEF SendLine
  <2>2. text \in Seq(Byte) /\ <<CR, LF>> \in Seq(Byte) BY FramingAssumption DEF Byte, CR, LF
  <2>3. text \o <<CR, LF>> \in Seq(Byte) BY <2>2, Concatenation
  <2> QED BY <2>1, <2>2, <2>3, SendKeeps
<1>2. CASE SendFrame
  <2>1. PICK frame \in Frames : Send(frame, [data |-> frame, is_hmtl |-> TRUE]) BY <1>2 DEF SendFrame
  <2> QED BY <2>1, FramingAssumption, SendKeeps
<1>3. CASE SendNoise
  <2>1. PICK noise \in Noise : Send(noise, NULL) BY <1>3 DEF SendNoise
  <2> QED BY <2>1, FramingAssumption, SendKeeps
<1>4. CASE Reader
  BY <1>4, StartAfterTextKeeps, FrameByteKeeps, TextKeeps, EmptyReadKeeps, ReaderDiesKeeps DEF Reader
<1>5. CASE UNCHANGED vars
  BY <1>5 DEF vars, FrameInv, TypeOK, PartialOK, FramesAreFrames, SerialReaderLives, ValidHeader
<1> QED BY <1>1, <1>2, <1>3, <1>4, <1>5 DEF Next

LEMMA Inductive == Spec => []FrameInv
<1> QED BY InitFrame, StepKeeps, PTL DEF Spec

(* The state has its types, whatever the module sends.                      *)
THEOREM TypeCorrect == Spec => []TypeOK
<1>1. FrameInv => TypeOK BY DEF FrameInv
<1> QED BY <1>1, Inductive, PTL

(* Only whole messages with a valid header are queued as messages, after    *)
(* any noise (_valid_hmtl_header, _frame_complete).                         *)
THEOREM FramesCorrect == Spec => []FramesAreFrames
<1>1. FrameInv => FramesAreFrames BY DEF FrameInv
<1> QED BY <1>1, Inductive, PTL

(* No bytes from a serial port raise an exception in the reader thread.     *)
THEOREM ReaderCorrect == Spec => []SerialReaderLives
<1>1. FrameInv => SerialReaderLives BY DEF FrameInv
<1> QED BY <1>1, Inductive, PTL

-----------------------------------------------------------------------------
(* What is due is what comes next: the bytes of t from the one after c on.  *)
Ahead(s, t, c) == Len(s) >= Len(t) - c /\ \A i \in 1 .. Len(t) - c : s[i] = t[c + i]
Starts(d, t) == Len(d) <= Len(t) /\ \A i \in 1 .. Len(d) : d[i] = t[i]
LineEnd == <<CR, LF>>

(* Nothing is pushed back and nothing else is in the way of it: a message   *)
(* is read as one, a line as text up to its end.                            *)
FrameDue(f) == /\ f \in Frames /\ Len(data) < Len(f) /\ Starts(data, f) /\ Ahead(line, f, Len(data))
               /\ is_hmtl <=> data # <<>>
LineDue(text) ==
  /\ text \in Lines /\ ~is_hmtl
  /\ \/ Starts(data, text) /\ Ahead(line, text \o LineEnd, Len(data))
     \/ data = text /\ Ahead(line, text \o LineEnd, Len(text) + 1)
DueInv == due # NULL => /\ pushback = <<>>
                        /\ IF due.is_hmtl THEN FrameDue(due.data) ELSE LineDue(due.data)
ItemInv == FrameInv /\ DueInv

LEMMA AheadAll ==
  ASSUME NEW S, NEW t \in Seq(S) PROVE Ahead(t, t, 0) /\ Ahead(<<>> \o t, t, 0)
BY DEF Ahead
LEMMA AheadMore ==
  ASSUME NEW S, NEW s \in Seq(S), NEW u \in Seq(S), NEW t \in Seq(S), NEW c \in Nat, Ahead(s, t, c)
  PROVE  Ahead(s \o u, t, c)
BY DEF Ahead
LEMMA AheadNext ==
  ASSUME NEW S, NEW s \in Seq(S), NEW t \in Seq(S), NEW c \in Nat, c < Len(t), Ahead(s, t, c)
  PROVE  s # <<>> /\ Head(s) = t[c + 1] /\ Ahead(Tail(s), t, c + 1)
<1>1. Len(s) >= 1 /\ s[1] = t[c + 1] BY DEF Ahead
<1>2. s # <<>> /\ Head(s) = t[c + 1] BY <1>1
<1>3. Len(Tail(s)) = Len(s) - 1 /\ \A i \in 1 .. Len(s) - 1 : Tail(s)[i] = s[i + 1] BY <1>1
<1>4. \A i \in 1 .. Len(t) - (c + 1) : Tail(s)[i] = t[c + 1 + i] BY <1>3 DEF Ahead
<1>5. Len(Tail(s)) >= Len(t) - (c + 1) BY <1>3 DEF Ahead
<1> QED BY <1>2, <1>4, <1>5 DEF Ahead
LEMMA LineBytes ==
  ASSUME NEW text \in Seq(Byte)
  PROVE  /\ text \o LineEnd \in Seq(Byte) /\ Len(text \o LineEnd) = Len(text) + 2
         /\ \A i \in 1 .. Len(text) : (text \o LineEnd)[i] = text[i]
         /\ (text \o LineEnd)[Len(text) + 1] = CR /\ (text \o LineEnd)[Len(text) + 2] = LF
BY DEF LineEnd, Byte, CR, LF
LEMMA StartsMore ==
  ASSUME NEW S, NEW d \in Seq(S), NEW t \in Seq(S), Starts(d, t), Len(d) < Len(t)
  PROVE  Starts(Append(d, t[Len(d) + 1]), t)
BY DEF Starts
LEMMA StartsWhole ==
  ASSUME NEW S, NEW d \in Seq(S), NEW t \in Seq(S), Starts(d, t), Len(d) = Len(t)
  PROVE  d = t
BY DEF Starts

NextItem == count' # count /\ due # NULL => item' = due \/ (~due.is_hmtl /\ line' = line)

LEMMA DueTypes ==
  ASSUME TypeOK, due # NULL
  PROVE  due.data \in Seq(Byte) /\ due = [data |-> due.data, is_hmtl |-> due.is_hmtl]
BY DEF TypeOK
LEMMA NoPromise ==
  ASSUME due' = NULL, due = NULL \/ count' = count PROVE DueInv' /\ NextItem
BY DEF DueInv, NextItem

(* The next byte is that of what is due.                                    *)
LEMMA DueByte ==
  ASSUME TypeOK, Take, pushback = <<>>, NEW t \in Seq(Byte), NEW c \in Nat, c < Len(t), Ahead(line, t, c)
  PROVE  char = t[c + 1] /\ rest = <<>> /\ Ahead(line', t, c + 1)
<1>1. line \in Seq(Byte) /\ line' = Tail(line) /\ char = Head(line) /\ rest = <<>>
  BY DEF TypeOK, Take, char, rest
<1> QED BY <1>1, AheadNext

LEMMA DueLineByte ==
  ASSUME Deliverable, FrameInv, Take, pushback = <<>>, NEW text \in Seq(Byte), LineDue(text)
  PROVE  /\ rest = <<>> /\ text # <<>>
         /\ \/ /\ Starts(data, text) /\ Len(data) < Len(text) /\ char = text[Len(data) + 1]
               /\ char \notin {STARTCODE, CR, LF} /\ Ahead(line', text \o LineEnd, Len(data) + 1)
            \/ data = text /\ char = CR /\ Ahead(line', text \o LineEnd, Len(text) + 1)
            \/ data = text /\ char = LF
<1> DEFINE t == text \o LineEnd
<1>1. TypeOK /\ data \in Seq(Byte) /\ Len(data) \in Nat /\ Len(text) \in Nat BY DEF FrameInv, TypeOK
<1>2. /\ t \in Seq(Byte) /\ Len(t) = Len(text) + 2 /\ \A i \in 1 .. Len(text) : t[i] = text[i]
      /\ t[Len(text) + 1] = CR /\ t[Len(text) + 2] = LF
  BY LineBytes
<1>3. text # <<>> /\ \A i \in 1 .. Len(text) : text[i] \notin {STARTCODE, CR, LF}
  BY DEF LineDue, Deliverable
<1>4. CASE Starts(data, text) /\ Ahead(line, t, Len(data))
  <2>1. Len(data) <= Len(text) BY <1>4 DEF Starts
  <2>2. char = t[Len(data) + 1] /\ rest = <<>> /\ Ahead(line', t, Len(data) + 1)
    <3>1. Len(data) < Len(t) BY <1>1, <1>2, <2>1
    <3> QED BY <1>1, <1>2, <1>4, <3>1, DueByte
  <2>3. CASE Len(data) < Len(text)
    <3>1. Len(data) + 1 \in 1 .. Len(text) BY <1>1, <2>3
    <3> QED BY <1>2, <1>3, <1>4, <2>2, <2>3, <3>1
  <2>4. CASE Len(data) = Len(text)
    <3>1. data = text BY <1>1, <1>4, <2>4, StartsWhole
    <3> QED BY <1>2, <1>3, <2>2, <3>1
  <2> QED BY <1>1, <2>1, <2>3, <2>4
<1>5. CASE data = text /\ Ahead(line, t, Len(text) + 1)
  <2>1. Len(text) + 1 \in Nat /\ Len(text) + 1 < Len(t) BY <1>1, <1>2
  <2>2. char = t[Len(text) + 1 + 1] /\ rest = <<>> BY <1>1, <1>2, <1>5, <2>1, DueByte
  <2>3. Len(text) + 1 + 1 = Len(text) + 2 BY <1>1
  <2> QED BY <1>2, <1>3, <1>5, <2>2, <2>3
<1> QED BY <1>4, <1>5 DEF LineDue

LEMMA DueFrameByte ==
  ASSUME Deliverable, FrameInv, Take, pushback = <<>>, NEW f \in Seq(Byte), FrameDue(f)
  PROVE  /\ rest = <<>> /\ char = f[Len(data) + 1] /\ Ahead(line', f, Len(data) + 1)
         /\ Starts(Append(data, char), f) /\ Len(Append(data, char)) = Len(data) + 1
         /\ data = <<>> => char = STARTCODE
         /\ Len(Append(data, char)) = HdrLen => ValidHeader(Append(data, char))
         /\ FrameComplete(Append(data, char)) <=> Len(data) + 1 = Len(f)
         /\ FrameComplete(Append(data, char)) => Append(data, char) = f
<1> DEFINE d == Append(data, char)
<1>1. TypeOK /\ data \in Seq(Byte) /\ Len(data) \in Nat /\ Len(f) \in Nat /\ Len(data) < Len(f)
      /\ Starts(data, f) /\ Ahead(line, f, Len(data))
  BY DEF FrameInv, TypeOK, FrameDue
<1>2. /\ Len(f) >= HdrLen /\ f[1] = STARTCODE /\ ValidHeader(f) /\ Len(f) = f[3]
  BY DEF Deliverable, FrameDue
<1>3. char = f[Len(data) + 1] /\ rest = <<>> /\ Ahead(line', f, Len(data) + 1) BY <1>1, DueByte
<1>4. Starts(d, f) /\ Len(d) = Len(data) + 1 /\ d \in Seq(Byte)
  <2>1. f[Len(data) + 1] \in Byte BY <1>1
  <2> QED BY <1>1, <1>3, <2>1, StartsMore, Appended
<1>5. data = <<>> => char = STARTCODE BY <1>2, <1>3
<1>6. Len(d) >= HdrLen => d[2] = f[2] /\ d[3] = f[3] BY <1>4 DEF Starts, HdrLen
<1>7. Len(d) = HdrLen => ValidHeader(d) BY <1>2, <1>6 DEF ValidHeader, HdrLen
<1>8. FrameComplete(d) <=> Len(data) + 1 = Len(f)
  <2>1. CASE Len(d) >= HdrLen
    <3>1. d[3] = Len(f) BY <1>2, <1>6, <2>1
    <3>2. FrameComplete(d) <=> Len(d) >= Len(f) BY <2>1, <3>1 DEF FrameComplete
    <3> HIDE DEF d
    <3> QED BY <1>1, <1>4, <3>2
  <2>2. CASE ~(Len(d) >= HdrLen) BY <1>1, <1>2, <1>4, <2>2 DEF FrameComplete, HdrLen
  <2> QED BY <2>1, <2>2
<1>9. FrameComplete(d) => d = f BY <1>1, <1>4, <1>8, StartsWhole
<1> QED BY <1>3, <1>4, <1>5, <1>7, <1>8, <1>9

LEMMA SendDue ==
  ASSUME ItemInv, NEW chunk \in Seq(Byte), NEW promise, Send(chunk, promise),
         \/ promise = NULL
         \/ \E f \in Frames : chunk = f /\ promise = [data |-> f, is_hmtl |-> TRUE]
         \/ \E text \in Lines : chunk = text \o LineEnd /\ promise = [data |-> text, is_hmtl |-> FALSE],
         Deliverable
  PROVE  DueInv' /\ NextItem
<1>1. /\ TypeOK /\ line' = line \o chunk /\ UNCHANGED <<pushback, data, is_hmtl, count>>
  BY DEF ItemInv, FrameInv, Send
<1>2. CASE ~Idle
  <2>1. due' = due BY <1>2 DEF Send
  <2>2. ASSUME NEW t \in Seq(Byte), NEW c \in Nat, Ahead(line, t, c) PROVE Ahead(line', t, c)
    BY <1>1, <2>2, AheadMore DEF TypeOK
  <2>3. ASSUME due # NULL, due.is_hmtl PROVE FrameDue(due.data)'
    <3>1. FrameDue(due.data) /\ due.data \in Seq(Byte) /\ Len(data) \in Nat
      BY <1>1, <2>3, DueTypes DEF ItemInv, DueInv, TypeOK
    <3>2. Ahead(line', due.data, Len(data)) BY <2>2, <3>1 DEF FrameDue
    <3> QED BY <1>1, <2>1, <3>1, <3>2 DEF FrameDue
  <2>4. ASSUME due # NULL, ~due.is_hmtl PROVE LineDue(due.data)'
    <3> DEFINE text == due.data
    <3>1. LineDue(text) /\ text \in Seq(Byte) /\ Len(text) \in Nat /\ Len(data) \in Nat
      BY <1>1, <2>4, DueTypes DEF ItemInv, DueInv, TypeOK
    <3>2. text \o LineEnd \in Seq(Byte) /\ Len(text) + 1 \in Nat BY <3>1, LineBytes
    <3>3. /\ Ahead(line, text \o LineEnd, Len(data)) => Ahead(line', text \o LineEnd, Len(data))
          /\ Ahead(line, text \o LineEnd, Len(text) + 1) => Ahead(line', text \o LineEnd, Len(text) + 1)
      BY <2>2, <3>1, <3>2
    <3> QED BY <1>1, <2>1, <3>1, <3>3 DEF LineDue
  <2> QED BY <1>1, <2>1, <2>3, <2>4 DEF ItemInv, DueInv, NextItem
<1>3. CASE Idle
  <2>1. /\ due' = promise /\ pushback' = <<>> /\ data' = <<>> /\ line' = <<>> \o chunk /\ ~is_hmtl'
    BY <1>1, <1>3 DEF Idle, Send, ItemInv, FrameInv, PartialOK
  <2>2. Ahead(line', chunk, 0) /\ Len(data') = 0 BY <2>1, AheadAll
  <2>3. NextItem BY <1>1 DEF NextItem
  <2>4. CASE promise = NULL BY <2>1, <2>3, <2>4 DEF DueInv
  <2>5. CASE \E f \in Frames : chunk = f /\ promise = [data |-> f, is_hmtl |-> TRUE]
    <3>1. PICK f \in Frames : chunk = f /\ promise = [data |-> f, is_hmtl |-> TRUE] BY <2>5
    <3>2. Len(f) >= HdrLen BY DEF Deliverable
    <3>3. FrameDue(f)' BY <2>1, <2>2, <3>1, <3>2 DEF FrameDue, Starts, HdrLen
    <3> QED BY <2>1, <2>3, <3>1, <3>3 DEF DueInv
  <2>6. CASE \E text \in Lines : chunk = text \o LineEnd /\ promise = [data |-> text, is_hmtl |-> FALSE]
    <3>1. PICK text \in Lines : chunk = text \o LineEnd /\ promise = [data |-> text, is_hmtl |-> FALSE]
      BY <2>6
    <3>2. Len(text) \in Nat BY FramingAssumption
    <3>3. LineDue(text)' BY <2>1, <2>2, <3>1, <3>2 DEF LineDue, Starts
    <3> QED BY <2>1, <2>3, <3>1, <3>3 DEF DueInv
  <2> QED BY <2>4, <2>5, <2>6
<1> QED BY <1>2, <1>3

LEMMA StartDue ==
  ASSUME Deliverable, ItemInv, ReadStartAfterText PROVE DueInv' /\ NextItem
<1>1. FrameInv /\ TypeOK /\ Take /\ ~is_hmtl /\ char = STARTCODE /\ data # <<>> /\ Queue(data, FALSE, seen)
  BY DEF ItemInv, FrameInv, ReadStartAfterText
<1>2. due = NULL
  <2>1. SUFFICES ASSUME due # NULL PROVE FALSE OBVIOUS
  <2>2. ~due.is_hmtl BY <1>1, <2>1 DEF ItemInv, DueInv, FrameDue
  <2>3. pushback = <<>> /\ LineDue(due.data) /\ due.data \in Seq(Byte)
    BY <1>1, <2>1, <2>2, DueTypes DEF ItemInv, DueInv
  <2>4. STARTCODE # CR /\ STARTCODE # LF BY DEF STARTCODE, CR, LF
  <2> QED BY <1>1, <2>3, <2>4, DueLineByte
<1> QED BY <1>1, <1>2, NoPromise DEF Queue

LEMMA TextDue ==
  ASSUME Deliverable, ItemInv, ReadText PROVE DueInv' /\ NextItem
<1>1. FrameInv /\ TypeOK /\ Take /\ ~is_hmtl /\ char # STARTCODE /\ pushback' = rest
      /\ IF char = LF THEN Queue(data, FALSE, seen)
         ELSE Continue(IF char = CR THEN data ELSE Append(data, char), FALSE)
  BY DEF ItemInv, FrameInv, ReadText
<1>2. CASE due = NULL BY <1>1, <1>2, NoPromise DEF Queue, Continue
<1>3. CASE due # NULL
  <2> DEFINE text == due.data
  <2>0. text \in Seq(Byte) /\ due = [data |-> text, is_hmtl |-> due.is_hmtl] /\ pushback = <<>>
    BY <1>1, <1>3, DueTypes DEF ItemInv, DueInv
  <2>1. ~due.is_hmtl /\ LineDue(text)
    <3>1. SUFFICES ASSUME due.is_hmtl PROVE FALSE BY <1>3 DEF ItemInv, DueInv
    <3>2. FrameDue(text) /\ data = <<>> BY <1>1, <1>3, <3>1 DEF ItemInv, DueInv, FrameDue
    <3> QED BY <1>1, <2>0, <3>2, DueFrameByte
  <2>2. /\ rest = <<>> /\ text # <<>>
        /\ \/ /\ Starts(data, text) /\ Len(data) < Len(text) /\ char = text[Len(data) + 1]
              /\ char \notin {STARTCODE, CR, LF} /\ Ahead(line', text \o LineEnd, Len(data) + 1)
           \/ data = text /\ char = CR /\ Ahead(line', text \o LineEnd, Len(text) + 1)
           \/ data = text /\ char = LF
    BY <1>1, <2>0, <2>1, DueLineByte
  <2>3. CASE /\ Starts(data, text) /\ Len(data) < Len(text) /\ char = text[Len(data) + 1]
             /\ char \notin {STARTCODE, CR, LF} /\ Ahead(line', text \o LineEnd, Len(data) + 1)
    <3>1. data' = Append(data, char) /\ ~is_hmtl' /\ due' = due /\ count' = count
      BY <1>1, <2>3 DEF Continue
    <3>2. data \in Seq(Byte) /\ char \in Byte BY <1>1, TakeType DEF TypeOK
    <3>3. Starts(data', text) /\ Len(data') = Len(data) + 1
      BY <2>0, <2>3, <3>1, <3>2, StartsMore, Appended
    <3>4. LineDue(text)' BY <2>1, <2>3, <3>1, <3>3 DEF LineDue
    <3> QED BY <1>1, <2>1, <2>2, <3>1, <3>4 DEF DueInv, NextItem
  <2>4. CASE data = text /\ char = CR /\ Ahead(line', text \o LineEnd, Len(text) + 1)
    <3>1. data' = data /\ ~is_hmtl' /\ due' = due /\ count' = count
      BY <1>1, <2>4 DEF Continue, CR, LF
    <3>2. LineDue(text)' BY <2>1, <2>4, <3>1 DEF LineDue
    <3> QED BY <1>1, <2>1, <2>2, <3>1, <3>2 DEF DueInv, NextItem
  <2>5. CASE data = text /\ char = LF
    <3>1. item' = [data |-> text, is_hmtl |-> FALSE] /\ due' = NULL
      BY <1>1, <2>2, <2>5 DEF Queue
    <3>2. due.is_hmtl = FALSE BY <1>1, <1>3, <2>1 DEF TypeOK
    <3> QED BY <2>0, <3>1, <3>2 DEF DueInv, NextItem
  <2> QED BY <2>2, <2>3, <2>4, <2>5
<1> QED BY <1>2, <1>3

LEMMA FrameByteDue ==
  ASSUME Deliverable, ItemInv, ReadFrameByte PROVE DueInv' /\ NextItem
<1> DEFINE d == Append(data, char)
<1>1. /\ FrameInv /\ TypeOK /\ Take /\ (is_hmtl \/ (char = STARTCODE /\ data = <<>>))
      /\ IF Len(d) = HdrLen /\ ~ValidHeader(d)
         THEN pushback' = Rescan(d) \o rest /\ Continue(<<>>, FALSE)
         ELSE pushback' = rest /\ IF FrameComplete(d) THEN Queue(d, TRUE, seen) ELSE Continue(d, TRUE)
  BY DEF ItemInv, FrameInv, ReadFrameByte
<1>2. CASE due = NULL BY <1>1, <1>2, NoPromise DEF Queue, Continue
<1>3. CASE due # NULL
  <2> DEFINE f == due.data
  <2>0. f \in Seq(Byte) /\ due = [data |-> f, is_hmtl |-> due.is_hmtl] /\ pushback = <<>>
    BY <1>1, <1>3, DueTypes DEF ItemInv, DueInv
  <2>1. due.is_hmtl /\ FrameDue(f)
    <3>1. SUFFICES ASSUME ~due.is_hmtl PROVE FALSE BY <1>3 DEF ItemInv, DueInv
    <3>2. LineDue(f) /\ char = STARTCODE BY <1>1, <1>3, <3>1 DEF ItemInv, DueInv, LineDue
    <3>3. STARTCODE # CR /\ STARTCODE # LF BY DEF STARTCODE, CR, LF
    <3> QED BY <1>1, <2>0, <3>2, <3>3, DueLineByte
  <2>2. /\ rest = <<>> /\ Ahead(line', f, Len(data) + 1) /\ Starts(d, f) /\ Len(d) = Len(data) + 1
        /\ Len(d) = HdrLen => ValidHeader(d)
        /\ FrameComplete(d) <=> Len(data) + 1 = Len(f)
        /\ FrameComplete(d) => d = f
    BY <1>1, <2>0, <2>1, DueFrameByte
  <2>3. pushback' = <<>> /\ IF FrameComplete(d) THEN Queue(d, TRUE, seen) ELSE Continue(d, TRUE)
    BY <1>1, <2>2
  <2>4. Len(data) \in Nat /\ Len(f) \in Nat /\ Len(data) < Len(f) /\ f \in Frames /\ Len(f) >= HdrLen
    BY <1>1, <2>0, <2>1 DEF TypeOK, FrameDue, Deliverable
  <2>5. CASE FrameComplete(d)
    <3>1. d = f /\ d # <<>> /\ ~(Len(d) < HdrLen) BY <2>2, <2>4, <2>5 DEF HdrLen
    <3>2. item' = [data |-> f, is_hmtl |-> TRUE] /\ due' = NULL BY <2>3, <2>5, <3>1 DEF Queue
    <3>3. due.is_hmtl = TRUE BY <1>1, <1>3, <2>1 DEF TypeOK
    <3> QED BY <2>0, <3>2, <3>3 DEF DueInv, NextItem
  <2>6. CASE ~FrameComplete(d)
    <3>1. data' = d /\ is_hmtl' = TRUE /\ due' = due /\ count' = count BY <2>3, <2>6 DEF Continue
    <3>2. Len(d) < Len(f) /\ d # <<>> BY <2>2, <2>4, <2>6
    <3>3. FrameDue(f)' BY <2>2, <2>4, <3>1, <3>2 DEF FrameDue
    <3> QED BY <2>1, <2>3, <3>1, <3>3 DEF DueInv, NextItem
  <2> QED BY <2>5, <2>6
<1> QED BY <1>2, <1>3

(* A gap gives up only what was promised nothing, and may cut a line.       *)
LEMMA EmptyReadDue ==
  ASSUME Deliverable, ItemInv, EmptyRead PROVE DueInv' /\ NextItem
<1>1. TypeOK /\ pushback = <<>> /\ line' = line BY DEF ItemInv, FrameInv, EmptyRead
<1>2. CASE Waits(data, is_hmtl) /\ GivesUp(empty_reads + 1)
  <2>1. empty_reads + 1 > Patience
    BY <1>1, <1>2, FramingAssumption DEF TypeOK, GivesUp, Deliverable
  <2> QED BY <1>2, <2>1, NoPromise DEF EmptyRead
<1>3. CASE Waits(data, is_hmtl) /\ ~GivesUp(empty_reads + 1)
  <2>1. UNCHANGED <<pushback, line, data, is_hmtl, due, count>> BY <1>3 DEF EmptyRead
  <2> QED BY <2>1 DEF ItemInv, DueInv, NextItem, FrameDue, LineDue
<1>4. CASE ~Waits(data, is_hmtl)
  <2>1. Queue(data, is_hmtl, read) /\ UNCHANGED <<pushback, line>> BY <1>4 DEF EmptyRead
  <2>2. CASE due = NULL BY <2>1, <2>2, NoPromise DEF Queue
  <2>3. CASE due # NULL /\ due.is_hmtl
    <3> DEFINE f == due.data
    <3>1. FrameDue(f) /\ f \in Seq(Byte) BY <1>1, <2>3, DueTypes DEF ItemInv, DueInv
    <3>2. data = <<>>
      <4>1. SUFFICES ASSUME data # <<>> PROVE FALSE OBVIOUS
      <4>2. FrameComplete(data) BY <1>4, <3>1, <4>1 DEF Waits, FrameDue
      <4>3. Len(data) \in Nat /\ Len(data) >= HdrLen /\ data[3] = f[3] /\ Len(data) < Len(f) /\ Len(f) \in Nat
        BY <1>1, <3>1, <4>2 DEF TypeOK, FrameComplete, FrameDue, Starts, HdrLen
      <4>4. Len(f) = f[3] BY <3>1 DEF FrameDue, Deliverable
      <4> QED BY <4>2, <4>3, <4>4 DEF FrameComplete
    <3>3. UNCHANGED <<data, count, due>> /\ is_hmtl' = FALSE BY <2>1, <3>2 DEF Queue
    <3>4. FrameDue(f)' BY <2>1, <3>1, <3>2, <3>3 DEF FrameDue
    <3> QED BY <1>1, <2>1, <2>3, <3>3, <3>4 DEF DueInv, NextItem
  <2>4. CASE due # NULL /\ ~due.is_hmtl
    <3> DEFINE text == due.data
    <3>1. LineDue(text) /\ NextItem BY <1>1, <2>4 DEF ItemInv, DueInv, NextItem
    <3>2. CASE data = <<>>
      <4>1. UNCHANGED <<data, count, due>> /\ is_hmtl' = FALSE BY <2>1, <3>2 DEF Queue
      <4>2. LineDue(text)' BY <2>1, <3>1, <4>1 DEF LineDue
      <4> QED BY <1>1, <2>1, <2>4, <3>1, <4>1, <4>2 DEF DueInv
    <3>3. CASE data # <<>>
      <4>1. ~is_hmtl BY <3>1 DEF LineDue
      <4>2. due' = NULL BY <2>1, <3>3, <4>1 DEF Queue
      <4> QED BY <3>1, <4>2 DEF DueInv
    <3> QED BY <3>2, <3>3
  <2> QED BY <2>2, <2>3, <2>4
<1> QED BY <1>2, <1>3, <1>4

LEMMA ItemStep ==
  ASSUME Deliverable, ItemInv, [Next]_vars PROVE DueInv' /\ NextItem
<1>1. CASE SendLine
  <2>1. PICK text \in Lines : Send(text \o <<CR, LF>>, [data |-> text, is_hmtl |-> FALSE])
    BY <1>1 DEF SendLine
  <2>2. text \in Seq(Byte) BY FramingAssumption
  <2>3. text \o LineEnd \in Seq(Byte) BY <2>2, LineBytes
  <2> QED BY <2>1, <2>3, SendDue DEF LineEnd
<1>2. CASE SendFrame
  <2>1. PICK frame \in Frames : Send(frame, [data |-> frame, is_hmtl |-> TRUE]) BY <1>2 DEF SendFrame
  <2> QED BY <2>1, FramingAssumption, SendDue
<1>3. CASE SendNoise
  <2>1. PICK noise \in Noise : Send(noise, NULL) BY <1>3 DEF SendNoise
  <2> QED BY <2>1, FramingAssumption, SendDue
<1>4. CASE ReadStartAfterText \/ ReadText \/ ReadFrameByte \/ EmptyRead
  BY <1>4, StartDue, TextDue, FrameByteDue, EmptyReadDue
<1>5. CASE ReaderDies \/ UNCHANGED vars
  <2>1. UNCHANGED <<pushback, line, data, is_hmtl, due, count>> BY <1>5 DEF ReaderDies, vars
  <2> QED BY <2>1 DEF ItemInv, DueInv, NextItem, FrameDue, LineDue
<1> QED BY <1>1, <1>2, <1>3, <1>4, <1>5 DEF Next, Reader

(* What a module sends to a reader that is between two items is the next    *)
(* item: a message whatever gaps of up to MAX_PARTIAL_FRAME_READS empty     *)
(* reads it has (_read_unit, _read_item), a line unless a gap cuts it.      *)
THEOREM NextItemCorrect == ASSUME Deliverable PROVE Spec => NextItemIsDue
<1>1. Init => ItemInv BY InitFrame DEF ItemInv, DueInv, Init
<1>2. ItemInv /\ [Next]_vars => ItemInv' BY ItemStep, StepKeeps DEF ItemInv
<1>3. ItemInv /\ [Next]_vars => [NextItem]_vars BY ItemStep
<1>4. [NextItem]_vars => [count' # count /\ due # NULL => item' = due \/ (~due.is_hmtl /\ line' = line)]_vars
  BY DEF NextItem
<1> QED BY <1>1, <1>2, <1>3, <1>4, PTL DEF Spec, NextItemIsDue

-----------------------------------------------------------------------------
(* The content of bytes, one byte at a time.                               *)
Keeps(f, s) == \A i \in 0 .. Len(s) : f[i] = IF i = 0 THEN <<>> ELSE Keep(f[i - 1], s[i])

LEMMA KeepType ==
  ASSUME NEW k \in Seq(Byte), NEW b \in Byte PROVE Keep(k, b) \in Seq(Byte)
BY Appended DEF Keep

LEMMA ContentUnfolds ==
  ASSUME NEW s \in Seq(Byte)
  PROVE  \E f \in [0 .. Len(s) -> Seq(Byte)] : Keeps(f, s) /\ Content(s) = f[Len(s)]
<1> DEFINE n == Len(s)
           e(f, i) == IF i = 0 THEN <<>> ELSE Keep(f[i - 1], s[i])
           Is(f) == f = [i \in 0 .. n |-> e(f, i)]
           kept == CHOOSE f : Is(f)
           step == [p \in Int \X Seq(Byte) |-> IF p[1] \in 1 .. n THEN Keep(p[2], s[p[1]]) ELSE p[2]]
<1>1. n \in Nat /\ 0 \in Int /\ n \in Int /\ \A i \in 1 .. n : s[i] \in Byte OBVIOUS
<1>2. step \in [Int \X Seq(Byte) -> Seq(Byte)]
  <2> SUFFICES ASSUME NEW i \in Int, NEW k \in Seq(Byte)
               PROVE  (IF i \in 1 .. n THEN Keep(k, s[i]) ELSE k) \in Seq(Byte)
    OBVIOUS
  <2> HIDE DEF n
  <2>1. CASE i \in 1 .. n
    <3>1. s[i] \in Byte BY <1>1, <2>1
    <3>2. Keep(k, s[i]) \in Seq(Byte) BY <3>1, KeepType
    <3> QED BY <2>1, <3>2
  <2> QED BY <2>1
<1>3. PICK g \in [0 .. n -> Seq(Byte)] : Recurs(g, <<>>, step, 0, n)
  <2>1. <<>> \in Seq(Byte) OBVIOUS
  <2>2. Steps(Seq(Byte), <<>>, step, 0, n) BY <1>1, <1>2, <2>1 DEF Steps
  <2> HIDE DEF n, step
  <2> QED BY <2>2, Recursion
<1>4. Keeps(g, s)
  <2> SUFFICES ASSUME NEW i \in 0 .. n PROVE g[i] = IF i = 0 THEN <<>> ELSE Keep(g[i - 1], s[i])
    BY DEF Keeps
  <2>1. g[i] = IF i = 0 THEN <<>> ELSE step[<<i, g[i - 1]>>]
    <3> HIDE DEF step
    <3> QED BY <1>3 DEF Recurs
  <2>2. CASE i = 0
    <3> HIDE DEF step
    <3> QED BY <2>1, <2>2
  <2>3. CASE i # 0
    <3>1. i - 1 \in 0 .. n /\ i \in Int /\ i \in 1 .. n BY <1>1, <2>3
    <3>2. g[i - 1] \in Seq(Byte) BY <3>1
    <3>3. step[<<i, g[i - 1]>>] = Keep(g[i - 1], s[i]) BY <3>1, <3>2
    <3> HIDE DEF step
    <3> QED BY <2>1, <2>3, <3>3
  <2> QED BY <2>2, <2>3
<1>5. Is(g)
  <2> HIDE DEF step
  <2>1. \A i \in 0 .. n : g[i] = e(g, i) BY <1>4 DEF Keeps
  <2>2. g = [i \in 0 .. n |-> g[i]] OBVIOUS
  <2> HIDE DEF e, n
  <2> QED BY <2>1, <2>2
<1>6. Is(kept)
  <2> HIDE DEF Is
  <2> QED BY <1>5
<1>7. Content(s) = kept[n] BY DEF Content
<1>8. Keeps(kept, s)
  <2>1. kept = [i \in 0 .. n |-> e(kept, i)] BY <1>6
  <2> HIDE DEF kept, e
  <2>2. \A i \in 0 .. n : kept[i] = e(kept, i) BY <2>1
  <2> QED BY <2>2 DEF e, Keeps
<1>9. kept \in [0 .. n -> Seq(Byte)]
  <2> DEFINE S == {i \in Nat : i <= n => kept[i] \in Seq(Byte)}
  <2> HIDE DEF kept
  <2>1. 0 \in S
    <3>1. 0 \in 0 .. n BY <1>1
    <3>2. kept[0] = <<>> /\ <<>> \in Seq(Byte) BY <1>8, <3>1 DEF Keeps
    <3> QED BY <3>2
  <2>2. ASSUME NEW i \in Nat, i \in S PROVE i + 1 \in S
    <3> SUFFICES ASSUME i + 1 <= n PROVE kept[i + 1] \in Seq(Byte) OBVIOUS
    <3>1. i + 1 \in 0 .. n /\ i + 1 \in 1 .. n /\ i + 1 # 0 /\ (i + 1) - 1 = i /\ i <= n BY <1>1
    <3>2. kept[i] \in Seq(Byte) BY <2>2, <3>1
    <3>3. kept[i + 1] = Keep(kept[i], s[i + 1]) BY <1>8, <3>1 DEF Keeps
    <3>4. s[i + 1] \in Byte BY <1>1, <3>1
    <3> QED BY <3>2, <3>3, <3>4, KeepType
  <2>3. Nat \subseteq S
    <3> HIDE DEF S
    <3> QED BY <2>1, <2>2, Induction
  <2>4. \A i \in 0 .. n : kept[i] \in Seq(Byte)
    <3> SUFFICES ASSUME NEW i \in 0 .. n PROVE kept[i] \in Seq(Byte) OBVIOUS
    <3>1. i \in S /\ i <= n BY <1>1, <2>3
    <3> QED BY <3>1
  <2>5. kept = [i \in 0 .. n |-> e(kept, i)]
    BY <1>6
  <2> HIDE DEF e
  <2> QED BY <2>4, <2>5
<1> HIDE DEF kept, step
<1> QED BY <1>7, <1>8, <1>9

Agree(s, t, n) ==
  /\ s \in Seq(Byte) /\ t \in Seq(Byte) /\ n \in Nat /\ n <= Len(s) /\ n <= Len(t)
  /\ \A i \in 1 .. n : s[i] = t[i]
LEMMA SameStart ==
  ASSUME NEW s, NEW t, NEW n, NEW f, NEW g, Agree(s, t, n), Keeps(f, s), Keeps(g, t)
  PROVE  f[n] = g[n]
<1> DEFINE S == {i \in Nat : i <= n => f[i] = g[i]}
<1>0. /\ n \in Nat /\ Len(s) \in Nat /\ Len(t) \in Nat /\ n <= Len(s) /\ n <= Len(t)
      /\ \A i \in 1 .. n : s[i] = t[i]
  BY DEF Agree
<1>1. 0 \in S
  <2>1. 0 \in 0 .. Len(s) /\ 0 \in 0 .. Len(t) BY <1>0
  <2>2. f[0] = <<>> /\ g[0] = <<>> BY <2>1 DEF Keeps
  <2> QED BY <2>2
<1>2. ASSUME NEW i \in Nat, i \in S PROVE i + 1 \in S
  <2> SUFFICES ASSUME i + 1 <= n PROVE f[i + 1] = g[i + 1] OBVIOUS
  <2>1. /\ i + 1 \in 0 .. Len(s) /\ i + 1 \in 0 .. Len(t) /\ i + 1 \in 1 .. n
        /\ i + 1 # 0 /\ (i + 1) - 1 = i /\ i <= n
    BY <1>0
  <2>2. f[i] = g[i] /\ s[i + 1] = t[i + 1] BY <1>0, <1>2, <2>1
  <2>3. f[i + 1] = Keep(f[i], s[i + 1]) BY <2>1 DEF Keeps
  <2>4. g[i + 1] = Keep(g[i], t[i + 1]) BY <2>1 DEF Keeps
  <2> QED BY <2>2, <2>3, <2>4
<1>3. Nat \subseteq S
  <2> HIDE DEF S
  <2> QED BY <1>1, <1>2, Induction
<1>4. n \in S /\ n <= n BY <1>0, <1>3
<1> QED BY <1>4

LEMMA ContentType == ASSUME NEW s \in Seq(Byte) PROVE Content(s) \in Seq(Byte)
<1>1. PICK f \in [0 .. Len(s) -> Seq(Byte)] : Keeps(f, s) /\ Content(s) = f[Len(s)] BY ContentUnfolds
<1>2. Len(s) \in 0 .. Len(s) OBVIOUS
<1> QED BY <1>1, <1>2

LEMMA ContentEmpty == Content(<<>>) = <<>>
<1>1. <<>> \in Seq(Byte) /\ Len(<<>>) = 0 /\ 0 \in 0 .. 0 OBVIOUS
<1>2. PICK f \in [0 .. Len(<<>>) -> Seq(Byte)] : Keeps(f, <<>>) /\ Content(<<>>) = f[Len(<<>>)]
  BY <1>1, ContentUnfolds
<1>3. f[0] = <<>> BY <1>1, <1>2 DEF Keeps
<1> QED BY <1>1, <1>2, <1>3

LEMMA ContentAppend ==
  ASSUME NEW s \in Seq(Byte), NEW b \in Byte PROVE Content(Append(s, b)) = Keep(Content(s), b)
<1> DEFINE t == Append(s, b)
<1>1. /\ t \in Seq(Byte) /\ Len(t) = Len(s) + 1 /\ Len(s) \in Nat /\ t[Len(s) + 1] = b
      /\ \A i \in 1 .. Len(s) : t[i] = s[i]
  BY Appended
<1> HIDE DEF t
<1>2. PICK f \in [0 .. Len(s) -> Seq(Byte)] : Keeps(f, s) /\ Content(s) = f[Len(s)] BY ContentUnfolds
<1>3. PICK g \in [0 .. Len(t) -> Seq(Byte)] : Keeps(g, t) /\ Content(t) = g[Len(t)] BY <1>1, ContentUnfolds
<1>4. Agree(s, t, Len(s)) BY <1>1 DEF Agree
<1>5. f[Len(s)] = g[Len(s)]
  <2>1. Keeps(f, s) /\ Keeps(g, t) BY <1>2, <1>3
  <2> DEFINE n == Len(s)
  <2>2. Agree(s, t, n) BY <1>4
  <2> HIDE DEF n
  <2>3. f[n] = g[n] BY <2>1, <2>2, SameStart
  <2> QED BY <2>3 DEF n
<1>6. Len(t) \in 0 .. Len(t) /\ Len(t) # 0 /\ Len(t) - 1 = Len(s) BY <1>1
<1>7. g[Len(t)] = Keep(g[Len(s)], b) BY <1>1, <1>3, <1>6 DEF Keeps
<1> QED BY <1>2, <1>3, <1>5, <1>7 DEF t
-----------------------------------------------------------------------------
(* What has been read since the last item is, in order, what the message or *)
(* line begun was cut from and what is to be scanned again.                 *)
Holding(bytes, d, hmtl, p) ==
  \E n \in 0 .. Len(bytes) : /\ bytes = SubSeq(bytes, 1, n) \o p
                             /\ Accounts(SubSeq(bytes, 1, n), d, hmtl)
LostInv == FrameInv /\ NothingLost

LEMMA Split ==
  ASSUME NEW k \in Seq(Byte), NEW p \in Seq(Byte)
  PROVE  /\ SubSeq(k \o p, 1, Len(k)) = k /\ Len(k) \in 0 .. Len(k \o p)
         /\ Len(k \o p) - Len(p) = Len(k)
OBVIOUS

LEMMA Held ==
  ASSUME NEW k \in Seq(Byte), NEW p \in Seq(Byte), NEW d, NEW hmtl, Accounts(k, d, hmtl)
  PROVE  Holding(k \o p, d, hmtl, p)
<1> DEFINE bytes == k \o p
           n == Len(k)
<1>1. SubSeq(bytes, 1, n) = k /\ n \in 0 .. Len(bytes) BY Split
<1>2. bytes = SubSeq(bytes, 1, n) \o p BY <1>1
<1>3. Accounts(SubSeq(bytes, 1, n), d, hmtl) BY <1>1
<1> HIDE DEF bytes, n
<1>4. Holding(bytes, d, hmtl, p) BY <1>1, <1>2, <1>3 DEF Holding
<1> QED BY <1>4 DEF bytes

LEMMA Holds ==
  ASSUME NEW bytes \in Seq(Byte), NEW d, NEW hmtl, NEW p, Holding(bytes, d, hmtl, p)
  PROVE  \E k \in Seq(Byte) : bytes = k \o p /\ Accounts(k, d, hmtl)
<1>1. PICK n \in 0 .. Len(bytes) : /\ bytes = SubSeq(bytes, 1, n) \o p
                                   /\ Accounts(SubSeq(bytes, 1, n), d, hmtl)
  BY DEF Holding
<1>2. SubSeq(bytes, 1, n) \in Seq(Byte) OBVIOUS
<1> QED BY <1>1, <1>2

(* A message begun is the last of the bytes it is cut from.                 *)
LEMMA MessageAccounts ==
  ASSUME NEW k \in Seq(Byte), NEW d \in Seq(Byte), Content(k) = <<>>
  PROVE  Accounts(k \o d, d, TRUE)
<1> DEFINE s == k \o d
<1>1. SubSeq(s, 1, Len(k)) = k /\ Len(k) \in 0 .. Len(s) BY Split
<1>2. s = SubSeq(s, 1, Len(k)) \o d /\ Content(SubSeq(s, 1, Len(k))) = <<>> BY <1>1
<1> HIDE DEF s
<1>3. Accounts(s, d, TRUE) BY <1>1, <1>2 DEF Accounts
<1> QED BY <1>3 DEF s

LEMMA MessageBegan ==
  ASSUME NEW s \in Seq(Byte), NEW d \in Seq(Byte), Accounts(s, d, TRUE)
  PROVE  \E k \in Seq(Byte) : s = k \o d /\ Content(k) = <<>>
<1>1. PICK n \in 0 .. Len(s) : s = SubSeq(s, 1, n) \o d /\ Content(SubSeq(s, 1, n)) = <<>>
  BY DEF Accounts
<1>2. SubSeq(s, 1, n) \in Seq(Byte) OBVIOUS
<1> QED BY <1>1, <1>2

(* Bytes that were no message give up no more than their start code.        *)
LEMMA RescanAccounts ==
  ASSUME NEW s \in Seq(Byte), NEW d \in Seq(Byte), d # <<>>, d[1] = STARTCODE, Accounts(s, d, TRUE)
  PROVE  \E k \in Seq(Byte) : s = k \o Rescan(d) /\ Accounts(k, <<>>, FALSE)
<1>1. PICK k \in Seq(Byte) : s = k \o d /\ Content(k) = <<>> BY MessageBegan
<1>2. STARTCODE \in Byte BY DEF STARTCODE, Byte
<1>3. Append(k, STARTCODE) \in Seq(Byte) BY <1>2, Appended
<1>4. Content(Append(k, STARTCODE)) = <<>> BY <1>1, <1>2, ContentAppend DEF Keep
<1>5. d = <<STARTCODE>> \o Tail(d) /\ Tail(d) \in Seq(Byte) OBVIOUS
<1>6. s = Append(k, STARTCODE) \o Rescan(d)
  <2> DEFINE t == Tail(d)
             c == STARTCODE
  <2>1. s = k \o (<<c>> \o t) /\ t \in Seq(Byte) /\ c \in Byte BY <1>1, <1>2, <1>5
  <2> HIDE DEF t, c
  <2>2. s = Append(k, c) \o t BY <2>1
  <2> QED BY <2>2 DEF t, c, Rescan
<1> QED BY <1>3, <1>4, <1>6 DEF Accounts

(* A byte is taken from what is to be scanned again or read anew.           *)
LEMMA TakeHolds ==
  ASSUME LostInv, Take
  PROVE  \E k \in Seq(Byte) : /\ Append(k, char) \in Seq(Byte) /\ seen = k \o (<<char>> \o rest)
                              /\ seen = Append(k, char) \o rest /\ Accounts(k, data, is_hmtl)
<1>1. TypeOK /\ alive BY DEF LostInv, FrameInv, Take
<1>2. /\ read \in Seq(Byte) /\ pushback \in Seq(Byte) /\ char \in Byte /\ rest \in Seq(Byte)
  BY <1>1, TakeType DEF TypeOK
<1>3. Holding(read, data, is_hmtl, pushback) BY <1>1 DEF LostInv, NothingLost, Holding
<1>4. PICK k \in Seq(Byte) : read = k \o pushback /\ Accounts(k, data, is_hmtl) BY <1>2, <1>3, Holds
<1>5. seen = k \o (<<char>> \o rest)
  <2>1. CASE pushback # <<>>
    <3>1. seen = read /\ pushback = <<char>> \o rest BY <1>2, <2>1 DEF seen, char, rest
    <3> QED BY <1>4, <3>1
  <2>2. CASE pushback = <<>>
    <3>1. seen = Append(read, char) /\ rest = <<>> /\ read = k BY <1>4, <2>2 DEF seen, rest
    <3> DEFINE c == char
    <3>2. c \in Byte BY <1>2
    <3>3. Append(k, c) = k \o (<<c>> \o <<>>)
      <4> HIDE DEF c
      <4> QED BY <3>2
    <3> QED BY <3>1, <3>3
  <2> QED BY <2>1, <2>2
<1>6. k \o (<<char>> \o rest) = Append(k, char) \o rest /\ Append(k, char) \in Seq(Byte)
  <2> DEFINE c == char
             q == rest
  <2>1. c \in Byte /\ q \in Seq(Byte) BY <1>2
  <2> HIDE DEF c, q
  <2>2. k \o (<<c>> \o q) = Append(k, c) \o q /\ Append(k, c) \in Seq(Byte) BY <2>1
  <2> QED BY <2>2 DEF c, q
<1> QED BY <1>4, <1>5, <1>6

(* Of bytes queued or kept for later nothing is lost if nothing is of those *)
(* that were there.                                                         *)
LEMMA QueueLoses ==
  ASSUME LostInv, alive, NEW k \in Seq(Byte), NEW d \in Seq(Byte), NEW hmtl \in BOOLEAN,
         pushback' \in Seq(Byte), Queue(d, hmtl, k \o pushback'), Accounts(k, d, hmtl), hmtl => d # <<>>
  PROVE  NothingLost'
<1> DEFINE p == pushback'
           bytes == k \o p
<1>0. Queue(d, hmtl, bytes) /\ p \in Seq(Byte) OBVIOUS
<1>1. SubSeq(bytes, 1, Len(bytes) - Len(p)) = k BY Split
<1>2. CASE d = <<>>
  <2>1. data' = <<>> /\ is_hmtl' = FALSE /\ read' = bytes /\ UNCHANGED <<item, of>>
    BY <1>2 DEF Queue
  <2>2. hmtl = FALSE BY <1>2
  <2>3. Holding(bytes, <<>>, FALSE, p) BY <1>0, <1>2, <2>2, Held
  <2>4. item # NULL => Accounts(of, item.data, item.is_hmtl) BY DEF LostInv, NothingLost
  <2> HIDE DEF bytes
  <2> QED BY <2>1, <2>3, <2>4 DEF NothingLost, Holding
<1>3. CASE d # <<>> /\ hmtl /\ Len(d) < HdrLen
  <2>1. alive' = FALSE BY <1>3 DEF Queue
  <2> QED BY <2>1 DEF NothingLost
<1>4. CASE d # <<>> /\ ~(hmtl /\ Len(d) < HdrLen)
  <2>1. /\ data' = <<>> /\ is_hmtl' = FALSE /\ item' = [data |-> d, is_hmtl |-> hmtl]
        /\ of' = SubSeq(bytes, 1, Len(bytes) - Len(p)) /\ read' = p
    <3> HIDE DEF bytes
    <3> QED BY <1>0, <1>4 DEF Queue
  <2>2. of' = k /\ item'.data = d /\ item'.is_hmtl = hmtl BY <1>1, <2>1
  <2>3. Holding(p, <<>>, FALSE, p)
    <3>1. <<>> \in Seq(Byte) /\ Accounts(<<>>, <<>>, FALSE) BY ContentEmpty DEF Accounts
    <3>2. Holding(<<>> \o p, <<>>, FALSE, p) BY <3>1, Held
    <3>3. <<>> \o p = p OBVIOUS
    <3> QED BY <3>2, <3>3
  <2> HIDE DEF bytes
  <2> QED BY <2>1, <2>2, <2>3 DEF NothingLost, Holding
<1> QED BY <1>2, <1>3, <1>4

LEMMA ContinueLoses ==
  ASSUME LostInv, alive, NEW k \in Seq(Byte), NEW d, NEW hmtl,
         pushback' \in Seq(Byte), seen = k \o pushback', Continue(d, hmtl), Accounts(k, d, hmtl)
  PROVE  NothingLost'
<1>1. data' = d /\ is_hmtl' = hmtl /\ read' = seen /\ UNCHANGED <<item, of>> BY DEF Continue
<1>2. Holding(seen, d, hmtl, pushback') BY Held
<1>3. item # NULL => Accounts(of, item.data, item.is_hmtl) BY DEF LostInv, NothingLost
<1> QED BY <1>1, <1>2, <1>3 DEF NothingLost, Holding
-----------------------------------------------------------------------------
LEMMA StartAfterTextLoses ==
  ASSUME LostInv, ReadStartAfterText PROVE NothingLost'
<1>1. /\ FrameInv /\ TypeOK /\ Take /\ alive /\ ~is_hmtl /\ Queue(data, FALSE, seen)
      /\ pushback' = <<char>> \o rest
  BY DEF LostInv, FrameInv, ReadStartAfterText, Take
<1>2. data \in Seq(Byte) /\ pushback' \in Seq(Byte) /\ is_hmtl = FALSE
  BY <1>1, StartAfterTextKeeps DEF FrameInv, TypeOK
<1>3. PICK k \in Seq(Byte) : seen = k \o (<<char>> \o rest) /\ Accounts(k, data, is_hmtl)
  BY <1>1, TakeHolds
<1>4. Queue(data, FALSE, k \o pushback') /\ Accounts(k, data, FALSE) BY <1>1, <1>2, <1>3
<1> QED BY <1>1, <1>2, <1>4, QueueLoses

LEMMA FrameByteLoses ==
  ASSUME LostInv, ReadFrameByte PROVE NothingLost'
<1> DEFINE d == Append(data, char)
<1>1. FrameInv /\ TypeOK /\ PartialOK /\ Take /\ alive /\ (is_hmtl \/ (char = STARTCODE /\ data = <<>>))
  BY DEF LostInv, FrameInv, ReadFrameByte, Take
<1>2. /\ data \in Seq(Byte) /\ char \in Byte /\ rest \in Seq(Byte) /\ is_hmtl \in BOOLEAN
  BY <1>1, TakeType DEF TypeOK
<1>3. d \in Seq(Byte) /\ d # <<>> BY <1>2, Appended
<1>4. pushback' \in Seq(Byte) BY <1>1, FrameByteKeeps DEF FrameInv, TypeOK
<1>5. d[1] = STARTCODE
  <2>1. CASE data = <<>> BY <1>1, <1>2, <2>1 DEF PartialOK
  <2>2. CASE data # <<>>
    <3>1. data[1] = STARTCODE /\ 1 \in 1 .. Len(data) BY <1>1, <1>2, <2>2 DEF PartialOK
    <3> QED BY <1>2, <3>1, Appended
  <2> QED BY <2>1, <2>2
<1>6. PICK k \in Seq(Byte) : /\ Append(k, char) \in Seq(Byte) /\ seen = Append(k, char) \o rest
                             /\ Accounts(k, data, is_hmtl)
  BY <1>1, TakeHolds
<1>7. \E b \in Seq(Byte) : Content(b) = <<>> /\ k = b \o data
  <2>1. CASE is_hmtl
    <3>1. Accounts(k, data, TRUE) BY <1>2, <1>6, <2>1
    <3> QED BY <1>2, <3>1, MessageBegan
  <2>2. CASE ~is_hmtl
    <3>1. data = <<>> /\ Content(k) = <<>> BY <1>1, <1>6, <2>2 DEF Accounts
    <3>2. k = k \o data BY <3>1
    <3> QED BY <3>1, <3>2
  <2> QED BY <2>1, <2>2
<1>8. Accounts(Append(k, char), d, TRUE)
  <2>1. PICK b \in Seq(Byte) : Content(b) = <<>> /\ k = b \o data BY <1>7
  <2>2. Append(k, char) = b \o d
    <3> DEFINE c == char
               t == data
    <3>1. c \in Byte /\ t \in Seq(Byte) BY <1>2
    <3> HIDE DEF c, t
    <3>2. Append(b \o t, c) = b \o Append(t, c) BY <3>1
    <3> QED BY <2>1, <3>2 DEF c, t
  <2>3. Accounts(b \o d, d, TRUE)
    <3> HIDE DEF d
    <3> QED BY <1>3, <2>1, MessageAccounts
  <2> QED BY <2>2, <2>3
<1> HIDE DEF d
<1>9. CASE Len(d) = HdrLen /\ ~ValidHeader(d)
  <2>1. pushback' = Rescan(d) \o rest /\ Continue(<<>>, FALSE) BY <1>9 DEF ReadFrameByte, d
  <2>2. PICK b \in Seq(Byte) : Append(k, char) = b \o Rescan(d) /\ Accounts(b, <<>>, FALSE)
    BY <1>3, <1>5, <1>6, <1>8, RescanAccounts
  <2>3. Rescan(d) \in Seq(Byte) BY <1>3, Remainder DEF Rescan
  <2>4. seen = b \o pushback'
    <3> DEFINE t == Rescan(d)
               q == rest
    <3>1. t \in Seq(Byte) /\ q \in Seq(Byte) /\ seen = (b \o t) \o q /\ pushback' = t \o q
      BY <1>2, <1>6, <2>1, <2>2, <2>3
    <3> HIDE DEF t, q
    <3>2. (b \o t) \o q = b \o (t \o q) BY <3>1
    <3> QED BY <3>1, <3>2
  <2> QED BY <1>1, <1>4, <2>1, <2>2, <2>4, ContinueLoses
<1>10. CASE ~(Len(d) = HdrLen /\ ~ValidHeader(d))
  <2>1. pushback' = rest BY <1>10 DEF ReadFrameByte, d
  <2>2. CASE FrameComplete(d)
    <3>1. Queue(d, TRUE, seen) BY <1>10, <2>2 DEF ReadFrameByte, d
    <3>2. Queue(d, TRUE, Append(k, char) \o pushback') BY <1>6, <2>1, <3>1
    <3> QED BY <1>1, <1>3, <1>4, <1>6, <1>8, <3>2, QueueLoses
  <2>3. CASE ~FrameComplete(d)
    <3>1. Continue(d, TRUE) BY <1>10, <2>3 DEF ReadFrameByte, d
    <3> QED BY <1>1, <1>3, <1>4, <1>6, <1>8, <2>1, <3>1, ContinueLoses
  <2> QED BY <2>2, <2>3
<1> QED BY <1>9, <1>10

LEMMA TextLoses ==
  ASSUME LostInv, ReadText PROVE NothingLost'
<1>1. FrameInv /\ TypeOK /\ Take /\ alive /\ ~is_hmtl /\ char # STARTCODE /\ pushback' = rest
  BY DEF LostInv, FrameInv, ReadText, Take
<1>2. /\ data \in Seq(Byte) /\ char \in Byte /\ rest \in Seq(Byte) /\ is_hmtl = FALSE
      /\ Append(data, char) \in Seq(Byte)
  BY <1>1, TakeType DEF TypeOK
<1>3. PICK k \in Seq(Byte) : /\ Append(k, char) \in Seq(Byte) /\ seen = Append(k, char) \o pushback'
                             /\ Accounts(k, data, is_hmtl)
  BY <1>1, TakeHolds
<1>4. Content(Append(k, char)) = Keep(data, char)
  BY <1>2, <1>3, ContentAppend DEF Accounts
<1>5. pushback' \in Seq(Byte) BY <1>1, <1>2
<1>6. CASE char = LF
  <2>1. Accounts(Append(k, char), data, FALSE) BY <1>4, <1>6 DEF Accounts, Keep
  <2>2. Queue(data, FALSE, Append(k, char) \o pushback') BY <1>3, <1>6 DEF ReadText
  <2> QED BY <1>1, <1>2, <1>3, <1>5, <2>1, <2>2, QueueLoses
<1>7. CASE char = CR
  <2>1. Accounts(Append(k, char), data, FALSE) BY <1>4, <1>7 DEF Accounts, Keep
  <2>2. char # LF BY <1>7 DEF CR, LF
  <2>3. Continue(IF char = CR THEN data ELSE Append(data, char), FALSE) BY <2>2 DEF ReadText
  <2>4. Continue(data, FALSE) BY <1>7, <2>3
  <2> QED BY <1>1, <1>3, <1>5, <2>1, <2>4, ContinueLoses
<1>8. CASE char # LF /\ char # CR
  <2>1. Accounts(Append(k, char), Append(data, char), FALSE) BY <1>1, <1>4, <1>8 DEF Accounts, Keep
  <2>2. Continue(Append(data, char), FALSE) BY <1>8 DEF ReadText
  <2> QED BY <1>1, <1>2, <1>3, <1>5, <2>1, <2>2, ContinueLoses
<1> QED BY <1>6, <1>7, <1>8

LEMMA EmptyReadLoses ==
  ASSUME LostInv, EmptyRead PROVE NothingLost'
<1>1. FrameInv /\ TypeOK /\ PartialOK /\ alive /\ pushback = <<>>
  BY DEF LostInv, FrameInv, EmptyRead
<1>2. data \in Seq(Byte) /\ read \in Seq(Byte) /\ is_hmtl \in BOOLEAN BY <1>1 DEF TypeOK
<1>3. pushback' \in Seq(Byte) BY <1>1, EmptyReadKeeps DEF FrameInv, TypeOK
<1>4. Accounts(read, data, is_hmtl)
  <2>1. Holding(read, data, is_hmtl, pushback) BY <1>1 DEF LostInv, NothingLost, Holding
  <2>2. PICK k \in Seq(Byte) : read = k \o pushback /\ Accounts(k, data, is_hmtl) BY <1>2, <2>1, Holds
  <2>3. read = k BY <1>1, <2>2
  <2> QED BY <2>2, <2>3
<1>5. item # NULL => Accounts(of, item.data, item.is_hmtl) BY <1>1 DEF LostInv, NothingLost
<1>6. CASE Waits(data, is_hmtl) /\ GivesUp(empty_reads + 1)
  <2>1. /\ pushback' = Rescan(data) /\ data' = <<>> /\ is_hmtl' = FALSE
        /\ UNCHANGED <<item, of, read>>
    BY <1>6 DEF EmptyRead
  <2>2. data # <<>> /\ data[1] = STARTCODE /\ Accounts(read, data, TRUE)
    BY <1>1, <1>2, <1>4, <1>6 DEF PartialOK, Waits
  <2>3. PICK k \in Seq(Byte) : read = k \o Rescan(data) /\ Accounts(k, <<>>, FALSE)
    BY <1>2, <2>2, RescanAccounts
  <2>4. Holding(k \o pushback', <<>>, FALSE, pushback') BY <1>3, <2>3, Held
  <2>5. Holding(read', <<>>, FALSE, pushback') BY <2>1, <2>3, <2>4
  <2> QED BY <1>5, <2>1, <2>5 DEF NothingLost, Holding
<1>7. CASE Waits(data, is_hmtl) /\ ~GivesUp(empty_reads + 1)
  <2>1. UNCHANGED <<pushback, data, is_hmtl, item, of, alive, read>> BY <1>7 DEF EmptyRead
  <2> QED BY <2>1 DEF LostInv, NothingLost
<1>8. CASE ~Waits(data, is_hmtl)
  <2>1. Queue(data, is_hmtl, read) /\ pushback' = <<>> BY <1>1, <1>8 DEF EmptyRead
  <2>2. read = read \o pushback' BY <1>2, <2>1
  <2>3. Queue(data, is_hmtl, read \o pushback') BY <2>1, <2>2
  <2>4. is_hmtl => data # <<>> BY <1>1 DEF PartialOK
  <2> QED BY <1>1, <1>2, <1>3, <1>4, <2>3, <2>4, QueueLoses
<1> QED BY <1>6, <1>7, <1>8

LEMMA InitLoses == Init => LostInv
<1> SUFFICES ASSUME Init PROVE NothingLost BY InitFrame DEF LostInv
<1>1. <<>> \in Seq(Byte) /\ <<>> \o <<>> = <<>> /\ Accounts(<<>>, <<>>, FALSE)
  BY ContentEmpty DEF Accounts
<1>2. Holding(<<>> \o <<>>, <<>>, FALSE, <<>>) BY <1>1, Held
<1>3. Holding(<<>>, <<>>, FALSE, <<>>) BY <1>1, <1>2
<1> QED BY <1>3 DEF Init, NothingLost, Holding

LEMMA StepLoses ==
  ASSUME LostInv, [Next]_vars PROVE LostInv'
<1>1. FrameInv' BY StepKeeps DEF LostInv
<1>2. NothingLost'
  <2>1. CASE SendLine \/ SendFrame \/ SendNoise \/ UNCHANGED vars
    <3>1. UNCHANGED <<alive, read, of, item, data, is_hmtl, pushback>>
      BY <2>1 DEF SendLine, SendFrame, SendNoise, Send, vars
    <3> QED BY <3>1 DEF LostInv, NothingLost
  <2>2. CASE ReadStartAfterText BY <2>2, StartAfterTextLoses
  <2>3. CASE ReadFrameByte BY <2>3, FrameByteLoses
  <2>4. CASE ReadText BY <2>4, TextLoses
  <2>5. CASE EmptyRead BY <2>5, EmptyReadLoses
  <2>6. CASE ReaderDies BY <2>6 DEF ReaderDies, NothingLost
  <2> QED BY <2>1, <2>2, <2>3, <2>4, <2>5, <2>6 DEF Next, Reader
<1> QED BY <1>1, <1>2 DEF LostInv

(* Every byte read is queued, kept or scanned again, in order: those of a   *)
(* message one by one, those of a line but its end and start codes that     *)
(* began no message. Nothing is lost or doubled when bytes are pushed back  *)
(* (_read_unit, _rewind).                                                   *)
THEOREM NothingLostCorrect == Spec => []NothingLost
<1>1. LostInv => NothingLost BY DEF LostInv
<1>2. Spec => []LostInv BY InitLoses, StepLoses, PTL DEF Spec
<1> QED BY <1>1, <1>2, PTL
=============================================================================
