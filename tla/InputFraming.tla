---------------------------- MODULE InputFraming ----------------------------
(***************************************************************************)
(* The thread that cuts what a module sends into lines of text and HMTL    *)
(* messages (InputBuffer.py), byte by byte, over a serial port, a socket   *)
(* or standard input. A read may come back empty between any two bytes.    *)
(* Bytes taken for a message that turn out to be none are pushed back,     *)
(* without the first, and scanned again. The header is shortened to start  *)
(* code, version and length.                                               *)
(***************************************************************************)
EXTENDS Integers, Sequences

CONSTANTS
  Lines, Frames, Noise,      \* what a module may send at once
  MaxSent,                   \* bound on how often it does
  MAX_PARTIAL_FRAME_READS,   \* empty reads to ride out inside a message
  Patience,                  \* empty reads a whole message must survive
  NULL

STARTCODE == 252
PROTOCOL_VERSION == 2
HdrLen == 3
CR == 13
LF == 10
Byte == 0 .. 255

ASSUME FramingAssumption ==
  /\ Lines \subseteq Seq(Byte) /\ Frames \subseteq Seq(Byte) /\ Noise \subseteq Seq(Byte)
  /\ MaxSent \in Nat /\ MAX_PARTIAL_FRAME_READS \in Nat /\ Patience \in Nat

VARIABLES
  source,     \* which subclass reads
  line,       \* bytes on their way
  pushback,   \* _pushback
  data, is_hmtl, empty_reads,   \* of the running _read_item
  item,       \* the last item queued
  alive,      \* the thread has not died of an exception
  sent,       \* how often the module sent something
  due,        \* the item that must come next, or NULL
  count, of,  \* how many items were queued, the bytes the last was cut from
  read        \* the bytes read since, those pushed back among them

vars == <<source, line, pushback, data, is_hmtl, empty_reads, item, alive, sent, due, count, of, read>>

Init ==
  /\ source \in {"serial", "socket", "stdin"}
  /\ line = <<>> /\ pushback = <<>>
  /\ data = <<>> /\ is_hmtl = FALSE /\ empty_reads = 0
  /\ item = NULL /\ alive = TRUE
  /\ sent = 0 /\ due = NULL /\ count = 0 /\ of = <<>> /\ read = <<>>

(* The module sends. What it sends to a reader that is between two items   *)
(* has to arrive as it is.                                                 *)
Idle == line = <<>> /\ pushback = <<>> /\ data = <<>>
Send(chunk, promise) ==
  /\ sent < MaxSent
  /\ sent' = sent + 1
  /\ line' = line \o chunk
  /\ due' = IF Idle THEN promise ELSE due
  /\ UNCHANGED <<source, pushback, data, is_hmtl, empty_reads, item, alive, count, of, read>>
SendLine == \E text \in Lines : Send(text \o <<CR, LF>>, [data |-> text, is_hmtl |-> FALSE])
SendFrame == \E frame \in Frames : Send(frame, [data |-> frame, is_hmtl |-> TRUE])
SendNoise == \E noise \in Noise : Send(noise, NULL)
-----------------------------------------------------------------------------
(* _read_unit: a byte pushed back, else the next one. Text from standard   *)
(* input cannot be appended to bytes.                                      *)
HasUnit == pushback # <<>> \/ line # <<>>
char == IF pushback # <<>> THEN Head(pushback) ELSE Head(line)
rest == IF pushback # <<>> THEN Tail(pushback) ELSE <<>>
seen == IF pushback # <<>> THEN read ELSE Append(read, char)
Take ==
  /\ alive /\ source # "stdin" /\ HasUnit
  /\ line' = IF pushback # <<>> THEN line ELSE Tail(line)
  /\ UNCHANGED <<source, sent>>

(* The end of _read_item: what it has is queued, if it has anything.       *)
(* InputItem parses the header again, of too few bytes not without an      *)
(* exception.                                                              *)
Queue(d, hmtl, bytes) ==
  /\ data' = <<>> /\ is_hmtl' = FALSE /\ empty_reads' = 0
  /\ IF d = <<>> THEN read' = bytes /\ UNCHANGED <<item, of, count, due, alive>>
     ELSE IF hmtl /\ Len(d) < HdrLen
     THEN alive' = FALSE /\ read' = bytes /\ UNCHANGED <<item, of, count, due>>
     ELSE /\ item' = [data |-> d, is_hmtl |-> hmtl] /\ count' = count + 1 /\ due' = NULL
          /\ of' = SubSeq(bytes, 1, Len(bytes) - Len(pushback')) /\ read' = pushback'
          /\ UNCHANGED alive
Continue(d, hmtl) ==
  /\ data' = d /\ is_hmtl' = hmtl /\ empty_reads' = 0 /\ read' = seen
  /\ UNCHANGED <<item, of, count, due, alive>>

ValidHeader(d) == d[2] = PROTOCOL_VERSION /\ HdrLen <= d[3]
ByteTooLong(d) == Len(d) >= HdrLen /\ Len(d) > d[3]
FrameComplete(d) == Len(d) >= HdrLen /\ Len(d) >= d[3]
(* What is scanned again of bytes that were no message.                    *)
FromTheFirst(d) == d
AfterTheHeader(d) == IF Len(d) > 2 THEN SubSeq(d, 4, Len(d)) ELSE Tail(d)
Rescan(d) == Tail(d)

(* A start code straight after unterminated text.                          *)
ReadStartAfterText ==
  /\ Take /\ ~is_hmtl /\ char = STARTCODE /\ data # <<>>
  /\ pushback' = <<char>> \o rest
  /\ Queue(data, FALSE, seen)

ReadFrameByte ==
  LET d == Append(data, char) IN
  /\ Take
  /\ is_hmtl \/ (char = STARTCODE /\ data = <<>>)
  /\ IF Len(d) = HdrLen /\ ~ValidHeader(d)
     THEN pushback' = Rescan(d) \o rest /\ Continue(<<>>, FALSE)
     ELSE pushback' = rest /\ IF FrameComplete(d) THEN Queue(d, TRUE, seen) ELSE Continue(d, TRUE)

ReadText ==
  /\ Take /\ ~is_hmtl /\ char # STARTCODE
  /\ pushback' = rest
  /\ IF char = LF THEN Queue(data, FALSE, seen)
     ELSE Continue(IF char = CR THEN data ELSE Append(data, char), FALSE)

(* An empty read: the end of unterminated text, or a gap in a message.     *)
GivesUpAtOnce(reads) == TRUE
GivesUp(reads) == reads > MAX_PARTIAL_FRAME_READS
NeverWaits(d, hmtl) == FALSE
Waits(d, hmtl) == hmtl /\ ~FrameComplete(d)
(* A message with a longer gap than that is promised nothing.              *)
EmptyRead ==
  /\ alive /\ source = "serial" /\ pushback = <<>>
  /\ IF Waits(data, is_hmtl)
     THEN IF GivesUp(empty_reads + 1)
          THEN /\ pushback' = Rescan(data)
               /\ data' = <<>> /\ is_hmtl' = FALSE /\ empty_reads' = 0
               /\ due' = IF empty_reads + 1 > Patience THEN NULL ELSE due
               /\ UNCHANGED <<item, of, count, read, alive>>
          ELSE /\ empty_reads' = empty_reads + 1
               /\ UNCHANGED <<pushback, data, is_hmtl, item, of, count, read, due, alive>>
     ELSE UNCHANGED pushback /\ Queue(data, is_hmtl, read)
  /\ UNCHANGED <<source, line, sent>>

(* recv raises after 30 s of silence; bytes and text do not add up.        *)
ReaderDies ==
  /\ alive
  /\ \/ source = "socket" /\ pushback = <<>>
     \/ source = "stdin" /\ HasUnit
  /\ alive' = FALSE
  /\ UNCHANGED <<source, line, pushback, data, is_hmtl, empty_reads, item, sent, due, count, of, read>>

Reader == ReadStartAfterText \/ ReadFrameByte \/ ReadText \/ EmptyRead \/ ReaderDies
Next == SendLine \/ SendFrame \/ SendNoise \/ Reader
Spec == Init /\ [][Next]_vars
(* The thread runs, and a read ends after its timeout.                     *)
FairSpec == Spec /\ WF_vars(Reader)
-----------------------------------------------------------------------------
TypeOK ==
  /\ source \in {"serial", "socket", "stdin"}
  /\ line \in Seq(Byte) /\ pushback \in Seq(Byte) /\ data \in Seq(Byte)
  /\ is_hmtl \in BOOLEAN /\ alive \in BOOLEAN
  /\ empty_reads \in 0 .. MAX_PARTIAL_FRAME_READS /\ sent \in 0 .. MaxSent
  /\ item = NULL \/ item \in [data : Seq(Byte), is_hmtl : BOOLEAN]
  /\ due = NULL \/ due \in [data : Seq(Byte), is_hmtl : BOOLEAN]
  /\ count \in Nat /\ of \in Seq(Byte) /\ read \in Seq(Byte)

(* What is queued as a message has a valid header and the length that      *)
(* header says, whatever noise came before it (InputBuffer.py:109-132).    *)
FramesAreFrames ==
  item # NULL =>
    (item.is_hmtl =>
       /\ Len(item.data) >= HdrLen /\ item.data[1] = STARTCODE
       /\ ValidHeader(item.data) /\ Len(item.data) = item.data[3])

(* No bytes from a serial port end the thread (InputBuffer.py:172-181).    *)
SerialReaderLives == source = "serial" => alive

(* No byte is lost, doubled or overtaken: what was read since the last     *)
(* item is what the reader has begun and then what it has pushed back. A   *)
(* message is the last of the bytes it was cut from, every one of them as  *)
(* it was sent. Text gives up only line ends and start codes that began no *)
(* message, and only these are passed over before a message.               *)
Keep(kept, byte) == IF byte \in {STARTCODE, CR, LF} THEN kept ELSE Append(kept, byte)
Content(s) ==
  LET kept[i \in 0 .. Len(s)] == IF i = 0 THEN <<>> ELSE Keep(kept[i - 1], s[i])
  IN  kept[Len(s)]
Accounts(s, d, hmtl) ==
  IF hmtl THEN \E n \in 0 .. Len(s) : s = SubSeq(s, 1, n) \o d /\ Content(SubSeq(s, 1, n)) = <<>>
  ELSE Content(s) = d
NothingLost ==
  alive =>
    /\ \E n \in 0 .. Len(read) : /\ read = SubSeq(read, 1, n) \o pushback
                                  /\ Accounts(SubSeq(read, 1, n), data, is_hmtl)
    /\ item # NULL => Accounts(of, item.data, item.is_hmtl)

(* What a module sends that is no noise: text on its lines, and messages   *)
(* with the length their header says. Patience is what the code promises.  *)
Deliverable ==
  /\ \A text \in Lines : text # <<>> /\ \A i \in 1 .. Len(text) : text[i] \notin {STARTCODE, CR, LF}
  /\ \A frame \in Frames : /\ Len(frame) >= HdrLen /\ frame[1] = STARTCODE
                            /\ ValidHeader(frame) /\ Len(frame) = frame[3]
  /\ Patience <= MAX_PARTIAL_FRAME_READS

(* A message is the next item whatever gaps it has that the reader should  *)
(* wait out (InputBuffer.py:163-171); a line is unless an empty read cuts  *)
(* it in two.                                                              *)
NextItemIsDue == [][count' # count /\ due # NULL => item' = due \/ (~due.is_hmtl /\ line' = line)]_vars

(* Once the module is silent the reader gets rid of everything it has: it  *)
(* neither scans the same bytes for ever nor waits for a body that does    *)
(* not come (InputBuffer.py:183-186).                                      *)
ReaderSettles == source = "serial" => <>[](Idle /\ ~is_hmtl)
=============================================================================
