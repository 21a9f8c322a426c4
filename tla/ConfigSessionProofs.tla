------------------------- MODULE ConfigSessionProofs -------------------------
(***************************************************************************)
(* For any files, addresses, faults and number of sessions: the state has  *)
(* its types and a write finds every output it follows (Inv); what is      *)
(* stored is valid (StoreInv), what was reported as written is stored      *)
(* (WroteInv), and nothing correct is refused without a reason (FreshInv). *)
(* Each invariant strengthens the one before. In between: what FlattenSeq  *)
(* and Chain compute, what the records in EEPROM are while a write runs,   *)
(* and which command a job sends when.                                     *)
(***************************************************************************)
EXTENDS ConfigSession, SequenceTheorems, FiniteSetTheorems, WellFoundedInduction, TLAPS
-----------------------------------------------------------------------------
(* Induction and recursive functions over the numbers, for sets.           *)
(* Finite sets are well-founded by inclusion, so the sets 1..n have one    *)
(* that is least.                                                          *)
LEMMA LeastNat ==
  ASSUME NEW T, T \subseteq Nat, T # {} PROVE \E n \in T : \A m \in T : n <= m
<1> DEFINE I == {1 .. n : n \in T}
           R == StrictSubsetOrdering(Nat)
<1>1. I \subseteq FiniteSubsetsOf(Nat)
  <2> SUFFICES ASSUME NEW n \in T PROVE 1 .. n \in FiniteSubsetsOf(Nat) OBVIOUS
  <2>1. n \in Int /\ 1 \in Int OBVIOUS
  <2>2. IsFiniteSet(1 .. n) BY <2>1, FS_Interval
  <2> QED BY <2>2 DEF FiniteSubsetsOf
<1>2. I # {} OBVIOUS
<1>3. IsWellFoundedOn(R, FiniteSubsetsOf(Nat)) BY FS_StrictSubsetOrderingWellFounded
<1>4. \E x \in I : \A y \in I : <<y, x>> \notin R
  <2> HIDE DEF I, R
  <2> QED BY <1>1, <1>2, <1>3, WFMin
<1>5. PICK n \in T : \A m \in T : <<1 .. m, 1 .. n>> \notin R BY <1>4
<1>6. \A m \in T : n <= m
  <2> SUFFICES ASSUME NEW m \in T, m < n PROVE FALSE OBVIOUS
  <2>1. m \in Nat /\ n \in Nat OBVIOUS
  <2>2. n \in 1 .. n /\ n \notin 1 .. m BY <2>1
  <2>3. 1 .. m \subseteq 1 .. n /\ 1 .. m # 1 .. n BY <2>1, <2>2
  <2>4. 1 .. m \in SUBSET Nat /\ 1 .. n \in SUBSET Nat BY <2>1
  <2> QED BY <1>5, <2>3, <2>4 DEF StrictSubsetOrdering
<1> QED BY <1>6

LEMMA Induction ==
  ASSUME NEW S, 0 \in S, \A n \in Nat : n \in S => n + 1 \in S PROVE Nat \subseteq S
<1> DEFINE T == Nat \ S
<1> SUFFICES ASSUME T # {} PROVE FALSE OBVIOUS
<1>1. T \subseteq Nat OBVIOUS
<1>2. PICK n \in T : \A m \in T : n <= m BY <1>1, LeastNat
<1>3. n # 0 /\ n - 1 \in Nat /\ n - 1 \notin T BY <1>2
<1> QED BY <1>3

(* A function of the numbers from a to b may be defined by its value at a  *)
(* and a step from each number to the next.                                *)
Steps(R, base, step, a, b) == base \in R /\ step \in [Int \X R -> R] /\ a \in Int /\ b \in Int
Recurs(g, base, step, a, b) ==
  \A i \in a .. b : g[i] = IF i = a THEN base ELSE step[<<i, g[i - 1]>>]
LEMMA Recursion ==
  ASSUME NEW R, NEW base, NEW step, NEW a, NEW b, Steps(R, base, step, a, b)
  PROVE  \E g \in [a .. b -> R] : Recurs(g, base, step, a, b)
<1>0. base \in R /\ step \in [Int \X R -> R] /\ a \in Int /\ b \in Int BY DEF Steps
<1> USE <1>0
<1> DEFINE Is(n, g) == \A i \in a .. a + n : g[i] = IF i = a THEN base ELSE step[<<i, g[i - 1]>>]
           S == {n \in Nat : \E g \in [a .. a + n -> R] : Is(n, g)}
<1>1. 0 \in S
  <2>1. Is(0, [i \in a .. a + 0 |-> base]) OBVIOUS
  <2> QED BY <2>1
<1>2. ASSUME NEW n \in Nat, n \in S PROVE n + 1 \in S
  <2>1. PICK g \in [a .. a + n -> R] : Is(n, g) BY <1>2
  <2> DEFINE e == step[<<a + n + 1, g[a + n]>>]
             h == [i \in a .. a + (n + 1) |-> IF i = a + n + 1 THEN e ELSE g[i]]
  <2>2. e \in R
    <3>1. a + n \in a .. a + n /\ a + n + 1 \in Int OBVIOUS
    <3>2. g[a + n] \in R BY <3>1
    <3> QED BY <3>1, <3>2
  <2>3. h \in [a .. a + (n + 1) -> R] BY <2>2
  <2>4. ASSUME NEW i \in a .. a + (n + 1) PROVE h[i] = IF i = a THEN base ELSE step[<<i, h[i - 1]>>]
    <3> HIDE DEF e
    <3>1. CASE i = a + n + 1
      <4>1. h[i] = e /\ i # a /\ i - 1 = a + n BY <3>1
      <4>2. h[i - 1] = g[a + n] BY <4>1
      <4> QED BY <3>1, <4>1, <4>2 DEF e
    <3>2. CASE i # a + n + 1
      <4>1. i \in a .. a + n /\ h[i] = g[i] BY <3>2
      <4>2. g[i] = IF i = a THEN base ELSE step[<<i, g[i - 1]>>] BY <2>1, <4>1
      <4>3. i # a => h[i - 1] = g[i - 1] BY <4>1
      <4> QED BY <4>1, <4>2, <4>3
    <3> QED BY <3>1, <3>2
  <2>5. Is(n + 1, h) BY <2>4
  <2> HIDE DEF Is, h
  <2> QED BY <2>3, <2>5
<1>3. Nat \subseteq S
  <2> HIDE DEF S
  <2> QED BY <1>1, <1>2, Induction
<1>4. CASE b >= a
  <2>1. b - a \in Nat /\ a + (b - a) = b BY <1>4
  <2>2. b - a \in S BY <1>3, <2>1
  <2>3. PICK g \in [a .. a + (b - a) -> R] : Is(b - a, g) BY <2>2
  <2> QED BY <2>1, <2>3 DEF Recurs
<1>5. CASE b < a
  <2>1. a .. b = {} BY <1>5
  <2> DEFINE g == [i \in a .. b |-> base]
  <2>2. Recurs(g, base, step, a, b) BY <2>1 DEF Recurs
  <2>3. g \in [a .. b -> R] OBVIOUS
  <2> QED BY <2>2, <2>3
<1> QED BY <1>4, <1>5
-----------------------------------------------------------------------------

Inv == TypeOK /\ WriteFindsItsOutputs

Sequence(s) == Len(s) \in Nat /\ s = [i \in 1 .. Len(s) |-> s[i]]

LEMMA Concatenation ==
  ASSUME NEW S, NEW s \in Seq(S), NEW t \in Seq(S) PROVE s \o t \in Seq(S)
OBVIOUS
LEMMA Remainder ==
  ASSUME NEW S, NEW s \in Seq(S), s # <<>>
  PROVE  Head(s) \in S /\ Tail(s) \in Seq(S)
OBVIOUS
LEMMA FunctionSeq ==
  ASSUME NEW S, NEW n \in Nat, NEW f \in [1 .. n -> S]
  PROVE  f \in Seq(S) /\ Len(f) = n
OBVIOUS
LEMMA Listed ==
  ASSUME NEW n \in Nat, NEW f, f = [i \in 1 .. n |-> f[i]]
  PROVE  Sequence(f) /\ Len(f) = n
<1> DEFINE S == {f[i] : i \in 1 .. n}
<1>1. f \in [1 .. n -> S] OBVIOUS
<1>2. Len(f) = n BY <1>1, FunctionSeq
<1> QED BY <1>2 DEF Sequence
LEMMA Appended ==
  ASSUME NEW s, Sequence(s), NEW e
  PROVE  Sequence(Append(s, e))
<1> DEFINE S == {s[i] : i \in 1 .. Len(s)} \cup {e}
<1>1. s \in [1 .. Len(s) -> S] /\ Len(s) \in Nat BY DEF Sequence
<1>2. s \in Seq(S) /\ e \in S BY <1>1
<1>3. Append(s, e) \in Seq(S) BY <1>2
<1>4. /\ Append(s, e) \in [1 .. Len(Append(s, e)) -> S] /\ Len(Append(s, e)) \in Nat BY <1>3, LenProperties
<1> QED BY <1>4 DEF Sequence
-----------------------------------------------------------------------------
(* The script sends commands the sketch knows.                              *)
LEMMA SimpleCommands ==
  /\ \A op \in {"start", "end", "read", "write", "garbage"} : Command(op) \in AllCommands
  /\ \A hdr \in Header : [op |-> "header", hdr |-> hdr] \in AllCommands
  /\ \A address \in Nat : [op |-> "address", address |-> address] \in AllCommands
  /\ \A f \in Files : \A i \in DOMAIN f.outputs :
       [op |-> "output", output |-> f.outputs[i]] \in AllCommands
<1>1. \A f \in Files : \A i \in DOMAIN f.outputs : f.outputs[i] \in UNION {Range(g.outputs) : g \in Files}
  BY DEF Range
<1> QED BY <1>1 DEF AllCommands

LEMMA FileType ==
  ASSUME NEW f \in Files
  PROVE  /\ f.address \in Nat /\ f.outputs \in Seq(Output) /\ Len(f.outputs) \in Nat
         /\ DOMAIN f.outputs = 1 .. Len(f.outputs)
         /\ f.version \in Nat /\ f.baud \in Nat /\ f.device_id \in Nat
BY SessionAssumption

(* There is room for the outputs of one file, even of as many as sessions.  *)
LEMMA RoomForFile ==
  ASSUME NEW f \in Files PROVE Len(f.outputs) <= HMTL_MAX_OUTPUTS /\ HeaderOf(f) \in Header
<1>1. MaxSessions * Len(f.outputs) <= HMTL_MAX_OUTPUTS BY SessionAssumption
<1>2. MaxSessions \in Nat /\ MaxSessions >= 1 /\ HMTL_MAX_OUTPUTS \in Nat BY SessionAssumption
<1> DEFINE len == Len(f.outputs)
<1>3. len \in Nat BY FileType
<1>4. len <= HMTL_MAX_OUTPUTS
  <2>1. MaxSessions * len <= HMTL_MAX_OUTPUTS BY <1>1
  <2> HIDE DEF len
  <2>2. len * 1 <= len * MaxSessions BY <1>2, <1>3
  <2> QED BY <1>2, <1>3, <2>1, <2>2
<1>5. len \in 0 .. HMTL_MAX_OUTPUTS BY <1>2, <1>3, <1>4
<1>6. HeaderOf(f) \in Header BY <1>5, FileType DEF HeaderOf, Header
<1> QED BY <1>4, <1>6

LEMMA CommandsType ==
  ASSUME NEW j \in Jobs, NEW write \in BOOLEAN
  PROVE  Commands(j, write) \in Seq(AllCommands)
<1> DEFINE last == IF write /\ ~NoAddress(j) THEN <<Command("write")>> ELSE <<>>
<1>1. last \in Seq(AllCommands) BY SimpleCommands
<1>2. CASE "file" \in DOMAIN j
  <2>1. j.file \in Files
    <3>1. j \in [file : {f \in Files : ValidFile(f)}] BY <1>2 DEF Jobs
    <3> QED BY <3>1
  <2> DEFINE f == j.file
             body == [i \in DOMAIN f.outputs |-> [op |-> "output", output |-> f.outputs[i]]]
  <2>2. body \in Seq(AllCommands)
    <3>1. body \in [1 .. Len(f.outputs) -> AllCommands] BY <2>1, FileType, SimpleCommands
    <3> QED BY <3>1, <2>1, FileType, FunctionSeq
  <2>3. <<Command("start"), [op |-> "header", hdr |-> HeaderOf(f)]>> \in Seq(AllCommands)
    <3>1. Command("start") \in AllCommands BY SimpleCommands
    <3>2. [op |-> "header", hdr |-> HeaderOf(f)] \in AllCommands
      BY <2>1, RoomForFile, SimpleCommands
    <3> HIDE DEF AllCommands, Command
    <3> QED BY <3>1, <3>2
  <2>4. <<Command("end")>> \in Seq(AllCommands) BY SimpleCommands
  <2>5. SendConfiguration(f) \in Seq(AllCommands)
    BY <2>2, <2>3, <2>4, Concatenation DEF SendConfiguration
  <2> QED BY <1>1, <1>2, <2>5, Concatenation DEF Commands
<1>3. CASE "file" \notin DOMAIN j
  <2>1. j \in [address : Addresses] BY <1>3 DEF Jobs
  <2>2. j.address \in Nat BY <2>1, SessionAssumption
  <2>3. SendAddress(j.address) \in Seq(AllCommands) 
    <3>1. [op |-> "address", address |-> j.address] \in AllCommands BY <2>2, SimpleCommands
    <3>2. \A op \in {"start", "end", "read", "write"} : Command(op) \in AllCommands BY SimpleCommands
    <3> HIDE DEF AllCommands, Command
    <3> QED BY <3>1, <3>2 DEF SendAddress
  <2> QED BY <1>1, <1>3, <2>3, Concatenation DEF Commands
<1> QED BY <1>2, <1>3
-----------------------------------------------------------------------------
LEMMA InitInv == Init => Inv
<1> SUFFICES ASSUME Init PROVE Inv OBVIOUS
<1>1. 0 \in 0 .. MaxSessions /\ 0 \in Cells BY SessionAssumption DEF Cells, HeaderSize
<1>2. Sequence(outputs)
  <2>1. outputs \in [1 .. 0 -> {}] BY DEF Init
  <2>2. Len(outputs) = 0 BY DEF Init
  <2> QED BY <2>1, <2>2 DEF Sequence, Init
<1>3. TypeOK BY <1>1, <1>2 DEF Init, TypeOK, Sequence
<1>4. WriteFindsItsOutputs BY DEF Init, WriteFindsItsOutputs
<1> QED BY <1>3, <1>4 DEF Inv

(* Steps of the script leave the sketch alone.                              *)
SketchOK ==
  /\ line \in AllCommands \cup {NULL} /\ partial \in BOOLEAN /\ reply \in {NULL, "ok", "fail"}
  /\ state \in {"NEW", "READY", "DONE", "ERROR"} /\ config_hdr \in Header \cup {NULL}
  /\ Len(outputs) \in Nat /\ outputs = [i \in 1 .. Len(outputs) |-> outputs[i]]
  /\ DOMAIN eeprom = Cells /\ eeprom[0] \in Header \cup {NULL}
  /\ place = NULL \/ place \in [index : Nat, addr : Nat]
  /\ clean \in BOOLEAN /\ torn \in BOOLEAN
ScriptOK ==
  /\ job \in Jobs \cup {NULL} /\ todo \in Seq(AllCommands) /\ waiting \in BOOLEAN
  /\ sessions \in 0 .. MaxSessions
LEMMA Parts == TypeOK <=> ScriptOK /\ SketchOK
BY DEF TypeOK, ScriptOK, SketchOK
LEMMA PartsNext == TypeOK' <=> ScriptOK' /\ SketchOK'
BY DEF TypeOK, ScriptOK, SketchOK

LEMMA ScriptKeeps ==
  ASSUME Inv, Begin \/ Send \/ Confirm \/ End PROVE Inv'
<1> USE DEF Inv
<1>1. ScriptOK /\ SketchOK BY Parts
<1>2. UNCHANGED <<sketch, eeprom, place, torn>> BY DEF Begin, Send, Confirm, End
<1>3. WriteFindsItsOutputs' BY <1>2 DEF WriteFindsItsOutputs, sketch
<1>4. ASSUME ScriptOK', line' \in AllCommands \cup {NULL}, partial' \in BOOLEAN,
             reply' \in {NULL, "ok", "fail"}, clean' \in BOOLEAN
      PROVE  Inv'
  <2>1. SketchOK' BY <1>1, <1>2, <1>4 DEF SketchOK, sketch
  <2> QED BY <1>3, <1>4, <2>1, PartsNext
<1>5. CASE Begin
  <2>1. PICK j \in Jobs, write \in BOOLEAN : job' = j /\ todo' = Commands(j, write) BY <1>5 DEF Begin
  <2>2. todo' \in Seq(AllCommands) BY <2>1, CommandsType
  <2>3. sessions' \in 0 .. MaxSessions BY <1>1, <1>5, SessionAssumption DEF Begin, ScriptOK
  <2>4. ScriptOK' BY <1>1, <1>5, <2>1, <2>2, <2>3 DEF Begin, ScriptOK
  <2>5. clean' \in BOOLEAN BY <1>5 DEF Begin
  <2> QED BY <1>1, <1>4, <1>5, <2>4, <2>5 DEF Begin, SketchOK
<1>6. CASE Send
  <2>1. Head(todo) \in AllCommands BY <1>1, <1>6, Remainder DEF Send, ScriptOK
  <2>2. ScriptOK' BY <1>1, <1>6 DEF Send, ScriptOK
  <2> QED BY <1>1, <1>4, <1>6, <2>1, <2>2 DEF Send, SketchOK
<1>7. CASE Confirm
  <2>1. todo' \in Seq(AllCommands)
    <3>1. CASE todo = <<>> BY <1>7, <3>1 DEF Confirm
    <3>2. CASE todo # <<>> BY <1>1, <1>7, <3>2, Remainder DEF Confirm, ScriptOK
    <3> QED BY <3>1, <3>2
  <2>2. ScriptOK' BY <1>1, <1>7, <2>1 DEF Confirm, ScriptOK
  <2> QED BY <1>1, <1>4, <1>7, <2>2 DEF Confirm, SketchOK
<1>8. CASE End
  <2>0. <<>> \in Seq(AllCommands) OBVIOUS
  <2>1. ScriptOK' BY <1>1, <1>8, <2>0 DEF End, ScriptOK
  <2> QED BY <1>1, <1>4, <1>8, <2>1 DEF End, SketchOK
<1> QED BY <1>5, <1>6, <1>7, <1>8

(* A command that is answered at once: what is left is the configuration.   *)
LEMMA AnswerKeeps ==
  ASSUME Inv, place = NULL, NEW r \in {"ok", "fail"}, Answers(r), Stays,
         state' \in {"NEW", "READY", "DONE", "ERROR"}, config_hdr' \in Header \cup {NULL},
         Sequence(outputs)',
         state' = "DONE" => config_hdr' # NULL /\ config_hdr'.num = Len(outputs')
  PROVE  Inv'
<1>1. ScriptOK /\ SketchOK BY Parts DEF Inv
<1>2. ScriptOK' BY <1>1 DEF ScriptOK, Answers, script
<1>3. SketchOK' BY <1>1 DEF SketchOK, Answers, Stays, Sequence
<1>4. WriteFindsItsOutputs' BY DEF WriteFindsItsOutputs, Stays
<1> QED BY <1>2, <1>3, <1>4, PartsNext DEF Inv

LEMMA FailKeeps ==
  ASSUME Inv, place = NULL, Fails, config_hdr' \in Header \cup {NULL}, Sequence(outputs)'
  PROVE  Inv'
BY AnswerKeeps DEF Fails, Stays

LEMMA Facts ==
  ASSUME Inv
  PROVE  /\ ScriptOK /\ SketchOK
         /\ state \in {"NEW", "READY", "DONE", "ERROR"} /\ config_hdr \in Header \cup {NULL}
         /\ Sequence(outputs) /\ eeprom[0] \in Header \cup {NULL}
         /\ line \in AllCommands \cup {NULL}
         /\ state = "DONE" => config_hdr # NULL /\ config_hdr.num = Len(outputs)
BY Parts DEF Inv, SketchOK, Sequence, WriteFindsItsOutputs

LEMMA StartKeeps == ASSUME Inv, HandleStart PROVE Inv'
<1>1. place = NULL /\ Answers("ok") /\ Stays /\ state' = "READY" /\ UNCHANGED <<config_hdr, outputs>>
  BY DEF HandleStart, Takes, Acks
<1> QED BY <1>1, Facts, AnswerKeeps DEF Sequence

LEMMA HeaderKeeps == ASSUME Inv, HandleHeader PROVE Inv'
<1>1. place = NULL /\ line # NULL /\ line.op = "header" BY DEF HandleHeader, Takes
<1>2. CASE state = "READY" /\ ValidHeader(line.hdr)
  <2>1. /\ config_hdr' = line.hdr
        /\ Answers("ok") /\ Stays /\ UNCHANGED <<state, outputs>>
    BY <1>2 DEF HandleHeader, Acks
  <2>2. line \in [op : {"header"}, hdr : Header]
    BY <1>1, Facts DEF AllCommands, Command
  <2>3. config_hdr' \in Header BY <2>1, <2>2
  <2> QED BY <1>1, <1>2, <2>1, <2>3, Facts, AnswerKeeps DEF Sequence
<1>3. CASE ~(state = "READY" /\ ValidHeader(line.hdr))
  <2>1. Fails /\ UNCHANGED <<config_hdr, outputs>> BY <1>3 DEF HandleHeader
  <2> QED BY <1>1, <2>1, Facts, FailKeeps DEF Sequence
<1> QED BY <1>2, <1>3

LEMMA AddressKeeps == ASSUME Inv, HandleAddress PROVE Inv'
<1>1. place = NULL /\ line # NULL /\ line.op = "address" BY DEF HandleAddress, Takes
<1>2. CASE state = "READY"
  <2>1. /\ config_hdr' = IF config_hdr = NULL THEN NULL ELSE [config_hdr EXCEPT !.address = line.address]
        /\ Answers("ok") /\ Stays /\ UNCHANGED <<state, outputs>>
    BY <1>2 DEF HandleAddress, Acks
  <2>2. line \in [op : {"address"}, address : Nat]
    BY <1>1, Facts DEF AllCommands, Command
  <2>3. config_hdr' \in Header \cup {NULL} BY <2>1, <2>2, Facts DEF Header
  <2> QED BY <1>1, <1>2, <2>1, <2>3, Facts, AnswerKeeps DEF Sequence
<1>3. CASE state # "READY"
  <2>1. Fails /\ UNCHANGED <<config_hdr, outputs>> BY <1>3 DEF HandleAddress
  <2> QED BY <1>1, <2>1, Facts, FailKeeps DEF Sequence
<1> QED BY <1>2, <1>3

LEMMA OutputKeeps == ASSUME Inv, HandleOutput PROVE Inv'
<1>1. place = NULL BY DEF HandleOutput, Takes
<1> DEFINE accepted == state = "READY" /\ (ValidOutput(line.output) \/ line.output.type = "mpr121")
<1>2. CASE accepted
  <2>1. /\ outputs' = IF ValidOutput(line.output) THEN Append(outputs, line.output) ELSE outputs
        /\ Answers("ok") /\ Stays /\ UNCHANGED <<state, config_hdr>>
    BY <1>2 DEF HandleOutput, Acks
  <2>2. Sequence(outputs)'
    <3>1. Sequence(Append(outputs, line.output)) BY Facts, Appended
    <3> QED BY <2>1, <3>1, Facts DEF Sequence
  <2> QED BY <1>1, <1>2, <2>1, <2>2, Facts, AnswerKeeps
<1>3. CASE ~accepted
  <2>1. Fails /\ UNCHANGED <<config_hdr, outputs>> BY <1>3 DEF HandleOutput
  <2> QED BY <1>1, <2>1, Facts, FailKeeps DEF Sequence
<1> QED BY <1>2, <1>3

(* "end" makes the configuration one that may be written.                   *)
LEMMA EndKeeps == ASSUME Inv, HandleEnd PROVE Inv'
<1>1. place = NULL /\ UNCHANGED <<config_hdr, outputs>> BY DEF HandleEnd, Takes
<1>2. CASE state = "READY" /\ ValidConfig(config_hdr, outputs)
  <2>1. state' = "DONE" /\ Answers("ok") /\ Stays BY <1>2 DEF HandleEnd, Acks
  <2>2. config_hdr # NULL /\ config_hdr.num = Len(outputs) BY <1>2 DEF ValidConfig, ValidEach, ValidHeader
  <2> QED BY <1>1, <2>1, <2>2, Facts, AnswerKeeps DEF Sequence
<1>3. CASE ~(state = "READY" /\ ValidConfig(config_hdr, outputs))
  <2>1. Fails BY <1>3 DEF HandleEnd
  <2> QED BY <1>1, <2>1, Facts, FailKeeps DEF Sequence
<1> QED BY <1>2, <1>3

(* "read" replaces header and outputs together, also of what may be written.*)
LEMMA ReadKeeps == ASSUME Inv, HandleRead PROVE Inv'
<1>1. place = NULL BY DEF HandleRead, Takes
<1>2. CASE Readable(eeprom)
  <2>1. /\ config_hdr' = eeprom[0] /\ outputs' = Stored(eeprom).outputs
        /\ Answers("ok") /\ Stays /\ UNCHANGED state
    BY <1>2 DEF HandleRead, Acks
  <2>2. eeprom[0] # NULL BY <1>2 DEF Readable, HasHeader
  <2>3. eeprom[0].num \in Nat BY <2>2, Facts DEF Header
  <2>4. outputs' = [i \in 1 .. eeprom[0].num |-> eeprom[Chain(eeprom, eeprom[0].num)[i]]]
    BY <1>2, <2>1 DEF Stored
  <2>5. outputs' = [i \in 1 .. eeprom[0].num |-> outputs'[i]] BY <2>4
  <2>6. Sequence(outputs)' /\ Len(outputs') = eeprom[0].num
    BY <2>3, <2>5, Listed DEF Sequence
  <2> QED BY <1>1, <2>1, <2>2, <2>6, Facts, AnswerKeeps
<1>3. CASE ~Readable(eeprom)
  <2>1. Fails /\ (config_hdr' = config_hdr \/ config_hdr' = eeprom[0]) BY <1>3 DEF HandleRead
  <2>2. PICK f : outputs' = [i \in DOMAIN outputs |-> f[i]]
    <3> DEFINE g == [i \in DOMAIN outputs |->
                        IF HasHeader(eeprom) /\ i <= eeprom[0].num
                           /\ Chain(eeprom, eeprom[0].num)[i + 1] # -1
                        THEN eeprom[Chain(eeprom, eeprom[0].num)[i]]
                        ELSE [type |-> "none", pins |-> <<>>]]
    <3>1. outputs' = g BY <1>3 DEF HandleRead
    <3>2. g = [i \in DOMAIN outputs |-> g[i]] OBVIOUS
    <3> QED BY <3>1, <3>2
  <2>3. DOMAIN outputs = 1 .. Len(outputs) /\ Len(outputs) \in Nat BY Facts DEF Sequence
  <2>4. outputs' = [i \in 1 .. Len(outputs) |-> outputs'[i]] BY <2>2, <2>3
  <2>5. Sequence(outputs)' BY <2>3, <2>4, Listed DEF Sequence
  <2> QED BY <1>1, <2>1, <2>5, Facts, FailKeeps
<1> QED BY <1>2, <1>3

(* A write makes the header one of the sketch's own version, and changes    *)
(* nothing else of it.                                                      *)
LEMMA StampedHeader ==
  ASSUME NEW hdr \in Header
  PROVE  /\ Stamped(hdr) \in Header /\ Stamped(hdr) # NULL /\ hdr # NULL
         /\ Stamped(hdr).version = CONFIG_VERSION
         /\ Stamped(hdr).num = hdr.num /\ Stamped(hdr).address = hdr.address
         /\ hdr.version = CONFIG_VERSION => Stamped(hdr) = hdr
         /\ Stamped(Stamped(hdr)) = Stamped(hdr)
         /\ ValidHeader(Stamped(hdr))
<1>1. hdr.num \in 0 .. HMTL_MAX_OUTPUTS BY DEF Header
<1>2. Stamped(hdr) \in Header BY DEF Stamped, Header, CONFIG_VERSION
<1>3. Stamped(hdr) # NULL /\ hdr # NULL BY <1>2, NullAssumption
<1>4. /\ Stamped(hdr).version = 3 /\ Stamped(hdr).num = hdr.num /\ Stamped(hdr).address = hdr.address
  BY DEF Stamped, Header, CONFIG_VERSION
<1>5. hdr.version = 3 => Stamped(hdr) = hdr BY DEF Stamped, Header, CONFIG_VERSION
<1>7. Stamped(Stamped(hdr)) = Stamped(hdr) BY DEF Stamped, Header, CONFIG_VERSION
<1>6. Count(Stamped(hdr)) <= HMTL_MAX_OUTPUTS BY <1>1, <1>4, SessionAssumption DEF Count
<1> QED BY <1>2, <1>3, <1>4, <1>5, <1>6, <1>7 DEF CONFIG_VERSION, ValidHeader

LEMMA WriteKeeps == ASSUME Inv, HandleWrite PROVE Inv'
<1>1. place = NULL BY DEF HandleWrite, Takes
<1>2. CASE state = "DONE" /\ Sizable(outputs)
  <2>1. /\ place' = [index |-> 0, addr |-> 0] /\ line' = NULL /\ config_hdr' = Stamped(config_hdr)
        /\ UNCHANGED <<script, state, outputs, partial, reply, eeprom, clean, torn>>
    BY <1>2 DEF HandleWrite
  <2>2. ScriptOK' BY <2>1, Facts DEF ScriptOK, script
  <2>4. config_hdr # NULL /\ config_hdr \in Header /\ config_hdr.num \in Nat
    BY <1>2, Facts DEF Header
  <2>6. config_hdr' \in Header /\ config_hdr'.num = config_hdr.num /\ config_hdr' # NULL
    BY <2>1, <2>4, StampedHeader
  <2>3. SketchOK' BY <2>1, <2>6, Facts DEF SketchOK
  <2>5. WriteFindsItsOutputs' BY <1>2, <2>1, <2>4, <2>6, Facts DEF WriteFindsItsOutputs
  <2> QED BY <2>2, <2>3, <2>5, PartsNext DEF Inv
<1>3. CASE ~(state = "DONE" /\ Sizable(outputs))
  <2>1. Fails /\ UNCHANGED <<config_hdr, outputs>> BY <1>3 DEF HandleWrite
  <2> QED BY <1>1, <2>1, Facts, FailKeeps DEF Sequence
<1> QED BY <1>2, <1>3

(* The header is only ever written as the first record.                     *)
LEMMA StoresType ==
  ASSUME NEW mem, mem[0] \in Header \cup {NULL}, NEW at \in Nat, NEW size, NEW record,
         at = 0 => record \in Header \cup {NULL}
  PROVE  /\ DOMAIN Stores(mem, at, size, record) = Cells
         /\ Stores(mem, at, size, record)[0] \in Header \cup {NULL}
<1>1. 0 \in Cells BY SessionAssumption DEF Cells, HeaderSize
<1> QED BY <1>1 DEF Stores

LEMMA RecordKeeps == ASSUME Inv, WriteRecord PROVE Inv'
<1>1. /\ place # NULL /\ place \in [index : Nat, addr : Nat] /\ state = "DONE"
      /\ place.index \in Nat /\ place.addr \in Nat
      /\ place.index <= config_hdr.num /\ (place.addr = 0 <=> place.index = 0)
  BY Facts DEF WriteRecord, Inv, WriteFindsItsOutputs, SketchOK
<1>2. config_hdr # NULL /\ config_hdr.num \in Nat /\ config_hdr.num = Len(outputs)
  BY <1>1, Facts DEF Header
<1>3. UNCHANGED <<script, sketch, line, partial, clean>> BY DEF WriteRecord
<1>4. ScriptOK' BY <1>3, Facts DEF ScriptOK, script
<1>5. DOMAIN eeprom' = Cells /\ eeprom'[0] \in Header \cup {NULL}
  <2>1. place.addr = 0 => Record(place.index) \in Header \cup {NULL} BY <1>1, Facts DEF Record
  <2>2. eeprom' = Stores(eeprom, place.addr, RecordSize(place.index), Record(place.index))
    BY DEF WriteRecord
  <2> QED BY <1>1, <2>1, <2>2, Facts, StoresType
<1>6. CASE place.index = config_hdr.num
  <2>1. place' = NULL /\ reply' = "ok" /\ torn' = FALSE BY <1>6 DEF WriteRecord
  <2>2. SketchOK' BY <1>3, <1>5, <2>1, Facts DEF SketchOK, sketch
  <2>3. WriteFindsItsOutputs' BY <1>1, <1>2, <1>3, <2>1 DEF WriteFindsItsOutputs, sketch
  <2> QED BY <1>4, <2>2, <2>3, PartsNext DEF Inv
<1>7. CASE place.index # config_hdr.num
  <2>1. /\ place' = [index |-> place.index + 1, addr |-> place.addr + RecordSize(place.index)]
        /\ UNCHANGED <<reply, torn>>
    BY <1>7 DEF WriteRecord
  <2>2. RecordSize(place.index) \in {1, 2} BY DEF RecordSize, HeaderSize, OutputSize
  <2>3. place' \in [index : Nat, addr : Nat] BY <1>1, <2>1, <2>2
  <2>4. SketchOK' BY <1>3, <1>5, <2>1, <2>3, Facts DEF SketchOK, sketch
  <2>5. /\ place'.index <= config_hdr.num /\ place'.index # 0 /\ place'.addr # 0
    BY <1>1, <1>2, <1>7, <2>1, <2>2
  <2>6. WriteFindsItsOutputs' BY <1>1, <1>2, <1>3, <2>5 DEF WriteFindsItsOutputs, sketch
  <2> QED BY <1>4, <2>4, <2>6, PartsNext DEF Inv
<1> QED BY <1>6, <1>7

LEMMA GarbageKeeps == ASSUME Inv, HandleGarbage PROVE Inv'
<1>1. ScriptOK' BY Facts DEF HandleGarbage, ScriptOK, script
<1>2. SketchOK' BY Facts DEF HandleGarbage, SketchOK
<1>3. WriteFindsItsOutputs' BY DEF HandleGarbage, WriteFindsItsOutputs
<1> QED BY <1>1, <1>2, <1>3, PartsNext DEF Inv

LEMMA LossKeeps == ASSUME Inv, LoseBytes \/ LoseReply PROVE Inv'
<1>1. ScriptOK' BY Facts DEF LoseBytes, LoseReply, ScriptOK, script
<1>2. Command("garbage") \in AllCommands BY SimpleCommands
<1>3. UNCHANGED <<sketch, eeprom, place, torn>> BY DEF LoseBytes, LoseReply
<1>4. /\ line' \in AllCommands \cup {NULL} /\ partial' \in BOOLEAN
      /\ reply' \in {NULL, "ok", "fail"} /\ clean' \in BOOLEAN
  BY <1>2, Facts DEF LoseBytes, LoseReply, SketchOK
<1>5. SketchOK' BY <1>3, <1>4, Facts DEF SketchOK, sketch
<1>6. WriteFindsItsOutputs' BY <1>3, Facts DEF Inv, WriteFindsItsOutputs, sketch
<1> QED BY <1>1, <1>5, <1>6, PartsNext DEF Inv

LEMMA ResetKeeps == ASSUME Inv, Reset PROVE Inv'
<1>1. ScriptOK' BY Facts DEF Reset, ScriptOK, script
<1>2. DOMAIN eeprom' = Cells /\ eeprom'[0] \in Header \cup {NULL}
  <2>1. CASE UNCHANGED eeprom BY <2>1, Facts DEF SketchOK
  <2>2. CASE place # NULL /\ eeprom' = Stores(eeprom, place.addr, RecordSize(place.index), NULL)
    <3>1. place.addr \in Nat BY <2>2, Facts DEF SketchOK
    <3> QED BY <2>2, <3>1, Facts, StoresType
  <2> QED BY <2>1, <2>2 DEF Reset
<1>3. Sequence(outputs)'
  <2>1. outputs' = <<>> BY DEF Reset
  <2>2. <<>> = [i \in 1 .. 0 |-> <<>>[i]] OBVIOUS
  <2> QED BY <2>1, <2>2 DEF Sequence
<1>4. SketchOK' BY <1>2, <1>3, Facts DEF Reset, SketchOK, Sequence
<1>5. WriteFindsItsOutputs' BY DEF Reset, WriteFindsItsOutputs
<1> QED BY <1>1, <1>4, <1>5, PartsNext DEF Inv

LEMMA StepInv == ASSUME Inv, [Next]_vars PROVE Inv'
<1>1. CASE Begin \/ Send \/ Confirm \/ End BY <1>1, ScriptKeeps
<1>2. CASE Sketch
  BY <1>2, StartKeeps, HeaderKeeps, AddressKeeps, OutputKeeps, EndKeeps, ReadKeeps, WriteKeeps,
     RecordKeeps, GarbageKeeps DEF Sketch
<1>3. CASE LoseBytes \/ LoseReply BY <1>3, LossKeeps
<1>4. CASE Reset BY <1>4, ResetKeeps
<1>5. CASE UNCHANGED vars
  <2>1. ScriptOK' BY <1>5, Facts DEF vars, ScriptOK, script
  <2>2. SketchOK' BY <1>5, Facts DEF vars, SketchOK, sketch
  <2>3. WriteFindsItsOutputs' BY <1>5 DEF vars, Inv, WriteFindsItsOutputs, sketch
  <2> QED BY <2>1, <2>2, <2>3, PartsNext DEF Inv
<1> QED BY <1>1, <1>2, <1>3, <1>4, <1>5 DEF Next

LEMMA Inductive == Spec => []Inv
BY InitInv, StepInv, PTL DEF Spec

(* The state has its types, whatever files are sent and whatever fails.     *)
THEOREM TypeCorrect == Spec => []TypeOK
<1>1. Inv => TypeOK BY DEF Inv
<1> QED BY <1>1, Inductive, PTL

(* hmtl_write_config never follows a pointer that is not set: a             *)
(* configuration in state DONE has the outputs its header counts, by any    *)
(* order of commands, and also when "read" replaces it.                     *)
THEOREM WriteCorrect == Spec => []WriteFindsItsOutputs
<1>1. Inv => WriteFindsItsOutputs BY DEF Inv
<1> QED BY <1>1, Inductive, PTL
-----------------------------------------------------------------------------
(* Pins of all outputs one after the other: what is distinct in the whole  *)
(* is apart in the parts.                                                  *)
Flattens(f, u) == f = [i \in 1 .. Len(u) |-> IF i = 1 THEN u[i] ELSE f[i - 1] \o u[i]]

LEMMA FlattenStep ==
  ASSUME NEW u, Len(u) \in Nat, NEW f, Flattens(f, u)
  PROVE  \A i \in 1 .. Len(u) : f[i] = IF i = 1 THEN u[i] ELSE f[i - 1] \o u[i]
<1>1. \A i \in 1 .. Len(u) :
        [j \in 1 .. Len(u) |-> IF j = 1 THEN u[j] ELSE f[j - 1] \o u[j]][i]
          = IF i = 1 THEN u[i] ELSE f[i - 1] \o u[i]
  OBVIOUS
<1> QED BY <1>1 DEF Flattens

LEMMA FlattenUnfolds ==
  ASSUME NEW T, NEW u \in Seq(Seq(T)), u # <<>>
  PROVE  \E f \in [1 .. Len(u) -> Seq(T)] : Flattens(f, u) /\ FlattenSeq(u) = f[Len(u)]
<1> DEFINE n == Len(u)
           step == [p \in Int \X Seq(T) |-> p[2] \o (IF p[1] \in 1 .. n THEN u[p[1]] ELSE <<>>)]
           all == CHOOSE f : Flattens(f, u)
<1>1. n \in Nat /\ n >= 1 /\ 1 \in 1 .. n OBVIOUS
<1>2. \A i \in 1 .. n : u[i] \in Seq(T) OBVIOUS
<1>3. step \in [Int \X Seq(T) -> Seq(T)]
  <2> SUFFICES ASSUME NEW i \in Int, NEW s \in Seq(T)
               PROVE  s \o (IF i \in 1 .. n THEN u[i] ELSE <<>>) \in Seq(T)
    OBVIOUS
  <2>1. (IF i \in 1 .. n THEN u[i] ELSE <<>>) \in Seq(T) BY <1>2
  <2> HIDE DEF n
  <2> QED BY <2>1
<1>4. u[1] \in Seq(T) /\ 1 \in Int /\ n \in Int BY <1>1, <1>2
<1>5. PICK g \in [1 .. n -> Seq(T)] : \A i \in 1 .. n : g[i] = IF i = 1 THEN u[1] ELSE step[<<i, g[i - 1]>>]
  <2>1. Steps(Seq(T), u[1], step, 1, n) BY <1>3, <1>4 DEF Steps
  <2> HIDE DEF n, step
  <2>2. \E g \in [1 .. n -> Seq(T)] : Recurs(g, u[1], step, 1, n) BY <2>1, Recursion
  <2> QED BY <2>2 DEF Recurs
<1>6. Flattens(g, u)
  <2>1. ASSUME NEW i \in 1 .. n, i # 1 PROVE step[<<i, g[i - 1]>>] = g[i - 1] \o u[i]
    <3>1. i - 1 \in 1 .. n /\ i \in Int BY <1>1, <2>1
    <3>2. g[i - 1] \in Seq(T) BY <3>1
    <3> QED BY <3>1, <3>2
  <2> HIDE DEF n, step
  <2>2. \A i \in 1 .. n : g[i] = IF i = 1 THEN u[i] ELSE g[i - 1] \o u[i] BY <1>5, <2>1
  <2>3. g = [i \in 1 .. n |-> g[i]] OBVIOUS
  <2>4. g = [i \in 1 .. n |-> IF i = 1 THEN u[i] ELSE g[i - 1] \o u[i]] BY <2>2, <2>3
  <2> QED BY <2>4 DEF Flattens, n
<1>7. Flattens(all, u)
  <2> HIDE DEF Flattens
  <2> QED BY <1>6
<1>10. \A i \in 1 .. n : all[i] = IF i = 1 THEN u[i] ELSE all[i - 1] \o u[i] BY <1>1, <1>7, FlattenStep
<1>8. FlattenSeq(u) = all[n]
  <2>1. Len(u) # 0 BY <1>1
  <2> QED BY <2>1 DEF FlattenSeq, Flattens
<1>9. all \in [1 .. n -> Seq(T)]
  <2>1. all = [i \in 1 .. n |-> all[i]]
    <3> DEFINE e(i) == IF i = 1 THEN u[i] ELSE all[i - 1] \o u[i]
    <3>1. all = [i \in 1 .. n |-> e(i)] BY <1>7 DEF Flattens
    <3> HIDE DEF all, e, n
    <3> QED BY <3>1
  <2> DEFINE S == {i \in Nat : i + 1 \in 1 .. n => all[i + 1] \in Seq(T)}
  <2> HIDE DEF all
  <2>2. 0 \in S BY <1>1, <1>2, <1>7 DEF Flattens
  <2>3. ASSUME NEW i \in Nat, i \in S PROVE i + 1 \in S
    <3> SUFFICES ASSUME i + 2 \in 1 .. n PROVE all[i + 2] \in Seq(T) OBVIOUS
    <3>0. i + 2 # 1 /\ (i + 2) - 1 = i + 1 /\ i + 1 \in 1 .. n BY <1>1
    <3>1. all[i + 2] = all[i + 1] \o u[i + 2] BY <1>1, <1>10, <3>0
    <3>2. all[i + 1] \in Seq(T) /\ u[i + 2] \in Seq(T) BY <2>3, <1>2, <3>0
    <3> QED BY <3>1, <3>2
  <2>4. Nat \subseteq S
    <3> HIDE DEF S
    <3> QED BY <2>2, <2>3, Induction
  <2>5. \A i \in 1 .. n : all[i] \in Seq(T)
    <3> SUFFICES ASSUME NEW i \in 1 .. n PROVE all[i] \in Seq(T) OBVIOUS
    <3>1. i - 1 \in Nat /\ (i - 1) + 1 = i OBVIOUS
    <3> QED BY <2>4, <3>1
  <2> QED BY <2>1, <2>5
<1> QED BY <1>7, <1>8, <1>9

LEMMA Joined ==
  ASSUME NEW T, NEW s \in Seq(T), NEW t \in Seq(T)
  PROVE  /\ s \o t \in Seq(T) /\ Len(s \o t) = Len(s) + Len(t)
         /\ \A i \in DOMAIN s : i \in DOMAIN (s \o t) /\ (s \o t)[i] = s[i]
         /\ \A j \in DOMAIN t : Len(s) + j \in DOMAIN (s \o t) /\ (s \o t)[Len(s) + j] = t[j]
OBVIOUS

LEMMA RangeJoined ==
  ASSUME NEW T, NEW s \in Seq(T), NEW t \in Seq(T)
  PROVE  Range(s \o t) = Range(s) \cup Range(t)
<1>1. Range(s) \subseteq Range(s \o t) BY Joined DEF Range
<1>2. Range(t) \subseteq Range(s \o t)
  <2> SUFFICES ASSUME NEW j \in DOMAIN t PROVE t[j] \in Range(s \o t) BY DEF Range
  <2>1. Len(s) + j \in DOMAIN (s \o t) /\ (s \o t)[Len(s) + j] = t[j] BY Joined
  <2> QED BY <2>1 DEF Range
<1>3. ASSUME NEW i \in DOMAIN (s \o t) PROVE (s \o t)[i] \in Range(s) \cup Range(t)
  <2>1. i \in 1 .. Len(s) + Len(t) BY Joined
  <2>2. CASE i <= Len(s)
    <3>1. i \in DOMAIN s BY <2>1, <2>2
    <3> QED BY <3>1 DEF Range
  <2>3. CASE i > Len(s)
    <3>1. i - Len(s) \in DOMAIN t /\ (s \o t)[i] = t[i - Len(s)] BY <2>1, <2>3
    <3> QED BY <3>1 DEF Range
  <2> QED BY <2>1, <2>2, <2>3
<1> QED BY <1>1, <1>2, <1>3 DEF Range

LEMMA DistinctParts ==
  ASSUME NEW T, NEW s \in Seq(T), NEW t \in Seq(T), Distinct(s \o t)
  PROVE  /\ Distinct(s) /\ Distinct(t)
         /\ \A i \in DOMAIN s, j \in DOMAIN t : s[i] # t[j]
<1>2. \A i \in DOMAIN s : i \in DOMAIN (s \o t) /\ (s \o t)[i] = s[i] BY Joined
<1>3. \A j \in DOMAIN t : Len(s) + j \in DOMAIN (s \o t) /\ (s \o t)[Len(s) + j] = t[j] BY Joined
<1>4. Distinct(s) BY <1>2 DEF Distinct
<1>5. Distinct(t)
  <2> SUFFICES ASSUME NEW i \in DOMAIN t, NEW j \in DOMAIN t, t[i] = t[j] PROVE i = j BY DEF Distinct
  <2>1. Len(s) + i = Len(s) + j BY <1>3 DEF Distinct
  <2> QED BY <2>1
<1>6. ASSUME NEW i \in DOMAIN s, NEW j \in DOMAIN t, s[i] = t[j] PROVE FALSE
  <2>1. i = Len(s) + j BY <1>2, <1>3, <1>6 DEF Distinct
  <2> QED BY <2>1
<1> QED BY <1>4, <1>5, <1>6

LEMMA FlattenApart ==
  ASSUME NEW T, NEW u \in Seq(Seq(T)), Distinct(FlattenSeq(u))
  PROVE  \A i, j \in DOMAIN u : \A k \in DOMAIN u[i], l \in DOMAIN u[j] :
           /\ u[i][k] \in Range(FlattenSeq(u))
           /\ u[i][k] = u[j][l] => i = j /\ k = l
<1> DEFINE n == Len(u)
<1>0. n \in Nat /\ DOMAIN u = 1 .. n OBVIOUS
<1>1. CASE u = <<>> BY <1>1
<1>2. CASE u # <<>>
  <2>1. PICK f \in [1 .. n -> Seq(T)] : Flattens(f, u) /\ FlattenSeq(u) = f[n]
    BY <1>2, FlattenUnfolds
  <2>2. \A i \in 1 .. n : u[i] \in Seq(T) /\ f[i] \in Seq(T) 
    <3> SUFFICES ASSUME NEW i \in 1 .. n PROVE u[i] \in Seq(T) /\ f[i] \in Seq(T) OBVIOUS
    <3>1. u[i] \in Seq(T) BY <1>0
    <3> HIDE DEF n
    <3> QED BY <3>1
  <2>3. f[1] = u[1] /\ \A m \in Nat : m + 2 \in 1 .. n => f[m + 2] = f[m + 1] \o u[m + 2]
    <3>1. \A i \in 1 .. n : f[i] = IF i = 1 THEN u[i] ELSE f[i - 1] \o u[i] BY <1>0, <2>1, FlattenStep
    <3>2. 1 \in 1 .. n BY <1>0, <1>2
    <3>3. \A m \in Nat : m + 2 # 1 /\ (m + 2) - 1 = m + 1 OBVIOUS
    <3> QED BY <3>1, <3>2, <3>3
  <2> DEFINE Occur(m) == \A i \in 1 .. m : Range(u[i]) \subseteq Range(f[m])
             Apart(m) == \A i, j \in 1 .. m : \A k \in DOMAIN u[i], l \in DOMAIN u[j] :
                           u[i][k] = u[j][l] => i = j /\ k = l
             S == {m \in Nat : m + 1 \in 1 .. n =>
                     Occur(m + 1) /\ (Distinct(f[m + 1]) => Apart(m + 1))}
  <2>4. 0 \in S
    <3>1. \A i \in 1 .. 0 + 1 : i = 1 OBVIOUS
    <3>2. 0 + 1 = 1 OBVIOUS
    <3>3. Occur(0 + 1) BY <2>3, <3>1, <3>2
    <3>4. Distinct(f[0 + 1]) => Apart(0 + 1) BY <2>3, <3>1, <3>2 DEF Distinct
    <3> HIDE DEF Occur, Apart
    <3> QED BY <3>3, <3>4
  <2>5. ASSUME NEW m \in Nat, m \in S PROVE m + 1 \in S
    <3> SUFFICES ASSUME m + 2 \in 1 .. n
                 PROVE  Occur(m + 2) /\ (Distinct(f[m + 2]) => Apart(m + 2))
      <4>1. (m + 1) + 1 = m + 2 /\ m + 1 \in Nat OBVIOUS
      <4> HIDE DEF Occur, Apart
      <4> QED BY <4>1
    <3> DEFINE s == f[m + 1]
               t == u[m + 2]
    <3>0. m + 1 \in 1 .. n BY <1>0
    <3>1. f[m + 2] = s \o t /\ s \in Seq(T) /\ t \in Seq(T) BY <2>2, <2>3, <3>0
    <3>2. \A i \in 1 .. m + 2 : i \in 1 .. m + 1 \/ i = m + 2 OBVIOUS
    <3>3. Occur(m + 1) /\ (Distinct(s) => Apart(m + 1))
      <4> HIDE DEF Occur, Apart
      <4> QED BY <2>5, <3>0
    <3>4. Occur(m + 2)
      <4>1. Range(f[m + 2]) = Range(s) \cup Range(t)
        <5> HIDE DEF s, t
        <5> QED BY <3>1, RangeJoined
      <4> QED BY <3>2, <3>3, <4>1
    <3>5. ASSUME Distinct(f[m + 2]) PROVE Apart(m + 2)
      <4>1. Distinct(s) /\ Distinct(t) /\ \A i \in DOMAIN s, j \in DOMAIN t : s[i] # t[j]
        <5> HIDE DEF s, t
        <5>1. Distinct(s \o t) BY <3>1, <3>5
        <5> QED BY <3>1, <5>1, DistinctParts
      <4>2. Apart(m + 1) BY <3>3, <4>1
      <4>3. ASSUME NEW i \in 1 .. m + 1, NEW k \in DOMAIN u[i], NEW l \in DOMAIN t PROVE u[i][k] # t[l]
        <5>1. u[i][k] \in Range(u[i]) /\ Range(u[i]) \subseteq Range(s) BY <3>3 DEF Range
        <5>2. u[i][k] \in Range(s) BY <5>1
        <5> QED BY <4>1, <5>2 DEF Range
      <4> SUFFICES ASSUME NEW i \in 1 .. m + 2, NEW j \in 1 .. m + 2,
                          NEW k \in DOMAIN u[i], NEW l \in DOMAIN u[j], u[i][k] = u[j][l]
                   PROVE  i = j /\ k = l
        OBVIOUS
      <4>4. CASE i \in 1 .. m + 1 /\ j \in 1 .. m + 1 BY <4>2, <4>4
      <4>5. CASE i \in 1 .. m + 1 /\ j = m + 2 BY <4>3, <4>5
      <4>6. CASE i = m + 2 /\ j \in 1 .. m + 1 BY <4>3, <4>6
      <4>7. CASE i = m + 2 /\ j = m + 2 BY <4>1, <4>7 DEF Distinct
      <4> QED BY <3>2, <4>4, <4>5, <4>6, <4>7
    <3> QED BY <3>4, <3>5
  <2>6. Nat \subseteq S
    <3> HIDE DEF S
    <3> QED BY <2>4, <2>5, Induction
  <2>7. Occur(n) /\ Apart(n)
    <3>1. n - 1 \in Nat /\ (n - 1) + 1 = n /\ n \in 1 .. n BY <1>0, <1>2
    <3>2. n - 1 \in S BY <2>6, <3>1
    <3>3. Distinct(f[n]) BY <2>1
    <3> HIDE DEF Occur, Apart, n
    <3> QED BY <3>1, <3>2, <3>3
  <2>8. ASSUME NEW i \in DOMAIN u, NEW k \in DOMAIN u[i] PROVE u[i][k] \in Range(FlattenSeq(u))
    <3>1. Range(u[i]) \subseteq Range(FlattenSeq(u)) BY <1>0, <2>1, <2>7
    <3>2. u[i][k] \in Range(u[i]) BY DEF Range
    <3> QED BY <3>1, <3>2
  <2> QED BY <1>0, <2>7, <2>8
<1> QED BY <1>1, <1>2
-----------------------------------------------------------------------------
(* The addresses at which the outputs are read.                            *)
After(mem, at) == IF at = -1 THEN -1 ELSE IF mem[at] = NULL THEN -1 ELSE at + OutputSize(mem[at])

LEMMA AfterType ==
  ASSUME NEW mem, NEW at \in Int
  PROVE  /\ After(mem, at) \in Int
         /\ at # -1 /\ at >= HeaderSize /\ After(mem, at) # -1 =>
              mem[at] # NULL /\ After(mem, at) = at + OutputSize(mem[at])
         /\ at = -1 => After(mem, at) = -1
         /\ After(mem, at) = -1 \/ After(mem, at) \in at + 1 .. at + 2
BY DEF After, OutputSize, HeaderSize

LEMMA ChainStep ==
  ASSUME NEW mem, NEW num \in Nat
  PROVE  /\ Chain(mem, num) \in [1 .. num + 1 -> Int]
         /\ Chain(mem, num)[1] = HeaderSize
         /\ \A i \in 1 .. num : Chain(mem, num)[i + 1] = After(mem, Chain(mem, num)[i])
<1> DEFINE n == num + 1
           Is(f) == f = [i \in 1 .. n |->
             IF i = 1 THEN HeaderSize
             ELSE IF f[i - 1] = -1 THEN -1
             ELSE IF mem[f[i - 1]] = NULL THEN -1
             ELSE f[i - 1] + OutputSize(mem[f[i - 1]])]
           step == [p \in Int \X Int |-> After(mem, p[2])]
           at == CHOOSE f : Is(f)
<1>0. n \in Nat /\ n >= 1 OBVIOUS
<1>1. Steps(Int, HeaderSize, step, 1, n)
  <2>1. \A p \in Int \X Int : After(mem, p[2]) \in Int BY AfterType
  <2> HIDE DEF n
  <2> QED BY <1>0, <2>1 DEF Steps, HeaderSize
<1>2. PICK g \in [1 .. n -> Int] : Recurs(g, HeaderSize, step, 1, n)
  <2> HIDE DEF n, step
  <2> QED BY <1>1, Recursion
<1>3. Is(g)
  <2>1. \A i \in 1 .. n : g[i] = IF i = 1 THEN HeaderSize ELSE After(mem, g[i - 1])
    <3> SUFFICES ASSUME NEW i \in 1 .. n
                 PROVE  g[i] = IF i = 1 THEN HeaderSize ELSE After(mem, g[i - 1])
      OBVIOUS
    <3>1. g[i] = IF i = 1 THEN HeaderSize ELSE step[<<i, g[i - 1]>>]
      <4> HIDE DEF n, step
      <4> QED BY <1>2 DEF Recurs
    <3>2. i # 1 => i \in Int /\ g[i - 1] \in Int BY <1>0
    <3> HIDE DEF n
    <3> QED BY <3>1, <3>2
  <2>2. g = [i \in 1 .. n |-> g[i]] OBVIOUS
  <2> HIDE DEF n
  <2> QED BY <2>1, <2>2 DEF After
<1>4. Is(at)
  <2> HIDE DEF Is
  <2> QED BY <1>3
<1>5. Chain(mem, num) = at BY DEF Chain
<1>6. at = [i \in 1 .. n |-> at[i]]
  <2> HIDE DEF at, n
  <2> QED BY <1>4
<1>7. at[1] = HeaderSize /\ \A i \in 1 .. num : at[i + 1] = After(mem, at[i])
  <2> HIDE DEF at
  <2>1. 1 \in 1 .. n OBVIOUS
  <2>2. \A i \in 1 .. num : i + 1 \in 1 .. n /\ i + 1 # 1 /\ (i + 1) - 1 = i OBVIOUS
  <2>3. \A i \in 1 .. n : at[i] = IF i = 1 THEN HeaderSize ELSE After(mem, at[i - 1])
    BY <1>4 DEF After
  <2> HIDE DEF n, Is
  <2> QED BY <2>1, <2>2, <2>3
<1>8. \A i \in 1 .. n : at[i] \in Int
  <2> DEFINE S == {i \in Nat : i + 1 \in 1 .. n => at[i + 1] \in Int}
  <2> HIDE DEF at, Is
  <2>1. 0 \in S BY <1>7 DEF HeaderSize
  <2>2. ASSUME NEW i \in Nat, i \in S PROVE i + 1 \in S
    <3> SUFFICES ASSUME (i + 1) + 1 \in 1 .. n PROVE at[(i + 1) + 1] \in Int OBVIOUS
    <3>1. i + 1 \in 1 .. num /\ i + 1 \in 1 .. n OBVIOUS
    <3>2. at[i + 1] \in Int BY <2>2, <3>1
    <3>3. at[(i + 1) + 1] = After(mem, at[i + 1]) BY <1>7, <3>1
    <3> QED BY <3>2, <3>3, AfterType
  <2>3. Nat \subseteq S
    <3> HIDE DEF S
    <3> QED BY <2>1, <2>2, Induction
  <2> SUFFICES ASSUME NEW i \in 1 .. n PROVE at[i] \in Int OBVIOUS
  <2>4. i - 1 \in Nat /\ (i - 1) + 1 = i OBVIOUS
  <2> HIDE DEF n
  <2> QED BY <2>3, <2>4
<1> HIDE DEF at, n
<1>9. at \in [1 .. n -> Int] BY <1>6, <1>8
<1> QED BY <1>5, <1>7, <1>9 DEF n

(* Records that follow each other are those that are read.                 *)
Follows(mem, num, P) ==
  /\ P \in [1 .. num + 1 -> Nat] /\ P[1] = HeaderSize
  /\ \A i \in 1 .. num : mem[P[i]] # NULL /\ P[i + 1] = P[i] + OutputSize(mem[P[i]])
LEMMA ChainFollows ==
  ASSUME NEW mem, NEW num \in Nat, NEW P, Follows(mem, num, P)
  PROVE  \A i \in 1 .. num + 1 : Chain(mem, num)[i] = P[i]
<1> USE DEF Follows
<1> DEFINE S == {i \in Nat : i + 1 \in 1 .. num + 1 => Chain(mem, num)[i + 1] = P[i + 1]}
<1>1. 0 \in S BY ChainStep
<1>2. ASSUME NEW i \in Nat, i \in S PROVE i + 1 \in S
  <2> SUFFICES ASSUME (i + 1) + 1 \in 1 .. num + 1 PROVE Chain(mem, num)[(i + 1) + 1] = P[(i + 1) + 1]
    OBVIOUS
  <2>1. i + 1 \in 1 .. num /\ i + 1 \in 1 .. num + 1 OBVIOUS
  <2>2. Chain(mem, num)[i + 1] = P[i + 1] BY <1>2, <2>1
  <2>3. Chain(mem, num)[(i + 1) + 1] = After(mem, P[i + 1]) BY <2>1, <2>2, ChainStep
  <2>4. P[i + 1] \in Nat /\ mem[P[i + 1]] # NULL
        /\ P[(i + 1) + 1] = P[i + 1] + OutputSize(mem[P[i + 1]])
    BY <2>1
  <2> QED BY <2>3, <2>4 DEF After
<1>3. Nat \subseteq S
  <2> HIDE DEF S
  <2> QED BY <1>1, <1>2, Induction
<1> SUFFICES ASSUME NEW i \in 1 .. num + 1 PROVE Chain(mem, num)[i] = P[i] OBVIOUS
<1>4. i - 1 \in Nat /\ (i - 1) + 1 = i OBVIOUS
<1> QED BY <1>3, <1>4

(* Wherever a chain gets, it stays among the records of the outputs.       *)
LEMMA ChainBounds ==
  ASSUME NEW mem, NEW num \in Nat
  PROVE  \A i \in 1 .. num + 1 :
           Chain(mem, num)[i] = -1 \/ Chain(mem, num)[i] \in HeaderSize .. HeaderSize + 2 * (i - 1)
<1> DEFINE C(i) == Chain(mem, num)[i] = -1 \/ Chain(mem, num)[i] \in HeaderSize .. HeaderSize + 2 * (i - 1)
           S == {i \in Nat : i + 1 \in 1 .. num + 1 => C(i + 1)}
<1>1. 0 \in S BY ChainStep DEF HeaderSize
<1>2. ASSUME NEW i \in Nat, i \in S PROVE i + 1 \in S
  <2> SUFFICES ASSUME (i + 1) + 1 \in 1 .. num + 1 PROVE C((i + 1) + 1) OBVIOUS
  <2>1. i + 1 \in 1 .. num /\ i + 1 \in 1 .. num + 1 OBVIOUS
  <2>2. C(i + 1) BY <1>2, <2>1
  <2>3. Chain(mem, num)[(i + 1) + 1] = After(mem, Chain(mem, num)[i + 1]) BY <2>1, ChainStep
  <2>4. Chain(mem, num)[i + 1] \in Int BY <2>1, ChainStep
  <2> QED BY <2>2, <2>3, <2>4, AfterType DEF HeaderSize
<1>3. Nat \subseteq S
  <2> HIDE DEF S
  <2> QED BY <1>1, <1>2, Induction
<1> SUFFICES ASSUME NEW i \in 1 .. num + 1 PROVE C(i) OBVIOUS
<1>4. i - 1 \in Nat /\ (i - 1) + 1 = i OBVIOUS
<1> QED BY <1>3, <1>4

LEMMA ChainReads ==
  ASSUME NEW mem, NEW num \in Nat, num <= HMTL_MAX_OUTPUTS,
         \A a \in Cells \ {0} : mem[a] \in Output \cup {NULL},
         NEW i \in 1 .. num, Chain(mem, num)[i + 1] # -1
  PROVE  Chain(mem, num)[i] # -1 /\ mem[Chain(mem, num)[i]] \in Output
<1> DEFINE at == Chain(mem, num)[i]
<1>0. i \in 1 .. num + 1 OBVIOUS
<1>1. at \in Int /\ After(mem, at) # -1 BY <1>0, ChainStep
<1>2. at = -1 \/ at \in HeaderSize .. HeaderSize + 2 * (i - 1) BY <1>0, ChainBounds
<1> HIDE DEF at
<1>3. at # -1 /\ at >= HeaderSize BY <1>1, <1>2, AfterType DEF HeaderSize
<1>4. at \in Cells \ {0} BY <1>2, <1>3, SessionAssumption DEF Cells, HeaderSize
<1>5. mem[at] # NULL BY <1>1, <1>3, AfterType
<1> QED BY <1>3, <1>4, <1>5 DEF at

(* A chain that reached its end read every record.                         *)
LEMMA ChainBack ==
  ASSUME NEW mem, NEW num \in Nat, Chain(mem, num)[num + 1] # -1
  PROVE  \A i \in 1 .. num + 1 : Chain(mem, num)[i] # -1
<1> DEFINE S == {k \in Nat : num + 1 - k \in 1 .. num + 1 => Chain(mem, num)[num + 1 - k] # -1}
<1>1. 0 \in S OBVIOUS
<1>2. ASSUME NEW k \in Nat, k \in S PROVE k + 1 \in S
  <2> DEFINE i == num + 1 - (k + 1)
  <2> SUFFICES ASSUME i \in 1 .. num + 1 PROVE Chain(mem, num)[i] # -1 OBVIOUS
  <2>1. i \in 1 .. num /\ i + 1 = num + 1 - k /\ num + 1 - k \in 1 .. num + 1 OBVIOUS
  <2>2. Chain(mem, num)[i + 1] # -1 BY <1>2, <2>1
  <2> HIDE DEF i
  <2>3. Chain(mem, num)[i + 1] = After(mem, Chain(mem, num)[i]) BY <2>1, ChainStep
  <2> QED BY <2>2, <2>3 DEF After
<1>3. Nat \subseteq S
  <2> HIDE DEF S
  <2> QED BY <1>1, <1>2, Induction
<1> SUFFICES ASSUME NEW i \in 1 .. num + 1 PROVE Chain(mem, num)[i] # -1 OBVIOUS
<1>4. num + 1 - i \in Nat /\ num + 1 - (num + 1 - i) = i OBVIOUS
<1>5. num + 1 - i \in S BY <1>3, <1>4
<1> QED BY <1>4, <1>5
-----------------------------------------------------------------------------
(* A configuration that is valid is wired as it should be.                 *)
FirstUsed(out) == IF out.type = "pixels" /\ out.pins[1] = NoPin THEN 2 ELSE 1
LEMMA UsedPart ==
  ASSUME NEW out \in Output
  PROVE  /\ UsedPins(out) \in Seq(Nat) /\ FirstUsed(out) \in {1, 2}
         /\ \A k \in DOMAIN out.pins : k >= FirstUsed(out) =>
              /\ k + 1 - FirstUsed(out) \in DOMAIN UsedPins(out)
              /\ UsedPins(out)[k + 1 - FirstUsed(out)] = out.pins[k]
<1> DEFINE b == FirstUsed(out)
<1>1. b \in {1, 2} /\ out.pins \in Seq(Nat) BY DEF FirstUsed, Output
<1>2. UsedPins(out) = SubSeq(out.pins, b, Len(out.pins)) BY DEF UsedPins, FirstUsed
<1> HIDE DEF b
<1>3. UsedPins(out) \in Seq(Nat)
  <2>1. \A i \in b .. Len(out.pins) : out.pins[i] \in Nat BY <1>1
  <2> QED BY <1>1, <1>2, <2>1
<1>4. \A k \in DOMAIN out.pins : k >= b =>
        k + 1 - b \in DOMAIN UsedPins(out) /\ UsedPins(out)[k + 1 - b] = out.pins[k]
  <2> SUFFICES ASSUME NEW k \in 1 .. Len(out.pins), k >= b
               PROVE  LET s == SubSeq(out.pins, b, Len(out.pins))
                      IN  k + 1 - b \in DOMAIN s /\ s[k + 1 - b] = out.pins[k]
    <3>1. DOMAIN out.pins = 1 .. Len(out.pins) BY <1>1
    <3> QED BY <1>2, <3>1
  <2>1. Len(out.pins) \in Nat /\ k \in Int /\ b \in Int BY <1>1
  <2> QED BY <1>1, <2>1
<1> QED BY <1>1, <1>3, <1>4 DEF b

LEMMA ValidIsWired ==
  ASSUME NEW hdr, NEW outs \in Seq(Output), ValidConfig(hdr, outs), NEW c, c.outputs = outs
  PROVE  Wired(c)
<1> DEFINE u == [i \in DOMAIN outs |-> UsedPins(outs[i])]
           First(i) == FirstUsed(outs[i])
<1>0. Len(outs) \in Nat /\ DOMAIN outs = 1 .. Len(outs) /\ \A i \in DOMAIN outs : outs[i] \in Output
  OBVIOUS
<1>1. u \in Seq(Seq(Nat)) /\ DOMAIN u = DOMAIN outs
  <2>1. u \in [1 .. Len(outs) -> Seq(Nat)] BY <1>0, UsedPart
  <2> QED BY <1>0, <2>1
<1>2. Distinct(FlattenSeq(u)) /\ Range(FlattenSeq(u)) \subseteq PinMap BY DEF ValidConfig
<1>3. \A i \in DOMAIN outs : ValidOutput(outs[i]) BY DEF ValidConfig, ValidEach
<1>4. ASSUME NEW i \in DOMAIN outs, NEW j \in DOMAIN outs,
             NEW k \in DOMAIN u[i], NEW l \in DOMAIN u[j]
      PROVE  u[i][k] \in PinMap /\ (u[i][k] = u[j][l] => i = j /\ k = l)
  <2> HIDE DEF u
  <2> QED BY <1>1, <1>2, FlattenApart
<1>5. ASSUME NEW i \in DOMAIN outs, NEW k \in DOMAIN outs[i].pins, k >= First(i)
      PROVE  k + 1 - First(i) \in DOMAIN u[i] /\ u[i][k + 1 - First(i)] = outs[i].pins[k]
  BY <1>0, <1>5, UsedPart
<1>6. ASSUME NEW i \in DOMAIN outs, NEW k \in DOMAIN outs[i].pins, k < First(i)
      PROVE  outs[i].pins[k] = NoPin /\ outs[i].type = "pixels" /\ k = 1
  <2>1. outs[i].pins \in Seq(Nat) BY <1>0 DEF Output
  <2>2. k \in Nat /\ k >= 1 BY <2>1
  <2> QED BY <1>6, <2>2 DEF FirstUsed
<1> SUFFICES ASSUME NEW i \in DOMAIN outs, NEW j \in DOMAIN outs,
                    NEW k \in DOMAIN outs[i].pins, NEW l \in DOMAIN outs[j].pins
             PROVE  LET pin == outs[i].pins[k] IN
                    \/ pin = NoPin /\ outs[i].type = "pixels" /\ k = 1
                    \/ pin <= MAX_PIN_NUM /\ pin \in PinMap /\ (pin = outs[j].pins[l] => i = j /\ k = l)
  BY DEF Wired
<1> DEFINE pin == outs[i].pins[k]
<1> SUFFICES ASSUME ~(pin = NoPin /\ outs[i].type = "pixels" /\ k = 1)
             PROVE  pin <= MAX_PIN_NUM /\ pin \in PinMap /\ (pin = outs[j].pins[l] => i = j /\ k = l)
  OBVIOUS
<1>7. pin <= MAX_PIN_NUM BY <1>3 DEF ValidOutput
<1>8. /\ k \in Nat /\ l \in Nat /\ First(i) \in {1, 2} /\ First(j) \in {1, 2}
      /\ outs[i].pins \in Seq(Nat) /\ outs[j].pins \in Seq(Nat)
  <2>1. outs[i] \in Output /\ outs[j] \in Output BY <1>0
  <2>2. outs[i].pins \in Seq(Nat) /\ outs[j].pins \in Seq(Nat) BY <2>1 DEF Output
  <2>3. DOMAIN outs[i].pins \subseteq Nat /\ DOMAIN outs[j].pins \subseteq Nat
    <3>1. \A s \in Seq(Nat) : DOMAIN s \subseteq Nat
      <4> SUFFICES ASSUME NEW s \in Seq(Nat) PROVE 1 .. Len(s) \subseteq Nat OBVIOUS
      <4> QED OBVIOUS
    <3> QED BY <2>2, <3>1
  <2>4. k \in Nat /\ l \in Nat BY <2>3
  <2> QED BY <2>2, <2>4 DEF FirstUsed
<1>9. k >= First(i) BY <1>6, <1>8
<1>10. k + 1 - First(i) \in DOMAIN u[i] /\ u[i][k + 1 - First(i)] = pin BY <1>5, <1>9
<1> HIDE DEF u, First
<1>11. ASSUME pin = outs[j].pins[l] PROVE i = j /\ k = l
  <2>1. CASE l < First(j)
    <3>1. pin = NoPin BY <1>6, <1>11, <2>1 DEF First
    <3>2. pin \in PinMap BY <1>4, <1>10
    <3> QED BY <3>1, <3>2 DEF NoPin, PinMap
  <2>2. CASE l >= First(j)
    <3>1. l + 1 - First(j) \in DOMAIN u[j] /\ u[j][l + 1 - First(j)] = pin BY <1>5, <1>11, <2>2 DEF First
    <3>2. i = j /\ k + 1 - First(i) = l + 1 - First(j) BY <1>4, <1>10, <3>1
    <3> QED BY <1>8, <3>2
  <2> QED BY <1>8, <2>1, <2>2
<1>12. pin \in PinMap BY <1>4, <1>10
<1> QED BY <1>7, <1>11, <1>12
-----------------------------------------------------------------------------
(* The converse: what does not share elements has none twice when joined,  *)
(* and a configuration wired as it should be is valid.                     *)
LEMMA JoinedDistinct ==
  ASSUME NEW T, NEW s \in Seq(T), NEW t \in Seq(T), Distinct(s), Distinct(t),
         \A i \in DOMAIN s, j \in DOMAIN t : s[i] # t[j]
  PROVE  Distinct(s \o t)
<1> DEFINE all == s \o t
<1>1. Len(s) \in Nat /\ Len(t) \in Nat /\ DOMAIN s = 1 .. Len(s) /\ DOMAIN t = 1 .. Len(t)
      /\ DOMAIN all = 1 .. Len(s) + Len(t)
  OBVIOUS
<1>2. ASSUME NEW i \in DOMAIN all
      PROVE  \/ i \in DOMAIN s /\ all[i] = s[i]
             \/ i - Len(s) \in DOMAIN t /\ all[i] = t[i - Len(s)]
  <2>1. CASE i <= Len(s) BY <1>1, <2>1
  <2>2. CASE i > Len(s) BY <1>1, <2>2
  <2> QED BY <1>1, <2>1, <2>2
<1> HIDE DEF all
<1>3. ASSUME NEW i \in DOMAIN all, NEW j \in DOMAIN all, all[i] = all[j] PROVE i = j
  <2>1. CASE i \in DOMAIN s /\ all[i] = s[i] /\ j \in DOMAIN s /\ all[j] = s[j] BY <1>3, <2>1 DEF Distinct
  <2>2. CASE i \in DOMAIN s /\ all[i] = s[i] /\ j - Len(s) \in DOMAIN t /\ all[j] = t[j - Len(s)]
    BY <1>3, <2>2
  <2>3. CASE i - Len(s) \in DOMAIN t /\ all[i] = t[i - Len(s)] /\ j \in DOMAIN s /\ all[j] = s[j]
    BY <1>3, <2>3
  <2>4. CASE /\ i - Len(s) \in DOMAIN t /\ all[i] = t[i - Len(s)]
             /\ j - Len(s) \in DOMAIN t /\ all[j] = t[j - Len(s)]
    <3>1. i - Len(s) = j - Len(s) BY <1>3, <2>4 DEF Distinct
    <3> QED BY <1>1, <3>1
  <2> QED BY <1>2, <2>1, <2>2, <2>3, <2>4
<1> QED BY <1>3 DEF Distinct, all

LEMMA ApartFlattens ==
  ASSUME NEW T, NEW P, NEW u \in Seq(Seq(T)),
         \A i, j \in DOMAIN u : \A k \in DOMAIN u[i], l \in DOMAIN u[j] :
           u[i][k] \in P /\ (u[i][k] = u[j][l] => i = j /\ k = l)
  PROVE  Distinct(FlattenSeq(u)) /\ Range(FlattenSeq(u)) \subseteq P
<1> DEFINE n == Len(u)
<1>0. n \in Nat /\ DOMAIN u = 1 .. n OBVIOUS
<1>1. CASE u = <<>>
  <2>1. FlattenSeq(u) = <<>> BY <1>1 DEF FlattenSeq
  <2> QED BY <2>1 DEF Distinct, Range
<1>2. CASE u # <<>>
  <2>1. PICK f \in [1 .. n -> Seq(T)] : Flattens(f, u) /\ FlattenSeq(u) = f[n]
    BY <1>2, FlattenUnfolds
  <2>2. \A i \in 1 .. n : u[i] \in Seq(T) /\ f[i] \in Seq(T)
    <3> SUFFICES ASSUME NEW i \in 1 .. n PROVE u[i] \in Seq(T) /\ f[i] \in Seq(T) OBVIOUS
    <3>1. u[i] \in Seq(T) BY <1>0
    <3> HIDE DEF n
    <3> QED BY <3>1
  <2>3. f[1] = u[1] /\ \A m \in Nat : m + 2 \in 1 .. n => f[m + 2] = f[m + 1] \o u[m + 2]
    <3>1. \A i \in 1 .. n : f[i] = IF i = 1 THEN u[i] ELSE f[i - 1] \o u[i] BY <1>0, <2>1, FlattenStep
    <3>2. 1 \in 1 .. n BY <1>0, <1>2
    <3>3. \A m \in Nat : m + 2 # 1 /\ (m + 2) - 1 = m + 1 OBVIOUS
    <3> QED BY <3>1, <3>2, <3>3
  <2> DEFINE Comes(m) == \A x \in Range(f[m]) : \E i \in 1 .. m : x \in Range(u[i])
             S == {m \in Nat : m + 1 \in 1 .. n => Comes(m + 1) /\ Distinct(f[m + 1])}
  <2>d. \A i \in 1 .. n : Distinct(u[i]) BY <1>0 DEF Distinct
  <2>4. 0 \in S
    <3>1. 0 + 1 = 1 /\ 1 \in 1 .. 1 OBVIOUS
    <3>2. Comes(0 + 1) BY <2>3, <3>1
    <3>3. 0 + 1 \in 1 .. n => Distinct(f[0 + 1]) BY <2>3, <2>d, <3>1
    <3> HIDE DEF Comes
    <3> QED BY <3>2, <3>3
  <2>5. ASSUME NEW m \in Nat, m \in S PROVE m + 1 \in S
    <3> SUFFICES ASSUME m + 2 \in 1 .. n PROVE Comes(m + 2) /\ Distinct(f[m + 2])
      <4>1. (m + 1) + 1 = m + 2 /\ m + 1 \in Nat OBVIOUS
      <4> HIDE DEF Comes
      <4> QED BY <4>1
    <3> DEFINE s == f[m + 1]
               t == u[m + 2]
    <3>0. m + 1 \in 1 .. n BY <1>0
    <3>1. f[m + 2] = s \o t /\ s \in Seq(T) /\ t \in Seq(T) BY <2>2, <2>3, <3>0
    <3>2. \A i \in 1 .. m + 1 : i \in 1 .. m + 2 /\ i \in 1 .. n /\ i # m + 2 BY <1>0
    <3>3. Comes(m + 1) /\ Distinct(s)
      <4> HIDE DEF Comes
      <4> QED BY <2>5, <3>0
    <3>4. Range(f[m + 2]) = Range(s) \cup Range(t)
      <4> HIDE DEF s, t
      <4> QED BY <3>1, RangeJoined
    <3>5. Comes(m + 2)
      <4> SUFFICES ASSUME NEW x \in Range(f[m + 2]) PROVE \E i \in 1 .. m + 2 : x \in Range(u[i]) OBVIOUS
      <4>1. CASE x \in Range(s) BY <3>2, <3>3, <4>1
      <4>2. CASE x \in Range(t)
        <5>1. m + 2 \in 1 .. m + 2 OBVIOUS
        <5> QED BY <4>2, <5>1
      <4> QED BY <3>4, <4>1, <4>2
    <3>6. ASSUME NEW a \in DOMAIN s, NEW b \in DOMAIN t, s[a] = t[b] PROVE FALSE
      <4>1. s[a] \in Range(s) BY DEF Range
      <4>2. PICK i \in 1 .. m + 1 : s[a] \in Range(u[i]) BY <3>3, <4>1
      <4>3. PICK k \in DOMAIN u[i] : s[a] = u[i][k] BY <4>2 DEF Range
      <4>4. i \in DOMAIN u /\ m + 2 \in DOMAIN u /\ i # m + 2 BY <1>0, <3>2
      <4>5. b \in DOMAIN u[m + 2] /\ u[i][k] = u[m + 2][b] BY <3>6, <4>3
      <4> HIDE DEF S, Comes, s, t
      <4>6. i = m + 2 BY <4>3, <4>4, <4>5
      <4> QED BY <4>4, <4>6
    <3>7. Distinct(t) BY <2>d
    <3>8. Distinct(f[m + 2])
      <4> HIDE DEF s, t
      <4> QED BY <3>1, <3>3, <3>6, <3>7, JoinedDistinct
    <3> QED BY <3>5, <3>8
  <2>6. Nat \subseteq S
    <3> HIDE DEF S
    <3> QED BY <2>4, <2>5, Induction
  <2>7. Comes(n) /\ Distinct(f[n])
    <3>1. n - 1 \in Nat /\ (n - 1) + 1 = n /\ n \in 1 .. n BY <1>0, <1>2
    <3>2. n - 1 \in S BY <2>6, <3>1
    <3> HIDE DEF Comes, n
    <3> QED BY <3>1, <3>2
  <2>8. Range(f[n]) \subseteq P
    <3> SUFFICES ASSUME NEW x \in Range(f[n]) PROVE x \in P OBVIOUS
    <3>1. PICK i \in 1 .. n : x \in Range(u[i]) BY <2>7
    <3>2. PICK k \in DOMAIN u[i] : x = u[i][k] BY <3>1 DEF Range
    <3> QED BY <1>0, <3>2
  <2> QED BY <2>1, <2>7, <2>8
<1> QED BY <1>1, <1>2

LEMMA PinUsed ==
  ASSUME NEW out \in Output, NEW k \in DOMAIN UsedPins(out)
  PROVE  /\ k \in Nat /\ k >= 1 /\ k - 1 + FirstUsed(out) \in DOMAIN out.pins
         /\ UsedPins(out)[k] = out.pins[k - 1 + FirstUsed(out)]
         /\ ~(k - 1 + FirstUsed(out) = 1 /\ out.type = "pixels" /\ out.pins[1] = NoPin)
<1> DEFINE b == FirstUsed(out)
<1>1. (b = 1 \/ b = 2) /\ out.pins \in Seq(Nat) BY DEF FirstUsed, Output
<1>2. UsedPins(out) = SubSeq(out.pins, b, Len(out.pins)) BY DEF UsedPins, FirstUsed
<1>3. out.type = "pixels" /\ out.pins[1] = NoPin => b = 2 BY DEF FirstUsed
<1> HIDE DEF b
<1>4. Len(out.pins) \in Nat /\ DOMAIN out.pins = 1 .. Len(out.pins) BY <1>1
<1>5. DOMAIN UsedPins(out) = 1 .. Len(out.pins) + 1 - b
  <2>1. CASE b <= Len(out.pins) BY <1>1, <1>2, <1>4, <2>1
  <2>2. CASE b > Len(out.pins)
    <3>1. b = Len(out.pins) + 1 \/ (b = 2 /\ Len(out.pins) = 0) BY <1>1, <1>4, <2>2
    <3> QED BY <1>1, <1>2, <1>4, <3>1
  <2> QED BY <1>1, <1>4, <2>1, <2>2
<1>6. k \in Nat /\ k >= 1 /\ k - 1 + b \in 1 .. Len(out.pins) /\ k - 1 + b = b + k - 1 BY <1>1, <1>4, <1>5
<1>7. UsedPins(out)[k] = out.pins[k - 1 + b]
  <2>1. b \in 1 .. Len(out.pins) + 1 /\ Len(out.pins) \in b - 1 .. Len(out.pins)
        /\ k \in 1 .. Len(out.pins) - b + 1
    BY <1>1, <1>4, <1>6
  <2>2. \A i \in b .. Len(out.pins) : out.pins[i] \in Nat BY <1>1, <1>4
  <2>3. b \in Int /\ Len(out.pins) \in Int /\ k \in 1 .. Len(out.pins) - b + 1 BY <2>1
  <2>4. UsedPins(out)[k] = out.pins[b + k - 1] BY <1>2, <2>2, <2>3, SubSeqProperties
  <2> QED BY <1>6, <2>4
<1>8. k - 1 + b = 1 => b # 2 BY <1>1, <1>6
<1> QED BY <1>3, <1>4, <1>6, <1>7, <1>8 DEF b

LEMMA WiredOutput ==
  ASSUME NEW c, Wired(c), NEW i \in DOMAIN c.outputs, c.outputs[i].type \in OutputTypes
  PROVE  ValidOutput(c.outputs[i])
<1> DEFINE out == c.outputs[i]
           Unused(k) == out.pins[k] = NoPin /\ out.type = "pixels" /\ k = 1
<1>1. ASSUME NEW k \in DOMAIN out.pins, NEW l \in DOMAIN out.pins
      PROVE  Unused(k) \/ (out.pins[k] <= MAX_PIN_NUM /\ (out.pins[k] = out.pins[l] => k = l))
  BY DEF Wired
<1> HIDE DEF out
<1>2. Distinct(out.pins)
  <2> SUFFICES ASSUME NEW k \in DOMAIN out.pins, NEW l \in DOMAIN out.pins, out.pins[k] = out.pins[l]
               PROVE  k = l
    BY DEF Distinct
  <2>1. Unused(k) \/ k = l BY <1>1
  <2>2. Unused(l) \/ l = k BY <1>1
  <2> QED BY <2>1, <2>2
<1>3. \A k \in DOMAIN out.pins : out.pins[k] <= MAX_PIN_NUM \/ Unused(k) BY <1>1
<1>4. ValidOutput(out) BY <1>2, <1>3 DEF ValidOutput, out
<1> QED BY <1>4 DEF out

LEMMA WiredIsValid ==
  ASSUME NEW hdr, ValidHeader(hdr), NEW outs \in Seq(Output), NEW c, c.outputs = outs, Wired(c),
         \A i \in DOMAIN outs : outs[i].type \in OutputTypes, hdr.num = Len(outs)
  PROVE  ValidConfig(hdr, outs)
<1> DEFINE u == [i \in DOMAIN outs |-> UsedPins(outs[i])]
<1>0. Len(outs) \in Nat /\ DOMAIN outs = 1 .. Len(outs) /\ \A i \in DOMAIN outs : outs[i] \in Output
  OBVIOUS
<1>1. u \in Seq(Seq(Nat)) /\ DOMAIN u = DOMAIN outs
  <2>1. u \in [1 .. Len(outs) -> Seq(Nat)] BY <1>0, UsedPart
  <2> QED BY <1>0, <2>1
<1>2. ASSUME NEW i \in DOMAIN outs PROVE ValidOutput(outs[i]) BY WiredOutput
<1>3. ASSUME NEW i \in DOMAIN outs, NEW j \in DOMAIN outs, NEW k \in DOMAIN u[i], NEW l \in DOMAIN u[j]
      PROVE  u[i][k] \in PinMap /\ (u[i][k] = u[j][l] => i = j /\ k = l)
  <2> DEFINE a == k - 1 + FirstUsed(outs[i])
             b == l - 1 + FirstUsed(outs[j])
  <2>1. /\ a \in DOMAIN outs[i].pins /\ u[i][k] = outs[i].pins[a] /\ k \in Nat
        /\ ~(a = 1 /\ outs[i].type = "pixels" /\ outs[i].pins[1] = NoPin)
    BY <1>0, PinUsed
  <2>2. b \in DOMAIN outs[j].pins /\ u[j][l] = outs[j].pins[b] /\ l \in Nat BY <1>0, PinUsed
  <2>3. FirstUsed(outs[i]) \in Nat BY DEF FirstUsed
  <2>4. i = j /\ a = b => k = l BY <2>1, <2>2, <2>3
  <2> HIDE DEF a, b, u
  <2>5. ~(outs[i].pins[a] = NoPin /\ outs[i].type = "pixels" /\ a = 1) BY <2>1
  <2>6. outs[i].pins[a] \in PinMap /\ (outs[i].pins[a] = outs[j].pins[b] => i = j /\ a = b)
    BY <2>1, <2>2, <2>5 DEF Wired
  <2> QED BY <2>1, <2>2, <2>4, <2>6
<1>4. Distinct(FlattenSeq(u)) /\ Range(FlattenSeq(u)) \subseteq PinMap
  <2> HIDE DEF u
  <2>1. \A i, j \in DOMAIN u : \A k \in DOMAIN u[i], l \in DOMAIN u[j] :
          u[i][k] \in PinMap /\ (u[i][k] = u[j][l] => i = j /\ k = l)
    BY <1>1, <1>3
  <2> QED BY <1>1, <2>1, ApartFlattens
<1> QED BY <1>2, <1>4 DEF ValidConfig, ValidEach
-----------------------------------------------------------------------------
(* The first k - 1 outputs lie one after the other, and the next goes to   *)
(* the address that follows.                                               *)
LaidAt(P, mem, outs, k, at) ==
  /\ P[1] = HeaderSize /\ P[k] = at /\ at <= HeaderSize + 2 * (k - 1)
  /\ \A i \in 1 .. k - 1 :
       /\ P[i] < at /\ P[i] >= HeaderSize
       /\ mem[P[i]] = outs[i] /\ P[i + 1] = P[i] + OutputSize(outs[i])
Laid(mem, outs, k, at) == \E P \in [1 .. k -> Cells] : LaidAt(P, mem, outs, k, at)

LEMMA LaidIsStored ==
  ASSUME NEW mem, NEW outs \in Seq(Output), NEW hdr, mem[0] = hdr, hdr # NULL, hdr.num = Len(outs),
         hdr.version = CONFIG_VERSION, NEW at, Laid(mem, outs, Len(outs) + 1, at)
  PROVE  Readable(mem) /\ Stored(mem) = [header |-> hdr, outputs |-> outs]
<1> DEFINE num == Len(outs)
<1>0. num \in Nat /\ \A i \in 1 .. num : outs[i] \in Output /\ outs[i] # NULL BY NullAssumption
<1>1. Cells \subseteq Nat BY SessionAssumption DEF Cells, HeaderSize
<1> HIDE DEF num
<1>2. PICK P \in [1 .. num + 1 -> Cells] :
        /\ P[1] = HeaderSize
        /\ \A i \in 1 .. num : mem[P[i]] = outs[i] /\ P[i + 1] = P[i] + OutputSize(outs[i])
  <2>1. num + 1 - 1 = num BY <1>0
  <2> QED BY <2>1 DEF Laid, LaidAt, num
<1>3. P \in [1 .. num + 1 -> Nat] BY <1>1
<1>4. \A i \in 1 .. num : mem[P[i]] # NULL /\ P[i + 1] = P[i] + OutputSize(mem[P[i]]) BY <1>0, <1>2
<1>5. \A i \in 1 .. num + 1 : Chain(mem, num)[i] = P[i]
  <2>1. Follows(mem, num, P) BY <1>2, <1>3, <1>4 DEF Follows
  <2> QED BY <1>0, <2>1, ChainFollows
<1>6. Readable(mem)
  <2>1. num + 1 \in 1 .. num + 1 BY <1>0
  <2>2. Chain(mem, num)[num + 1] # -1 BY <1>3, <1>5, <2>1
  <2> QED BY <2>2 DEF Readable, HasHeader, num
<1>7. [i \in 1 .. num |-> mem[Chain(mem, num)[i]]] = outs
  <2>1. \A i \in 1 .. num : mem[Chain(mem, num)[i]] = outs[i]
    <3> SUFFICES ASSUME NEW i \in 1 .. num PROVE mem[Chain(mem, num)[i]] = outs[i] OBVIOUS
    <3>1. i \in 1 .. num + 1 BY <1>0
    <3> QED BY <1>2, <1>5, <3>1
  <2>2. outs = [i \in 1 .. num |-> outs[i]] BY DEF num
  <2> QED BY <2>1, <2>2
<1> QED BY <1>6, <1>7 DEF Stored, num

LEMMA StoresMore ==
  ASSUME NEW mem, NEW outs \in Seq(Output), NEW k \in 1 .. Len(outs), Len(outs) <= HMTL_MAX_OUTPUTS,
         NEW at \in Nat, at # 0, Laid(mem, outs, k, at), NEW new,
         new = Stores(mem, at, OutputSize(outs[k]), outs[k])
  PROVE  new[0] = mem[0] /\ Laid(new, outs, k + 1, at + OutputSize(outs[k]))
<1> DEFINE size == OutputSize(outs[k])
           end == at + size
<1>0. size \in {1, 2} BY DEF OutputSize
<1>1. k \in Nat /\ k >= 1 /\ k <= HMTL_MAX_OUTPUTS
  <2>1. Len(outs) \in Nat OBVIOUS
  <2> QED BY <2>1, SessionAssumption
<1> HIDE DEF size
<1>2. PICK P \in [1 .. k -> Cells] :
        /\ P[1] = HeaderSize /\ P[k] = at /\ at <= HeaderSize + 2 * (k - 1)
        /\ \A i \in 1 .. k - 1 :
             /\ P[i] < at /\ P[i] >= HeaderSize
             /\ mem[P[i]] = outs[i] /\ P[i + 1] = P[i] + OutputSize(outs[i])
  BY DEF Laid, LaidAt
<1>3. end \in Cells /\ end <= HeaderSize + 2 * k /\ at \in Cells /\ 0 \in Cells
  BY <1>0, <1>1, <1>2, SessionAssumption DEF Cells, HeaderSize
<1>4. \A a \in Cells : a < at => new[a] = mem[a] BY <1>0, <1>3 DEF Stores, size, Cells, HeaderSize
<1>5. new[at] = outs[k] BY <1>3 DEF Stores
<1>6. new[0] = mem[0] BY <1>3, <1>4
<1> DEFINE Q == [i \in 1 .. k + 1 |-> IF i = k + 1 THEN end ELSE P[i]]
<1>7. Q \in [1 .. k + 1 -> Cells] BY <1>1, <1>2, <1>3
<1>8. Q[1] = HeaderSize /\ Q[k + 1] = end
  <2>1. 1 \in 1 .. k + 1 /\ k + 1 \in 1 .. k + 1 /\ 1 # k + 1 BY <1>1
  <2> HIDE DEF end
  <2> QED BY <1>2, <2>1
<1>9. ASSUME NEW i \in 1 .. k
      PROVE  Q[i] < end /\ Q[i] >= HeaderSize /\ new[Q[i]] = outs[i] /\ Q[i + 1] = Q[i] + OutputSize(outs[i])
  <2>1. i \in 1 .. k + 1 /\ i + 1 \in 1 .. k + 1 /\ i # k + 1 /\ Q[i] = P[i] BY <1>1
  <2>2. CASE i = k
    <3>1. Q[i] = at /\ Q[i + 1] = end /\ at >= HeaderSize BY <1>2, <2>1, <2>2 DEF HeaderSize
    <3>2. at < end /\ end = at + OutputSize(outs[i]) BY <1>0, <2>2 DEF size
    <3> HIDE DEF end, Q
    <3> QED BY <1>5, <2>2, <3>1, <3>2
  <2>3. CASE i # k
    <3>1. i \in 1 .. k - 1 BY <1>1, <2>3
    <3>2. P[i] \in Cells /\ P[i] < at /\ P[i] >= HeaderSize /\ mem[P[i]] = outs[i]
          /\ P[i + 1] = P[i] + OutputSize(outs[i])
      BY <1>2, <3>1
    <3>3. Q[i + 1] = P[i + 1] BY <1>1, <3>1
    <3>4. new[P[i]] = outs[i] BY <1>4, <3>2
    <3>5. P[i] < end BY <1>0, <3>2, SessionAssumption DEF Cells, HeaderSize
    <3> HIDE DEF Q
    <3> QED BY <2>1, <3>2, <3>3, <3>4, <3>5
  <2> QED BY <2>2, <2>3
<1>10. k + 1 - 1 = k BY <1>1
<1>11. Laid(new, outs, k + 1, end)
  <2> HIDE DEF Q, end
  <2>1. end <= HeaderSize + 2 * (k + 1 - 1) BY <1>3, <1>10
  <2>2. \A i \in 1 .. k + 1 - 1 :
          /\ Q[i] < end /\ Q[i] >= HeaderSize
          /\ new[Q[i]] = outs[i] /\ Q[i + 1] = Q[i] + OutputSize(outs[i])
    BY <1>9, <1>10
  <2>3. LaidAt(Q, new, outs, k + 1, end) BY <1>8, <2>1, <2>2 DEF LaidAt
  <2> QED BY <1>7, <2>3 DEF Laid
<1> QED BY <1>6, <1>11 DEF size
-----------------------------------------------------------------------------
(* The script and the sketch take turns: what is on the line, in the works *)
(* or on its way back belongs to the first command that is not confirmed;  *)
(* and "write" is only ever sent after "end".                              *)
Turns ==
  /\ line = NULL \/ place = NULL
  /\ job = NULL => todo = <<>> /\ ~waiting
  /\ job # NULL =>
       /\ ~waiting => line = NULL /\ place = NULL /\ reply = NULL
       /\ waiting => todo # <<>>
       /\ reply # NULL => line = NULL /\ place = NULL
       /\ line # NULL => line = Head(todo) \/ line.op = "garbage"
       /\ place # NULL => Head(todo).op = "write"
EndsFirst(s) == \A i \in 1 .. Len(s) - 1 : s[i + 1].op = "write" => s[i].op = "end"
TurnInv == Turns /\ EndsFirst(todo)

Plain(s) == s \in Seq(AllCommands) /\ \A i \in 1 .. Len(s) : s[i].op # "write"
Ended(s) == s # <<>> /\ s[Len(s)].op = "end"

LEMMA PlainJoined ==
  ASSUME NEW s, NEW t, Plain(s), Plain(t)
  PROVE  Plain(s \o t) /\ (Ended(t) => Ended(s \o t))
<1> HIDE DEF AllCommands
<1>0. /\ s \in Seq(AllCommands) /\ t \in Seq(AllCommands)
      /\ \A i \in 1 .. Len(s) : s[i].op # "write"
      /\ \A i \in 1 .. Len(t) : t[i].op # "write"
  BY DEF Plain
<1>1. s \o t \in Seq(AllCommands) /\ Len(s \o t) = Len(s) + Len(t) /\ Len(s) \in Nat /\ Len(t) \in Nat
  BY <1>0
<1>2. \A i \in 1 .. Len(s \o t) : (s \o t)[i].op # "write"
  <2> SUFFICES ASSUME NEW i \in 1 .. Len(s) + Len(t) PROVE (s \o t)[i].op # "write" BY <1>1
  <2>1. CASE i <= Len(s)
    <3>1. (s \o t)[i] = s[i] BY <1>0, <2>1
    <3> QED BY <1>0, <1>1, <2>1, <3>1
  <2>2. CASE i > Len(s)
    <3>1. (s \o t)[i] = t[i - Len(s)] BY <1>0, <2>2
    <3> QED BY <1>0, <1>1, <2>2, <3>1
  <2> QED BY <1>1, <2>1, <2>2
<1>3. ASSUME Ended(t) PROVE Ended(s \o t)
  <2>1. Len(t) >= 1 /\ t[Len(t)].op = "end" BY <1>0, <1>3 DEF Ended
  <2>2. (s \o t)[Len(s) + Len(t)] = t[Len(t)] BY <1>0, <2>1
  <2> QED BY <1>1, <2>1, <2>2 DEF Ended
<1> QED BY <1>1, <1>2, <1>3 DEF Plain

LEMMA ScriptIsPlain ==
  ASSUME NEW j \in Jobs
  PROVE  LET s == IF "file" \in DOMAIN j THEN SendConfiguration(j.file) ELSE SendAddress(j.address)
         IN  Plain(s) /\ Ended(s)
<1>0. \A op \in {"start", "end", "read"} : Command(op) \in AllCommands /\ Command(op).op = op
  BY SimpleCommands DEF Command
<1>1. CASE "file" \in DOMAIN j
  <2>1. j \in [file : {f \in Files : ValidFile(f)}] BY <1>1 DEF Jobs
  <2>2. j.file \in Files BY <2>1
  <2> DEFINE f == j.file
             h == [op |-> "header", hdr |-> HeaderOf(f)]
             a == <<Command("start"), h>>
             b == [i \in DOMAIN f.outputs |-> [op |-> "output", output |-> f.outputs[i]]]
             c == <<Command("end")>>
  <2>3. Plain(b)
    <3> DEFINE n == Len(f.outputs)
    <3>1. n \in Nat /\ b \in [1 .. n -> AllCommands] BY <2>2, FileType, SimpleCommands
    <3>2. b \in Seq(AllCommands) /\ Len(b) = n
      <4> HIDE DEF b, n
      <4> QED BY <3>1, FunctionSeq
    <3>3. \A i \in 1 .. n : b[i].op = "output" BY <2>2, FileType
    <3> HIDE DEF b, n
    <3> QED BY <3>2, <3>3 DEF Plain
  <2>4. h \in AllCommands /\ h.op = "header" BY <2>2, RoomForFile, SimpleCommands
  <2> HIDE DEF h, f, AllCommands, Command, b
  <2>5. Plain(a) BY <1>0, <2>4 DEF Plain
  <2>6. Plain(c) /\ Ended(c) BY <1>0 DEF Plain, Ended
  <2> HIDE DEF a, c
  <2>7. Plain(a \o b) BY <2>3, <2>5, PlainJoined
  <2>8. Plain((a \o b) \o c) /\ Ended((a \o b) \o c) BY <2>6, <2>7, PlainJoined
  <2>9. SendConfiguration(j.file) = (a \o b) \o c BY DEF SendConfiguration, a, b, c, h, f
  <2> QED BY <1>1, <2>8, <2>9
<1>2. CASE "file" \notin DOMAIN j
  <2>1. j \in [address : Addresses] BY <1>2 DEF Jobs
  <2>2. j.address \in Nat BY <2>1, SessionAssumption
  <2> DEFINE h == [op |-> "address", address |-> j.address]
             s == <<Command("read"), Command("start"), h, Command("end")>>
  <2>3. h \in AllCommands /\ h.op = "address" BY <2>2, SimpleCommands
  <2> HIDE DEF h, AllCommands, Command
  <2>4. Plain(s) BY <1>0, <2>3 DEF Plain
  <2>5. Ended(s) BY <1>0 DEF Ended
  <2>6. SendAddress(j.address) = s BY DEF SendAddress, h
  <2> QED BY <1>2, <2>4, <2>5, <2>6
<1> QED BY <1>1, <1>2

LEMMA PlainEnds ==
  ASSUME NEW s, Plain(s), s # <<>> PROVE EndsFirst(s) /\ Head(s).op # "write"
<1> HIDE DEF AllCommands
<1>1. s \in Seq(AllCommands) /\ \A i \in 1 .. Len(s) : s[i].op # "write" BY DEF Plain
<1>2. Len(s) \in Nat /\ Len(s) >= 1 /\ Head(s) = s[1] BY <1>1
<1>3. EndsFirst(s) BY <1>1, <1>2 DEF EndsFirst
<1> QED BY <1>1, <1>2, <1>3

LEMMA WriteAfter ==
  ASSUME NEW s, Plain(s), Ended(s), NEW c \in AllCommands
  PROVE  EndsFirst(s \o <<c>>) /\ s \o <<c>> # <<>> /\ Head(s \o <<c>>).op # "write"
<1> DEFINE t == s \o <<c>>
<1> HIDE DEF AllCommands
<1>1. s \in Seq(AllCommands) /\ \A i \in 1 .. Len(s) : s[i].op # "write" BY DEF Plain
<1>2. Len(s) \in Nat /\ Len(s) >= 1 /\ s[Len(s)].op = "end" BY <1>1 DEF Ended
<1>3. t \in Seq(AllCommands) /\ Len(t) = Len(s) + 1 /\ \A i \in 1 .. Len(s) : t[i] = s[i] BY <1>1
<1> HIDE DEF t
<1>4. EndsFirst(t)
  <2> SUFFICES ASSUME NEW i \in 1 .. Len(t) - 1, t[i + 1].op = "write" PROVE t[i].op = "end" BY DEF EndsFirst
  <2>1. i \in 1 .. Len(s) /\ (i + 1 \in 1 .. Len(s) \/ i = Len(s)) BY <1>2, <1>3
  <2> QED BY <1>1, <1>2, <1>3, <2>1
<1>5. t # <<>> /\ Head(t) = t[1] /\ t[1].op # "write" BY <1>1, <1>2, <1>3
<1> QED BY <1>4, <1>5 DEF t

LEMMA CommandsEnd ==
  ASSUME NEW j \in Jobs, NEW write \in BOOLEAN
  PROVE  /\ EndsFirst(Commands(j, write)) /\ Commands(j, write) # <<>>
         /\ Head(Commands(j, write)).op # "write"
<1> DEFINE s == IF "file" \in DOMAIN j THEN SendConfiguration(j.file) ELSE SendAddress(j.address)
           all == Commands(j, write)
<1>1. Plain(s) /\ Ended(s) BY ScriptIsPlain
<1>2. CASE write /\ ~NoAddress(j)
  <2>1. all = s \o <<Command("write")>> BY <1>2 DEF Commands
  <2>2. Command("write") \in AllCommands BY SimpleCommands
  <2> HIDE DEF all, s
  <2>3. EndsFirst(all) /\ all # <<>> /\ Head(all).op # "write" BY <1>1, <2>1, <2>2, WriteAfter
  <2> QED BY <2>3 DEF all
<1>3. CASE ~(write /\ ~NoAddress(j))
  <2>1. all = s \o <<>> BY <1>3 DEF Commands
  <2> HIDE DEF all, s
  <2>2. s \in Seq(AllCommands) /\ s # <<>> BY <1>1 DEF Plain, Ended
  <2>3. s \o <<>> = s
    <3> HIDE DEF AllCommands
    <3> QED BY <2>2
  <2>4. EndsFirst(s) /\ Head(s).op # "write" BY <1>1, <2>2, PlainEnds
  <2> QED BY <2>1, <2>2, <2>3, <2>4 DEF all
<1> QED BY <1>2, <1>3

LEMMA RestEnds ==
  ASSUME NEW s \in Seq(AllCommands), s # <<>>, EndsFirst(s)
  PROVE  /\ EndsFirst(Tail(s))
         /\ Tail(s) # <<>> /\ Head(Tail(s)).op = "write" => Head(s).op = "end"
<1> HIDE DEF AllCommands
<1>1. Len(s) \in Nat /\ Len(s) >= 1 /\ Len(Tail(s)) = Len(s) - 1 /\ Tail(s) \in Seq(AllCommands) OBVIOUS
<1>2. \A i \in 1 .. Len(s) - 1 : Tail(s)[i] = s[i + 1] OBVIOUS
<1>3. EndsFirst(Tail(s))
  <2> SUFFICES ASSUME NEW i \in 1 .. Len(Tail(s)) - 1, Tail(s)[i + 1].op = "write" PROVE Tail(s)[i].op = "end"
    BY DEF EndsFirst
  <2>1. i + 1 \in 1 .. Len(s) - 1 /\ i \in 1 .. Len(s) - 1 BY <1>1
  <2>2. Tail(s)[i] = s[i + 1] /\ Tail(s)[i + 1] = s[(i + 1) + 1] BY <1>2, <2>1
  <2> QED BY <2>1, <2>2 DEF EndsFirst
<1>4. ASSUME Tail(s) # <<>>, Head(Tail(s)).op = "write" PROVE Head(s).op = "end"
  <2>1. 1 \in 1 .. Len(s) - 1 BY <1>1, <1>4
  <2>2. Head(Tail(s)) = Tail(s)[1] /\ Tail(s)[1] = s[1 + 1] /\ Head(s) = s[1] BY <1>1, <1>2, <1>4, <2>1
  <2> QED BY <1>4, <2>1, <2>2 DEF EndsFirst
<1> QED BY <1>3, <1>4
-----------------------------------------------------------------------------
LEMMA ScriptTurns ==
  ASSUME Inv, TurnInv, Begin \/ Send \/ Confirm \/ End PROVE TurnInv'
<1> USE NullAssumption
<1>0. todo \in Seq(AllCommands) /\ job \in Jobs \cup {NULL} BY Facts DEF ScriptOK
<1>1. CASE Begin
  <2>1. PICK j \in Jobs, write \in BOOLEAN : job' = j /\ todo' = Commands(j, write) BY <1>1 DEF Begin
  <2>2. EndsFirst(todo') /\ todo' # <<>> BY <2>1, CommandsEnd
  <2>3. job' # NULL /\ ~waiting' /\ line' = NULL /\ place' = NULL /\ reply' = NULL
    BY <1>1, <2>1 DEF Begin, TurnInv, Turns
  <2> QED BY <2>2, <2>3 DEF TurnInv, Turns
<1>2. CASE Send BY <1>2 DEF Send, TurnInv, Turns
<1>3. CASE Confirm
  <2>1. job # NULL /\ todo # <<>> BY <1>3 DEF Confirm, TurnInv, Turns
  <2>2. EndsFirst(todo') BY <1>0, <1>3, <2>1, RestEnds DEF Confirm, TurnInv
  <2>3. line = NULL /\ place = NULL BY <1>3, <2>1 DEF Confirm, TurnInv, Turns
  <2>4. job' # NULL /\ ~waiting' /\ line' = NULL /\ place' = NULL /\ reply' = NULL
    BY <1>3, <2>1, <2>3 DEF Confirm
  <2> QED BY <2>2, <2>4 DEF TurnInv, Turns
<1>4. CASE End
  <2>1. EndsFirst(<<>>) BY DEF EndsFirst
  <2>2. todo' = <<>> /\ job' = NULL /\ ~waiting' /\ UNCHANGED <<line, place>> BY <1>4 DEF End
  <2> QED BY <2>1, <2>2 DEF TurnInv, Turns
<1> QED BY <1>1, <1>2, <1>3, <1>4

LEMMA AnswerTurns ==
  ASSUME TurnInv, line # NULL, place = NULL, NEW r, Answers(r), place' = NULL
  PROVE  TurnInv'
BY DEF TurnInv, Turns, Answers, script

LEMMA SketchTurns == ASSUME Inv, TurnInv, Sketch PROVE TurnInv'
<1> USE NullAssumption
<1>1. CASE HandleStart \/ HandleHeader \/ HandleAddress \/ HandleOutput \/ HandleEnd \/ HandleRead
  <2>1. line # NULL /\ place = NULL
    BY <1>1 DEF HandleStart, HandleHeader, HandleAddress, HandleOutput, HandleEnd, HandleRead, Takes
  <2>2. (\E r \in {"ok", "fail"} : Answers(r)) /\ place' = place
    BY <1>1 DEF HandleStart, HandleHeader, HandleAddress, HandleOutput, HandleEnd, HandleRead,
       Acks, Fails, Stays
  <2> QED BY <2>1, <2>2, AnswerTurns
<1>2. CASE HandleWrite
  <2>1. line # NULL /\ place = NULL /\ line.op = "write" BY <1>2 DEF HandleWrite, Takes
  <2>2. CASE state = "DONE" /\ Sizable(outputs)
    BY <1>2, <2>1, <2>2 DEF HandleWrite, TurnInv, Turns, script
  <2>3. CASE ~(state = "DONE" /\ Sizable(outputs))
    <3>1. Answers("fail") /\ place' = NULL BY <1>2, <2>1, <2>3 DEF HandleWrite, Fails
    <3> QED BY <2>1, <3>1, AnswerTurns
  <2> QED BY <2>2, <2>3
<1>3. CASE WriteRecord BY <1>3 DEF WriteRecord, TurnInv, Turns, script
<1>4. CASE HandleGarbage BY <1>4 DEF HandleGarbage, TurnInv, Turns, script
<1> QED BY <1>1, <1>2, <1>3, <1>4 DEF Sketch

LEMMA FaultTurns == ASSUME TurnInv, LoseBytes \/ LoseReply \/ Reset PROVE TurnInv'
<1>1. Command("garbage").op = "garbage" BY DEF Command
<1>2. CASE LoseBytes BY <1>1, <1>2 DEF LoseBytes, TurnInv, Turns, script
<1>3. CASE LoseReply BY <1>3 DEF LoseReply, TurnInv, Turns, script
<1>4. CASE Reset BY <1>4 DEF Reset, TurnInv, Turns, script
<1> QED BY <1>2, <1>3, <1>4

LEMMA StepTurns == ASSUME Inv, TurnInv, [Next]_vars PROVE TurnInv'
<1>1. CASE UNCHANGED vars BY <1>1 DEF vars, script, TurnInv, Turns
<1> QED BY <1>1, ScriptTurns, SketchTurns, FaultTurns DEF Next
-----------------------------------------------------------------------------
(* Outputs, in memory and in EEPROM, are outputs of some file; the header  *)
(* in memory is one the sketch accepts, that in EEPROM one of its own      *)
(* version.                                                                *)
Holds ==
  /\ outputs \in Seq(Output)
  /\ \A a \in Cells \ {0} : eeprom[a] \in Output \cup {NULL}
  /\ config_hdr # NULL => ValidHeader(config_hdr)
  /\ eeprom[0] # NULL => eeprom[0].version = CONFIG_VERSION

(* What a write has laid down so far.                                      *)
Writing ==
  place # NULL =>
    /\ ValidConfig(config_hdr, outputs) /\ Sizable(outputs)
    /\ config_hdr.version = CONFIG_VERSION
    /\ IF place.index = 0 THEN place.addr = 0
       ELSE eeprom[0] = config_hdr /\ Laid(eeprom, outputs, place.index, place.addr)

LEMMA HeaderCount ==
  ASSUME NEW hdr \in Header \cup {NULL}, hdr # NULL
  PROVE  /\ hdr.num \in Nat /\ hdr.num <= HMTL_MAX_OUTPUTS
         /\ hdr.version = CONFIG_VERSION => ValidHeader(hdr)
BY SessionAssumption DEF Header, ValidHeader, Count, CONFIG_VERSION

LEMMA SameHolds == ASSUME Holds, UNCHANGED <<outputs, config_hdr, eeprom>> PROVE Holds'
BY DEF Holds

LEMMA OutputHolds == ASSUME Inv, Holds, HandleOutput PROVE Holds'
<1>1. line # NULL /\ line.op = "output" /\ UNCHANGED <<config_hdr, eeprom>>
  BY DEF HandleOutput, Takes, Acks, Stays, Fails
<1>2. PICK out \in UNION {Range(f.outputs) : f \in Files} : line = [op |-> "output", output |-> out]
  BY <1>1, Facts DEF AllCommands, Command
<1>3. line.output \in Output
  <2>1. PICK f \in Files : out \in Range(f.outputs) BY <1>2
  <2>2. f.outputs \in Seq(Output) BY FileType
  <2>3. out \in Output BY <2>1, <2>2 DEF Range
  <2> QED BY <1>2, <2>3
<1>4. outputs' = outputs \/ outputs' = Append(outputs, line.output) BY DEF HandleOutput
<1>5. outputs' \in Seq(Output) BY <1>3, <1>4 DEF Holds
<1> QED BY <1>1, <1>5 DEF Holds

LEMMA ReadHolds == ASSUME Inv, Holds, HandleRead PROVE Holds'
<1>0. UNCHANGED eeprom BY DEF HandleRead, Stays, Fails
<1>1. eeprom[0] # NULL =>
        eeprom[0].num \in Nat /\ eeprom[0].num <= HMTL_MAX_OUTPUTS /\ ValidHeader(eeprom[0])
  BY Facts, HeaderCount DEF Holds
<1>2. config_hdr' # NULL => ValidHeader(config_hdr') BY <1>1 DEF HandleRead, Readable, HasHeader, Holds
<1> DEFINE num == eeprom[0].num
           at(i) == Chain(eeprom, num)[i]
<1>3. ASSUME eeprom[0] # NULL, NEW i \in 1 .. num, at(i + 1) # -1 PROVE eeprom[at(i)] \in Output
  <2>1. \A a \in Cells \ {0} : eeprom[a] \in Output \cup {NULL} BY DEF Holds
  <2> QED BY <1>1, <1>3, <2>1, ChainReads
<1>4. outputs' \in Seq(Output)
  <2>1. CASE Readable(eeprom)
    <3>1. eeprom[0] # NULL /\ at(num + 1) # -1 BY <2>1 DEF Readable, HasHeader
    <3>2. outputs' = [i \in 1 .. num |-> eeprom[at(i)]] BY <2>1 DEF HandleRead, Stored
    <3>3. \A i \in 1 .. num : i + 1 \in 1 .. num + 1 BY <1>1, <3>1
    <3>4. \A i \in 1 .. num : at(i + 1) # -1 BY <1>1, <3>1, <3>3, ChainBack
    <3>5. outputs' \in [1 .. num -> Output] BY <1>3, <3>1, <3>2, <3>4
    <3> QED BY <1>1, <3>1, <3>5, FunctionSeq
  <2>2. CASE ~Readable(eeprom)
    <3> DEFINE read(i) == HasHeader(eeprom) /\ i <= num /\ at(i + 1) # -1
    <3>1. outputs' = [i \in DOMAIN outputs |->
                        IF read(i) THEN eeprom[at(i)] ELSE [type |-> "none", pins |-> <<>>]]
      BY <2>2 DEF HandleRead
    <3>2. DOMAIN outputs = 1 .. Len(outputs) /\ Len(outputs) \in Nat BY DEF Holds
    <3>3. \A i \in 1 .. Len(outputs) : read(i) => eeprom[at(i)] \in Output
      <4> SUFFICES ASSUME NEW i \in 1 .. Len(outputs), read(i) PROVE eeprom[at(i)] \in Output OBVIOUS
      <4>1. eeprom[0] # NULL BY DEF HasHeader
      <4>2. i \in 1 .. num BY <1>1, <4>1
      <4> QED BY <1>3, <4>1, <4>2
    <3>4. [type |-> "none", pins |-> <<>>] \in Output
      <4>1. "none" \in CONFIG_TYPES \cup {"none"} OBVIOUS
      <4>2. <<>> \in Seq(Nat) OBVIOUS
      <4> QED BY <4>1, <4>2 DEF Output
    <3> HIDE DEF read, at
    <3>5. outputs' \in [1 .. Len(outputs) -> Output] BY <3>1, <3>2, <3>3, <3>4
    <3> QED BY <3>2, <3>5, FunctionSeq
  <2> QED BY <2>1, <2>2
<1> QED BY <1>0, <1>2, <1>4 DEF Holds

LEMMA StoresHolds ==
  ASSUME NEW at \in Nat, NEW size, NEW record,
         at # 0 => record \in Output \cup {NULL},
         at = 0 /\ record # NULL => record.version = CONFIG_VERSION,
         Holds, eeprom' = Stores(eeprom, at, size, record), outputs' \in Seq(Output),
         config_hdr' # NULL => ValidHeader(config_hdr')
  PROVE  Holds'
<1>1. 0 \in Cells BY SessionAssumption DEF Cells, HeaderSize
<1>2. \A a \in Cells \ {0} : eeprom'[a] \in Output \cup {NULL} BY DEF Stores, Holds
<1>3. eeprom'[0] # NULL => eeprom'[0].version = CONFIG_VERSION BY <1>1 DEF Stores, Holds
<1> QED BY <1>2, <1>3 DEF Holds

LEMMA AddressedHeader ==
  ASSUME NEW hdr \in Header, ValidHeader(hdr), NEW address \in Nat
  PROVE  ValidHeader([hdr EXCEPT !.address = address])
<1> DEFINE new == [hdr EXCEPT !.address = address]
<1>1. new.version = hdr.version /\ new.baud = hdr.baud /\ new.num = hdr.num /\ new.device_id = hdr.device_id
  BY DEF Header
<1>2. new # NULL
  <2>1. new \in Header BY DEF Header
  <2> QED BY <2>1, NullAssumption
<1> HIDE DEF new
<1> QED BY <1>1, <1>2 DEF ValidHeader, Count, new

LEMMA StepHolds == ASSUME Inv, Holds, Writing, [Next]_vars PROVE Holds'
<1>1. CASE Begin \/ Send \/ Confirm \/ End \/ LoseBytes \/ LoseReply \/ UNCHANGED vars
  <2>1. UNCHANGED <<outputs, config_hdr, eeprom>>
    BY <1>1 DEF Begin, Send, Confirm, End, LoseBytes, LoseReply, vars, sketch
  <2> QED BY <2>1, SameHolds
<1>2. CASE HandleStart \/ HandleEnd \/ HandleGarbage
  <2>1. UNCHANGED <<outputs, config_hdr, eeprom>>
    BY <1>2 DEF HandleStart, HandleEnd, HandleGarbage, Stays, Fails, sketch
  <2> QED BY <2>1, SameHolds
<1>8. CASE HandleWrite
  <2>1. UNCHANGED <<outputs, eeprom>> BY <1>8 DEF HandleWrite, Fails
  <2>2. config_hdr' = config_hdr \/ (state = "DONE" /\ config_hdr' = Stamped(config_hdr))
    BY <1>8 DEF HandleWrite
  <2>3. state = "DONE" => config_hdr \in Header BY Facts
  <2>4. config_hdr' # NULL => ValidHeader(config_hdr') BY <2>2, <2>3, StampedHeader DEF Holds
  <2> QED BY <2>1, <2>4 DEF Holds
<1>3. CASE HandleHeader \/ HandleAddress
  <2>1. UNCHANGED <<outputs, eeprom>> BY <1>3 DEF HandleHeader, HandleAddress, Stays, Fails
  <2>2. config_hdr' # NULL => ValidHeader(config_hdr')
    <3>1. CASE HandleHeader BY <3>1 DEF HandleHeader, Holds
    <3>2. CASE HandleAddress
      <4>1. CASE config_hdr = NULL BY <3>2, <4>1 DEF HandleAddress
      <4>2. CASE config_hdr # NULL
        <5>1. config_hdr \in Header /\ ValidHeader(config_hdr) BY <4>2, Facts DEF Holds
        <5>2. config_hdr' = config_hdr \/ config_hdr' = [config_hdr EXCEPT !.address = line.address]
          BY <3>2, <4>2 DEF HandleAddress
        <5>3. line # NULL /\ line.op = "address" BY <3>2 DEF HandleAddress, Takes
        <5>4. line.address \in Nat BY <5>3, Facts DEF AllCommands, Command
        <5> QED BY <5>1, <5>2, <5>4, AddressedHeader
      <4> QED BY <4>1, <4>2
    <3> QED BY <1>3, <3>1, <3>2
  <2> QED BY <2>1, <2>2 DEF Holds
<1>4. CASE HandleOutput BY <1>4, OutputHolds
<1>5. CASE HandleRead BY <1>5, ReadHolds
<1>6. CASE WriteRecord
  <2>1. /\ place # NULL /\ UNCHANGED <<outputs, config_hdr>>
        /\ eeprom' = Stores(eeprom, place.addr, RecordSize(place.index), Record(place.index))
    BY <1>6 DEF WriteRecord, sketch
  <2>2. /\ place.index \in Nat /\ place.addr \in Nat /\ config_hdr # NULL
        /\ config_hdr.num = Len(outputs) /\ place.index <= config_hdr.num
        /\ (place.addr = 0 <=> place.index = 0)
    BY <2>1, Facts DEF SketchOK, Inv, WriteFindsItsOutputs
  <2>3. place.addr # 0 => Record(place.index) \in Output \cup {NULL}
    <3> SUFFICES ASSUME place.index # 0 PROVE Record(place.index) \in Output \cup {NULL} BY <2>2
    <3>1. outputs[place.index] \in Output BY <2>2 DEF Holds
    <3> QED BY <3>1 DEF Record
  <2>4. place.addr = 0 => Record(place.index) = config_hdr /\ config_hdr.version = CONFIG_VERSION
    BY <2>1, <2>2 DEF Record, Writing
  <2>5. outputs' \in Seq(Output) /\ (config_hdr' # NULL => ValidHeader(config_hdr')) BY <2>1 DEF Holds
  <2> QED BY <2>1, <2>2, <2>3, <2>4, <2>5, StoresHolds
<1>7. CASE Reset
  <2>1. outputs' = <<>> /\ config_hdr' = NULL BY <1>7 DEF Reset
  <2>2. CASE UNCHANGED eeprom BY <2>1, <2>2 DEF Holds
  <2>3. CASE place # NULL /\ eeprom' = Stores(eeprom, place.addr, RecordSize(place.index), NULL)
    <3>1. place.addr \in Nat BY <2>3, Facts DEF SketchOK
    <3> QED BY <2>1, <2>3, <3>1, StoresHolds
  <2> QED BY <1>7, <2>2, <2>3 DEF Reset
<1> QED BY <1>1, <1>2, <1>3, <1>4, <1>5, <1>6, <1>7, <1>8 DEF Next, Sketch
-----------------------------------------------------------------------------
(* Who is about to send "write", or has sent it, found the configuration   *)
(* valid: "end" was confirmed and nothing came in between.                 *)
MayWrite ==
  \/ line # NULL /\ line.op = "write"
  \/ todo # <<>> /\ Head(todo).op = "write"
  \/ waiting /\ reply = "ok" /\ Head(todo).op = "end"
Reviewed == state = "DONE" /\ MayWrite => ValidConfig(config_hdr, outputs)
StoreInv == Inv /\ TurnInv /\ Holds /\ Reviewed /\ Writing /\ StoredIsValid

LEMMA ScriptStores ==
  ASSUME StoreInv, Begin \/ Send \/ Confirm \/ End \/ LoseBytes \/ LoseReply
  PROVE  Reviewed' /\ Writing' /\ StoredIsValid'
<1> USE NullAssumption
<1>0. UNCHANGED <<state, config_hdr, outputs, eeprom, place, torn>>
  BY DEF Begin, Send, Confirm, End, LoseBytes, LoseReply, sketch
<1>1. Writing' /\ StoredIsValid' BY <1>0 DEF StoreInv, Writing, StoredIsValid
<1>2. todo \in Seq(AllCommands) BY Facts DEF StoreInv, ScriptOK
<1>3. ASSUME MayWrite' PROVE MayWrite
  <2>1. CASE Begin
    <3>1. PICK j \in Jobs, write \in BOOLEAN : todo' = Commands(j, write) BY <2>1 DEF Begin
    <3>2. Head(todo').op # "write" BY <3>1, CommandsEnd
    <3>3. line' = NULL /\ ~waiting' BY <2>1 DEF Begin, StoreInv, TurnInv, Turns
    <3> QED BY <1>3, <3>2, <3>3 DEF MayWrite
  <2>2. CASE Send
    <3>1. line' = Head(todo) /\ todo' = todo /\ reply' = NULL /\ todo # <<>>
      BY <2>2 DEF Send, StoreInv, TurnInv, Turns
    <3> QED BY <1>3, <3>1 DEF MayWrite
  <2>3. CASE Confirm
    <3>1. waiting /\ reply = "ok" /\ todo # <<>> /\ todo' = Tail(todo) /\ ~waiting' /\ line' = NULL
      BY <2>3 DEF Confirm, StoreInv, TurnInv, Turns
    <3>2. Tail(todo) # <<>> /\ Head(Tail(todo)).op = "write" BY <1>3, <3>1 DEF MayWrite
    <3>3. Head(todo).op = "end" BY <1>2, <3>1, <3>2, RestEnds DEF StoreInv, TurnInv
    <3> QED BY <3>1, <3>3 DEF MayWrite
  <2>4. CASE End BY <1>3, <2>4 DEF End, MayWrite
  <2>5. CASE LoseBytes
    <3>1. Command("garbage").op = "garbage" BY DEF Command
    <3> QED BY <1>3, <2>5, <3>1 DEF LoseBytes, MayWrite, script
  <2>6. CASE LoseReply BY <1>3, <2>6 DEF LoseReply, MayWrite, script
  <2> QED BY <2>1, <2>2, <2>3, <2>4, <2>5, <2>6
<1>4. Reviewed' BY <1>0, <1>3 DEF StoreInv, Reviewed
<1> QED BY <1>1, <1>4

LEMMA CommandStores ==
  ASSUME StoreInv,
         HandleStart \/ HandleHeader \/ HandleAddress \/ HandleOutput \/ HandleEnd \/ HandleRead
         \/ HandleGarbage
  PROVE  Reviewed' /\ Writing' /\ StoredIsValid'
<1> USE DEF HandleStart, HandleHeader, HandleAddress, HandleOutput, HandleEnd, HandleGarbage, HandleRead
<1>1. place = NULL /\ line # NULL BY DEF Takes
<1>2. UNCHANGED <<eeprom, place, torn>> BY DEF Fails, Stays
<1>3. Writing' /\ StoredIsValid' BY <1>1, <1>2 DEF StoreInv, Writing, StoredIsValid
<1>4. Reviewed'
  <2>1. CASE HandleEnd BY <2>1 DEF Fails, Reviewed
  <2>2. CASE HandleStart \/ HandleHeader \/ HandleAddress \/ HandleOutput \/ HandleGarbage
    <3>1. state' # "DONE" BY <2>2 DEF Fails
    <3> QED BY <3>1 DEF Reviewed
  <2>3. CASE HandleRead
    <3>1. line.op = "read" /\ line' = NULL /\ UNCHANGED <<job, todo, waiting>>
      BY <2>3 DEF Takes, Fails, Acks, Answers, script
    <3>2. ~MayWrite'
      <4>1. CASE job = NULL BY <3>1, <4>1 DEF MayWrite, StoreInv, TurnInv, Turns
      <4>2. CASE job # NULL
        <5>1. line = Head(todo) BY <1>1, <3>1, <4>2 DEF StoreInv, TurnInv, Turns
        <5> QED BY <3>1, <5>1 DEF MayWrite
      <4> QED BY <4>1, <4>2
    <3> QED BY <3>2 DEF Reviewed
  <2> QED BY <2>1, <2>2, <2>3
<1> QED BY <1>3, <1>4

LEMMA WriteStores ==
  ASSUME StoreInv, HandleWrite
  PROVE  Reviewed' /\ Writing' /\ StoredIsValid'
<1>1. line # NULL /\ line.op = "write" /\ place = NULL BY DEF HandleWrite, Takes
<1>2. CASE state = "DONE" /\ Sizable(outputs)
  <2>1. /\ place' = [index |-> 0, addr |-> 0] /\ config_hdr' = Stamped(config_hdr)
        /\ UNCHANGED <<state, outputs>>
    BY <1>2 DEF HandleWrite
  <2>2. place' # NULL BY <2>1, NullAssumption
  <2>3. ValidConfig(config_hdr, outputs) BY <1>1, <1>2 DEF StoreInv, Reviewed, MayWrite
  <2>5. config_hdr \in Header BY <1>2, Facts DEF StoreInv
  <2>6. /\ ValidHeader(config_hdr') /\ config_hdr'.num = config_hdr.num
        /\ config_hdr'.version = CONFIG_VERSION
    BY <2>1, <2>5, StampedHeader
  <2>4. ValidConfig(config_hdr', outputs') /\ Sizable(outputs')
    BY <1>2, <2>1, <2>3, <2>6 DEF ValidConfig, ValidEach
  <2> QED BY <2>1, <2>2, <2>4, <2>6 DEF Reviewed, Writing, StoredIsValid
<1>3. CASE ~(state = "DONE" /\ Sizable(outputs))
  <2>1. state' = "ERROR" /\ UNCHANGED <<eeprom, place, torn>> BY <1>3 DEF HandleWrite, Fails
  <2> QED BY <1>1, <2>1 DEF StoreInv, Reviewed, Writing, StoredIsValid
<1> QED BY <1>2, <1>3
-----------------------------------------------------------------------------
(* Every record goes behind those that were written before.                *)
LEMMA RecordLays ==
  ASSUME StoreInv, WriteRecord
  PROVE  /\ eeprom'[0] = config_hdr
         /\ Laid(eeprom', outputs, place.index + 1, place.addr + RecordSize(place.index))
<1>1. /\ place # NULL /\ place.index \in Nat /\ place.addr \in Nat
      /\ config_hdr # NULL /\ config_hdr.num = Len(outputs) /\ place.index <= config_hdr.num
      /\ (place.addr = 0 <=> place.index = 0)
  BY Facts DEF WriteRecord, StoreInv, Inv, WriteFindsItsOutputs, SketchOK
<1>2. /\ ValidConfig(config_hdr, outputs) /\ Sizable(outputs) /\ outputs \in Seq(Output)
      /\ config_hdr.num <= HMTL_MAX_OUTPUTS
  BY <1>1, Facts, HeaderCount DEF StoreInv, Writing, Holds
<1>3. eeprom' = Stores(eeprom, place.addr, RecordSize(place.index), Record(place.index)) BY DEF WriteRecord
<1>4. CASE place.index = 0
  <2>1. eeprom' = Stores(eeprom, 0, HeaderSize, config_hdr) BY <1>1, <1>3, <1>4 DEF Record, RecordSize
  <2>2. 0 \in Cells /\ HeaderSize \in Cells BY SessionAssumption DEF Cells, HeaderSize
  <2>3. eeprom'[0] = config_hdr BY <2>1, <2>2 DEF Stores
  <2> DEFINE P == [i \in 1 .. 1 |-> HeaderSize]
  <2>4. P \in [1 .. 1 -> Cells] /\ P[1] = HeaderSize BY <2>2
  <2>5. \A i \in 1 .. 1 - 1 : FALSE OBVIOUS
  <2>6. HeaderSize <= HeaderSize + 2 * (1 - 1) BY DEF HeaderSize
  <2>7. Laid(eeprom', outputs, 1, HeaderSize)
    <3> HIDE DEF P
    <3>1. LaidAt(P, eeprom', outputs, 1, HeaderSize) BY <2>4, <2>5, <2>6 DEF LaidAt
    <3> QED BY <2>4, <3>1 DEF Laid
  <2>8. place.index + 1 = 1 /\ place.addr + RecordSize(place.index) = HeaderSize
    BY <1>1, <1>4 DEF RecordSize, HeaderSize
  <2> QED BY <2>3, <2>7, <2>8
<1>5. CASE place.index # 0
  <2> DEFINE k == place.index
             at == place.addr
  <2>1. eeprom[0] = config_hdr /\ Laid(eeprom, outputs, k, at) BY <1>1, <1>5 DEF StoreInv, Writing
  <2>2. k \in 1 .. Len(outputs) /\ at # 0 /\ at \in Nat BY <1>1, <1>2, <1>5
  <2>3. RecordSize(k) = OutputSize(outputs[k]) /\ Record(k) = outputs[k]
    <3>1. outputs[k].type \in BuildTypes BY <1>2, <2>2 DEF Sizable
    <3> QED BY <1>5, <3>1 DEF RecordSize, Record
  <2>4. eeprom' = Stores(eeprom, at, OutputSize(outputs[k]), outputs[k]) BY <1>3, <2>3
  <2>5. Len(outputs) <= HMTL_MAX_OUTPUTS BY <1>1, <1>2
  <2> HIDE DEF k, at
  <2>6. eeprom'[0] = eeprom[0] /\ Laid(eeprom', outputs, k + 1, at + OutputSize(outputs[k]))
    BY <1>2, <2>1, <2>2, <2>4, <2>5, StoresMore
  <2> QED BY <2>1, <2>3, <2>6 DEF k, at
<1> QED BY <1>4, <1>5

(* The last record completes what "read" and the module's start will find. *)
LEMMA LastRecord ==
  ASSUME StoreInv, WriteRecord, place.index = config_hdr.num
  PROVE  /\ Readable(eeprom') /\ ValidConfig(config_hdr, outputs)
         /\ Stored(eeprom') = [header |-> config_hdr, outputs |-> outputs]
<1>1. place # NULL /\ config_hdr # NULL /\ config_hdr.num = Len(outputs)
  BY Facts DEF WriteRecord, StoreInv, Inv, WriteFindsItsOutputs
<1>2. /\ ValidConfig(config_hdr, outputs) /\ outputs \in Seq(Output)
      /\ config_hdr.version = CONFIG_VERSION
  BY <1>1 DEF StoreInv, Writing, Holds
<1>3. /\ eeprom'[0] = config_hdr
      /\ Laid(eeprom', outputs, Len(outputs) + 1, place.addr + RecordSize(place.index))
  BY <1>1, RecordLays
<1> QED BY <1>1, <1>2, <1>3, LaidIsStored

LEMMA RecordStores ==
  ASSUME StoreInv, WriteRecord
  PROVE  Reviewed' /\ Writing' /\ StoredIsValid'
<1>1. place # NULL /\ UNCHANGED <<state, config_hdr, outputs>> BY DEF WriteRecord, sketch
<1>2. /\ ValidConfig(config_hdr, outputs) /\ Sizable(outputs)
      /\ config_hdr.version = CONFIG_VERSION
  BY <1>1 DEF StoreInv, Writing
<1>3. /\ ValidConfig(config_hdr, outputs)' /\ Sizable(outputs)'
      /\ config_hdr'.version = CONFIG_VERSION
  BY <1>1, <1>2
<1>4. CASE place.index = config_hdr.num
  <2>1. place' = NULL BY <1>4 DEF WriteRecord
  <2>2. Readable(eeprom') /\ Stored(eeprom').outputs = outputs BY <1>4, LastRecord
  <2>3. outputs \in Seq(Output) BY DEF StoreInv, Holds
  <2>4. Wired(Stored(eeprom')) BY <1>2, <2>2, <2>3, ValidIsWired
  <2> QED BY <1>3, <2>1, <2>2, <2>4 DEF Reviewed, Writing, StoredIsValid
<1>5. CASE place.index # config_hdr.num
  <2>1. place' = [index |-> place.index + 1, addr |-> place.addr + RecordSize(place.index)]
    BY <1>5 DEF WriteRecord
  <2>2. place.index \in Nat BY <1>1, Facts DEF StoreInv, SketchOK
  <2>3. place'.index # 0 /\ place'.index = place.index + 1
        /\ place'.addr = place.addr + RecordSize(place.index)
    BY <2>1, <2>2
  <2>4. place' # NULL
    <3>1. StoreInv /\ Inv BY DEF StoreInv
    <3>2. Inv' BY <3>1, RecordKeeps
    <3>3. place.addr \in Nat /\ RecordSize(place.index) \in Nat
      BY <1>1, <3>1, Facts DEF SketchOK, RecordSize, HeaderSize, OutputSize
    <3>4. place' \in [index : Nat, addr : Nat] BY <2>1, <2>2, <3>3
    <3> QED BY <3>4, NullAssumption
  <2>5. eeprom'[0] = config_hdr' /\ Laid(eeprom', outputs', place'.index, place'.addr)
    BY <1>1, <2>3, RecordLays
  <2> QED BY <1>3, <2>3, <2>4, <2>5 DEF Reviewed, Writing, StoredIsValid
<1> QED BY <1>4, <1>5

LEMMA StoreInit == Init => StoreInv
<1> SUFFICES ASSUME Init PROVE StoreInv OBVIOUS
<1> USE DEF Init
<1>1. Inv BY InitInv
<1>2. TurnInv BY DEF TurnInv, Turns, EndsFirst
<1>3. \A a \in Cells : eeprom[a] = NULL OBVIOUS
<1>4. 0 \in Cells BY SessionAssumption DEF Cells, HeaderSize
<1>5. Holds BY <1>3, <1>4 DEF Holds
<1>6. Reviewed /\ Writing BY DEF Reviewed, Writing
<1>7. StoredIsValid BY <1>3, <1>4 DEF StoredIsValid
<1> QED BY <1>1, <1>2, <1>5, <1>6, <1>7 DEF StoreInv

LEMMA StoreStep == ASSUME StoreInv, [Next]_vars PROVE StoreInv'
<1>1. Inv' BY StepInv DEF StoreInv
<1>2. TurnInv' BY StepTurns DEF StoreInv
<1>3. Holds' BY StepHolds DEF StoreInv
<1>4. CASE Reset
  <2>1. state' = "NEW" /\ place' = NULL BY <1>4 DEF Reset
  <2>2. Reviewed' /\ Writing' BY <2>1 DEF Reviewed, Writing
  <2>3. ASSUME place = NULL PROVE StoredIsValid'
    <3>1. UNCHANGED <<eeprom, place>> /\ (torn' <=> torn) BY <1>4, <2>3 DEF Reset
    <3> QED BY <3>1 DEF StoreInv, StoredIsValid
  <2>4. ASSUME place # NULL PROVE StoredIsValid'
    <3>1. torn' BY <1>4, <2>4 DEF Reset
    <3> QED BY <3>1 DEF StoredIsValid
  <2> QED BY <1>1, <1>2, <1>3, <2>2, <2>3, <2>4 DEF StoreInv
<1>5. CASE UNCHANGED vars
  BY <1>1, <1>2, <1>3, <1>5 DEF vars, script, sketch, StoreInv, Reviewed, MayWrite, Writing, StoredIsValid
<1>6. CASE Begin \/ Send \/ Confirm \/ End \/ LoseBytes \/ LoseReply
  BY <1>1, <1>2, <1>3, <1>6, ScriptStores DEF StoreInv
<1>7. CASE Sketch
  BY <1>1, <1>2, <1>3, <1>7, CommandStores, WriteStores, RecordStores DEF StoreInv, Sketch
<1> QED BY <1>4, <1>5, <1>6, <1>7 DEF Next

LEMMA StoreInductive == Spec => []StoreInv
BY StoreInit, StoreStep, PTL DEF Spec

(* A module that was not reset while it wrote finds in its EEPROM no       *)
(* configuration or one that can be read to its end, with no pin out of    *)
(* range or used twice (HMTLTypes.cpp:514-621), for any files, whatever    *)
(* was written there before, and wherever sessions broke off.              *)
THEOREM StoredCorrect == Spec => []StoredIsValid
<1>1. StoreInv => StoredIsValid BY DEF StoreInv
<1> QED BY <1>1, StoreInductive, PTL
-----------------------------------------------------------------------------
(* The commands of a job, one by one.                                      *)
Joins(r, s, t) ==
  /\ Len(r) = Len(s) + Len(t) /\ \A i \in 1 .. Len(s) : r[i] = s[i]
  /\ \A i \in 1 .. Len(t) : r[Len(s) + i] = t[i]
LEMMA JoinsAll ==
  ASSUME NEW S, NEW s \in Seq(S), NEW t \in Seq(S) PROVE s \o t \in Seq(S) /\ Joins(s \o t, s, t)
<1>1. \A i \in 1 .. Len(s) : (s \o t)[i] = s[i] OBVIOUS
<1>2. \A i \in 1 .. Len(t) : (s \o t)[Len(s) + i] = t[i] BY Joined
<1> QED BY <1>1, <1>2 DEF Joins

SendsFile(all, f) ==
  LET m == Len(f.outputs) IN
  /\ all \in Seq(AllCommands) /\ (Len(all) = m + 3 \/ Len(all) = m + 4) /\ all[1] = Command("start")
  /\ all[2] = [op |-> "header", hdr |-> HeaderOf(f)]
  /\ \A i \in 1 .. m : all[i + 2] = [op |-> "output", output |-> f.outputs[i]]
  /\ all[m + 3] = Command("end")
  /\ Len(all) = m + 4 => all[m + 4] = Command("write")
SendsAddress(all, address) ==
  /\ all \in Seq(AllCommands) /\ (Len(all) = 4 \/ Len(all) = 5)
  /\ all[1] = Command("read") /\ all[2] = Command("start")
  /\ all[3] = [op |-> "address", address |-> address] /\ all[4] = Command("end")
  /\ Len(all) = 5 => all[5] = Command("write")

LEMMA JobKinds ==
  ASSUME NEW j \in Jobs
  PROVE  /\ "file" \in DOMAIN j => j.file \in Files /\ ValidFile(j.file) /\ j = [file |-> j.file]
         /\ "file" \notin DOMAIN j => j.address \in Addresses /\ j.address \in Nat
<1>1. ASSUME "file" \in DOMAIN j PROVE j.file \in Files /\ ValidFile(j.file) /\ j = [file |-> j.file]
  <2>1. j \in [file : {f \in Files : ValidFile(f)}] BY <1>1 DEF Jobs
  <2>2. j.file \in {f \in Files : ValidFile(f)} /\ j = [file |-> j.file] BY <2>1
  <2> QED BY <2>2
<1>2. ASSUME "file" \notin DOMAIN j PROVE j.address \in Addresses /\ j.address \in Nat
  <2>1. j \in [address : Addresses] BY <1>2 DEF Jobs
  <2>2. j.address \in Addresses BY <2>1
  <2> QED BY <2>2, SessionAssumption
<1> QED BY <1>1, <1>2

LEMMA LastCommand ==
  ASSUME NEW j, NEW write \in BOOLEAN
  PROVE  LET s == IF "file" \in DOMAIN j THEN SendConfiguration(j.file) ELSE SendAddress(j.address)
         IN  \E t \in Seq(AllCommands) : /\ Len(t) = 0 \/ (Len(t) = 1 /\ t[1] = Command("write"))
                                         /\ Commands(j, write) = s \o t
<1> DEFINE s == IF "file" \in DOMAIN j THEN SendConfiguration(j.file) ELSE SendAddress(j.address)
           c == <<Command("write")>>
<1>1. Commands(j, write) = s \o <<>> \/ Commands(j, write) = s \o c BY DEF Commands
<1>2. Command("write") \in AllCommands BY SimpleCommands
<1> HIDE DEF s, AllCommands, Command
<1>3. <<>> \in Seq(AllCommands) /\ Len(<<>>) = 0 OBVIOUS
<1>4. c \in Seq(AllCommands) /\ Len(c) = 1 /\ c[1] = Command("write") BY <1>2
<1> HIDE DEF c
<1> QED BY <1>1, <1>3, <1>4 DEF s

LEMMA CommandsFile ==
  ASSUME NEW j \in Jobs, "file" \in DOMAIN j, NEW write \in BOOLEAN
  PROVE  SendsFile(Commands(j, write), j.file)
<1> DEFINE f == j.file
           m == Len(f.outputs)
           h == [op |-> "header", hdr |-> HeaderOf(f)]
           a == <<Command("start"), h>>
           b == [i \in DOMAIN f.outputs |-> [op |-> "output", output |-> f.outputs[i]]]
           c == <<Command("end")>>
           all == Commands(j, write)
<1>1. f \in Files BY JobKinds
<1>2. m \in Nat /\ DOMAIN f.outputs = 1 .. m BY <1>1, FileType
<1>3. b \in Seq(AllCommands) /\ Len(b) = m /\ \A i \in 1 .. m : b[i] = [op |-> "output", output |-> f.outputs[i]]
  <2>1. b \in [1 .. m -> AllCommands] BY <1>1, <1>2, SimpleCommands
  <2>2. \A i \in 1 .. m : b[i] = [op |-> "output", output |-> f.outputs[i]] BY <1>2
  <2> HIDE DEF b, m, f
  <2> QED BY <1>2, <2>1, <2>2, FunctionSeq
<1>4. h \in AllCommands BY <1>1, RoomForFile, SimpleCommands
<1>5. \A op \in {"start", "end", "write"} : Command(op) \in AllCommands BY SimpleCommands
<1>6. PICK t \in Seq(AllCommands) :
        (Len(t) = 0 \/ (Len(t) = 1 /\ t[1] = Command("write"))) /\ all = SendConfiguration(f) \o t
  BY LastCommand
<1>7. all = ((a \o b) \o c) \o t BY <1>6 DEF SendConfiguration
<1> HIDE DEF AllCommands, Command, h, b, all
<1>8. a \in Seq(AllCommands) /\ Len(a) = 2 /\ a[1] = Command("start") /\ a[2] = h BY <1>4, <1>5
<1>9. c \in Seq(AllCommands) /\ Len(c) = 1 /\ c[1] = Command("end") BY <1>5
<1>10. t \in Seq(AllCommands) /\ (Len(t) = 0 \/ (Len(t) = 1 /\ t[1] = Command("write"))) BY <1>6
<1> HIDE DEF a, c
<1> DEFINE p == a \o b
           q == p \o c
<1>11. p \in Seq(AllCommands) /\ Joins(p, a, b) BY <1>3, <1>8, JoinsAll
<1> HIDE DEF p
<1>12. q \in Seq(AllCommands) /\ Joins(q, p, c) BY <1>9, <1>11, JoinsAll
<1> HIDE DEF q
<1>13. all \in Seq(AllCommands) /\ Joins(all, q, t) BY <1>7, <1>10, <1>12, JoinsAll DEF p, q
<1> HIDE DEF m, f
<1>14. Len(p) = m + 2 /\ p[1] = Command("start") /\ p[2] = h BY <1>2, <1>3, <1>8, <1>11 DEF Joins
<1>15. \A i \in 1 .. m : p[i + 2] = [op |-> "output", output |-> f.outputs[i]]
  <2> SUFFICES ASSUME NEW i \in 1 .. m PROVE p[i + 2] = [op |-> "output", output |-> f.outputs[i]] OBVIOUS
  <2>1. p[2 + i] = b[i] BY <1>3, <1>8, <1>11 DEF Joins
  <2>2. 2 + i = i + 2 BY <1>2
  <2> QED BY <1>3, <2>1, <2>2
<1>16. Len(q) = m + 3 /\ q[m + 3] = Command("end") /\ \A i \in 1 .. m + 2 : q[i] = p[i]
  <2>1. q[Len(p) + 1] = c[1] BY <1>9, <1>12 DEF Joins
  <2>2. Len(p) + 1 = m + 3 BY <1>2, <1>14
  <2> QED BY <1>2, <1>9, <1>12, <1>14, <2>1, <2>2 DEF Joins
<1>17. Len(all) = m + 3 + Len(t) /\ \A i \in 1 .. m + 3 : all[i] = q[i] BY <1>13, <1>16 DEF Joins
<1>18. Len(t) = 1 => all[m + 4] = Command("write")
  <2> SUFFICES ASSUME Len(t) = 1 PROVE all[m + 4] = Command("write") OBVIOUS
  <2>1. all[Len(q) + 1] = t[1] BY <1>13 DEF Joins
  <2>2. Len(q) + 1 = m + 4 BY <1>2, <1>16
  <2> QED BY <1>10, <2>1, <2>2
<1>19. (Len(all) = m + 3 \/ Len(all) = m + 4) /\ (Len(all) = m + 4 => Len(t) = 1)
  <2>1. CASE Len(t) = 0
    <3>1. Len(all) = m + 3 /\ m + 3 # m + 4 BY <1>2, <1>17, <2>1
    <3> QED BY <3>1
  <2>2. CASE Len(t) = 1
    <3>1. Len(all) = m + 4 BY <1>2, <1>17, <2>2
    <3> QED BY <2>2, <3>1
  <2> QED BY <1>10, <2>1, <2>2
<1>20. all[1] = Command("start") /\ all[2] = h /\ all[m + 3] = Command("end")
  <2>1. 1 \in 1 .. m + 2 /\ 2 \in 1 .. m + 2 /\ \A i \in 1 .. m + 2 : i \in 1 .. m + 3 BY <1>2
  <2>2. m + 3 \in 1 .. m + 3 BY <1>2
  <2> QED BY <1>14, <1>16, <1>17, <2>1, <2>2
<1>21. \A i \in 1 .. m : all[i + 2] = [op |-> "output", output |-> f.outputs[i]]
  <2>1. \A i \in 1 .. m : i + 2 \in 1 .. m + 2 /\ i + 2 \in 1 .. m + 3 BY <1>2
  <2> QED BY <1>15, <1>16, <1>17, <2>1
<1> QED BY <1>13, <1>18, <1>19, <1>20, <1>21 DEF SendsFile, m, f, h, all

LEMMA CommandsAddress ==
  ASSUME NEW j \in Jobs, "file" \notin DOMAIN j, NEW write \in BOOLEAN
  PROVE  SendsAddress(Commands(j, write), j.address)
<1> DEFINE h == [op |-> "address", address |-> j.address]
           s == <<Command("read"), Command("start"), h, Command("end")>>
           all == Commands(j, write)
<1>1. h \in AllCommands BY JobKinds, SimpleCommands
<1>2. \A op \in {"start", "end", "read", "write"} : Command(op) \in AllCommands BY SimpleCommands
<1>3. PICK t \in Seq(AllCommands) :
        (Len(t) = 0 \/ (Len(t) = 1 /\ t[1] = Command("write"))) /\ all = SendAddress(j.address) \o t
  BY LastCommand
<1>4. all = s \o t BY <1>3 DEF SendAddress
<1> HIDE DEF AllCommands, Command, h, all
<1>5. /\ s \in Seq(AllCommands) /\ Len(s) = 4 /\ s[1] = Command("read") /\ s[2] = Command("start")
      /\ s[3] = h /\ s[4] = Command("end")
  BY <1>1, <1>2
<1>6. t \in Seq(AllCommands) /\ (Len(t) = 0 \/ (Len(t) = 1 /\ t[1] = Command("write"))) BY <1>3
<1> HIDE DEF s
<1>7. all \in Seq(AllCommands) /\ Joins(all, s, t) BY <1>4, <1>5, <1>6, JoinsAll
<1>8. Len(all) = 4 + Len(t) /\ \A i \in 1 .. 4 : all[i] = s[i] BY <1>5, <1>7 DEF Joins
<1>9. Len(t) = 1 => all[5] = Command("write")
  <2>1. Len(t) = 1 => all[4 + 1] = t[1] BY <1>5, <1>7 DEF Joins
  <2> QED BY <1>6, <2>1
<1>10. (Len(all) = 4 \/ Len(all) = 5) /\ (Len(all) = 5 => Len(t) = 1)
  <2>1. CASE Len(t) = 0 BY <1>8, <2>1
  <2>2. CASE Len(t) = 1 BY <1>8, <2>2
  <2> QED BY <1>6, <2>1, <2>2
<1>11. 1 \in 1 .. 4 /\ 2 \in 1 .. 4 /\ 3 \in 1 .. 4 /\ 4 \in 1 .. 4 OBVIOUS
<1> QED BY <1>5, <1>7, <1>8, <1>9, <1>10, <1>11 DEF SendsAddress, h, all
-----------------------------------------------------------------------------
LEMMA FileNext ==
  ASSUME NEW f \in Files, NEW all, SendsFile(all, f), NEW n \in Nat, n < Len(all)
  PROVE  LET m == Len(f.outputs) IN
         \/ n = 0 /\ all[n + 1].op = "start"
         \/ n = 1 /\ all[n + 1].op = "header" /\ all[n + 1].hdr = HeaderOf(f)
         \/ n \in 2 .. m + 1 /\ all[n + 1].op = "output" /\ all[n + 1].output = f.outputs[n - 1]
         \/ n = m + 2 /\ all[n + 1].op = "end"
         \/ n = m + 3 /\ Len(all) = n + 1 /\ all[n + 1].op = "write"
<1> DEFINE m == Len(f.outputs)
<1>1. m \in Nat BY FileType
<1>0. \A op \in {"start", "end", "write"} : Command(op).op = op BY DEF Command
<1>s. /\ Len(all) = m + 3 \/ Len(all) = m + 4
      /\ all[1] = Command("start")
      /\ all[2] = [op |-> "header", hdr |-> HeaderOf(f)]
      /\ \A i \in 1 .. m : all[i + 2] = [op |-> "output", output |-> f.outputs[i]]
      /\ all[m + 3] = Command("end")
      /\ Len(all) = m + 4 => all[m + 4] = Command("write")
  BY DEF SendsFile
<1> HIDE DEF m
<1>r. all[2].op = "header" /\ all[2].hdr = HeaderOf(f) BY <1>s
<1>o. \A i \in 1 .. m : all[i + 2].op = "output" /\ all[i + 2].output = f.outputs[i]
  <2> SUFFICES ASSUME NEW i \in 1 .. m PROVE all[i + 2].op = "output" /\ all[i + 2].output = f.outputs[i]
    OBVIOUS
  <2>1. all[i + 2] = [op |-> "output", output |-> f.outputs[i]] BY <1>s
  <2> QED BY <2>1
<1>2. /\ Len(all) = m + 3 \/ Len(all) = m + 4
      /\ all[1].op = "start" /\ all[m + 3].op = "end"
      /\ Len(all) = m + 4 => all[m + 4].op = "write"
  BY <1>0, <1>s
<1>3. CASE n = 0 BY <1>2, <1>3
<1>4. CASE n = 1 BY <1>r, <1>4 DEF m
<1>5. CASE n \in 2 .. m + 1
  <2>1. n - 1 \in 1 .. m /\ (n - 1) + 2 = n + 1 BY <1>1, <1>5
  <2>2. all[n + 1].op = "output" /\ all[n + 1].output = f.outputs[n - 1] BY <1>o, <2>1
  <2> QED BY <1>5, <2>2 DEF m
<1>6. CASE n = m + 2
  <2>1. n + 1 = m + 3 BY <1>1, <1>6
  <2> QED BY <1>2, <1>6, <2>1 DEF m
<1>7. CASE n = m + 3
  <2>1. n + 1 = m + 4 /\ Len(all) = m + 4 BY <1>1, <1>2, <1>7
  <2> QED BY <1>2, <1>7, <2>1 DEF m
<1>8. n = 0 \/ n = 1 \/ n \in 2 .. m + 1 \/ n = m + 2 \/ n = m + 3 BY <1>1, <1>2
<1> QED BY <1>3, <1>4, <1>5, <1>6, <1>7, <1>8

LEMMA AddressNext ==
  ASSUME NEW address, NEW all, SendsAddress(all, address), NEW n \in Nat, n < Len(all)
  PROVE  \/ n = 0 /\ all[n + 1].op = "read"
         \/ n = 1 /\ all[n + 1].op = "start"
         \/ n = 2 /\ all[n + 1].op = "address" /\ all[n + 1].address = address
         \/ n = 3 /\ all[n + 1].op = "end"
         \/ n = 4 /\ Len(all) = n + 1 /\ all[n + 1].op = "write"
<1>0. \A op \in {"read", "start", "end", "write"} : Command(op).op = op BY DEF Command
<1>1. /\ Len(all) = 4 \/ Len(all) = 5
      /\ all[1] = Command("read") /\ all[2] = Command("start")
      /\ all[3] = [op |-> "address", address |-> address]
      /\ all[4] = Command("end") /\ (Len(all) = 5 => all[5] = Command("write"))
  BY DEF SendsAddress
<1>2. n = 0 \/ n = 1 \/ n = 2 \/ n = 3 \/ (n = 4 /\ Len(all) = 5)
  <2>1. CASE Len(all) = 4 BY <2>1
  <2>2. CASE Len(all) = 5 BY <2>2
  <2> QED BY <1>1, <2>1, <2>2
<1>3. CASE n = 0 BY <1>0, <1>1, <1>3
<1>4. CASE n = 1 BY <1>0, <1>1, <1>4
<1>5. CASE n = 2 BY <1>1, <1>5
<1>6. CASE n = 3 BY <1>0, <1>1, <1>6
<1>7. CASE n = 4 /\ Len(all) = 5 BY <1>0, <1>1, <1>7
<1> QED BY <1>2, <1>3, <1>4, <1>5, <1>6, <1>7

(* The first n commands are confirmed, the rest is to do.                  *)
Rest(all, s, n) ==
  /\ n \in 0 .. Len(all) /\ Len(s) = Len(all) - n
  /\ \A i \in 1 .. Len(s) : s[i] = all[n + i]

LEMMA RestNext ==
  ASSUME NEW all \in Seq(AllCommands), NEW n \in Nat, NEW s \in Seq(AllCommands), Rest(all, s, n), s # <<>>
  PROVE  /\ n < Len(all) /\ Head(s) = all[n + 1]
         /\ Rest(all, Tail(s), n + 1)
         /\ n + 1 = Len(all) => Tail(s) = <<>>
<1> HIDE DEF AllCommands
<1>1. Len(s) \in Nat /\ Len(s) >= 1 /\ Len(all) \in Nat /\ Head(s) = s[1] OBVIOUS
<1>2. n < Len(all) /\ Head(s) = all[n + 1] BY <1>1 DEF Rest
<1>3. Rest(all, Tail(s), n + 1)
  <2> DEFINE t == Tail(s)
  <2>1. Len(t) = Len(s) - 1 /\ \A i \in 1 .. Len(s) - 1 : t[i] = s[i + 1] OBVIOUS
  <2> HIDE DEF t
  <2>2. Len(t) = Len(all) - (n + 1) /\ n + 1 \in 0 .. Len(all) BY <1>1, <1>2, <2>1 DEF Rest
  <2>3. ASSUME NEW i \in 1 .. Len(t) PROVE t[i] = all[(n + 1) + i]
    <3>1. i \in 1 .. Len(s) - 1 /\ i + 1 \in 1 .. Len(s) /\ n + (i + 1) = (n + 1) + i
      BY <1>1, <2>1
    <3> QED BY <2>1, <3>1 DEF Rest
  <2>4. Rest(all, t, n + 1) BY <2>2, <2>3 DEF Rest
  <2> QED BY <2>4 DEF t
<1>4. n + 1 = Len(all) => Tail(s) = <<>>
  <2>1. n + 1 = Len(all) => Len(s) = 1 BY <1>1 DEF Rest
  <2>2. Len(s) = 1 => Len(Tail(s)) = 0 /\ Tail(s) \in Seq(AllCommands) OBVIOUS
  <2> QED BY <2>1, <2>2, EmptySeq
<1> QED BY <1>2, <1>3, <1>4
-----------------------------------------------------------------------------
(* How far a job has come: n commands are confirmed, and unless something  *)
(* got lost the sketch holds what the first n say, and the next one too if *)
(* its answer is on the way.                                               *)
Live == ~waiting \/ line # NULL \/ place # NULL \/ reply = "ok"
Handled(n) == IF reply = "ok" THEN n + 1 ELSE n
Has(hdr, outs, f, k) ==
  /\ hdr = HeaderOf(f) \/ hdr = Stamped(HeaderOf(f))
  /\ Len(outs) >= k /\ \A i \in 1 .. k : outs[Len(outs) - k + i] = f.outputs[i]
Least(a, b) == IF a < b THEN a ELSE b
Received(f, d) ==
  state \in {"READY", "DONE"} /\ d >= 2 => Has(config_hdr, outputs, f, Least(d - 2, Len(f.outputs)))
Changed(address, d) ==
  d >= 1 /\ config_hdr # NULL =>
    /\ before = [header |-> before.header, outputs |-> outputs]
    /\ config_hdr = IF d >= 3 THEN [before.header EXCEPT !.address = address] ELSE before.header
    /\ config_hdr.version = CONFIG_VERSION
Sent(d) ==
  IF "file" \in DOMAIN job THEN LeavesOut(job.file) \/ Received(job.file, d)
  ELSE Changed(job.address, d)
(* Nothing but the commands of the job made the sketch what it is.         *)
Good(c) == c # NULL /\ Wired(c) /\ \A i \in DOMAIN c.outputs : c.outputs[i].type \in BuildTypes
Came(d, first, last) == d >= first => state = IF d < last THEN "READY" ELSE "DONE"
Clear(d) ==
  clean /\ Good(Wanted) =>
    IF "file" \in DOMAIN job
    THEN LET m == Len(job.file.outputs) IN
         Came(d, 1, m + 3) /\ Len(outputs) = IF d <= 2 THEN 0 ELSE Least(d - 2, m)
    ELSE Came(d, 2, 4) /\ (d >= 1 => config_hdr # NULL /\ config_hdr.num = Len(outputs))
Far(d) == Sent(d) /\ Clear(d)
Stage(write, n) ==
  /\ Rest(Commands(job, write), todo, n)
  /\ "file" \notin DOMAIN job /\ n = 0 => Stored(eeprom) = before
  /\ Live => Far(Handled(n))
Progress == job # NULL => \E write \in BOOLEAN, n \in Nat : Stage(write, n)

AsWanted(j) ==
  IF "file" \in DOMAIN j THEN LeavesOut(j.file) \/ Stored(eeprom) = InOwnVersion(j.file)
  ELSE Stored(eeprom) = [before EXCEPT !.header.address = j.address]
Written == job # NULL /\ reply = "ok" /\ todo # <<>> /\ Head(todo).op = "write" => AsWanted(job)
Kept == wrote # NULL => todo = <<>> /\ line = NULL /\ place = NULL /\ AsWanted(wrote)
WroteInv == StoreInv /\ Progress /\ Written /\ Kept

LEMMA FarStays ==
  ASSUME UNCHANGED <<job, before, state, config_hdr, outputs>>, clean' => clean, NEW d, Far(d)
  PROVE  Far(d)'
<1>1. Sent(d)' BY DEF Far, Sent, Received, Changed
<1>2. Wanted' = Wanted BY DEF Wanted
<1>3. Clear(d)' BY <1>2 DEF Far, Clear, Came
<1> QED BY <1>1, <1>3 DEF Far

LEMMA StageStays ==
  ASSUME NEW write \in BOOLEAN, NEW n \in Nat, Stage(write, n), UNCHANGED <<job, todo, before>>,
         UNCHANGED eeprom \/ n # 0, Live' => Far(Handled(n))'
  PROVE  Stage(write, n)'
<1>1. Rest(Commands(job, write), todo, n)' BY DEF Stage, Rest
<1>2. ("file" \notin DOMAIN job /\ n = 0 => Stored(eeprom) = before)' BY DEF Stage
<1> QED BY <1>1, <1>2 DEF Stage

(* Which command comes next says how many are confirmed.                   *)
LEMMA NextCommand ==
  ASSUME StoreInv, job # NULL, todo # <<>>, NEW write \in BOOLEAN, NEW n \in Nat, Stage(write, n)
  PROVE  /\ job \in Jobs /\ todo \in Seq(AllCommands) /\ n < Len(Commands(job, write))
         /\ Head(todo) = Commands(job, write)[n + 1]
         /\ Rest(Commands(job, write), Tail(todo), n + 1)
         /\ n + 1 = Len(Commands(job, write)) => Tail(todo) = <<>>
<1>1. job \in Jobs /\ todo \in Seq(AllCommands) BY Facts DEF StoreInv, ScriptOK
<1>2. Commands(job, write) \in Seq(AllCommands) BY <1>1, CommandsType
<1>3. Rest(Commands(job, write), todo, n) BY DEF Stage
<1> DEFINE all == Commands(job, write)
<1> HIDE DEF all
<1>4. /\ n < Len(all) /\ Head(todo) = all[n + 1]
      /\ Rest(all, Tail(todo), n + 1)
      /\ n + 1 = Len(all) => Tail(todo) = <<>>
  BY <1>1, <1>2, <1>3, RestNext DEF all
<1> QED BY <1>1, <1>4 DEF all

LEMMA FileCommand ==
  ASSUME StoreInv, job # NULL, todo # <<>>, NEW write \in BOOLEAN, NEW n \in Nat, Stage(write, n),
         "file" \in DOMAIN job
  PROVE  LET f == job.file
             c == Head(todo)
             m == Len(f.outputs)
         IN  /\ f \in Files
             /\ \/ n = 0 /\ c.op = "start"
                \/ n = 1 /\ c.op = "header" /\ c.hdr = HeaderOf(f)
                \/ n \in 2 .. m + 1 /\ c.op = "output" /\ c.output = f.outputs[n - 1]
                \/ n = m + 2 /\ c.op = "end"
                \/ n = m + 3 /\ c.op = "write" /\ Tail(todo) = <<>>
<1>1. job \in Jobs /\ n < Len(Commands(job, write)) /\ Head(todo) = Commands(job, write)[n + 1]
      /\ (n + 1 = Len(Commands(job, write)) => Tail(todo) = <<>>)
  BY NextCommand
<1>2. job.file \in Files BY <1>1, JobKinds
<1>3. SendsFile(Commands(job, write), job.file) BY <1>1, CommandsFile
<1> DEFINE all == Commands(job, write)
<1> HIDE DEF all
<1> QED BY <1>1, <1>2, <1>3, FileNext DEF all

LEMMA AddressCommand ==
  ASSUME StoreInv, job # NULL, todo # <<>>, NEW write \in BOOLEAN, NEW n \in Nat, Stage(write, n),
         "file" \notin DOMAIN job
  PROVE  LET c == Head(todo) IN
         /\ job.address \in Nat
         /\ \/ n = 0 /\ c.op = "read"
            \/ n = 1 /\ c.op = "start"
            \/ n = 2 /\ c.op = "address" /\ c.address = job.address
            \/ n = 3 /\ c.op = "end"
            \/ n = 4 /\ c.op = "write" /\ Tail(todo) = <<>>
<1>1. job \in Jobs /\ n < Len(Commands(job, write)) /\ Head(todo) = Commands(job, write)[n + 1]
      /\ (n + 1 = Len(Commands(job, write)) => Tail(todo) = <<>>)
  BY NextCommand
<1>2. job.address \in Nat BY <1>1, JobKinds
<1>3. SendsAddress(Commands(job, write), job.address) BY <1>1, CommandsAddress
<1> DEFINE all == Commands(job, write)
<1> HIDE DEF all
<1> QED BY <1>1, <1>2, <1>3, AddressNext DEF all
-----------------------------------------------------------------------------
(* The steps of the script.                                                *)
ScriptStep == Progress' /\ Written' /\ Kept'

LEMMA BeginWrote == ASSUME WroteInv, Begin PROVE ScriptStep
<1>1. PICK j \in Jobs, write \in BOOLEAN : job' = j /\ todo' = Commands(j, write) BY DEF Begin
<1>2. /\ reply' = NULL /\ wrote' = NULL /\ before' = Stored(eeprom) /\ UNCHANGED eeprom
  BY DEF Begin
<1>3. Written' /\ Kept' BY <1>2, NullAssumption DEF Written, Kept
<1>4. Commands(j, write) \in Seq(AllCommands) BY CommandsType
<1>5. Rest(Commands(job, write), todo, 0)'
  <2> DEFINE all == Commands(j, write)
  <2> HIDE DEF all, AllCommands
  <2>1. all \in Seq(AllCommands) BY <1>4 DEF all
  <2>2. 0 \in 0 .. Len(all) /\ Len(all) = Len(all) - 0 /\ \A i \in 1 .. Len(all) : all[i] = all[0 + i] BY <2>1
  <2>3. Rest(all, all, 0) BY <2>2 DEF Rest
  <2> QED BY <1>1, <2>3 DEF all
<1>6. Stored(eeprom)' = before' BY <1>2
<1>7. Far(Handled(0))'
  <2>1. Handled(0)' = 0 BY <1>2, NullAssumption DEF Handled
  <2>2. Sent(0)' BY DEF Sent, Received, Changed
  <2>3. clean' /\ "file" \in DOMAIN job' => outputs' = <<>>
    <3>1. job' \in Jobs BY <1>1
    <3>2. "file" \in DOMAIN job' => "address" \notin DOMAIN job' BY <3>1 DEF Jobs
    <3> QED BY <3>2 DEF Begin, sketch
  <2>4. Clear(0)' BY <2>3 DEF Clear, Came
  <2> QED BY <2>1, <2>2, <2>4 DEF Far
<1>8. Stage(write, 0)' BY <1>5, <1>6, <1>7 DEF Stage
<1> QED BY <1>3, <1>8 DEF ScriptStep, Progress

LEMMA SendWrote == ASSUME WroteInv, Send PROVE ScriptStep
<1>1. /\ job # NULL /\ ~waiting /\ todo # <<>> /\ reply = NULL
      /\ UNCHANGED <<job, todo, before, wrote, reply, state, config_hdr, outputs, eeprom, place>>
  BY DEF Send, sketch, WroteInv, StoreInv, TurnInv, Turns
<1>2. wrote = NULL BY <1>1 DEF WroteInv, Kept
<1>3. Written' /\ Kept' BY <1>1, <1>2, NullAssumption DEF Written, Kept
<1>4. PICK write \in BOOLEAN, n \in Nat : Stage(write, n) BY <1>1 DEF WroteInv, Progress
<1>5. Far(Handled(n)) BY <1>1, <1>4 DEF Stage, Live
<1>6. Far(Handled(n))'
  <2>1. Handled(n)' = Handled(n) BY <1>1 DEF Handled
  <2>2. Far(Handled(n)) /\ clean' = clean BY <1>5 DEF Send
  <2> QED BY <1>1, <2>1, <2>2, FarStays
<1>7. Stage(write, n)' BY <1>1, <1>4, <1>6, StageStays
<1> QED BY <1>3, <1>7 DEF ScriptStep, Progress

LEMMA ConfirmWrote == ASSUME WroteInv, Confirm PROVE ScriptStep
<1>1. /\ job # NULL /\ waiting /\ reply = "ok" /\ todo # <<>> /\ line = NULL /\ place = NULL
      /\ UNCHANGED <<job, before, state, config_hdr, outputs, eeprom, line, place>>
      /\ reply' = NULL /\ todo' = Tail(todo)
  BY NullAssumption DEF Confirm, sketch, WroteInv, StoreInv, TurnInv, Turns
<1>2. PICK write \in BOOLEAN, n \in Nat : Stage(write, n) BY <1>1 DEF WroteInv, Progress
<1>3. StoreInv BY DEF WroteInv
<1>4. Written' BY <1>1, NullAssumption DEF Written
<1>5. Kept'
  <2>1. CASE Head(todo).op = "write"
    <3>1. wrote' = job BY <2>1 DEF Confirm
    <3>2. AsWanted(job) BY <1>1, <2>1 DEF WroteInv, Written
    <3>3. Tail(todo) = <<>>
      <4>1. CASE "file" \in DOMAIN job BY <1>1, <1>2, <1>3, <2>1, <4>1, FileCommand
      <4>2. CASE "file" \notin DOMAIN job BY <1>1, <1>2, <1>3, <2>1, <4>2, AddressCommand
      <4> QED BY <4>1, <4>2
    <3> QED BY <1>1, <3>1, <3>2, <3>3 DEF Kept, AsWanted
  <2>2. CASE Head(todo).op # "write"
    <3>1. wrote' = wrote /\ wrote = NULL BY <1>1, <2>2 DEF Confirm, WroteInv, Kept
    <3> QED BY <3>1 DEF Kept
  <2> QED BY <2>1, <2>2
<1>6. Rest(Commands(job, write), todo, n + 1)' BY <1>1, <1>2, <1>3, NextCommand
<1>7. Far(Handled(n + 1))'
  <2>1. Far(Handled(n)) BY <1>1, <1>2 DEF Stage, Live
  <2>2. Handled(n) = n + 1 /\ Handled(n + 1)' = n + 1 BY <1>1, NullAssumption DEF Handled
  <2>3. Far(n + 1) /\ clean' = clean BY <2>1, <2>2 DEF Confirm
  <2>4. Far(n + 1)' BY <1>1, <2>3, FarStays
  <2> QED BY <2>2, <2>4
<1>8. Stage(write, n + 1)' BY <1>6, <1>7 DEF Stage
<1> QED BY <1>4, <1>5, <1>8 DEF ScriptStep, Progress

LEMMA EndWrote == ASSUME WroteInv, End PROVE ScriptStep
<1>1. job' = NULL /\ todo' = <<>> /\ UNCHANGED <<wrote, before, line, place, eeprom>> BY DEF End
<1> QED BY <1>1 DEF ScriptStep, Progress, Written, Kept, WroteInv, AsWanted

LEMMA FaultWrote == ASSUME WroteInv, LoseBytes \/ LoseReply \/ Reset PROVE ScriptStep
<1>0. UNCHANGED <<job, todo, waiting, wrote, before>> BY DEF LoseBytes, LoseReply, Reset, script
<1> USE NullAssumption
<1>1. Kept'
  <2>1. CASE wrote = NULL BY <1>0, <2>1 DEF Kept
  <2>2. CASE wrote # NULL
    <3>1. todo = <<>> /\ line = NULL /\ place = NULL /\ AsWanted(wrote) BY <2>2 DEF WroteInv, Kept
    <3>2. line' = NULL /\ place' = NULL /\ UNCHANGED eeprom BY <3>1 DEF LoseBytes, LoseReply, Reset
    <3> QED BY <1>0, <3>1, <3>2 DEF Kept, AsWanted
  <2> QED BY <2>1, <2>2
<1>2. Written'
  <2> SUFFICES ASSUME job # NULL, reply' = "ok", todo # <<>>, Head(todo).op = "write" PROVE AsWanted(job)'
    BY <1>0 DEF Written
  <2>1. reply = "ok" BY DEF LoseBytes, LoseReply, Reset
  <2>2. line = NULL /\ place = NULL BY <2>1 DEF WroteInv, StoreInv, TurnInv, Turns
  <2>3. UNCHANGED eeprom BY <2>2 DEF LoseBytes, LoseReply, Reset
  <2> QED BY <1>0, <2>1, <2>3 DEF WroteInv, Written, AsWanted
<1>3. Progress'
  <2> SUFFICES ASSUME job # NULL PROVE \E write \in BOOLEAN, n \in Nat : Stage(write, n)'
    BY <1>0 DEF Progress
  <2>1. PICK write \in BOOLEAN, n \in Nat : Stage(write, n) BY DEF WroteInv, Progress
  <2>2. UNCHANGED eeprom \/ n # 0
    <3>1. CASE place = NULL BY <3>1 DEF LoseBytes, LoseReply, Reset
    <3>2. CASE place # NULL
      <4>1. todo # <<>> /\ Head(todo).op = "write" /\ StoreInv BY <3>2 DEF WroteInv, StoreInv, TurnInv, Turns
      <4>2. CASE "file" \in DOMAIN job BY <2>1, <4>1, <4>2, FileCommand
      <4>3. CASE "file" \notin DOMAIN job BY <2>1, <4>1, <4>3, AddressCommand
      <4> QED BY <4>2, <4>3
    <3> QED BY <3>1, <3>2
  <2>3. ASSUME Live' PROVE Far(Handled(n))'
    <3>1. CASE LoseBytes
      <4>1. Live /\ UNCHANGED <<reply, state, config_hdr, outputs>> /\ ~clean'
        BY <3>1 DEF LoseBytes, Live, sketch
      <4>2. Far(Handled(n)) BY <2>1, <4>1 DEF Stage
      <4>3. Sent(Handled(n))' BY <1>0, <4>1, <4>2 DEF Far, Handled, Sent, Received, Changed
      <4> QED BY <4>1, <4>3 DEF Far, Clear
    <3>2. CASE LoseReply
      <4>1. waiting /\ line = NULL /\ place = NULL
        BY <3>2 DEF LoseReply, WroteInv, StoreInv, TurnInv, Turns
      <4>2. ~Live' BY <1>0, <3>2, <4>1 DEF LoseReply, Live
      <4> QED BY <2>3, <4>2
    <3>3. CASE Reset
      <4>1. state' = "NEW" /\ config_hdr' = NULL /\ ~clean' BY <3>3 DEF Reset
      <4> QED BY <4>1 DEF Far, Sent, Received, Changed, Clear
    <3> QED BY <3>1, <3>2, <3>3
  <2>4. Stage(write, n)' BY <1>0, <2>1, <2>2, <2>3, StageStays
  <2> QED BY <2>4
<1> QED BY <1>1, <1>2, <1>3 DEF ScriptStep
-----------------------------------------------------------------------------
(* The steps of the sketch.                                                *)
LEMMA OnTheLine ==
  ASSUME WroteInv, line # NULL
  PROVE  /\ wrote = NULL /\ place = NULL
         /\ job # NULL => /\ waiting /\ todo # <<>> /\ reply = NULL
                          /\ line.op # "garbage" => line = Head(todo)
BY DEF WroteInv, Kept, StoreInv, TurnInv, Turns

LEMMA FailWrote ==
  ASSUME WroteInv, line # NULL, Answers("fail"), UNCHANGED <<eeprom, place>>
  PROVE  ScriptStep
<1> USE NullAssumption
<1>1. wrote' = NULL /\ reply' = "fail" /\ line' = NULL /\ place' = NULL
      /\ UNCHANGED <<job, todo, waiting, before>>
  BY OnTheLine DEF Answers, script
<1>2. Written' /\ Kept' BY <1>1 DEF Written, Kept
<1>3. Progress'
  <2> SUFFICES ASSUME job # NULL PROVE \E write \in BOOLEAN, n \in Nat : Stage(write, n)'
    BY <1>1 DEF Progress
  <2>1. PICK write \in BOOLEAN, n \in Nat : Stage(write, n) BY DEF WroteInv, Progress
  <2>2. ~Live' BY <1>1, OnTheLine DEF Live
  <2>3. Stage(write, n)' BY <1>1, <2>1, <2>2, StageStays
  <2> QED BY <2>3
<1> QED BY <1>2, <1>3 DEF ScriptStep

LEMMA AckWrote ==
  ASSUME WroteInv, line # NULL, line.op \notin {"garbage", "write"}, Answers("ok"),
         UNCHANGED <<eeprom, place>>,
         ASSUME job # NULL, NEW write \in BOOLEAN, NEW n \in Nat, Stage(write, n)
         PROVE  Far(n + 1)'
  PROVE  ScriptStep
<1> USE NullAssumption
<1>1. wrote' = NULL /\ reply' = "ok" /\ line' = NULL /\ place' = NULL
      /\ UNCHANGED <<job, todo, waiting, before>>
  BY OnTheLine DEF Answers, script
<1>2. Kept' BY <1>1 DEF Kept
<1>3. Written'
  <2> SUFFICES ASSUME job # NULL, Head(todo).op = "write" PROVE FALSE BY <1>1 DEF Written
  <2> QED BY OnTheLine
<1>4. Progress'
  <2> SUFFICES ASSUME job # NULL PROVE \E write \in BOOLEAN, n \in Nat : Stage(write, n)'
    BY <1>1 DEF Progress
  <2>1. PICK write \in BOOLEAN, n \in Nat : Stage(write, n) BY DEF WroteInv, Progress
  <2>2. Far(n + 1)' BY <2>1
  <2>3. Handled(n)' = n + 1 BY <1>1 DEF Handled
  <2>4. Far(Handled(n))' BY <2>2, <2>3
  <2>5. Stage(write, n)' BY <1>1, <2>1, <2>4, StageStays
  <2> QED BY <2>5
<1> QED BY <1>2, <1>3, <1>4 DEF ScriptStep

(* What a command of the job finds and where it stands in the job.         *)
LEMMA LineCommand ==
  ASSUME WroteInv, line # NULL, line.op # "garbage", job # NULL,
         NEW write \in BOOLEAN, NEW n \in Nat, Stage(write, n)
  PROVE  /\ Sent(n) /\ Clear(n)
         /\ "file" \in DOMAIN job =>
              LET f == job.file
                  m == Len(f.outputs)
              IN  /\ f \in Files
                  /\ \/ n = 0 /\ line.op = "start"
                     \/ n = 1 /\ line.op = "header" /\ line.hdr = HeaderOf(f)
                     \/ n \in 2 .. m + 1 /\ line.op = "output" /\ line.output = f.outputs[n - 1]
                     \/ n = m + 2 /\ line.op = "end"
                     \/ n = m + 3 /\ line.op = "write"
         /\ "file" \notin DOMAIN job =>
              /\ job.address \in Nat
              /\ \/ n = 0 /\ line.op = "read"
                 \/ n = 1 /\ line.op = "start"
                 \/ n = 2 /\ line.op = "address" /\ line.address = job.address
                 \/ n = 3 /\ line.op = "end"
                 \/ n = 4 /\ line.op = "write"
<1>1. reply = NULL /\ line = Head(todo) /\ todo # <<>> /\ StoreInv BY OnTheLine DEF WroteInv
<1>2. Sent(n) /\ Clear(n)
  <2>1. Handled(n) = n BY <1>1, NullAssumption DEF Handled
  <2> QED BY <2>1 DEF Stage, Live, Far
<1>3. ASSUME "file" \in DOMAIN job
      PROVE  LET f == job.file
                 m == Len(f.outputs)
             IN  /\ f \in Files
                 /\ \/ n = 0 /\ line.op = "start"
                    \/ n = 1 /\ line.op = "header" /\ line.hdr = HeaderOf(f)
                    \/ n \in 2 .. m + 1 /\ line.op = "output" /\ line.output = f.outputs[n - 1]
                    \/ n = m + 2 /\ line.op = "end"
                    \/ n = m + 3 /\ line.op = "write"
  BY <1>1, <1>3, FileCommand
<1>4. ASSUME "file" \notin DOMAIN job
      PROVE  /\ job.address \in Nat
             /\ \/ n = 0 /\ line.op = "read"
                \/ n = 1 /\ line.op = "start"
                \/ n = 2 /\ line.op = "address" /\ line.address = job.address
                \/ n = 3 /\ line.op = "end"
                \/ n = 4 /\ line.op = "write"
  BY <1>1, <1>4, AddressCommand
<1> QED BY <1>2, <1>3, <1>4

LEMMA StartWrote == ASSUME WroteInv, HandleStart PROVE ScriptStep
<1>1. /\ line # NULL /\ line.op = "start" /\ Answers("ok")
      /\ UNCHANGED <<job, before, config_hdr, outputs, eeprom, place, clean>> /\ state' = "READY"
  BY DEF HandleStart, Takes, Acks, Answers, Stays, script
<1>2. ASSUME job # NULL, NEW write \in BOOLEAN, NEW n \in Nat, Stage(write, n) PROVE Sent(n + 1)'
  <2>1. CASE "file" \in DOMAIN job
    <3>1. n = 0 BY <1>1, <1>2, <2>1, LineCommand
    <3> QED BY <1>1, <2>1, <3>1 DEF Sent, Received
  <2>2. CASE "file" \notin DOMAIN job
    <3>1. n = 1 /\ Changed(job.address, n) BY <1>1, <1>2, <2>2, LineCommand DEF Sent
    <3> QED BY <1>1, <2>2, <3>1 DEF Sent, Changed
  <2> QED BY <2>1, <2>2
<1>3. ASSUME job # NULL, NEW write \in BOOLEAN, NEW n \in Nat, Stage(write, n) PROVE Clear(n + 1)'
  <2>0. Clear(n) /\ Wanted' = Wanted BY <1>1, <1>3, LineCommand DEF Wanted
  <2>1. CASE "file" \in DOMAIN job
    <3>1. n = 0 /\ Len(job.file.outputs) \in Nat BY <1>1, <1>3, <2>1, LineCommand, FileType
    <3> QED BY <1>1, <2>0, <2>1, <3>1 DEF Clear, Came
  <2>2. CASE "file" \notin DOMAIN job
    <3>1. n = 1 BY <1>1, <1>3, <2>2, LineCommand
    <3> QED BY <1>1, <2>0, <2>2, <3>1 DEF Clear, Came
  <2> QED BY <2>1, <2>2
<1> QED BY <1>1, <1>2, <1>3, AckWrote DEF Far

LEMMA EndsWrote == ASSUME WroteInv, HandleEnd PROVE ScriptStep
<1>1. line # NULL /\ line.op = "end" /\ UNCHANGED <<config_hdr, outputs>> BY DEF HandleEnd, Takes
<1>2. CASE state = "READY" /\ ValidConfig(config_hdr, outputs)
  <2>1. Answers("ok") /\ UNCHANGED <<job, before, eeprom, place, clean>> /\ state' = "DONE"
    BY <1>2 DEF HandleEnd, Acks, Answers, Stays, script
  <2>2. ASSUME job # NULL, NEW write \in BOOLEAN, NEW n \in Nat, Stage(write, n) PROVE Sent(n + 1)'
    <3>1. CASE "file" \in DOMAIN job
      <4> DEFINE f == job.file
                 m == Len(f.outputs)
      <4>1. n = m + 2 /\ m \in Nat /\ (LeavesOut(f) \/ Received(f, n))
        BY <1>1, <2>2, <3>1, LineCommand, FileType DEF Sent
      <4>2. CASE LeavesOut(f) BY <2>1, <3>1, <4>2 DEF Sent
      <4>3. CASE Received(f, n)
        <5>1. Least(n - 2, m) = m /\ Least((n + 1) - 2, m) = m /\ n >= 2 BY <4>1 DEF Least
        <5>2. Has(config_hdr, outputs, f, m) BY <1>2, <4>3, <5>1 DEF Received
        <5>3. Received(f, n + 1)' BY <1>1, <2>1, <5>1, <5>2 DEF Received
        <5> QED BY <2>1, <3>1, <5>3 DEF Sent
      <4> QED BY <4>1, <4>2, <4>3
    <3>2. CASE "file" \notin DOMAIN job
      <4>1. n = 3 /\ Changed(job.address, n) BY <1>1, <2>2, <3>2, LineCommand DEF Sent
      <4> QED BY <1>1, <2>1, <3>2, <4>1 DEF Sent, Changed
    <3> QED BY <3>1, <3>2
  <2>3. ASSUME job # NULL, NEW write \in BOOLEAN, NEW n \in Nat, Stage(write, n) PROVE Clear(n + 1)'
    <3>0. Clear(n) /\ Wanted' = Wanted BY <1>1, <2>1, <2>3, LineCommand DEF Wanted
    <3>1. CASE "file" \in DOMAIN job
      <4> DEFINE m == Len(job.file.outputs)
      <4>1. n = m + 2 /\ m \in Nat BY <1>1, <2>3, <3>1, LineCommand, FileType
      <4>2. /\ (IF n <= 2 THEN 0 ELSE Least(n - 2, m)) = m
            /\ (IF n + 1 <= 2 THEN 0 ELSE Least((n + 1) - 2, m)) = m
            /\ ~(n + 1 < 1) /\ ~(n + 1 < m + 3)
        BY <4>1 DEF Least
      <4>3. clean /\ Good(Wanted) => Len(outputs) = m BY <3>0, <3>1, <4>2 DEF Clear
      <4> QED BY <1>1, <2>1, <3>0, <3>1, <4>2, <4>3 DEF Clear, Came
    <3>2. CASE "file" \notin DOMAIN job
      <4>1. n = 3 BY <1>1, <2>3, <3>2, LineCommand
      <4> QED BY <1>1, <2>1, <3>0, <3>2, <4>1 DEF Clear, Came
    <3> QED BY <3>1, <3>2
  <2> QED BY <1>1, <2>1, <2>2, <2>3, AckWrote DEF Far
<1>3. CASE ~(state = "READY" /\ ValidConfig(config_hdr, outputs))
  <2>1. Answers("fail") /\ UNCHANGED <<eeprom, place>> BY <1>3 DEF HandleEnd, Fails
  <2> QED BY <1>1, <2>1, FailWrote
<1> QED BY <1>2, <1>3
-----------------------------------------------------------------------------
LEMMA HeaderWrote == ASSUME WroteInv, HandleHeader PROVE ScriptStep
<1>1. line # NULL /\ line.op = "header" /\ UNCHANGED outputs BY DEF HandleHeader, Takes
<1>2. CASE state = "READY" /\ ValidHeader(line.hdr)
  <2>1. /\ Answers("ok") /\ UNCHANGED <<job, before, eeprom, place, clean, state>>
        /\ config_hdr' = line.hdr
    BY <1>2 DEF HandleHeader, Acks, Answers, Stays, script
  <2>2. ASSUME job # NULL, NEW write \in BOOLEAN, NEW n \in Nat, Stage(write, n) PROVE Sent(n + 1)'
    <3>1. "file" \in DOMAIN job BY <1>1, <2>2, LineCommand
    <3> DEFINE f == job.file
               m == Len(f.outputs)
    <3>2. n = 1 /\ line.hdr = HeaderOf(f) /\ m \in Nat
      BY <1>1, <2>2, <3>1, LineCommand, FileType
    <3>3. Least((n + 1) - 2, m) = 0 BY <3>2 DEF Least
    <3>4. Len(outputs) \in Nat BY Facts DEF WroteInv, StoreInv, SketchOK
    <3>5. Has(config_hdr', outputs, f, 0) BY <2>1, <3>2, <3>4 DEF Has
    <3>6. Received(f, n + 1)' BY <1>1, <2>1, <3>3, <3>5 DEF Received
    <3> QED BY <2>1, <3>1, <3>6 DEF Sent
  <2>3. ASSUME job # NULL, NEW write \in BOOLEAN, NEW n \in Nat, Stage(write, n) PROVE Clear(n + 1)'
    <3>1. "file" \in DOMAIN job BY <1>1, <2>3, LineCommand
    <3>2. n = 1 /\ Len(job.file.outputs) \in Nat BY <1>1, <2>3, <3>1, LineCommand, FileType
    <3>3. Clear(n) /\ Wanted' = Wanted BY <1>1, <2>1, <2>3, LineCommand DEF Wanted
    <3> QED BY <1>1, <2>1, <3>1, <3>2, <3>3 DEF Clear, Came
  <2> QED BY <1>1, <2>1, <2>2, <2>3, AckWrote DEF Far
<1>3. CASE ~(state = "READY" /\ ValidHeader(line.hdr))
  <2>1. Answers("fail") /\ UNCHANGED <<eeprom, place>> BY <1>3 DEF HandleHeader, Fails
  <2> QED BY <1>1, <2>1, FailWrote
<1> QED BY <1>2, <1>3

LEMMA AddressWrote == ASSUME WroteInv, HandleAddress PROVE ScriptStep
<1>1. line # NULL /\ line.op = "address" /\ UNCHANGED outputs BY DEF HandleAddress, Takes
<1>2. CASE state = "READY"
  <2>1. /\ Answers("ok") /\ UNCHANGED <<job, before, eeprom, place, clean, state>>
        /\ config_hdr' = IF config_hdr = NULL THEN NULL ELSE [config_hdr EXCEPT !.address = line.address]
    BY <1>2 DEF HandleAddress, Acks, Answers, Stays, script
  <2>2. ASSUME job # NULL, NEW write \in BOOLEAN, NEW n \in Nat, Stage(write, n) PROVE Sent(n + 1)'
    <3>1. "file" \notin DOMAIN job BY <1>1, <2>2, LineCommand
    <3>2. n = 2 /\ line.address = job.address /\ Changed(job.address, n)
      BY <1>1, <2>2, <3>1, LineCommand DEF Sent
    <3>3. config_hdr # NULL => config_hdr \in Header BY Facts DEF WroteInv, StoreInv
    <3>5. config_hdr' # NULL => config_hdr # NULL BY <2>1
    <3>4. config_hdr # NULL =>
            /\ config_hdr = before.header /\ config_hdr.version = CONFIG_VERSION
            /\ config_hdr' = [before.header EXCEPT !.address = job.address]
            /\ config_hdr'.version = config_hdr.version
      BY <2>1, <3>2, <3>3 DEF Changed, Header
    <3>6. Changed(job.address, n + 1)' BY <1>1, <2>1, <3>2, <3>4, <3>5 DEF Changed
    <3> QED BY <2>1, <3>1, <3>6 DEF Sent
  <2>3. ASSUME job # NULL, NEW write \in BOOLEAN, NEW n \in Nat, Stage(write, n) PROVE Clear(n + 1)'
    <3>1. "file" \notin DOMAIN job BY <1>1, <2>3, LineCommand
    <3>2. n = 2 /\ line.address \in Nat BY <1>1, <2>3, <3>1, LineCommand
    <3>3. Clear(n) /\ Wanted' = Wanted BY <1>1, <2>1, <2>3, LineCommand DEF Wanted
    <3>4. config_hdr # NULL => config_hdr \in Header BY Facts DEF WroteInv, StoreInv
    <3>5. config_hdr # NULL => config_hdr' \in Header /\ config_hdr'.num = config_hdr.num
      BY <2>1, <3>2, <3>4 DEF Header
    <3>6. config_hdr # NULL => config_hdr' # NULL BY <3>5, NullAssumption
    <3> QED BY <1>1, <2>1, <3>1, <3>2, <3>3, <3>5, <3>6 DEF Clear, Came
  <2> QED BY <1>1, <2>1, <2>2, <2>3, AckWrote DEF Far
<1>3. CASE state # "READY"
  <2>1. Answers("fail") /\ UNCHANGED <<eeprom, place>> BY <1>3 DEF HandleAddress, Fails
  <2> QED BY <1>1, <2>1, FailWrote
<1> QED BY <1>2, <1>3

(* One more output is behind those that were sent before.                  *)
LEMMA HasMore ==
  ASSUME NEW outs \in Seq(Output), NEW out \in Output, NEW hdr, NEW f \in Files, NEW k \in Nat,
         k < Len(f.outputs), Has(hdr, outs, f, k), out = f.outputs[k + 1]
  PROVE  Has(hdr, Append(outs, out), f, k + 1)
<1> DEFINE more == Append(outs, out)
           l == Len(outs)
<1> HIDE DEF Output
<1>1. l \in Nat /\ Len(more) = l + 1 /\ more[l + 1] = out /\ \A i \in 1 .. l : more[i] = outs[i] OBVIOUS
<1>2. /\ hdr = HeaderOf(f) \/ hdr = Stamped(HeaderOf(f))
      /\ l >= k /\ \A i \in 1 .. k : outs[l - k + i] = f.outputs[i]
  BY DEF Has
<1> HIDE DEF more, l
<1>3. ASSUME NEW i \in 1 .. k + 1 PROVE more[Len(more) - (k + 1) + i] = f.outputs[i]
  <2>1. Len(more) - (k + 1) + i = l - k + i BY <1>1
  <2>2. CASE i \in 1 .. k
    <3>1. l - k + i \in 1 .. l BY <1>1, <1>2, <2>2
    <3> QED BY <1>1, <1>2, <2>1, <2>2, <3>1
  <2>3. CASE i = k + 1
    <3>1. l - k + i = l + 1 BY <1>1, <2>3
    <3> QED BY <1>1, <2>1, <2>3, <3>1
  <2> QED BY <2>2, <2>3
<1>4. Len(more) >= k + 1 BY <1>1, <1>2
<1>5. Has(hdr, more, f, k + 1) BY <1>2, <1>3, <1>4 DEF Has
<1> QED BY <1>5 DEF more

LEMMA GoodOutput ==
  ASSUME NEW c, Good(c), NEW i \in DOMAIN c.outputs
  PROVE  ValidOutput(c.outputs[i]) /\ c.outputs[i].type \in OutputTypes
<1>1. c.outputs[i].type \in OutputTypes BY SessionAssumption DEF Good
<1> QED BY <1>1, WiredOutput DEF Good

LEMMA OutputWrote == ASSUME WroteInv, HandleOutput PROVE ScriptStep
<1>1. line # NULL /\ line.op = "output" /\ UNCHANGED config_hdr BY DEF HandleOutput, Takes
<1>2. CASE state = "READY" /\ (ValidOutput(line.output) \/ line.output.type = "mpr121")
  <2>1. /\ Answers("ok") /\ UNCHANGED <<job, before, eeprom, place, clean, state>>
        /\ outputs' = IF ValidOutput(line.output) THEN Append(outputs, line.output) ELSE outputs
    BY <1>2 DEF HandleOutput, Acks, Answers, Stays, script
  <2>2. ASSUME job # NULL, NEW write \in BOOLEAN, NEW n \in Nat, Stage(write, n) PROVE Sent(n + 1)'
    <3>1. "file" \in DOMAIN job BY <1>1, <2>2, LineCommand
    <3> DEFINE f == job.file
               m == Len(f.outputs)
    <3>2. /\ f \in Files /\ n \in 2 .. m + 1 /\ line.output = f.outputs[n - 1]
          /\ LeavesOut(f) \/ Received(f, n)
      BY <1>1, <2>2, <3>1, LineCommand DEF Sent
    <3>3. m \in Nat /\ f.outputs \in Seq(Output) /\ DOMAIN f.outputs = 1 .. m BY <3>2, FileType
    <3>4. n - 1 \in 1 .. m /\ n - 2 \in Nat /\ n - 2 < m /\ n >= 2 /\ (n - 2) + 1 = n - 1 BY <3>2, <3>3
    <3>5. CASE LeavesOut(f) BY <2>1, <3>1, <3>5 DEF Sent
    <3>6. CASE ~ValidOutput(line.output)
      <4>1. LeavesOut(f) BY <1>2, <3>2, <3>3, <3>4, <3>6 DEF LeavesOut
      <4> QED BY <2>1, <3>1, <4>1 DEF Sent
    <3>7. CASE ValidOutput(line.output) /\ Received(f, n)
      <4>1. Least(n - 2, m) = n - 2 /\ Least((n + 1) - 2, m) = n - 1 BY <3>3, <3>4 DEF Least
      <4>2. Has(config_hdr, outputs, f, n - 2) BY <1>2, <3>4, <3>7, <4>1 DEF Received
      <4>3. outputs \in Seq(Output) BY DEF WroteInv, StoreInv, Holds
      <4>4. line.output \in Output BY <3>2, <3>3, <3>4
      <4> HIDE DEF f, m
      <4>5. Has(config_hdr, Append(outputs, line.output), f, (n - 2) + 1)
        BY <3>2, <3>4, <4>2, <4>3, <4>4, HasMore DEF m
      <4>6. Has(config_hdr, outputs, f, n - 1)' BY <1>1, <2>1, <3>4, <3>7, <4>5 DEF f
      <4>7. Received(job.file, n + 1)' BY <2>1, <4>1, <4>6 DEF Received, f, m
      <4> QED BY <2>1, <3>1, <4>7 DEF Sent
    <3> QED BY <3>2, <3>5, <3>6, <3>7
  <2>3. ASSUME job # NULL, NEW write \in BOOLEAN, NEW n \in Nat, Stage(write, n) PROVE Clear(n + 1)'
    <3>1. "file" \in DOMAIN job BY <1>1, <2>3, LineCommand
    <3>2. Clear(n) /\ Wanted' = Wanted BY <1>1, <2>1, <2>3, LineCommand DEF Wanted
    <3> SUFFICES ASSUME clean, Good(Wanted) PROVE Clear(n + 1)' BY <2>1, <3>2 DEF Clear
    <3> DEFINE f == job.file
               m == Len(f.outputs)
    <3>3. f \in Files /\ n \in 2 .. m + 1 /\ line.output = f.outputs[n - 1]
      BY <1>1, <2>3, <3>1, LineCommand
    <3>4. m \in Nat /\ DOMAIN f.outputs = 1 .. m BY <3>3, FileType
    <3>5. n - 1 \in 1 .. m BY <3>3, <3>4
    <3>6. ValidOutput(line.output)
      <4>1. Wanted = f BY <2>3, <3>1 DEF Wanted
      <4>2. ValidOutput(f.outputs[n - 1]) BY <3>4, <3>5, <4>1, GoodOutput
      <4> QED BY <3>3, <4>2
    <3>7. Len(outputs) = n - 2
      <4>1. (IF n <= 2 THEN 0 ELSE Least(n - 2, m)) = n - 2 BY <3>3, <3>4 DEF Least
      <4> QED BY <3>1, <3>2, <4>1 DEF Clear
    <3>8. Len(outputs') = n - 1
      <4>1. outputs \in Seq(Output) BY DEF WroteInv, StoreInv, Holds
      <4>2. outputs' = Append(outputs, line.output) BY <2>1, <3>6
      <4>3. Len(outputs') = Len(outputs) + 1 BY <4>1, <4>2
      <4> QED BY <3>3, <3>4, <3>7, <4>3
    <3>9. /\ (IF n + 1 <= 2 THEN 0 ELSE Least((n + 1) - 2, m)) = n - 1
          /\ ~(n + 1 < 1) /\ n + 1 < m + 3
      BY <3>3, <3>4 DEF Least
    <3> QED BY <1>2, <2>1, <3>1, <3>2, <3>8, <3>9 DEF Clear, Came
  <2> QED BY <1>1, <2>1, <2>2, <2>3, AckWrote DEF Far
<1>3. CASE ~(state = "READY" /\ (ValidOutput(line.output) \/ line.output.type = "mpr121"))
  <2>1. Answers("fail") /\ UNCHANGED <<eeprom, place>> BY <1>3 DEF HandleOutput, Fails
  <2> QED BY <1>1, <2>1, FailWrote
<1> QED BY <1>2, <1>3

LEMMA ReadWrote == ASSUME WroteInv, HandleRead PROVE ScriptStep
<1>1. line # NULL /\ line.op = "read" BY DEF HandleRead, Takes
<1>2. CASE Readable(eeprom)
  <2>1. /\ Answers("ok") /\ UNCHANGED <<job, before, eeprom, place, clean, state>>
        /\ config_hdr' = eeprom[0] /\ outputs' = Stored(eeprom).outputs
    BY <1>2 DEF HandleRead, Acks, Answers, Stays, script
  <2>2. ASSUME job # NULL, NEW write \in BOOLEAN, NEW n \in Nat, Stage(write, n) PROVE Sent(n + 1)'
    <3>1. "file" \notin DOMAIN job BY <1>1, <2>2, LineCommand
    <3>2. n = 0 BY <1>1, <2>2, <3>1, LineCommand
    <3>3. Stored(eeprom) = before BY <2>2, <3>1, <3>2 DEF Stage
    <3>4. /\ before.header = eeprom[0] /\ before = [header |-> before.header, outputs |-> before.outputs]
          /\ eeprom[0].version = CONFIG_VERSION
      BY <1>2, <3>3 DEF Stored, Readable, HasHeader
    <3>5. Changed(job.address, n + 1)' BY <2>1, <3>2, <3>3, <3>4 DEF Changed
    <3> QED BY <2>1, <3>1, <3>5 DEF Sent
  <2>3. ASSUME job # NULL, NEW write \in BOOLEAN, NEW n \in Nat, Stage(write, n) PROVE Clear(n + 1)'
    <3>1. "file" \notin DOMAIN job BY <1>1, <2>3, LineCommand
    <3>2. n = 0 BY <1>1, <2>3, <3>1, LineCommand
    <3>3. Clear(n) /\ Wanted' = Wanted BY <1>1, <2>1, <2>3, LineCommand DEF Wanted
    <3>4. eeprom[0] # NULL /\ eeprom[0].num \in Nat
      BY <1>2, Facts DEF Readable, HasHeader, WroteInv, StoreInv, SketchOK, Header
    <3>5. outputs' = [i \in 1 .. eeprom[0].num |-> eeprom[Chain(eeprom, eeprom[0].num)[i]]]
      BY <1>2, <2>1 DEF Stored
    <3>6. Len(outputs') = eeprom[0].num BY <3>4, <3>5
    <3> QED BY <2>1, <3>1, <3>2, <3>3, <3>4, <3>6 DEF Clear, Came
  <2> QED BY <1>1, <2>1, <2>2, <2>3, AckWrote DEF Far
<1>3. CASE ~Readable(eeprom)
  <2>1. Answers("fail") /\ UNCHANGED <<eeprom, place>> BY <1>3 DEF HandleRead, Fails
  <2> QED BY <1>1, <2>1, FailWrote
<1> QED BY <1>2, <1>3

LEMMA GarbageWrote == ASSUME WroteInv, HandleGarbage PROVE ScriptStep
<1> USE NullAssumption
<1>1. /\ line # NULL /\ line' = NULL /\ reply' = "fail" /\ UNCHANGED <<job, todo, waiting, wrote, before, eeprom, place>>
  BY DEF HandleGarbage, script
<1>2. wrote' = NULL BY <1>1, OnTheLine
<1>3. Written' /\ Kept' BY <1>1, <1>2 DEF Written, Kept
<1>4. Progress'
  <2> SUFFICES ASSUME job # NULL PROVE \E write \in BOOLEAN, n \in Nat : Stage(write, n)'
    BY <1>1 DEF Progress
  <2>1. PICK write \in BOOLEAN, n \in Nat : Stage(write, n) BY DEF WroteInv, Progress
  <2>2. ~Live' BY <1>1, OnTheLine DEF Live
  <2>3. Stage(write, n)' BY <1>1, <2>1, <2>2, StageStays
  <2> QED BY <2>3
<1> QED BY <1>3, <1>4 DEF ScriptStep
-----------------------------------------------------------------------------
(* The header of a file, as it was sent or as a write made it.             *)
LEMMA HasOfFile ==
  ASSUME NEW hdr, NEW f \in Files, NEW outs, NEW k, Has(hdr, outs, f, k)
  PROVE  /\ hdr # NULL /\ hdr.num = Len(f.outputs) /\ Stamped(hdr) = Stamped(HeaderOf(f))
         /\ hdr.version = CONFIG_VERSION => hdr = Stamped(HeaderOf(f))
<1> DEFINE h == HeaderOf(f)
<1>1. h \in Header /\ h.num = Len(f.outputs) BY RoomForFile DEF HeaderOf
<1>2. hdr = h \/ hdr = Stamped(h) BY DEF Has
<1> HIDE DEF h
<1>3. /\ hdr # NULL /\ hdr.num = Len(f.outputs) /\ Stamped(hdr) = Stamped(h)
      /\ hdr.version = CONFIG_VERSION => hdr = Stamped(h)
  BY <1>1, <1>2, StampedHeader
<1> QED BY <1>3 DEF h

(* All outputs of a file and nothing else are the outputs of that file.    *)
LEMMA HasAll ==
  ASSUME NEW hdr, NEW f \in Files, NEW outs \in Seq(Output), Has(hdr, outs, f, Len(f.outputs)),
         Len(outs) = Len(f.outputs)
  PROVE  outs = f.outputs
<1> DEFINE m == Len(f.outputs)
<1>1. f.outputs \in Seq(Output) /\ m \in Nat BY FileType
<1>2. \A i \in 1 .. m : outs[Len(outs) - m + i] = f.outputs[i] BY DEF Has
<1>3. \A i \in 1 .. m : Len(outs) - m + i = i BY <1>1
<1>4. \A i \in 1 .. m : outs[i] = f.outputs[i] BY <1>2, <1>3
<1>5. outs \in [1 .. m -> Output] /\ f.outputs \in [1 .. m -> Output] BY <1>1, LenProperties
<1>6. outs = [i \in 1 .. m |-> outs[i]] /\ f.outputs = [i \in 1 .. m |-> f.outputs[i]] BY <1>5
<1> QED BY <1>4, <1>6

LEMMA WriteWrote == ASSUME WroteInv, HandleWrite PROVE ScriptStep
<1> USE NullAssumption
<1>1. line # NULL /\ line.op = "write" BY DEF HandleWrite, Takes
<1>2. CASE state = "DONE" /\ Sizable(outputs)
  <2>1. /\ place' = [index |-> 0, addr |-> 0] /\ line' = NULL
        /\ config_hdr' = Stamped(config_hdr)
        /\ UNCHANGED <<job, todo, waiting, before, wrote, state, outputs, reply, eeprom, clean>>
    BY <1>2 DEF HandleWrite, script
  <2>6. config_hdr \in Header /\ config_hdr # NULL BY <1>2, Facts DEF WroteInv, StoreInv
  <2>2. wrote' = NULL BY <1>1, <2>1, OnTheLine
  <2>3. job # NULL => reply = NULL BY <1>1, OnTheLine
  <2>4. Written' /\ Kept' BY <2>1, <2>2, <2>3 DEF Written, Kept
  <2>5. Progress'
    <3> SUFFICES ASSUME job # NULL PROVE \E write \in BOOLEAN, n \in Nat : Stage(write, n)'
      BY <2>1 DEF Progress
    <3>1. PICK write \in BOOLEAN, n \in Nat : Stage(write, n) BY DEF WroteInv, Progress
    <3>2. Far(n) BY <1>1, <3>1, LineCommand DEF Far
    <3>6. Sent(n)'
      <4>1. CASE "file" \in DOMAIN job
        <5> DEFINE f == job.file
        <5>1. f \in Files /\ (LeavesOut(f) \/ Received(f, n)) BY <1>1, <3>1, <4>1, LineCommand DEF Sent
        <5>2. HeaderOf(f) \in Header BY <5>1, RoomForFile
        <5>3. \A k : Has(config_hdr, outputs, f, k) => Has(config_hdr', outputs', f, k)
          <6> HIDE DEF f
          <6> QED BY <2>1, <5>2, StampedHeader DEF Has
        <5>4. Received(f, n) => Received(f, n)' BY <2>1, <5>3 DEF Received
        <5> QED BY <2>1, <4>1, <5>1, <5>4 DEF Sent
      <4>2. CASE "file" \notin DOMAIN job
        <5>1. n = 4 /\ Changed(job.address, n) BY <1>1, <3>1, <4>2, LineCommand DEF Sent
        <5>2. config_hdr' = config_hdr BY <2>1, <2>6, <5>1, StampedHeader DEF Changed
        <5> QED BY <2>1, <4>2, <5>1, <5>2 DEF Sent, Changed
      <4> QED BY <4>1, <4>2
    <3>7. Clear(n)'
      <4>1. Wanted' = Wanted BY <2>1 DEF Wanted
      <4>2. config_hdr' # NULL /\ config_hdr'.num = config_hdr.num BY <2>1, <2>6, StampedHeader
      <4> QED BY <2>1, <2>6, <3>2, <4>1, <4>2 DEF Far, Clear, Came
    <3>3. Far(n)' BY <3>6, <3>7 DEF Far
    <3>4. Handled(n)' = n BY <2>1, <2>3 DEF Handled
    <3>5. Stage(write, n)' BY <2>1, <3>1, <3>3, <3>4, StageStays
    <3> QED BY <3>5
  <2> QED BY <2>4, <2>5 DEF ScriptStep
<1>3. CASE ~(state = "DONE" /\ Sizable(outputs))
  <2>1. Answers("fail") /\ UNCHANGED <<eeprom, place>> BY <1>3 DEF HandleWrite, Fails
  <2> QED BY <1>1, <2>1, FailWrote
<1> QED BY <1>2, <1>3

LEMMA RecordWrote == ASSUME WroteInv, WriteRecord PROVE ScriptStep
<1> USE NullAssumption
<1>1. /\ place # NULL
      /\ UNCHANGED <<job, todo, waiting, before, wrote, state, config_hdr, outputs, clean>>
  BY DEF WriteRecord, script, sketch
<1>2. Kept' BY <1>1 DEF WroteInv, Kept
<1>3. /\ StoreInv /\ state = "DONE" /\ config_hdr.num = Len(outputs)
      /\ config_hdr.version = CONFIG_VERSION
  BY <1>1 DEF WroteInv, StoreInv, Inv, WriteFindsItsOutputs, Writing
<1>4. CASE job = NULL BY <1>1, <1>2, <1>4 DEF ScriptStep, Progress, Written
<1>5. CASE job # NULL
  <2>1. reply = NULL /\ todo # <<>> /\ Head(todo).op = "write" BY <1>1, <1>5 DEF WroteInv, StoreInv, TurnInv, Turns
  <2>2. PICK write \in BOOLEAN, n \in Nat : Stage(write, n) BY <1>5 DEF WroteInv, Progress
  <2>3. Sent(n) /\ Clear(n)
    <3>1. Handled(n) = n BY <2>1 DEF Handled
    <3> QED BY <1>1, <2>2, <3>1 DEF Stage, Live, Far
  <2>4. /\ "file" \in DOMAIN job => job.file \in Files /\ n = Len(job.file.outputs) + 3
        /\ "file" \notin DOMAIN job => n = 4
    <3>1. CASE "file" \in DOMAIN job BY <1>3, <1>5, <2>1, <2>2, <3>1, FileCommand
    <3>2. CASE "file" \notin DOMAIN job BY <1>3, <1>5, <2>1, <2>2, <3>2, AddressCommand
    <3> QED BY <3>1, <3>2
  <2>5. n # 0 /\ Sent(n + 1)
    <3>1. CASE "file" \in DOMAIN job
      <4> DEFINE f == job.file
                 m == Len(f.outputs)
      <4>1. f \in Files /\ m \in Nat /\ n = m + 3 BY <2>4, <3>1, FileType
      <4>2. Least(n - 2, m) = Least((n + 1) - 2, m) /\ n >= 2 /\ n + 1 >= 2 BY <4>1 DEF Least
      <4>3. CASE LeavesOut(f) BY <3>1, <4>1, <4>3 DEF Sent
      <4>4. CASE Received(f, n)
        <5>1. Received(f, n + 1) BY <4>2, <4>4 DEF Received
        <5> QED BY <3>1, <4>1, <5>1 DEF Sent
      <4> QED BY <2>3, <3>1, <4>3, <4>4 DEF Sent
    <3>2. CASE "file" \notin DOMAIN job BY <2>3, <2>4, <3>2 DEF Sent, Changed
    <3> QED BY <3>1, <3>2
  <2>c. Clear(n + 1)
    <3>1. CASE "file" \in DOMAIN job
      <4> DEFINE m == Len(job.file.outputs)
      <4>1. m \in Nat /\ n = m + 3 BY <2>4, <3>1, FileType
      <4>2. /\ (IF n <= 2 THEN 0 ELSE Least(n - 2, m)) = (IF n + 1 <= 2 THEN 0 ELSE Least((n + 1) - 2, m))
            /\ ~(n < 1) /\ ~(n < m + 3) /\ ~(n + 1 < 1) /\ ~(n + 1 < m + 3)
        BY <4>1 DEF Least
      <4> QED BY <2>3, <3>1, <4>2 DEF Clear, Came
    <3>2. CASE "file" \notin DOMAIN job BY <2>3, <2>4, <3>2 DEF Clear, Came
    <3> QED BY <3>1, <3>2
  <2>6. Far(Handled(n))'
    <3>1. Handled(n)' = n \/ Handled(n)' = n + 1 BY DEF Handled
    <3>2. Far(n)' /\ Far(n + 1)' BY <1>1, <2>3, <2>5, <2>c, FarStays DEF Far
    <3> QED BY <3>1, <3>2
  <2>7. Progress'
    <3>1. Stage(write, n)' BY <1>1, <2>2, <2>5, <2>6, StageStays
    <3> QED BY <3>1 DEF Progress
  <2>8. Written'
    <3>1. CASE place.index # config_hdr.num
      <4>1. reply' = NULL BY <2>1, <3>1 DEF WriteRecord
      <4> QED BY <4>1 DEF Written
    <3>2. CASE place.index = config_hdr.num
      <4>1. Stored(eeprom') = [header |-> config_hdr, outputs |-> outputs]
        BY <1>3, <3>2, LastRecord
      <4>2. CASE "file" \in DOMAIN job
        <5> DEFINE f == job.file
                   m == Len(f.outputs)
        <5>1. f \in Files /\ m \in Nat /\ n = m + 3 /\ f.outputs \in Seq(Output) BY <2>4, <4>2, FileType
        <5>2. CASE LeavesOut(f) BY <1>1, <4>2, <5>2 DEF Written, AsWanted
        <5>3. CASE Received(f, n)
          <6>1. Least(n - 2, m) = m /\ n >= 2 BY <5>1 DEF Least
          <6>2. Has(config_hdr, outputs, f, m) BY <1>3, <5>3, <6>1 DEF Received
          <6>3. Len(outputs) = m /\ config_hdr = Stamped(HeaderOf(f)) BY <1>3, <5>1, <6>2, HasOfFile
          <6>4. outputs \in Seq(Output) BY <1>3 DEF StoreInv, Holds
          <6>5. outputs = f.outputs /\ config_hdr = Stamped(HeaderOf(f))
            <7> HIDE DEF f
            <7> QED BY <5>1, <6>2, <6>3, <6>4, HasAll
          <6>7. Stored(eeprom') = InOwnVersion(f) BY <4>1, <6>5 DEF InOwnVersion
          <6> QED BY <1>1, <4>2, <6>7 DEF Written, AsWanted
        <5> QED BY <2>3, <4>2, <5>2, <5>3 DEF Sent
      <4>3. CASE "file" \notin DOMAIN job
        <5>1. /\ before = [header |-> before.header, outputs |-> outputs]
              /\ config_hdr = [before.header EXCEPT !.address = job.address]
          <6>1. config_hdr # NULL BY <1>1, <1>3 DEF StoreInv, Inv, WriteFindsItsOutputs
          <6> QED BY <2>3, <2>4, <4>3, <6>1 DEF Sent, Changed
        <5>2. [before EXCEPT !.header.address = job.address] = [header |-> config_hdr, outputs |-> outputs]
          BY <5>1
        <5>3. Stored(eeprom') = [before EXCEPT !.header.address = job.address] BY <4>1, <5>2
        <5> QED BY <1>1, <4>3, <5>3 DEF Written, AsWanted
      <4> QED BY <4>2, <4>3
    <3> QED BY <3>1, <3>2
  <2> QED BY <1>2, <2>7, <2>8 DEF ScriptStep
<1> QED BY <1>4, <1>5
-----------------------------------------------------------------------------
LEMMA WroteInit == Init => WroteInv
<1> SUFFICES ASSUME Init PROVE WroteInv OBVIOUS
<1>1. StoreInv BY StoreInit
<1>2. Progress /\ Written /\ Kept BY DEF Init, Progress, Written, Kept
<1> QED BY <1>1, <1>2 DEF WroteInv

LEMMA WroteStep == ASSUME WroteInv, [Next]_vars PROVE WroteInv'
<1>1. StoreInv' BY StoreStep DEF WroteInv
<1>2. CASE UNCHANGED vars
  <2>1. UNCHANGED <<job, todo, waiting, before, wrote, line, place, reply, state, config_hdr, outputs, eeprom,
                    clean>>
    BY <1>2 DEF vars, script, sketch
  <2>2. Written' /\ Kept' BY <2>1 DEF WroteInv, Written, Kept, AsWanted
  <2>3. Progress'
    <3> SUFFICES ASSUME job # NULL PROVE \E write \in BOOLEAN, n \in Nat : Stage(write, n)'
      BY <2>1 DEF Progress
    <3>1. PICK write \in BOOLEAN, n \in Nat : Stage(write, n) BY DEF WroteInv, Progress
    <3>2. Live' => Far(Handled(n))'
      <4>1. Live' = Live /\ Handled(n)' = Handled(n) BY <2>1 DEF Live, Handled
      <4>2. Live => Far(Handled(n)) BY <3>1 DEF Stage
      <4> QED BY <2>1, <4>1, <4>2, FarStays
    <3>3. Stage(write, n)' BY <2>1, <3>1, <3>2, StageStays
    <3> QED BY <3>3
  <2> QED BY <1>1, <2>2, <2>3 DEF WroteInv
<1>3. CASE Begin \/ Send \/ Confirm \/ End \/ LoseBytes \/ LoseReply \/ Reset
  <2>1. ScriptStep BY <1>3, BeginWrote, SendWrote, ConfirmWrote, EndWrote, FaultWrote
  <2> QED BY <1>1, <2>1 DEF WroteInv, ScriptStep
<1>4. CASE Sketch
  <2>1. ScriptStep
    BY <1>4, StartWrote, HeaderWrote, AddressWrote, OutputWrote, EndsWrote, ReadWrote, WriteWrote,
       RecordWrote, GarbageWrote DEF Sketch
  <2> QED BY <1>1, <2>1 DEF WroteInv, ScriptStep
<1> QED BY <1>2, <1>3, <1>4 DEF Next

LEMMA WroteInductive == Spec => []WroteInv
BY WroteInit, WroteStep, PTL DEF Spec

(* What the script reports as written is what the module then reads, the   *)
(* configuration of the file (HMTLConfig:241-243), in the version of the   *)
(* sketch, or the stored one with the new address (HMTLConfig:215-221),    *)
(* for any files, sessions, losses and resets; but for a file with a       *)
(* sensor that is not valid and that the sketch leaves out.                *)
THEOREM WroteCorrect == Spec => []WroteIsStored
<1>2. WroteInv => WroteIsStored BY DEF WroteInv, Kept, AsWanted, WroteIsStored
<1> QED BY <1>2, WroteInductive, PTL
-----------------------------------------------------------------------------
(* While nothing went wrong, nothing of a correct configuration of the     *)
(* sketch's own version is refused.                                        *)
Fresh ==
  job # NULL /\ clean /\ Good(Wanted) /\ ~Foreign =>
    ~partial /\ reply # "fail" /\ (line # NULL => line.op # "garbage")
FreshInv == WroteInv /\ Fresh

LEMMA WantedStays == ASSUME UNCHANGED <<job, before>> PROVE Wanted' = Wanted /\ (Foreign' <=> Foreign)
BY DEF Wanted, Foreign

LEMMA ScriptFresh ==
  ASSUME FreshInv, Begin \/ Send \/ Confirm \/ End \/ LoseBytes \/ LoseReply \/ Reset
  PROVE  Fresh'
<1> USE NullAssumption
<1>1. CASE Begin
  <2>2. line' = NULL /\ reply' = NULL /\ (clean' => ~partial') BY <1>1 DEF Begin
  <2> QED BY <2>2 DEF Fresh
<1>2. CASE End BY <1>2 DEF End, Fresh
<1>3. CASE Send
  <2>1. /\ job # NULL /\ todo # <<>> /\ line' = Head(todo) /\ reply' = NULL
        /\ UNCHANGED <<job, before, partial, clean>>
    BY <1>3 DEF Send, FreshInv, WroteInv, StoreInv, TurnInv, Turns
  <2>2. Wanted' = Wanted /\ (Foreign' <=> Foreign) BY <2>1, WantedStays
  <2>3. Head(todo).op # "garbage"
    <3>1. PICK write \in BOOLEAN, n \in Nat : Stage(write, n) BY <2>1 DEF FreshInv, WroteInv, Progress
    <3>2. StoreInv BY DEF FreshInv, WroteInv
    <3>3. CASE "file" \in DOMAIN job BY <2>1, <3>1, <3>2, <3>3, FileCommand
    <3>4. CASE "file" \notin DOMAIN job BY <2>1, <3>1, <3>2, <3>4, AddressCommand
    <3> QED BY <3>3, <3>4
  <2> QED BY <2>1, <2>2, <2>3 DEF FreshInv, Fresh
<1>4. CASE Confirm
  <2>1. reply' = NULL /\ UNCHANGED <<job, before, partial, clean, line>> BY <1>4 DEF Confirm
  <2>2. Wanted' = Wanted /\ (Foreign' <=> Foreign) BY <2>1, WantedStays
  <2> QED BY <2>1, <2>2 DEF FreshInv, Fresh
<1>5. CASE LoseBytes \/ Reset
  <2>1. ~clean' /\ job' = job BY <1>5 DEF LoseBytes, Reset, script
  <2> QED BY <2>1 DEF FreshInv, Fresh
<1>6. CASE LoseReply
  <2>1. reply' = NULL /\ UNCHANGED <<job, before, partial, clean, line>> BY <1>6 DEF LoseReply, script
  <2>2. Wanted' = Wanted /\ (Foreign' <=> Foreign) BY <2>1, WantedStays
  <2> QED BY <2>1, <2>2 DEF FreshInv, Fresh
<1> QED BY <1>1, <1>2, <1>3, <1>4, <1>5, <1>6

(* What is refused of a job is not correct, command by command.            *)
Refused == Answers("fail") /\ job # NULL /\ clean /\ Good(Wanted) /\ ~Foreign

LEMMA AnswerFresh ==
  ASSUME FreshInv, NEW r, Answers(r), r = "fail" => ~Refused
  PROVE  Fresh'
<1>1. line' = NULL /\ reply' = r /\ UNCHANGED <<job, before, partial, clean>> BY DEF Answers, script
<1>2. Wanted' = Wanted /\ (Foreign' <=> Foreign) BY <1>1, WantedStays
<1> QED BY <1>1, <1>2 DEF FreshInv, Fresh, Refused

LEMMA GoodFile ==
  ASSUME FreshInv, line # NULL, line.op # "garbage", Refused
  PROVE  \E n \in Nat :
           /\ Sent(n)
           /\ "file" \in DOMAIN job =>
                LET f == job.file
                    m == Len(f.outputs)
                IN  /\ f \in Files /\ m \in Nat /\ Wanted = f /\ ~LeavesOut(f)
                    /\ Came(n, 1, m + 3) /\ Len(outputs) = IF n <= 2 THEN 0 ELSE Least(n - 2, m)
                    /\ \/ n = 0 /\ line.op = "start"
                       \/ n = 1 /\ line.op = "header" /\ line.hdr = HeaderOf(f)
                       \/ n \in 2 .. m + 1 /\ line.op = "output" /\ line.output = f.outputs[n - 1]
                       \/ n = m + 2 /\ line.op = "end"
                       \/ n = m + 3 /\ line.op = "write"
           /\ "file" \notin DOMAIN job =>
                /\ Came(n, 2, 4) /\ Wanted = before
                /\ n >= 1 => config_hdr # NULL /\ config_hdr.num = Len(outputs)
                /\ n = 0 => Stored(eeprom) = before
                /\ \/ n = 0 /\ line.op = "read"
                   \/ n = 1 /\ line.op = "start"
                   \/ n = 2 /\ line.op = "address" /\ line.address = job.address
                   \/ n = 3 /\ line.op = "end"
                   \/ n = 4 /\ line.op = "write"
<1>1. PICK write \in BOOLEAN, n \in Nat : Stage(write, n) BY DEF FreshInv, WroteInv, Progress, Refused
<1>2. WroteInv /\ job # NULL BY DEF FreshInv, Refused
<1>3. Sent(n) /\ Clear(n) BY <1>1, <1>2, LineCommand
<1>4. CASE "file" \in DOMAIN job
  <2> DEFINE f == job.file
             m == Len(f.outputs)
  <2>1. /\ f \in Files
        /\ \/ n = 0 /\ line.op = "start"
           \/ n = 1 /\ line.op = "header" /\ line.hdr = HeaderOf(f)
           \/ n \in 2 .. m + 1 /\ line.op = "output" /\ line.output = f.outputs[n - 1]
           \/ n = m + 2 /\ line.op = "end"
           \/ n = m + 3 /\ line.op = "write"
    BY <1>1, <1>2, <1>4, LineCommand
  <2>2. m \in Nat BY <2>1, FileType
  <2>3. Wanted = f BY <1>2, <1>4 DEF Wanted
  <2>4. ~LeavesOut(f)
    <3>1. Good(f) BY <2>3 DEF Refused
    <3> QED BY <3>1, GoodOutput DEF LeavesOut
  <2>5. Came(n, 1, m + 3) /\ Len(outputs) = IF n <= 2 THEN 0 ELSE Least(n - 2, m)
    BY <1>3, <1>4 DEF Clear, Refused
  <2> QED BY <1>3, <1>4, <2>1, <2>2, <2>3, <2>4, <2>5
<1>5. CASE "file" \notin DOMAIN job
  <2>1. /\ \/ n = 0 /\ line.op = "read"
           \/ n = 1 /\ line.op = "start"
           \/ n = 2 /\ line.op = "address" /\ line.address = job.address
           \/ n = 3 /\ line.op = "end"
           \/ n = 4 /\ line.op = "write"
    BY <1>1, <1>2, <1>5, LineCommand
  <2>2. Came(n, 2, 4) /\ (n >= 1 => config_hdr # NULL /\ config_hdr.num = Len(outputs))
    BY <1>3, <1>5 DEF Clear, Refused
  <2>3. Wanted = before BY <1>2, <1>5 DEF Wanted
  <2>4. n = 0 => Stored(eeprom) = before BY <1>1, <1>5 DEF Stage
  <2> QED BY <1>3, <1>5, <2>1, <2>2, <2>3, <2>4
<1> QED BY <1>4, <1>5
-----------------------------------------------------------------------------
(* Where the sketch answers, and it says no, the wish was not correct.     *)
LEMMA HeaderTaken == ASSUME FreshInv, HandleHeader, Refused PROVE FALSE
<1> USE NullAssumption
<1>1. line # NULL /\ line.op = "header" BY DEF HandleHeader, Takes
<1>2. PICK n \in Nat :
        /\ "file" \in DOMAIN job /\ job.file \in Files /\ n = 1 /\ line.hdr = HeaderOf(job.file)
        /\ Came(n, 1, Len(job.file.outputs) + 3) /\ Len(job.file.outputs) \in Nat
  BY <1>1, GoodFile
<1>3. state = "READY" BY <1>2 DEF Came
<1>4. line.hdr \in Header /\ line.hdr # NULL BY <1>2, RoomForFile, StampedHeader
<1>6. line.hdr.version = CONFIG_VERSION BY <1>2 DEF Refused, Foreign, HeaderOf
<1>5. ValidHeader(line.hdr) BY <1>4, <1>6, HeaderCount
<1> QED BY <1>3, <1>5 DEF HandleHeader, Acks, Answers, Refused

LEMMA AddressTaken == ASSUME FreshInv, HandleAddress, Refused PROVE FALSE
<1>1. line # NULL /\ line.op = "address" BY DEF HandleAddress, Takes
<1>2. PICK n \in Nat : n = 2 /\ Came(n, 2, 4) BY <1>1, GoodFile
<1>3. state = "READY" BY <1>2 DEF Came
<1> QED BY <1>3 DEF HandleAddress, Acks, Answers, Refused

LEMMA OutputTaken == ASSUME FreshInv, HandleOutput, Refused PROVE FALSE
<1>1. line # NULL /\ line.op = "output" BY DEF HandleOutput, Takes
<1>2. PICK n \in Nat :
        /\ "file" \in DOMAIN job /\ job.file \in Files /\ Len(job.file.outputs) \in Nat
        /\ n \in 2 .. Len(job.file.outputs) + 1 /\ line.output = job.file.outputs[n - 1]
        /\ Came(n, 1, Len(job.file.outputs) + 3) /\ Wanted = job.file
  BY <1>1, GoodFile
<1> DEFINE f == job.file
           m == Len(f.outputs)
<1>3. state = "READY" BY <1>2 DEF Came
<1>4. n - 1 \in DOMAIN f.outputs
  <2>1. DOMAIN f.outputs = 1 .. m BY <1>2, FileType
  <2> QED BY <1>2, <2>1
<1>5. Good(f) BY <1>2 DEF Refused
<1>6. ValidOutput(f.outputs[n - 1]) BY <1>4, <1>5, GoodOutput
<1>7. ValidOutput(line.output) BY <1>2, <1>6
<1> QED BY <1>3, <1>7 DEF HandleOutput, Acks, Answers, Refused

LEMMA ReadTaken == ASSUME FreshInv, HandleRead, Refused PROVE FALSE
<1>1. line # NULL /\ line.op = "read" BY DEF HandleRead, Takes
<1>2. Stored(eeprom) = before /\ Wanted = before BY <1>1, GoodFile
<1>3. before # NULL BY <1>2 DEF Refused, Good
<1>4. Readable(eeprom) BY <1>2, <1>3 DEF Stored
<1> QED BY <1>4 DEF HandleRead, Acks, Answers, Refused

(* Before "end" the sketch holds the configuration the script means.       *)
LEMMA SketchHolds ==
  ASSUME FreshInv, line # NULL, line.op \in {"end", "write"}, Refused
  PROVE  /\ outputs \in Seq(Output) /\ config_hdr # NULL /\ config_hdr.num = Len(outputs)
         /\ outputs = Wanted.outputs
         /\ state = IF line.op = "end" THEN "READY" ELSE "DONE"
<1> USE NullAssumption
<1>1. outputs \in Seq(Output) BY DEF FreshInv, WroteInv, StoreInv, Holds
<1>2. line.op = "end" \/ line.op = "write" OBVIOUS
<1>3. CASE "file" \in DOMAIN job
  <2> DEFINE f == job.file
             m == Len(f.outputs)
  <2>1. PICK n \in Nat :
          /\ Sent(n) /\ f \in Files /\ m \in Nat /\ Wanted = f /\ ~LeavesOut(f)
          /\ Came(n, 1, m + 3) /\ Len(outputs) = IF n <= 2 THEN 0 ELSE Least(n - 2, m)
          /\ (n = m + 2 /\ line.op = "end") \/ (n = m + 3 /\ line.op = "write")
    BY <1>2, <1>3, GoodFile
  <2>2. Least(n - 2, m) = m /\ (IF n <= 2 THEN 0 ELSE Least(n - 2, m)) = m /\ n >= 2 /\ ~(n < 1)
        /\ (n < m + 3 <=> line.op = "end")
    BY <2>1 DEF Least
  <2>3. state = IF line.op = "end" THEN "READY" ELSE "DONE" BY <2>1, <2>2 DEF Came
  <2>4. Received(f, n) BY <1>3, <2>1 DEF Sent
  <2>5. Has(config_hdr, outputs, f, m) /\ Len(outputs) = m BY <2>1, <2>2, <2>3, <2>4 DEF Received
  <2> HIDE DEF f
  <2>6. outputs = f.outputs /\ config_hdr # NULL /\ config_hdr.num = Len(outputs)
    BY <1>1, <2>1, <2>5, HasAll, HasOfFile
  <2> QED BY <1>1, <2>1, <2>3, <2>6
<1>4. CASE "file" \notin DOMAIN job
  <2>1. PICK n \in Nat :
          /\ Sent(n) /\ Came(n, 2, 4) /\ Wanted = before
          /\ n >= 1 => config_hdr # NULL /\ config_hdr.num = Len(outputs)
          /\ (n = 3 /\ line.op = "end") \/ (n = 4 /\ line.op = "write")
    BY <1>2, <1>4, GoodFile
  <2>2. state = IF line.op = "end" THEN "READY" ELSE "DONE" BY <2>1 DEF Came
  <2>3. config_hdr # NULL /\ config_hdr.num = Len(outputs) BY <2>1
  <2>4. before.outputs = outputs
    <3>1. Changed(job.address, n) /\ n >= 1 BY <1>4, <2>1 DEF Sent
    <3>2. before = [header |-> before.header, outputs |-> outputs] BY <2>3, <3>1 DEF Changed
    <3> QED BY <3>2
  <2> QED BY <1>1, <2>1, <2>2, <2>3, <2>4
<1> QED BY <1>3, <1>4

LEMMA EndTaken == ASSUME FreshInv, HandleEnd, Refused PROVE FALSE
<1>1. line # NULL /\ line.op = "end" BY DEF HandleEnd, Takes
<1>2. /\ outputs \in Seq(Output) /\ config_hdr # NULL /\ config_hdr.num = Len(outputs)
      /\ outputs = Wanted.outputs /\ state = "READY"
  BY <1>1, SketchHolds
<1>3. ValidHeader(config_hdr) BY <1>2 DEF FreshInv, WroteInv, StoreInv, Holds
<1>4. Good(Wanted) BY DEF Refused
<1>5. \A i \in DOMAIN outputs : outputs[i].type \in OutputTypes BY <1>2, <1>4, GoodOutput
<1>6. Wired(Wanted) BY <1>4 DEF Good
<1>7. ValidConfig(config_hdr, outputs) BY <1>2, <1>3, <1>5, <1>6, WiredIsValid
<1> QED BY <1>2, <1>7 DEF HandleEnd, Acks, Answers, Refused

LEMMA WriteTaken == ASSUME FreshInv, HandleWrite, Refused PROVE FALSE
<1>1. line # NULL /\ line.op = "write" BY DEF HandleWrite, Takes
<1>2. outputs = Wanted.outputs /\ state = "DONE" BY <1>1, SketchHolds
<1>3. Sizable(outputs) BY <1>2 DEF Sizable, Refused, Good
<1>4. place' # NULL /\ UNCHANGED reply BY <1>2, <1>3, NullAssumption DEF HandleWrite
<1>5. reply = NULL BY <1>1, OnTheLine DEF Refused, FreshInv
<1> QED BY <1>4, <1>5, NullAssumption DEF Refused, Answers

LEMMA SketchFresh == ASSUME FreshInv, Sketch PROVE Fresh'
<1> USE NullAssumption
<1>1. CASE HandleStart BY <1>1, AnswerFresh DEF HandleStart, Acks
<1>2. CASE HandleHeader
  <2>1. \E r \in {"ok", "fail"} : Answers(r) BY <1>2 DEF HandleHeader, Acks, Fails
  <2> QED BY <1>2, <2>1, AnswerFresh, HeaderTaken
<1>3. CASE HandleAddress
  <2>1. \E r \in {"ok", "fail"} : Answers(r) BY <1>3 DEF HandleAddress, Acks, Fails
  <2> QED BY <1>3, <2>1, AnswerFresh, AddressTaken
<1>4. CASE HandleOutput
  <2>1. \E r \in {"ok", "fail"} : Answers(r) BY <1>4 DEF HandleOutput, Acks, Fails
  <2> QED BY <1>4, <2>1, AnswerFresh, OutputTaken
<1>5. CASE HandleEnd
  <2>1. \E r \in {"ok", "fail"} : Answers(r) BY <1>5 DEF HandleEnd, Acks, Fails
  <2> QED BY <1>5, <2>1, AnswerFresh, EndTaken
<1>6. CASE HandleRead
  <2>1. \E r \in {"ok", "fail"} : Answers(r) BY <1>6 DEF HandleRead, Acks, Fails
  <2> QED BY <1>6, <2>1, AnswerFresh, ReadTaken
<1>7. CASE HandleWrite
  <2>1. CASE state = "DONE" /\ Sizable(outputs)
    <3>1. line' = NULL /\ UNCHANGED <<job, before, partial, clean, reply>>
      BY <1>7, <2>1 DEF HandleWrite, script
    <3>2. Wanted' = Wanted /\ (Foreign' <=> Foreign) BY <3>1, WantedStays
    <3> QED BY <3>1, <3>2 DEF FreshInv, Fresh
  <2>2. CASE ~(state = "DONE" /\ Sizable(outputs))
    <3>1. Answers("fail") BY <1>7, <2>2 DEF HandleWrite, Fails
    <3> QED BY <1>7, <3>1, AnswerFresh, WriteTaken
  <2> QED BY <2>1, <2>2
<1>8. CASE WriteRecord
  <2>1. UNCHANGED <<job, before, partial, clean, line>> /\ (reply' = "ok" \/ reply' = reply)
    BY <1>8 DEF WriteRecord, script
  <2>2. Wanted' = Wanted /\ (Foreign' <=> Foreign) BY <2>1, WantedStays
  <2> QED BY <2>1, <2>2 DEF FreshInv, Fresh
<1>9. CASE HandleGarbage
  <2>1. line # NULL /\ (partial \/ line.op = "garbage") /\ UNCHANGED <<job, before, clean>>
    BY <1>9 DEF HandleGarbage, script
  <2>2. Wanted' = Wanted /\ (Foreign' <=> Foreign) BY <2>1, WantedStays
  <2> QED BY <2>1, <2>2 DEF FreshInv, Fresh
<1> QED BY <1>1, <1>2, <1>3, <1>4, <1>5, <1>6, <1>7, <1>8, <1>9 DEF Sketch

LEMMA FreshStep == ASSUME FreshInv, [Next]_vars PROVE FreshInv'
<1>1. WroteInv' BY WroteStep DEF FreshInv
<1>2. CASE UNCHANGED vars
  <2>1. UNCHANGED <<job, before, partial, clean, line, reply>> BY <1>2 DEF vars, script
  <2>2. Wanted' = Wanted /\ (Foreign' <=> Foreign) BY <2>1, WantedStays
  <2> QED BY <1>1, <2>1, <2>2 DEF FreshInv, Fresh
<1> QED BY <1>1, <1>2, ScriptFresh, SketchFresh DEF FreshInv, Next

(* Of a configuration of its own version, with every pin in range and used *)
(* once and with outputs it was built for, the sketch refuses no command,  *)
(* for any files and addresses (HMTLPythonConfig handle_command), unless a *)
(* reset or lost bytes are in the way, or a file is sent after a session   *)
(* that left outputs behind. A new address is taken also then.             *)
THEOREM RefusesCorrect == Spec => []RefusesForAReason
<1>1. Init => FreshInv BY WroteInit DEF Init, FreshInv, Fresh
<1>2. Spec => []FreshInv BY <1>1, FreshStep, PTL DEF Spec
<1>3. FreshInv => RefusesForAReason
  <2> SUFFICES ASSUME FreshInv, clean, reply = "fail", Good(Wanted), ~Foreign PROVE FALSE
    BY DEF RefusesForAReason, Good
  <2>1. job # NULL BY DEF Good, Wanted
  <2> QED BY <2>1 DEF FreshInv, Fresh
<1> QED BY <1>2, <1>3, PTL
=============================================================================
