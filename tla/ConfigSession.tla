---------------------------- MODULE ConfigSession ----------------------------
(***************************************************************************)
(* How a module gets its configuration: the script HMTLConfig reads a file *)
(* (HMTLjson.py) and sends it, command by command, each confirmed, to the  *)
(* sketch HMTLPythonConfig, which collects, validates and writes it to     *)
(* EEPROM record by record (HMTLTypes.cpp). Sessions follow each other     *)
(* without the sketch being reset; bytes get lost, the script is           *)
(* interrupted, and the board is reset between two records. "print" and    *)
(* "dump" change nothing and are left out.                                 *)
(***************************************************************************)
EXTENDS Integers, Sequences, FiniteSets, SequencesExt

CONSTANTS
  Files,          \* configurations: the fields of a header, and outputs of [type, pins]
  Addresses,      \* addresses to set in a stored configuration
  BuildTypes,     \* output types the sketch was built with
  MAX_PIN_NUM,
  HMTL_MAX_OUTPUTS,
  MaxSessions,    \* bound on how often the script is run
  NULL

NoPin == 255
Pins == [value |-> 1, rgb |-> 3, pixels |-> 2, rs485 |-> 3, xbee |-> 2, mpr121 |-> 1]
OutputTypes == DOMAIN Pins
CONFIG_TYPES == OutputTypes \cup {"header", "program", "address", "device_id", "baud"}

(* The script never sends more than the sketch has room for, all sessions  *)
(* taken together: add_output has no limit of its own.                     *)
Output == [type : CONFIG_TYPES \cup {"none"}, pins : Seq(Nat)]
ASSUME SessionAssumption ==
  /\ Files \subseteq [version : Nat, baud : Nat, device_id : Nat, address : Nat, outputs : Seq(Output)]
  /\ Addresses \subseteq Nat /\ HMTL_MAX_OUTPUTS \in Nat
  /\ MaxSessions \in Nat \ {0} /\ {"value", "rgb"} \subseteq BuildTypes /\ BuildTypes \subseteq OutputTypes
  /\ \A f \in Files : MaxSessions * Len(f.outputs) <= HMTL_MAX_OUTPUTS

VARIABLES
  job, todo, waiting,     \* the script: what it does, commands to send, one is not confirmed
  line, partial, reply,   \* the serial line, and a command without an end in the sketch's buffer
  state, config_hdr, outputs,   \* the sketch: the first config_outputs of its outputs
  eeprom,                 \* records by address
  place,                  \* of the running write: the record to write next, and where
  sessions, before, wrote,   \* history: sessions begun, what was stored when the last
                             \* began, the job it reported as written,
  clean, torn                \* nothing went wrong since, a write was cut short
script == <<job, todo, waiting, sessions, before, wrote>>
sketch == <<state, config_hdr, outputs>>
vars == <<script, line, partial, reply, sketch, eeprom, place, clean, torn>>
-----------------------------------------------------------------------------
(* The sketch's header. NULL is one without the magic number, which those  *)
(* of the script and of hmtl_write_config have. A header of an older       *)
(* version has its count where this one has the baud rate or the low byte  *)
(* of the device's id.                                                     *)
CONFIG_VERSION == 3
Header == [version : Nat, baud : Nat, num : 0 .. HMTL_MAX_OUTPUTS, device_id : Nat, address : Nat]
Stamped(hdr) == [hdr EXCEPT !.version = CONFIG_VERSION]
Count(hdr) ==
  CASE hdr.version = 1 -> hdr.baud [] hdr.version = 2 -> hdr.device_id % 256 [] OTHER -> hdr.num
ValidHeader(hdr) == hdr # NULL /\ hdr.version \in 1 .. 3 /\ Count(hdr) <= HMTL_MAX_OUTPUTS

(* Records in EEPROM. A record begins at the address where the one before  *)
(* it ends; writing one destroys those that begin inside it.               *)
HeaderSize == 1
OutputSize(out) == IF out.type \in {"value", "mpr121"} THEN 1 ELSE 2
Cells == 0 .. HeaderSize + 2 * HMTL_MAX_OUTPUTS
Stores(mem, at, size, record) ==
  [a \in Cells |-> IF a = at THEN record
                   ELSE IF a \in at + 1 .. at + size - 1 THEN NULL ELSE mem[a]]

(* Where the outputs begin, or -1 after the first that cannot be read.     *)
Chain(mem, num) ==
  LET at[i \in 1 .. num + 1] ==
        IF i = 1 THEN HeaderSize
        ELSE IF at[i - 1] = -1 THEN -1
        ELSE IF mem[at[i - 1]] = NULL THEN -1
        ELSE at[i - 1] + OutputSize(mem[at[i - 1]])
  IN at
HasHeader(mem) == mem[0] # NULL /\ mem[0].version = CONFIG_VERSION
Readable(mem) == HasHeader(mem) /\ Chain(mem, mem[0].num)[mem[0].num + 1] # -1
Stored(mem) ==
  IF ~Readable(mem) THEN NULL
  ELSE [header |-> mem[0],
        outputs |-> [i \in 1 .. mem[0].num |-> mem[Chain(mem, mem[0].num)[i]]]]

Distinct(s) == \A i, j \in DOMAIN s : s[i] = s[j] => i = j

(* hmtl_validate_value ... _xbee: without a clock pin a strip has 255.     *)
NeedsEveryPin(out) ==
  /\ out.type \in OutputTypes
  /\ \A i \in DOMAIN out.pins : out.pins[i] <= MAX_PIN_NUM
  /\ out.type # "xbee" => Distinct(out.pins)
ValidOutput(out) ==
  /\ out.type \in OutputTypes
  /\ \A i \in DOMAIN out.pins :
       out.pins[i] <= MAX_PIN_NUM \/ (out.type = "pixels" /\ i = 1 /\ out.pins[i] = NoPin)
  /\ out.type # "xbee" => Distinct(out.pins)
AnyCount(hdr, outs) == ValidHeader(hdr) /\ \A i \in DOMAIN outs : ValidOutput(outs[i])
ValidEach(hdr, outs) ==
  /\ ValidHeader(hdr) /\ hdr.num = Len(outs)
  /\ \A i \in DOMAIN outs : ValidOutput(outs[i])
(* Pins are marked in a map of 64, a strip without a clock marks none.     *)
PinMap == 0 .. 63
UsedPins(out) ==
  SubSeq(out.pins, IF out.type = "pixels" /\ out.pins[1] = NoPin THEN 2 ELSE 1, Len(out.pins))
ValidConfig(hdr, outs) ==
  /\ ValidEach(hdr, outs)
  /\ LET used == FlattenSeq([i \in DOMAIN outs |-> UsedPins(outs[i])])
     IN  Distinct(used) /\ Range(used) \subseteq PinMap
-----------------------------------------------------------------------------
(* The file is checked for the fields of each output, its pins only for    *)
(* how many there are. Types that are not those of outputs pass, and so    *)
(* does a header of any version.                                           *)
ValidFile(file) ==
  \A i \in DOMAIN file.outputs :
    LET out == file.outputs[i] IN
    out.type \in CONFIG_TYPES /\ (out.type \in OutputTypes => Len(out.pins) = Pins[out.type])

Command(op) == [op |-> op]
HeaderOf(file) ==
  [version |-> file.version, baud |-> file.baud, num |-> Len(file.outputs),
   device_id |-> file.device_id, address |-> file.address]
SendConfiguration(file) ==
  <<Command("start"), [op |-> "header", hdr |-> HeaderOf(file)]>>
  \o [i \in DOMAIN file.outputs |-> [op |-> "output", output |-> file.outputs[i]]]
  \o <<Command("end")>>
SendAddress(address) ==
  <<Command("read"), Command("start"), [op |-> "address", address |-> address], Command("end")>>
Jobs == [file : {f \in Files : ValidFile(f)}] \cup [address : Addresses]
ASSUME NullAssumption ==    \* what stands for nothing is nothing else
  /\ NULL \notin Jobs \cup {"ok", "fail"} /\ NULL \notin Output
  /\ NULL \notin Header /\ NULL \notin [index : Nat, addr : Nat]
NoAddress(j) == "file" \in DOMAIN j /\ (j.file.address = 0 \/ j.file.device_id = 0)
Commands(j, write) ==
  (IF "file" \in DOMAIN j THEN SendConfiguration(j.file) ELSE SendAddress(j.address))
  \o (IF write /\ ~NoAddress(j) THEN <<Command("write")>> ELSE <<>>)

Init ==
  /\ job = NULL /\ todo = <<>> /\ waiting = FALSE
  /\ line = NULL /\ partial = FALSE /\ reply = NULL
  /\ state = "NEW" /\ config_hdr = NULL /\ outputs = <<>>
  /\ eeprom = [a \in Cells |-> NULL] /\ place = NULL
  /\ sessions = 0 /\ before = NULL /\ wrote = NULL /\ clean = TRUE /\ torn = FALSE

(* The script begins when the sketch said that it is ready, which it does  *)
(* between two commands; it writes the configuration or only tries it.     *)
Begin ==
  /\ sessions < MaxSessions /\ job = NULL /\ line = NULL /\ place = NULL
  /\ \E j \in Jobs, write \in BOOLEAN :
       /\ job' = j
       /\ todo' = Commands(j, write)
  /\ sessions' = sessions + 1 /\ reply' = NULL /\ before' = Stored(eeprom) /\ wrote' = NULL
  /\ clean' = (~partial /\ (outputs = <<>> \/ "address" \in DOMAIN job'))
  /\ UNCHANGED <<waiting, line, partial, sketch, eeprom, place, torn>>

(* send_and_confirm. An output of an unknown type cannot be formatted and  *)
(* ends the script.                                                        *)
Formats(c) == c.op = "output" => c.output.type \in OutputTypes
Send ==
  /\ job # NULL /\ ~waiting /\ todo # <<>> /\ Formats(Head(todo))
  /\ line' = Head(todo) /\ waiting' = TRUE
  /\ UNCHANGED <<job, todo, sessions, before, wrote, partial, reply, sketch, eeprom, place, clean, torn>>
Confirm ==
  /\ waiting /\ reply = "ok"
  /\ reply' = NULL /\ waiting' = FALSE /\ todo' = Tail(todo)
  /\ wrote' = IF Head(todo).op = "write" THEN job ELSE wrote
  /\ UNCHANGED <<job, sessions, before, line, partial, sketch, eeprom, place, clean, torn>>
(* The script ends: it is done, the sketch refused a command, an output    *)
(* cannot be formatted, or somebody stops it where no answer comes.        *)
End ==
  /\ job # NULL
  /\ job' = NULL /\ todo' = <<>> /\ waiting' = FALSE /\ reply' = NULL
  /\ UNCHANGED <<sessions, before, wrote, line, partial, sketch, eeprom, place, clean, torn>>
-----------------------------------------------------------------------------
(* handle_command takes one command; FAIL makes its state ERROR.           *)
Takes(op) == line # NULL /\ ~partial /\ place = NULL /\ line.op = op
Answers(r) == line' = NULL /\ reply' = r /\ UNCHANGED <<script, partial, clean>>
Acks == Answers("ok")
Fails == Answers("fail") /\ state' = "ERROR" /\ UNCHANGED <<eeprom, place, torn>>
Stays == UNCHANGED <<eeprom, place, torn>>

HandleStart == Takes("start") /\ state' = "READY" /\ Acks /\ Stays /\ UNCHANGED <<config_hdr, outputs>>

(* Before "start" a binary command fails; so does an output that is not    *)
(* valid, but for a sensor: that is acknowledged and left out.             *)
HandleHeader ==
  /\ Takes("header")
  /\ IF state = "READY" /\ ValidHeader(line.hdr)
     THEN /\ config_hdr' = line.hdr
          /\ Acks /\ Stays /\ UNCHANGED <<state, outputs>>
     ELSE Fails /\ UNCHANGED <<config_hdr, outputs>>
HandleAddress ==
  /\ Takes("address")
  /\ IF state = "READY"
     THEN /\ config_hdr' = IF config_hdr = NULL THEN NULL ELSE [config_hdr EXCEPT !.address = line.address]
          /\ Acks /\ Stays /\ UNCHANGED <<state, outputs>>
     ELSE Fails /\ UNCHANGED <<config_hdr, outputs>>
HandleOutput ==
  /\ Takes("output")
  /\ IF state = "READY" /\ (ValidOutput(line.output) \/ line.output.type = "mpr121")
     THEN /\ outputs' = IF ValidOutput(line.output) THEN Append(outputs, line.output) ELSE outputs
          /\ Acks /\ Stays /\ UNCHANGED <<state, config_hdr>>
     ELSE Fails /\ UNCHANGED <<config_hdr, outputs>>
HandleEnd ==
  /\ Takes("end")
  /\ IF state = "READY" /\ ValidConfig(config_hdr, outputs)
     THEN state' = "DONE" /\ Acks /\ Stays
     ELSE Fails
  /\ UNCHANGED <<config_hdr, outputs>>

(* read_configuration: a chain that breaks off leaves the new header and   *)
(* the outputs before the break, and the count of outputs as it was.       *)
HandleRead ==
  /\ Takes("read")
  /\ IF Readable(eeprom)
     THEN /\ config_hdr' = eeprom[0]
          /\ outputs' = Stored(eeprom).outputs
          /\ Acks /\ Stays /\ UNCHANGED state
     ELSE /\ config_hdr' = IF eeprom[0] = NULL THEN config_hdr ELSE eeprom[0]
          /\ outputs' = [i \in DOMAIN outputs |->
                            IF HasHeader(eeprom) /\ i <= eeprom[0].num
                               /\ Chain(eeprom, eeprom[0].num)[i + 1] # -1
                            THEN eeprom[Chain(eeprom, eeprom[0].num)[i]]
                            ELSE [type |-> "none", pins |-> <<>>]]
          /\ Fails

(* hmtl_write_config. What cannot be sized would leave no record. A header *)
(* of an older version becomes one of the sketch's own.                    *)
AnySize(outs) == TRUE
Sizable(outs) == \A i \in DOMAIN outs : outs[i].type \in BuildTypes
HandleWrite ==
  /\ Takes("write")
  /\ IF state = "DONE" /\ Sizable(outputs)
     THEN /\ place' = [index |-> 0, addr |-> 0] /\ line' = NULL
          /\ config_hdr' = Stamped(config_hdr)
          /\ UNCHANGED <<script, state, outputs, partial, reply, eeprom, clean, torn>>
     ELSE Fails /\ UNCHANGED <<config_hdr, outputs>>
Record(i) ==
  IF i = 0 THEN config_hdr ELSE IF outputs[i].type \in BuildTypes THEN outputs[i] ELSE NULL
RecordSize(i) == IF i = 0 THEN HeaderSize ELSE OutputSize(outputs[i])
WriteRecord ==
  /\ place # NULL
  /\ eeprom' = Stores(eeprom, place.addr, RecordSize(place.index), Record(place.index))
  /\ IF place.index = config_hdr.num
     THEN place' = NULL /\ reply' = "ok" /\ torn' = FALSE
     ELSE /\ place' = [index |-> place.index + 1, addr |-> place.addr + RecordSize(place.index)]
          /\ UNCHANGED <<reply, torn>>
  /\ UNCHANGED <<script, sketch, line, partial, clean>>

(* A command that lost bytes, or was appended to one that lost its end.    *)
HandleGarbage ==
  /\ line # NULL /\ place = NULL /\ (partial \/ line.op = "garbage")
  /\ line' = NULL /\ partial' = FALSE /\ reply' = "fail" /\ state' = "ERROR"
  /\ UNCHANGED <<script, config_hdr, outputs, eeprom, place, clean, torn>>

(* Faults: bytes of a command or of its answer are lost; the board is      *)
(* reset, which also leaves the record it was writing unreadable or as it  *)
(* was.                                                                    *)
LoseBytes ==
  /\ line # NULL /\ clean' = FALSE
  /\ \/ line' = NULL /\ partial' \in {partial, TRUE}
     \/ line' = Command("garbage") /\ UNCHANGED partial
  /\ UNCHANGED <<script, reply, sketch, eeprom, place, torn>>
LoseReply ==
  /\ reply # NULL /\ reply' = NULL
  /\ UNCHANGED <<script, line, partial, sketch, eeprom, place, clean, torn>>
Reset ==
  /\ line' = NULL /\ partial' = FALSE /\ place' = NULL
  /\ state' = "NEW" /\ config_hdr' = NULL /\ outputs' = <<>>
  /\ clean' = FALSE /\ torn' = (torn \/ place # NULL)
  /\ \/ UNCHANGED eeprom
     \/ place # NULL /\ eeprom' = Stores(eeprom, place.addr, RecordSize(place.index), NULL)
  /\ UNCHANGED <<script, reply>>

Sketch == HandleStart \/ HandleHeader \/ HandleAddress \/ HandleOutput \/ HandleEnd \/ HandleRead
          \/ HandleWrite \/ WriteRecord \/ HandleGarbage
Next == Begin \/ Send \/ Confirm \/ End \/ Sketch \/ LoseBytes \/ LoseReply \/ Reset
Spec == Init /\ [][Next]_vars
-----------------------------------------------------------------------------
AllCommands ==
  {Command(op) : op \in {"start", "end", "read", "write", "garbage"}}
  \cup [op : {"header"}, hdr : Header] \cup [op : {"address"}, address : Nat]
  \cup {[op |-> "output", output |-> out] : out \in UNION {Range(f.outputs) : f \in Files}}
TypeOK ==
  /\ job \in Jobs \cup {NULL} /\ todo \in Seq(AllCommands) /\ waiting \in BOOLEAN
  /\ line \in AllCommands \cup {NULL} /\ partial \in BOOLEAN /\ reply \in {NULL, "ok", "fail"}
  /\ state \in {"NEW", "READY", "DONE", "ERROR"} /\ config_hdr \in Header \cup {NULL}
  /\ Len(outputs) \in Nat /\ outputs = [i \in 1 .. Len(outputs) |-> outputs[i]]
  /\ DOMAIN eeprom = Cells /\ eeprom[0] \in Header \cup {NULL}
  /\ place = NULL \/ place \in [index : Nat, addr : Nat]
  /\ sessions \in 0 .. MaxSessions /\ clean \in BOOLEAN /\ torn \in BOOLEAN

(* A configuration that may be written has as many outputs as its header   *)
(* says, however it came about, and keeps them while it is written:        *)
(* hmtl_write_config follows a pointer for each (HMTLTypes.cpp:154-159).   *)
WriteFindsItsOutputs ==
  /\ state = "DONE" => config_hdr # NULL /\ config_hdr.num = Len(outputs)
  /\ place # NULL => /\ state = "DONE" /\ place.index <= config_hdr.num
                     /\ place.addr = 0 <=> place.index = 0

(* What the script reports as written (HMTLConfig:241-243) is what the     *)
(* module then reads: the configuration of the file, in the sketch's own   *)
(* version, or what was stored with the new address (HMTLConfig:215-221),  *)
(* whatever earlier sessions and resets left behind; but for a file with a *)
(* sensor that is not valid, which the sketch acknowledges and leaves out: *)
(* an output that an interrupted session left behind can take its place in *)
(* the count.                                                              *)
LeavesOut(file) ==
  \E i \in DOMAIN file.outputs : file.outputs[i].type = "mpr121" /\ ~ValidOutput(file.outputs[i])
InOwnVersion(file) == [header |-> Stamped(HeaderOf(file)), outputs |-> file.outputs]
WroteIsStored ==
  wrote # NULL =>
    IF "file" \in DOMAIN wrote THEN LeavesOut(wrote.file) \/ Stored(eeprom) = InOwnVersion(wrote.file)
    ELSE Stored(eeprom) = [before EXCEPT !.header.address = wrote.address]

(* No pin is out of range or used twice, but by strips without a clock.    *)
Wired(c) ==
  \A i, j \in DOMAIN c.outputs : \A k \in DOMAIN c.outputs[i].pins, l \in DOMAIN c.outputs[j].pins :
    LET pin == c.outputs[i].pins[k] IN
    \/ pin = NoPin /\ c.outputs[i].type = "pixels" /\ k = 1
    \/ pin <= MAX_PIN_NUM /\ pin \in PinMap /\ (pin = c.outputs[j].pins[l] => i = j /\ k = l)

(* A module that was not reset while it wrote reads a configuration whose  *)
(* outputs do not share pins, or none at all (HMTLTypes.cpp:508-600).      *)
StoredIsValid ==
  ~torn /\ place = NULL /\ eeprom[0] # NULL => Readable(eeprom) /\ Wired(Stored(eeprom))

(* The sketch refuses nothing of a correct configuration of its own        *)
(* version unless a reset or lost bytes are in the way, or a file is sent  *)
(* after a session that left outputs behind; a new address also then.      *)
Wanted == IF job = NULL THEN NULL ELSE IF "file" \in DOMAIN job THEN job.file ELSE before
Foreign == "file" \in DOMAIN job /\ job.file.version # CONFIG_VERSION
RefusesForAReason ==
  clean /\ reply = "fail" =>
    \/ Wanted = NULL \/ Foreign \/ ~Wired(Wanted)
    \/ \E i \in DOMAIN Wanted.outputs : Wanted.outputs[i].type \notin BuildTypes
=============================================================================
