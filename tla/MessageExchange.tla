--------------------------- MODULE MessageExchange ---------------------------
(***************************************************************************)
(* Messages and configuration structs between the Python library and a     *)
(* module, one at a time: one side packs it with its own layouts, the      *)
(* other reads it with its own.                                            *)
(***************************************************************************)
EXTENDS MessageFormats

CONSTANTS Exchanged,   \* what may be sent
          IDLE
VARIABLE wire          \* what is being sent, or IDLE

(* What the constructors are called with: arg has the fields of layout and *)
(* no other, the widest of them numbers of four bytes.                     *)
Carries(layout, arg) ==
  /\ arg = [name \in {f.name : f \in ToSet(layout)} |-> arg[name]]
  /\ \A f \in ToSet(layout) : f.width = 4 => arg[f.name] \in Nat /\ arg[f.name] \div Power[4] \in 0 .. 255
Filled(layout, arg) == Carries(layout, arg) /\ Packs(layout, arg)
Meaningful(q) ==
  \/ q.what \in {"poll", "dump", "set_addr", "value", "rgb", "update"}
  \/ q.what \in DOMAIN ProgramLayout /\ Carries(ProgramLayout[q.what], q.arg)
  \/ /\ q.what = "generic" /\ q.arg.data \in Seq(0 .. 255)
     /\ q.arg.program = ProgramCode.color => Len(q.arg.data) = 5
  \/ q.what = "output" /\ q.type \in OutputTypes /\ Carries(ConfigLayout[q.type], q.arg)
  \/ q.what = "header" /\ Filled(ConfigHeader, [q.arg EXCEPT !.magic = HEADER_MAGIC, !.baud = @ \div 1200])
  \/ q.what = "poll_response" /\ Filled(FirmwarePoll, q.arg)
  \/ q.what = "dump_header" /\ Filled(FirmwareHeader, q.arg) /\ q.arg.magic = HEADER_MAGIC
  \/ q.what = "dump_output" /\ q.type \in OutputTypes /\ Filled(FirmwareConfig[q.type], q.arg)
ASSUME ExchangeAssumption == IDLE \notin Exchanged /\ \A q \in Exchanged : Meaningful(q)

(* What is refused where it is constructed never gets on the wire.         *)
Sendable(q) == IF q.what = "output" THEN PacksOutput(q.type, q.arg) ELSE Constructs(q)
Encode(q) ==
  CASE q.what = "output"        -> OutputStruct(q.type, q.arg)
    [] q.what = "header"        -> HeaderStruct(q.arg)
    [] q.what = "update"        -> UpdateStruct(q.type, q.arg)
    [] q.what = "poll_response" -> PollResponse(q.arg)
    [] q.what = "dump_header"   -> DumpHeader(q.arg, 2)
    [] q.what = "dump_output"   -> DumpOutput(q.type, q.arg, 2)
    [] OTHER                    -> Message(q)

Quiet == wire = IDLE
Send(q) == wire = IDLE /\ Sendable(q) /\ wire' = q
Receive == wire # IDLE /\ wire' = IDLE
Exchange == Receive \/ \E q \in Exchanged : Send(q)
ExchangeSpec == Quiet /\ [][Exchange]_wire
-----------------------------------------------------------------------------
Configs == {"output", "header", "update"}
bytes == Encode(wire)

(* Every message declares the length it has, so that its reader finds      *)
(* where the next one begins (HMTLprotocol.py:109-118), whichever of the   *)
(* several ways it was put together; only the triangles' do not.           *)
DeclaredLength ==
  wire # IDLE =>
    (wire.what \notin Configs \cup Triangles => Unpack(FirmwareMsg, bytes, 0).length = Len(bytes))

(* Every field is read as its sender gave it: of a program by a module and *)
(* by the emulator, of a configuration by the module that stores it, of a  *)
(* module's response by the library. A module keeps 13 bits of a value     *)
(* (HTMLTypes.h:57), of which the library knows nothing.                   *)
Kept(value) == value \in Nat /\ value < 8192
Program == Tail(SubSeq(bytes, 11, Len(bytes)))
FieldsArrive ==
  wire # IDLE =>
    LET q == wire IN
    /\ q.what \in DOMAIN FirmwareProgram => FirmwareReads(q.what, bytes) = q.arg
    /\ q.what \in DOMAIN ParseCode =>
         bytes[11] = ParseCode[q.what] /\ Unpack(ParseLayout[q.what], Program, 0) = q.arg
    /\ q.what = "output" /\ (q.type = "value" => Kept(q.arg.value)) =>
         Unpack(FirmwareConfig[q.type], bytes, 2 + Size(OutputHdr)) = q.arg
    /\ q.what = "header" => Unpack(FirmwareHeader, bytes, 2) = [q.arg EXCEPT !.magic = HEADER_MAGIC, !.baud = @ \div 1200]
    /\ q.what = "poll_response" => Unpack(PollHdr, bytes, Size(MsgHdr)) = q.arg
    /\ q.what = "dump_header" => DumpDecode(SubSeq(bytes, 9, Len(bytes))) = [type |-> "header", arg |-> q.arg]
    /\ q.what = "dump_output" /\ (q.type = "value" => Kept(q.arg.value)) =>
         DumpDecode(SubSeq(bytes, 9, Len(bytes))) = [type |-> q.type, arg |-> q.arg]

(* A COLOR message lights the range its sender meant or none: the five     *)
(* bytes r, g, b, start, length of an old client, which a module reads as  *)
(* start + 256 length and 0, are refused on every strip                    *)
(* (HMTLprotocol.py:716-722).                                              *)
Meant(q) == IF q.what = "color" THEN [start |-> q.arg.start, length |-> q.arg.length]
            ELSE [start |-> q.arg.data[4], length |-> q.arg.data[5]]
ColorAsMeant ==
  wire # IDLE =>
    (wire.what = "color" \/ (wire.what = "generic" /\ wire.arg.program = ProgramCode.color) =>
       LET read == FirmwareReads("color", bytes) IN
       \A num \in {1, 300, 3000} :
         FirmwareDraws(read, num) => read.start = Meant(wire).start /\ read.length = Meant(wire).length)
=============================================================================
