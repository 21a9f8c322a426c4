--------------------------- MODULE MessageFormats ---------------------------
(***************************************************************************)
(* The wire formats: what the Python library packs (HMTLprotocol.py,       *)
(* TrianglePrograms.py, config.py) and what the firmware reads at the same *)
(* offsets. A layout lists the named fields of a packed little-endian      *)
(* struct, so that both ends of a message can be compared by name. The     *)
(* three bytes of a colour, red first, are one field of width 3.           *)
(***************************************************************************)
EXTENDS Integers, Sequences, SequencesExt

F(width, names) == [k \in DOMAIN names |-> [name |-> names[k], width |-> width]]
(* Where the fields of a layout end: the first k of them after Ends[k] bytes. *)
Ends(layout) ==
  LET end[k \in 0 .. Len(layout)] == IF k = 0 THEN 0 ELSE end[k - 1] + layout[k].width
  IN  end
Size(layout) == Ends(layout)[Len(layout)]

(* No field is wider than four bytes.                                      *)
Power == <<1, 256, 65536, 16777216>>     \* of 256
Bytes(n, width) == [i \in 1 .. width |-> (n \div Power[i]) % 256]
Number(bytes) ==
  LET Digit(i) == IF i \in DOMAIN bytes THEN bytes[i] ELSE 0
  IN  Digit(1) + 256 * (Digit(2) + 256 * (Digit(3) + 256 * Digit(4)))
Zeros(n) == [i \in 1 .. n |-> 0]

(* struct.pack, which refuses a value wider than its field, and            *)
(* struct.unpack_from, which refuses too few bytes. TLC's integers end     *)
(* before the widest field does.                                           *)
Packs(layout, val) == \A f \in ToSet(layout) : f.width < 4 => val[f.name] \in 0 .. Power[f.width + 1] - 1
Pack(layout, val) == FlattenSeq([k \in DOMAIN layout |-> Bytes(val[layout[k].name], layout[k].width)])
Unpacks(layout, data, offset) == Len(data) >= offset + Size(layout)
Unpack(layout, data, offset) ==
  LET end == Ends(layout)
      Index(name) == CHOOSE k \in DOMAIN layout : layout[k].name = name
  IN  [name \in {layout[k].name : k \in DOMAIN layout} |->
         LET k == Index(name) IN Number(SubSeq(data, offset + end[k - 1] + 1, offset + end[k]))]
-----------------------------------------------------------------------------
(* Messages.                                                               *)
STARTCODE == 252
PROTOCOL_VERSION == 2
BROADCAST == 65535
NO_OUTPUT == 255
ALL_OUTPUTS == 254
SEQUENCE_MAX == 8

MsgHdr == F(1, <<"startcode", "crc", "version", "length", "mtype", "flags">>) \o F(2, <<"address">>)
OutputHdr == F(1, <<"outputtype", "output">>)
ProgramHdr == OutputHdr \o F(1, <<"program">>)
SetAddress == F(2, <<"device_id", "address">>)
PollHdrAddressFirst ==
  F(1, <<"magic", "protocol_version", "hardware_version", "baud", "num_outputs", "flags">>)
    \o F(2, <<"address", "device_id", "object_type", "buffer_size">>) \o F(1, <<"msg_version">>)
PollHdr == F(1, <<"magic", "protocol_version", "hardware_version", "baud", "num_outputs", "flags">>)
             \o F(2, <<"device_id", "address", "object_type", "buffer_size">>) \o F(1, <<"msg_version">>)
SequenceLayout(o, d, v) ==
  LET Each(n) == [k \in 1 .. SEQUENCE_MAX |-> <<n, k>>]
  IN  F(1, Each(o)) \o F(2, Each(d)) \o F(1, Each(v))

(* Codes and layouts of the programs as the Python classes pack them.      *)
ProgramCode == [none |-> 0, blink |-> 1, timed |-> 2, level |-> 3, sound |-> 4, fade |-> 5, sparkle |-> 6,
                circular |-> 8, sequence |-> 9, color |-> 49, triangle_static |-> 33, triangle_snake |-> 34]
BlinkFormat == F(2, <<"on_period">>) \o F(3, <<"on_value">>) \o F(2, <<"off_period">>) \o F(3, <<"off_value">>)
TimedFormat == F(4, <<"period">>) \o F(3, <<"start_value", "stop_value">>)
FadeFormat == F(4, <<"period">>) \o F(3, <<"start_value", "stop_value">>) \o F(1, <<"flags">>)
SparkleFormat ==
  F(2, <<"period">>) \o F(3, <<"bg">>)
    \o F(1, <<"sparkle_threshold", "bg_threshold", "hue_min", "hue_max", "sat_min", "sat_max", "val_min", "val_max">>)
CircularFormat == F(2, <<"period", "length">>) \o F(3, <<"bg">>) \o F(1, <<"pattern", "flags">>)
ColorFormat == F(3, <<"color">>) \o F(2, <<"start", "length">>)
TriangleStatic == F(2, <<"period">>) \o F(3, <<"background", "foreground">>) \o F(1, <<"threshold">>)
TriangleSnake == F(2, <<"period">>) \o F(3, <<"background">>) \o F(1, <<"colormode">>)
ProgramLayout ==
  [none |-> <<>>, level |-> <<>>, sound |-> <<>>, blink |-> BlinkFormat, timed |-> TimedFormat, fade |-> FadeFormat,
   sparkle |-> SparkleFormat, circular |-> CircularFormat, color |-> ColorFormat,
   sequence |-> SequenceLayout("output", "duration", "value"),
   triangle_static |-> TriangleStatic, triangle_snake |-> TriangleSnake]

(* ProgramSequence.pack of up to 8 steps <<output, duration, value>>.       *)
SequenceOf(steps) ==
  [name \in {f.name : f \in ToSet(ProgramLayout.sequence)} |->
     CASE name[2] \notin DOMAIN steps -> IF name[1] = "output" THEN NO_OUTPUT ELSE 0
       [] name[1] = "output"   -> steps[name[2]][1]
       [] name[1] = "duration" -> steps[name[2]][2]
       [] name[1] = "value"    -> steps[name[2]][3]]

(* MSG_PROGRAM_VALUE_LEN for the programs packed by functions, MAX_DATA for *)
(* those packed by classes; the formats of the triangles pad to 12 bytes.  *)
Legacy == {"none", "blink", "timed"}
Triangles == {"triangle_static", "triangle_snake"}
DataLen(what) == IF what \in Legacy \cup Triangles THEN 12 ELSE 32
AlwaysMax(what) == 32
DeclaredData(what) == IF what \in Legacy THEN 12 ELSE 32

Header(length, mtype, flags, address) ==
  Pack(MsgHdr, [startcode |-> STARTCODE, crc |-> 0, version |-> PROTOCOL_VERSION, length |-> length,
                mtype |-> mtype, flags |-> flags, address |-> address])

(* What each constructor refuses, beyond a field that is too wide.         *)
ColorIsValid(arg) == Packs(ColorFormat, arg) /\ ~(arg.length = 0 /\ arg.start # 0)
GenericFits(arg) == Len(arg.data) <= 32
Constructs(q) ==
  CASE q.what = "color"   -> ColorIsValid(q.arg)
    [] q.what = "generic" -> GenericFits(q.arg)
    [] q.what \in DOMAIN ProgramLayout \ {"color"} -> Packs(ProgramLayout[q.what], q.arg)
    [] OTHER -> TRUE

ProgramMessage(q, code, data, length, declared) ==
  Header(Size(MsgHdr) + Size(ProgramHdr) + declared, 1, 0, q.address)
    \o Pack(ProgramHdr, [outputtype |-> 3, output |-> q.output, program |-> code])
    \o data \o Zeros(length - Len(data))

(* The bytes of a message, as get_*_msg and prepare_msg concatenate them.  *)
SetAddrMessage(q) == Header(12, 3, 0, q.address) \o Pack(SetAddress, q.arg)
ValueMessage(q) == Header(12, 1, 0, q.address) \o Pack(OutputHdr, [outputtype |-> 1, output |-> q.output])
                     \o Pack(F(2, <<"value">>), q.arg)
RGBMessage(q) == Header(13, 1, 0, q.address) \o Pack(OutputHdr, [outputtype |-> 2, output |-> q.output])
                   \o Pack(F(3, <<"value">>), q.arg)
GenericMessage(q) == ProgramMessage(q, q.arg.program, q.arg.data, 32, 32)
Message(q) ==
  CASE q.what = "poll"     -> Header(8, 2, 2, q.address)
    [] q.what = "dump"     -> Header(8, 224, 2, q.address)
    [] q.what = "set_addr" -> SetAddrMessage(q)
    [] q.what = "value"    -> ValueMessage(q)
    [] q.what = "rgb"      -> RGBMessage(q)
    [] q.what = "generic"  -> GenericMessage(q)
    [] OTHER -> ProgramMessage(q, ProgramCode[q.what], Pack(ProgramLayout[q.what], q.arg),
                               DataLen(q.what), DeclaredData(q.what))
-----------------------------------------------------------------------------
(* The structs of the firmware (HMTLPrograms.h, HMTLWireFormat.h).         *)
FirmwareProgram ==
  [blink |-> F(2, <<"on_period">>) \o F(3, <<"on_value">>) \o F(2, <<"off_period">>) \o F(3, <<"off_value">>),
   timed |-> F(4, <<"period">>) \o F(3, <<"start_value", "stop_value">>),
   fade |-> F(4, <<"period">>) \o F(3, <<"start_value", "stop_value">>) \o F(1, <<"flags">>),
   sparkle |-> F(2, <<"period">>) \o F(3, <<"bg">>)
                 \o F(1, <<"sparkle_threshold", "bg_threshold", "hue_min", "hue_max",
                           "sat_min", "sat_max", "val_min", "val_max">>),
   circular |-> F(2, <<"period", "length">>) \o F(3, <<"bg">>) \o F(1, <<"pattern", "flags">>),
   color |-> F(3, <<"color">>) \o F(2, <<"start", "length">>),
   sequence |-> SequenceLayout("output", "duration", "value")]

(* program_color draws a range on a strip of num pixels, or refuses it.    *)
InStrip(range, num) == range.start < num
FirmwareDraws(range, num) == ~(range.length = 0 /\ range.start # 0) /\ range.start < num

(* What a module finds in the values of a program message.                 *)
FirmwareReads(what, bytes) == Unpack(FirmwareProgram[what], bytes, Size(MsgHdr) + Size(ProgramHdr))

(* The programs the emulator knows, as _parse_program unpacks them.        *)
ParseCode == [blink |-> 1, timed |-> 2, fade |-> 5, sequence |-> 9]
ParseLayout ==
  [blink |-> F(2, <<"on_period">>) \o F(3, <<"on_value">>) \o F(2, <<"off_period">>) \o F(3, <<"off_value">>),
   timed |-> F(4, <<"period">>) \o F(3, <<"start_value", "stop_value">>),
   fade |-> F(4, <<"period">>) \o F(3, <<"start_value", "stop_value">>) \o F(1, <<"flags">>),
   sequence |-> SequenceLayout("output", "duration", "value")]
-----------------------------------------------------------------------------
(* Configurations: a start byte and the type, then a struct that begins,   *)
(* for an output, with an output header (config.py).                       *)
CONFIG_START_BYTE == 253
HEADER_MAGIC == 92
ConfigType == [header |-> 0, value |-> 1, rgb |-> 2, program |-> 3, pixels |-> 4, mpr121 |-> 5, rs485 |-> 6,
               xbee |-> 7, address |-> 224, device_id |-> 225, baud |-> 226]
OutputTypes == {"value", "rgb", "pixels", "mpr121", "rs485", "xbee"}
ConfigHeader == F(1, <<"magic", "protocol_version", "hardware_version", "baud", "num_outputs", "flags">>)
                  \o F(2, <<"device_id", "address">>)
Thresholds == <<"t1", "t2", "t3", "t4", "t5", "t6", "t7", "t8", "t9", "t10", "t11", "t12">>
ConfigValue == F(1, <<"pin">>) \o F(2, <<"value">>)
ConfigRGB == F(1, <<"red", "green", "blue">>) \o F(3, <<"values">>)
ConfigPixels == F(1, <<"clockpin", "datapin">>) \o F(2, <<"numpixels">>) \o F(1, <<"rgbtype">>)
ConfigMPR121 == F(1, <<"irqpin", "useinterrupt">> \o Thresholds)
ConfigRS485 == F(1, <<"recvpin", "xmitpin", "enablepin">>)
ConfigXbee == F(1, <<"recvpin", "xmitpin">>)
ConfigLayout == [value |-> ConfigValue, rgb |-> ConfigRGB, pixels |-> ConfigPixels,
                 mpr121 |-> ConfigMPR121, rs485 |-> ConfigRS485, xbee |-> ConfigXbee]

ConfigStart(type) == <<CONFIG_START_BYTE, ConfigType[type]>>
HeaderStruct(arg) ==
  ConfigStart("header") \o
    Pack(ConfigHeader, [arg EXCEPT !.magic = HEADER_MAGIC, !.baud = arg.baud \div 1200])
OutputStruct(type, arg) ==
  ConfigStart(type) \o Pack(OutputHdr, [outputtype |-> ConfigType[type], output |-> 0]) \o Pack(ConfigLayout[type], arg)
UpdateStruct(type, value) ==
  ConfigStart(type) \o (IF type = "baud" THEN Bytes(value \div 1200, 1) ELSE Bytes(value, 2))
(* The value of a value output is packed as a signed number.               *)
PacksOutput(type, arg) ==
  IF type = "value" THEN arg.pin \in 0 .. 255 /\ -32768 <= arg.value /\ arg.value < 32768 ELSE Packs(ConfigLayout[type], arg)

(* The structs of the firmware (HTMLTypes.h, HMTLWireFormat.h).            *)
FirmwareConfig ==
  [value |-> F(1, <<"pin">>) \o F(2, <<"value">>),
   rgb |-> F(1, <<"red", "green", "blue">>) \o F(3, <<"values">>),
   pixels |-> F(1, <<"clockpin", "datapin">>) \o F(2, <<"numpixels">>) \o F(1, <<"rgbtype">>),
   mpr121 |-> F(1, <<"irqpin", "useinterrupt">>) \o F(1, Thresholds),
   rs485 |-> F(1, <<"recvpin", "xmitpin", "enablepin">>),
   xbee |-> F(1, <<"recvpin", "xmitpin">>)]
FirmwareHeader == F(1, <<"magic", "protocol_version", "hardware_version", "baud", "num_outputs", "flags">>)
                    \o F(2, <<"device_id", "address">>)
FirmwarePoll == FirmwareHeader \o F(2, <<"object_type", "buffer_size">>) \o F(1, <<"msg_version">>)
FirmwareMsg == F(1, <<"startcode", "crc", "version", "length", "mtype", "flags">>) \o F(2, <<"address">>)

(* What a module sends: a poll response, and one record of its             *)
(* configuration per message of a dump.                                    *)
Response(mtype, flags, data) ==
  Pack(FirmwareMsg, [startcode |-> STARTCODE, crc |-> 0, version |-> 2, length |-> Size(FirmwareMsg) + Len(data),
                     mtype |-> mtype, flags |-> flags, address |-> 0]) \o data
PollResponse(arg) == Response(2, 3, Pack(FirmwarePoll, arg))
DumpHeader(arg, flags) == Response(224, flags, Pack(FirmwareHeader, arg))
DumpOutput(type, arg, flags) ==
  Response(224, flags, Pack(OutputHdr, [outputtype |-> ConfigType[type], output |-> 0]) \o Pack(FirmwareConfig[type], arg))

(* DumpConfigHdr.from_data: the config behind a message header.            *)
FullConfig(data) ==
  LET known == {t \in OutputTypes : ConfigType[t] = data[1]}
      type == CHOOSE t \in known : TRUE
      arg == Unpack(ConfigLayout[type], data, Size(OutputHdr))
  IN  IF known = {} THEN [type |-> "none"]
      ELSE [type |-> type, arg |-> IF type = "value" /\ arg.value >= 32768 THEN [arg EXCEPT !.value = @ - 65536] ELSE arg]
DumpDecode(data) ==
  IF data[1] = HEADER_MAGIC THEN [type |-> "header", arg |-> Unpack(ConfigHeader, data, 0)] ELSE FullConfig(data)
=============================================================================
