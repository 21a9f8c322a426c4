-------------------------- MODULE MCMessageExchange --------------------------
(* Every kind of message, with each of its fields at its limits in turn.   *)
EXTENDS MessageExchange, TLC

Names(layout) == {f.name : f \in ToSet(layout)}
Limit(f) == IF f.width = 4 THEN 2147483647 ELSE 256^f.width - 1
OneOf(layout, f, x) == [name \in Names(layout) |-> IF name = f.name THEN x ELSE 0]
Args(layout) ==
  {[name \in Names(layout) |-> CHOOSE k \in DOMAIN layout : layout[k].name = name]}
  \cup {OneOf(layout, f, x) : f \in ToSet(layout), x \in {0, 255, 256}}
  \cup {OneOf(layout, f, Limit(f)) : f \in ToSet(layout)}

To(what, arg) == [what |-> what, address |-> 65535, output |-> 254, arg |-> arg]
Typed(what, type, arg) == [what |-> what, type |-> type, arg |-> arg]
MCExchanged ==
  UNION {{To(what, arg) : arg \in Args(ProgramLayout[what])} : what \in DOMAIN ProgramLayout}
  \cup {To("sequence", SequenceOf([k \in 1 .. n |-> <<k, 1000, 255>>])) : n \in 1 .. 8}
  \cup {To(what, <<>>) : what \in {"poll", "dump"}}
  \cup {To("set_addr", arg) : arg \in Args(SetAddress)}
  \cup {To(what, [value |-> x]) : what \in {"value", "rgb"}, x \in {0, 258, 65535}}
  \cup {To("color", [color |-> 255, start |-> r[1], length |-> r[2]]) : r \in {<<2560, 10>>, <<300, 1>>}}
  \cup {To("generic", [program |-> ProgramCode.color, data |-> <<0, 0, 9, start, length>>]) :
          start \in {0, 1, 255}, length \in {0, 1, 10}}
  \cup UNION {{Typed("output", type, arg) : arg \in Args(ConfigLayout[type])} : type \in OutputTypes}
  \cup {Typed("output", "value", [pin |-> 3, value |-> x]) : x \in {-1, 8191, 8192}}
  \cup UNION {{Typed("dump_output", type, arg) : arg \in {a \in Args(FirmwareConfig[type]) : Packs(FirmwareConfig[type], a)}} : type \in OutputTypes}
  \cup {[what |-> what, arg |-> [magic |-> HEADER_MAGIC, protocol_version |-> 3, hardware_version |-> 1, baud |-> 115200,
           num_outputs |-> n, flags |-> 0, device_id |-> 300, address |-> 64]] : what \in {"header"}, n \in 0 .. 8}
  \cup {[what |-> "dump_header", arg |-> [magic |-> HEADER_MAGIC, protocol_version |-> 3, hardware_version |-> 1, baud |-> 96,
           num_outputs |-> n, flags |-> 0, device_id |-> 300, address |-> 64]] : n \in 0 .. 8}
  \cup {[what |-> "poll_response", arg |-> arg] : arg \in {a \in Args(FirmwarePoll) : Packs(FirmwarePoll, a)}}
  \cup {Typed("update", type, 1200) : type \in {"address", "device_id", "baud"}}
=============================================================================
