-------------------------- MODULE MCConfigSession --------------------------
(* Outputs that need a record of either size; files that are valid, use a  *)
(* pin twice within and across outputs, a pin that does not exist, a type  *)
(* the build lacks, no output type at all, no address, and a sensor at a   *)
(* pin that does not exist. Headers are of the sketch's version but for    *)
(* one it does not know and older ones, whose count it finds too large     *)
(* (44, 8) or does not (2).                                                *)
EXTENDS ConfigSession
Out(t, p) == [type |-> t, pins |-> p]
FileOf(v, b, d, a, o) == [version |-> v, baud |-> b, device_id |-> d, address |-> a, outputs |-> o]
File(a, o) == FileOf(3, 8, 1, a, o)
MCFiles == {
  File(1, <<Out("value", <<1>>), Out("value", <<2>>)>>),
  File(2, <<Out("rgb", <<2, 3, 4>>), Out("value", <<1>>)>>),
  File(1, <<Out("value", <<2>>), Out("pixels", <<255, 3>>)>>),
  File(2, <<Out("value", <<2>>), Out("value", <<1>>)>>),
  File(1, <<Out("value", <<2>>), Out("xbee", <<1, 2>>)>>),
  File(1, <<Out("value", <<2>>), Out("rgb", <<1, 1, 3>>)>>),
  File(2, <<Out("rs485", <<2, 3, 9>>)>>),
  File(1, <<Out("value", <<1>>), Out("program", <<>>)>>),
  File(1, <<Out("rs485", <<2, 3, 4>>)>>),
  File(0, <<Out("value", <<1>>)>>),
  FileOf(3, 8, 0, 1, <<Out("value", <<1>>)>>),
  FileOf(4, 8, 1, 1, <<Out("value", <<1>>)>>),
  FileOf(2, 8, 300, 1, <<Out("value", <<1>>)>>),
  FileOf(2, 8, 258, 1, <<Out("value", <<1>>)>>),
  FileOf(1, 8, 1, 1, <<Out("value", <<1>>)>>),
  File(1, <<Out("rgb", <<1>>)>>),
  File(1, <<Out("value", <<1>>), Out("value", <<9>>)>>),
  File(1, <<Out("mpr121", <<9>>), Out("value", <<2>>)>>) }
=============================================================================
