-------------------------- MODULE MCCommandServer --------------------------
(* The command server with a module on the serial port and one behind it.   *)
EXTENDS CommandServer
MCScanRange  == <<"remote">>
MCScanBoth   == <<"attached", "remote">>
=============================================================================
