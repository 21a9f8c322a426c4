-------------------------- MODULE MCProgramManager --------------------------
(* A module with a value output, a strip of pixels and a radio socket.       *)
EXTENDS ProgramManager, TLC

MCKind == 0 :> "value" @@ 1 :> "pixels" @@ 2 :> "socket"

Arg(first, second, period, rest) ==
  [ZeroArg EXCEPT !.first = first, !.second = second, !.period = period, !.rest = rest]
Cycle(a) == [a EXCEPT !.cycle = TRUE]
Msg3(p, o, a) == [program |-> p, output |-> o, arg |-> a]
Sequence(s1, s2) == [ZeroArg EXCEPT !.steps = [k \in Steps |->
                       IF k = 0 THEN s1 ELSE IF k = 1 THEN s2 ELSE @[k]]]
At(o, d, v) == [out |-> o, duration |-> d, value |-> v]

(* Every program, on one output, on all or on none, with the ways to end it,*)
(* a refusal by the setup and messages that are rejected.                   *)
AllRequests ==
  {Msg3("TIMED_CHANGE", ALL_OUTPUTS, Arg(1, 0, 1, 0)), Msg3("BLINK", 0, Arg(1, 0, 1, 0)),
   Msg3("SEQUENCE", NO_OUTPUT, Sequence(At(0, 1, 1), At(1, 1, 1))),
   Msg3("COLOR", ALL_OUTPUTS, Arg(1, 0, 0, 0)), Msg3("NONE", ALL_OUTPUTS, ZeroArg),
   Msg3("NONE", NO_OUTPUT, ZeroArg), Msg3("unknown", 0, ZeroArg), Msg3("BLINK", BAD_OUTPUT, ZeroArg)}

(* The programs that end by themselves, and those that follow the sensors.  *)
TimedRequests ==
  {Msg3("TIMED_CHANGE", 0, Arg(1, 0, 1, 0)), Msg3("FADE", 0, Arg(1, 0, 1, 0)),
   Msg3("FADE", 0, Cycle(Arg(1, 0, 1, 0))), Msg3("CIRCULAR", 0, Arg(0, 0, 1, 0)),
   Msg3("LEVEL_VALUE", 0, ZeroArg), Msg3("SOUND_PIXELS", 0, ZeroArg),
   Msg3("SENSOR_DATA", NO_OUTPUT, ZeroArg), Msg3("NONE", ALL_OUTPUTS, ZeroArg)}
MCKind1 == 0 :> "pixels" @@ 1 :> "empty"

(* A program that only a strip can run, for all outputs.                    *)
SharedRequests == {Msg3("BLINK", 0, Arg(1, 0, 1, 0)), Msg3("SPARKLE", ALL_OUTPUTS, ZeroArg)}
=============================================================================
