----------------------------- MODULE MCEmulator -----------------------------
(* Two outputs, a value and a colour, and one program of every kind.       *)
EXTENDS Emulator

MCKind == (0 :> "value") @@ (1 :> "rgb")
MCConfigured == (0 :> 3) @@ (1 :> <<0, 0, 0>>)

To(what, o, arg) == [what |-> what, address |-> Address, output |-> o, arg |-> arg]
Blink == [on_period |-> 2, on_value |-> 255, off_period |-> 1, off_value |-> 65536]
Change == [period |-> 2, start_value |-> 7, stop_value |-> 256]
Fade(flags) == [period |-> 2 - flags, start_value |-> 255, stop_value |-> 65792, flags |-> flags]
MCRequests ==
  {To("blink", ALL_OUTPUTS, Blink), To("blink", 1, [Blink EXCEPT !.off_period = 0]),
   To("timed", 0, Change), To("timed", NO_OUTPUT, Change),
   To("fade", 0, Fade(1)), To("fade", 1, Fade(0)), To("none", 1, <<>>), To("none", NO_OUTPUT, <<>>),
   To("sequence", NO_OUTPUT, SequenceOf(<<<<0, 2, 9>>, <<1, 1, 5>>>>)),
   To("sequence", NO_OUTPUT, SequenceOf(<<<<1, 1, 9>>, <<5, 1, 5>>>>)),
   To("sequence", 0, SequenceOf(<<>>)), To("sequence", 0, SequenceOf(<<<<1, 1, 9>>>>)),
   To("value", ALL_OUTPUTS, [value |-> 8200]), To("rgb", 5, [value |-> 1]),
   [To("value", 1, [value |-> 1]) EXCEPT !.address = Address + 1], To("poll", 0, <<>>), To("level", 0, <<>>)}
=============================================================================
