--------------------------- MODULE MCInputFraming ---------------------------
(* A line; messages without a body, and with one that holds a start code   *)
(* or a line end; and noise of every kind the reader tells apart: text     *)
(* without an end, start codes, headers whose body does not come.          *)
EXTENDS InputFraming
MCLines == {<<97, 98>>}
MCFrames == {<<252, 2, 3>>, <<252, 2, 5, 252, 10>>}
MCNoise == {<<97>>, <<252>>, <<252, 2>>, <<252, 2, 6, 252>>, <<252, 252, 2>>, <<252, 2, 2>>}
(* What the theorem about the next item assumes of what is sent.           *)
ASSUME Deliverable
=============================================================================
