------------------------------ MODULE Emulator ------------------------------
(***************************************************************************)
(* The software emulator of a module (emulator.py, programs.py,            *)
(* outputs.py) and a client that sends it messages, packed by              *)
(* MessageFormats and parsed here. Programs are objects: a program         *)
(* installed for all outputs is one object that every output refers to.    *)
(* In virtual time the clock is moved, and the emulator reset, by commands *)
(* on the control port; in real time a thread ticks the programs until one *)
(* of them raises an exception. A lock makes messages, ticks and resets    *)
(* atomic.                                                                 *)
(***************************************************************************)
EXTENDS MessageFormats, FiniteSets

CONSTANTS
  Address,       \* of the emulated module
  N, Kind,       \* its outputs are 0 .. N-1, of these kinds
  Configured,    \* what the configuration file sets them to
  Requests,      \* messages the client may send
  Steps,         \* by how much the clock may advance at once
  MaxNow,        \* bound on the clock
  NULL

Outputs == 0 .. N - 1
Slots == Outputs \cup {NO_OUTPUT}     \* _programs and _no_output_program
Ids == Slots \cup {ALL_OUTPUTS}        \* program objects, by the output they were installed for

(* What an output can show: a number of 13 bits, or three of them.         *)
Levels == 0 .. 8191
Showable(o, shown) ==
  /\ Kind[o] = "value" => shown \in Levels
  /\ Kind[o] \in {"rgb", "pixels"} => shown \in [1 .. 3 -> Levels]

ASSUME EmulatorAssumption ==
  /\ N \in 1 .. 8 /\ Kind \in [Outputs -> {"value", "rgb", "pixels", "rs485", "mpr121"}]
  /\ Steps \subseteq Nat /\ MaxNow \in Nat /\ NULL \notin Ids
  /\ Configured = [o \in Outputs |-> Configured[o]] /\ \A o \in Outputs : Showable(o, Configured[o])
  /\ \A q \in Requests : Constructs(q) /\ Message(q) \in Seq(0 .. 255)

VARIABLES
  virtual,   \* _virtual_time
  now,       \* _virtual_ms, or the wall clock
  out,       \* what each output shows
  slot,      \* _programs, _no_output_program
  program,   \* the program objects
  writer,    \* who wrote each output last, a program or the client
  ticking,   \* the thread of _tick_loop is alive
  cut,       \* the last run of the programs was cut short by an exception
  reply      \* of the last control command

vars == <<virtual, now, out, slot, program, writer, ticking, cut, reply>>

RGB(c) == <<c % 256, (c \div 256) % 256, c \div 65536>>
Black == <<0, 0, 0>>
(* set_rgb and set_value of each kind of output.                           *)
ShownRGB(o, rgb, old) == CASE Kind[o] = "value" -> rgb[1]
                           [] Kind[o] \in {"rgb", "pixels"} -> rgb
                           [] OTHER -> old
ShownValue(o, v, old) == IF Kind[o] = "value" THEN v % 8192 ELSE ShownRGB(o, <<v, v, v>>, old)

Blank == [kind |-> "none", arg |-> NULL, started |-> FALSE, on |-> TRUE, next |-> 0, current |-> 1, origin |-> 0]
InUse(id) == \E k \in Slots : slot[k] = id

Init ==
  /\ virtual \in BOOLEAN /\ now = 0
  /\ out = Configured
  /\ slot = [k \in Slots |-> NULL] /\ program = [id \in Ids |-> Blank]
  /\ writer = [o \in Outputs |-> NULL]
  /\ ticking = TRUE /\ cut = FALSE /\ reply = "ok"
-----------------------------------------------------------------------------
(* Messages.                                                               *)
EveryStep(arg) == SEQUENCE_MAX
StepCount(arg) ==
  Cardinality({k \in 1 .. SEQUENCE_MAX : \A j \in 1 .. k : arg[<<"output", j>>] # 255})
(* _parse_program: the new object, or NULL for a program it does not know, *)
(* a payload that is too short and a sequence without steps.               *)
Parse(code, data) ==
  LET kinds == {k \in DOMAIN ParseCode : ParseCode[k] = code /\ Unpacks(ParseLayout[k], data, 0)}
  IN  IF kinds = {} THEN NULL
      ELSE LET kind == CHOOSE k \in kinds : TRUE
               arg == Unpack(ParseLayout[kind], data, 0)
           IN  IF kind = "sequence" /\ StepCount(arg) = 0 THEN NULL
               ELSE [Blank EXCEPT !.kind = kind, !.arg = arg]

(* handle_bytes and _dispatch_output of the bytes of a message: its type   *)
(* (0 if it is not for this module or ends too soon), the output and the   *)
(* payload.                                                                *)
Shortest == <<2, 3, 1>>
Dispatch(bytes) ==
  LET hdr == Unpack(MsgHdr, bytes, 0)
      outhdr == Unpack(OutputHdr, bytes, Size(MsgHdr))
      payload == SubSeq(bytes, Size(MsgHdr) + Size(OutputHdr) + 1, Len(bytes))
  IN  IF /\ Len(bytes) >= Size(MsgHdr) + Size(OutputHdr)
         /\ hdr.startcode = STARTCODE /\ hdr.address \in {BROADCAST, Address} /\ hdr.mtype = 1
         /\ outhdr.outputtype \in DOMAIN Shortest => Len(payload) >= Shortest[outhdr.outputtype]
      THEN [type |-> outhdr.outputtype, output |-> outhdr.output, payload |-> payload,
            program |-> IF outhdr.outputtype = 3 THEN Parse(payload[1], Tail(payload)) ELSE NULL]
      ELSE [type |-> 0]
Targets(m) == IF m.output = ALL_OUTPUTS THEN Outputs ELSE Outputs \cap {m.output}

Set(m, shown) ==
  /\ out' = [o \in Outputs |-> IF o \in Targets(m) THEN shown[o] ELSE out[o]]
  /\ writer' = [o \in Outputs |-> IF o \in Targets(m) THEN NULL ELSE writer[o]]
  /\ UNCHANGED <<slot, program>>
HandleValue(m) ==
  /\ m.type = 1
  /\ Set(m, [o \in Outputs |-> ShownValue(o, Number(SubSeq(m.payload, 1, 2)) % 8192, out[o])])
HandleRGB(m) ==
  /\ m.type = 2
  /\ Set(m, [o \in Outputs |-> ShownRGB(o, SubSeq(m.payload, 1, 3), out[o])])

(* _install_program. An object no slot refers to any more is garbage.      *)
Install(where, id) == [k \in Slots |-> IF k \in where THEN id ELSE slot[k]]
Where(m) == IF m.output = NO_OUTPUT THEN {NO_OUTPUT} ELSE Targets(m)
Keep(objects, slots) ==
  /\ slot' = slots
  /\ program' = [id \in Ids |-> IF \E k \in Slots : slots[k] = id THEN objects[id] ELSE Blank]
HandleCancel(m) ==
  /\ m.type = 3 /\ m.payload[1] = 0
  /\ Keep(program, Install(Where(m), NULL))
  /\ UNCHANGED <<out, writer>>
HandleProgram(m) ==
  /\ m.type = 3 /\ m.payload[1] # 0 /\ m.program # NULL
  /\ Keep([id \in Ids |-> IF id = m.output THEN m.program ELSE program[id]], Install(Where(m), m.output))
  /\ writer' = [o \in Outputs |-> IF writer[o] = m.output THEN NULL ELSE writer[o]]
  /\ UNCHANGED out
HandleNothing(m) ==
  /\ m.type \notin {1, 2}
  /\ m.type = 3 => m.payload[1] # 0 /\ m.program = NULL
  /\ UNCHANGED <<out, slot, program, writer>>

Received == [q \in Requests |-> Dispatch(Message(q))]
Handle(q) ==
  LET m == Received[q] IN
  /\ HandleValue(m) \/ HandleRGB(m) \/ HandleCancel(m) \/ HandleProgram(m) \/ HandleNothing(m)
  /\ reply' = IF virtual THEN "ok" ELSE reply
  /\ UNCHANGED <<virtual, now, ticking, cut>>
-----------------------------------------------------------------------------
(* Ticks. s collects what the programs change, in their order; an output   *)
(* that does not exist, or an object that is no output, raises.            *)
Write(s, id, o, rgb) ==
  IF o \in Outputs
  THEN [s EXCEPT !.out[o] = ShownRGB(o, rgb, @), !.writer[o] = id]
  ELSE [s EXCEPT !.raised = TRUE]
Then(s, id, p) == IF s.raised THEN s ELSE [s EXCEPT !.program[id] = p]

FromNow(p, t, period) == t + period
Following(p, t, period) == p.next + period
TickBlink(s, id, o, t) ==
  LET p == s.program[id]
      a == p.arg
  IN  IF ~p.started
      THEN Write([s EXCEPT !.program[id] =
                    [p EXCEPT !.started = TRUE, !.on = TRUE, !.next = t + a.on_period, !.origin = t]],
                 id, o, RGB(a.on_value))
      ELSE IF t < p.next THEN s
      ELSE Then(Write(s, id, o, RGB(IF p.on THEN a.off_value ELSE a.on_value)), id,
                [p EXCEPT !.on = ~p.on,
                          !.next = Following(p, t, IF p.on THEN a.off_period ELSE a.on_period)])

TickTimed(s, id, o, t) ==
  LET p == s.program[id]
      a == p.arg
  IN  IF ~p.started
      THEN Write([s EXCEPT !.program[id] = [p EXCEPT !.started = TRUE, !.next = t + a.period]],
                 id, o, RGB(a.start_value))
      ELSE IF t < p.next THEN s
      ELSE Then(Write(s, id, o, RGB(a.stop_value)), id,
                [p EXCEPT !.on = FALSE, !.next = t + a.period])    \* repeat

Least(a, b) == IF a < b THEN a ELSE b
Unbounded(ms, period) == (ms * 255) \div period
Part(ms, period) == Least(255, (ms * 255) \div period)
TickFade(s, id, o, t) ==
  LET p == s.program[id]
      a == p.arg
      begun == IF p.started THEN p.origin ELSE t
      elapsed == t - begun
      cycle == a.flags % 2 = 1
      restart == cycle /\ elapsed >= 2 * a.period
      fraction == IF restart THEN 0
                  ELSE IF cycle /\ elapsed >= a.period THEN 255 - Part(elapsed - a.period, a.period)
                  ELSE IF a.period = 0 THEN 255 ELSE Part(elapsed, a.period)
      Mix(i) == (RGB(a.stop_value)[i] * fraction + RGB(a.start_value)[i] * (255 - fraction)) \div 255
  IN  Write([s EXCEPT !.program[id] =
               [p EXCEPT !.started = TRUE, !.origin = IF restart THEN t ELSE begun]],
            id, o, [i \in 1 .. 3 |-> Mix(i)])

LeaveLit(s, id, o) == s
Darken(s, id, o) == Write(s, id, o, Black)
(* outputs is the list of outputs only in the slot for no output.          *)
TickSequence(s, id, k, t) ==
  LET p == s.program[id]
      Output(i) == IF k = NO_OUTPUT THEN p.arg[<<"output", i>>] ELSE NULL
      Level(i) == LET v == p.arg[<<"value", i>>] IN <<v, v, v>>
      Start(r, i) == Then(Write(r, id, Output(i), Level(i)), id,
                          [p EXCEPT !.started = TRUE, !.current = i, !.next = t + p.arg[<<"duration", i>>]])
      following == (p.current % StepCount(p.arg)) + 1
      dark == Darken(s, id, Output(p.current))
  IN  IF ~p.started THEN Start(s, 1)
      ELSE IF t < p.next THEN s
      ELSE IF dark.raised THEN dark
      ELSE Start([dark EXCEPT !.program[id].current = following], following)

Tick(s, k, t) ==
  IF s.raised \/ slot[k] = NULL THEN s
  ELSE CASE program[slot[k]].kind = "blink"    -> TickBlink(s, slot[k], k, t)
         [] program[slot[k]].kind = "timed"    -> TickTimed(s, slot[k], k, t)
         [] program[slot[k]].kind = "fade"     -> TickFade(s, slot[k], k, t)
         [] program[slot[k]].kind = "sequence" -> TickSequence(s, slot[k], k, t)

SlotOrder == [i \in 1 .. N + 1 |-> IF i <= N THEN i - 1 ELSE NO_OUTPUT]
Untouched == [out |-> out, program |-> program, writer |-> writer, raised |-> FALSE]
TicksUpTo(t) ==
  LET run[i \in 0 .. N + 1] == IF i = 0 THEN Untouched ELSE Tick(run[i - 1], SlotOrder[i], t)
  IN  run
RunPrograms(t) == TicksUpTo(t)[N + 1]
Ran(t) ==
  LET s == RunPrograms(t) IN
  /\ out' = s.out /\ program' = s.program /\ writer' = s.writer /\ cut' = s.raised
  /\ now' = t
  /\ UNCHANGED <<virtual, slot>>

Advance(ms) ==
  /\ virtual /\ now + ms <= MaxNow
  /\ Ran(now + ms)
  /\ reply' = IF RunPrograms(now + ms).raised THEN "error" ELSE "ok"
  /\ UNCHANGED ticking

TickLoop(ms) ==
  /\ ~virtual /\ ticking /\ now + ms <= MaxNow
  /\ Ran(now + ms)
  /\ ticking' = ~RunPrograms(now + ms).raised
  /\ UNCHANGED reply

Reset ==
  /\ virtual
  /\ now' = 0
  /\ slot' = [k \in Slots |-> NULL] /\ program' = [id \in Ids |-> Blank]
  /\ out' = [o \in Outputs |-> ShownRGB(o, Black, out[o])]
  /\ writer' = [o \in Outputs |-> NULL]
  /\ reply' = "ok" /\ cut' = FALSE
  /\ UNCHANGED <<virtual, ticking>>

Next ==
  \/ \E q \in Requests : Handle(q)
  \/ \E ms \in Steps : Advance(ms) \/ TickLoop(ms)
  \/ Reset

Spec == Init /\ [][Next]_vars
-----------------------------------------------------------------------------
TypeOK ==
  /\ virtual \in BOOLEAN /\ ticking \in BOOLEAN /\ cut \in BOOLEAN
  /\ now \in 0 .. MaxNow
  /\ \A o \in Outputs :
       IF Kind[o] \in {"value", "rgb", "pixels"} THEN Showable(o, out[o]) ELSE out[o] = Configured[o]
  /\ slot \in [Slots -> Ids \cup {NULL}] /\ writer \in [Outputs -> Ids \cup {NULL}]
  /\ \A id \in Ids : program[id].kind = "none" <=> ~InUse(id)
  /\ reply \in {"ok", "error"}

(* However late the ticks come, and whoever shares it, a blink changes at  *)
(* the times its periods set from the first tick on (programs.py:37-42).   *)
BlinkDoesNotDrift ==
  \A id \in Ids :
    LET p == program[id] IN
    p.kind = "blink" /\ p.started =>
      \E cycles \in 0 .. p.next - p.origin :
        p.next = p.origin + cycles * (p.arg.on_period + p.arg.off_period) + IF p.on THEN p.arg.on_period ELSE 0

(* An output that a program wrote last, one that was not installed for     *)
(* several outputs, shows what the state of the program stands for: messages, *)
(* other programs, jumps of the clock and resets leave no program believing *)
(* what is not so (emulator.py:237-244). A sequence keeps every output but *)
(* its current one dark. A fade whose time is over shows where it ends,    *)
(* unless an exception in an earlier slot kept the last run from it.       *)
Shows(o, rgb) == out[o] = ShownRGB(o, rgb, out[o])
Channels(o) == CASE Kind[o] = "value" -> <<out[o]>> [] Kind[o] \in {"rgb", "pixels"} -> out[o] [] OTHER -> <<>>
Between(x, a, b) == (a <= x /\ x <= b) \/ (b <= x /\ x <= a)
Phase(p, o) ==
  CASE p.kind = "blink"    -> Shows(o, RGB(IF p.on THEN p.arg.on_value ELSE p.arg.off_value))
    [] p.kind = "timed"    -> Shows(o, RGB(IF p.on THEN p.arg.start_value ELSE p.arg.stop_value))
    [] p.kind = "sequence" -> LET v == IF p.arg[<<"output", p.current>>] = o THEN p.arg[<<"value", p.current>>] ELSE 0
                              IN  Shows(o, <<v, v, v>>)
    [] p.kind = "fade"     -> IF p.arg.flags = 0 /\ ~cut /\ now - p.origin >= p.arg.period
                              THEN Shows(o, RGB(p.arg.stop_value))
                              ELSE \A i \in DOMAIN Channels(o) :
                                     Between(Channels(o)[i], RGB(p.arg.start_value)[i], RGB(p.arg.stop_value)[i])
ShowsItsPhase ==
  \A o \in Outputs :
    writer[o] # NULL /\ InUse(writer[o]) /\ writer[o] # ALL_OUTPUTS => Phase(program[writer[o]], o)

(* The thread of the programs dies, and an advance is answered with an     *)
(* error, only for a program in a slot of the other kind and a sequence    *)
(* that names an output there is not (emulator.py:237-244, 285-289).       *)
Misfit ==
  \E k \in Slots :
    /\ slot[k] # NULL
    /\ LET p == program[slot[k]] IN
       IF k = NO_OUTPUT
       THEN p.kind = "sequence" => \E i \in 1 .. SEQUENCE_MAX : p.arg[<<"output", i>>] \in (N .. 254)
       ELSE p.kind = "sequence"
FailsOnlyOnMisfit == [][ticking' # ticking \/ (reply' = "error" /\ now' # now) => Misfit]_vars

(* What the documentation says of a program for all outputs: it drives each *)
(* of them as the firmware's state machines do (programs.py:1).            *)
AllShowTheirPhase ==
  \A o \in Outputs : writer[o] = ALL_OUTPUTS /\ slot[o] = ALL_OUTPUTS => Phase(program[ALL_OUTPUTS], o)
=============================================================================
