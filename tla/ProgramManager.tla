--------------------------- MODULE ProgramManager ---------------------------
(***************************************************************************)
(* The program manager of an HMTL module: the main loop of HMTL_Module.ino *)
(* receives program messages, installs a program on the tracker of an      *)
(* output (or on the tracker that has no output), and on every iteration   *)
(* gives each tracker one turn, then copies the output values to the pins. *)
(* The loop is single-threaded; time passes between any two of its steps.  *)
(*                                                                         *)
(* A tracker that was never allocated and one that holds NO_PROGRAM are    *)
(* the same here: every use of a tracker asks IS_RUNNING_PROGRAM first.    *)
(* Colours and brightness are values of a small set, 0 is "off".           *)
(***************************************************************************)
EXTENDS Integers

CONSTANTS
  N,            (* num_outputs: number of output slots, empty ones included *)
  Kind,         (* Kind[o]: what hmtl_setup put in slot o                   *)
  Values,       (* values an output can show                                *)
  Levels,       (* sensor levels, as the values they map to                 *)
  NULL,         (* the null pointer                                         *)
  SequenceMax,  (* HMTL_SEQUENCE_MAX                                        *)
  Requests,     (* program messages the module receives                     *)
  Wrap,         (* the clock counts modulo Wrap (2^32)                      *)
  MaxNow,       (* bound on the clock: it stops there; with Wrap, never     *)
  ClockSets     (* times a time synchronisation may set the clock to        *)

Outputs == 0 .. N-1
Slots   == 0 .. N              \* tracker N is no_output_tracker
Direct  == N + 1               \* "written by a message, not by a program"
BAD_OUTPUT  == N + 1           \* any other output number >= num_outputs
ALL_OUTPUTS == N + 2           \* HMTL_ALL_OUTPUTS and HMTL_NO_OUTPUT are the
NO_OUTPUT   == N + 3           \* largest two bytes

NO_PROGRAM == "no_program"
ColorPrograms == {"BLINK", "TIMED_CHANGE", "FADE", "LEVEL_VALUE", "SOUND_VALUE"}
PixelPrograms == {"SPARKLE", "CIRCULAR", "SOUND_PIXELS"}
FreePrograms  == {"SEQUENCE", "SENSOR_DATA"}      \* setup asks nothing of the output
Tracked       == ColorPrograms \cup PixelPrograms \cup FreePrograms
Trackerless   == {"BRIGHTNESS", "COLOR"}          \* entries whose .program is NULL
Programs      == Tracked \cup Trackerless \cup {"NONE", "unknown"}

Steps == 0 .. SequenceMax - 1
Step  == [out: Outputs \cup {NO_OUTPUT, BAD_OUTPUT}, duration: Nat, value: Values]
Args  == [first: Values, second: Values, period: Nat, rest: Nat,
          cycle: BOOLEAN, steps: [Steps -> Step]]
Request == [program: Programs,
            output: Outputs \cup {NO_OUTPUT, ALL_OUTPUTS, BAD_OUTPUT}, arg: Args]

(* An address malloc returns is named by the tracker it was asked for and a *)
(* number that tells it from one that tracker still has.                    *)
Blocks == Slots \X {0, 1}

ASSUME SizeAssumption ==
  /\ N \in Nat \ {0} /\ SequenceMax \in Nat \ {0} /\ MaxNow \in Nat
  /\ Wrap \in Nat \ {0} /\ ClockSets \subseteq 0 .. Wrap - 1
  /\ NULL \notin Blocks
ASSUME KindAssumption == Kind \in [Outputs -> {"empty", "value", "pixels", "socket"}]
ASSUME ValueAssumption ==
  Values \subseteq Nat /\ 0 \in Values /\ Levels \subseteq Values /\ Levels # {}
ASSUME RequestAssumption == Requests \subseteq Request

(* A sequence step never names a slot the configuration left empty, and a   *)
(* fade never has period 0: the code dereferences the empty slot, and       *)
(* divides by the period, without a test.                                   *)
ASSUME SafeRequestAssumption ==
  \A r \in Requests :
    /\ r.program = "FADE" => r.arg.period > 0
    /\ \A k \in Steps : LET o == r.arg.steps[k].out IN
                          o \in Outputs => Kind[o] # "empty"

VARIABLES
  pc,            \* where loop() is: "check" (messages), "run", "update"
  slot,          \* the tracker whose turn it is in run()
  trackers,      \* trackers[], with no_output_tracker at N
  heap,          \* addresses of the program states malloc gave out
  out,           \* value held in each output's configuration structure
  pins,          \* value the hardware shows
  dirty,         \* loop()'s "update"
  now,           \* timesync.ms()
  level,         \* level_data
  soundUpdated,  \* sound_updated
  writer         \* history: the tracker whose running program wrote out[o] last

vars == <<pc, slot, trackers, heap, out, pins, dirty, now, level, soundUpdated, writer>>
sensorVars == <<level, soundUpdated>>

ZeroArg == [first |-> 0, second |-> 0, period |-> 0, rest |-> 0, cycle |-> FALSE,
            steps |-> [k \in Steps |-> [out |-> NO_OUTPUT, duration |-> 0, value |-> 0]]]
IdleTracker == [prog |-> NO_PROGRAM, done |-> FALSE, dealloc |-> FALSE, block |-> NULL,
                arg |-> ZeroArg, due |-> 0, phase |-> 0]
Tracker == [prog: Tracked \cup {NO_PROGRAM}, done: BOOLEAN, dealloc: BOOLEAN,
            block: Blocks \cup {NULL}, arg: Args, due: Nat, phase: Nat]

After(t, d) == (t + d) % Wrap                      \* unsigned long arithmetic
Since(t)    == (now - t) % Wrap
Running(s)  == trackers[s].prog # NO_PROGRAM
Colored(o)  == Kind[o] \in {"value", "pixels"}     \* IS_HMTL_RGB_OUTPUT
Stateful(p) == p # "SENSOR_DATA"                   \* setup calls get_program_state

(* Whether a program's setup accepts the output of a slot (it returns false *)
(* for a NULL output, the one no_output_tracker has).                       *)
Accepts(s, p) == \/ p \in FreePrograms
                 \/ p \in ColorPrograms /\ s \in Outputs /\ Colored(s)
                 \/ p \in PixelPrograms /\ s \in Outputs /\ Kind[s] = "pixels"

TypeOK ==
  /\ pc \in {"check", "run", "update"}
  /\ slot \in Slots
  /\ trackers \in [Slots -> Tracker]
  /\ heap \subseteq Blocks
  /\ out \in [Outputs -> Values] /\ pins \in [Outputs -> Values]
  /\ dirty \in BOOLEAN /\ now \in Nat
  /\ level \in Levels /\ soundUpdated \in BOOLEAN
  /\ writer \in [Outputs -> 0 .. N + 1]

Init ==
  /\ pc = "check" /\ slot = 0
  /\ trackers = [s \in Slots |-> IdleTracker]
  /\ heap = {}
  /\ out = [o \in Outputs |-> 0] /\ pins = [o \in Outputs |-> 0]
  /\ dirty = TRUE              \* first_run
  /\ now = 0
  /\ level \in Levels /\ soundUpdated = FALSE
  /\ writer = [o \in Outputs |-> Direct]

-----------------------------------------------------------------------------
(* Messages: MessageHandler.process_msg calls one of these, and reports an  *)
(* update for every output message, also for one that was rejected.         *)

Targets(r) == CASE r.output = ALL_OUTPUTS -> {o \in Outputs : Kind[o] # "empty"}
                [] r.output = NO_OUTPUT   -> {N}
                [] r.output = BAD_OUTPUT  -> {}
                [] OTHER                  -> {o \in {r.output} : Kind[o] # "empty"}

(* Wrong: the state of a program that is replaced is not given back.        *)
FreedOnlyIfDone(S) ==
  {trackers[s].block : s \in {t \in S : trackers[t].done /\ trackers[t].dealloc}} \ {NULL}

(* free_tracker: the state goes back to the heap only under the flag.       *)
FreedBlocks(S) == {trackers[s].block : s \in {t \in S : Running(t) /\ trackers[t].dealloc}}
                    \ {NULL}
Disown(S) == [o \in Outputs |-> IF writer[o] \in S THEN Direct ELSE writer[o]]

(* Wrong: a sequence's first step is not reported as an update.             *)
ReceivedQuietly(r) == /\ pc = "check" /\ r \in Requests
                      /\ dirty' = (dirty \/ r.program # "SEQUENCE")
                      /\ UNCHANGED <<pc, slot, pins, now, level, soundUpdated>>

Received(r) == /\ pc = "check" /\ r \in Requests /\ dirty' = TRUE
               /\ UNCHANGED <<pc, slot, pins, now, level, soundUpdated>>

RejectMsg(r) ==
  /\ Received(r)
  /\ r.program = "unknown" \/ Targets(r) = {}
  /\ UNCHANGED <<trackers, heap, out, writer>>

(* HMTL_PROGRAM_NONE: the trackers are freed, the outputs keep their value. *)
CancelMsg(r) ==
  /\ Received(r)
  /\ r.program = "NONE"
  /\ trackers' = [s \in Slots |-> IF s \in Targets(r) THEN IdleTracker ELSE trackers[s]]
  /\ heap' = heap \ FreedBlocks(Targets(r))
  /\ writer' = Disown(Targets(r))
  /\ UNCHANGED out

(* COLOR and BRIGHTNESS act at once and leave the running program alone;    *)
(* COLOR writes a range of the strip, brightness is no output value.        *)
TrackerlessMsg(r) ==
  LET painted == {o \in Targets(r) \cap Outputs : r.program = "COLOR" /\ Kind[o] = "pixels"}
  IN /\ Received(r)
     /\ r.program \in Trackerless
     /\ out' = [o \in Outputs |-> IF o \in painted THEN r.arg.first ELSE out[o]]
     /\ writer' = [o \in Outputs |-> IF o \in painted THEN Direct ELSE writer[o]]
     /\ UNCHANGED <<trackers, heap>>

Fresh(s, h) == IF <<s, 0>> \in h THEN <<s, 1>> ELSE <<s, 0>>

(* setup of a tracked program: the fields the program's init fills in.      *)
Setup(p, block, arg) ==
  [prog |-> p, done |-> FALSE, dealloc |-> Stateful(p), block |-> block, arg |-> arg,
   due |-> CASE p \in {"BLINK", "SPARKLE", "CIRCULAR"} -> now
             [] p = "SEQUENCE"                         -> After(now, arg.steps[0].duration)
             [] OTHER                                  -> 0,   \* "not started" sentinel
   phase |-> 0]

(* Wrong: the result of setup is not looked at.                             *)
UsersUnchecked(S, p) == S

(* The targets whose setup succeeds.                                        *)
Users(S, p) == {s \in S : Accepts(s, p)}

(* Every target is freed before its setup is tried, so a target whose setup *)
(* fails is left without a program. A sequence lights its first step here.  *)
InstallMsg(r) ==
  LET S     == Targets(r)
      users == Users(S, r.program)
      old   == heap \ FreedBlocks(S)
      block == [s \in users |-> IF Stateful(r.program) THEN Fresh(s, old) ELSE NULL]
      lit   == {o \in Outputs : r.program = "SEQUENCE" /\ S # {} /\ Colored(o)
                                /\ o = r.arg.steps[0].out}
  IN /\ Received(r)
     /\ r.program \in Tracked
     /\ trackers' = [s \in Slots |->
          IF s \in users THEN Setup(r.program, block[s], r.arg)
          ELSE IF s \in S THEN IdleTracker ELSE trackers[s]]
     /\ heap' = old \cup ({block[s] : s \in users} \ {NULL})
     /\ out' = [o \in Outputs |-> IF o \in lit THEN r.arg.steps[0].value ELSE out[o]]
     /\ \E s \in S \cup {Direct} :
          /\ lit # {} => s \in S /\ \A x \in S : x <= s
          /\ writer' = [o \in Outputs |-> IF o \in lit THEN s ELSE Disown(S)[o]]

(* hmtl_handle_output_msg: a value or RGB message sets the outputs that     *)
(* have a colour and does not stop their programs.                          *)
SetOutputs(S, v) ==
  LET set == {o \in S : Colored(o)}
  IN /\ pc = "check" /\ dirty' = TRUE
     /\ out' = [o \in Outputs |-> IF o \in set THEN v ELSE out[o]]
     /\ writer' = [o \in Outputs |-> IF o \in set THEN Direct ELSE writer[o]]
     /\ UNCHANGED <<pc, slot, trackers, heap, pins, now, level, soundUpdated>>

(* A sensor message runs the PROGRAM_SENSOR_DATA function on its data.      *)
SensorMsg ==
  /\ pc = "check"
  /\ \/ level' \in Levels /\ UNCHANGED soundUpdated
     \/ soundUpdated' = TRUE /\ UNCHANGED level
  /\ UNCHANGED <<pc, slot, trackers, heap, out, pins, dirty, now, writer>>

-----------------------------------------------------------------------------
(* run(): one turn per tracker, in order, no_output_tracker last.           *)

StartRun == /\ pc = "check"
            /\ pc' = "run" /\ slot' = 0
            /\ UNCHANGED <<trackers, heap, out, pins, dirty, now, level, soundUpdated, writer>>

(* Wrong: run() goes on past the last tracker.                              *)
TurnPastEnd(s) == /\ pc = "run" /\ slot = s
                  /\ pc' = (IF s = N THEN "update" ELSE "run") /\ slot' = s + 1
                  /\ UNCHANGED <<pins, now>>

(* The end of the turn of tracker s.                                        *)
Turn(s) == /\ pc = "run" /\ slot = s
           /\ IF s = N THEN pc' = "update" /\ slot' = 0 ELSE pc' = "run" /\ slot' = s + 1
           /\ UNCHANGED <<pins, now>>

SkipIdle(s) == /\ Turn(s) /\ ~Running(s)
               /\ UNCHANGED <<trackers, heap, out, writer, dirty, level, soundUpdated>>

(* Wrong: tests PROGRAM_DEALLOC_STATE instead of PROGRAM_TRACKER_DONE.      *)
FreeOnWrongFlag(s) ==
  /\ Turn(s) /\ Running(s) /\ trackers[s].dealloc
  /\ trackers' = [trackers EXCEPT ![s] = IdleTracker]
  /\ heap' = heap \ FreedBlocks({s})
  /\ writer' = Disown({s})
  /\ UNCHANGED <<out, dirty, level, soundUpdated>>

(* Wrong: a program that is done is passed over and never freed.            *)
FreeForgotten(s) ==
  /\ Turn(s) /\ trackers[s].done
  /\ UNCHANGED <<trackers, heap, out, writer, dirty, level, soundUpdated>>

FreeDone(s) ==
  /\ Turn(s) /\ Running(s) /\ trackers[s].done
  /\ trackers' = [trackers EXCEPT ![s] = IdleTracker]
  /\ heap' = heap \ FreedBlocks({s})
  /\ writer' = Disown({s})
  /\ UNCHANGED <<out, dirty, level, soundUpdated>>

(* The program of tracker s, one of P, is called and reports no change ...  *)
Call(s, P) == Turn(s) /\ trackers[s].prog \in P /\ ~trackers[s].done /\ UNCHANGED heap
Quiet == UNCHANGED <<out, writer, dirty>>
(* ... or it sets output o to v and reports the change.                     *)
Shows(s, o, v) == /\ out' = [out EXCEPT ![o] = v]
                  /\ writer' = [writer EXCEPT ![o] = s]
                  /\ dirty' = TRUE
Becomes(s, t) == trackers' = [trackers EXCEPT ![s] = t]

RunBlink(s) ==
  LET t == trackers[s] IN
  /\ Call(s, {"BLINK"})
  /\ \/ now < t.due /\ Quiet /\ UNCHANGED trackers
     \/ now >= t.due /\ t.phase = 1
        /\ Shows(s, s, t.arg.second)
        /\ Becomes(s, [t EXCEPT !.phase = 0, !.due = After(t.due, t.arg.rest)])
     \/ now >= t.due /\ t.phase = 0
        /\ Shows(s, s, t.arg.first)
        /\ Becomes(s, [t EXCEPT !.phase = 1, !.due = After(t.due, t.arg.period)])
  /\ UNCHANGED sensorVars

(* Wrong: every call starts the period anew.                                *)
ChangeTimeRestarted(t) == After(now, t.arg.period)

(* change_time 0 means "not started".                                       *)
ChangeTime(t) == IF t.due = 0 THEN After(now, t.arg.period) ELSE t.due

(* Wrong: the stop value is shown at the start.                             *)
ShownSwapped(arg, over) == IF over THEN arg.first ELSE arg.second
Shown(arg, over) == IF over THEN arg.second ELSE arg.first

RunTimedChange(s) ==
  LET t    == trackers[s]
      over == now > ChangeTime(t)
  IN /\ Call(s, {"TIMED_CHANGE"})
     /\ \/ t.due # 0 /\ ~over /\ Quiet /\ UNCHANGED trackers
        \/ /\ t.due = 0 \/ over
           /\ Shows(s, s, Shown(t.arg, over))
           /\ Becomes(s, [t EXCEPT !.due = ChangeTime(t), !.done = over])
     /\ UNCHANGED sensorVars

(* Before the period is over the output shows some blend of the two colours.*)
RunFade(s) ==
  LET t       == trackers[s]
      elapsed == Since(t.due)
  IN /\ Call(s, {"FADE"})
     /\ \/ t.due = 0
           /\ Shows(s, s, t.arg.first)
           /\ Becomes(s, [t EXCEPT !.due = now])
        \/ t.due # 0 /\ elapsed < t.arg.period
           /\ \E v \in Values : Shows(s, s, v)
           /\ UNCHANGED trackers
        \/ t.due # 0 /\ elapsed >= t.arg.period
           /\ Shows(s, s, t.arg.second)
           /\ Becomes(s, IF t.arg.cycle
                         THEN [t EXCEPT !.due = now, !.arg.first = t.arg.second,
                                        !.arg.second = t.arg.first]
                         ELSE [t EXCEPT !.done = TRUE])
     /\ UNCHANGED sensorVars

(* SPARKLE and CIRCULAR repaint some pixels once a period.                  *)
RunPattern(s) ==
  LET t == trackers[s] IN
  /\ Call(s, {"SPARKLE", "CIRCULAR"})
  /\ \/ Since(t.due) < t.arg.period /\ Quiet /\ UNCHANGED trackers
     \/ Since(t.due) >= t.arg.period
        /\ \E v \in Values : Shows(s, s, v)
        /\ Becomes(s, [t EXCEPT !.due = now])
  /\ UNCHANGED sensorVars

(* LEVEL_VALUE follows the last level, SOUND_VALUE the loudness relative to *)
(* its maximum (any value here); state->value is the phase.                 *)
RunValue(s) ==
  LET t == trackers[s] IN
  /\ Call(s, {"LEVEL_VALUE", "SOUND_VALUE"})
  /\ \E v \in IF t.prog = "LEVEL_VALUE" THEN {level} ELSE Values :
       \/ v = t.phase /\ Quiet /\ UNCHANGED trackers
       \/ v # t.phase /\ Shows(s, s, v) /\ Becomes(s, [t EXCEPT !.phase = v])
  /\ UNCHANGED sensorVars

(* The first such program to run takes the sound update from the others.    *)
RunSoundPixels(s) ==
  /\ Call(s, {"SOUND_PIXELS"})
  /\ \/ ~soundUpdated /\ Quiet
     \/ soundUpdated /\ \E v \in Values : Shows(s, s, v)
  /\ soundUpdated' = FALSE
  /\ UNCHANGED <<trackers, level>>

NextStep(t) == LET k == t.phase + 1 IN
  IF k >= SequenceMax \/ t.arg.steps[k].out = NO_OUTPUT THEN 0 ELSE k

(* Wrong: the step that is over stays on.                                   *)
StepNotCleared(prev, cur) ==
  [o \in Outputs |-> IF o = cur.out /\ Colored(o) THEN cur.value ELSE out[o]]
StepOutputs(prev, cur) ==
  [o \in Outputs |-> IF ~Colored(o) THEN out[o]
                     ELSE IF o = cur.out THEN cur.value
                     ELSE IF o = prev THEN 0 ELSE out[o]]

RunSequence(s) ==
  LET t    == trackers[s]
      prev == t.arg.steps[t.phase].out
      k    == NextStep(t)
      cur  == t.arg.steps[k]
  IN /\ Call(s, {"SEQUENCE"})
     /\ \/ now < t.due /\ Quiet /\ UNCHANGED trackers
        \/ /\ now >= t.due
           /\ out' = StepOutputs(prev, cur)
           /\ writer' = [o \in Outputs |-> IF o \in {prev, cur.out} /\ Colored(o)
                                       THEN s ELSE writer[o]]
           /\ dirty' = TRUE
           /\ Becomes(s, [t EXCEPT !.phase = k, !.due = After(now, cur.duration)])
     /\ UNCHANGED sensorVars

(* PROGRAM_SENSOR_DATA installed as a program is called without the sensor  *)
(* message its function reads: what it reads is undefined.                  *)
RunSensorData(s) ==
  /\ Call(s, {"SENSOR_DATA"})
  /\ level' \in Levels
  /\ soundUpdated' \in {soundUpdated, TRUE}
  /\ dirty' \in {dirty, TRUE}
  /\ UNCHANGED <<trackers, out, writer>>

(* loop() copies the outputs to the hardware if anything reported a change. *)
UpdateOutputs ==
  /\ pc = "update"
  /\ pins' = IF dirty THEN [o \in Outputs |-> IF Colored(o) THEN out[o] ELSE pins[o]] ELSE pins
  /\ pc' = "check" /\ dirty' = FALSE
  /\ UNCHANGED <<slot, trackers, heap, out, now, level, soundUpdated, writer>>

Tick == /\ now # MaxNow /\ now' = (now + 1) % Wrap
        /\ UNCHANGED <<pc, slot, trackers, heap, out, pins, dirty, level, soundUpdated, writer>>

(* A time synchronisation message steps the clock, in either direction.     *)
SetClock == /\ pc = "check" /\ now' \in ClockSets
            /\ UNCHANGED <<slot, pc, trackers, heap, out, pins, dirty, level, soundUpdated,
                           writer>>

RunProgram(s) == \/ RunBlink(s) \/ RunTimedChange(s) \/ RunFade(s) \/ RunPattern(s)
                 \/ RunValue(s) \/ RunSoundPixels(s) \/ RunSequence(s) \/ RunSensorData(s)
Run  == \E s \in Slots : SkipIdle(s) \/ FreeDone(s) \/ RunProgram(s)
Loop == StartRun \/ Run \/ UpdateOutputs
Msg  == \/ \E r \in Requests : \/ RejectMsg(r) \/ CancelMsg(r)
                               \/ TrackerlessMsg(r) \/ InstallMsg(r)
        \/ \E o \in Outputs, v \in Values : SetOutputs({o}, v)
        \/ \E v \in Values : SetOutputs(Outputs, v)
        \/ SensorMsg \/ SetClock

Next == Msg \/ Loop \/ Tick
Spec == Init /\ [][Next]_vars

(* Fairness: loop() runs again and again and the clock advances; nobody has *)
(* to send a message.                                                       *)
FairSpec == Spec /\ WF_vars(Loop) /\ WF_vars(Tick)

-----------------------------------------------------------------------------
(* Memory: the states malloc gave out are exactly those of the running      *)
(* programs, one each. A replaced, cancelled, refused or completed program  *)
(* leaks nothing, and no running program lost its state (free_tracker,      *)
(* get_program_state).                                                      *)
Owners == {s \in Slots : Running(s) /\ trackers[s].dealloc}
HeapMatchesTrackers ==
  /\ heap = {trackers[s].block : s \in Owners}
  /\ \A s \in Slots : Running(s) /\ Stateful(trackers[s].prog) => s \in Owners
  /\ \A s, t \in Owners : trackers[s].block = trackers[t].block => s = t

(* A program runs only on an output its setup accepts: run() casts the      *)
(* output's object to what the program expects without looking again.       *)
ProgramFitsOutput == \A s \in Slots : Running(s) => Accepts(s, trackers[s].prog)

(* As long as nobody else wrote the output, a timed change that started     *)
(* shows its start value, and once it is done its stop value - also between *)
(* the run that completes it and the next run, which frees the tracker.     *)
TimedChangeShowsItsValue ==
  \A o \in Outputs : LET t == trackers[o] IN
    t.prog = "TIMED_CHANGE" /\ writer[o] = o =>
      out[o] = IF t.done THEN t.arg.second ELSE t.arg.first

(* Of the outputs a running sequence wrote last, only the one of its        *)
(* current step is on.                                                      *)
SequenceLightsOneStep ==
  \A s \in Slots, o \in Outputs :
    trackers[s].prog = "SEQUENCE" /\ writer[o] = s /\ out[o] # 0
    => o = trackers[s].arg.steps[trackers[s].phase].out

(* With no change left to report, the hardware shows the values the outputs *)
(* hold: every program and message that changes a value says so (loop).     *)
PinsCurrent == ~dirty => \A o \in Outputs : Colored(o) => pins[o] = out[o]

(* What the manager promises of its slots: a program enters a slot only by  *)
(* a message and if the slot fits it, and in run() only a timed change or a *)
(* fade leaves one.                                                         *)
SlotPrograms == INSTANCE SlotLifecycle WITH
  Idle <- NO_PROGRAM, Programs <- Tracked, Finite <- {"TIMED_CHANGE", "FADE"},
  Fits <- {f \in Slots \X Tracked : Accepts(f[1], f[2])},
  running <- [s \in Slots |-> trackers[s].prog],
  phase <- IF pc = "check" THEN "messages" ELSE "turns"
ImplementsSlots == SlotPrograms!Spec

(* A program that ends by itself is released, and its memory with it, by a  *)
(* later turn of run() at the latest.                                       *)
DoneIsReleased == \A s \in Slots : trackers[s].done ~> ~trackers[s].done

(* A timed change whose time comes before the clock's bound does not hold   *)
(* its start value forever: it completes unless a message replaces it.      *)
Holding(o) == trackers[o].prog = "TIMED_CHANGE" /\ ~trackers[o].done
              /\ trackers[o].due \in 1 .. MaxNow - 1
TimedChangeEnds == \A o \in Outputs : Holding(o) ~> ~Holding(o)

(* "This should be applied to all outputs that can handle the message type" *)
(* (handle_msg): a program message for all outputs leaves the program of an *)
(* output that cannot handle it alone.                                      *)
AllOutputsSparesOthers ==
  [][\A r \in Requests, o \in Outputs :
       InstallMsg(r) /\ r.output = ALL_OUTPUTS /\ ~Accepts(o, r.program)
       => trackers'[o] = trackers[o]]_vars

=============================================================================
