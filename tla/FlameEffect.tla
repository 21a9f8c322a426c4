----------------------------- MODULE FlameEffect -----------------------------
(***************************************************************************)
(* A fire effect: the controller's Poofer object (HMTLPoofer.cpp) and the  *)
(* module it commands, whose outputs are an igniter, a pilot valve and the *)
(* main ("poof") valve. The controller never switches an output itself: it *)
(* sends the module timed changes, which the module's program manager runs *)
(* (see ProgramManager: RunTimedChange, CancelMsg), and keeps its own idea *)
(* of what the outputs do. Nothing is acknowledged.                        *)
(*                                                                         *)
(* A tick of the clock is longer than the bus and the module's loop take   *)
(* (the periods are seconds): a message is delivered, in order, or lost    *)
(* before the next tick. The controller's loop has no such bound.          *)
(***************************************************************************)
EXTENDS Integers, Sequences

CONSTANTS
  IGNITE_PERIOD, PILOT_DELAY_PERIOD, POOF_MAX,
  SwitchPeriod,   \* the 100 ms of sendHMTLEnable
  HasPilot,       \* pilot_output # HMTL_NO_OUTPUT
  Periods,        \* what the controller asks of poof()
  Wrap,           \* millis() counts modulo Wrap (2^32)
  MaxNow,         \* bound on the clock: it stops there
  MaxNet          \* bound on the messages under way when the controller acts

ASSUME PeriodAssumption ==
  /\ {IGNITE_PERIOD, PILOT_DELAY_PERIOD, POOF_MAX, SwitchPeriod} \subseteq Nat \ {0}
  /\ PILOT_DELAY_PERIOD < IGNITE_PERIOD
  /\ SwitchPeriod <= IGNITE_PERIOD /\ POOF_MAX <= IGNITE_PERIOD
  /\ Periods \subseteq Nat /\ HasPilot \in BOOLEAN
ASSUME ClockAssumption ==
  MaxNow \in Nat /\ MaxNet \in Nat /\ Wrap \in Nat /\ MaxNow + IGNITE_PERIOD < Wrap

Valves == {"igniter", "pilot", "poof"}
Bits   == {"CHANGED", "IGNITER_ENABLED", "IGNITER_ON", "PILOT_DELAY", "PILOT_ON",
           "POOF_ENABLED", "POOF_READY", "POOF_ON"}
Time   == 0 .. Wrap - 1

VARIABLES
  now,
  state,                          \* the state bits that are set
  igniterOff, pilotOn, poofOff,   \* igniter_off_ms, pilot_on_ms, poof_off_ms
  net,                            \* messages under way to the module
  valve,                          \* what the module's outputs show and run
  lit,                            \* history: when the igniter was last enabled
  poofed,                         \* history: when poof() last sent a poof
  cancelled                       \* history: no program ran on the main valve since a cancel

timers  == <<igniterOff, pilotOn, poofOff>>
history == <<lit, poofed, cancelled>>
vars    == <<now, state, timers, net, valve, history>>

(* A timed change: start, then after the period stop. Cancel: no program.   *)
TimedChange == [kind: {"timed"}, out: Valves, period: 0 .. IGNITE_PERIOD,
                start: BOOLEAN, stop: BOOLEAN]
Message == TimedChange \cup [kind: {"cancel"}, out: Valves]
Valve   == [open: BOOLEAN, running: BOOLEAN, period: 0 .. IGNITE_PERIOD,
            start: BOOLEAN, stop: BOOLEAN, due: Time]
Showing(open) == [open |-> open, running |-> FALSE, period |-> 0, start |-> FALSE,
                  stop |-> FALSE, due |-> 0]

TypeOK == /\ now \in 0 .. MaxNow /\ state \subseteq Bits
          /\ igniterOff \in Time /\ pilotOn \in Time /\ poofOff \in Time
          /\ net \in Seq(Message)
          /\ valve \in [Valves -> Valve]
          /\ lit \in Time /\ poofed \in Time /\ cancelled \in BOOLEAN

Init == /\ now = 0 /\ state = {} /\ igniterOff = 0 /\ pilotOn = 0 /\ poofOff = 0
        /\ net = <<>> /\ valve = [o \in Valves |-> Showing(FALSE)]
        /\ lit = 0 /\ poofed = 0 /\ cancelled = FALSE

-----------------------------------------------------------------------------
(* What the controller sends.                                               *)
Timed(o, period, start, stop) ==
  [kind |-> "timed", out |-> o, period |-> period, start |-> start, stop |-> stop]
(* Wrong: the output stays on at the end of the period.                     *)
StaysOn(o, period)   == Timed(o, period, TRUE, TRUE)
TimedOn(o, period)   == Timed(o, period, TRUE, FALSE)
DelayedOn(o, period) == Timed(o, period, FALSE, TRUE)
Disable(o)           == Timed(o, SwitchPeriod, FALSE, FALSE)
Cancel(o)            == [kind |-> "cancel", out |-> o]

After(period) == (now + period) % Wrap
Controller    == Len(net) <= MaxNet /\ UNCHANGED <<now, valve, cancelled>>
Sends(msgs)   == net' = net \o msgs

(* Wrong: the poofer stays ready while the igniter starts again.            *)
EnableIgniterStillReady ==
  /\ Controller
  /\ state' = state \cup {"CHANGED", "IGNITER_ENABLED", "IGNITER_ON"}
                    \cup (IF HasPilot THEN {"PILOT_DELAY"} ELSE {})
  /\ igniterOff' = After(IGNITE_PERIOD) /\ lit' = now
  /\ pilotOn' = IF HasPilot THEN After(PILOT_DELAY_PERIOD) ELSE pilotOn
  /\ Sends(<<TimedOn("igniter", IGNITE_PERIOD)>>
             \o IF HasPilot THEN <<DelayedOn("pilot", PILOT_DELAY_PERIOD)>> ELSE <<>>)
  /\ UNCHANGED <<poofOff, poofed>>

(* enableIgniter and the ignite it calls.                                   *)
EnableIgniter ==
  /\ Controller
  /\ state' = (state \ {"POOF_READY"}) \cup {"CHANGED", "IGNITER_ENABLED", "IGNITER_ON"}
                    \cup (IF HasPilot THEN {"PILOT_DELAY"} ELSE {})
  /\ igniterOff' = After(IGNITE_PERIOD) /\ lit' = now
  /\ pilotOn' = IF HasPilot THEN After(PILOT_DELAY_PERIOD) ELSE pilotOn
  /\ Sends(<<TimedOn("igniter", IGNITE_PERIOD)>>
             \o IF HasPilot THEN <<DelayedOn("pilot", PILOT_DELAY_PERIOD)>> ELSE <<>>)
  /\ UNCHANGED <<poofOff, poofed>>

(* The pilot's delay goes on.                                               *)
DisableIgniter ==
  /\ Controller
  /\ Sends(<<Disable("igniter")>>)
  /\ state' = (state \ {"IGNITER_ENABLED", "IGNITER_ON"}) \cup {"CHANGED"}
  /\ UNCHANGED <<timers, lit, poofed>>

(* Poofing is disabled with the pilot; an ignition under way goes on.       *)
DisablePilot ==
  /\ Controller /\ HasPilot
  /\ Sends(<<Disable("poof"), Disable("pilot")>>)
  /\ state' = (state \ {"POOF_READY", "POOF_ENABLED", "POOF_ON", "PILOT_DELAY", "PILOT_ON"})
                \cup {"CHANGED"}
  /\ UNCHANGED <<timers, lit, poofed>>

EnablePoof ==
  /\ Controller
  /\ state' = state \cup {"POOF_ENABLED", "CHANGED"}
  /\ UNCHANGED <<net, timers, lit, poofed>>

DisablePoof ==
  /\ Controller
  /\ state' = (state \ {"POOF_ENABLED", "POOF_ON"}) \cup {"CHANGED"}
  /\ Sends(<<Disable("poof")>>)
  /\ UNCHANGED <<timers, lit, poofed>>

(* Wrong: the period asked for is not limited.                              *)
Unlimited(period) == period
Limited(period)   == IF period > POOF_MAX THEN POOF_MAX ELSE period

(* A poof during a poof extends it.                                         *)
Poof(period) ==
  /\ Controller
  /\ {"POOF_READY", "POOF_ENABLED"} \subseteq state
  /\ state' = state \cup {"POOF_ON"}
                    \cup (IF "POOF_ON" \in state THEN {} ELSE {"CHANGED"})
  /\ poofOff' = After(Limited(period)) /\ poofed' = now
  /\ Sends(<<TimedOn("poof", Limited(period))>>)
  /\ UNCHANGED <<igniterOff, pilotOn, lit>>

CancelPoof ==
  /\ Controller
  /\ Sends(<<Cancel("poof")>>)
  /\ state' = state \ {"POOF_ON"}
  /\ UNCHANGED <<timers, lit, poofed>>

(* update: each of the three periods that is over, with >.                  *)
IgniterOver == "IGNITER_ON" \in state /\ now > igniterOff
PilotOver   == "PILOT_DELAY" \in state /\ now > pilotOn
PoofOver    == "POOF_ON" \in state /\ now > poofOff
(* Wrong: the end of a period is not reported.                              *)
ChangesSilently(over, off, on) == IF over THEN [off |-> {off}, on |-> on]
                                          ELSE [off |-> {}, on |-> {}]
Changes(over, off, on) == IF over THEN [off |-> {off}, on |-> on \cup {"CHANGED"}]
                                  ELSE [off |-> {}, on |-> {}]
Update ==
  LET i == Changes(IgniterOver, "IGNITER_ON", {"POOF_READY"})
      p == Changes(PilotOver, "PILOT_DELAY", {"PILOT_ON"})
      f == Changes(PoofOver, "POOF_ON", {})
  IN /\ state' = (state \ (i.off \cup p.off \cup f.off)) \cup i.on \cup p.on \cup f.on
     /\ igniterOff' = IF IgniterOver THEN 0 ELSE igniterOff
     /\ pilotOn' = IF PilotOver THEN 0 ELSE pilotOn
     /\ poofOff' = IF PoofOver THEN 0 ELSE poofOff
     /\ UNCHANGED <<now, net, valve, history>>

CheckChanged == /\ state' = state \ {"CHANGED"}
                /\ UNCHANGED <<now, timers, net, valve, lit, poofed, cancelled>>

-----------------------------------------------------------------------------
(* The module.                                                              *)
Take == net # <<>> /\ net' = Tail(net) /\ UNCHANGED <<now, state, timers, lit, poofed>>

Deliver ==
  LET m == Head(net) IN
  /\ Take
  /\ valve' = [valve EXCEPT ![m.out] =
       IF m.kind = "cancel" THEN Showing(@.open)
       ELSE [open |-> @.open, running |-> TRUE, period |-> m.period, start |-> m.start,
             stop |-> m.stop, due |-> 0]]
  /\ cancelled' = (cancelled \/ m.kind = "cancel")

Lose == Take /\ UNCHANGED <<valve, cancelled>>

(* The module's loop runs the timed change of output o.                     *)
Due(v) == IF v.due = 0 THEN After(v.period) ELSE v.due
RunOutput(o) ==
  LET v == valve[o] IN
  /\ v.running /\ (v.due = 0 \/ now > v.due)
  /\ valve' = [valve EXCEPT ![o] =
       IF now > Due(v) THEN Showing(v.stop)
                       ELSE [v EXCEPT !.open = v.start, !.due = Due(v)]]
  /\ cancelled' = (cancelled /\ o # "poof")
  /\ UNCHANGED <<now, state, timers, net, lit, poofed>>

Settled == net = <<>> /\ \A o \in Valves : valve[o].running =>
                                            valve[o].due # 0 /\ now <= valve[o].due
Tick == /\ Settled /\ now < MaxNow /\ now' = now + 1
        /\ UNCHANGED <<state, timers, net, valve, history>>

Operation == \/ EnableIgniter \/ DisableIgniter \/ DisablePilot \/ EnablePoof
             \/ DisablePoof \/ CancelPoof \/ \E period \in Periods : Poof(period)
Next == \/ Operation \/ Update \/ CheckChanged
        \/ Deliver \/ Lose \/ \E o \in Valves : RunOutput(o)
        \/ Tick
Spec == Init /\ [][Next]_vars

-----------------------------------------------------------------------------
(* The main valve closes by itself: whatever is lost afterwards, and even   *)
(* if the controller stops, it is open at most POOF_MAX (and the tick in    *)
(* which it closes) after the last poof was sent - unless a cancel took the *)
(* program that closes it away.                                             *)
PoofIsBounded ==
  valve["poof"].open /\ ~cancelled => now <= poofed + POOF_MAX + 1

(* The poofer is ready only when a whole ignition period has passed since   *)
(* the igniter was last enabled, however often it was restarted, disabled   *)
(* or enabled in between.                                                   *)
ReadyAfterIgnition == "POOF_READY" \in state => now > lit + IGNITE_PERIOD

(* checkChanged tells of every change of the state since it last asked, but *)
(* for the end of a poof in cancelPoof (HMTLPoofer.cpp:258): every other    *)
(* step that changes a bit leaves CHANGED set, also update where a poof is  *)
(* over by itself, and checkChanged, which clears it, changes no other bit. *)
Visible(bits) == bits \ {"CHANGED"}
ChangesAreReported ==
  [][Visible(state') # Visible(state) => "CHANGED" \in state' \/ CancelPoof]_vars

(* "Send a message to cancel any ongoing poof" (cancelPoof): a main valve   *)
(* that received the cancel is closed.                                      *)
CancelEndsPoof == cancelled => ~valve["poof"].open

(* "As the pilot is being turned off, the poofer needs to be fully disabled"*)
(* (disablePilot): without a pilot the poofer is not ready.                 *)
ReadyMeansPilot == HasPilot /\ "POOF_READY" \in state => "PILOT_ON" \in state
=============================================================================
