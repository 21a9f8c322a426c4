-------------------------- MODULE FlameEffectProofs --------------------------
(* Proofs about FlameEffect: its type invariant, that the poofer is ready    *)
(* only after a whole ignition, and that the main valve closes by itself.    *)
EXTENDS FlameEffect, TLAPS

USE DEF Valves, Time

(* Within the clock's bound adding a period does not wrap.                  *)
LEMMA AfterAdds ==
  ASSUME now \in 0 .. MaxNow, NEW period \in 0 .. IGNITE_PERIOD
  PROVE  After(period) = now + period /\ After(period) \in Time
<1>1. now + period \in 0 .. Wrap - 1
  BY PeriodAssumption, ClockAssumption
<1>2. (now + period) % Wrap = now + period
  BY <1>1, ClockAssumption
<1>. QED  BY <1>1, <1>2 DEF After

LEMMA Concatenation ==
  ASSUME NEW S, NEW s \in Seq(S), NEW t \in Seq(S)
  PROVE  s \o t \in Seq(S)
  OBVIOUS

LEMMA Remainder ==
  ASSUME NEW S, NEW s \in Seq(S), s # <<>>
  PROVE  Head(s) \in S /\ Tail(s) \in Seq(S)
  OBVIOUS

LEMMA TimedType ==
  ASSUME NEW o \in Valves, NEW period \in 0 .. IGNITE_PERIOD,
         NEW start \in BOOLEAN, NEW stop \in BOOLEAN
  PROVE  Timed(o, period, start, stop) \in Message
  BY DEF Timed, Message, TimedChange

LEMMA SentType ==
  /\ TimedOn("igniter", IGNITE_PERIOD) \in Message
  /\ DelayedOn("pilot", PILOT_DELAY_PERIOD) \in Message
  /\ \A o \in Valves : Disable(o) \in Message
  /\ \A period \in Periods : Limited(period) \in 0 .. POOF_MAX
                             /\ TimedOn("poof", Limited(period)) \in Message
  /\ Cancel("poof") \in Message
<1>1. \A period \in Periods : Limited(period) \in 0 .. POOF_MAX
  BY PeriodAssumption DEF Limited
<1>2. {IGNITE_PERIOD, PILOT_DELAY_PERIOD, SwitchPeriod} \subseteq 0 .. IGNITE_PERIOD
  BY PeriodAssumption
<1>3. 0 .. POOF_MAX \subseteq 0 .. IGNITE_PERIOD
  BY PeriodAssumption
<1>4. Cancel("poof") \in Message
  BY DEF Cancel, Message
<1>. QED  BY <1>1, <1>2, <1>3, <1>4, TimedType DEF TimedOn, DelayedOn, Disable

LEMMA MessageType ==
  ASSUME NEW m \in Message
  PROVE  /\ m.out \in Valves /\ m.kind \in {"timed", "cancel"}
         /\ m.kind # "cancel" => /\ m.period \in 0 .. IGNITE_PERIOD
                                /\ m.start \in BOOLEAN /\ m.stop \in BOOLEAN
  BY DEF Message, TimedChange

(* A valve that takes a message is a valve still.                           *)
LEMMA DeliveredType ==
  ASSUME NEW m \in Message, NEW v \in Valve
  PROVE  (IF m.kind = "cancel" THEN Showing(v.open)
          ELSE [open |-> v.open, running |-> TRUE, period |-> m.period,
                start |-> m.start, stop |-> m.stop, due |-> 0]) \in Valve
<1>1. v.open \in BOOLEAN
  BY DEF Valve
<1>2. 0 \in Time /\ 0 \in 0 .. IGNITE_PERIOD
  BY PeriodAssumption, ClockAssumption
<1>3. Showing(v.open) \in Valve
  BY <1>1, <1>2 DEF Showing, Valve
<1>4. ASSUME m.kind # "cancel"
      PROVE  [open |-> v.open, running |-> TRUE, period |-> m.period,
              start |-> m.start, stop |-> m.stop, due |-> 0] \in Valve
  <2>1. m.period \in 0 .. IGNITE_PERIOD /\ m.start \in BOOLEAN /\ m.stop \in BOOLEAN
    BY <1>4, MessageType
  <2>. QED  BY <1>1, <1>2, <2>1 DEF Valve
<1>. QED  BY <1>3, <1>4

-----------------------------------------------------------------------------
(* Type correctness.                                                        *)
LEMMA InitType == Init => TypeOK
<1>. SUFFICES ASSUME Init PROVE TypeOK
  OBVIOUS
<1>1. 0 \in Time /\ 0 \in 0 .. MaxNow /\ 0 \in 0 .. IGNITE_PERIOD
  BY PeriodAssumption, ClockAssumption
<1>2. Showing(FALSE) \in Valve
  BY <1>1 DEF Valve, Showing
<1>3. net \in Seq(Message)
  BY DEF Init
<1>. QED  BY <1>1, <1>2, <1>3 DEF Init, TypeOK

LEMMA StepType == ASSUME TypeOK, [Next]_vars PROVE TypeOK'
<1>. USE DEF TypeOK
<1>0. 0 \in Time /\ now \in Time
  BY PeriodAssumption, ClockAssumption
<1>1. CASE EnableIgniter
  <2>1. After(IGNITE_PERIOD) \in Time /\ After(PILOT_DELAY_PERIOD) \in Time
    BY AfterAdds, PeriodAssumption
  <2>2. net' \in Seq(Message)
    <3>. DEFINE sent == <<TimedOn("igniter", IGNITE_PERIOD)>>
               \o IF HasPilot THEN <<DelayedOn("pilot", PILOT_DELAY_PERIOD)>> ELSE <<>>
    <3>1. sent \in Seq(Message)
      BY SentType, Concatenation
    <3>. QED  BY <1>1, <3>1, Concatenation DEF EnableIgniter, Sends
  <2>. QED  BY <1>0, <1>1, <2>1, <2>2 DEF EnableIgniter, Controller, Bits
<1>2. CASE DisableIgniter \/ DisablePoof
  <2>1. net' \in Seq(Message)
    <3>1. PICK m \in Message : net' = net \o <<m>>
      BY <1>2, SentType DEF DisableIgniter, DisablePoof, Sends
    <3>. QED  BY <3>1, Concatenation
  <2>. QED  BY <1>2, <2>1 DEF DisableIgniter, DisablePoof, Controller, Bits, timers
<1>3. CASE DisablePilot
  <2>1. net' \in Seq(Message)
    <3>1. <<Disable("poof"), Disable("pilot")>> \in Seq(Message)
      BY SentType
    <3>. QED  BY <1>3, <3>1, Concatenation DEF DisablePilot, Sends
  <2>. QED  BY <1>3, <2>1 DEF DisablePilot, Controller, Bits, timers
<1>4. CASE EnablePoof
  BY <1>4 DEF EnablePoof, Controller, Bits, timers
<1>5. CASE CancelPoof
  <2>1. net' \in Seq(Message)
    BY <1>5, SentType, Concatenation DEF CancelPoof, Sends
  <2>. QED  BY <1>5, <2>1 DEF CancelPoof, Controller, timers
<1>6. ASSUME NEW period \in Periods, Poof(period) PROVE TypeOK'
  <2>1. net' \in Seq(Message)
    BY <1>6, SentType, Concatenation DEF Poof, Sends
  <2>2. After(Limited(period)) \in Time
    BY AfterAdds, SentType, PeriodAssumption
  <2>. QED  BY <1>0, <1>6, <2>1, <2>2 DEF Poof, Controller, Bits
<1>7. CASE Update
  <2>1. state' \subseteq Bits
    BY <1>7 DEF Update, Changes, Bits
  <2>. QED  BY <1>0, <1>7, <2>1 DEF Update, history
<1>8. CASE CheckChanged
  BY <1>8 DEF CheckChanged, timers
<1>9. CASE Deliver
  <2>1. net # <<>> /\ Head(net) \in Message /\ net' \in Seq(Message)
    BY <1>9, Remainder DEF Deliver, Take
  <2>. DEFINE m  == Head(net)
              to == IF m.kind = "cancel" THEN Showing(valve[m.out].open)
                    ELSE [open |-> valve[m.out].open, running |-> TRUE, period |-> m.period,
                          start |-> m.start, stop |-> m.stop, due |-> 0]
  <2>2. valve' \in [Valves -> Valve]
    <3>1. m.out \in Valves
      BY <2>1, MessageType
    <3>2. to \in Valve
      BY <2>1, <3>1, DeliveredType
    <3>3. valve' = [valve EXCEPT ![m.out] = to]
      BY <1>9 DEF Deliver
    <3>. HIDE DEF to, m
    <3>. QED  BY <3>1, <3>2, <3>3
  <2>3. cancelled' \in BOOLEAN
    BY <1>9 DEF Deliver
  <2>. QED  BY <1>9, <2>1, <2>2, <2>3 DEF Deliver, Take, timers
<1>10. CASE Lose
  BY <1>10, Remainder DEF Lose, Take, timers
<1>11. ASSUME NEW o \in Valves, RunOutput(o) PROVE TypeOK'
  <2>1. Due(valve[o]) \in Time
    BY AfterAdds DEF Due, Valve
  <2>. DEFINE v == valve[o]
              on == [v EXCEPT !.open = v.start, !.due = Due(v)]
  <2>2. v \in Valve
    OBVIOUS
  <2>3. on \in Valve
    BY <2>1, <2>2 DEF Valve
  <2>4. Showing(v.stop) \in Valve
    BY <1>0, <2>2, PeriodAssumption DEF Valve, Showing
  <2>5. valve' = [valve EXCEPT ![o] = IF now > Due(v) THEN Showing(v.stop) ELSE on]
    BY <1>11 DEF RunOutput
  <2>. HIDE DEF on, v
  <2>6. valve' \in [Valves -> Valve]
    BY <2>3, <2>4, <2>5
  <2>. QED  BY <1>11, <2>6 DEF RunOutput, timers
<1>12. CASE Tick
  BY <1>12, ClockAssumption DEF Tick, timers, history
<1>13. CASE UNCHANGED vars
  BY <1>13 DEF vars, timers, history
<1>. QED  BY <1>1, <1>2, <1>3, <1>4, <1>5, <1>6, <1>7, <1>8, <1>9, <1>10, <1>11, <1>12,
             <1>13 DEF Next, Operation

(* Deadlines stay before the wrap of the clock, and no message asks for a  *)
(* period above the largest there is, for all periods (Poofer, update).    *)
THEOREM TypeCorrect == Spec => []TypeOK
<1>1. TypeOK /\ [Next]_vars => TypeOK'
  BY StepType
<1>. QED  BY <1>1, InitType, PTL DEF Spec

-----------------------------------------------------------------------------
(* Ready after ignition. While the igniter is on, the end of its period is  *)
(* known from the moment it was enabled; update grants readiness only then. *)
ReadyInv == /\ TypeOK
            /\ "IGNITER_ON" \in state => igniterOff = lit + IGNITE_PERIOD
            /\ ReadyAfterIgnition

LEMMA StepReady == ASSUME ReadyInv, [Next]_vars PROVE ReadyInv'
<1>. USE StepType, PeriodAssumption DEF ReadyInv, ReadyAfterIgnition, TypeOK
<1>1. CASE EnableIgniter
  <2>1. igniterOff' = now + IGNITE_PERIOD /\ lit' = now /\ "POOF_READY" \notin state'
    BY <1>1, AfterAdds DEF EnableIgniter
  <2>. QED  BY <2>1
<1>2. CASE Update
  <2>1. "IGNITER_ON" \in state' => "IGNITER_ON" \in state /\ ~IgniterOver
    BY <1>2 DEF Update, Changes
  <2>2. "POOF_READY" \in state' => "POOF_READY" \in state \/ IgniterOver
    BY <1>2 DEF Update, Changes
  <2>3. UNCHANGED <<now, lit>> /\ (~IgniterOver => igniterOff' = igniterOff)
    BY <1>2 DEF Update, history
  <2>. QED  BY <2>1, <2>2, <2>3 DEF IgniterOver
<1>3. CASE Tick
  BY <1>3 DEF Tick, timers, history
<1>4. CASE \/ DisableIgniter \/ DisablePilot \/ EnablePoof \/ DisablePoof \/ CancelPoof
           \/ (\E period \in Periods : Poof(period))
           \/ CheckChanged \/ Deliver \/ Lose \/ (\E o \in Valves : RunOutput(o))
           \/ UNCHANGED vars
  <2>1. /\ UNCHANGED <<now, lit, igniterOff>>
        /\ state' \cap {"IGNITER_ON", "POOF_READY"} \subseteq state
    BY <1>4 DEF DisableIgniter, DisablePilot, EnablePoof, DisablePoof, CancelPoof, Poof,
                CheckChanged, Deliver, Lose, Take, RunOutput, Controller, vars, timers, history
  <2>. QED  BY <2>1
<1>. QED  BY <1>1, <1>2, <1>3, <1>4 DEF Next, Operation

(* The poofer is ready only once an uninterrupted ignition period has passed *)
(* since the igniter was last enabled (enableIgniter, update).               *)
THEOREM ReadyCorrect == Spec => []ReadyAfterIgnition
<1>1. Init => ReadyInv
  BY InitType DEF Init, ReadyInv, ReadyAfterIgnition
<1>2. ReadyInv /\ [Next]_vars => ReadyInv'
  BY StepReady
<1>3. ReadyInv => ReadyAfterIgnition
  BY DEF ReadyInv
<1>. QED  BY <1>1, <1>2, <1>3, PTL DEF Spec

-----------------------------------------------------------------------------
(* The main valve. A message that opens it was sent at this very time, and  *)
(* every program it runs closes it.                                         *)
Safe == {m \in Message :
           /\ m.kind = "cancel" => m.out = "poof"
           /\ m.kind = "timed" /\ m.out = "poof" =>
                ~m.stop /\ (m.start => poofed = now /\ m.period <= POOF_MAX)}

Closing(v) ==
  /\ v.running => ~v.stop
  /\ v.running /\ v.due = 0 /\ v.start => poofed = now /\ v.period <= POOF_MAX
  /\ v.running /\ v.due # 0 /\ v.open => v.due <= poofed + POOF_MAX
  /\ v.open /\ ~cancelled => v.running

PoofInv == /\ TypeOK /\ poofed <= now
           /\ net \in Seq(Safe)
           /\ Closing(valve["poof"])
           /\ PoofIsBounded

LEMMA SentSafe ==
  /\ TimedOn("igniter", IGNITE_PERIOD) \in Safe
  /\ DelayedOn("pilot", PILOT_DELAY_PERIOD) \in Safe
  /\ \A o \in Valves : Disable(o) \in Safe
  /\ Cancel("poof") \in Safe
BY SentType DEF Safe, TimedOn, DelayedOn, Disable, Cancel, Timed

LEMMA StepPoof == ASSUME PoofInv, [Next]_vars PROVE PoofInv'
<1>. USE StepType, PeriodAssumption DEF PoofInv, PoofIsBounded, Closing
<1>0. TypeOK /\ now \in Nat /\ poofed \in Nat /\ valve["poof"] \in Valve
  BY DEF TypeOK
<1>1. ASSUME UNCHANGED <<now, poofed, cancelled>>, valve'["poof"] = valve["poof"],
             net' \in Seq(Safe)
      PROVE  PoofInv'
  <2>1. Safe' = Safe
    BY <1>1 DEF Safe
  <2>. QED  BY <1>0, <1>1, <2>1
<1>2. CASE EnableIgniter
  <2>. DEFINE sent == <<TimedOn("igniter", IGNITE_PERIOD)>>
                 \o IF HasPilot THEN <<DelayedOn("pilot", PILOT_DELAY_PERIOD)>> ELSE <<>>
  <2>1. sent \in Seq(Safe)
    BY SentSafe, Concatenation
  <2>2. net' \in Seq(Safe)
    BY <1>2, <2>1, Concatenation DEF EnableIgniter, Sends
  <2>. QED  BY <1>1, <1>2, <2>2 DEF EnableIgniter, Controller
<1>3. CASE DisableIgniter \/ DisablePoof \/ CancelPoof
  <2>1. PICK m \in Safe : net' = net \o <<m>>
    BY <1>3, SentSafe DEF DisableIgniter, DisablePoof, CancelPoof, Sends
  <2>2. net' \in Seq(Safe)
    BY <2>1, Concatenation
  <2>. QED  BY <1>1, <1>3, <2>2 DEF DisableIgniter, DisablePoof, CancelPoof, Controller
<1>4. CASE DisablePilot
  <2>1. <<Disable("poof"), Disable("pilot")>> \in Seq(Safe)
    BY SentSafe
  <2>2. net' \in Seq(Safe)
    BY <1>4, <2>1, Concatenation DEF DisablePilot, Sends
  <2>. QED  BY <1>1, <1>4, <2>2 DEF DisablePilot, Controller
<1>5. CASE EnablePoof \/ Update \/ CheckChanged \/ Lose \/ UNCHANGED vars
  <2>1. \/ net' = net
        \/ net # <<>> /\ net' = Tail(net)
    BY <1>5 DEF EnablePoof, Update, CheckChanged, Lose, Take, vars
  <2>2. net' \in Seq(Safe)
    BY <2>1, Remainder
  <2>. QED  BY <1>1, <1>5, <2>2 DEF EnablePoof, Update, CheckChanged, Lose, Take, Controller,
                                   vars, history
<1>6. ASSUME NEW period \in Periods, Poof(period) PROVE PoofInv'
  <2>1. /\ UNCHANGED <<now, valve, cancelled>> /\ poofed' = now
        /\ net' = net \o <<TimedOn("poof", Limited(period))>>
    BY <1>6 DEF Poof, Controller, Sends
  <2>2. TimedOn("poof", Limited(period)) \in Safe'
    BY <2>1, SentType DEF Safe, TimedOn, Timed
  <2>3. Safe \subseteq Safe'
    BY <2>1 DEF Safe
  <2>4. net' \in Seq(Safe)'
    BY <2>1, <2>2, <2>3, Concatenation
  <2>. QED  BY <1>0, <2>1, <2>4 DEF Valve
<1>7. CASE Deliver
  <2>. DEFINE m == Head(net)
  <2>1. /\ m \in Safe /\ net' \in Seq(Safe) /\ UNCHANGED <<now, poofed>>
        /\ cancelled' = (cancelled \/ m.kind = "cancel")
    BY <1>7, Remainder DEF Deliver, Take
  <2>2. Safe' = Safe
    BY <2>1 DEF Safe
  <2>3. m \in Message /\ m.out \in Valves
    BY <2>1 DEF Safe, Message, TimedChange
  <2>4. valve'["poof"] = IF m.out # "poof" THEN valve["poof"]
                         ELSE IF m.kind = "cancel" THEN Showing(valve["poof"].open)
                         ELSE [open |-> valve["poof"].open, running |-> TRUE,
                               period |-> m.period, start |-> m.start, stop |-> m.stop,
                               due |-> 0]
    BY <1>0, <1>7, <2>3 DEF Deliver, TypeOK
  <2>5. m.kind = "cancel" => m.out = "poof"
    BY <2>1 DEF Safe
  <2>. HIDE DEF m
  <2>6. CASE m.out # "poof"
    BY <1>0, <2>1, <2>2, <2>4, <2>5, <2>6
  <2>7. CASE m.out = "poof" /\ m.kind = "cancel"
    <3>1. cancelled' = TRUE
      BY <2>1, <2>7
    <3>. QED  BY <1>0, <2>1, <2>2, <2>4, <2>7, <3>1 DEF Showing
  <2>8. CASE m.out = "poof" /\ m.kind # "cancel"
    <3>1. m.kind = "timed" /\ ~m.stop /\ (m.start => poofed = now /\ m.period <= POOF_MAX)
      BY <2>1, <2>3, <2>8 DEF Safe, Message, TimedChange
    <3>2. (~cancelled') => ~cancelled
      BY <2>1
    <3>. QED  BY <1>0, <2>1, <2>2, <2>4, <2>8, <3>1, <3>2
  <2>. QED  BY <2>6, <2>7, <2>8
<1>8. ASSUME NEW o \in Valves, RunOutput(o) PROVE PoofInv'
  <2>1. UNCHANGED <<now, poofed, net>> /\ Safe' = Safe /\ cancelled' = (cancelled /\ o # "poof")
    BY <1>8 DEF RunOutput, Safe
  <2>2. CASE o # "poof"
    BY <1>0, <1>1, <1>8, <2>1, <2>2 DEF RunOutput, TypeOK
  <2>3. CASE o = "poof"
    <3>. DEFINE v == valve["poof"]
    <3>1. v.running /\ (v.due = 0 \/ now > v.due) /\ ~v.stop
      BY <1>8, <2>3 DEF RunOutput
    <3>2. valve'["poof"] = IF now > Due(v) THEN Showing(v.stop)
                           ELSE [v EXCEPT !.open = v.start, !.due = Due(v)]
      BY <1>0, <1>8, <2>3 DEF RunOutput, TypeOK
    <3>3. CASE now > Due(v)
      BY <1>0, <2>1, <3>1, <3>2, <3>3 DEF Showing
    <3>4. CASE ~(now > Due(v))
      <4>1. v.due = 0 /\ Due(v) = now + v.period
        BY <1>0, <3>1, <3>4, AfterAdds DEF Due, Valve, TypeOK
      <4>2. /\ valve'["poof"].open = v.start /\ valve'["poof"].due = now + v.period
            /\ valve'["poof"].running /\ ~valve'["poof"].stop
            /\ valve'["poof"].start = v.start /\ valve'["poof"].period = v.period
        BY <1>0, <3>1, <3>2, <3>4, <4>1 DEF Valve
      <4>3. v.start => poofed = now /\ v.period <= POOF_MAX
        BY <3>1, <4>1
      <4>. QED  BY <1>0, <2>1, <4>2, <4>3 DEF Valve
    <3>. QED  BY <3>3, <3>4
  <2>. QED  BY <2>2, <2>3
<1>9. CASE Tick
  <2>1. /\ net' = <<>> /\ now' = now + 1 /\ UNCHANGED <<valve, poofed, cancelled>>
        /\ valve["poof"].running => valve["poof"].due # 0 /\ now <= valve["poof"].due
    BY <1>9 DEF Tick, Settled, history
  <2>2. net' \in Seq(Safe)'
    BY <2>1
  <2>. QED  BY <1>0, <2>1, <2>2 DEF Valve
<1>. QED  BY <1>2, <1>3, <1>4, <1>5, <1>6, <1>7, <1>8, <1>9 DEF Next, Operation

(* The main valve closes by itself, whatever messages are lost and whatever *)
(* the controller does next, unless a cancel took its program away (poof,   *)
(* sendTimedOn).                                                            *)
THEOREM PoofCorrect == Spec => []PoofIsBounded
<1>1. Init => PoofInv
  <2>. SUFFICES ASSUME Init PROVE PoofInv
    OBVIOUS
  <2>1. ~valve["poof"].open /\ ~valve["poof"].running /\ net = <<>>
    BY DEF Init, Showing
  <2>2. net \in Seq(Safe)
    BY <2>1
  <2>3. poofed = 0 /\ now = 0
    BY DEF Init
  <2>4. Closing(valve["poof"]) /\ PoofIsBounded
    BY <2>1, Zenon DEF Closing, PoofIsBounded
  <2>. QED  BY <2>2, <2>3, <2>4, InitType DEF PoofInv
<1>2. PoofInv /\ [Next]_vars => PoofInv'
  BY StepPoof
<1>3. PoofInv => PoofIsBounded
  BY DEF PoofInv
<1>. QED  BY <1>1, <1>2, <1>3, PTL DEF Spec

-----------------------------------------------------------------------------
(* Reports of changes.                                                      *)
Reported == Visible(state') # Visible(state) => "CHANGED" \in state' \/ CancelPoof

LEMMA StepReports == ASSUME [Next]_vars PROVE Reported
<1>. USE DEF Reported
<1>1. CASE EnableIgniter \/ DisableIgniter \/ DisablePilot \/ EnablePoof \/ DisablePoof
  BY <1>1 DEF EnableIgniter, DisableIgniter, DisablePilot, EnablePoof, DisablePoof
<1>2. ASSUME NEW period \in Periods, Poof(period) PROVE Reported
  <2>1. CASE "POOF_ON" \in state
    <3>1. state' = state BY <1>2, <2>1 DEF Poof
    <3>. QED  BY <3>1
  <2>2. CASE "POOF_ON" \notin state
    BY <1>2, <2>2 DEF Poof
  <2>. QED  BY <2>1, <2>2
<1>3. CASE CancelPoof
  BY <1>3
<1>4. CASE Update
  <2>1. CASE IgniterOver \/ PilotOver \/ PoofOver
    BY <1>4, <2>1 DEF Update, Changes
  <2>2. CASE ~IgniterOver /\ ~PilotOver /\ ~PoofOver
    <3>1. state' = state BY <1>4, <2>2 DEF Update, Changes
    <3>. QED  BY <3>1
  <2>. QED  BY <2>1, <2>2
<1>5. CASE CheckChanged
  BY <1>5 DEF CheckChanged, Visible
<1>6. CASE Deliver \/ Lose \/ (\E o \in Valves : RunOutput(o)) \/ Tick \/ UNCHANGED vars
  <2>1. state' = state BY <1>6 DEF Deliver, Lose, Take, RunOutput, Tick, vars
  <2>. QED  BY <2>1
<1>. QED  BY <1>1, <1>2, <1>3, <1>4, <1>5, <1>6 DEF Next, Operation

(* checkChanged misses no change of the state but what cancelPoof changes:  *)
(* not one of another operation, nor a period that update finds over.       *)
THEOREM ChangesCorrect == Spec => ChangesAreReported
<1>1. [Next]_vars => [Reported]_vars
  BY StepReports
<1>. QED  BY <1>1, PTL DEF Spec, ChangesAreReported, Reported
=============================================================================
