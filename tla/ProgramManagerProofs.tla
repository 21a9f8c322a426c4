------------------------ MODULE ProgramManagerProofs ------------------------
(***************************************************************************)
(* Proofs about ProgramManager, for every number of outputs, set of        *)
(* requests and clock bound: types, the ownership of program states, and   *)
(* that the manager implements SlotLifecycle.                              *)
(***************************************************************************)
EXTENDS ProgramManager, TLAPS

USE SizeAssumption, ValueAssumption

(* Clock arithmetic stays in the natural numbers.                           *)
LEMMA ClockType == \A a \in Int : a % Wrap \in Nat
  OBVIOUS

LEMMA IdleType == IdleTracker \in Tracker
<1>1. ZeroArg \in Args
  BY DEF ZeroArg, Args, Step
<1>. QED  BY <1>1 DEF IdleTracker, Tracker

LEMMA RequestType == \A r \in Requests : r.arg \in Args /\ r.program \in Programs
                        /\ r.arg.first \in Values /\ r.arg.steps[0] \in Step
  BY RequestAssumption DEF Request, Args, Steps

LEMMA TargetsType == \A r \in Requests : Targets(r) \subseteq Slots
  BY RequestAssumption DEF Targets, Request, Slots, Outputs, ALL_OUTPUTS, NO_OUTPUT, BAD_OUTPUT

LEMMA SetupType ==
  ASSUME now \in Nat, NEW p \in Tracked, NEW b \in Blocks \cup {NULL}, NEW a \in Args
  PROVE  Setup(p, b, a) \in Tracker
<1>1. After(now, a.steps[0].duration) \in Nat
  <2>1. now + a.steps[0].duration \in Int
    BY DEF Args, Steps, Step
  <2>. QED  BY <2>1, ClockType DEF After
<1>. QED  BY <1>1 DEF Setup, Tracker, Stateful

(* What the code does to a tracker between its turns keeps its type.        *)
LEMMA BecomesType ==
  ASSUME TypeOK, NEW s \in Slots, NEW t \in Tracker, Becomes(s, t)
  PROVE  trackers' \in [Slots -> Tracker]
  BY DEF Becomes, TypeOK

LEMMA ShowsType ==
  ASSUME TypeOK, NEW s \in Slots, NEW o \in Slots, NEW v \in Values, Shows(s, o, v)
  PROVE  /\ out' \in [Outputs -> Values]
         /\ writer' \in [Outputs -> 0 .. N + 1]
         /\ dirty' \in BOOLEAN
<1>1. s \in 0 .. N + 1
  BY DEF Slots
<1>2. \A f, w : [f EXCEPT ![o] = w] = [x \in DOMAIN f |-> IF x = o THEN w ELSE f[x]]
  OBVIOUS
<1>3. out' = [x \in Outputs |-> IF x = o THEN v ELSE out[x]]
      /\ writer' = [x \in Outputs |-> IF x = o THEN s ELSE writer[x]]
  BY <1>2 DEF Shows, TypeOK
<1>. QED  BY <1>1, <1>3 DEF Shows, TypeOK

LEMMA RetimedType ==
  \A t \in Tracker, x \in Nat, y \in Nat : [t EXCEPT !.phase = x, !.due = y] \in Tracker
  BY DEF Tracker

LEMMA TurnType ==
  ASSUME TypeOK, NEW s \in Slots, Turn(s)
  PROVE  /\ pc' \in {"check", "run", "update"} /\ slot' \in Slots
         /\ pins' \in [Outputs -> Values] /\ now' \in Nat
  BY DEF Turn, TypeOK, Slots

LEMMA DisownType ==
  ASSUME TypeOK, NEW S \in SUBSET Slots
  PROVE  Disown(S) \in [Outputs -> 0 .. N + 1]
  BY DEF Disown, TypeOK, Direct

LEMMA NextStepType == \A t \in Tracker : NextStep(t) \in Steps
  BY DEF NextStep, Tracker, Steps

LEMMA RunProgramType ==
  ASSUME TypeOK, NEW s \in Slots, RunProgram(s)
  PROVE  TypeOK'
<1>. DEFINE t == trackers[s]
<1>1. t \in Tracker /\ t.arg \in Args /\ t.arg.first \in Values /\ t.arg.second \in Values
      /\ t.arg.period \in Nat /\ t.arg.rest \in Nat /\ t.due \in Nat /\ t.phase \in Nat
  BY DEF TypeOK, Tracker, Args
<1>2. Turn(s) /\ heap' = heap
  BY DEF RunProgram, RunBlink, RunTimedChange, RunFade, RunPattern, RunValue,
         RunSoundPixels, RunSequence, RunSensorData, Call
<1>3. /\ pc' \in {"check", "run", "update"} /\ slot' \in Slots
      /\ pins' \in [Outputs -> Values] /\ now' \in Nat /\ heap' \subseteq Blocks
  BY <1>2, TurnType DEF TypeOK
<1>4. ASSUME Quiet
      PROVE  out' \in [Outputs -> Values] /\ writer' \in [Outputs -> 0 .. N + 1]
             /\ dirty' \in BOOLEAN
  BY <1>4 DEF Quiet, TypeOK
<1>5. ASSUME NEW v \in Values, Shows(s, s, v)
      PROVE  out' \in [Outputs -> Values] /\ writer' \in [Outputs -> 0 .. N + 1]
             /\ dirty' \in BOOLEAN
  BY <1>5, ShowsType
<1>6. ASSUME sensorVars' = sensorVars PROVE level' \in Levels /\ soundUpdated' \in BOOLEAN
  BY <1>6 DEF sensorVars, TypeOK
<1>7. trackers' = trackers => trackers' \in [Slots -> Tracker]
  BY DEF TypeOK
<1>8. CASE RunBlink(s)
  <2>1. [t EXCEPT !.phase = 0, !.due = After(t.due, t.arg.rest)] \in Tracker
        /\ [t EXCEPT !.phase = 1, !.due = After(t.due, t.arg.period)] \in Tracker
    <3>1. After(t.due, t.arg.rest) \in Nat /\ After(t.due, t.arg.period) \in Nat
      <4>1. t.due + t.arg.rest \in Int /\ t.due + t.arg.period \in Int
        BY <1>1
      <4>. QED  BY <4>1, ClockType DEF After
    <3>. HIDE DEF t
    <3>. QED  BY <1>1, <3>1, RetimedType
  <2>. QED  BY <1>1, <1>3, <1>4, <1>5, <1>6, <1>7, <1>8, <2>1, BecomesType
            DEF RunBlink, TypeOK
<1>9. CASE RunTimedChange(s)
  <2>. DEFINE over == now > ChangeTime(t)
  <2>1. ChangeTime(t) \in Nat /\ over \in BOOLEAN
    <3>1. After(now, t.arg.period) \in Nat
      <4>1. now + t.arg.period \in Int
        BY <1>1 DEF TypeOK
      <4>. QED  BY <4>1, ClockType DEF After
    <3>. QED  BY <1>1, <3>1 DEF ChangeTime
  <2>2. Shown(t.arg, over) \in Values
    BY <1>1 DEF Shown
  <2>3. [t EXCEPT !.due = ChangeTime(t), !.done = over] \in Tracker
    BY <1>1, <2>1 DEF Tracker
  <2>4. CASE Quiet /\ UNCHANGED trackers
    BY <1>3, <1>4, <1>6, <1>7, <1>9, <2>4 DEF RunTimedChange, TypeOK
  <2>5. CASE /\ Shows(s, s, Shown(t.arg, over))
             /\ Becomes(s, [t EXCEPT !.due = ChangeTime(t), !.done = over])
    <3>1. trackers' \in [Slots -> Tracker]
      BY <2>3, <2>5, BecomesType
    <3>2. sensorVars' = sensorVars
      BY <1>9 DEF RunTimedChange
    <3>. QED  BY <1>3, <1>5, <1>6, <2>2, <2>5, <3>1, <3>2 DEF TypeOK
  <2>. QED  BY <1>9, <2>4, <2>5 DEF RunTimedChange
<1>10. CASE RunFade(s)
  <2>1. /\ [t EXCEPT !.due = now] \in Tracker
        /\ [t EXCEPT !.done = TRUE] \in Tracker
    BY <1>1 DEF Tracker, TypeOK
  <2>2. [t EXCEPT !.due = now, !.arg.first = t.arg.second, !.arg.second = t.arg.first]
          \in Tracker
    BY <1>1 DEF Tracker, Args, TypeOK
  <2>. QED  BY <1>1, <1>3, <1>4, <1>5, <1>6, <1>7, <1>10, <2>1, <2>2, BecomesType
            DEF RunFade, TypeOK
<1>11. CASE RunPattern(s)
  <2>1. [t EXCEPT !.due = now] \in Tracker
    BY <1>1 DEF Tracker, TypeOK
  <2>. QED  BY <1>3, <1>4, <1>5, <1>6, <1>7, <1>11, <2>1, BecomesType
            DEF RunPattern, TypeOK
<1>12. CASE RunValue(s)
  <2>1. PICK v \in IF t.prog = "LEVEL_VALUE" THEN {level} ELSE Values :
          \/ v = t.phase /\ Quiet /\ UNCHANGED trackers
          \/ v # t.phase /\ Shows(s, s, v) /\ Becomes(s, [t EXCEPT !.phase = v])
    BY <1>12 DEF RunValue
  <2>2. v \in Values /\ v \in Nat
    BY DEF TypeOK
  <2>3. [t EXCEPT !.phase = v] \in Tracker
    BY <1>1, <2>2 DEF Tracker
  <2>4. sensorVars' = sensorVars
    BY <1>12 DEF RunValue
  <2>. QED  BY <1>3, <1>4, <1>5, <1>6, <1>7, <2>1, <2>2, <2>3, <2>4, BecomesType DEF TypeOK
<1>13. CASE RunSoundPixels(s)
  BY <1>3, <1>4, <1>5, <1>7, <1>13 DEF RunSoundPixels, TypeOK
<1>14. CASE RunSequence(s)
  <2>. DEFINE k == NextStep(t)
              cur == t.arg.steps[k]
              prev == t.arg.steps[t.phase].out
  <2>1. cur.value \in Values /\ cur.duration \in Nat
    BY <1>1, NextStepType DEF Args, Step
  <2>2. [t EXCEPT !.phase = k, !.due = After(now, cur.duration)] \in Tracker
    <3>1. k \in Nat /\ now + cur.duration \in Int
      BY <1>1, <2>1, NextStepType DEF TypeOK, Steps
    <3>2. After(now, cur.duration) \in Nat
      BY <3>1, ClockType DEF After
    <3>. HIDE DEF t, k, cur
    <3>. QED  BY <1>1, <3>1, <3>2, RetimedType
  <2>3. StepOutputs(prev, cur) \in [Outputs -> Values]
    BY <2>1 DEF StepOutputs, TypeOK
  <2>4. [o \in Outputs |-> IF o \in {prev, cur.out} /\ Colored(o) THEN s ELSE writer[o]]
          \in [Outputs -> 0 .. N + 1]
    BY DEF TypeOK, Slots
  <2>. QED  BY <1>3, <1>4, <1>6, <1>7, <1>14, <2>2, <2>3, <2>4, BecomesType
            DEF RunSequence, TypeOK
<1>15. CASE RunSensorData(s)
  BY <1>3, <1>7, <1>15 DEF RunSensorData, TypeOK
<1>. QED  BY <1>8, <1>9, <1>10, <1>11, <1>12, <1>13, <1>14, <1>15 DEF RunProgram

LEMMA MsgType ==
  ASSUME TypeOK, NEW r \in Requests,
         RejectMsg(r) \/ CancelMsg(r) \/ TrackerlessMsg(r) \/ InstallMsg(r)
  PROVE  TypeOK'
<1>. DEFINE S == Targets(r)
<1>1. /\ pc' \in {"check", "run", "update"} /\ slot' \in Slots /\ pins' \in [Outputs -> Values]
      /\ dirty' \in BOOLEAN /\ now' \in Nat /\ level' \in Levels /\ soundUpdated' \in BOOLEAN
  BY DEF RejectMsg, CancelMsg, TrackerlessMsg, InstallMsg, Received, TypeOK
<1>2. S \in SUBSET Slots
  BY TargetsType
<1>3. CASE RejectMsg(r)
  BY <1>1, <1>3 DEF RejectMsg, TypeOK
<1>4. CASE CancelMsg(r)
  BY <1>1, <1>2, <1>4, IdleType, DisownType DEF CancelMsg, TypeOK
<1>5. CASE TrackerlessMsg(r)
  BY <1>1, <1>5, RequestType DEF TrackerlessMsg, TypeOK, Direct
<1>6. CASE InstallMsg(r)
  <2>. DEFINE users == Users(S, r.program)
              old   == heap \ FreedBlocks(S)
              block == [s \in users |-> IF Stateful(r.program) THEN Fresh(s, old) ELSE NULL]
              lit   == {o \in Outputs : r.program = "SEQUENCE" /\ S # {} /\ Colored(o)
                                        /\ o = r.arg.steps[0].out}
  <2>1. \A s \in users : s \in Slots /\ block[s] \in Blocks \cup {NULL}
    BY <1>2 DEF Users, Fresh, Blocks
  <2>2. r.program \in Tracked /\ r.arg \in Args /\ r.arg.steps[0].value \in Values
    BY <1>6, RequestType DEF InstallMsg, Step
  <2>3. \A s \in users : Setup(r.program, block[s], r.arg) \in Tracker
    BY <2>1, <2>2, SetupType DEF TypeOK
  <2>4. trackers' \in [Slots -> Tracker]
    <3>1. trackers' = [s \in Slots |->
            IF s \in users THEN Setup(r.program, block[s], r.arg)
            ELSE IF s \in S THEN IdleTracker ELSE trackers[s]]
      BY <1>6 DEF InstallMsg
    <3>. HIDE DEF block, users
    <3>. QED  BY <2>3, <3>1, IdleType DEF TypeOK
  <2>5. heap' \subseteq Blocks
    <3>1. heap' = old \cup ({block[s] : s \in users} \ {NULL})
      BY <1>6 DEF InstallMsg
    <3>. HIDE DEF block, users
    <3>. QED  BY <2>1, <3>1 DEF TypeOK
  <2>6. out' \in [Outputs -> Values]
    <3>1. out' = [o \in Outputs |-> IF o \in lit THEN r.arg.steps[0].value ELSE out[o]]
      BY <1>6 DEF InstallMsg
    <3>. QED  BY <2>2, <3>1 DEF TypeOK
  <2>7. writer' \in [Outputs -> 0 .. N + 1]
    <3>1. PICK s \in S \cup {Direct} :
            writer' = [o \in Outputs |-> IF o \in lit THEN s ELSE Disown(S)[o]]
      BY <1>6 DEF InstallMsg
    <3>2. s \in 0 .. N + 1
      BY <1>2 DEF Slots, Direct
    <3>. QED  BY <1>2, <3>1, <3>2, DisownType
  <2>. QED  BY <1>1, <2>4, <2>5, <2>6, <2>7 DEF TypeOK
<1>. QED  BY <1>3, <1>4, <1>5, <1>6

LEMMA OtherType ==
  ASSUME TypeOK,
         \/ \E S \in SUBSET Outputs, v \in Values : SetOutputs(S, v)
         \/ SensorMsg \/ SetClock \/ StartRun \/ UpdateOutputs \/ Tick
         \/ \E s \in Slots : SkipIdle(s) \/ FreeDone(s)
  PROVE  TypeOK'
<1>1. ASSUME NEW S \in SUBSET Outputs, NEW v \in Values, SetOutputs(S, v) PROVE TypeOK'
  BY <1>1 DEF SetOutputs, TypeOK, Direct
<1>2. CASE SensorMsg
  BY <1>2 DEF SensorMsg, TypeOK
<1>3. CASE StartRun
  BY <1>3 DEF StartRun, TypeOK, Slots
<1>4. CASE UpdateOutputs
  BY <1>4 DEF UpdateOutputs, TypeOK
<1>5. CASE Tick
  <2>1. now + 1 \in Int
    BY DEF TypeOK
  <2>. QED  BY <1>5, <2>1, ClockType DEF Tick, TypeOK
<1>8. CASE SetClock
  BY <1>8 DEF SetClock, TypeOK
<1>6. ASSUME NEW s \in Slots, SkipIdle(s) PROVE TypeOK'
  BY <1>6, TurnType DEF SkipIdle, TypeOK
<1>7. ASSUME NEW s \in Slots, FreeDone(s) PROVE TypeOK'
  BY <1>7, TurnType, IdleType, DisownType DEF FreeDone, TypeOK
<1>. QED  BY <1>1, <1>2, <1>3, <1>4, <1>5, <1>6, <1>7, <1>8

LEMMA InitType == Init => TypeOK
<1>. SUFFICES ASSUME Init PROVE TypeOK
  OBVIOUS
<1>1. trackers \in [Slots -> Tracker] /\ 0 \in Slots /\ Direct \in 0 .. N + 1
  BY IdleType DEF Init, Slots, Direct
<1>. QED  BY <1>1 DEF Init, TypeOK

(* Types are preserved by every step.                                       *)
LEMMA StepType == TypeOK /\ [Next]_vars => TypeOK'
<1>. SUFFICES ASSUME TypeOK, [Next]_vars PROVE TypeOK'
  OBVIOUS
<1>1. CASE UNCHANGED vars
  BY <1>1 DEF vars, TypeOK
<1>2. CASE Msg
  <2>1. ASSUME NEW o \in Outputs, NEW v \in Values, SetOutputs({o}, v) PROVE TypeOK'
    BY <2>1, OtherType
  <2>. QED  BY <1>2, <2>1, MsgType, OtherType DEF Msg
<1>3. CASE Loop
  BY <1>3, RunProgramType, OtherType DEF Loop, Run
<1>4. CASE Tick
  BY <1>4, OtherType
<1>. QED  BY <1>1, <1>2, <1>3, <1>4 DEF Next

(* Types: in every reachable state of the program manager, whatever the     *)
(* requests, every variable has its type; in particular no program step     *)
(* leaves its array, and slot never passes the last tracker (run).          *)
THEOREM TypeCorrect == Spec => []TypeOK
  BY InitType, StepType, PTL DEF Spec

-----------------------------------------------------------------------------
(* A block is named by the tracker that asked for it: with this conjunct    *)
(* HeapMatchesTrackers is inductive, since a block that is freed for one    *)
(* tracker is then no block of another.                                     *)
BlocksNamed == \A s \in Owners : trackers[s].block \in {s} \X {0, 1}
HeapInv == TypeOK /\ HeapMatchesTrackers /\ BlocksNamed

(* Nothing that decides who owns a block changes.                           *)
SameOwners == /\ heap' = heap
              /\ \A s \in Slots : /\ trackers'[s].prog = trackers[s].prog
                                  /\ trackers'[s].dealloc = trackers[s].dealloc
                                  /\ trackers'[s].block = trackers[s].block

LEMMA SameOwnersKeepHeap ==
  ASSUME HeapInv, SameOwners, TypeOK' PROVE HeapInv'
<1>1. Owners' = Owners
  BY DEF Owners, Running, SameOwners
<1>2. \A s \in Owners : s \in Slots /\ trackers'[s].block = trackers[s].block
  BY DEF Owners, SameOwners
<1>3. {trackers[s].block : s \in Owners}' = {trackers[s].block : s \in Owners}
  BY <1>1, <1>2
<1>4. heap' = {trackers[s].block : s \in Owners}'
  BY <1>3 DEF HeapInv, HeapMatchesTrackers, SameOwners
<1>5. \A s \in Slots : Running(s)' /\ Stateful(trackers'[s].prog) => s \in Owners'
  BY <1>1 DEF HeapInv, HeapMatchesTrackers, SameOwners, Running
<1>6. \A s, t \in Owners' : trackers'[s].block = trackers'[t].block => s = t
  BY <1>1, <1>2 DEF HeapInv, HeapMatchesTrackers
<1>7. BlocksNamed'
  BY <1>1, <1>2 DEF HeapInv, BlocksNamed
<1>. QED  BY <1>4, <1>5, <1>6, <1>7 DEF HeapInv, HeapMatchesTrackers

(* The trackers S are freed, and those of U, a part of S, are used again.   *)
LEMMA ReuseKeepsHeap ==
  ASSUME HeapInv, TypeOK', NEW S \in SUBSET Slots, NEW U \in SUBSET S,
         \A s \in Slots \ S : trackers'[s] = trackers[s],
         \A s \in S \ U : trackers'[s] = IdleTracker,
         \A s \in U : IF Stateful(trackers'[s].prog)
                      THEN trackers'[s].dealloc /\ trackers'[s].block \in {s} \X {0, 1}
                      ELSE ~trackers'[s].dealloc,
         heap' = (heap \ FreedBlocks(S)) \cup {trackers'[s].block : s \in U \cap Owners'}
  PROVE  HeapInv'
<1>1. \A s \in Slots \ S : s \in Owners' <=> s \in Owners
  BY DEF Owners, Running
<1>2. \A s \in S \ U : s \notin Owners'
  BY DEF Owners, Running, IdleTracker
<1>3. BlocksNamed'
  <2>. SUFFICES ASSUME NEW s \in Owners' PROVE trackers'[s].block \in {s} \X {0, 1}
    BY DEF BlocksNamed
  <2>1. s \in Slots /\ trackers'[s].dealloc
    BY DEF Owners
  <2>2. CASE s \in U
    BY <2>1, <2>2
  <2>3. CASE s \notin U
    BY <1>1, <1>2, <2>1, <2>3 DEF HeapInv, BlocksNamed
  <2>. QED  BY <2>2, <2>3
<1>4. \A s, t \in Owners' : trackers'[s].block = trackers'[t].block => s = t
  BY <1>3 DEF BlocksNamed
<1>5. \A s \in Slots : Running(s)' /\ Stateful(trackers'[s].prog) => s \in Owners'
  <2>. SUFFICES ASSUME NEW s \in Slots, Running(s)', Stateful(trackers'[s].prog)
                PROVE  s \in Owners'
    OBVIOUS
  <2>1. CASE s \in U
    BY <2>1 DEF Owners
  <2>2. CASE s \in S \ U
    BY <2>2 DEF Running, IdleTracker
  <2>3. CASE s \notin S
    BY <1>1, <2>3 DEF HeapInv, HeapMatchesTrackers, Running
  <2>. QED  BY <2>1, <2>2, <2>3
<1>6. \A b \in heap' : \E s \in Owners' : b = trackers'[s].block
  <2>. SUFFICES ASSUME NEW b \in heap', b \in heap \ FreedBlocks(S)
                PROVE  \E s \in Owners' : b = trackers'[s].block
    OBVIOUS
  <2>1. PICK s \in Owners : b = trackers[s].block
    BY DEF HeapInv, HeapMatchesTrackers
  <2>2. b # NULL
    BY SizeAssumption DEF HeapInv, TypeOK
  <2>3. s \notin S
    BY <2>1, <2>2 DEF FreedBlocks, Owners
  <2>. QED  BY <1>1, <2>1, <2>3 DEF Owners
<1>7. \A s \in Owners' : trackers'[s].block \in heap'
  <2>. SUFFICES ASSUME NEW s \in Owners' PROVE trackers'[s].block \in heap'
    OBVIOUS
  <2>1. CASE s \in U
    BY <2>1
  <2>2. CASE s \notin U
    <3>1. s \in Slots \ S /\ s \in Owners /\ trackers'[s] = trackers[s]
      BY <1>1, <1>2, <2>2 DEF Owners
    <3>2. trackers[s].block \in heap
      BY <3>1 DEF HeapInv, HeapMatchesTrackers
    <3>3. \A t \in S : Running(t) /\ trackers[t].dealloc
                       => trackers[t].block # trackers[s].block
      BY <3>1 DEF HeapInv, HeapMatchesTrackers, Owners
    <3>4. trackers[s].block \notin FreedBlocks(S)
      BY <3>3 DEF FreedBlocks
    <3>. QED  BY <3>1, <3>2, <3>4
  <2>. QED  BY <2>1, <2>2
<1>8. heap' = {trackers[s].block : s \in Owners}'
  BY <1>6, <1>7
<1>. QED  BY <1>3, <1>4, <1>5, <1>8 DEF HeapInv, HeapMatchesTrackers

(* A program that runs changes what it does next, never what it is or where *)
(* its state lies; and only a timed change and a fade report that they are  *)
(* done.                                                                    *)
LEMMA RunProgramKeeps ==
  ASSUME TypeOK, NEW s \in Slots, RunProgram(s)
  PROVE  /\ SameOwners
         /\ \A x \in Slots : trackers'[x].done
              => trackers[x].done \/ trackers[x].prog \in {"TIMED_CHANGE", "FADE"}
<1>. DEFINE t == trackers[s]
            Keeps(u) == /\ u.prog = t.prog /\ u.dealloc = t.dealloc /\ u.block = t.block
                        /\ u.done => t.done \/ t.prog \in {"TIMED_CHANGE", "FADE"}
<1>1. heap' = heap
  BY DEF RunProgram, RunBlink, RunTimedChange, RunFade, RunPattern, RunValue,
         RunSoundPixels, RunSequence, RunSensorData, Call
<1>2. trackers' = trackers \/ \E u : Becomes(s, u) /\ Keeps(u)
  <2>0. t \in Tracker
    BY DEF TypeOK
  <2>9. \A x, y : Keeps([t EXCEPT !.phase = x, !.due = y])
    BY <2>0 DEF Tracker
  <2>1. CASE RunBlink(s)
    <3>1. \/ trackers' = trackers
          \/ \E x, y : Becomes(s, [t EXCEPT !.phase = x, !.due = y])
      BY <2>1 DEF RunBlink
    <3>. QED  BY <2>9, <3>1
  <2>2. CASE RunTimedChange(s)
    BY <2>0, <2>2 DEF RunTimedChange, Call, Tracker
  <2>3. CASE RunFade(s)
    BY <2>0, <2>3 DEF RunFade, Call, Tracker
  <2>4. CASE RunPattern(s)
    BY <2>0, <2>4 DEF RunPattern, Tracker
  <2>5. CASE RunValue(s)
    BY <2>0, <2>5 DEF RunValue, Tracker
  <2>6. CASE RunSoundPixels(s)
    BY <2>6 DEF RunSoundPixels
  <2>7. CASE RunSequence(s)
    <3>1. \/ trackers' = trackers
          \/ \E x, y : Becomes(s, [t EXCEPT !.phase = x, !.due = y])
      BY <2>7 DEF RunSequence
    <3>. QED  BY <2>9, <3>1
  <2>8. CASE RunSensorData(s)
    BY <2>8 DEF RunSensorData
  <2>. QED  BY <2>1, <2>2, <2>3, <2>4, <2>5, <2>6, <2>7, <2>8 DEF RunProgram
<1>3. CASE trackers' = trackers
  BY <1>1, <1>3 DEF SameOwners
<1>4. ASSUME NEW u, Becomes(s, u), Keeps(u)
      PROVE  \A x \in Slots : trackers'[x] = IF x = s THEN u ELSE trackers[x]
  BY <1>4 DEF Becomes, TypeOK
<1>. QED  BY <1>1, <1>2, <1>3, <1>4 DEF SameOwners

LEMMA FreeingKeepsHeap ==
  ASSUME HeapInv, TypeOK', NEW S \in SUBSET Slots,
         trackers' = [s \in Slots |-> IF s \in S THEN IdleTracker ELSE trackers[s]],
         heap' = heap \ FreedBlocks(S)
  PROVE  HeapInv'
<1>. DEFINE U == {}
<1>1. heap' = (heap \ FreedBlocks(S)) \cup {trackers'[s].block : s \in U \cap Owners'}
  OBVIOUS
<1>2. U \in SUBSET S /\ \A s \in Slots : trackers'[s] = IF s \in S THEN IdleTracker
                                                        ELSE trackers[s]
  OBVIOUS
<1>3. /\ \A s \in Slots \ S : trackers'[s] = trackers[s]
      /\ \A s \in S \ U : trackers'[s] = IdleTracker
  BY <1>2
<1>4. \A s \in U : IF Stateful(trackers'[s].prog)
                   THEN trackers'[s].dealloc /\ trackers'[s].block \in {s} \X {0, 1}
                   ELSE ~trackers'[s].dealloc
  OBVIOUS
<1>. HIDE DEF U
<1>. QED  BY <1>1, <1>2, <1>3, <1>4, ReuseKeepsHeap

LEMMA InstallKeepsHeap ==
  ASSUME HeapInv, TypeOK', NEW r \in Requests, InstallMsg(r)
  PROVE  HeapInv'
<1>. DEFINE S     == Targets(r)
            users == Users(S, r.program)
            old   == heap \ FreedBlocks(S)
            block == [s \in users |-> IF Stateful(r.program) THEN Fresh(s, old) ELSE NULL]
<1>1. S \in SUBSET Slots /\ users \in SUBSET S
  BY TargetsType DEF Users
<1>2. r.program \in Tracked
  BY DEF InstallMsg
<1>3. \A s \in Slots : trackers'[s] = IF s \in users THEN Setup(r.program, block[s], r.arg)
                       ELSE IF s \in S THEN IdleTracker ELSE trackers[s]
  BY DEF InstallMsg
<1>4. heap' = old \cup ({block[s] : s \in users} \ {NULL})
  BY DEF InstallMsg
<1>5. \A s \in users : /\ trackers'[s].prog = r.program
                       /\ trackers'[s].dealloc = Stateful(r.program)
                       /\ trackers'[s].block = block[s]
  <2>. SUFFICES ASSUME NEW s \in users
                PROVE  /\ trackers'[s].prog = r.program
                       /\ trackers'[s].dealloc = Stateful(r.program)
                       /\ trackers'[s].block = block[s]
    OBVIOUS
  <2>. HIDE DEF users, block
  <2>1. trackers'[s] = Setup(r.program, block[s], r.arg)
    BY <1>1, <1>3
  <2>. QED  BY <2>1 DEF Setup
<1>6. \A s \in users : block[s] = IF Stateful(r.program) THEN Fresh(s, old) ELSE NULL
  OBVIOUS
<1>7. \A s \in users : Stateful(r.program) => block[s] \in {s} \X {0, 1} /\ block[s] # NULL
  BY <1>1, <1>6 DEF Fresh, Blocks
<1>. HIDE DEF users, block
<1>8. \A s \in users : s \in Owners' <=> Stateful(r.program)
  BY <1>1, <1>2, <1>5 DEF Owners, Running, Tracked, ColorPrograms, PixelPrograms,
                          FreePrograms, NO_PROGRAM
<1>9. {block[s] : s \in users} \ {NULL} = {trackers'[s].block : s \in users \cap Owners'}
  BY <1>5, <1>6, <1>7, <1>8
<1>10. \A s \in users : IF Stateful(trackers'[s].prog)
                        THEN trackers'[s].dealloc /\ trackers'[s].block \in {s} \X {0, 1}
                        ELSE ~trackers'[s].dealloc
  BY <1>5, <1>7
<1>11. /\ \A s \in Slots \ S : trackers'[s] = trackers[s]
       /\ \A s \in S \ users : trackers'[s] = IdleTracker
  BY <1>1, <1>3
<1>. QED  BY <1>1, <1>4, <1>9, <1>10, <1>11, ReuseKeepsHeap

(* Memory: for every number of outputs and all requests, the states malloc  *)
(* gave out are exactly those of the running programs, one each             *)
(* (free_tracker, get_program_state).                                       *)
THEOREM HeapCorrect == Spec => []HeapMatchesTrackers
<1>1. Init => HeapInv
  <2>. SUFFICES ASSUME Init PROVE HeapInv
    OBVIOUS
  <2>1. Owners = {}
    BY DEF Init, Owners, Running, IdleTracker
  <2>2. \A s \in Slots : ~Running(s)
    BY DEF Init, Running, IdleTracker
  <2>. QED  BY <2>1, <2>2, InitType DEF Init, HeapInv, HeapMatchesTrackers, BlocksNamed
<1>2. HeapInv /\ [Next]_vars => HeapInv'
  <2>. SUFFICES ASSUME HeapInv, [Next]_vars PROVE HeapInv'
    OBVIOUS
  <2>. USE StepType DEF HeapInv
  <2>1. CASE heap' = heap /\ trackers' = trackers
    BY <2>1, SameOwnersKeepHeap DEF SameOwners
  <2>2. ASSUME NEW s \in Slots, RunProgram(s) PROVE HeapInv'
    BY <2>2, RunProgramKeeps, SameOwnersKeepHeap
  <2>3. ASSUME NEW s \in Slots, FreeDone(s) PROVE HeapInv'
    <3>1. trackers' = [x \in Slots |-> IF x \in {s} THEN IdleTracker ELSE trackers[x]]
          /\ heap' = heap \ FreedBlocks({s})
      BY <2>3 DEF FreeDone, TypeOK
    <3>. QED  BY <3>1, FreeingKeepsHeap
  <2>4. ASSUME NEW r \in Requests, CancelMsg(r) PROVE HeapInv'
    BY <2>4, TargetsType, FreeingKeepsHeap DEF CancelMsg
  <2>5. ASSUME NEW r \in Requests, InstallMsg(r) PROVE HeapInv'
    BY <2>5, InstallKeepsHeap
  <2>6. \/ heap' = heap /\ trackers' = trackers
        \/ \E s \in Slots : RunProgram(s) \/ FreeDone(s)
        \/ \E r \in Requests : CancelMsg(r) \/ InstallMsg(r)
    BY DEF Next, Msg, Loop, Run, RejectMsg, TrackerlessMsg, SetOutputs, SensorMsg, SetClock, StartRun,
           SkipIdle, UpdateOutputs, Tick, vars
  <2>. QED  BY <2>1, <2>2, <2>3, <2>4, <2>5, <2>6
<1>. QED  BY <1>1, <1>2, PTL DEF Spec, HeapInv

-----------------------------------------------------------------------------
(* What a slot runs, step by step. Done trackers hold finite programs: this *)
(* is what makes releasing them a Complete step of the abstract module.     *)
DoneIsFinite == \A s \in Slots : trackers[s].done =>
                  trackers[s].prog \in {"TIMED_CHANGE", "FADE"}
SlotInv == TypeOK /\ ProgramFitsOutput /\ DoneIsFinite

RunningProg == [s \in Slots |-> trackers[s].prog]
Phase       == IF pc = "check" THEN "messages" ELSE "turns"

LEMMA InitSlots == Init => SlotInv /\ SlotPrograms!Init
<1>. SUFFICES ASSUME Init PROVE SlotInv /\ SlotPrograms!Init
  OBVIOUS
<1>1. pc = "check" /\ \A s \in Slots : trackers[s] = IdleTracker
  BY DEF Init
<1>. QED  BY <1>1, InitType DEF SlotInv, ProgramFitsOutput, DoneIsFinite, Running,
                              IdleTracker, SlotPrograms!Init

(* The steps that leave every slot's program as it is.                      *)
LEMMA SameProgramsKeep ==
  ASSUME SlotInv, TypeOK',
         \A s \in Slots : /\ trackers'[s].prog = trackers[s].prog
                          /\ trackers'[s].done => trackers[s].done
                               \/ trackers[s].prog \in {"TIMED_CHANGE", "FADE"}
  PROVE  SlotInv' /\ RunningProg' = RunningProg
  BY DEF SlotInv, ProgramFitsOutput, DoneIsFinite, Running, RunningProg

LEMMA FreeingSlots ==
  ASSUME SlotInv, TypeOK', NEW S \in SUBSET Slots,
         \A s \in Slots : trackers'[s] = IF s \in S THEN IdleTracker ELSE trackers[s]
  PROVE  /\ SlotInv'
         /\ RunningProg' = [s \in Slots |-> IF s \in S THEN NO_PROGRAM ELSE RunningProg[s]]
  BY DEF SlotInv, ProgramFitsOutput, DoneIsFinite, Running, RunningProg, IdleTracker

LEMMA InstallSlots ==
  ASSUME SlotInv, TypeOK', NEW r \in Requests, InstallMsg(r)
  PROVE  /\ SlotInv'
         /\ RunningProg' = [s \in Slots |->
              IF s \notin Targets(r) THEN RunningProg[s]
              ELSE IF Accepts(s, r.program) THEN r.program ELSE NO_PROGRAM]
<1>. DEFINE S     == Targets(r)
            users == Users(S, r.program)
            old   == heap \ FreedBlocks(S)
            block == [s \in users |-> IF Stateful(r.program) THEN Fresh(s, old) ELSE NULL]
<1>1. \A s \in Slots : trackers'[s] = IF s \in users THEN Setup(r.program, block[s], r.arg)
                       ELSE IF s \in S THEN IdleTracker ELSE trackers[s]
  BY DEF InstallMsg
<1>2. \A s : s \in users <=> s \in S /\ Accepts(s, r.program)
  BY DEF Users
<1>. HIDE DEF users, block, S
<1>3. \A s \in Slots :
        /\ trackers'[s].prog = IF s \in users THEN r.program
                               ELSE IF s \in S THEN NO_PROGRAM ELSE trackers[s].prog
        /\ trackers'[s].done => s \notin S /\ trackers[s].done
  <2>1. \A p, b, a : Setup(p, b, a).prog = p /\ Setup(p, b, a).done = FALSE
    BY DEF Setup
  <2>2. IdleTracker.prog = NO_PROGRAM /\ IdleTracker.done = FALSE
    BY DEF IdleTracker
  <2>. QED  BY <1>1, <1>2, <2>1, <2>2
<1>4. SlotInv'
  BY <1>2, <1>3 DEF SlotInv, ProgramFitsOutput, DoneIsFinite, Running
<1>5. RunningProg' = [s \in Slots |->
              IF s \notin S THEN RunningProg[s]
              ELSE IF Accepts(s, r.program) THEN r.program ELSE NO_PROGRAM]
  BY <1>2, <1>3 DEF RunningProg
<1>. QED  BY <1>4, <1>5 DEF S

(* Every step of the manager is a step of the slots, or changes none.       *)
LEMMA StepSlots ==
  ASSUME SlotInv, [Next]_vars
  PROVE  SlotInv' /\ [SlotPrograms!Next]_<<RunningProg, Phase>>
<1>. USE StepType DEF SlotInv
<1>1. ASSUME trackers' = trackers
      PROVE  SlotInv' /\ (SlotPrograms!Switch \/ UNCHANGED <<RunningProg, Phase>>)
  <2>1. SlotInv' /\ RunningProg' = RunningProg
    BY <1>1, SameProgramsKeep
  <2>2. Phase' = Phase \/ Phase' = IF Phase = "turns" THEN "messages" ELSE "turns"
    BY DEF Phase
  <2>. QED  BY <2>1, <2>2 DEF SlotPrograms!Switch, RunningProg, Phase
<1>2. ASSUME NEW s \in Slots, RunProgram(s)
      PROVE  SlotInv' /\ UNCHANGED <<RunningProg, Phase>>
  <2>1. SlotInv' /\ RunningProg' = RunningProg
    BY <1>2, RunProgramKeeps, SameProgramsKeep DEF SameOwners
  <2>2. pc = "run" /\ pc' \in {"run", "update"}
    BY <1>2 DEF RunProgram, RunBlink, RunTimedChange, RunFade, RunPattern, RunValue,
                RunSoundPixels, RunSequence, RunSensorData, Call, Turn
  <2>. QED  BY <2>1, <2>2 DEF Phase
<1>3. ASSUME NEW s \in Slots, FreeDone(s) PROVE SlotInv' /\ SlotPrograms!Complete(s)
  <2>1. \A x \in Slots : trackers'[x] = IF x \in {s} THEN IdleTracker ELSE trackers[x]
    BY <1>3 DEF FreeDone, TypeOK
  <2>2. SlotInv' /\ RunningProg' = [x \in Slots |-> IF x \in {s} THEN NO_PROGRAM
                                                    ELSE RunningProg[x]]
    BY <2>1, FreeingSlots
  <2>3. RunningProg[s] \in {"TIMED_CHANGE", "FADE"}
    BY <1>3 DEF FreeDone, DoneIsFinite, RunningProg
  <2>4. pc = "run" /\ pc' \in {"run", "update"}
    BY <1>3 DEF FreeDone, Turn
  <2>. QED  BY <2>2, <2>3, <2>4 DEF SlotPrograms!Complete, RunningProg
<1>4. ASSUME NEW r \in Requests, CancelMsg(r)
      PROVE  SlotInv' /\ \E S \in SUBSET Slots : SlotPrograms!Cancel(S)
  <2>1. \A x \in Slots : trackers'[x] = IF x \in Targets(r) THEN IdleTracker ELSE trackers[x]
    BY <1>4 DEF CancelMsg
  <2>2. SlotInv' /\ RunningProg' = [x \in Slots |-> IF x \in Targets(r) THEN NO_PROGRAM
                                                    ELSE RunningProg[x]]
    BY <2>1, FreeingSlots, TargetsType
  <2>3. pc = "check" /\ pc' = pc
    BY <1>4 DEF CancelMsg, Received
  <2>. QED  BY <2>2, <2>3, TargetsType DEF SlotPrograms!Cancel, RunningProg
<1>5. ASSUME NEW r \in Requests, InstallMsg(r)
      PROVE  SlotInv' /\ \E S \in SUBSET Slots, p \in Tracked : SlotPrograms!Start(S, p)
  <2>1. r.program \in Tracked /\ Targets(r) \in SUBSET Slots
    BY <1>5, TargetsType DEF InstallMsg
  <2>2. \A s \in Slots : Accepts(s, r.program) <=>
          <<s, r.program>> \in {f \in Slots \X Tracked : Accepts(f[1], f[2])}
    BY <2>1
  <2>3. SlotPrograms!Start(Targets(r), r.program)
    <3>1. pc = "check" /\ pc' = pc
      BY <1>5 DEF InstallMsg, Received
    <3>. QED  BY <1>5, <2>2, <3>1, InstallSlots DEF SlotPrograms!Start, RunningProg
  <2>. QED  BY <1>5, <2>1, <2>3, InstallSlots
<1>6. \/ trackers' = trackers
      \/ \E s \in Slots : RunProgram(s) \/ FreeDone(s)
      \/ \E r \in Requests : CancelMsg(r) \/ InstallMsg(r)
  BY DEF Next, Msg, Loop, Run, RejectMsg, TrackerlessMsg, SetOutputs, SensorMsg, SetClock, StartRun,
         SkipIdle, UpdateOutputs, Tick, vars
<1>. QED  BY <1>1, <1>2, <1>3, <1>4, <1>5, <1>6 DEF SlotPrograms!Next

(* A program runs only on an output its setup accepts, whatever messages    *)
(* come: run() may cast the output's object to what the program expects.    *)
THEOREM FitsCorrect == Spec => []ProgramFitsOutput
<1>1. SlotInv /\ [Next]_vars => SlotInv'
  BY StepSlots
<1>2. SlotInv => ProgramFitsOutput
  BY DEF SlotInv
<1>. QED  BY <1>1, <1>2, InitSlots, PTL DEF Spec

(* Refinement: the manager implements the slots of SlotLifecycle. A program *)
(* enters a slot only by a message and if it fits, and in run() only a      *)
(* timed change or a fade leaves one.                                       *)
THEOREM Refinement == Spec => ImplementsSlots
<1>1. SlotInv /\ [Next]_vars => SlotInv' /\ [SlotPrograms!Next]_<<RunningProg, Phase>>
  BY StepSlots
<1>. QED  BY <1>1, InitSlots, PTL DEF Spec, ImplementsSlots, SlotPrograms!Spec, RunningProg, Phase

-----------------------------------------------------------------------------
(* What the hardware shows. Every step either reports a change, or leaves   *)
(* values and pins alone, or copies the values to the pins.                 *)
LEMMA ReportedSteps ==
  ASSUME [Next]_vars
  PROVE  \/ dirty' = TRUE
         \/ out' = out /\ pins' = pins /\ (dirty => dirty')
         \/ UpdateOutputs
<1>1. ASSUME NEW s \in Slots, RunProgram(s)
      PROVE  \/ dirty' = TRUE
             \/ out' = out /\ pins' = pins /\ dirty' = dirty
  <2>1. pins' = pins
    BY <1>1 DEF RunProgram, RunBlink, RunTimedChange, RunFade, RunPattern, RunValue,
                RunSoundPixels, RunSequence, RunSensorData, Call, Turn
  <2>2. \/ Quiet \/ \E v : Shows(s, s, v)
        \/ RunSequence(s) \/ RunSensorData(s)
    BY <1>1 DEF RunProgram, RunBlink, RunTimedChange, RunFade, RunPattern, RunValue,
                RunSoundPixels
  <2>3. CASE RunSequence(s)
    BY <2>1, <2>3 DEF RunSequence, Quiet
  <2>4. CASE RunSensorData(s)
    BY <2>1, <2>4 DEF RunSensorData
  <2>. QED  BY <2>1, <2>2, <2>3, <2>4 DEF Quiet, Shows
<1>2. ASSUME NEW r \in Requests,
             RejectMsg(r) \/ CancelMsg(r) \/ TrackerlessMsg(r) \/ InstallMsg(r)
      PROVE  dirty' = TRUE
  BY <1>2 DEF RejectMsg, CancelMsg, TrackerlessMsg, InstallMsg, Received
<1>3. ASSUME NEW S, NEW v, SetOutputs(S, v) PROVE dirty' = TRUE
  BY <1>3 DEF SetOutputs
<1>4. ASSUME \/ UNCHANGED vars \/ SensorMsg \/ SetClock \/ StartRun \/ Tick
             \/ \E s \in Slots : SkipIdle(s) \/ FreeDone(s)
      PROVE  out' = out /\ pins' = pins /\ dirty' = dirty
  BY <1>4 DEF vars, SensorMsg, SetClock, StartRun, Tick, SkipIdle, FreeDone, Turn
<1>. QED  BY <1>1, <1>2, <1>3, <1>4 DEF Next, Msg, Loop, Run

(* Every change of a value reaches the hardware: with no change left to     *)
(* report, the pins show the values (loop, hmtl_update_output).             *)
THEOREM PinsCorrect == Spec => []PinsCurrent
<1>1. Init => PinsCurrent
  BY DEF Init, PinsCurrent
<1>2. PinsCurrent /\ [Next]_vars => PinsCurrent'
  <2>. SUFFICES ASSUME PinsCurrent, [Next]_vars, ~dirty' PROVE PinsCurrent'
    BY DEF PinsCurrent
  <2>1. CASE UpdateOutputs
    BY <2>1 DEF UpdateOutputs, PinsCurrent, Colored
  <2>2. CASE out' = out /\ pins' = pins /\ (dirty => dirty')
    BY <2>2 DEF PinsCurrent, Colored
  <2>. QED  BY <2>1, <2>2, ReportedSteps
<1>. QED  BY <1>1, <1>2, PTL DEF Spec

-----------------------------------------------------------------------------
(* What a timed change shows. For an output o that nobody else wrote, one   *)
(* of three things holds of a step.                                         *)
ShownInv == TypeOK /\ TimedChangeShowsItsValue

Untouched(o) == /\ trackers'[o] = trackers[o]
                /\ writer'[o] = o => writer[o] = o /\ out'[o] = out[o]

LEMMA ShownStep ==
  ASSUME ShownInv, [Next]_vars, NEW o \in Outputs
  PROVE  \/ Untouched(o)
         \/ trackers'[o].prog = "TIMED_CHANGE" /\ writer'[o] = o
            => out'[o] = IF trackers'[o].done THEN trackers'[o].arg.second
                         ELSE trackers'[o].arg.first
<1>. DEFINE Right == trackers'[o].prog = "TIMED_CHANGE" /\ writer'[o] = o
              => out'[o] = IF trackers'[o].done THEN trackers'[o].arg.second
                           ELSE trackers'[o].arg.first
<1>0. o \in Slots /\ o # Direct /\ trackers[o] \in Tracker
  BY DEF Outputs, Slots, Direct, ShownInv, TypeOK
<1>1. CASE trackers' = trackers /\ out' = out /\ writer' = writer
  BY <1>1 DEF Untouched
<1>2. ASSUME NEW S, NEW v, SetOutputs(S, v) PROVE Untouched(o)
  BY <1>0, <1>2 DEF SetOutputs, Untouched
<1>3. ASSUME NEW r \in Requests, TrackerlessMsg(r) PROVE Untouched(o)
  BY <1>0, <1>3 DEF TrackerlessMsg, Untouched
<1>4. ASSUME NEW S, out' = out, writer' = Disown(S),
             \A s \in Slots : trackers'[s] = IF s \in S THEN IdleTracker ELSE trackers[s]
      PROVE  Untouched(o) \/ Right
  BY <1>0, <1>4 DEF Disown, Untouched, IdleTracker, NO_PROGRAM
<1>5. ASSUME NEW r \in Requests, CancelMsg(r) PROVE Untouched(o) \/ Right
  BY <1>4, <1>5 DEF CancelMsg
<1>6. ASSUME NEW s \in Slots, FreeDone(s) PROVE Untouched(o) \/ Right
  <2>1. \A x \in Slots : trackers'[x] = IF x \in {s} THEN IdleTracker ELSE trackers[x]
    BY <1>6 DEF FreeDone, ShownInv, TypeOK
  <2>. QED  BY <1>4, <1>6, <2>1 DEF FreeDone
<1>7. ASSUME NEW r \in Requests, InstallMsg(r) PROVE Untouched(o) \/ Right
  <2>. DEFINE S     == Targets(r)
              users == Users(S, r.program)
              old   == heap \ FreedBlocks(S)
              block == [s \in users |-> IF Stateful(r.program) THEN Fresh(s, old) ELSE NULL]
              lit   == {x \in Outputs : r.program = "SEQUENCE" /\ S # {} /\ Colored(x)
                                        /\ x = r.arg.steps[0].out}
  <2>1. \A s \in Slots : trackers'[s] = IF s \in users THEN Setup(r.program, block[s], r.arg)
                         ELSE IF s \in S THEN IdleTracker ELSE trackers[s]
    BY <1>7 DEF InstallMsg
  <2>2. out' = [x \in Outputs |-> IF x \in lit THEN r.arg.steps[0].value ELSE out[x]]
    BY <1>7 DEF InstallMsg
  <2>3. PICK w \in S \cup {Direct} :
          /\ lit # {} => w \in S
          /\ writer' = [x \in Outputs |-> IF x \in lit THEN w ELSE Disown(S)[x]]
    BY <1>7 DEF InstallMsg
  <2>4. users \in SUBSET S /\ (lit # {} => r.program = "SEQUENCE")
    BY DEF Users
  <2>5. \A p, b, a : Setup(p, b, a).prog = p
    BY DEF Setup
  <2>6. IdleTracker.prog # "TIMED_CHANGE"
    BY DEF IdleTracker, NO_PROGRAM
  <2>7. Disown(S)[o] = IF writer[o] \in S THEN Direct ELSE writer[o]
    BY DEF Disown
  <2>. HIDE DEF S, users, block, lit
  <2>8. CASE o \in lit
    <3>1. r.program = "SEQUENCE" /\ writer'[o] = w /\ w \in S
      BY <2>3, <2>4, <2>8
    <3>2. CASE o \in S
      BY <1>0, <2>1, <2>5, <2>6, <3>1, <3>2
    <3>3. CASE o \notin S
      BY <1>0, <2>1, <2>4, <3>1, <3>3 DEF Untouched
    <3>. QED  BY <3>2, <3>3
  <2>9. CASE o \notin lit
    <3>1. out'[o] = out[o] /\ writer'[o] = IF writer[o] \in S THEN Direct ELSE writer[o]
      BY <2>2, <2>3, <2>7, <2>9
    <3>2. CASE o \in S
      BY <1>0, <3>1, <3>2
    <3>3. CASE o \notin S
      BY <1>0, <2>1, <2>4, <3>1, <3>3 DEF Untouched
    <3>. QED  BY <3>2, <3>3
  <2>. QED  BY <2>8, <2>9
<1>8. ASSUME NEW s \in Slots, RunTimedChange(s) PROVE Untouched(o) \/ Right
  <2>. DEFINE t == trackers[s]
              over == now > ChangeTime(t)
              u == [t EXCEPT !.due = ChangeTime(t), !.done = over]
  <2>1. CASE Quiet /\ UNCHANGED trackers
    BY <1>1, <2>1 DEF Quiet
  <2>2. CASE Shows(s, s, Shown(t.arg, over)) /\ Becomes(s, u)
    <3>1. \A x \in Slots : trackers'[x] = IF x = s THEN u ELSE trackers[x]
      BY <2>2 DEF Becomes, ShownInv, TypeOK
    <3>2. \A x \in Outputs : /\ out'[x] = IF x = s THEN Shown(t.arg, over) ELSE out[x]
                             /\ writer'[x] = IF x = s THEN s ELSE writer[x]
      BY <2>2 DEF Shows, ShownInv, TypeOK
    <3>3. u.done = over /\ u.arg = t.arg
      BY <1>0 DEF ShownInv, TypeOK, Tracker
    <3>. HIDE DEF u, over
    <3>. QED  BY <1>0, <3>1, <3>2, <3>3 DEF Untouched, Shown
  <2>. QED  BY <1>8, <2>1, <2>2 DEF RunTimedChange
<1>9. ASSUME NEW s \in Slots, RunProgram(s), ~RunTimedChange(s)
      PROVE  Untouched(o) \/ Right
  <2>1. trackers[s].prog # "TIMED_CHANGE"
    BY <1>9 DEF RunProgram, RunBlink, RunFade, RunPattern, RunValue, RunSoundPixels,
                RunSequence, RunSensorData, Call
  <2>2. trackers'[s].prog = trackers[s].prog
    BY <1>9, RunProgramKeeps DEF ShownInv, SameOwners
  <2>3. CASE o = s
    BY <2>1, <2>2, <2>3
  <2>4. CASE o # s
    <3>1. trackers'[o] = trackers[o]
      BY <1>0, <1>9, <2>4 DEF RunProgram, RunBlink, RunFade, RunPattern, RunValue,
         RunSoundPixels, RunSequence, RunSensorData, Becomes, ShownInv, TypeOK
    <3>2. ASSUME NEW v, Shows(s, s, v) PROVE writer'[o] = writer[o] /\ out'[o] = out[o]
      BY <2>4, <3>2 DEF Shows, ShownInv, TypeOK
    <3>3. ASSUME Quiet PROVE writer'[o] = writer[o] /\ out'[o] = out[o]
      BY <3>3 DEF Quiet
    <3>4. CASE RunSequence(s)
      BY <2>4, <3>1, <3>3, <3>4 DEF RunSequence, StepOutputs, Untouched
    <3>5. CASE RunSensorData(s)
      BY <3>1, <3>5 DEF RunSensorData, Untouched
    <3>6. CASE RunBlink(s) \/ RunFade(s) \/ RunPattern(s) \/ RunValue(s) \/ RunSoundPixels(s)
      <4>1. Quiet \/ \E v : Shows(s, s, v)
        BY <3>6 DEF RunBlink, RunFade, RunPattern, RunValue, RunSoundPixels
      <4>. QED  BY <3>1, <3>2, <3>3, <4>1 DEF Untouched
    <3>. QED  BY <1>9, <3>4, <3>5, <3>6 DEF RunProgram
  <2>. QED  BY <2>3, <2>4
<1>10. \/ trackers' = trackers /\ out' = out /\ writer' = writer
       \/ \E S, v : SetOutputs(S, v)
       \/ \E r \in Requests : TrackerlessMsg(r) \/ CancelMsg(r) \/ InstallMsg(r)
       \/ \E s \in Slots : RunProgram(s) \/ FreeDone(s)
  BY DEF Next, Msg, Loop, Run, RejectMsg, SensorMsg, SetClock, StartRun, SkipIdle,
         UpdateOutputs, Tick, vars
<1>. QED  BY <1>1, <1>2, <1>3, <1>5, <1>6, <1>7, <1>8, <1>9, <1>10

(* A timed change shows its start value until it is done and its stop value *)
(* from then on, as long as nobody else writes its output: for all clocks,  *)
(* also those that wrap or are set back (program_timed_change).             *)
THEOREM TimedChangeCorrect == Spec => []TimedChangeShowsItsValue
<1>1. Init => ShownInv
  <2>1. ASSUME Init PROVE \A s \in Slots : trackers[s].prog # "TIMED_CHANGE"
    BY <2>1 DEF Init, IdleTracker, NO_PROGRAM
  <2>2. Outputs \subseteq Slots
    BY DEF Outputs, Slots
  <2>. QED  BY <2>1, <2>2, InitType DEF ShownInv, TimedChangeShowsItsValue
<1>2. ShownInv /\ [Next]_vars => ShownInv'
  <2>. SUFFICES ASSUME ShownInv, [Next]_vars PROVE TimedChangeShowsItsValue'
    BY StepType DEF ShownInv
  <2>. SUFFICES ASSUME NEW o \in Outputs,
                       trackers'[o].prog = "TIMED_CHANGE" /\ writer'[o] = o
                PROVE  out'[o] = IF trackers'[o].done THEN trackers'[o].arg.second
                                 ELSE trackers'[o].arg.first
    BY DEF TimedChangeShowsItsValue
  <2>1. CASE Untouched(o)
    BY <2>1 DEF Untouched, ShownInv, TimedChangeShowsItsValue
  <2>. QED  BY <2>1, ShownStep
<1>. QED  BY <1>1, <1>2, PTL DEF Spec, ShownInv

-----------------------------------------------------------------------------
(* What a sequence lights. It writes only outputs that have a colour, so    *)
(* that turning a step over does clear the one before it: without this      *)
(* conjunct SequenceLightsOneStep is not inductive.                         *)
Lit(s, o) == trackers[s].prog = "SEQUENCE" /\ writer[o] = s =>
               /\ Colored(o)
               /\ out[o] # 0 => o = trackers[s].arg.steps[trackers[s].phase].out
SequenceInv == TypeOK /\ \A s \in Slots, o \in Outputs : Lit(s, o)

(* The step takes no output o for the sequence of s, and changes none of it.*)
LeftAlone(s, o) == trackers'[s].prog = "SEQUENCE" /\ writer'[o] = s =>
                     /\ trackers[s] = trackers'[s]
                     /\ writer[o] = s /\ out'[o] = out[o]

(* A message lights the first step for the last sequence it starts.         *)
LEMMA InstallLights ==
  ASSUME SequenceInv, NEW r \in Requests, InstallMsg(r),
         NEW s \in Slots, NEW o \in Outputs
  PROVE  LeftAlone(s, o) \/ Lit(s, o)'
<1>. DEFINE S     == Targets(r)
            users == Users(S, r.program)
            old   == heap \ FreedBlocks(S)
            block == [x \in users |-> IF Stateful(r.program) THEN Fresh(x, old) ELSE NULL]
            lit   == {x \in Outputs : r.program = "SEQUENCE" /\ S # {} /\ Colored(x)
                                      /\ x = r.arg.steps[0].out}
<1>1. trackers'[s] = IF s \in users THEN Setup(r.program, block[s], r.arg)
                     ELSE IF s \in S THEN IdleTracker ELSE trackers[s]
  BY DEF InstallMsg
<1>2. out' = [x \in Outputs |-> IF x \in lit THEN r.arg.steps[0].value ELSE out[x]]
  BY DEF InstallMsg
<1>3. PICK w \in S \cup {Direct} :
        /\ lit # {} => w \in S
        /\ writer' = [x \in Outputs |-> IF x \in lit THEN w ELSE Disown(S)[x]]
  BY DEF InstallMsg
<1>4. users \in SUBSET S /\ s # Direct
  BY DEF Users, Slots, Direct
<1>5. IdleTracker.prog # "SEQUENCE"
  BY DEF IdleTracker, NO_PROGRAM
<1>6. Setup(r.program, block[s], r.arg).phase = 0
      /\ Setup(r.program, block[s], r.arg).arg = r.arg
  BY DEF Setup
<1>7. o \in lit => Colored(o) /\ o = r.arg.steps[0].out
  OBVIOUS
<1>8. Disown(S)[o] = IF writer[o] \in S THEN Direct ELSE writer[o]
  BY DEF Disown
<1>. HIDE DEF S, users, block, lit
<1>9. CASE o \in lit
  <2>1. writer'[o] = w /\ w \in S
    BY <1>3, <1>9
  <2>2. ASSUME trackers'[s].prog = "SEQUENCE", w = s
        PROVE  trackers'[s].phase = 0 /\ trackers'[s].arg = r.arg
    BY <1>1, <1>5, <1>6, <2>1, <2>2
  <2>. QED  BY <1>7, <1>9, <2>1, <2>2 DEF Lit, Colored
<1>10. CASE o \notin lit
  <2>1. out'[o] = out[o] /\ writer'[o] = IF writer[o] \in S THEN Direct ELSE writer[o]
    BY <1>2, <1>3, <1>8, <1>10
  <2>2. writer'[o] = s => s \notin S /\ writer[o] = s
    BY <1>4, <2>1
  <2>. QED  BY <1>1, <1>4, <2>1, <2>2 DEF LeftAlone
<1>. QED  BY <1>9, <1>10

(* The next step of a sequence replaces the one before it.                  *)
LEMMA SequenceTurn ==
  ASSUME SequenceInv, NEW x \in Slots, RunSequence(x),
         NEW s \in Slots, NEW o \in Outputs
  PROVE  LeftAlone(s, o) \/ Lit(s, o)'
<1>. DEFINE t    == trackers[x]
            prev == t.arg.steps[t.phase].out
            k    == NextStep(t)
            cur  == t.arg.steps[k]
            u    == [t EXCEPT !.phase = k, !.due = After(now, cur.duration)]
<1>1. CASE Quiet /\ UNCHANGED trackers
  BY <1>1 DEF Quiet, LeftAlone
<1>2. CASE /\ out' = StepOutputs(prev, cur)
           /\ writer' = [y \in Outputs |-> IF y \in {prev, cur.out} /\ Colored(y)
                                           THEN x ELSE writer[y]]
           /\ Becomes(x, u)
  <2>1. out'[o] = IF ~Colored(o) THEN out[o]
                  ELSE IF o = cur.out THEN cur.value
                  ELSE IF o = prev THEN 0 ELSE out[o]
    BY <1>2 DEF StepOutputs
  <2>2. writer'[o] = IF o \in {prev, cur.out} /\ Colored(o) THEN x ELSE writer[o]
    BY <1>2
  <2>3. trackers'[s] = IF s = x THEN u ELSE trackers[s]
    BY <1>2 DEF Becomes, SequenceInv, TypeOK
  <2>4. u.phase = k /\ u.arg = t.arg
    BY DEF SequenceInv, TypeOK, Tracker
  <2>5. Lit(x, o) /\ t.prog = "SEQUENCE"
    BY DEF SequenceInv, RunSequence, Call
  <2>6. CASE s = x
    <3>1. trackers'[s].arg.steps[trackers'[s].phase].out = cur.out
      BY <2>3, <2>4, <2>6
    <3>2. ASSUME writer'[o] = s PROVE Colored(o)
      BY <2>2, <2>5, <2>6, <3>2 DEF Lit
    <3>3. ASSUME writer'[o] = s, out'[o] # 0 PROVE o = cur.out
      <4>1. CASE o \in {prev, cur.out}
        BY <2>1, <3>2, <3>3, <4>1
      <4>2. CASE o \notin {prev, cur.out}
        <5>1. writer[o] = x /\ out[o] # 0
          BY <2>1, <2>2, <2>6, <3>2, <3>3, <4>2
        <5>. QED  BY <2>5, <4>2, <5>1 DEF Lit
      <4>. QED  BY <4>1, <4>2
    <3>. QED  BY <3>1, <3>2, <3>3 DEF Lit, Colored
  <2>7. CASE s # x
    BY <2>1, <2>2, <2>3, <2>7 DEF LeftAlone
  <2>. QED  BY <2>6, <2>7
<1>. QED  BY <1>1, <1>2 DEF RunSequence

LEMMA SequenceStep ==
  ASSUME SequenceInv, [Next]_vars, NEW s \in Slots, NEW o \in Outputs
  PROVE  LeftAlone(s, o) \/ Lit(s, o)'
<1>0. s # Direct
  BY DEF Slots, Direct
<1>1. CASE trackers' = trackers /\ out' = out /\ writer' = writer
  BY <1>1 DEF LeftAlone
<1>2. ASSUME NEW S, NEW v, SetOutputs(S, v) PROVE LeftAlone(s, o)
  BY <1>0, <1>2 DEF SetOutputs, LeftAlone
<1>3. ASSUME NEW r \in Requests, TrackerlessMsg(r) PROVE LeftAlone(s, o)
  BY <1>0, <1>3 DEF TrackerlessMsg, LeftAlone
<1>4. ASSUME NEW S, out' = out, writer' = Disown(S),
             \A y \in Slots : trackers'[y] = IF y \in S THEN IdleTracker ELSE trackers[y]
      PROVE  LeftAlone(s, o)
  BY <1>0, <1>4 DEF Disown, LeftAlone, IdleTracker, NO_PROGRAM
<1>5. ASSUME NEW r \in Requests, CancelMsg(r) PROVE LeftAlone(s, o)
  BY <1>4, <1>5 DEF CancelMsg
<1>6. ASSUME NEW x \in Slots, FreeDone(x) PROVE LeftAlone(s, o)
  <2>1. \A y \in Slots : trackers'[y] = IF y \in {x} THEN IdleTracker ELSE trackers[y]
    BY <1>6 DEF FreeDone, SequenceInv, TypeOK
  <2>. QED  BY <1>4, <1>6, <2>1 DEF FreeDone
<1>7. ASSUME NEW x \in Slots, RunProgram(x), ~RunSequence(x) PROVE LeftAlone(s, o)
  <2>1. trackers[x].prog # "SEQUENCE"
    BY <1>7 DEF RunProgram, RunBlink, RunTimedChange, RunFade, RunPattern, RunValue,
                RunSoundPixels, RunSensorData, Call
  <2>2. trackers'[x].prog = trackers[x].prog
    BY <1>7, RunProgramKeeps DEF SequenceInv, SameOwners
  <2>3. CASE s = x
    BY <2>1, <2>2, <2>3 DEF LeftAlone
  <2>4. CASE s # x
    <3>1. trackers'[s] = trackers[s]
      BY <1>7, <2>4 DEF RunProgram, RunBlink, RunTimedChange, RunFade, RunPattern, RunValue,
         RunSoundPixels, RunSensorData, Becomes, SequenceInv, TypeOK
    <3>2. ASSUME NEW v, Shows(x, x, v)
          PROVE  writer'[o] = s => writer[o] = s /\ out'[o] = out[o]
      BY <2>4, <3>2 DEF Shows, SequenceInv, TypeOK
    <3>3. (Quiet \/ \E v : Shows(x, x, v)) \/ RunSensorData(x)
      BY <1>7 DEF RunProgram, RunBlink, RunTimedChange, RunFade, RunPattern, RunValue,
                  RunSoundPixels
    <3>4. Quiet \/ RunSensorData(x) => writer' = writer /\ out' = out
      BY DEF Quiet, RunSensorData
    <3>. QED  BY <3>1, <3>2, <3>3, <3>4 DEF LeftAlone
  <2>. QED  BY <2>3, <2>4
<1>8. \/ trackers' = trackers /\ out' = out /\ writer' = writer
      \/ \E S, v : SetOutputs(S, v)
      \/ \E r \in Requests : TrackerlessMsg(r) \/ CancelMsg(r) \/ InstallMsg(r)
      \/ \E x \in Slots : RunProgram(x) \/ FreeDone(x)
  BY DEF Next, Msg, Loop, Run, RejectMsg, SensorMsg, SetClock, StartRun, SkipIdle,
         UpdateOutputs, Tick, vars
<1>. QED  BY <1>1, <1>2, <1>3, <1>5, <1>6, <1>7, <1>8, InstallLights, SequenceTurn

(* Of the outputs a running sequence wrote last, only the one of its        *)
(* current step is on, for sequences of any length over any outputs, also   *)
(* when several run at once (program_sequence).                             *)
THEOREM SequenceCorrect == Spec => []SequenceLightsOneStep
<1>1. Init => SequenceInv
  <2>1. ASSUME Init PROVE \A s \in Slots : trackers[s].prog # "SEQUENCE"
    BY <2>1 DEF Init, IdleTracker, NO_PROGRAM
  <2>. QED  BY <2>1, InitType DEF SequenceInv, Lit
<1>2. SequenceInv /\ [Next]_vars => SequenceInv'
  <2>. SUFFICES ASSUME SequenceInv, [Next]_vars, NEW s \in Slots, NEW o \in Outputs
                PROVE  Lit(s, o)'
    BY StepType DEF SequenceInv
  <2>1. CASE LeftAlone(s, o)
    BY <2>1 DEF LeftAlone, SequenceInv, Lit, Colored
  <2>. QED  BY <2>1, SequenceStep
<1>3. SequenceInv => SequenceLightsOneStep
  BY DEF SequenceInv, Lit, SequenceLightsOneStep
<1>. QED  BY <1>1, <1>2, <1>3, PTL DEF Spec

=============================================================================
