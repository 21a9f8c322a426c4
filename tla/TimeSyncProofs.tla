--------------------------- MODULE TimeSyncProofs ---------------------------
(* A synchronisation leaves its slave with a latency the link can have and *)
(* a clock close to the master's, for any number of slaves, any clocks and *)
(* any delay short of a quarter of the clock's range, provided OneMaster.  *)
EXTENDS TimeSync, TLAPS

(* One node starts synchronisations, and it sends no checks.               *)
OneMaster ==
  /\ \A s, t \in Starters : s = t
  /\ Starters \cap Checkers = {}

(* Only the master awaits an ACK and is never asked for one by a SYNC.     *)
Roles ==
  /\ \A n \in Nodes : state[n] = "AWAITING_ACK" => n \in Starters
  /\ \A m \in net : m.phase = "SYNC" => m.src \in Starters /\ m.dst \notin Starters
  /\ \A m \in net : m.phase = "CHECK" => m.src \in Checkers

(* No starter waits for a SET: nobody else sends it a SYNC.                *)
OnePending ==
  /\ \A n \in Nodes : state[n] = "AWAITING_SET" => n \notin Starters
  /\ SetIsAwaited

(* The slave keeps the time of its ACK: the time since then is the ACK's   *)
(* age, or the SET's and that of an ACK.                                   *)
Elapsed(n) == (Millis(n) - latency[n]) % Wrap
Timely(m) == IF m.phase = "ACK" THEN Elapsed(m.src) = m.age
             ELSE m.age <= Elapsed(m.dst) /\ Elapsed(m.dst) <= m.age + MaxDelay
Timing == \A m \in net : Pending(m) => Timely(m)

NoEcho == \A m \in net : m.src # m.dst
SyncInv == TypeOK /\ NoEcho /\ Roles /\ OnePending /\ Timing /\ LatencyIsPossible

-----------------------------------------------------------------------------
(* Arithmetic of clocks.                                                    *)
LEMMA InClock == ASSUME NEW x \in Int PROVE x % Wrap \in Clock
BY ClockAssumption DEF Clock
LEMMA Within == ASSUME NEW x \in Clock PROVE x % Wrap = x
BY ClockAssumption DEF Clock
LEMMA Above == ASSUME NEW x \in Int, Wrap <= x, x < 2 * Wrap PROVE x % Wrap = x - Wrap
BY ClockAssumption
LEMMA Below == ASSUME NEW x \in Int, -Wrap <= x, x < 0 PROVE x % Wrap = x + Wrap
BY ClockAssumption
LEMMA FarBelow == ASSUME NEW x \in Int, -(2 * Wrap) <= x, x < -Wrap PROVE x % Wrap = x + 2 * Wrap
BY ClockAssumption

LEMMA NextTime ==
  ASSUME NEW t \in Clock, NEW o \in Clock, NEW l \in Clock,
         (((t + o) % Wrap) - l) % Wrap < Wrap - 1
  PROVE  (((((t + 1) % Wrap) + o) % Wrap) - l) % Wrap = ((((t + o) % Wrap) - l) % Wrap) + 1
<1> DEFINE u == (t + o) % Wrap
           v == (((t + 1) % Wrap) + o) % Wrap
<1>1. u \in Clock /\ v = IF u = Wrap - 1 THEN 0 ELSE u + 1
  <2>1. CASE t = Wrap - 1
    <3>1. (t + 1) % Wrap = 0 BY <2>1, Above, ClockAssumption DEF Clock
    <3>2. v = o BY <3>1, Within DEF Clock
    <3>3. CASE o = 0 BY <2>1, <3>2, <3>3, Within, ClockAssumption DEF Clock
    <3>4. CASE o # 0
      <4>1. u = o - 1 BY <2>1, <3>4, Above, ClockAssumption DEF Clock
      <4> QED BY <3>2, <3>4, <4>1, ClockAssumption DEF Clock
    <3> QED BY <3>3, <3>4
  <2>2. CASE t # Wrap - 1
    <3>1. (t + 1) % Wrap = t + 1 BY <2>2, Within, ClockAssumption DEF Clock
    <3>2. CASE t + o < Wrap - 1
      <4>1. u = t + o /\ v = t + 1 + o BY <3>1, <3>2, Within, ClockAssumption DEF Clock
      <4> QED BY <3>2, <4>1, ClockAssumption DEF Clock
    <3>3. CASE t + o = Wrap - 1
      <4>1. u = t + o BY <3>3, Within, ClockAssumption DEF Clock
      <4>2. v = 0 BY <3>1, <3>3, Above, ClockAssumption DEF Clock
      <4> QED BY <3>3, <4>1, <4>2, ClockAssumption DEF Clock
    <3>4. CASE t + o > Wrap - 1
      <4>1. u = t + o - Wrap BY <3>4, Above, ClockAssumption DEF Clock
      <4>2. v = t + 1 + o - Wrap BY <2>2, <3>1, <3>4, Above, ClockAssumption DEF Clock
      <4> QED BY <2>2, <3>4, <4>1, <4>2, ClockAssumption DEF Clock
    <3> QED BY <3>2, <3>3, <3>4, ClockAssumption DEF Clock
  <2> QED BY <2>1, <2>2
<1> HIDE DEF u, v
<1>2. (u - l) % Wrap < Wrap - 1 => (v - l) % Wrap = ((u - l) % Wrap) + 1
  <2> SUFFICES ASSUME (u - l) % Wrap < Wrap - 1
               PROVE  (v - l) % Wrap = ((u - l) % Wrap) + 1
    OBVIOUS
  <2>1. CASE u >= l
    <3>1. (u - l) % Wrap = u - l BY <1>1, <2>1, Within, ClockAssumption DEF Clock
    <3>2. CASE u = Wrap - 1
      <4>1. l # 0 /\ v = 0 BY <1>1, <3>1, <3>2, ClockAssumption DEF Clock
      <4>2. (v - l) % Wrap = Wrap - l BY <4>1, Below, ClockAssumption DEF Clock
      <4> QED BY <3>1, <3>2, <4>2, ClockAssumption DEF Clock
    <3>3. CASE u # Wrap - 1 BY <1>1, <2>1, <3>1, <3>3, Within, ClockAssumption DEF Clock
    <3> QED BY <3>2, <3>3
  <2>2. CASE u < l
    <3>1. (u - l) % Wrap = u - l + Wrap BY <1>1, <2>2, Below, ClockAssumption DEF Clock
    <3>2. v = u + 1 /\ v < l BY <1>1, <2>2, <3>1, ClockAssumption DEF Clock
    <3>3. (v - l) % Wrap = v - l + Wrap BY <1>1, <3>2, Below, ClockAssumption DEF Clock
    <3> QED BY <1>1, <3>1, <3>2, <3>3, ClockAssumption DEF Clock
  <2> QED BY <1>1, <2>1, <2>2, ClockAssumption DEF Clock
<1> QED BY <1>2 DEF u, v

-----------------------------------------------------------------------------
(* What an action puts on the wire.                                         *)
LEMMA ClockIsInt == (\A x \in Clock : x \in Int) /\ 0 \in Int /\ 0 \in 0 .. MaxDelay
BY ClockAssumption DEF Clock

LEMMA MillisType == ASSUME TypeOK, NEW n \in Nodes PROVE Millis(n) \in Clock /\ Ms(n) \in Clock
<1>1. time + Offset[n] \in Int BY ClockAssumption DEF TypeOK, Clock
<1>2. Millis(n) \in Clock BY <1>1, InClock DEF Millis
<1>3. Millis(n) + delta[n] \in Int BY <1>2, ClockIsInt DEF TypeOK
<1> QED BY <1>2, <1>3, InClock DEF Ms

LEMMA CopyFacts ==
  ASSUME TypeOK, NEW n \in Nodes, NEW target \in Nodes \cup {ANY}, target # n,
         NEW phase \in Phases, NEW adjustment \in Int
  PROVE  /\ Copies(n, target, phase, adjustment) \subseteq Message
         /\ \A c \in Copies(n, target, phase, adjustment) :
              /\ c.src = n /\ c.phase = phase /\ c.age = 0 /\ c.dst # n
              /\ target # ANY => c.dst = target
         /\ target # ANY => \A c, d \in Copies(n, target, phase, adjustment) : c = d
<1> DEFINE receivers == IF target = ANY THEN Nodes \ {n} ELSE {target}
<1>1. receivers \subseteq Nodes \ {n} BY DEF receivers
<1>2. (Ms(n) + adjustment) % Wrap \in Clock
  <2>1. Ms(n) + adjustment \in Int BY MillisType, ClockIsInt
  <2> QED BY <2>1, InClock
<1>3. \A d \in receivers :
        [src |-> n, dst |-> d, phase |-> phase, ts |-> (Ms(n) + adjustment) % Wrap, age |-> 0] \in Message
  BY <1>1, <1>2, ClockIsInt DEF Message
<1> QED BY <1>1, <1>3 DEF Copies

(* An answer goes to who sent the message, and nobody sends to itself.     *)
LEMMA ReplyFacts ==
  ASSUME TypeOK, NEW m \in net, NEW phase \in Phases, NEW adjustment \in Int, m.src # m.dst
  PROVE  /\ m.src \in Nodes /\ m.src # ANY
         /\ Copies(m.dst, m.src, phase, adjustment) \subseteq Message
         /\ \A c \in Copies(m.dst, m.src, phase, adjustment) :
              c.src = m.dst /\ c.dst = m.src /\ c.phase = phase /\ c.age = 0
         /\ \A c, d \in Copies(m.dst, m.src, phase, adjustment) : c = d
<1>1. m.src \in Nodes /\ m.dst \in Nodes BY DEF TypeOK, Message
<1>2. m.src # ANY BY <1>1, NodeAssumption
<1> QED BY <1>1, <1>2, CopyFacts

LEMMA PhasesOf == {"SYNC", "ACK", "SET", "RESYNC", "CHECK"} \subseteq Phases
BY DEF Phases

-----------------------------------------------------------------------------
(* Types, and that nobody sends to itself, for any masters and checkers.   *)
LEMMA BaseInit == Init => TypeOK /\ NoEcho
BY ClockAssumption DEF Init, TypeOK, NoEcho, States, Clock

LEMMA SendBase ==
  ASSUME TypeOK, NoEcho, NEW n \in Nodes, NEW target \in Targets, target # n, NEW phase \in Phases,
         Send(n, target, phase, 0)
  PROVE  net' \subseteq Message /\ NoEcho'
<1>1. target \in Nodes \cup {ANY} /\ 0 \in Int BY NodeAssumption
<1>2. /\ Copies(n, target, phase, 0) \subseteq Message
      /\ \A c \in Copies(n, target, phase, 0) : c.src # c.dst
  BY <1>1, CopyFacts
<1> QED BY <1>2 DEF TypeOK, NoEcho, Send

LEMMA OperatorBase ==
  ASSUME TypeOK, NoEcho, NEW n \in Nodes, NEW target \in Targets, target # n,
         Synchronize(n, target) \/ Resynchronize(n, target) \/ Check(n, target)
  PROVE  TypeOK' /\ NoEcho'
<1>1. CASE Synchronize(n, target)
  <2>1. net' \subseteq Message /\ NoEcho' BY <1>1, SendBase, PhasesOf DEF Synchronize
  <2>2. state' \in [Nodes -> States] BY <1>1 DEF Synchronize, TypeOK, States
  <2> QED BY <1>1, <2>1, <2>2 DEF Synchronize, Operator, TypeOK
<1>2. CASE Resynchronize(n, target)
  <2>1. net' \subseteq Message /\ NoEcho' BY <1>2, SendBase, PhasesOf DEF Resynchronize
  <2> QED BY <1>2, <2>1 DEF Resynchronize, Operator, TypeOK, node
<1>3. CASE Check(n, target)
  <2>1. net' \subseteq Message /\ NoEcho' BY <1>3, SendBase, PhasesOf DEF Check
  <2> QED BY <1>3, <2>1 DEF Check, Operator, TypeOK, node
<1> QED BY <1>1, <1>2, <1>3

LEMMA SetTimeBase ==
  ASSUME TypeOK, NoEcho, NEW n \in Nodes, SetTime(n, 0) PROVE TypeOK' /\ NoEcho'
<1>1. 0 - Millis(n) \in Int BY MillisType, ClockIsInt
<1>2. (0 - Millis(n)) % Wrap \in Clock BY <1>1, InClock
<1> QED BY <1>2 DEF SetTime, Operator, TypeOK, NoEcho

LEMMA ReplyBase ==
  ASSUME TypeOK, NoEcho, NEW m \in net, NEW phase \in Phases, NEW adjustment \in Int,
         Reply(m.dst, m, phase, adjustment)
  PROVE  net' \subseteq Message /\ NoEcho'
<1>1. m.src # m.dst BY DEF NoEcho
<1>2. /\ Copies(m.dst, m.src, phase, adjustment) \subseteq Message
      /\ \A c \in Copies(m.dst, m.src, phase, adjustment) : c.src = m.dst /\ c.dst = m.src
  BY <1>1, ReplyFacts
<1> QED BY <1>1, <1>2 DEF TypeOK, NoEcho, Reply

LEMMA HalfType == ASSUME TypeOK, NEW n \in Nodes PROVE HalfRoundTrip(n) \in Clock /\ Elapsed(n) \in Clock
<1>1. Millis(n) - latency[n] \in Int BY MillisType, ClockIsInt DEF TypeOK
<1>2. (Millis(n) - latency[n]) % Wrap \in Clock BY <1>1, InClock
<1>3. ASSUME NEW x \in Clock PROVE x \div 2 \in Clock BY ClockAssumption DEF Clock
<1> QED BY <1>2, <1>3 DEF HalfRoundTrip, Elapsed

LEMMA HandleBase ==
  ASSUME TypeOK, NoEcho, NEW m \in net, Handle(m.dst, m) PROVE TypeOK' /\ NoEcho'
<1> DEFINE n == m.dst
<1>1. n \in Nodes /\ m.src \in Nodes /\ m.ts \in Clock BY DEF TypeOK, Message
<1>2. Consume(m) => net' \subseteq Message /\ NoEcho' BY DEF Consume, TypeOK, NoEcho
<1>3. {"IDLE", "AWAITING_ACK", "AWAITING_SET", "SYNCED"} \subseteq States BY DEF States
<1>4. CASE HandleCheck(n, m)
  <2>1. latency[n] \in Int BY <1>1, ClockIsInt DEF TypeOK
  <2>2. net' \subseteq Message /\ NoEcho' BY <1>4, <2>1, ReplyBase, PhasesOf DEF HandleCheck
  <2> QED BY <1>4, <2>2 DEF HandleCheck, Receive, TypeOK, node
<1>5. CASE HandleSync(n, m)
  <2>1. net' \subseteq Message /\ NoEcho' BY <1>5, ReplyBase, PhasesOf, ClockIsInt DEF HandleSync
  <2>2. latency' \in [Nodes -> Clock] BY <1>1, <1>5, MillisType DEF HandleSync, TypeOK
  <2>3. state' \in [Nodes -> States] BY <1>1, <1>3, <1>5 DEF HandleSync, TypeOK
  <2> QED BY <1>5, <2>1, <2>2, <2>3 DEF HandleSync, Receive, TypeOK
<1>6. CASE IgnoreSync(n, m) BY <1>2, <1>6 DEF IgnoreSync, Receive, TypeOK, node
<1>7. CASE HandleResync(n, m)
  <2>1. m.ts + latency[n] - Millis(n) \in Int BY <1>1, MillisType, ClockIsInt DEF TypeOK
  <2>2. (m.ts + latency[n] - Millis(n)) % Wrap \in Clock BY <2>1, InClock
  <2>3. delta' \in [Nodes -> Clock] BY <1>1, <1>7, <2>2 DEF HandleResync, TypeOK
  <2> QED BY <1>2, <1>7, <2>3 DEF HandleResync, Receive, TypeOK
<1>8. CASE HandleAck(n, m)
  <2>1. net' \subseteq Message /\ NoEcho' BY <1>8, ReplyBase, PhasesOf, ClockIsInt DEF HandleAck
  <2>2. state' \in [Nodes -> States] BY <1>1, <1>3, <1>8 DEF HandleAck, TypeOK
  <2> QED BY <1>8, <2>1, <2>2 DEF HandleAck, Receive, TypeOK
<1>9. CASE IgnoreAck(n, m) BY <1>2, <1>9 DEF IgnoreAck, Receive, TypeOK, node
<1>10. CASE HandleSet(n, m)
  <2>1. m.ts + HalfRoundTrip(n) - Millis(n) \in Int BY <1>1, MillisType, HalfType, ClockIsInt
  <2>2. (m.ts + HalfRoundTrip(n) - Millis(n)) % Wrap \in Clock BY <2>1, InClock
  <2>3. CASE state[n] = "AWAITING_SET"
    <3>1. delta' \in [Nodes -> Clock] BY <1>1, <1>10, <2>2, <2>3 DEF HandleSet, TypeOK
    <3>2. latency' \in [Nodes -> Clock] BY <1>1, <1>10, <2>3, HalfType DEF HandleSet, TypeOK
    <3>3. state' \in [Nodes -> States] BY <1>1, <1>3, <1>10, <2>3 DEF HandleSet, TypeOK
    <3> QED BY <1>2, <1>10, <3>1, <3>2, <3>3 DEF HandleSet, Receive, TypeOK
  <2>4. CASE state[n] # "AWAITING_SET" BY <1>2, <1>10, <2>4 DEF HandleSet, Receive, TypeOK, node
  <2> QED BY <2>3, <2>4
<1> QED BY <1>4, <1>5, <1>6, <1>7, <1>8, <1>9, <1>10 DEF Handle

LEMMA Older ==
  ASSUME TypeOK, Tick, NEW c \in net'
  PROVE  c \in Message /\ \E m \in net : c = [m EXCEPT !.age = @ + 1] /\ m.age + 1 \in 0 .. MaxDelay
<1>1. PICK m \in net : c = [m EXCEPT !.age = @ + 1] BY DEF Tick
<1>2. m \in Message /\ m.age < MaxDelay BY DEF TypeOK, Tick
<1>3. m.age \in 0 .. MaxDelay BY <1>2 DEF Message
<1>4. m.age + 1 \in 0 .. MaxDelay BY <1>2, <1>3, ClockAssumption
<1> QED BY <1>1, <1>2, <1>4 DEF Message

LEMMA TickBase == ASSUME TypeOK, NoEcho, Tick PROVE TypeOK' /\ NoEcho'
<1>1. net' \subseteq Message BY Older
<1>2. NoEcho'
  <2> SUFFICES ASSUME NEW c \in net' PROVE c.src # c.dst BY DEF NoEcho
  <2>1. PICK m \in net : c = [m EXCEPT !.age = @ + 1] BY Older
  <2>2. m \in Message /\ m.src # m.dst BY DEF TypeOK, NoEcho
  <2> QED BY <2>1, <2>2 DEF Message
<1>3. time + 1 \in Int BY ClockIsInt DEF TypeOK
<1>4. time' \in Clock BY <1>3, InClock DEF Tick
<1> QED BY <1>1, <1>2, <1>4 DEF Tick, TypeOK, node

LEMMA BaseStep == ASSUME TypeOK, NoEcho, [Next]_vars PROVE TypeOK' /\ NoEcho'
<1>1. CASE \E n \in Nodes, target \in Targets : target # n /\
             (Synchronize(n, target) \/ Resynchronize(n, target) \/ Check(n, target))
  BY <1>1, OperatorBase
<1>2. CASE \E n \in Nodes : SetTime(n, 0) BY <1>2, SetTimeBase
<1>3. CASE \E m \in net : Lose(m) BY <1>3 DEF Lose, Consume, TypeOK, NoEcho, node
<1>4. CASE \E m \in net : Handle(m.dst, m) BY <1>4, HandleBase
<1>5. CASE Tick BY <1>5, TickBase
<1>6. CASE UNCHANGED vars BY <1>6 DEF vars, TypeOK, NoEcho
<1> QED BY <1>1, <1>2, <1>3, <1>4, <1>5, <1>6 DEF Next

(* Every reachable state is one the code's types allow.                    *)
THEOREM TypeCorrect == Spec => []TypeOK
<1>1. TypeOK /\ NoEcho /\ [Next]_vars => (TypeOK /\ NoEcho)' BY BaseStep
<1> QED BY <1>1, BaseInit, PTL DEF Spec

-----------------------------------------------------------------------------
(* Who plays which part.                                                    *)
LEMMA Sent ==
  ASSUME TypeOK, NEW n \in Nodes, NEW target \in Targets, target # n, NEW phase \in Phases,
         Send(n, target, phase, 0), NEW c \in net'
  PROVE  c \in net \/ (c.src = n /\ c.dst # n /\ c.phase = phase)
<1>1. target \in Nodes \cup {ANY} /\ 0 \in Int BY NodeAssumption
<1>2. \A d \in Copies(n, target, phase, 0) : d.src = n /\ d.phase = phase /\ d.dst # n
  BY <1>1, CopyFacts
<1> QED BY <1>2 DEF Send

LEMMA Replied ==
  ASSUME TypeOK, NoEcho, NEW m \in net, NEW phase \in Phases, NEW adjustment \in Int,
         Reply(m.dst, m, phase, adjustment)
  PROVE  /\ \A c \in net' :
              \/ c \in net /\ c # m
              \/ c.src = m.dst /\ c.dst = m.src /\ c.phase = phase /\ c.age = 0
         /\ \A c, d \in net' : c \in net \ {m} \/ d \in net \ {m} \/ c = d
<1>1. m.src # m.dst BY DEF NoEcho
<1>2. /\ \A c \in Copies(m.dst, m.src, phase, adjustment) :
            c.src = m.dst /\ c.dst = m.src /\ c.phase = phase /\ c.age = 0
      /\ \A c, d \in Copies(m.dst, m.src, phase, adjustment) : c = d
  BY <1>1, ReplyFacts
<1>3. \A c \in net' : c \in net \ {m} \/ c \in Copies(m.dst, m.src, phase, adjustment) BY DEF Reply
<1> QED BY <1>2, <1>3

LEMMA RolesStep ==
  ASSUME OneMaster, TypeOK, NoEcho, Roles, [Next]_vars PROVE Roles'
<1> USE DEF Roles
<1>1. ASSUME NEW n \in Nodes, NEW target \in Targets, target # n, Synchronize(n, target) PROVE Roles'
  <2>1. \A c \in net' : c \in net \/ (c.src = n /\ c.dst # n /\ c.phase = "SYNC")
    BY <1>1, Sent, PhasesOf DEF Synchronize
  <2>2. n \in Starters /\ \A d \in Nodes : d # n => d \notin Starters BY <1>1 DEF Synchronize, OneMaster
  <2>3. \A c \in net' : c.dst \in Nodes BY <1>1, OperatorBase DEF TypeOK, Message
  <2> QED BY <1>1, <2>1, <2>2, <2>3 DEF Synchronize, TypeOK
<1>2. ASSUME NEW n \in Nodes, NEW target \in Targets, target # n, Resynchronize(n, target) PROVE Roles'
  <2>1. \A c \in net' : c \in net \/ c.phase = "RESYNC" BY <1>2, Sent, PhasesOf DEF Resynchronize
  <2> QED BY <1>2, <2>1 DEF Resynchronize, node
<1>3. ASSUME NEW n \in Nodes, NEW target \in Targets, target # n, Check(n, target) PROVE Roles'
  <2>1. \A c \in net' : c \in net \/ (c.src = n /\ c.phase = "CHECK") BY <1>3, Sent, PhasesOf DEF Check
  <2> QED BY <1>3, <2>1 DEF Check, node
<1>4. CASE \E n \in Nodes : SetTime(n, 0) BY <1>4 DEF SetTime
<1>5. CASE \E m \in net : Lose(m) BY <1>5 DEF Lose, Consume, node
<1>6. ASSUME NEW m \in net, Handle(m.dst, m) PROVE Roles'
  <2>1. m.dst \in Nodes /\ latency[m.dst] \in Int BY ClockIsInt DEF TypeOK, Message
  <2>2. \A c \in net' : c \in net \/ c.phase \in {"ACK", "SET"}
    <3>1. CASE HandleCheck(m.dst, m) \/ HandleSync(m.dst, m)
      <4>1. \E adjustment \in Int : Reply(m.dst, m, "ACK", adjustment)
        BY <2>1, <3>1, ClockIsInt DEF HandleCheck, HandleSync
      <4> QED BY <4>1, Replied, PhasesOf
    <3>2. CASE HandleAck(m.dst, m)
      <4>1. Reply(m.dst, m, "SET", 0) BY <3>2 DEF HandleAck
      <4> QED BY <4>1, Replied, PhasesOf, ClockIsInt
    <3>3. CASE Consume(m) BY <3>3 DEF Consume
    <3> QED BY <1>6, <3>1, <3>2, <3>3 DEF Handle, IgnoreSync, HandleResync, IgnoreAck, HandleSet
  <2>3. \A n \in Nodes : state'[n] = "AWAITING_ACK" => state[n] = "AWAITING_ACK"
    BY <1>6, <2>1
    DEF Handle, HandleCheck, HandleSync, IgnoreSync, HandleResync, HandleAck, IgnoreAck, HandleSet, node, TypeOK
  <2> QED BY <2>2, <2>3
<1>7. CASE Tick
  <2>1. \A c \in net' : \E m \in net : c.phase = m.phase /\ c.src = m.src /\ c.dst = m.dst
    <3> SUFFICES ASSUME NEW c \in net'
                 PROVE  \E m \in net : c.phase = m.phase /\ c.src = m.src /\ c.dst = m.dst
      OBVIOUS
    <3>1. PICK m \in net : c = [m EXCEPT !.age = @ + 1] BY <1>7, Older
    <3>2. m \in Message BY DEF TypeOK
    <3> QED BY <3>1, <3>2 DEF Message
  <2> QED BY <1>7, <2>1 DEF Tick, node
<1>8. CASE UNCHANGED vars BY <1>8 DEF vars
<1> QED BY <1>1, <1>2, <1>3, <1>4, <1>5, <1>6, <1>7, <1>8 DEF Next

-----------------------------------------------------------------------------
(* One exchange at a time.                                                  *)
(* What loses no waiting node and adds nothing pending keeps it.            *)
LEMMA PendingKept ==
  ASSUME OnePending,
         \A c \in net' : Pending(c) => c \in net,
         \A n \in Nodes : state'[n] = "AWAITING_SET" => state[n] = "AWAITING_SET",
         \A c \in net' : Pending(c) => state'[Awaiter(c)] = state[Awaiter(c)]
  PROVE  OnePending'
BY DEF OnePending, SetIsAwaited, Pending, Awaiter

LEMMA AwaiterType == ASSUME TypeOK, NEW m \in net PROVE Awaiter(m) \in Nodes
BY DEF TypeOK, Message, Awaiter

LEMMA OperatorPending ==
  ASSUME TypeOK, OnePending, NEW n \in Nodes, NEW target \in Targets, target # n,
         Synchronize(n, target) \/ Resynchronize(n, target) \/ Check(n, target)
  PROVE  OnePending' /\ \A c \in net' : Pending(c) => c \in net
<1>1. CASE Synchronize(n, target)
  <2>1. \A c \in net' : c \in net \/ c.phase = "SYNC" BY <1>1, Sent, PhasesOf DEF Synchronize
  <2>2. n \in Starters /\ state' = [state EXCEPT ![n] = "AWAITING_ACK"] BY <1>1 DEF Synchronize
  <2>3. \A c \in net' : Pending(c) => c \in net BY <2>1 DEF Pending
  <2>4. \A c \in net' : Pending(c) => state'[Awaiter(c)] = state[Awaiter(c)]
    BY <2>2, <2>3, AwaiterType DEF OnePending, SetIsAwaited, TypeOK
  <2>5. \A k \in Nodes : state'[k] = "AWAITING_SET" => state[k] = "AWAITING_SET" BY <2>2 DEF TypeOK
  <2> QED BY <2>3, <2>4, <2>5, PendingKept
<1>2. CASE Resynchronize(n, target)
  <2>1. \A c \in net' : c \in net \/ c.phase = "RESYNC" BY <1>2, Sent, PhasesOf DEF Resynchronize
  <2>2. \A c \in net' : Pending(c) => c \in net BY <2>1 DEF Pending
  <2> QED BY <1>2, <2>2, PendingKept DEF Resynchronize, node
<1>3. CASE Check(n, target)
  <2>1. \A c \in net' : c \in net \/ c.phase = "CHECK" BY <1>3, Sent, PhasesOf DEF Check
  <2>2. \A c \in net' : Pending(c) => c \in net BY <2>1 DEF Pending
  <2> QED BY <1>3, <2>2, PendingKept DEF Check, node
<1> QED BY <1>1, <1>2, <1>3

(* The node of an ACK takes part in a new exchange, or in none the master  *)
(* waits for; the answer to an ACK takes its place.                        *)
LEMMA CheckPending ==
  ASSUME OneMaster, TypeOK, NoEcho, Roles, OnePending, NEW m \in net, HandleCheck(m.dst, m)
  PROVE  OnePending' /\ \A c \in net' : Pending(c) => c \in net
<1>1. m.src \notin Starters BY DEF HandleCheck, Receive, Roles, OneMaster
<1>2. m.dst \in Nodes /\ latency[m.dst] \in Int BY ClockIsInt DEF TypeOK, Message
<1>3. \A c \in net' : c \in net \/ (c.dst = m.src /\ c.phase = "ACK")
  BY <1>2, Replied, PhasesOf DEF HandleCheck
<1>4. \A c \in net' : Pending(c) => c \in net BY <1>1, <1>3 DEF Pending
<1> QED BY <1>4, PendingKept DEF HandleCheck, node

LEMMA SyncPending ==
  ASSUME OneMaster, TypeOK, NoEcho, Roles, OnePending, NEW m \in net, HandleSync(m.dst, m)
  PROVE  /\ OnePending'
         /\ \A c \in net : Pending(c) => Awaiter(c) # m.dst
         /\ \A c \in net' : c \in net \/ (c.phase = "ACK" /\ c.src = m.dst /\ c.age = 0)
<1> DEFINE n == m.dst
<1>1. n \in Nodes /\ n \notin Starters BY DEF HandleSync, Receive, Roles, TypeOK, Message
<1>2. /\ \A c \in net' : \/ c \in net /\ c # m
                         \/ c.src = n /\ c.dst = m.src /\ c.phase = "ACK" /\ c.age = 0
      /\ \A c, d \in net' : c \in net \ {m} \/ d \in net \ {m} \/ c = d
  BY Replied, PhasesOf, ClockIsInt DEF HandleSync
<1>3. state' = [state EXCEPT ![n] = "AWAITING_SET"] /\ state[n] # "AWAITING_SET" BY DEF HandleSync
<1>4. \A c \in net : Pending(c) => Awaiter(c) # n BY <1>3 DEF OnePending, SetIsAwaited
<1>5. \A k \in Nodes : state'[k] = "AWAITING_SET" => k \notin Starters
  BY <1>1, <1>3 DEF OnePending, SetIsAwaited, TypeOK
<1>6. \A c \in net' : c \notin net => Awaiter(c) = n BY <1>2 DEF Awaiter
<1>7. \A c \in net' : Pending(c) => state'[Awaiter(c)] = "AWAITING_SET"
  BY <1>1, <1>3, <1>4, <1>6, AwaiterType DEF OnePending, SetIsAwaited, TypeOK
<1>8. \A c, d \in net' : Pending(c) /\ Pending(d) /\ Awaiter(c) = Awaiter(d) => c = d
  <2>1. \A c \in net' : Pending(c) => c # m BY <1>2 DEF Pending, HandleSync, Receive
  <2> SUFFICES ASSUME NEW c \in net', NEW d \in net', Pending(c), Pending(d), Awaiter(c) = Awaiter(d)
               PROVE  c = d
    OBVIOUS
  <2>2. CASE c \in net /\ d \in net BY <2>2 DEF OnePending, SetIsAwaited
  <2>3. CASE c \notin net /\ d \notin net BY <1>2, <2>3
  <2>4. CASE (c \in net /\ d \notin net) \/ (c \notin net /\ d \in net) BY <1>4, <1>6, <2>4
  <2> QED BY <2>2, <2>3, <2>4
<1>9. OnePending' BY <1>5, <1>7, <1>8 DEF OnePending, SetIsAwaited, Pending, Awaiter
<1> QED BY <1>2, <1>4, <1>9

LEMMA AckPending ==
  ASSUME OneMaster, TypeOK, NoEcho, Roles, OnePending, NEW m \in net, HandleAck(m.dst, m)
  PROVE  /\ OnePending'
         /\ Pending(m) /\ Awaiter(m) = m.src
         /\ \A c \in net' : c \in net \/ (c.phase = "SET" /\ c.dst = m.src /\ c.age = 0)
<1> DEFINE n == m.dst
<1>1. n \in Nodes /\ n \in Starters BY DEF HandleAck, Receive, Roles, TypeOK, Message
<1>2. Pending(m) /\ Awaiter(m) = m.src BY <1>1 DEF HandleAck, Receive, Pending, Awaiter
<1>3. /\ \A c \in net' : \/ c \in net /\ c # m
                         \/ c.src = n /\ c.dst = m.src /\ c.phase = "SET" /\ c.age = 0
      /\ \A c, d \in net' : c \in net \ {m} \/ d \in net \ {m} \/ c = d
  BY Replied, PhasesOf, ClockIsInt DEF HandleAck
<1>4. state' = [state EXCEPT ![n] = "IDLE"] BY DEF HandleAck
<1>5. \A k \in Nodes : state'[k] = "AWAITING_SET" => k \notin Starters BY <1>4 DEF OnePending, SetIsAwaited, TypeOK
<1>6. \A c \in net' : Pending(c) /\ c \in net \ {m} => Awaiter(c) # m.src BY <1>2 DEF OnePending, SetIsAwaited
<1>7. \A c \in net' : c \notin net \ {m} => Awaiter(c) = m.src BY <1>3 DEF Awaiter
<1>8. \A c \in net' : Pending(c) => state'[Awaiter(c)] = "AWAITING_SET"
  <2>1. \A c \in net : Pending(c) => state'[Awaiter(c)] = "AWAITING_SET"
    BY <1>1, <1>4, AwaiterType DEF OnePending, SetIsAwaited, TypeOK
  <2> QED BY <1>2, <1>7, <2>1
<1>9. \A c, d \in net' : Pending(c) /\ Pending(d) /\ Awaiter(c) = Awaiter(d) => c = d
  BY <1>3, <1>6, <1>7 DEF OnePending, SetIsAwaited
<1>10. OnePending' BY <1>5, <1>8, <1>9 DEF OnePending, SetIsAwaited, Pending, Awaiter
<1> QED BY <1>2, <1>3, <1>10

LEMMA SetPending ==
  ASSUME TypeOK, OnePending, NEW m \in net, HandleSet(m.dst, m)
  PROVE  /\ OnePending' /\ state[m.dst] = "AWAITING_SET" /\ Pending(m) /\ m.phase = "SET"
         /\ \A c \in net' : c \in net /\ (Pending(c) => Awaiter(c) # m.dst)
<1>1. Pending(m) /\ Awaiter(m) = m.dst /\ m.phase = "SET" BY DEF HandleSet, Receive, Pending, Awaiter
<1>2. state[m.dst] = "AWAITING_SET" BY <1>1 DEF OnePending, SetIsAwaited
<1>3. \A c \in net' : c \in net /\ c # m BY DEF HandleSet, Consume
<1>4. \A c \in net' : Pending(c) => Awaiter(c) # m.dst BY <1>1, <1>3 DEF OnePending, SetIsAwaited
<1>5. state' = [state EXCEPT ![m.dst] = "SYNCED"] BY <1>2 DEF HandleSet
<1>6. \A k \in Nodes : state'[k] = "AWAITING_SET" => state[k] = "AWAITING_SET" BY <1>5 DEF TypeOK
<1>7. \A c \in net' : Pending(c) => state'[Awaiter(c)] = state[Awaiter(c)]
  BY <1>3, <1>4, <1>5, AwaiterType DEF TypeOK
<1>8. OnePending' BY <1>3, <1>6, <1>7, PendingKept
<1> QED BY <1>1, <1>2, <1>3, <1>4, <1>8

LEMMA IgnoredPending ==
  ASSUME OnePending, NEW m \in net, Consume(m), UNCHANGED state
  PROVE  OnePending' /\ net' \subseteq net
BY PendingKept DEF Consume

LEMMA OlderPending ==
  ASSUME TypeOK, Tick, NEW c \in net'
  PROVE  \E m \in net : /\ c = [m EXCEPT !.age = @ + 1] /\ c.age = m.age + 1
                      /\ c.phase = m.phase /\ c.src = m.src /\ c.dst = m.dst
                      /\ Pending(c) = Pending(m) /\ Awaiter(c) = Awaiter(m)
<1>1. PICK m \in net : c = [m EXCEPT !.age = @ + 1] BY Older
<1>2. m \in Message BY DEF TypeOK
<1>3. c.age = m.age + 1 /\ c.phase = m.phase /\ c.src = m.src /\ c.dst = m.dst BY <1>1, <1>2 DEF Message
<1> QED BY <1>1, <1>3 DEF Pending, Awaiter

LEMMA TickPending == ASSUME TypeOK, OnePending, Tick PROVE OnePending'
<1>1. UNCHANGED state BY DEF Tick, node
<1>2. \A c \in net' : Pending(c) => state[Awaiter(c)] = "AWAITING_SET" BY OlderPending DEF OnePending, SetIsAwaited
<1>3. ASSUME NEW c \in net', NEW d \in net', Pending(c), Pending(d), Awaiter(c) = Awaiter(d) PROVE c = d
  <2>1. PICK m \in net : c = [m EXCEPT !.age = @ + 1] /\ Pending(c) = Pending(m) /\ Awaiter(c) = Awaiter(m)
    BY OlderPending
  <2>2. PICK k \in net : d = [k EXCEPT !.age = @ + 1] /\ Pending(d) = Pending(k) /\ Awaiter(d) = Awaiter(k)
    BY OlderPending
  <2>3. Pending(m) /\ Pending(k) /\ Awaiter(m) = Awaiter(k) BY <1>3, <2>1, <2>2
  <2>4. m = k BY <2>3 DEF OnePending, SetIsAwaited
  <2> QED BY <2>1, <2>2, <2>4
<1> QED BY <1>1, <1>2, <1>3 DEF OnePending, SetIsAwaited, Pending, Awaiter

LEMMA PendingStep ==
  ASSUME OneMaster, TypeOK, NoEcho, Roles, OnePending, [Next]_vars PROVE OnePending'
<1>1. CASE \E n \in Nodes, target \in Targets : target # n /\
             (Synchronize(n, target) \/ Resynchronize(n, target) \/ Check(n, target))
  BY <1>1, OperatorPending
<1>2. CASE \E n \in Nodes : SetTime(n, 0) BY <1>2, PendingKept DEF SetTime
<1>3. CASE \E m \in net : Lose(m) BY <1>3, IgnoredPending DEF Lose, node
<1>4. ASSUME NEW m \in net, Handle(m.dst, m) PROVE OnePending'
  <2>1. CASE HandleCheck(m.dst, m) BY <2>1, CheckPending
  <2>2. CASE HandleSync(m.dst, m) BY <2>2, SyncPending
  <2>3. CASE HandleAck(m.dst, m) BY <2>3, AckPending
  <2>4. CASE HandleSet(m.dst, m) BY <2>4, SetPending
  <2>5. CASE IgnoreSync(m.dst, m) \/ HandleResync(m.dst, m) \/ IgnoreAck(m.dst, m)
    BY <2>5, IgnoredPending DEF IgnoreSync, HandleResync, IgnoreAck, node
  <2> QED BY <1>4, <2>1, <2>2, <2>3, <2>4, <2>5 DEF Handle
<1>5. CASE Tick BY <1>5, TickPending
<1>6. CASE UNCHANGED vars BY <1>6, PendingKept DEF vars
<1> QED BY <1>1, <1>2, <1>3, <1>4, <1>5, <1>6 DEF Next

-----------------------------------------------------------------------------
(* The time a slave waits.                                                  *)
LEMMA ElapsedKept ==
  ASSUME NEW n \in Nodes, time' = time, latency'[n] = latency[n] PROVE Elapsed(n)' = Elapsed(n)
BY DEF Elapsed, Millis

LEMMA TimingKept ==
  ASSUME TypeOK, Timing, time' = time,
         \A c \in net' : Pending(c) => c \in net /\ latency'[Awaiter(c)] = latency[Awaiter(c)]
  PROVE  Timing'
<1> SUFFICES ASSUME NEW c \in net', Pending(c)
             PROVE  IF c.phase = "ACK" THEN Elapsed(c.src)' = c.age
                    ELSE c.age <= Elapsed(c.dst)' /\ Elapsed(c.dst)' <= c.age + MaxDelay
  BY DEF Timing, Timely, Pending
<1>1. c \in net /\ Timely(c) BY DEF Timing
<1>2. Elapsed(Awaiter(c))' = Elapsed(Awaiter(c)) BY <1>1, ElapsedKept, AwaiterType
<1>3. Awaiter(c) = IF c.phase = "SET" THEN c.dst ELSE c.src BY DEF Awaiter
<1> QED BY <1>1, <1>2, <1>3 DEF Timely, Pending

LEMMA LatencyKept ==
  ASSUME LatencyIsPossible,
         \A n \in Nodes : state'[n] = "SYNCED" => state[n] = "SYNCED" /\ latency'[n] = latency[n]
  PROVE  LatencyIsPossible'
BY DEF LatencyIsPossible

LEMMA SyncTiming ==
  ASSUME OneMaster, TypeOK, NoEcho, Roles, OnePending, Timing, NEW m \in net, HandleSync(m.dst, m)
  PROVE  Timing'
<1> DEFINE n == m.dst
<1>1. n \in Nodes /\ time' = time /\ latency' = [latency EXCEPT ![n] = Millis(n)]
  BY DEF HandleSync, Receive, TypeOK, Message
<1>2. /\ \A c \in net : Pending(c) => Awaiter(c) # n
      /\ \A c \in net' : c \in net \/ (c.phase = "ACK" /\ c.src = n /\ c.age = 0)
  BY SyncPending
<1>3. Elapsed(n)' = 0
  <2>1. latency'[n] = Millis(n) BY <1>1 DEF TypeOK
  <2>2. Elapsed(n)' = (Millis(n) - Millis(n)) % Wrap BY <1>1, <2>1 DEF Elapsed, Millis
  <2>3. Millis(n) - Millis(n) = 0 BY <1>1, MillisType, ClockIsInt
  <2>4. 0 % Wrap = 0 BY Within, ClockAssumption DEF Clock
  <2> QED BY <2>2, <2>3, <2>4
<1> SUFFICES ASSUME NEW c \in net', Pending(c)
             PROVE  IF c.phase = "ACK" THEN Elapsed(c.src)' = c.age
                    ELSE c.age <= Elapsed(c.dst)' /\ Elapsed(c.dst)' <= c.age + MaxDelay
  BY DEF Timing, Timely, Pending
<1>4. CASE c \in net
  <2>1. Timely(c) /\ Awaiter(c) # n BY <1>2, <1>4 DEF Timing
  <2>2. latency'[Awaiter(c)] = latency[Awaiter(c)] BY <1>1, <1>4, <2>1, AwaiterType DEF TypeOK
  <2>3. Elapsed(Awaiter(c))' = Elapsed(Awaiter(c)) BY <1>1, <1>4, <2>2, ElapsedKept, AwaiterType
  <2>4. Awaiter(c) = IF c.phase = "SET" THEN c.dst ELSE c.src BY DEF Awaiter
  <2> QED BY <2>1, <2>3, <2>4 DEF Timely, Pending
<1>5. CASE c \notin net BY <1>2, <1>3, <1>5
<1> QED BY <1>4, <1>5

LEMMA AckTiming ==
  ASSUME OneMaster, TypeOK, NoEcho, Roles, OnePending, Timing, NEW m \in net, HandleAck(m.dst, m)
  PROVE  Timing'
<1>1. UNCHANGED <<time, latency>> BY DEF HandleAck, Receive
<1>2. /\ Pending(m)
      /\ \A c \in net' : c \in net \/ (c.phase = "SET" /\ c.dst = m.src /\ c.age = 0)
  BY AckPending
<1>3. m.src \in Nodes /\ m.age \in 0 .. MaxDelay /\ m.phase = "ACK" BY DEF HandleAck, Receive, TypeOK, Message
<1>4. Elapsed(m.src) = m.age BY <1>2, <1>3 DEF Timing, Timely
<1> SUFFICES ASSUME NEW c \in net', Pending(c)
             PROVE  IF c.phase = "ACK" THEN Elapsed(c.src)' = c.age
                    ELSE c.age <= Elapsed(c.dst)' /\ Elapsed(c.dst)' <= c.age + MaxDelay
  BY DEF Timing, Timely, Pending
<1>5. CASE c \in net
  <2>1. Timely(c) /\ c.src \in Nodes /\ c.dst \in Nodes BY <1>5 DEF Timing, TypeOK, Message
  <2>2. Elapsed(c.src)' = Elapsed(c.src) /\ Elapsed(c.dst)' = Elapsed(c.dst) BY <1>1, <2>1, ElapsedKept
  <2> QED BY <2>1, <2>2 DEF Timely
<1>6. CASE c \notin net
  <2>1. c.phase = "SET" /\ c.dst = m.src /\ c.age = 0 BY <1>2, <1>6
  <2>2. Elapsed(c.dst)' = m.age BY <1>1, <1>3, <1>4, <2>1, ElapsedKept
  <2> QED BY <1>3, <2>1, <2>2, ClockAssumption
<1> QED BY <1>5, <1>6

(* The SET comes at most two delays after the SYNC.                        *)
LEMMA SetElapsed ==
  ASSUME TypeOK, OnePending, Timing, NEW m \in net, HandleSet(m.dst, m)
  PROVE  /\ m.dst \in Nodes /\ m.age \in 0 .. MaxDelay /\ m.ts \in Clock
         /\ Elapsed(m.dst) \in m.age .. m.age + MaxDelay
         /\ HalfRoundTrip(m.dst) = Elapsed(m.dst) \div 2
<1>1. Pending(m) /\ m.phase = "SET" BY SetPending
<1>2. m.dst \in Nodes /\ m.age \in 0 .. MaxDelay /\ m.ts \in Clock BY DEF TypeOK, Message
<1>3. m.age <= Elapsed(m.dst) /\ Elapsed(m.dst) <= m.age + MaxDelay BY <1>1 DEF Timing, Timely
<1>4. Elapsed(m.dst) \in Int BY <1>2, HalfType, ClockIsInt
<1> QED BY <1>2, <1>3, <1>4, ClockAssumption DEF HalfRoundTrip, Elapsed

LEMMA SetTiming ==
  ASSUME TypeOK, OnePending, Timing, LatencyIsPossible, NEW m \in net, HandleSet(m.dst, m)
  PROVE  Timing' /\ LatencyIsPossible'
<1> DEFINE n == m.dst
<1>1. /\ n \in Nodes /\ state[n] = "AWAITING_SET" /\ time' = time
      /\ \A c \in net' : c \in net /\ (Pending(c) => Awaiter(c) # n)
  BY SetPending DEF HandleSet, Receive, TypeOK, Message
<1>2. latency' = [latency EXCEPT ![n] = HalfRoundTrip(n)] /\ state' = [state EXCEPT ![n] = "SYNCED"]
  BY <1>1 DEF HandleSet
<1>3. Timing'
  <2>1. \A c \in net' : Pending(c) => latency'[Awaiter(c)] = latency[Awaiter(c)]
    BY <1>1, <1>2, AwaiterType DEF TypeOK
  <2> QED BY <1>1, <2>1, TimingKept
<1>4. HalfRoundTrip(n) <= MaxDelay BY SetElapsed, ClockAssumption
<1>5. LatencyIsPossible' BY <1>1, <1>2, <1>4 DEF LatencyIsPossible, TypeOK
<1> QED BY <1>3, <1>5

LEMMA TickElapsed ==
  ASSUME TypeOK, Tick, NEW n \in Nodes, Elapsed(n) < Wrap - 1
  PROVE  Elapsed(n)' = Elapsed(n) + 1
<1>1. time \in Clock /\ Offset[n] \in Clock /\ latency[n] \in Clock BY ClockAssumption DEF TypeOK, Clock
<1>2. time' = (time + 1) % Wrap /\ latency' = latency BY DEF Tick, node
<1> QED BY <1>1, <1>2, NextTime DEF Elapsed, Millis

LEMMA TickTiming == ASSUME TypeOK, Timing, Tick PROVE Timing'
<1> SUFFICES ASSUME NEW c \in net', Pending(c)
             PROVE  IF c.phase = "ACK" THEN Elapsed(c.src)' = c.age
                    ELSE c.age <= Elapsed(c.dst)' /\ Elapsed(c.dst)' <= c.age + MaxDelay
  BY DEF Timing, Timely, Pending
<1>1. PICK m \in net : /\ c.age = m.age + 1 /\ c.phase = m.phase /\ c.src = m.src /\ c.dst = m.dst
                      /\ Pending(c) = Pending(m) /\ Awaiter(c) = Awaiter(m)
  BY OlderPending
<1>2. Timely(m) /\ m.age < MaxDelay BY <1>1 DEF Timing, Tick
<1>3. m.src \in Nodes /\ m.dst \in Nodes /\ m.age \in 0 .. MaxDelay BY DEF TypeOK, Message
<1>4. Elapsed(m.src) \in Int /\ Elapsed(m.dst) \in Int BY <1>3, HalfType, ClockIsInt
<1>5. CASE m.phase = "ACK"
  <2>1. Elapsed(m.src) = m.age BY <1>2, <1>5 DEF Timely
  <2>2. Elapsed(m.src) < Wrap - 1 BY <1>2, <1>3, <2>1, ClockAssumption
  <2>3. Elapsed(m.src)' = Elapsed(m.src) + 1 BY <1>3, <2>2, TickElapsed
  <2> QED BY <1>1, <1>5, <2>1, <2>3
<1>6. CASE m.phase # "ACK"
  <2>1. m.age <= Elapsed(m.dst) /\ Elapsed(m.dst) <= m.age + MaxDelay BY <1>2, <1>6 DEF Timely
  <2>2. Elapsed(m.dst) < Wrap - 1 BY <1>2, <1>3, <1>4, <2>1, ClockAssumption
  <2>3. Elapsed(m.dst)' = Elapsed(m.dst) + 1 BY <1>3, <2>2, TickElapsed
  <2> QED BY <1>1, <1>3, <1>4, <1>6, <2>1, <2>3, ClockAssumption
<1> QED BY <1>5, <1>6

LEMMA TimingStep ==
  ASSUME OneMaster, TypeOK, NoEcho, Roles, OnePending, Timing, LatencyIsPossible, [Next]_vars
  PROVE  Timing' /\ LatencyIsPossible'
<1>1. ASSUME NEW n \in Nodes, NEW target \in Targets, target # n,
             Synchronize(n, target) \/ Resynchronize(n, target) \/ Check(n, target)
      PROVE  Timing' /\ LatencyIsPossible'
  <2>1. \A c \in net' : Pending(c) => c \in net BY <1>1, OperatorPending
  <2>2. UNCHANGED <<time, latency>> BY <1>1 DEF Synchronize, Resynchronize, Check, Operator, node
  <2>3. \A k \in Nodes : state'[k] = "SYNCED" => state[k] = "SYNCED"
    BY <1>1 DEF Synchronize, Resynchronize, Check, node, TypeOK
  <2> QED BY <2>1, <2>2, <2>3, TimingKept, LatencyKept
<1>2. CASE \E n \in Nodes : SetTime(n, 0) BY <1>2, TimingKept, LatencyKept DEF SetTime, Operator
<1>3. CASE \E m \in net : Lose(m) BY <1>3, TimingKept, LatencyKept DEF Lose, Consume, node
<1>4. ASSUME NEW m \in net, Handle(m.dst, m) PROVE Timing' /\ LatencyIsPossible'
  <2>1. CASE HandleCheck(m.dst, m)
    <3>1. \A c \in net' : Pending(c) => c \in net BY <2>1, CheckPending
    <3> QED BY <2>1, <3>1, TimingKept, LatencyKept DEF HandleCheck, Receive, node
  <2>2. CASE HandleSync(m.dst, m)
    <3>1. \A k \in Nodes : state'[k] = "SYNCED" => state[k] = "SYNCED" /\ latency'[k] = latency[k]
      BY <2>2 DEF HandleSync, TypeOK
    <3> QED BY <2>2, <3>1, SyncTiming, LatencyKept
  <2>3. CASE HandleAck(m.dst, m)
    <3>1. \A k \in Nodes : state'[k] = "SYNCED" => state[k] = "SYNCED" /\ latency'[k] = latency[k]
      BY <2>3 DEF HandleAck, TypeOK
    <3> QED BY <2>3, <3>1, AckTiming, LatencyKept
  <2>4. CASE HandleSet(m.dst, m) BY <2>4, SetTiming
  <2>5. CASE IgnoreSync(m.dst, m) \/ HandleResync(m.dst, m) \/ IgnoreAck(m.dst, m)
    <3>1. UNCHANGED <<time, state, latency>> /\ net' \subseteq net
      BY <2>5 DEF IgnoreSync, HandleResync, IgnoreAck, Receive, Consume, node
    <3> QED BY <3>1, TimingKept, LatencyKept
  <2> QED BY <1>4, <2>1, <2>2, <2>3, <2>4, <2>5 DEF Handle
<1>5. CASE Tick BY <1>5, TickTiming, LatencyKept DEF Tick, node
<1>6. CASE UNCHANGED vars BY <1>6, TimingKept, LatencyKept DEF vars
<1> QED BY <1>1, <1>2, <1>3, <1>4, <1>5, <1>6 DEF Next

-----------------------------------------------------------------------------
(* The clock a slave is given.                                              *)
LEMMA Adjusted ==
  ASSUME NEW a \in Clock, NEW x \in Int, 0 <= x, x < 2 * Wrap
  PROVE  (a + ((x - a) % Wrap)) % Wrap = x % Wrap
<1>1. CASE x < a
  <2>1. (x - a) % Wrap = x - a + Wrap BY <1>1, Below, ClockAssumption DEF Clock
  <2>2. a + ((x - a) % Wrap) = x + Wrap BY <2>1, ClockAssumption DEF Clock
  <2>3. (x + Wrap) % Wrap = x BY <1>1, Above, ClockAssumption DEF Clock
  <2>4. x % Wrap = x BY <1>1, Within, ClockAssumption DEF Clock
  <2> QED BY <2>2, <2>3, <2>4
<1>2. CASE a <= x /\ x - a < Wrap
  <2>1. (x - a) % Wrap = x - a BY <1>2, Within, ClockAssumption DEF Clock
  <2>2. a + ((x - a) % Wrap) = x BY <2>1, ClockAssumption DEF Clock
  <2> QED BY <2>2
<1>3. CASE Wrap <= x - a
  <2>1. (x - a) % Wrap = x - a - Wrap BY <1>3, Above, ClockAssumption DEF Clock
  <2>2. a + ((x - a) % Wrap) = x - Wrap BY <2>1, ClockAssumption DEF Clock
  <2>3. (x - Wrap) % Wrap = x - Wrap BY <1>3, Within, ClockAssumption DEF Clock
  <2>4. x % Wrap = x - Wrap BY <1>3, Above, ClockAssumption DEF Clock
  <2> QED BY <2>2, <2>3, <2>4
<1> QED BY <1>1, <1>2, <1>3, ClockAssumption DEF Clock

LEMMA ApartAtMost ==
  ASSUME NEW t \in Clock, NEW h \in 0 .. MaxDelay, NEW g \in 0 .. MaxDelay
  PROVE  /\ Apart((t + h) % Wrap, t + g) \in Int
         /\ Apart((t + h) % Wrap, t + g) <= IF h >= g THEN h - g ELSE g - h
<1> DEFINE a == (t + h) % Wrap
           b == t + g
<1>1. a = IF t + h < Wrap THEN t + h ELSE t + h - Wrap
  <2>1. CASE t + h < Wrap BY <2>1, Within, ClockAssumption DEF Clock
  <2>2. CASE t + h >= Wrap BY <2>2, Above, ClockAssumption DEF Clock
  <2> QED BY <2>1, <2>2, ClockAssumption DEF Clock
<1>2. a \in Int /\ b \in Int /\ a - b \in Int /\ b - a \in Int BY <1>1, ClockAssumption DEF Clock
<1>3. (a - b) % Wrap \in Int /\ (b - a) % Wrap \in Int BY <1>2, InClock, ClockIsInt
<1>4. CASE h >= g
  <2>1. CASE t + h < Wrap
    <3>1. a - b = h - g BY <1>1, <2>1, ClockAssumption DEF Clock
    <3>2. (h - g) % Wrap = h - g BY <1>4, Within, ClockAssumption DEF Clock
    <3> QED BY <1>3, <1>4, <3>1, <3>2, ClockAssumption DEF Apart
  <2>2. CASE t + h >= Wrap
    <3>1. a - b = h - g - Wrap BY <1>1, <2>2, ClockAssumption DEF Clock
    <3>2. (h - g - Wrap) % Wrap = h - g BY <1>4, Below, ClockAssumption DEF Clock
    <3> QED BY <1>3, <1>4, <3>1, <3>2, ClockAssumption DEF Apart
  <2> QED BY <2>1, <2>2, ClockAssumption DEF Clock
<1>5. CASE h < g
  <2>1. CASE t + h < Wrap
    <3>1. b - a = g - h BY <1>1, <2>1, ClockAssumption DEF Clock
    <3>2. (g - h) % Wrap = g - h BY <1>5, Within, ClockAssumption DEF Clock
    <3> QED BY <1>3, <1>5, <3>1, <3>2, ClockAssumption DEF Apart
  <2>2. CASE t + h >= Wrap
    <3>1. b - a = g - h + Wrap BY <1>1, <2>2, ClockAssumption DEF Clock
    <3>2. (g - h + Wrap) % Wrap = g - h BY <1>5, Above, ClockAssumption DEF Clock
    <3> QED BY <1>3, <1>5, <3>1, <3>2, ClockAssumption DEF Apart
  <2> QED BY <2>1, <2>2, ClockAssumption DEF Clock
<1> QED BY <1>4, <1>5, ClockAssumption

LEMMA ClockSet ==
  ASSUME TypeOK, NEW n \in Nodes, NEW t \in Clock, NEW h \in 0 .. MaxDelay, time' = time,
         delta' = [delta EXCEPT ![n] = (t + h - Millis(n)) % Wrap]
  PROVE  Ms(n)' = (t + h) % Wrap
<1>1. Ms(n)' = (Millis(n) + ((t + h - Millis(n)) % Wrap)) % Wrap BY DEF Ms, Millis, TypeOK
<1>2. t + h \in Int /\ 0 <= t + h /\ t + h < 2 * Wrap BY ClockAssumption DEF Clock
<1>3. Millis(n) \in Clock BY MillisType
<1>4. t + h - Millis(n) = (t + h) - Millis(n) BY <1>3, ClockAssumption DEF Clock
<1>5. (Millis(n) + (((t + h) - Millis(n)) % Wrap)) % Wrap = (t + h) % Wrap BY <1>2, <1>3, Adjusted
<1> QED BY <1>1, <1>4, <1>5

LEMMA SetIsClose ==
  ASSUME TypeOK, OnePending, Timing, NEW m \in net, HandleSet(m.dst, m)
  PROVE  2 * Apart(Ms(m.dst)', m.ts + m.age) <= MaxDelay + 1
<1> DEFINE h == HalfRoundTrip(m.dst)
<1>1. /\ m.dst \in Nodes /\ m.age \in 0 .. MaxDelay /\ m.ts \in Clock
      /\ Elapsed(m.dst) \in m.age .. m.age + MaxDelay /\ h = Elapsed(m.dst) \div 2
  BY SetElapsed
<1>2. h \in 0 .. MaxDelay /\ 2 * (h - m.age) <= MaxDelay + 1 /\ 2 * (m.age - h) <= MaxDelay + 1
  <2>1. ASSUME NEW e \in Nat PROVE e \div 2 \in Nat /\ 2 * (e \div 2) <= e /\ e <= 2 * (e \div 2) + 1
    OBVIOUS
  <2>2. Elapsed(m.dst) \in Nat BY <1>1, ClockAssumption
  <2>3. h \in Nat /\ 2 * h <= Elapsed(m.dst) /\ Elapsed(m.dst) <= 2 * h + 1 BY <1>1, <2>1, <2>2
  <2> HIDE DEF h
  <2> QED BY <1>1, <2>2, <2>3, ClockAssumption
<1>3. Ms(m.dst)' = (m.ts + h) % Wrap
  <2>1. state[m.dst] = "AWAITING_SET" BY SetPending
  <2>2. time' = time /\ delta' = [delta EXCEPT ![m.dst] = (m.ts + h - Millis(m.dst)) % Wrap]
    BY <2>1 DEF HandleSet, Receive
  <2> QED BY <1>1, <1>2, <2>2, ClockSet
<1> HIDE DEF h
<1>4. Apart(Ms(m.dst)', m.ts + m.age) <= IF h >= m.age THEN h - m.age ELSE m.age - h
  BY <1>1, <1>2, <1>3, ApartAtMost
<1>5. Apart(Ms(m.dst)', m.ts + m.age) \in Int BY <1>1, <1>2, <1>3, ApartAtMost
<1> QED BY <1>1, <1>2, <1>4, <1>5, ClockAssumption

LEMMA ResyncIsClose ==
  ASSUME TypeOK, LatencyIsPossible, NEW m \in net, HandleResync(m.dst, m), state[m.dst] = "SYNCED"
  PROVE  Apart(Ms(m.dst)', m.ts + m.age) <= MaxDelay
<1> DEFINE h == latency[m.dst]
<1>1. m.dst \in Nodes /\ m.age \in 0 .. MaxDelay /\ m.ts \in Clock BY DEF TypeOK, Message
<1>2. h \in 0 .. MaxDelay BY <1>1, ClockAssumption DEF LatencyIsPossible, TypeOK, Clock
<1>3. time' = time /\ delta' = [delta EXCEPT ![m.dst] = (m.ts + h - Millis(m.dst)) % Wrap]
  BY DEF HandleResync, Receive
<1>4. Ms(m.dst)' = (m.ts + h) % Wrap BY <1>1, <1>2, <1>3, ClockSet
<1> HIDE DEF h
<1>5. Apart(Ms(m.dst)', m.ts + m.age) <= IF h >= m.age THEN h - m.age ELSE m.age - h
  BY <1>1, <1>2, <1>4, ApartAtMost
<1>6. Apart(Ms(m.dst)', m.ts + m.age) \in Int BY <1>1, <1>2, <1>4, ApartAtMost
<1> QED BY <1>1, <1>2, <1>5, <1>6, ClockAssumption

-----------------------------------------------------------------------------
LEMMA SyncInvariant == ASSUME OneMaster PROVE Spec => []SyncInv
<1>1. Init => SyncInv
  <2>1. Init => Roles /\ OnePending /\ Timing /\ LatencyIsPossible
    BY DEF Init, Roles, OnePending, SetIsAwaited, Timing, LatencyIsPossible
  <2> QED BY <2>1, BaseInit DEF SyncInv
<1>2. SyncInv /\ [Next]_vars => SyncInv' BY BaseStep, RolesStep, PendingStep, TimingStep DEF SyncInv
<1> QED BY <1>1, <1>2, PTL DEF Spec

(* An ACK to the master or a SET under way belongs to the one exchange its  *)
(* slave waits in, whatever is lost, delayed or started again (synchronize, *)
(* TimeSync.cpp); ACKs that answer a CHECK of a slave are not spoken of.    *)
THEOREM SetCorrect == ASSUME OneMaster PROVE Spec => []SetIsAwaited
<1>1. SyncInv => SetIsAwaited BY DEF SyncInv, OnePending
<1> QED BY <1>1, SyncInvariant, PTL

(* Half the round trip is a latency the link can have, also where clocks   *)
(* wrap between the ACK and the SET.                                        *)
THEOREM LatencyCorrect == ASSUME OneMaster PROVE Spec => []LatencyIsPossible
<1>1. SyncInv => LatencyIsPossible BY DEF SyncInv
<1> QED BY <1>1, SyncInvariant, PTL

(* A SET brings the slave's clock within half the largest delay of the     *)
(* master's, a RESYNC within the largest delay.                            *)
THEOREM ClockCorrect == ASSUME OneMaster PROVE Spec => ClockIsClose
<1>1. SyncInv => \A m \in net :
        /\ HandleSet(m.dst, m) => 2 * Apart(Ms(m.dst)', m.ts + m.age) <= MaxDelay + 1
        /\ HandleResync(m.dst, m) /\ state[m.dst] = "SYNCED"
             => Apart(Ms(m.dst)', m.ts + m.age) <= MaxDelay
  BY SetIsClose, ResyncIsClose DEF SyncInv
<1> QED BY <1>1, SyncInvariant, PTL DEF ClockIsClose
=============================================================================
