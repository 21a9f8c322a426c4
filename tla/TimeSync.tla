------------------------------ MODULE TimeSync ------------------------------
(***************************************************************************)
(* Time synchronisation between HMTL modules (TimeSync.cpp). A node starts *)
(* a synchronisation with SYNC, the others answer ACK, the starter answers *)
(* the first ACK with SET and its clock, and who receives SET takes half   *)
(* the time since its ACK as the latency of the link. RESYNC sends a clock *)
(* alone, CHECK asks for an ACK.                                           *)
(*                                                                         *)
(* Messages are delayed up to MaxDelay, lost and reordered; a broadcast    *)
(* reaches each node on its own. Clocks count modulo Wrap, at one rate.    *)
(***************************************************************************)
EXTENDS Integers, FiniteSets

CONSTANTS
  Nodes, ANY,   \* modules, and SOCKET_ADDR_ANY
  Targets,      \* addresses the operators type
  Starters,     \* nodes whose operator starts synchronisations
  Checkers,     \* nodes whose operator sends checks
  Setters,      \* nodes whose operator sets the time
  Offset,       \* Offset[n]: how far millis() of node n is ahead
  Wrap,         \* clocks are unsigned long: 2^32
  MaxDelay,     \* a message is delivered within this time or lost
  MaxNet        \* bound on the messages in flight when an operator acts

ASSUME NodeAssumption ==
  /\ ANY \notin Nodes /\ Starters \cup Checkers \cup Setters \subseteq Nodes
  /\ Targets \subseteq Nodes \cup {ANY}
ASSUME ClockAssumption ==
  /\ MaxDelay \in Nat /\ Wrap \in Nat /\ Wrap > 4 * MaxDelay /\ MaxNet \in Nat
  /\ Offset \in [Nodes -> 0 .. Wrap - 1]

States  == {"IDLE", "AWAITING_ACK", "AWAITING_SET", "SYNCED"}
Phases  == {"SYNC", "ACK", "SET", "RESYNC", "CHECK"}
Clock   == 0 .. Wrap - 1
Message == [src: Nodes, dst: Nodes, phase: Phases, ts: Clock, age: 0 .. MaxDelay]

VARIABLES
  time,      \* real time
  state, latency, delta,
  net        \* messages in flight; age is the time since they were sent

vars == <<time, state, latency, delta, net>>
node == <<state, latency, delta>>

Millis(n) == (time + Offset[n]) % Wrap
Ms(n)     == (Millis(n) + delta[n]) % Wrap

TypeOK == /\ time \in Clock
          /\ state \in [Nodes -> States]
          /\ latency \in [Nodes -> Clock] /\ delta \in [Nodes -> Clock]
          /\ net \subseteq Message

Init == /\ time = 0 /\ net = {}
        /\ state = [n \in Nodes |-> "IDLE"]
        /\ latency = [n \in Nodes |-> 0] /\ delta = [n \in Nodes |-> 0]

(* sendSyncMsg: what node n puts on the wire, one copy for each receiver.   *)
Copies(n, target, phase, adjustment) ==
  {[src |-> n, dst |-> d, phase |-> phase, ts |-> (Ms(n) + adjustment) % Wrap, age |-> 0] :
     d \in IF target = ANY THEN Nodes \ {n} ELSE {target}}
Send(n, target, phase, adjustment) == net' = net \cup Copies(n, target, phase, adjustment)
Reply(n, m, phase, adjustment) ==
  net' = (net \ {m}) \cup Copies(n, m.src, phase, adjustment)
Consume(m) == net' = net \ {m}

-----------------------------------------------------------------------------
(* What an operator does at node n.                                         *)
Operator == Cardinality(net) < MaxNet /\ UNCHANGED time

(* synchronize without a message; a pending synchronisation is abandoned.   *)
Synchronize(n, target) ==
  /\ Operator /\ n \in Starters
  /\ Send(n, target, "SYNC", 0)
  /\ state' = [state EXCEPT ![n] = "AWAITING_ACK"]
  /\ UNCHANGED <<latency, delta>>

Resynchronize(n, target) ==
  /\ Operator /\ n \in Starters
  /\ Send(n, target, "RESYNC", 0)
  /\ UNCHANGED node

Check(n, target) ==
  /\ Operator /\ n \in Checkers
  /\ Send(n, target, "CHECK", 0)
  /\ UNCHANGED node

(* set: the clock is made to show t.                                        *)
SetTime(n, t) ==
  /\ Operator /\ n \in Setters
  /\ delta' = [delta EXCEPT ![n] = (t - Millis(n)) % Wrap]
  /\ UNCHANGED <<state, latency, net>>

-----------------------------------------------------------------------------
(* synchronize with message m that node n received.                         *)
Receive(n, m, phase) == m \in net /\ m.dst = n /\ m.phase = phase /\ UNCHANGED time

(* The adjustment is latency, whatever latency holds at the moment.         *)
HandleCheck(n, m) ==
  /\ Receive(n, m, "CHECK")
  /\ Reply(n, m, "ACK", latency[n])
  /\ UNCHANGED node

(* Wrong: the time of the SYNC is not kept.                                 *)
HandleSyncUntimed(n, m) ==
  /\ Receive(n, m, "SYNC")
  /\ state[n] \in {"IDLE", "SYNCED"}
  /\ Reply(n, m, "ACK", 0)
  /\ state' = [state EXCEPT ![n] = "AWAITING_SET"]
  /\ UNCHANGED <<latency, delta>>

(* latency holds the time of the SYNC until the SET comes.                  *)
HandleSync(n, m) ==
  /\ Receive(n, m, "SYNC")
  /\ state[n] \in {"IDLE", "SYNCED"}
  /\ latency' = [latency EXCEPT ![n] = Millis(n)]
  /\ Reply(n, m, "ACK", 0)
  /\ state' = [state EXCEPT ![n] = "AWAITING_SET"]
  /\ UNCHANGED delta

IgnoreSync(n, m) ==
  /\ Receive(n, m, "SYNC")
  /\ state[n] \notin {"IDLE", "SYNCED"}
  /\ Consume(m) /\ UNCHANGED node

HandleResync(n, m) ==
  /\ Receive(n, m, "RESYNC")
  /\ delta' = IF state[n] = "SYNCED"
              THEN [delta EXCEPT ![n] = (m.ts + latency[n] - Millis(n)) % Wrap] ELSE delta
  /\ Consume(m) /\ UNCHANGED <<state, latency>>

(* Wrong: every ACK is answered, also when none is awaited.                 *)
HandleAckAlways(n, m) ==
  /\ Receive(n, m, "ACK")
  /\ Reply(n, m, "SET", 0)
  /\ state' = [state EXCEPT ![n] = "IDLE"]
  /\ UNCHANGED <<latency, delta>>

(* Any ACK will do: it is not compared with the SYNC that was sent.         *)
HandleAck(n, m) ==
  /\ Receive(n, m, "ACK")
  /\ state[n] = "AWAITING_ACK"
  /\ Reply(n, m, "SET", 0)
  /\ state' = [state EXCEPT ![n] = "IDLE"]
  /\ UNCHANGED <<latency, delta>>

IgnoreAck(n, m) ==
  /\ Receive(n, m, "ACK")
  /\ state[n] # "AWAITING_ACK"
  /\ Consume(m) /\ UNCHANGED node

(* Wrong: the round trip is taken for the latency.                          *)
WholeRoundTrip(n) == (Millis(n) - latency[n]) % Wrap
HalfRoundTrip(n)   == ((Millis(n) - latency[n]) % Wrap) \div 2

HandleSet(n, m) ==
  /\ Receive(n, m, "SET")
  /\ IF state[n] = "AWAITING_SET"
     THEN /\ latency' = [latency EXCEPT ![n] = HalfRoundTrip(n)]
          /\ delta' = [delta EXCEPT ![n] = (m.ts + HalfRoundTrip(n) - Millis(n)) % Wrap]
          /\ state' = [state EXCEPT ![n] = "SYNCED"]
     ELSE UNCHANGED node
  /\ Consume(m)

(* The network and the clocks. A message too old to be delivered is lost.   *)
Lose(m) == m \in net /\ Consume(m) /\ UNCHANGED <<time, node>>

Tick == /\ \A m \in net : m.age < MaxDelay
        /\ time' = (time + 1) % Wrap
        /\ net' = {[m EXCEPT !.age = @ + 1] : m \in net}
        /\ UNCHANGED node

Handle(n, m) == \/ HandleCheck(n, m) \/ HandleSync(n, m) \/ IgnoreSync(n, m)
                \/ HandleResync(n, m) \/ HandleAck(n, m) \/ IgnoreAck(n, m) \/ HandleSet(n, m)
Next == \/ \E n \in Nodes, target \in Targets : target # n /\
             (Synchronize(n, target) \/ Resynchronize(n, target) \/ Check(n, target))
        \/ \E n \in Nodes : SetTime(n, 0)
        \/ \E m \in net : Lose(m) \/ Handle(m.dst, m)
        \/ Tick

Spec == Init /\ [][Next]_vars

(* Fairness: the operator starts a synchronisation again and again, and the *)
(* network delivers messages of a kind that it is given again and again.    *)
FairSpec ==
  /\ Spec /\ WF_vars(Tick)
  /\ \A n \in Starters : \A s \in Targets \ {n} : SF_vars(Synchronize(n, s))
  /\ \A s \in Nodes, phase \in Phases :
       SF_vars(\E m \in net : m.phase = phase /\ m.dst = s /\ Handle(s, m))

-----------------------------------------------------------------------------
(* An exchange is pending as an ACK on its way to a starter or as the SET   *)
(* that answers it; an ACK to another node only answers its CHECK. The node *)
(* of a pending exchange waits for its SET, and for one exchange at a time: *)
(* no second ACK of it is under way that would be answered with a second    *)
(* SET, however often SYNC is repeated or broadcast and whatever is lost or *)
(* overtaken. It holds as long as no starter sends checks.                  *)
Pending(m) == m.phase = "SET" \/ (m.phase = "ACK" /\ m.dst \in Starters)
Awaiter(m) == IF m.phase = "SET" THEN m.dst ELSE m.src
SetIsAwaited ==
  /\ \A m \in net : Pending(m) => state[Awaiter(m)] = "AWAITING_SET"
  /\ \A m1, m2 \in net : Pending(m1) /\ Pending(m2) /\ Awaiter(m1) = Awaiter(m2) => m1 = m2

(* The latency a synchronised node keeps is one the link can have. ("Set the *)
(* latecy to 1/2 the time between sending the ack and receiving this         *)
(* message", synchronize.) It holds as long as no node that starts           *)
(* synchronisations also sends checks.                                       *)
LatencyIsPossible == \A n \in Nodes : state[n] = "SYNCED" => latency[n] <= MaxDelay

(* A SET leaves the receiver's clock within half the largest delay of the   *)
(* clock that was sent, which advanced by the message's age; a RESYNC within *)
(* the largest delay.                                                       *)
Apart(a, b) == IF (a - b) % Wrap <= (b - a) % Wrap THEN (a - b) % Wrap ELSE (b - a) % Wrap
ClockIsClose ==
  [][\A m \in net :
       /\ HandleSet(m.dst, m) => 2 * Apart(Ms(m.dst)', m.ts + m.age) <= MaxDelay + 1
       /\ HandleResync(m.dst, m) /\ state[m.dst] = "SYNCED"
            => Apart(Ms(m.dst)', m.ts + m.age) <= MaxDelay]_vars

(* "S exits hot-wait" (the protocol at the head of TimeSync.cpp): a node    *)
(* that answered a SYNC does not wait for its SET for ever, if the operator *)
(* keeps trying.                                                            *)
HotWaitEnds == \A n \in Nodes : state[n] = "AWAITING_SET" ~> state[n] # "AWAITING_SET"
=============================================================================
