--------------------------- MODULE MessageRouting ---------------------------
(***************************************************************************)
(* How messages find their way (MessageHandler.cpp). A module has a serial *)
(* port, with or without a host, and a socket on each of some media (RS485 *)
(* bus, radio, TCP). What comes over one of them and is not for the module *)
(* alone goes out over all the others, with no record of where it has been *)
(* or how far it came. A module that is addressed handles the message; the *)
(* response goes back to the module the message was last sent by, which    *)
(* prints it on its serial port.                                           *)
(*                                                                         *)
(* A packet is a message under way on a medium to one of its modules; it   *)
(* may be lost, and packets overtake each other. The handling of output    *)
(* and sensor messages is in ProgramManager, of time messages in TimeSync. *)
(***************************************************************************)
EXTENDS Naturals, FiniteSets

CONSTANTS
  Modules,     \* by the address (and device id) their configuration gives them
  ANY,         \* SOCKET_ADDR_ANY
  AnyDevice,   \* the device id 0 of a SET_ADDR
  Sensor,      \* the address of a device that is no module and sends sensor data
  Unused,      \* addresses no module has at first
  Media, On,   \* On[x]: the modules that have a socket on medium x
  Narrow,      \* media whose send buffer is too small for a big message
  Hosts,       \* modules whose serial port has a host
  MaxSent      \* bound on the messages hosts and sensors send

ASSUME TopologyAssumption ==
  /\ On \in [Media -> SUBSET Modules] /\ Narrow \subseteq Media
  /\ Hosts \subseteq Modules /\ MaxSent \in Nat
  /\ Cardinality({ANY, Sensor}) = 2
  /\ AnyDevice \notin Modules /\ Modules \cap Unused = {}
  /\ (Modules \cup Unused) \cap {ANY, Sensor} = {}

Addresses == Modules \cup Unused
Ids       == 1 .. MaxSent
Types     == {"output", "poll", "set_addr", "sensor", "dump"}
(* id is history: which message this is, or is the response to. device and  *)
(* newAddress are the contents of a SET_ADDR.                               *)
Message == [id: Ids, type: Types, ack: BOOLEAN, to: Addresses \cup {ANY, Sensor},
            big: BOOLEAN, device: Modules \cup {AnyDevice}, newAddress: Addresses]
(* from is the source address in the socket's own header.                   *)
Packet  == [msg: Message, medium: Media, from: Addresses \cup {Sensor}, at: Modules]

VARIABLES
  address,         \* the handler's address
  source,          \* sourceAddress of each socket of each module
  net,             \* packets under way
  sent, messages,  \* history: how many messages were sent, and which
  lost,            \* history: the ids of which a packet was lost
  handled,         \* history: how often each module handled each message (to 2)
  relayed,         \* history: which module put which message on a medium
  printed          \* responses a module wrote to its serial port, by id

own     == <<address, source>>
history == <<sent, messages, lost>>
vars    == <<own, net, history, handled, relayed, printed>>

TypeOK ==
  /\ address \in [Modules -> Addresses] /\ source \in [Modules -> [Media -> Addresses]]
  /\ net \subseteq Packet /\ sent \in 0 .. MaxSent /\ messages \subseteq Message
  /\ lost \subseteq Ids /\ handled \in [Modules -> [Ids -> 0 .. 2]]
  /\ relayed \subseteq Modules \X Ids /\ printed \subseteq Modules \X Ids

Init ==
  /\ address = [n \in Modules |-> n] /\ source = [n \in Modules |-> [x \in Media |-> n]]
  /\ net = {} /\ sent = 0 /\ messages = {} /\ lost = {}
  /\ handled = [n \in Modules |-> [i \in Ids |-> 0]]
  /\ relayed = {} /\ printed = {}

-----------------------------------------------------------------------------
(* A medium carries a message to every other module on it, also to those it *)
(* is not addressed to.                                                     *)
Packets(n, x, m, from) == {[msg |-> m, medium |-> x, from |-> from, at |-> k] : k \in On[x] \ {n}}

Sockets(n) == {x \in Media : n \in On[x]}

(* Wrong: a message is also sent back over the socket it came from.         *)
EgressAll(n, ingress) == Sockets(n)
(* Wrong: the last socket is left out when there are several.               *)
EgressFirst(n, ingress) == LET E == Sockets(n) \ ingress IN
  IF E = {} THEN E ELSE {CHOOSE x \in E : TRUE}
Egress(n, ingress)    == Sockets(n) \ ingress

(* check_and_forward.                                                       *)
Forwarded(n, m, x) == /\ m.to # address[n] \/ m.to = ANY
                      /\ m.type # "dump"          \* MSG_TYPE_DONT_FORWARD
                      /\ ~(m.big /\ x \in Narrow)
Forwards(n, m, ingress) == UNION {Packets(n, x, m, source[n][x]) :
                                    x \in {y \in Egress(n, ingress) : Forwarded(n, m, y)}}

ForMe(n, m) == m.to \in {address[n], ANY}
(* A response that is addressed is printed, and only sensor data is handled *)
(* as well.                                                                 *)
PrintsOverheard(n, m) == m.ack /\ m.to # ANY      \* Wrong: also what is for others
Prints(n, m)  == ForMe(n, m) /\ m.ack /\ m.to # ANY
Handles(n, m) == ForMe(n, m) /\ (Prints(n, m) => m.type = "sensor")

Renames(n, m) == Handles(n, m) /\ m.type = "set_addr" /\ m.device \in {n, AnyDevice}

(* hmtl_poll_fmt.                                                           *)
Response(m, to) == [m EXCEPT !.ack = TRUE, !.to = to, !.big = FALSE]

Count(n, m) == handled' = IF Handles(n, m) THEN [handled EXCEPT ![n][m.id] = IF @ < 2 THEN @ + 1 ELSE 2]
                                           ELSE handled
Sends(n, packets, m) ==
  relayed' = IF packets = {} THEN relayed ELSE relayed \cup {<<n, m.id>>}

-----------------------------------------------------------------------------
(* check_serial: the host of module n sends. It gives no new address to the *)
(* module it is attached to: process_msg writes the new address to a socket,*)
(* and there is none (src is NULL).                                         *)
HostSends(n, m) ==
  /\ n \in Hosts /\ sent < MaxSent /\ m.id = sent + 1 /\ ~m.ack
  /\ ~Renames(n, m)
  /\ sent' = sent + 1 /\ messages' = messages \cup {m} /\ UNCHANGED <<lost, own>>
  /\ net' = net \cup Forwards(n, m, {})
  /\ Sends(n, Forwards(n, m, {}), m)
  /\ Count(n, m)
  /\ printed' = IF Handles(n, m) /\ m.type \in {"poll", "dump"}
                THEN printed \cup {<<n, m.id>>} ELSE printed

(* check_socket: packet p is received.                                      *)
Receives(p) ==
  LET n        == p.at
      m        == p.msg
      polled   == Handles(n, m) /\ m.type = "poll"
      answer   == IF polled THEN Packets(n, p.medium, Response(m, p.from), source[n][p.medium])
                  ELSE {}
  IN /\ net' = (net \ {p}) \cup Forwards(n, m, {p.medium}) \cup answer
     /\ Sends(n, Forwards(n, m, {p.medium}), m)
     /\ Count(n, m)
     /\ printed' = IF Prints(n, m) \/ (Handles(n, m) /\ m.type = "dump")
                   THEN printed \cup {<<n, m.id>>} ELSE printed
     /\ address' = IF Renames(n, m) THEN [address EXCEPT ![n] = m.newAddress] ELSE address
     /\ source' = IF Renames(n, m) THEN [source EXCEPT ![n][p.medium] = m.newAddress] ELSE source
     /\ UNCHANGED history

Receive == \E p \in net : Receives(p)

(* A device on medium x sends sensor data, to a module or to all.           *)
SensorSends(x, m) ==
  /\ sent < MaxSent /\ m.id = sent + 1 /\ m.type = "sensor" /\ m.ack
  /\ sent' = sent + 1 /\ messages' = messages \cup {m}
  /\ net' = net \cup {[msg |-> m, medium |-> x, from |-> Sensor, at |-> k] : k \in On[x]}
  /\ UNCHANGED <<own, lost, handled, relayed, printed>>

Lose(p) == /\ net' = net \ {p} /\ lost' = lost \cup {p.msg.id}
           /\ UNCHANGED <<own, sent, messages, handled, relayed, printed>>

(* What is sent: only output messages are big; an address is given out once *)
(* and to one module; a dump request is for whoever has the serial port.    *)
Sendable(type, ack) ==
  {m \in [id: {sent + 1}, type: {type}, ack: {ack}, to: Modules \cup {ANY}, big: BOOLEAN,
          device: Modules \cup {AnyDevice}, newAddress: Addresses] :
     /\ m.big => type = "output"
     /\ type = "dump" => m.to = ANY
     /\ IF type = "set_addr"
        THEN /\ m.newAddress \in Unused /\ (m.device = AnyDevice => m.to # ANY)
             /\ \A k \in messages : k.type = "set_addr" => k.newAddress # m.newAddress
        ELSE m.device = m.newAddress /\ m.device = (CHOOSE n \in Modules : TRUE)}

Send == \/ \E n \in Hosts, t \in {"output", "poll", "set_addr", "dump"} :
             \E m \in Sendable(t, FALSE) : HostSends(n, m)
        \/ \E x \in Media, m \in Sendable("sensor", TRUE) : SensorSends(x, m)
Next == Send \/ Receive \/ \E p \in net : Lose(p)
Spec == Init /\ [][Next]_vars

(* Fairness: every module looks at its sockets again and again.             *)
FairSpec == Spec /\ WF_vars(Receive)

-----------------------------------------------------------------------------
(* Topologies. Side[x][k] is what a message can reach that module k receives *)
(* over medium x: k, and what lies beyond it on its other media.            *)
Sides == [Media -> [Modules -> SUBSET Modules]]
Beyond(Side, k, ingress) ==
  {n \in Modules : \E x \in Sockets(k) \ ingress : \E j \in On[x] \ {k} : n \in Side[x][j]}
NoCycle(Side) == \A x \in Media : \A k \in On[x] :
  /\ k \in Side[x][k] /\ Beyond(Side, k, {x}) \subseteq Side[x][k]
  /\ \A j \in On[x] \ {k} : Side[x][j] \cap Side[x][k] = {}
AllReached(Side) ==
  /\ \A x \in Media : Modules \subseteq UNION {Side[x][k] : k \in On[x]}
  /\ \A x \in Media : \A k \in On[x] : Side[x][k] \subseteq {k} \cup Beyond(Side, k, {x})
  /\ \A n \in Hosts : Modules \subseteq {n} \cup Beyond(Side, n, {})
(* The media form no cycle; and, together, join all modules.                *)
Acyclic == \E Side \in Sides : NoCycle(Side)
Tree    == \E Side \in Sides : NoCycle(Side) /\ AllReached(Side)
(* A host's module reaches another one: what it sends is put on a medium.   *)
HostsConnected == \A n \in Hosts : \E x \in Media : n \in On[x] /\ On[x] \ {n} # {}

(* No module handles a message twice, whatever way it came: nothing is sent *)
(* back over the medium it came from, and a response is no new request.     *)
(* It takes media that form no cycle.                                       *)
HandledOnce == \A n \in Modules, i \in Ids : handled[n][i] <= 1

(* Once nothing is under way, a message of which nothing was lost has been  *)
(* handled by every module it was for, however many modules lie between.    *)
(* (A dump request is for the module on the serial port; a big message may  *)
(* not fit; a module that was given another address is not counted.)        *)
DeliveredWhenQuiet ==
  net = {} => \A m \in messages, n \in Modules :
    /\ m.to \in {n, ANY} /\ address[n] = n /\ m.id \notin lost
    /\ ~m.big /\ m.type # "dump"
    => handled[n][m.id] = 1 \/ <<n, m.id>> \in printed

(* A response comes out of a serial port only at a module that sent the     *)
(* request on, or that was asked over this port; sensor data at who it is   *)
(* addressed to ("in case that was the original source", process_msg).      *)
ResponsesGoBack ==
  \A f \in printed : \E m \in messages :
    /\ m.id = f[2]
    /\ CASE m.type = "sensor" -> m.to = f[1]
         [] m.type = "dump"   -> f[1] \in Hosts
         [] OTHER             -> f \in relayed \/ (f[1] \in Hosts /\ m.to = f[1])

(* Forwarding ends: every message dies out.                                 *)
ForwardingEnds == net # {} ~> net = {}
=============================================================================
