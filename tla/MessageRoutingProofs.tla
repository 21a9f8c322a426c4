------------------------ MODULE MessageRoutingProofs ------------------------
(* Responses come out where the request came from, in every topology, also *)
(* one with cycles, however addresses are changed. Where the media form no *)
(* cycle nothing is handled twice, and where they also join all modules    *)
(* what is not lost is handled by everyone it is for.                      *)
EXTENDS MessageRouting, TLAPS

(* What hosts and sensors may send, and that an address is given out once. *)
WellSent ==
  /\ \A m \in messages :
       /\ m.to \in Modules \cup {ANY}
       /\ m.ack <=> m.type = "sensor"
       /\ m.big => m.type = "output"
       /\ m.type = "set_addr" => m.newAddress \in Unused /\ (m.device = AnyDevice => m.to # ANY)
  /\ \A m, k \in messages :
       m.type = "set_addr" /\ k.type = "set_addr" /\ m.newAddress = k.newAddress => m = k

(* A module has, and its sockets send from, the address of its             *)
(* configuration or one that a message gave it: no two modules share one.  *)
Gives(m, n) == m.type = "set_addr" /\ (m.device = n \/ (m.device = AnyDevice /\ m.to = n))
Named(n, a) == a = n \/ \E m \in messages : Gives(m, n) /\ m.newAddress = a
Names == \A n \in Modules : Named(n, address[n]) /\ \A x \in Media : Named(n, source[n][x])

(* A packet is a message as it was sent, from a module that put it on a    *)
(* medium, or the response to a poll, to such a module.                    *)
Answers(r) ==
  /\ r.ack /\ r.type = "poll"
  /\ \E m \in messages, k \in Modules :
       m.id = r.id /\ m.type = "poll" /\ Named(k, r.to) /\ <<k, m.id>> \in relayed
FromModule(p) == \E k \in Modules : Named(k, p.from) /\ <<k, p.msg.id>> \in relayed
Routed(p) ==
  /\ p.msg.type # "dump"
  /\ p.msg \in messages \/ Answers(p.msg)
  /\ p.msg.ack \/ FromModule(p)
AllRouted == \A p \in net : Routed(p)

RouteInv == TypeOK /\ WellSent /\ Names /\ AllRouted /\ ResponsesGoBack

-----------------------------------------------------------------------------
(* Types.                                                                   *)
LEMMA PacketsType ==
  ASSUME NEW n, NEW x \in Media, NEW m \in Message, NEW from \in Addresses \cup {Sensor}
  PROVE  /\ Packets(n, x, m, from) \subseteq Packet
         /\ \A p \in Packets(n, x, m, from) : p.msg = m /\ p.medium = x /\ p.from = from
BY TopologyAssumption DEF Packets, Packet

LEMMA ForwardsType ==
  ASSUME TypeOK, NEW n \in Modules, NEW m \in Message, NEW ingress
  PROVE  /\ Forwards(n, m, ingress) \subseteq Packet
         /\ \A p \in Forwards(n, m, ingress) :
              p.msg = m /\ m.type # "dump" /\ \E x \in Media : p.from = source[n][x]
<1> SUFFICES ASSUME NEW p \in Forwards(n, m, ingress)
             PROVE  p \in Packet /\ p.msg = m /\ m.type # "dump" /\ \E x \in Media : p.from = source[n][x]
  OBVIOUS
<1>1. PICK x \in Egress(n, ingress) : Forwarded(n, m, x) /\ p \in Packets(n, x, m, source[n][x])
  BY DEF Forwards
<1>2. x \in Media /\ m.type # "dump" BY <1>1 DEF Egress, Sockets, Forwarded
<1>3. source[n][x] \in Addresses BY <1>2 DEF TypeOK
<1> QED BY <1>1, <1>2, <1>3, PacketsType

LEMMA ResponseType ==
  ASSUME NEW m \in Message, NEW to \in Addresses \cup {ANY, Sensor}
  PROVE  /\ Response(m, to) \in Message
         /\ Response(m, to).ack /\ Response(m, to).to = to
         /\ Response(m, to).id = m.id /\ Response(m, to).type = m.type
BY DEF Response, Message

LEMMA CountType ==
  ASSUME TypeOK, NEW n \in Modules, NEW m \in Message, Count(n, m)
  PROVE  handled' \in [Modules -> [Ids -> 0 .. 2]]
<1>1. m.id \in Ids /\ handled[n][m.id] \in 0 .. 2 BY DEF TypeOK, Message
<1>2. \A h \in 0 .. 2 : (IF h < 2 THEN h + 1 ELSE 2) \in 0 .. 2 OBVIOUS
<1> QED BY <1>1, <1>2 DEF Count, TypeOK

LEMMA SendsType ==
  ASSUME TypeOK, NEW n \in Modules, NEW m \in Message, NEW packets, Sends(n, packets, m)
  PROVE  relayed' \subseteq Modules \X Ids
BY DEF Sends, TypeOK, Message

LEMMA SendableType ==
  ASSUME TypeOK, sent < MaxSent, NEW t \in Types, NEW a \in BOOLEAN, NEW m \in Sendable(t, a)
  PROVE  /\ m \in Message /\ sent + 1 \in 1 .. MaxSent
         /\ m.type = t /\ m.ack = a /\ m.to \in Modules \cup {ANY} /\ (m.big => t = "output")
         /\ t = "set_addr" => /\ m.newAddress \in Unused /\ (m.device = AnyDevice => m.to # ANY)
                              /\ \A k \in messages : k.type = "set_addr" => k.newAddress # m.newAddress
<1>1. sent + 1 \in 1 .. MaxSent BY TopologyAssumption DEF TypeOK
<1>2. /\ m \in [id: {sent + 1}, type: {t}, ack: {a}, to: Modules \cup {ANY}, big: BOOLEAN,
               device: Modules \cup {AnyDevice}, newAddress: Addresses]
      /\ m.big => t = "output"
      /\ t = "set_addr" => /\ m.newAddress \in Unused /\ (m.device = AnyDevice => m.to # ANY)
                           /\ \A k \in messages : k.type = "set_addr" => k.newAddress # m.newAddress
  BY DEF Sendable
<1>3. m \in Message BY <1>1, <1>2 DEF Message, Ids, Addresses
<1> QED BY <1>1, <1>2, <1>3

(* The parts of a step.                                                     *)
LEMMA HostStep ==
  ASSUME TypeOK, NEW n \in Hosts, NEW t \in {"output", "poll", "set_addr", "dump"},
         NEW m \in Sendable(t, FALSE), HostSends(n, m)
  PROVE  /\ n \in Modules /\ m \in Message /\ sent < MaxSent /\ t \in Types
         /\ TypeOK'
<1>1. n \in Modules /\ sent < MaxSent /\ t \in Types BY TopologyAssumption DEF HostSends, Types
<1>2. m \in Message /\ sent + 1 \in 1 .. MaxSent BY <1>1, SendableType
<1>3. net' \subseteq Packet BY <1>1, <1>2, ForwardsType DEF HostSends, TypeOK
<1>4. handled' \in [Modules -> [Ids -> 0 .. 2]] BY <1>1, <1>2, CountType DEF HostSends
<1>5. relayed' \subseteq Modules \X Ids BY <1>1, <1>2, SendsType DEF HostSends
<1>6. printed' \subseteq Modules \X Ids BY <1>1, <1>2 DEF HostSends, TypeOK, Message
<1>7. messages' \subseteq Message /\ sent' \in 0 .. MaxSent BY <1>2, TopologyAssumption DEF HostSends, TypeOK
<1>8. TypeOK' BY <1>3, <1>4, <1>5, <1>6, <1>7 DEF HostSends, TypeOK, own
<1> QED BY <1>1, <1>2, <1>8

LEMMA ReceiveStep ==
  ASSUME TypeOK, NEW p \in net, Receives(p)
  PROVE  p.at \in Modules /\ p.msg \in Message /\ p.medium \in Media
         /\ p.from \in Addresses \cup {Sensor} /\ TypeOK'
<1> DEFINE n == p.at
           m == p.msg
<1>1. n \in Modules /\ m \in Message /\ p.medium \in Media /\ p.from \in Addresses \cup {Sensor}
  BY DEF TypeOK, Packet
<1>2. source[n][p.medium] \in Addresses BY <1>1 DEF TypeOK
<1>3. Packets(n, p.medium, Response(m, p.from), source[n][p.medium]) \subseteq Packet
  BY <1>1, <1>2, ResponseType, PacketsType
<1>4. Forwards(n, m, {p.medium}) \subseteq Packet BY <1>1, ForwardsType
<1>5. net' \subseteq Packet BY <1>3, <1>4 DEF Receives, TypeOK
<1>6. handled' \in [Modules -> [Ids -> 0 .. 2]] BY <1>1, CountType DEF Receives
<1>7. relayed' \subseteq Modules \X Ids BY <1>1, SendsType DEF Receives
<1>8. printed' \subseteq Modules \X Ids BY <1>1 DEF Receives, TypeOK, Message
<1>9. m.newAddress \in Addresses BY <1>1 DEF Message
<1>10. address' \in [Modules -> Addresses] /\ source' \in [Modules -> [Media -> Addresses]]
  BY <1>1, <1>9 DEF Receives, TypeOK
<1> QED BY <1>1, <1>5, <1>6, <1>7, <1>8, <1>10 DEF Receives, TypeOK, history

LEMMA SensorStep ==
  ASSUME TypeOK, NEW x \in Media, NEW m \in Sendable("sensor", TRUE), SensorSends(x, m)
  PROVE  m \in Message /\ sent < MaxSent /\ TypeOK'
<1>1. sent < MaxSent /\ "sensor" \in Types BY DEF SensorSends, Types
<1>2. m \in Message /\ sent + 1 \in 1 .. MaxSent BY <1>1, SendableType
<1>3. net' \subseteq Packet BY <1>2, TopologyAssumption DEF SensorSends, TypeOK, Packet
<1>4. messages' \subseteq Message /\ sent' \in 0 .. MaxSent
  BY <1>2, TopologyAssumption DEF SensorSends, TypeOK
<1> QED BY <1>1, <1>2, <1>3, <1>4 DEF SensorSends, TypeOK, own

LEMMA LoseStep == ASSUME TypeOK, NEW p \in net, Lose(p) PROVE TypeOK'
<1>1. p.msg.id \in Ids BY DEF TypeOK, Packet, Message
<1> QED BY <1>1 DEF Lose, TypeOK, own

LEMMA TypeStep == ASSUME TypeOK, [Next]_vars PROVE TypeOK'
<1>1. CASE Send BY <1>1, HostStep, SensorStep DEF Send
<1>2. CASE Receive BY <1>2, ReceiveStep DEF Receive
<1>3. CASE \E p \in net : Lose(p) BY <1>3, LoseStep
<1>4. CASE UNCHANGED vars BY <1>4 DEF vars, own, history, TypeOK
<1> QED BY <1>1, <1>2, <1>3, <1>4 DEF Next

LEMMA TypeInit == Init => TypeOK
BY TopologyAssumption DEF Init, TypeOK, Addresses, Ids

(* State and packets keep their types, in every topology.                  *)
THEOREM TypeCorrect == Spec => []TypeOK
<1>1. TypeOK /\ [Next]_vars => TypeOK' BY TypeStep
<1> QED BY <1>1, TypeInit, PTL DEF Spec

-----------------------------------------------------------------------------
(* Histories grow, and what they witness stays.                            *)
LEMMA Grows ==
  ASSUME [Next]_vars PROVE messages \subseteq messages' /\ relayed \subseteq relayed'
BY DEF Next, Send, HostSends, SensorSends, Receive, Receives, Lose, Sends, vars, history

LEMMA NamedStays ==
  ASSUME messages \subseteq messages', NEW n, NEW a, Named(n, a) PROVE Named(n, a)'
BY DEF Named, Gives

LEMMA RoutedStays ==
  ASSUME messages \subseteq messages', relayed \subseteq relayed', NEW p, Routed(p) PROVE Routed(p)'
<1>1. \A n, a : Named(n, a) => Named(n, a)' BY NamedStays
<1>2. Answers(p.msg) => Answers(p.msg)' BY <1>1 DEF Answers
<1>3. FromModule(p) => FromModule(p)' BY <1>1 DEF FromModule
<1> QED BY <1>2, <1>3 DEF Routed

(* No two modules share an address.                                        *)
LEMMA OneOwner ==
  ASSUME WellSent, NEW n \in Modules, NEW k \in Modules, NEW a, Named(n, a), Named(k, a) PROVE n = k
<1>1. \A j \in Modules : j \notin Unused /\ j # AnyDevice BY TopologyAssumption
<1>2. \A m \in messages : \A j : Gives(m, j) => m.type = "set_addr" /\ m.newAddress \in Unused
  BY DEF Gives, WellSent
<1>3. CASE a = n
  <2>1. \A m \in messages : Gives(m, k) => m.newAddress # a BY <1>1, <1>2, <1>3
  <2> QED BY <1>3, <2>1 DEF Named
<1>4. CASE a = k
  <2>1. \A m \in messages : Gives(m, n) => m.newAddress # a BY <1>1, <1>2, <1>4
  <2> QED BY <1>4, <2>1 DEF Named
<1>5. CASE a # n /\ a # k
  <2>1. PICK m \in messages : Gives(m, n) /\ m.newAddress = a BY <1>5 DEF Named
  <2>2. PICK j \in messages : Gives(j, k) /\ j.newAddress = a BY <1>5 DEF Named
  <2>3. m = j BY <1>2, <2>1, <2>2 DEF WellSent
  <2> QED BY <1>1, <2>1, <2>2, <2>3 DEF Gives
<1> QED BY <1>3, <1>4, <1>5

(* Who answers to the address of a configuration has it from there.        *)
LEMMA OwnAddress ==
  ASSUME WellSent, Names, NEW n \in Modules, address[n] \in Modules PROVE address[n] = n
<1>1. Named(n, address[n]) /\ Named(address[n], address[n]) BY DEF Names, Named
<1> QED BY <1>1, OneOwner

LEMMA WellSentStep == ASSUME TypeOK, WellSent, [Next]_vars PROVE WellSent'
<1>1. ASSUME NEW t \in Types, NEW a \in BOOLEAN, a <=> t = "sensor", sent < MaxSent,
             NEW m \in Sendable(t, a), messages' = messages \cup {m}
      PROVE  WellSent'
  <2>1. /\ m.type = t /\ m.ack = a /\ m.to \in Modules \cup {ANY} /\ (m.big => t = "output")
        /\ t = "set_addr" => /\ m.newAddress \in Unused /\ (m.device = AnyDevice => m.to # ANY)
                             /\ \A k \in messages : k.type = "set_addr" => k.newAddress # m.newAddress
    BY <1>1, SendableType
  <2> QED BY <1>1, <2>1 DEF WellSent
<1>2. ASSUME NEW n \in Hosts, NEW t \in {"output", "poll", "set_addr", "dump"},
             NEW m \in Sendable(t, FALSE), HostSends(n, m)
      PROVE  WellSent'
  <2>1. t \in Types /\ t # "sensor" /\ sent < MaxSent /\ messages' = messages \cup {m}
    BY <1>2 DEF HostSends, Types
  <2> QED BY <1>1, <1>2, <2>1
<1>3. ASSUME NEW x \in Media, NEW m \in Sendable("sensor", TRUE), SensorSends(x, m) PROVE WellSent'
  <2>1. "sensor" \in Types /\ sent < MaxSent /\ messages' = messages \cup {m}
    BY <1>3 DEF SensorSends, Types
  <2> QED BY <1>1, <1>3, <2>1
<1>4. CASE UNCHANGED messages BY <1>4 DEF WellSent
<1> QED BY <1>2, <1>3, <1>4 DEF Next, Send, Receive, Receives, Lose, history, vars

(* A SET_ADDR renames only a module it was meant for.                      *)
LEMMA RenameGives ==
  ASSUME TypeOK, WellSent, Names, NEW p \in net, Routed(p), Renames(p.at, p.msg)
  PROVE  p.msg \in messages /\ Gives(p.msg, p.at)
<1> DEFINE n == p.at
           m == p.msg
<1>1. n \in Modules /\ m \in messages BY DEF TypeOK, Packet, Routed, Answers, Renames
<1>2. m.type = "set_addr" /\ m.device \in {n, AnyDevice} /\ m.to \in {address[n], ANY}
  BY DEF Renames, Handles, ForMe
<1>3. CASE m.device = AnyDevice
  <2>1. m.to = address[n] /\ m.to \in Modules BY <1>1, <1>2, <1>3 DEF WellSent
  <2> QED BY <1>1, <1>2, <1>3, <2>1, OwnAddress DEF Gives
<1> QED BY <1>1, <1>2, <1>3 DEF Gives

LEMMA NamesStep == ASSUME TypeOK, WellSent, Names, AllRouted, [Next]_vars PROVE Names'
<1>1. \A n, a : Named(n, a) => Named(n, a)' BY Grows, NamedStays
<1>2. CASE UNCHANGED own BY <1>1, <1>2 DEF Names, own
<1>3. ASSUME NEW p \in net, Receives(p) PROVE Names'
  <2> DEFINE n == p.at
             m == p.msg
  <2>1. n \in Modules /\ Routed(p) BY DEF TypeOK, Packet, AllRouted
  <2>2. CASE ~Renames(n, m) BY <1>2, <1>3, <2>2 DEF Receives, own
  <2>3. CASE Renames(n, m)
    <3>1. Named(n, m.newAddress)' BY <1>1, <2>1, <2>3, RenameGives DEF Named
    <3>2. /\ address' = [address EXCEPT ![n] = m.newAddress]
          /\ source' = [source EXCEPT ![n][p.medium] = m.newAddress]
      BY <1>3, <2>3 DEF Receives
    <3>3. \A k \in Modules : address'[k] = address[k] \/ (k = n /\ address'[k] = m.newAddress)
      BY <3>2 DEF TypeOK
    <3>4. \A k \in Modules, x \in Media :
            source'[k][x] = source[k][x] \/ (k = n /\ source'[k][x] = m.newAddress)
      BY <3>2 DEF TypeOK
    <3>5. \A k \in Modules : Named(k, address[k]) /\ \A x \in Media : Named(k, source[k][x]) BY DEF Names
    <3>6. Named(n, m.newAddress) \/ (m \in messages' /\ Gives(m, n))
      BY <2>1, <2>3, Grows, RenameGives
    <3>7. messages \subseteq messages' BY Grows
    <3> QED BY <3>3, <3>4, <3>5, <3>6, <3>7 DEF Names, Named, Gives
  <2> QED BY <2>2, <2>3
<1> QED BY <1>2, <1>3 DEF Next, Send, HostSends, SensorSends, Receive, Lose, vars

-----------------------------------------------------------------------------
(* What is put on a medium is routed.                                       *)
LEMMA ForwardsRouted ==
  ASSUME TypeOK, Names, NEW n \in Modules, NEW m \in Message, NEW ingress,
         messages \subseteq messages', Sends(n, Forwards(n, m, ingress), m),
         m \in messages' \/ Answers(m)', NEW q \in Forwards(n, m, ingress)
  PROVE  Routed(q)'
<1>1. q.msg = m /\ m.type # "dump" /\ \E x \in Media : q.from = source[n][x] BY ForwardsType
<1>2. Named(n, q.from) BY <1>1 DEF Names
<1>3. <<n, m.id>> \in relayed' BY DEF Sends
<1>4. FromModule(q)' BY <1>1, <1>2, <1>3 DEF FromModule, Named, Gives
<1> QED BY <1>1, <1>4 DEF Routed, Answers, Named, Gives

(* Only a request is answered.                                              *)
LEMMA PolledIsRequest ==
  ASSUME TypeOK, WellSent, NEW p \in net, Routed(p), Handles(p.at, p.msg), p.msg.type = "poll"
  PROVE  p.msg \in messages /\ ~p.msg.ack
<1>1. CASE Answers(p.msg)
  <2>1. PICK k \in Modules : Named(k, p.msg.to) BY <1>1 DEF Answers
  <2>2. p.msg.to # ANY BY <2>1, TopologyAssumption DEF Named, Gives, WellSent
  <2> QED BY <1>1, <2>2 DEF Answers, Handles, Prints, ForMe
<1>2. CASE p.msg \in messages BY <1>2 DEF WellSent, TypeOK, Message
<1> QED BY <1>1, <1>2 DEF Routed

LEMMA RoutedStep ==
  ASSUME TypeOK, WellSent, Names, AllRouted, [Next]_vars, NEW q \in net'
  PROVE  Routed(q)'
<1>1. messages \subseteq messages' /\ relayed \subseteq relayed' BY Grows
<1>2. CASE q \in net BY <1>1, <1>2, RoutedStays DEF AllRouted
<1>3. ASSUME NEW n \in Hosts, NEW t \in {"output", "poll", "set_addr", "dump"},
             NEW m \in Sendable(t, FALSE), HostSends(n, m), q \notin net
      PROVE  Routed(q)'
  <2>1. n \in Modules /\ m \in Message BY <1>3, HostStep
  <2>2. q \in Forwards(n, m, {}) /\ m \in messages' /\ Sends(n, Forwards(n, m, {}), m)
    BY <1>3 DEF HostSends
  <2> QED BY <1>1, <2>1, <2>2, ForwardsRouted
<1>4. ASSUME NEW x \in Media, NEW m \in Sendable("sensor", TRUE), SensorSends(x, m), q \notin net
      PROVE  Routed(q)'
  <2>1. m.type = "sensor" /\ m.ack /\ m \in messages' /\ q.msg = m BY <1>4 DEF SensorSends
  <2> QED BY <2>1 DEF Routed
<1>5. ASSUME NEW p \in net, Receives(p), q \notin net PROVE Routed(q)'
  <2> DEFINE n == p.at
             m == p.msg
             answer == Packets(n, p.medium, Response(m, p.from), source[n][p.medium])
  <2>1. n \in Modules /\ m \in Message /\ p.medium \in Media /\ p.from \in Addresses \cup {Sensor}
        /\ Routed(p)
    BY <1>5, ReceiveStep DEF AllRouted
  <2>2. CASE q \in Forwards(n, m, {p.medium})
    <3>1. Sends(n, Forwards(n, m, {p.medium}), m) BY <1>5 DEF Receives
    <3>2. Routed(p)' BY <1>1, <2>1, RoutedStays
    <3>3. m \in messages' \/ Answers(m)' BY <3>2 DEF Routed, Answers, Named, Gives
    <3> QED BY <1>1, <2>1, <2>2, <3>1, <3>3, ForwardsRouted
  <2>3. CASE q \in answer /\ Handles(n, m) /\ m.type = "poll"
    <3>1. m \in messages /\ ~m.ack BY <2>1, <2>3, PolledIsRequest
    <3>2. PICK k \in Modules : Named(k, p.from) /\ <<k, m.id>> \in relayed
      BY <2>1, <3>1 DEF Routed, FromModule
    <3>3. q.msg = Response(m, p.from) BY <2>3 DEF Packets
    <3>4. q.msg.ack /\ q.msg.to = p.from /\ q.msg.id = m.id /\ q.msg.type = "poll"
      BY <2>1, <2>3, <3>3, ResponseType
    <3>5. Answers(q.msg) BY <2>3, <3>1, <3>2, <3>4 DEF Answers
    <3>6. Routed(q) BY <3>4, <3>5 DEF Routed
    <3> QED BY <1>1, <3>6, RoutedStays
  <2>4. q \in Forwards(n, m, {p.medium}) \/ (q \in answer /\ Handles(n, m) /\ m.type = "poll")
    BY <1>5 DEF Receives
  <2> QED BY <2>2, <2>3, <2>4
<1>6. CASE net' \subseteq net BY <1>2, <1>6
<1>7. UNCHANGED vars => net' \subseteq net BY DEF vars
<1>8. \A p \in net : Lose(p) => net' \subseteq net BY DEF Lose
<1> HIDE DEF Routed, vars
<1> QED BY <1>2, <1>3, <1>4, <1>5, <1>6, <1>7, <1>8 DEF Next, Send, Receive

-----------------------------------------------------------------------------
(* Where responses come out.                                                *)
GoesBack(f, m) ==
  /\ m.id = f[2]
  /\ CASE m.type = "sensor" -> m.to = f[1]
       [] m.type = "dump"   -> f[1] \in Hosts
       [] OTHER             -> f \in relayed \/ (f[1] \in Hosts /\ m.to = f[1])
LEMMA GoBack == ResponsesGoBack <=> \A f \in printed : \E m \in messages : GoesBack(f, m)
BY DEF ResponsesGoBack, GoesBack

LEMMA HostPrints ==
  ASSUME HostsConnected, TypeOK, WellSent, Names, NEW n \in Hosts,
         NEW t \in {"output", "poll", "set_addr", "dump"}, NEW m \in Sendable(t, FALSE),
         HostSends(n, m), Handles(n, m), m.type \in {"poll", "dump"}
  PROVE  m \in messages' /\ GoesBack(<<n, m.id>>, m)'
<1>1. n \in Modules /\ sent < MaxSent /\ t \in Types /\ m \in Message BY HostStep
<1>2. m \in messages' BY DEF HostSends
<1>3. CASE m.type = "dump" BY <1>2, <1>3 DEF GoesBack
<1>4. CASE m.type = "poll"
  <2>1. m.type = t /\ m.to \in Modules \cup {ANY} /\ ~m.big BY <1>1, <1>4, SendableType DEF Message
  <2>2. CASE m.to = ANY
    <3>1. PICK x \in Media : n \in On[x] /\ On[x] \ {n} # {} BY DEF HostsConnected
    <3>2. x \in Egress(n, {}) /\ Forwarded(n, m, x)
      BY <1>4, <2>1, <2>2, <3>1 DEF Egress, Sockets, Forwarded
    <3>3. Packets(n, x, m, source[n][x]) # {} BY <3>1 DEF Packets
    <3>4. Forwards(n, m, {}) # {} BY <3>2, <3>3 DEF Forwards
    <3>5. <<n, m.id>> \in relayed' BY <3>4 DEF HostSends, Sends
    <3> QED BY <1>2, <1>4, <3>5 DEF GoesBack
  <2>3. CASE m.to # ANY
    <3>1. m.to = address[n] /\ m.to \in Modules BY <2>1, <2>3 DEF Handles, ForMe
    <3>2. m.to = n BY <1>1, <3>1, OwnAddress
    <3> QED BY <1>2, <1>4, <3>2 DEF GoesBack
  <2> QED BY <2>2, <2>3
<1> QED BY <1>3, <1>4

LEMMA SocketPrints ==
  ASSUME TypeOK, WellSent, Names, NEW p \in net, Routed(p), Receives(p), Prints(p.at, p.msg)
  PROVE  \E m \in messages : GoesBack(<<p.at, p.msg.id>>, m)
<1> DEFINE n == p.at
<1>1. n \in Modules /\ p.msg \in Message BY ReceiveStep
<1>2. p.msg.ack /\ p.msg.to # ANY /\ p.msg.to = address[n] BY DEF Prints, ForMe
<1>3. CASE p.msg \in messages
  <2>1. p.msg.type = "sensor" /\ p.msg.to \in Modules BY <1>2, <1>3 DEF WellSent
  <2>2. p.msg.to = n BY <1>1, <1>2, <2>1, OwnAddress
  <2> QED BY <1>3, <2>1, <2>2 DEF GoesBack
<1>4. CASE Answers(p.msg)
  <2>1. PICK m \in messages, k \in Modules :
          m.id = p.msg.id /\ m.type = "poll" /\ Named(k, p.msg.to) /\ <<k, m.id>> \in relayed
    BY <1>4 DEF Answers
  <2>2. k = n BY <1>1, <1>2, <2>1, OneOwner DEF Names
  <2> QED BY <2>1, <2>2 DEF GoesBack
<1> QED BY <1>3, <1>4 DEF Routed

LEMMA PrintedStep ==
  ASSUME HostsConnected, TypeOK, WellSent, Names, AllRouted, ResponsesGoBack, [Next]_vars
  PROVE  ResponsesGoBack'
<1>1. messages \subseteq messages' /\ relayed \subseteq relayed' BY Grows
<1>2. \A f, m : GoesBack(f, m) => GoesBack(f, m)' BY <1>1 DEF GoesBack
<1>3. \A f \in printed : \E m \in messages' : GoesBack(f, m)' BY <1>1, <1>2, GoBack
<1>4. ASSUME NEW f \in printed', f \notin printed PROVE \E m \in messages' : GoesBack(f, m)'
  <2>1. ASSUME NEW n \in Hosts, NEW t \in {"output", "poll", "set_addr", "dump"},
               NEW m \in Sendable(t, FALSE), HostSends(n, m)
        PROVE  \E k \in messages' : GoesBack(f, k)'
    <3>1. f = <<n, m.id>> /\ Handles(n, m) /\ m.type \in {"poll", "dump"} BY <1>4, <2>1 DEF HostSends
    <3> QED BY <2>1, <3>1, HostPrints
  <2>2. ASSUME NEW p \in net, Receives(p) PROVE \E k \in messages' : GoesBack(f, k)'
    <3>1. Routed(p) BY DEF AllRouted
    <3>2. f = <<p.at, p.msg.id>> /\ Prints(p.at, p.msg) BY <1>4, <2>2, <3>1 DEF Receives, Routed
    <3>3. PICK m \in messages : GoesBack(f, m) BY <2>2, <3>1, <3>2, SocketPrints
    <3> QED BY <1>1, <1>2, <3>3
  <2>3. printed' # printed BY <1>4
  <2> QED BY <2>1, <2>2, <2>3 DEF Next, Send, SensorSends, Receive, Lose, vars
<1> QED BY <1>3, <1>4, GoBack DEF ResponsesGoBack, GoesBack

-----------------------------------------------------------------------------
LEMMA RouteInit == Init => RouteInv
<1>1. Init => WellSent /\ Names /\ AllRouted /\ ResponsesGoBack
  BY DEF Init, WellSent, Names, Named, AllRouted, ResponsesGoBack
<1> QED BY <1>1, TypeInit DEF RouteInv

(* A response is printed where its request was sent on or asked for, sensor *)
(* data where it is addressed to (process_msg): also with cycles, lost and  *)
(* overtaking packets and addresses that change on the way.                 *)
THEOREM ResponsesCorrect == ASSUME HostsConnected PROVE Spec => []ResponsesGoBack
<1>1. RouteInv /\ [Next]_vars => RouteInv'
  <2> SUFFICES ASSUME RouteInv, [Next]_vars PROVE RouteInv' OBVIOUS
  <2>1. TypeOK' /\ WellSent' /\ Names' /\ ResponsesGoBack'
    BY TypeStep, WellSentStep, NamesStep, PrintedStep DEF RouteInv
  <2>2. AllRouted' BY RoutedStep DEF RouteInv, AllRouted
  <2> QED BY <2>1, <2>2 DEF RouteInv
<1>2. RouteInv => ResponsesGoBack BY DEF RouteInv
<1> QED BY <1>1, <1>2, RouteInit, PTL DEF Spec
-----------------------------------------------------------------------------
(* Media that form no cycle: what is forwarded parts what it can reach.     *)
Reach(Side, p) == Side[p.medium][p.at]

LEMMA Parting ==
  ASSUME NEW Side \in Sides, NoCycle(Side), NEW n \in Modules, NEW ingress,
         NEW x \in Sockets(n) \ ingress, NEW j \in On[x] \ {n}
  PROVE  /\ Side[x][j] \subseteq Beyond(Side, n, ingress) \ {n}
         /\ \A y \in Sockets(n) \ ingress : \A k \in On[y] \ {n} :
              x # y \/ j # k => Side[x][j] \cap Side[y][k] = {}
<1>1. x \in Media /\ n \in On[x] /\ j \in Modules BY TopologyAssumption DEF Sockets
<1>2. Side[x][j] \subseteq Modules BY <1>1 DEF Sides
<1>3. Side[x][j] \subseteq Beyond(Side, n, ingress) BY <1>2 DEF Beyond
<1>4. n \notin Side[x][j] BY <1>1 DEF NoCycle
<1>5. ASSUME NEW y \in Sockets(n) \ ingress, NEW k \in On[y] \ {n}, x # y \/ j # k
      PROVE  Side[x][j] \cap Side[y][k] = {}
  <2>1. CASE x = y BY <1>1, <1>5, <2>1 DEF NoCycle
  <2>2. CASE x # y
    <3>1. y \in Media /\ n \in On[y] /\ y \in Sockets(n) \ {x} /\ k \in Modules
      BY <2>2, TopologyAssumption DEF Sockets
    <3>2. Side[y][k] \subseteq Beyond(Side, n, {x}) BY <3>1 DEF Beyond, Sides
    <3>3. Beyond(Side, n, {x}) \subseteq Side[x][n] /\ Side[x][j] \cap Side[x][n] = {}
      BY <1>1 DEF NoCycle
    <3> QED BY <3>2, <3>3
  <2> QED BY <2>1, <2>2
<1> QED BY <1>3, <1>4, <1>5

(* Where what is forwarded goes.                                            *)
LEMMA ForwardedTo ==
  ASSUME NEW n, NEW m, NEW ingress, NEW q \in Forwards(n, m, ingress)
  PROVE  /\ q.medium \in Sockets(n) \ ingress /\ q.at \in On[q.medium] \ {n} /\ q.msg = m
         /\ q = [msg |-> m, medium |-> q.medium, from |-> source[n][q.medium], at |-> q.at]
<1>1. PICK x \in Egress(n, ingress) : q \in Packets(n, x, m, source[n][x]) BY DEF Forwards
<1>2. PICK k \in On[x] \ {n} : q = [msg |-> m, medium |-> x, from |-> source[n][x], at |-> k]
  BY <1>1 DEF Packets
<1> QED BY <1>1, <1>2 DEF Egress

LEMMA ForwardsPart ==
  ASSUME NEW Side \in Sides, NoCycle(Side), NEW n \in Modules, NEW m, NEW ingress,
         NEW q \in Forwards(n, m, ingress)
  PROVE  /\ q.msg = m /\ q.at \in On[q.medium] /\ Reach(Side, q) \subseteq Beyond(Side, n, ingress) \ {n}
         /\ \A r \in Forwards(n, m, ingress) : q # r => Reach(Side, q) \cap Reach(Side, r) = {}
<1>1. /\ q.medium \in Sockets(n) \ ingress /\ q.at \in On[q.medium] \ {n} /\ q.msg = m
      /\ q = [msg |-> m, medium |-> q.medium, from |-> source[n][q.medium], at |-> q.at]
  BY ForwardedTo
<1>2. Reach(Side, q) \subseteq Beyond(Side, n, ingress) \ {n} BY <1>1, Parting DEF Reach
<1>3. ASSUME NEW r \in Forwards(n, m, ingress), q # r
      PROVE  Reach(Side, q) \cap Reach(Side, r) = {}
  <2>1. /\ r.medium \in Sockets(n) \ ingress /\ r.at \in On[r.medium] \ {n}
        /\ r = [msg |-> m, medium |-> r.medium, from |-> source[n][r.medium], at |-> r.at]
    BY ForwardedTo
  <2>2. q.medium # r.medium \/ q.at # r.at BY <1>1, <1>3, <2>1
  <2> QED BY <1>1, <2>1, <2>2, Parting DEF Reach
<1> QED BY <1>1, <1>2, <1>3

-----------------------------------------------------------------------------
(* Two packets of a message never reach the same module, and none reaches a *)
(* module that handled it. Ids are those of the messages sent so far.       *)
IdsUsed == /\ \A m \in messages : m.id <= sent
           /\ \A m, k \in messages : m.id = k.id => m = k
           /\ \A n \in Modules, i \in Ids : i > sent => handled[n][i] = 0
Apart(Side) == \A p, q \in net :
  p.msg \in messages /\ p.msg = q.msg /\ p # q => Reach(Side, p) \cap Reach(Side, q) = {}
Ahead(Side) == \A p \in net :
  /\ p.at \in On[p.medium]
  /\ p.msg \in messages => \A n \in Reach(Side, p) : handled[n][p.msg.id] = 0
RouteBase == TypeOK /\ WellSent /\ Names /\ AllRouted
OnceInv(Side) == RouteBase /\ IdsUsed /\ Apart(Side) /\ Ahead(Side) /\ HandledOnce

LEMMA RouteBaseStep == ASSUME RouteBase, [Next]_vars PROVE RouteBase'
<1>1. TypeOK' /\ WellSent' /\ Names' BY TypeStep, WellSentStep, NamesStep DEF RouteBase
<1>2. AllRouted' BY RoutedStep DEF RouteBase, AllRouted
<1> QED BY <1>1, <1>2 DEF RouteBase

LEMMA CountOnce ==
  ASSUME TypeOK, NEW n \in Modules, NEW m \in Message, Count(n, m)
  PROVE  /\ \A k \in Modules, i \in Ids : k # n \/ i # m.id => handled'[k][i] = handled[k][i]
         /\ Handles(n, m) => (handled[n][m.id] = 0 => handled'[n][m.id] = 1)
         /\ ~Handles(n, m) => handled' = handled
         /\ handled[n][m.id] \in {0, 1} => handled'[n][m.id] \in Nat
         /\ handled[n][m.id] = 0 => handled'[n][m.id] <= 1
<1>1. m.id \in Ids BY DEF Message
<1>2. CASE ~Handles(n, m) BY <1>1, <1>2 DEF Count, TypeOK
<1>3. CASE Handles(n, m)
  <2>1. handled' = [handled EXCEPT ![n] = [handled[n] EXCEPT ![m.id] =
                      IF handled[n][m.id] < 2 THEN handled[n][m.id] + 1 ELSE 2]]
    BY <1>3 DEF Count
  <2>2. /\ handled'[n][m.id] = IF handled[n][m.id] < 2 THEN handled[n][m.id] + 1 ELSE 2
        /\ \A k \in Modules, i \in Ids : k # n \/ i # m.id => handled'[k][i] = handled[k][i]
    BY <1>1, <2>1 DEF TypeOK
  <2> QED BY <1>3, <2>2
<1> QED BY <1>2, <1>3

(* A new message starts from one place, and no packet is of it yet.         *)
LEMMA NewMessage ==
  ASSUME RouteBase, IdsUsed, NEW m \in Message, m.id = sent + 1, m.ack => m.type = "sensor"
  PROVE  m \notin messages /\ \A p \in net : p.msg # m
<1>1. \A k \in messages : k.id <= sent /\ k.id \in Nat /\ sent \in Nat
  BY TopologyAssumption DEF IdsUsed, RouteBase, TypeOK, Message, Ids
<1>2. m \notin messages BY <1>1
<1>3. \A p \in net : Answers(p.msg) => p.msg # m BY DEF Answers
<1> QED BY <1>2, <1>3 DEF RouteBase, AllRouted, Routed

LEMMA IdsStep == ASSUME RouteBase, IdsUsed, [Next]_vars PROVE IdsUsed'
<1>1. ASSUME NEW m \in Message, m.id = sent + 1, sent < MaxSent, sent' = sent + 1,
             messages' = messages \cup {m},
             \A n \in Modules, i \in Ids : i # m.id => handled'[n][i] = handled[n][i]
      PROVE  IdsUsed'
  <2>1. sent \in Nat /\ \A k \in messages : k.id \in Nat /\ k.id <= sent
    BY TopologyAssumption DEF RouteBase, TypeOK, IdsUsed, Message, Ids
  <2>2. (\A k \in messages : k.id <= sent)' BY <1>1, <2>1
  <2>3. (\A k, l \in messages : k.id = l.id => k = l)' BY <1>1, <2>1 DEF IdsUsed
  <2>4. ASSUME NEW n \in Modules, NEW i \in Ids, i > sent' PROVE handled'[n][i] = 0
    <3>1. i \in Nat /\ i # m.id /\ i > sent BY <1>1, <2>1, <2>4, TopologyAssumption DEF Ids
    <3> QED BY <1>1, <3>1 DEF IdsUsed
  <2> QED BY <2>2, <2>3, <2>4 DEF IdsUsed
<1>2. ASSUME NEW n \in Hosts, NEW t \in {"output", "poll", "set_addr", "dump"},
             NEW m \in Sendable(t, FALSE), HostSends(n, m)
      PROVE  IdsUsed'
  <2>1. n \in Modules /\ m \in Message /\ sent < MaxSent BY <1>2, HostStep DEF RouteBase
  <2>2. m.id = sent + 1 /\ sent' = sent + 1 /\ messages' = messages \cup {m} /\ Count(n, m)
    BY <1>2 DEF HostSends
  <2>3. \A k \in Modules, i \in Ids : i # m.id => handled'[k][i] = handled[k][i]
    BY <2>1, <2>2, CountOnce DEF RouteBase
  <2> QED BY <1>1, <2>1, <2>2, <2>3
<1>3. ASSUME NEW x \in Media, NEW m \in Sendable("sensor", TRUE), SensorSends(x, m) PROVE IdsUsed'
  <2>1. m \in Message /\ sent < MaxSent BY <1>3, SensorStep DEF RouteBase
  <2> QED BY <1>1, <1>3, <2>1 DEF SensorSends
<1>4. ASSUME NEW p \in net, Receives(p) PROVE IdsUsed'
  <2>1. p.at \in Modules /\ p.msg \in Message BY <1>4, ReceiveStep DEF RouteBase
  <2>2. Count(p.at, p.msg) /\ sent' = sent /\ messages' = messages BY <1>4 DEF Receives, history
  <2>3. ASSUME Handles(p.at, p.msg) PROVE p.msg.id <= sent /\ p.msg.id \in Nat
    <3>1. CASE p.msg \in messages BY <3>1, <2>1, TopologyAssumption DEF IdsUsed, Message, Ids
    <3>2. CASE Answers(p.msg)
      BY <3>2, <2>1, TopologyAssumption DEF IdsUsed, Answers, Message, Ids
    <3> QED BY <3>1, <3>2 DEF RouteBase, AllRouted, Routed
  <2>4. sent \in Nat /\ \A i \in Ids : i \in Nat BY TopologyAssumption DEF RouteBase, TypeOK, Ids
  <2>5. \A n \in Modules, i \in Ids : i > sent => handled'[n][i] = 0
    <3>1. CASE ~Handles(p.at, p.msg) BY <2>1, <2>2, <3>1, CountOnce DEF IdsUsed, RouteBase
    <3>2. CASE Handles(p.at, p.msg)
      <4>1. \A n \in Modules, i \in Ids : i # p.msg.id => handled'[n][i] = handled[n][i]
        BY <2>1, <2>2, CountOnce DEF RouteBase
      <4>2. p.msg.id <= sent /\ p.msg.id \in Nat BY <2>3, <3>2
      <4>3. \A i \in Ids : i > sent => i # p.msg.id BY <2>4, <4>2
      <4> QED BY <4>1, <4>3 DEF IdsUsed
    <3> QED BY <3>1, <3>2
  <2> QED BY <2>2, <2>5 DEF IdsUsed
<1>5. CASE UNCHANGED <<sent, messages, handled>> BY <1>5 DEF IdsUsed
<1> QED BY <1>2, <1>3, <1>4, <1>5 DEF Next, Send, Receive, Lose, vars, history

(* A message that is sent out, by a module that may handle it too.          *)
LEMMA SentOnce ==
  ASSUME NEW Side \in Sides, NoCycle(Side), OnceInv(Side),
         NEW n \in Hosts, NEW t \in {"output", "poll", "set_addr", "dump"},
         NEW m \in Sendable(t, FALSE), HostSends(n, m)
  PROVE  Apart(Side)' /\ Ahead(Side)' /\ HandledOnce'
<1> DEFINE F == Forwards(n, m, {})
<1>1. n \in Modules /\ m \in Message /\ m.id \in Ids BY HostStep DEF OnceInv, RouteBase, Message
<1>2. /\ m.id = sent + 1 /\ ~m.ack /\ net' = net \cup F /\ messages' = messages \cup {m} /\ Count(n, m)
  BY DEF HostSends
<1>3. m \notin messages /\ \A p \in net : p.msg # m BY <1>1, <1>2, NewMessage DEF OnceInv
<1>4. \A q \in F : /\ q.msg = m /\ q.at \in On[q.medium] /\ n \notin Reach(Side, q)
                   /\ Reach(Side, q) \subseteq Modules
                   /\ \A r \in F : q # r => Reach(Side, q) \cap Reach(Side, r) = {}
  BY <1>1, ForwardsPart DEF Beyond
<1>5. \A k \in Modules : handled[k][m.id] = 0
  <2>1. sent \in Nat BY TopologyAssumption DEF OnceInv, RouteBase, TypeOK
  <2> QED BY <1>1, <1>2, <2>1 DEF OnceInv, IdsUsed
<1>6. /\ \A k \in Modules, i \in Ids : k # n \/ i # m.id => handled'[k][i] = handled[k][i]
      /\ handled'[n][m.id] <= 1
  BY <1>1, <1>2, <1>5, CountOnce DEF OnceInv, RouteBase
<1>7. HandledOnce' BY <1>6 DEF HandledOnce, OnceInv
<1>8. ASSUME NEW p \in net', NEW q \in net', p.msg \in messages', p.msg = q.msg, p # q
      PROVE  Reach(Side, p) \cap Reach(Side, q) = {}
  <2>1. CASE p \in net /\ q \in net
    <3>1. p.msg \in messages BY <1>2, <1>3, <1>8, <2>1
    <3> QED BY <1>8, <2>1, <3>1 DEF OnceInv, Apart
  <2>2. CASE p \in F /\ q \in F BY <1>4, <1>8, <2>2
  <2> QED BY <1>2, <1>3, <1>4, <1>8, <2>1, <2>2
<1>9. ASSUME NEW p \in net' PROVE p.at \in On[p.medium] BY <1>2, <1>4 DEF OnceInv, Ahead
<1>10. ASSUME NEW p \in net', p.msg \in messages', NEW k \in Reach(Side, p)
       PROVE  handled'[k][p.msg.id] = 0
  <2>1. CASE p \in F
    <3>1. p.msg = m /\ k # n /\ k \in Modules BY <1>4, <1>10, <2>1
    <3> QED BY <1>1, <1>5, <1>6, <3>1
  <2>2. CASE p \in net
    <3>1. p.msg \in messages /\ p.msg # m BY <1>2, <1>3, <1>10, <2>2
    <3>2. p.msg.id # m.id
      <4>1. p.msg.id <= sent /\ p.msg.id \in Nat /\ sent \in Nat
        BY <3>1, TopologyAssumption DEF OnceInv, IdsUsed, RouteBase, TypeOK, Message, Ids
      <4> QED BY <1>2, <4>1
    <3>3. handled[k][p.msg.id] = 0 BY <1>10, <2>2, <3>1 DEF OnceInv, Ahead
    <3>4. k \in Modules /\ p.msg.id \in Ids
      <4>1. p.medium \in Media /\ p.at \in Modules /\ p.msg \in Message
        BY <2>2 DEF OnceInv, RouteBase, TypeOK, Packet
      <4> QED BY <1>10, <4>1 DEF Reach, Sides, Message
    <3> QED BY <1>6, <3>2, <3>3, <3>4
  <2> QED BY <1>2, <2>1, <2>2
<1> QED BY <1>7, <1>8, <1>9, <1>10 DEF Apart, Ahead

LEMMA SensedOnce ==
  ASSUME NEW Side \in Sides, NoCycle(Side), OnceInv(Side),
         NEW x \in Media, NEW m \in Sendable("sensor", TRUE), SensorSends(x, m)
  PROVE  Apart(Side)' /\ Ahead(Side)' /\ HandledOnce'
<1> DEFINE F == {[msg |-> m, medium |-> x, from |-> Sensor, at |-> k] : k \in On[x]}
<1>1. m \in Message /\ m.id \in Ids BY SensorStep DEF OnceInv, RouteBase, Message
<1>2. /\ m.id = sent + 1 /\ m.type = "sensor" /\ net' = net \cup F /\ messages' = messages \cup {m}
      /\ handled' = handled
  BY DEF SensorSends
<1>3. m \notin messages /\ \A p \in net : p.msg # m BY <1>1, <1>2, NewMessage DEF OnceInv
<1>4. \A j \in On[x] : j \in Modules BY TopologyAssumption
<1>5. \A q \in F : /\ q.msg = m /\ q.at \in On[q.medium] /\ Reach(Side, q) \subseteq Modules
                   /\ \A r \in F : q # r => Reach(Side, q) \cap Reach(Side, r) = {}
  <2> SUFFICES ASSUME NEW q \in F
               PROVE  /\ q.msg = m /\ q.at \in On[q.medium] /\ Reach(Side, q) \subseteq Modules
                      /\ \A r \in F : q # r => Reach(Side, q) \cap Reach(Side, r) = {}
    OBVIOUS
  <2>1. \A r \in F : r.msg = m /\ r.medium = x /\ r.at \in On[x] OBVIOUS
  <2>2. \A r \in F : q # r => q.at # r.at OBVIOUS
  <2>3. \A r \in F : Reach(Side, r) = Side[x][r.at] BY <2>1 DEF Reach
  <2>4. Side[x][q.at] \subseteq Modules BY <1>4, <2>1 DEF Sides
  <2>5. \A k \in On[x] : \A j \in On[x] : k # j => Side[x][k] \cap Side[x][j] = {} BY DEF NoCycle
  <2> HIDE DEF F
  <2> QED BY <2>1, <2>2, <2>3, <2>4, <2>5
<1>6. \A k \in Modules : handled[k][m.id] = 0
  <2>1. sent \in Nat BY TopologyAssumption DEF OnceInv, RouteBase, TypeOK
  <2> QED BY <1>1, <1>2, <2>1 DEF OnceInv, IdsUsed
<1>7. HandledOnce' BY <1>2 DEF HandledOnce, OnceInv
<1>8. ASSUME NEW p \in net', NEW q \in net', p.msg \in messages', p.msg = q.msg, p # q
      PROVE  Reach(Side, p) \cap Reach(Side, q) = {}
  <2>1. CASE p \in net /\ q \in net
    <3>1. p.msg \in messages BY <1>2, <1>3, <1>8, <2>1
    <3> QED BY <1>8, <2>1, <3>1 DEF OnceInv, Apart
  <2>2. CASE p \in F /\ q \in F BY <1>5, <1>8, <2>2
  <2> QED BY <1>2, <1>3, <1>5, <1>8, <2>1, <2>2
<1>9. ASSUME NEW p \in net' PROVE p.at \in On[p.medium] BY <1>2, <1>5 DEF OnceInv, Ahead
<1>10. ASSUME NEW p \in net', p.msg \in messages', NEW k \in Reach(Side, p)
       PROVE  handled'[k][p.msg.id] = 0
  <2>1. CASE p \in F BY <1>2, <1>5, <1>6, <1>10, <2>1
  <2>2. CASE p \in net BY <1>2, <1>3, <1>10, <2>2 DEF OnceInv, Ahead
  <2> QED BY <1>2, <2>1, <2>2
<1> QED BY <1>7, <1>8, <1>9, <1>10 DEF Apart, Ahead

(* A message that arrives, is handled and goes on: what is ahead of it gets *)
(* divided among the packets it goes on with.                               *)
LEMMA ReceivedOnce ==
  ASSUME NEW Side \in Sides, NoCycle(Side), OnceInv(Side), NEW p \in net, Receives(p)
  PROVE  Apart(Side)' /\ Ahead(Side)' /\ HandledOnce'
<1> DEFINE n == p.at
           m == p.msg
           x == p.medium
           F == Forwards(n, m, {x})
           answer == IF Handles(n, m) /\ m.type = "poll"
                     THEN Packets(n, x, Response(m, p.from), source[n][x]) ELSE {}
<1>1. /\ n \in Modules /\ m \in Message /\ x \in Media /\ p.from \in Addresses \cup {Sensor}
      /\ m.id \in Ids /\ Routed(p) /\ n \in On[x]
  BY ReceiveStep DEF OnceInv, RouteBase, Message, AllRouted, Ahead
<1>2. net' = (net \ {p}) \cup F \cup answer /\ messages' = messages /\ Count(n, m)
  BY DEF Receives, history
<1>3. \A q \in F : /\ q.msg = m /\ q.at \in On[q.medium] /\ n \notin Reach(Side, q)
                   /\ Reach(Side, q) \subseteq Reach(Side, p)
                   /\ \A r \in F : q # r => Reach(Side, q) \cap Reach(Side, r) = {}
  <2>1. Beyond(Side, n, {x}) \subseteq Reach(Side, p) BY <1>1 DEF NoCycle, Reach
  <2> QED BY <1>1, <2>1, ForwardsPart
<1>4. \A q \in answer : q.msg.ack /\ q.msg.type = "poll" /\ q.at \in On[q.medium]
  <2>1. Response(m, p.from).ack /\ Response(m, p.from).type = m.type BY <1>1, ResponseType
  <2> QED BY <2>1 DEF Packets
<1>5. \A q \in answer : q.msg \notin messages BY <1>4 DEF OnceInv, RouteBase, WellSent
<1>6. /\ \A k \in Modules, i \in Ids : k # n \/ i # m.id => handled'[k][i] = handled[k][i]
      /\ ~Handles(n, m) => handled' = handled
      /\ handled[n][m.id] = 0 => handled'[n][m.id] <= 1
  BY <1>1, <1>2, CountOnce DEF OnceInv, RouteBase
<1>7. ~Handles(n, m) \/ m \in messages
  <2>1. CASE Answers(m)
    <3>1. PICK k \in Modules : Named(k, m.to) BY <2>1 DEF Answers
    <3>2. m.to # ANY BY <3>1, TopologyAssumption DEF Named, Gives, OnceInv, RouteBase, WellSent
    <3> QED BY <2>1, <3>2 DEF Answers, Handles, Prints
  <2> QED BY <1>1, <2>1 DEF Routed
<1>8. n \in Reach(Side, p) BY <1>1 DEF Reach, NoCycle
<1>9. m \in messages => \A k \in Reach(Side, p) : handled[k][m.id] = 0
  BY DEF OnceInv, Ahead
<1>10. HandledOnce'
  <2>1. handled'[n][m.id] <= 1 BY <1>1, <1>6, <1>7, <1>8, <1>9 DEF OnceInv, HandledOnce
  <2> QED BY <1>6, <2>1 DEF OnceInv, HandledOnce
<1>11. ASSUME NEW q \in net', NEW r \in net', q.msg \in messages', q.msg = r.msg, q # r
       PROVE  Reach(Side, q) \cap Reach(Side, r) = {}
  <2>1. q \notin answer /\ r \notin answer BY <1>2, <1>5, <1>11
  <2>2. ASSUME NEW a \in net \ {p}, NEW b \in F, a.msg = b.msg, b.msg \in messages
        PROVE  Reach(Side, a) \cap Reach(Side, b) = {}
    <3>1. Reach(Side, b) \subseteq Reach(Side, p) /\ b.msg = m BY <1>3
    <3>2. Reach(Side, a) \cap Reach(Side, p) = {} BY <2>2, <3>1 DEF OnceInv, Apart
    <3> QED BY <3>1, <3>2
  <2>3. CASE q \in F /\ r \in F BY <1>3, <1>11, <2>3
  <2>4. CASE q \in net \ {p} /\ r \in net \ {p} BY <1>2, <1>11, <2>4 DEF OnceInv, Apart
  <2>5. CASE q \in net \ {p} /\ r \in F BY <1>2, <1>11, <2>2, <2>5
  <2>6. CASE q \in F /\ r \in net \ {p} BY <1>2, <1>11, <2>2, <2>6
  <2> QED BY <1>2, <2>1, <2>3, <2>4, <2>5, <2>6
<1>12. ASSUME NEW q \in net' PROVE q.at \in On[q.medium] BY <1>2, <1>3, <1>4 DEF OnceInv, Ahead
<1>13. ASSUME NEW q \in net', q.msg \in messages', NEW k \in Reach(Side, q)
       PROVE  handled'[k][q.msg.id] = 0
  <2>1. q \notin answer BY <1>2, <1>5, <1>13
  <2>2. CASE q \in F
    <3>1. q.msg = m /\ k # n /\ k \in Reach(Side, p) BY <1>3, <1>13, <2>2
    <3>2. k \in Modules BY <1>1, <3>1 DEF Reach, Sides
    <3> QED BY <1>1, <1>2, <1>6, <1>9, <1>13, <3>1, <3>2
  <2>3. CASE q \in net \ {p}
    <3>1. handled[k][q.msg.id] = 0 /\ q.msg \in messages BY <1>2, <1>13, <2>3 DEF OnceInv, Ahead
    <3>2. k \in Modules /\ q.msg.id \in Ids
      <4>1. q.medium \in Media /\ q.at \in Modules /\ q.msg \in Message
        BY <2>3 DEF OnceInv, RouteBase, TypeOK, Packet
      <4> QED BY <1>13, <4>1 DEF Reach, Sides, Message
    <3>3. CASE k # n \/ q.msg.id # m.id BY <1>6, <3>1, <3>2, <3>3
    <3>4. CASE ~Handles(n, m) BY <1>6, <3>1, <3>4
    <3>5. CASE k = n /\ q.msg.id = m.id /\ Handles(n, m)
      <4>1. q.msg = m BY <1>7, <3>1, <3>5 DEF OnceInv, IdsUsed
      <4>2. Reach(Side, q) \cap Reach(Side, p) = {} BY <2>3, <3>1, <4>1 DEF OnceInv, Apart
      <4> QED BY <1>8, <1>13, <3>5, <4>2
    <3> QED BY <3>3, <3>4, <3>5
  <2> QED BY <1>2, <2>1, <2>2, <2>3
<1> QED BY <1>10, <1>11, <1>12, <1>13 DEF Apart, Ahead

LEMMA OnceStep ==
  ASSUME NEW Side \in Sides, NoCycle(Side), OnceInv(Side), [Next]_vars PROVE OnceInv(Side)'
<1>1. RouteBase' /\ IdsUsed' BY RouteBaseStep, IdsStep DEF OnceInv
<1> SUFFICES Apart(Side)' /\ Ahead(Side)' /\ HandledOnce' BY <1>1 DEF OnceInv
<1>2. ASSUME net' \subseteq net, messages' = messages, handled' = handled
      PROVE  Apart(Side)' /\ Ahead(Side)' /\ HandledOnce'
  BY <1>2 DEF OnceInv, Apart, Ahead, HandledOnce
<1>3. CASE Send BY <1>3, SentOnce, SensedOnce DEF Send
<1>4. CASE Receive BY <1>4, ReceivedOnce DEF Receive
<1>5. CASE \E p \in net : Lose(p) BY <1>2, <1>5 DEF Lose
<1>6. CASE UNCHANGED vars BY <1>2, <1>6 DEF vars, history
<1> QED BY <1>3, <1>4, <1>5, <1>6 DEF Next

LEMMA RouteBaseInit == Init => RouteBase
BY RouteInit DEF RouteBase, RouteInv

LEMMA OnceInit == ASSUME NEW Side, Init PROVE OnceInv(Side)
<1>1. RouteBase BY RouteBaseInit
<1>2. \A n \in Modules, i \in Ids : handled[n][i] = 0 BY DEF Init
<1>3. IdsUsed /\ HandledOnce BY <1>2 DEF IdsUsed, HandledOnce, Init
<1> QED BY <1>1, <1>3 DEF OnceInv, Apart, Ahead, Init

(* Where the media form no cycle, no module handles a message twice, though *)
(* the code keeps no record of what it forwarded (check_and_forward): also  *)
(* when packets are lost and overtake each other and addresses change.      *)
THEOREM HandledCorrect == ASSUME Acyclic PROVE Spec => []HandledOnce
<1>1. PICK Side \in Sides : NoCycle(Side) BY DEF Acyclic
<1>2. OnceInv(Side) /\ [Next]_vars => OnceInv(Side)' BY <1>1, OnceStep
<1>3. Init => OnceInv(Side) BY OnceInit
<1>4. OnceInv(Side) => HandledOnce BY DEF OnceInv
<1> QED BY <1>2, <1>3, <1>4, PTL DEF Spec

-----------------------------------------------------------------------------
(* Media that join all modules: a message is handled by whom it is for or   *)
(* is still on its way there.                                               *)
Due(m, n) == /\ m.to \in {n, ANY} /\ address[n] = n /\ m.id \notin lost
             /\ ~m.big /\ m.type # "dump"
OnWay(Side) == \A m \in messages, n \in Modules :
  Due(m, n) => handled[n][m.id] >= 1 \/ \E p \in net : p.msg = m /\ n \in Reach(Side, p)

LEMMA CountGrows ==
  ASSUME TypeOK, NEW n \in Modules, NEW m \in Message, Count(n, m)
  PROVE  /\ \A k \in Modules, i \in Ids : handled[k][i] >= 1 => handled'[k][i] >= 1
         /\ Handles(n, m) => handled'[n][m.id] >= 1
<1>1. m.id \in Ids /\ handled[n][m.id] \in 0 .. 2 BY DEF TypeOK, Message
<1>2. CASE ~Handles(n, m) BY <1>2 DEF Count
<1>3. CASE Handles(n, m)
  <2>1. handled' = [handled EXCEPT ![n] = [handled[n] EXCEPT ![m.id] =
                      IF handled[n][m.id] < 2 THEN handled[n][m.id] + 1 ELSE 2]]
    BY <1>3 DEF Count
  <2>2. /\ handled'[n][m.id] = IF handled[n][m.id] < 2 THEN handled[n][m.id] + 1 ELSE 2
        /\ \A k \in Modules, i \in Ids : k # n \/ i # m.id => handled'[k][i] = handled[k][i]
    BY <1>1, <2>1 DEF TypeOK
  <2>3. handled'[n][m.id] >= 1 BY <1>1, <2>2
  <2> QED BY <2>2, <2>3
<1> QED BY <1>2, <1>3

(* Nobody is given back the address of a configuration.                     *)
LEMMA DueBefore ==
  ASSUME RouteBase, [Next]_vars, NEW m, NEW n \in Modules, Due(m, n)' PROVE Due(m, n)
<1>1. lost \subseteq lost'
  BY DEF Next, Send, HostSends, SensorSends, Receive, Receives, Lose, vars, history
<1>2. CASE UNCHANGED address BY <1>1, <1>2 DEF Due
<1>3. ASSUME NEW p \in net, Receives(p), Renames(p.at, p.msg) PROVE Due(m, n)
  <2>1. p.at \in Modules /\ Routed(p) BY DEF RouteBase, TypeOK, Packet, AllRouted
  <2>2. p.msg \in messages /\ Gives(p.msg, p.at) BY <1>3, <2>1, RenameGives DEF RouteBase
  <2>3. p.msg.newAddress \in Unused BY <2>2 DEF RouteBase, WellSent, Gives
  <2>4. address'[p.at] = p.msg.newAddress /\ \A k \in Modules : k # p.at => address'[k] = address[k]
    BY <1>3, <2>1 DEF Receives, RouteBase, TypeOK
  <2>5. p.at # n BY <2>3, <2>4, TopologyAssumption DEF Due
  <2> QED BY <1>1, <2>4, <2>5 DEF Due
<1>4. UNCHANGED address \/ \E p \in net : Receives(p) /\ Renames(p.at, p.msg)
  BY DEF Next, Send, HostSends, SensorSends, Receive, Receives, Lose, vars, own
<1> QED BY <1>2, <1>3, <1>4

LEMMA DueHandles ==
  ASSUME NEW m, NEW n \in Modules, Due(m, n), m.ack => m.type = "sensor" PROVE Handles(n, m)
BY DEF Due, Handles, ForMe, Prints

(* No module on the way keeps for itself what is for another.               *)
LEMMA DueForwards ==
  ASSUME RouteBase, NEW Side \in Sides, NEW m, NEW n \in Modules, NEW k \in Modules, k # n,
         NEW ingress, Due(m, k), k \in Beyond(Side, n, ingress)
  PROVE  \E q \in Forwards(n, m, ingress) : q.msg = m /\ k \in Reach(Side, q)
<1>1. PICK x \in Sockets(n) \ ingress : \E j \in On[x] \ {n} : k \in Side[x][j] BY DEF Beyond
<1>2. PICK j \in On[x] \ {n} : k \in Side[x][j] BY <1>1
<1>3. m.to # address[n] \/ m.to = ANY
  <2>1. CASE m.to = k /\ address[n] = k
    <3>1. address[n] = n BY <2>1, OwnAddress DEF RouteBase
    <3> QED BY <2>1, <3>1
  <2> QED BY <2>1 DEF Due
<1>4. x \in Egress(n, ingress) /\ Forwarded(n, m, x) BY <1>3 DEF Due, Forwarded, Egress
<1> DEFINE q == [msg |-> m, medium |-> x, from |-> source[n][x], at |-> j]
<1>5. q \in Packets(n, x, m, source[n][x]) BY <1>2 DEF Packets
<1>6. q \in Forwards(n, m, ingress) BY <1>4, <1>5 DEF Forwards
<1>7. q.msg = m /\ k \in Reach(Side, q) BY <1>2 DEF Reach
<1> QED BY <1>6, <1>7

LEMMA OnWayStep ==
  ASSUME NEW Side \in Sides, AllReached(Side), OnceInv(Side), OnWay(Side), [Next]_vars
  PROVE  OnWay(Side)'
<1> SUFFICES ASSUME NEW l \in messages', NEW k \in Modules, Due(l, k)'
             PROVE  handled'[k][l.id] >= 1 \/ \E q \in net' : q.msg = l /\ k \in Reach(Side, q)
  BY DEF OnWay, Reach
<1>0. RouteBase BY DEF OnceInv
<1>1. Due(l, k) BY <1>0, DueBefore
<1>2. ASSUME l \in messages, \A j \in Modules, i \in Ids : handled[j][i] >= 1 => handled'[j][i] >= 1
      PROVE  handled'[k][l.id] >= 1 \/ \E q \in net : q.msg = l /\ k \in Reach(Side, q)
  <2>1. l.id \in Ids BY <1>0, <1>2 DEF RouteBase, TypeOK, Message
  <2> QED BY <1>1, <1>2, <2>1 DEF OnWay
<1>3. ASSUME NEW n \in Hosts, NEW t \in {"output", "poll", "set_addr", "dump"},
             NEW m \in Sendable(t, FALSE), HostSends(n, m)
      PROVE  handled'[k][l.id] >= 1 \/ \E q \in net' : q.msg = l /\ k \in Reach(Side, q)
  <2>1. n \in Modules /\ m \in Message BY <1>0, <1>3, HostStep DEF RouteBase
  <2>2. /\ net' = net \cup Forwards(n, m, {}) /\ messages' = messages \cup {m} /\ Count(n, m) /\ ~m.ack
    BY <1>3 DEF HostSends
  <2>3. CASE l \in messages BY <1>0, <1>2, <2>1, <2>2, <2>3, CountGrows DEF RouteBase
  <2>4. CASE l = m /\ k = n BY <1>0, <1>1, <2>1, <2>2, <2>4, DueHandles, CountGrows DEF RouteBase
  <2>5. CASE l = m /\ k # n
    <3>1. k \in Beyond(Side, n, {}) BY <2>5 DEF AllReached
    <3> QED BY <1>0, <1>1, <2>1, <2>2, <2>5, <3>1, DueForwards
  <2> QED BY <2>2, <2>3, <2>4, <2>5
<1>4. ASSUME NEW x \in Media, NEW m \in Sendable("sensor", TRUE), SensorSends(x, m)
      PROVE  handled'[k][l.id] >= 1 \/ \E q \in net' : q.msg = l /\ k \in Reach(Side, q)
  <2>1. messages' = messages \cup {m} /\ handled' = handled /\ net \subseteq net' BY <1>4 DEF SensorSends
  <2>2. CASE l \in messages BY <1>2, <2>1, <2>2
  <2>3. CASE l = m
    <3>1. PICK j \in On[x] : k \in Side[x][j] BY DEF AllReached
    <3> DEFINE q == [msg |-> m, medium |-> x, from |-> Sensor, at |-> j]
    <3>2. q \in net' BY <1>4 DEF SensorSends
    <3>3. q.msg = l /\ k \in Reach(Side, q) BY <2>3, <3>1 DEF Reach
    <3> QED BY <3>2, <3>3
  <2> QED BY <2>1, <2>2, <2>3
<1>5. ASSUME NEW p \in net, Receives(p)
      PROVE  handled'[k][l.id] >= 1 \/ \E q \in net' : q.msg = l /\ k \in Reach(Side, q)
  <2> DEFINE n == p.at
             m == p.msg
             x == p.medium
  <2>1. n \in Modules /\ m \in Message /\ x \in Media BY <1>0, <1>5, ReceiveStep DEF RouteBase
  <2>2. /\ net \ {p} \subseteq net' /\ Forwards(n, m, {x}) \subseteq net'
        /\ messages' = messages /\ Count(n, m)
    BY <1>5 DEF Receives, history
  <2>3. handled'[k][l.id] >= 1 \/ \E q \in net : q.msg = l /\ k \in Reach(Side, q)
    BY <1>0, <1>2, <2>1, <2>2, CountGrows DEF RouteBase
  <2>4. CASE l = m /\ k \in Reach(Side, p)
    <3>1. m.ack => m.type = "sensor" BY <1>0, <2>2, <2>4 DEF RouteBase, WellSent
    <3>2. CASE k = n BY <1>0, <1>1, <2>1, <2>2, <2>4, <3>1, <3>2, DueHandles, CountGrows DEF RouteBase
    <3>3. CASE k # n
      <4>1. n \in On[x] BY DEF OnceInv, Ahead
      <4>2. k \in Beyond(Side, n, {x}) BY <2>1, <2>4, <3>3, <4>1 DEF AllReached, Reach
      <4> QED BY <1>0, <1>1, <2>1, <2>2, <2>4, <3>3, <4>2, DueForwards
    <3> QED BY <3>2, <3>3
  <2> QED BY <2>2, <2>3, <2>4
<1>6. ASSUME NEW p \in net, Lose(p)
      PROVE  handled'[k][l.id] >= 1 \/ \E q \in net' : q.msg = l /\ k \in Reach(Side, q)
  <2>1. l \in messages /\ l # p.msg /\ handled' = handled /\ net' = net \ {p} BY <1>6 DEF Lose, Due
  <2> QED BY <1>2, <2>1
<1>7. CASE UNCHANGED vars BY <1>2, <1>7 DEF vars, history
<1> QED BY <1>3, <1>4, <1>5, <1>6, <1>7 DEF Next, Send, Receive

(* Where the media form a tree, what was sent to a module or to all is      *)
(* handled there, exactly once, or a packet of it was lost: no module on    *)
(* the way keeps what is for another (check_and_forward). Big messages may  *)
(* not fit, a dump request goes nowhere, a renamed module is not counted.   *)
THEOREM DeliveredCorrect == ASSUME Tree PROVE Spec => []DeliveredWhenQuiet
<1>1. PICK Side \in Sides : NoCycle(Side) /\ AllReached(Side) BY DEF Tree
<1>2. OnceInv(Side) /\ OnWay(Side) /\ [Next]_vars => (OnceInv(Side) /\ OnWay(Side))'
  BY <1>1, OnceStep, OnWayStep
<1>3. Init => OnceInv(Side) /\ OnWay(Side) BY OnceInit DEF OnWay, Init
<1>4. OnceInv(Side) /\ OnWay(Side) => DeliveredWhenQuiet
  <2> SUFFICES ASSUME OnceInv(Side), OnWay(Side), net = {}, NEW m \in messages, NEW n \in Modules, Due(m, n)
               PROVE  handled[n][m.id] = 1
    BY DEF DeliveredWhenQuiet, Due
  <2>1. m.id \in Ids /\ handled[n][m.id] \in 0 .. 2 BY DEF OnceInv, RouteBase, TypeOK, Message
  <2>2. handled[n][m.id] >= 1 BY DEF OnWay
  <2>3. handled[n][m.id] <= 1 BY <2>1 DEF OnceInv, HandledOnce
  <2> QED BY <2>1, <2>2, <2>3
<1> QED BY <1>2, <1>3, <1>4, PTL DEF Spec
=============================================================================
