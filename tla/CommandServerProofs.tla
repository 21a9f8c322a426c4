------------------------- MODULE CommandServerProofs -------------------------
(* Threads of the server that share the serial port take no answer that    *)
(* belongs to another command, and a client gets the reply it waits for,   *)
(* for any range of addresses, size of the buffer and number of faults.    *)
EXTENDS CommandServer, TLAPS

ServerStates  == {"accept", "recv", "send", "confirm", "request", "collect", "stopped"}
ScannerStates == {"sleep", "send", "confirm", "request", "collect", "stopped"}

Typed ==
  /\ client \in {"idle", "awaitAck", "awaitData", "awaitExit", "gone", "done"}
  /\ request \in Request /\ current \in Request
  /\ pc \in [Threads -> ServerStates \cup ScannerStates]
  /\ pc["server"] \in ServerStates /\ pc["scanner"] \in ScannerStates
  /\ lock \in Threads \cup {"free"} /\ over \in BOOLEAN /\ at \in DOMAIN ScanRange
  /\ wire \in Seq(Command) /\ bus \subseteq Addresses
  /\ line \in Seq(Item) /\ buffer \in Seq(Item)

-----------------------------------------------------------------------------
(* Sequences.                                                               *)
LEMMA Remainder ==
  ASSUME NEW S, NEW s \in Seq(S), s # <<>> PROVE Head(s) \in S /\ Tail(s) \in Seq(S)
OBVIOUS
LEMMA Extended == ASSUME NEW S, NEW s \in Seq(S), NEW e \in S PROVE Append(s, e) \in Seq(S)
OBVIOUS
LEMMA Joined == ASSUME NEW S, NEW s \in Seq(S), NEW t \in Seq(S) PROVE s \o t \in Seq(S)
OBVIOUS

(* The commands that are sent and the items that come are such.            *)
LEMMA ItemsAreItems ==
  /\ Ack \in Item /\ [kind |-> "ready", old |-> FALSE] \in Item
  /\ \A a \in Addresses : Data(a) \in Item
  /\ \A i \in Item : [i EXCEPT !.old = TRUE] \in Item
  /\ \A i \in Item : i.kind = "data" => [i EXCEPT !.from = "garbled"] \in Item
BY DEF Item, Ack, Data

LEMMA Replaced ==
  ASSUME NEW s \in Seq(Item), s # <<>>, NEW e \in Item
  PROVE  /\ [s EXCEPT ![1] = e] \in Seq(Item) /\ Len([s EXCEPT ![1] = e]) = Len(s)
         /\ \A i \in 1 .. Len(s) : [s EXCEPT ![1] = e][i] = IF i = 1 THEN e ELSE s[i]
<1>1. s \in [1 .. Len(s) -> Item] /\ Len(s) \in Nat OBVIOUS
<1>2. [s EXCEPT ![1] = e] \in [1 .. Len(s) -> Item] BY <1>1
<1>3. \A n \in Nat : \A f \in [1 .. n -> Item] : f \in Seq(Item) /\ Len(f) = n OBVIOUS
<1> QED BY <1>1, <1>2, <1>3

LEMMA AgeType ==
  ASSUME NEW s \in Seq(Item)
  PROVE  /\ Age(s) \in Seq(Item) /\ Len(Age(s)) = Len(s)
         /\ \A i \in 1 .. Len(s) : Age(s)[i] = [s[i] EXCEPT !.old = TRUE]
<1>1. DOMAIN s = 1 .. Len(s) /\ Len(s) \in Nat OBVIOUS
<1>2. \A i \in 1 .. Len(s) : s[i] \in Item OBVIOUS
<1>3. \A i \in 1 .. Len(s) : [s[i] EXCEPT !.old = TRUE] \in Item BY <1>2, ItemsAreItems
<1>4. Age(s) \in [1 .. Len(s) -> Item] BY <1>1, <1>3 DEF Age
<1>5. \A n \in Nat : \A f \in [1 .. n -> Item] : f \in Seq(Item) /\ Len(f) = n OBVIOUS
<1> QED BY <1>1, <1>4, <1>5 DEF Age

LEMMA RangeType ==
  /\ ScanRange \in Seq(Addresses) /\ Len(ScanRange) \in Nat \ {0} /\ DOMAIN ScanRange = 1 .. Len(ScanRange)
BY ServerAssumption

LEMMA NextAt == ASSUME NEW i \in DOMAIN ScanRange PROVE (i % Len(ScanRange)) + 1 \in DOMAIN ScanRange
<1>1. \A n \in Nat \ {0}, k \in Nat : (k % n) + 1 \in 1 .. n OBVIOUS
<1> QED BY <1>1, RangeType

LEMMA CommandType ==
  ASSUME Typed, NEW t \in Threads, t = "server" => current \in Command
  PROVE  CommandOf(t) \in Command
<1>1. Polled \in Addresses BY RangeType DEF Typed, Polled
<1> QED BY <1>1 DEF CommandOf, Command

-----------------------------------------------------------------------------
(* Clients and the server.                                                  *)
Busy     == {"send", "confirm", "request", "collect"}
For(r, c) == CASE c = "awaitAck"  -> r.kind \in {"poll", "output", "malformed"}
               [] c = "awaitData" -> r.kind = "data"
               [] c = "awaitExit" -> r.kind = "exit"
(* A client that waits has its request at the server, being handled there, *)
(* or answered in kind.                                                     *)
Exchange ==
  /\ client \in Waits =>
       \/ For(request, client) /\ request # None /\ replies = <<>> /\ pc["server"] = "recv"
       \/ request = None /\ replies = <<>> /\ For(current, client) /\ pc["server"] \in Busy
       \/ /\ request = None /\ \E x : replies = <<x>> /\ (x = "ack" <=> client # "awaitData")
          /\ pc["server"] = IF client = "awaitExit" THEN "stopped" ELSE "recv"
  /\ client \notin Waits => replies = <<>>
  /\ client = "idle" => request = None /\ pc["server"] = "recv"
  /\ client = "done" => request = None /\ pc["server"] = "stopped"
(* What the server is at, it is at for a request.                          *)
Handling ==
  /\ pc["server"] \notin Busy => current = None
  /\ pc["server"] \in {"send", "confirm"} => current \in Command
  /\ pc["server"] \in {"request", "collect"} => current.kind = "data"

ExchangeInv == Typed /\ Exchange /\ Handling

LEMMA ExchangeIsOne == ASSUME Exchange PROVE OneReplyOfItsKind
<1>1. \A x : Len(<<x>>) = 1 /\ Head(<<x>>) = x /\ <<x>> # <<>> OBVIOUS
<1>2. Len(<<>>) = 0 OBVIOUS
<1>3. client \in Waits => Len(replies) <= 1 /\ (request # None => replies = <<>>)
                         /\ (replies # <<>> => (Head(replies) = "ack" <=> client # "awaitData"))
  BY <1>1, <1>2 DEF Exchange
<1>4. client \notin Waits => replies = <<>> /\ Len(replies) <= 1 BY <1>2 DEF Exchange
<1> QED BY <1>3, <1>4 DEF OneReplyOfItsKind

LEMMA Kinds ==
  /\ \A r \in Command : r.kind \in {"poll", "output"} /\ r \in Request /\ r # None
  /\ \A k \in {"data", "exit", "malformed"} : Other(k) \in Request /\ Other(k) # None /\ Other(k).kind = k
  /\ None \in Request /\ None.kind = "none"
  /\ \A r \in Request : r.kind \in {"poll", "output"} => r \in Command
  /\ \A r \in Request : r.kind = "none" => r = None
<1>1. \A k : Other(k).kind = k BY DEF Other
<1>2. ASSUME NEW r \in [kind: {"none", "data", "exit", "malformed"}]
      PROVE  r = Other(r.kind) /\ r.kind \notin {"poll", "output"}
  <2>1. PICK k \in {"none", "data", "exit", "malformed"} : r = [kind |-> k]
    <3>1. r = [kind |-> r.kind] /\ r.kind \in {"none", "data", "exit", "malformed"} OBVIOUS
    <3> QED BY <3>1
  <2> QED BY <2>1 DEF Other
<1>3. \A r \in Command : r.kind \in {"poll", "output"} BY DEF Command
<1>4. \A k \in {"none", "data", "exit", "malformed"} :
        Other(k) \in [kind: {"none", "data", "exit", "malformed"}]
  BY DEF Other
<1>5. \A r : r \in Request <=> r \in Command \/ r \in [kind: {"none", "data", "exit", "malformed"}] BY DEF Request
<1>6. None = Other("none") BY DEF None
<1> HIDE DEF Other
<1> QED BY <1>1, <1>2, <1>3, <1>4, <1>5, <1>6

-----------------------------------------------------------------------------
(* What the client does.                                                    *)
LEMMA InitExchange == Init => ExchangeInv
<1> SUFFICES ASSUME Init PROVE ExchangeInv OBVIOUS
<1>1. /\ pc \in [Threads -> ServerStates \cup ScannerStates]
      /\ pc["server"] = "accept" /\ pc["scanner"] = "sleep"
  BY DEF Init, Threads, ServerStates, ScannerStates
<1>2. /\ client = "gone" /\ request = None /\ replies = <<>> /\ current = None
      /\ lock = "free" /\ over = FALSE /\ at = 1 /\ wire = <<>> /\ bus = {} /\ line = <<>> /\ buffer = <<>>
  BY DEF Init
<1>3. \A S : <<>> \in Seq(S) OBVIOUS
<1>4. 1 \in DOMAIN ScanRange BY RangeType
<1>5. Typed BY <1>1, <1>2, <1>3, <1>4, Kinds DEF Typed, ServerStates, ScannerStates
<1>6. Exchange /\ Handling BY <1>1, <1>2 DEF Exchange, Handling, Waits, Busy
<1> QED BY <1>5, <1>6 DEF ExchangeInv

LEMMA OneReply == \A x : <<x>> # <<>> /\ Head(<<x>>) = x /\ Tail(<<x>>) = <<>>
OBVIOUS

LEMMA ClientStep == ASSUME ExchangeInv, Client PROVE ExchangeInv'
<1> USE DEF ExchangeInv
<1>1. ASSUME NEW r \in Command \cup {Other("exit"), Other("malformed")}, ClientSends(r) PROVE ExchangeInv'
  <2>1. r \in Request /\ r # None /\ r.kind \in {"poll", "output", "exit", "malformed"} BY Kinds
  <2>2. replies = <<>> /\ pc["server"] = "recv" /\ UNCHANGED <<replies, pc, current>>
    BY <1>1 DEF ClientSends, Exchange, Waits, threads
  <2>3. request' = r /\ client' = IF r.kind = "exit" THEN "awaitExit" ELSE "awaitAck"
    BY <1>1 DEF ClientSends
  <2>4. Exchange' BY <2>1, <2>2, <2>3 DEF Exchange, For, Waits
  <2>5. Handling' BY <2>2 DEF Handling
  <2> QED BY <1>1, <2>1, <2>3, <2>4, <2>5 DEF Typed, ClientSends, threads, scan, module, input
<1>2. ASSUME NEW b \in BOOLEAN, GetAck(b) PROVE ExchangeInv'
  <2>1. client \in {"awaitAck", "awaitExit"} /\ replies # <<>> /\ UNCHANGED <<pc, current>>
    BY <1>2 DEF GetAck, threads
  <2>2. /\ request = None /\ replies = <<"ack">>
        /\ pc["server"] = IF client = "awaitExit" THEN "stopped" ELSE "recv"
    BY <2>1 DEF Exchange, Waits
  <2>3. Head(replies) = "ack" /\ Tail(replies) = <<>> BY <2>2, OneReply
  <2>4. /\ replies' = <<>>
        /\ IF b THEN client = "awaitAck" /\ client' = "awaitData" /\ request' = Other("data")
           ELSE client' = (IF client = "awaitExit" THEN "done" ELSE "idle") /\ UNCHANGED request
    BY <1>2, <2>3 DEF GetAck
  <2>5. Exchange' BY <2>1, <2>2, <2>4, Kinds DEF Exchange, For, Waits
  <2>6. Handling' BY <2>1 DEF Handling
  <2>7. client' \in {"idle", "awaitData", "done"} /\ request' \in Request
    BY <2>1, <2>4, Kinds DEF Typed
  <2> QED BY <1>2, <2>5, <2>6, <2>7 DEF Typed, GetAck, threads, scan, module, input
<1>3. ASSUME NEW b \in BOOLEAN, GetResponseData(b) PROVE ExchangeInv'
  <2>1. client = "awaitData" /\ replies # <<>> /\ UNCHANGED <<pc, current>>
    BY <1>3 DEF GetResponseData, threads
  <2>2. PICK x : request = None /\ replies = <<x>> /\ pc["server"] = "recv"
    BY <2>1 DEF Exchange, Waits
  <2>3. /\ replies' = <<>>
        /\ IF b THEN request' = Other("data") /\ UNCHANGED client ELSE client' = "idle" /\ UNCHANGED request
    BY <1>3, <2>2, OneReply DEF GetResponseData
  <2>4. Exchange' BY <2>1, <2>2, <2>3, Kinds DEF Exchange, For, Waits
  <2>5. Handling' BY <2>1 DEF Handling
  <2>6. client' \in {"idle", "awaitData"} /\ request' \in Request BY <2>1, <2>3, Kinds DEF Typed
  <2> QED BY <1>3, <2>4, <2>5, <2>6 DEF Typed, GetResponseData, threads, scan, module, input
<1>4. CASE ClientLeaves
  <2>1. Exchange' /\ Handling' BY <1>4 DEF ClientLeaves, Exchange, Handling, Waits, threads
  <2> QED BY <1>4, <2>1 DEF Typed, ClientLeaves, threads, scan, module, input
<1>5. CASE ClientConnects
  <2>1. pc' = [pc EXCEPT !["server"] = "recv"] /\ pc["server"] = "accept" BY <1>5 DEF ClientConnects
  <2>2. pc'["server"] = "recv" /\ pc'["scanner"] = pc["scanner"]
        /\ pc' \in [Threads -> ServerStates \cup ScannerStates]
    BY <2>1 DEF Typed, Threads, ServerStates
  <2>3. Exchange' /\ Handling' BY <1>5, <2>1, <2>2 DEF ClientConnects, Exchange, Handling, Waits, Busy
  <2> QED BY <1>5, <2>2, <2>3, Kinds DEF Typed, ClientConnects, scan, module, input, ServerStates
<1> QED BY <1>1, <1>2, <1>3, <1>4, <1>5 DEF Client

-----------------------------------------------------------------------------
(* What the server does.                                                    *)
LEMMA ServerAt ==
  ASSUME Typed, NEW s \in ServerStates, pc' = [pc EXCEPT !["server"] = s]
  PROVE  /\ pc' \in [Threads -> ServerStates \cup ScannerStates]
         /\ pc'["server"] = s /\ pc'["scanner"] = pc["scanner"]
BY DEF Typed, Threads
LEMMA ScannerAt ==
  ASSUME Typed, NEW s \in ScannerStates, pc' = [pc EXCEPT !["scanner"] = s]
  PROVE  /\ pc' \in [Threads -> ServerStates \cup ScannerStates]
         /\ pc'["scanner"] = s /\ pc'["server"] = pc["server"]
BY DEF Typed, Threads

LEMMA AppendOne == \A x : Append(<<>>, x) = <<x>>
OBVIOUS

LEMMA ReceiveStep == ASSUME ExchangeInv, Receive PROVE ExchangeInv'
<1> USE DEF ExchangeInv
<1>1. /\ pc["server"] = "recv" /\ request # None /\ request' = None /\ client' = client
      /\ request \in Request /\ replies = <<>>
  BY DEF Receive, Exchange, Typed
<1>2. client \in {"awaitAck", "awaitData", "awaitExit", "gone"}
      /\ (client # "gone" => For(request, client))
  BY <1>1 DEF Typed, Exchange, Waits
<1>3. CASE request \in Command
  <2>1. current' = request /\ pc' = [pc EXCEPT !["server"] = "send"] /\ UNCHANGED replies
    BY <1>3, Kinds DEF Receive
  <2>2. /\ pc' \in [Threads -> ServerStates \cup ScannerStates]
        /\ pc'["server"] = "send" /\ pc'["scanner"] = pc["scanner"]
    BY <2>1, ServerAt DEF ServerStates
  <2>3. Exchange' BY <1>1, <1>2, <2>1, <2>2 DEF Exchange, Waits, Busy, For
  <2>4. Handling' BY <1>3, <2>1, <2>2 DEF Handling, Busy
  <2> QED BY <1>1, <2>1, <2>2, <2>3, <2>4, Kinds DEF Receive, Typed, ServerStates, module, input
<1>4. CASE request.kind = "data"
  <2>1. current' = request /\ pc' = [pc EXCEPT !["server"] = "request"] /\ UNCHANGED replies
    BY <1>4, Kinds DEF Receive
  <2>2. /\ pc' \in [Threads -> ServerStates \cup ScannerStates]
        /\ pc'["server"] = "request" /\ pc'["scanner"] = pc["scanner"]
    BY <2>1, ServerAt DEF ServerStates
  <2>3. Exchange' BY <1>1, <1>2, <2>1, <2>2 DEF Exchange, Waits, Busy, For
  <2>4. Handling' BY <1>4, <2>1, <2>2 DEF Handling, Busy
  <2> QED BY <1>1, <2>1, <2>2, <2>3, <2>4, Kinds DEF Receive, Typed, ServerStates, module, input
<1>5. CASE request.kind = "malformed"
  <2>1. current' = None /\ pc' = pc /\ replies' = IF client = "gone" THEN replies ELSE Append(replies, "ack")
    BY <1>5, Kinds DEF Receive
  <2>2. client # "gone" => replies' = <<"ack">> /\ client = "awaitAck" BY <1>1, <1>2, <1>5, <2>1, AppendOne DEF For
  <2>3. Exchange' BY <1>1, <1>2, <2>1, <2>2 DEF Exchange, Waits
  <2>4. Handling' BY <1>1, <2>1 DEF Handling, Busy
  <2> QED BY <1>1, <2>1, <2>3, <2>4, Kinds DEF Receive, Typed, module, input
<1>6. CASE request.kind = "exit"
  <2>1. /\ current' = None /\ pc' = [t \in Threads |-> "stopped"]
        /\ replies' = IF client = "gone" THEN replies ELSE Append(replies, "ack")
    BY <1>6, Kinds DEF Receive
  <2>2. pc'["server"] = "stopped" /\ pc'["scanner"] = "stopped"
        /\ pc' \in [Threads -> ServerStates \cup ScannerStates]
    BY <2>1 DEF Threads, ServerStates
  <2>3. client # "gone" => replies' = <<"ack">> /\ client = "awaitExit" BY <1>1, <1>2, <1>6, <2>1, AppendOne DEF For
  <2>4. Exchange' BY <1>1, <1>2, <2>1, <2>2, <2>3 DEF Exchange, Waits
  <2>5. Handling' BY <2>1, <2>2 DEF Handling, Busy
  <2> QED BY <1>1, <2>1, <2>2, <2>4, <2>5, Kinds DEF Receive, Typed, ServerStates, ScannerStates, module, input
<1> QED BY <1>3, <1>4, <1>5, <1>6 DEF Receive

(* The one reply a request is waiting for.                                  *)
LEMMA ReplyStep ==
  ASSUME ExchangeInv, pc["server"] \in Busy, NEW payload, Reply(payload),
         payload = "ack" <=> current.kind # "data"
  PROVE  /\ Exchange' /\ Handling' /\ UNCHANGED <<client, request>> /\ current' \in Request
         /\ pc' \in [Threads -> ServerStates \cup ScannerStates]
         /\ pc'["server"] \in {"recv", "accept"} /\ pc'["scanner"] = pc["scanner"]
<1> USE DEF ExchangeInv
<1>1. current' = None /\ None \in Request /\ UNCHANGED <<client, request>> BY Kinds DEF Reply
<1>2. PICK s \in {"recv", "accept"} :
        /\ pc' = [pc EXCEPT !["server"] = s]
        /\ IF client = "gone" THEN UNCHANGED replies ELSE s = "recv" /\ replies' = Append(replies, payload)
  BY DEF Reply
<1>3. /\ pc' \in [Threads -> ServerStates \cup ScannerStates]
      /\ pc'["server"] = s /\ pc'["scanner"] = pc["scanner"]
  BY <1>2, ServerAt DEF ServerStates
<1>4. Handling' BY <1>1, <1>3 DEF Handling, Busy
<1>5. CASE client = "gone" BY <1>1, <1>2, <1>3, <1>4, <1>5 DEF Exchange, Waits
<1>6. CASE client # "gone"
  <2>1. client \in Waits BY <1>6 DEF Typed, Exchange, Waits, Busy
  <2>2. request = None /\ replies = <<>> /\ For(current, client) BY <2>1 DEF Exchange, Busy
  <2>3. current.kind \in {"poll", "output", "data"} BY Kinds DEF Handling, Busy
  <2>4. client \in {"awaitAck", "awaitData"} /\ (client = "awaitData" <=> current.kind = "data")
    BY <2>1, <2>2, <2>3 DEF For, Waits
  <2>5. replies' = <<payload>> /\ pc'["server"] = "recv" BY <1>2, <1>3, <1>6, <2>2, AppendOne
  <2>6. Exchange' BY <1>1, <2>1, <2>2, <2>4, <2>5 DEF Exchange, Waits
  <2> QED BY <1>1, <1>3, <1>4, <2>6
<1> QED BY <1>5, <1>6

-----------------------------------------------------------------------------
(* What the threads do that share the port.                                 *)
LEMMA Goes ==
  ASSUME ExchangeInv, UNCHANGED <<connection, current>>,
         \/ pc'["server"] = pc["server"]
         \/ pc["server"] = "send" /\ pc'["server"] = "confirm"
         \/ pc["server"] = "request" /\ pc'["server"] = "collect"
  PROVE  Exchange' /\ Handling'
BY DEF ExchangeInv, Exchange, Handling, For, Busy, connection

LEMMA ThreadAt ==
  ASSUME Typed, NEW t \in Threads, NEW s \in Busy, pc' = [pc EXCEPT ![t] = s]
  PROVE  /\ pc' \in [Threads -> ServerStates \cup ScannerStates]
         /\ pc'[t] = s /\ \A u \in Threads \ {t} : pc'[u] = pc[u]
         /\ pc'["server"] \in ServerStates /\ pc'["scanner"] \in ScannerStates
BY DEF Typed, Threads, Busy, ServerStates, ScannerStates

LEMMA ItemTaken ==
  ASSUME Typed, TakeItem
  PROVE  /\ buffer # <<>> /\ buffer' \in Seq(Item) /\ line' \in Seq(Item) /\ Head(buffer) \in Item
BY Remainder DEF Typed, TakeItem

LEMMA WriteExchange == ASSUME ExchangeInv, NEW t \in Threads, Write(t) PROVE ExchangeInv'
<1> USE DEF ExchangeInv
<1>1. /\ pc[t] = "send" /\ pc' = [pc EXCEPT ![t] = "confirm"] /\ lock' = t /\ over' = FALSE
      /\ wire' = Append(wire, CommandOf(t)) /\ line' = Age(line) /\ buffer' = Age(buffer)
      /\ UNCHANGED <<client, request, replies, current, at, bus>>
  BY DEF Write, connection, scan
<1>2. /\ pc' \in [Threads -> ServerStates \cup ScannerStates]
      /\ pc'[t] = "confirm" /\ \A u \in Threads \ {t} : pc'[u] = pc[u]
      /\ pc'["server"] \in ServerStates /\ pc'["scanner"] \in ScannerStates
  BY <1>1, ThreadAt DEF Busy
<1>3. CommandOf(t) \in Command BY <1>1, CommandType DEF Handling
<1>4. wire' \in Seq(Command) BY <1>1, <1>3, Extended DEF Typed
<1>5. line' \in Seq(Item) /\ buffer' \in Seq(Item) BY <1>1, AgeType DEF Typed
<1>6. Typed' BY <1>1, <1>2, <1>4, <1>5 DEF Typed
<1>7. Exchange' /\ Handling' BY <1>1, <1>2, Goes DEF Threads, connection
<1> QED BY <1>6, <1>7

LEMMA ScannerSleepsType ==
  ASSUME Typed, ScannerSleeps
  PROVE  /\ pc' \in [Threads -> ServerStates \cup ScannerStates]
         /\ pc'["scanner"] = "sleep" /\ pc'["server"] = pc["server"] /\ at' \in DOMAIN ScanRange
<1>1. at \in DOMAIN ScanRange BY DEF Typed
<1>2. at' \in DOMAIN ScanRange BY <1>1, NextAt DEF ScannerSleeps
<1> QED BY <1>2, ScannerAt DEF ScannerSleeps, ScannerStates

LEMMA ConfirmExchange == ASSUME ExchangeInv, NEW t \in Threads, Confirm(t) PROVE ExchangeInv'
<1> USE DEF ExchangeInv
<1>1. /\ pc[t] = "confirm" /\ buffer' \in Seq(Item) /\ line' \in Seq(Item) /\ UNCHANGED <<wire, bus>>
  BY ItemTaken DEF Confirm, module
<1>2. CASE Keep
  <2>1. UNCHANGED <<client, request, replies, pc, lock, over, current, at>>
    BY <1>2 DEF Keep, connection, threads, scan
  <2>2. Exchange' /\ Handling' BY <2>1, Goes DEF connection
  <2> QED BY <1>1, <2>1, <2>2 DEF Typed
<1>3. CASE t = "server" /\ Release(t) /\ UNCHANGED scan /\ (Reply("ack") \/ Recover)
  <2>1. pc["server"] \in Busy /\ current.kind # "data" BY <1>1, <1>3, Kinds DEF Handling, Busy
  <2>2. Reply("ack") BY <1>3, <2>1 DEF Recover
  <2>3. /\ Exchange' /\ Handling' /\ UNCHANGED <<client, request>> /\ current' \in Request
        /\ pc' \in [Threads -> ServerStates \cup ScannerStates]
        /\ pc'["server"] \in {"recv", "accept"} /\ pc'["scanner"] = pc["scanner"]
    BY <2>1, <2>2, ReplyStep
  <2> QED BY <1>1, <1>3, <2>3 DEF Typed, Release, scan, ServerStates
<1>4. CASE t = "scanner" /\ Release(t) /\ UNCHANGED <<connection, current>>
           /\ (ScannerSleeps \/ (pc' = [pc EXCEPT ![t] = "request"] /\ UNCHANGED scan))
  <2>1. /\ pc' \in [Threads -> ServerStates \cup ScannerStates]
        /\ pc'["scanner"] \in ScannerStates /\ pc'["server"] = pc["server"] /\ at' \in DOMAIN ScanRange
    BY <1>4, ScannerSleepsType, ScannerAt DEF scan, Typed, ScannerStates
  <2>2. Exchange' /\ Handling' BY <1>4, <2>1, Goes
  <2> QED BY <1>1, <1>4, <2>1, <2>2 DEF Typed, Release, connection
<1>5. t = "server" \/ t = "scanner" BY DEF Threads
<1> QED BY <1>2, <1>3, <1>4, <1>5 DEF Confirm, Confirmed, ConfirmFails, scan

LEMMA RequestExchange == ASSUME ExchangeInv, NEW t \in Threads, RequestData(t) PROVE ExchangeInv'
<1> USE DEF ExchangeInv
<1>1. /\ pc[t] = "request" /\ pc' = [pc EXCEPT ![t] = "collect"] /\ lock' = t /\ over' = FALSE
      /\ UNCHANGED <<client, request, replies, current, at, wire, bus, line, buffer>>
  BY DEF RequestData, connection, scan, module, input
<1>2. /\ pc' \in [Threads -> ServerStates \cup ScannerStates]
      /\ pc'[t] = "collect" /\ \A u \in Threads \ {t} : pc'[u] = pc[u]
      /\ pc'["server"] \in ServerStates /\ pc'["scanner"] \in ScannerStates
  BY <1>1, ThreadAt DEF Busy
<1>3. Exchange' /\ Handling' BY <1>1, <1>2, Goes DEF Threads, connection
<1> QED BY <1>1, <1>2, <1>3 DEF Typed

LEMMA FromAddress ==
  \A i \in Item : i.kind = "data" /\ i.from # "garbled" => i.from \in Addresses /\ i.from # "ack"
BY ServerAssumption DEF Item

LEMMA CollectExchange ==
  ASSUME ExchangeInv, NEW t \in Threads, Collect(t) \/ CollectEnds(t) PROVE ExchangeInv'
<1> USE DEF ExchangeInv
<1>1. /\ pc[t] = "collect" /\ buffer' \in Seq(Item) /\ line' \in Seq(Item) /\ UNCHANGED <<wire, bus>>
  BY ItemTaken DEF Collect, CollectEnds, module, input, Typed
<1>2. CASE Keep
  <2>1. UNCHANGED <<client, request, replies, pc, lock, over, current, at>>
    BY <1>2 DEF Keep, connection, threads, scan
  <2>2. Exchange' /\ Handling' BY <2>1, Goes DEF connection
  <2> QED BY <1>1, <2>1, <2>2 DEF Typed
<1>3. CASE t = "server" /\ Release(t) /\ UNCHANGED scan /\ \E x : x # "ack" /\ Reply(x)
  <2>1. pc["server"] \in Busy /\ current.kind = "data" BY <1>1, <1>3 DEF Handling, Busy
  <2>2. /\ Exchange' /\ Handling' /\ UNCHANGED <<client, request>> /\ current' \in Request
        /\ pc' \in [Threads -> ServerStates \cup ScannerStates]
        /\ pc'["server"] \in {"recv", "accept"} /\ pc'["scanner"] = pc["scanner"]
    BY <1>3, <2>1, ReplyStep
  <2> QED BY <1>1, <1>3, <2>2 DEF Typed, Release, scan, ServerStates
<1>4. CASE t = "scanner" /\ Release(t) /\ UNCHANGED <<connection, current>> /\ ScannerSleeps
  <2>1. /\ pc' \in [Threads -> ServerStates \cup ScannerStates]
        /\ pc'["scanner"] \in ScannerStates /\ pc'["server"] = pc["server"] /\ at' \in DOMAIN ScanRange
    BY <1>4, ScannerSleepsType DEF ScannerStates
  <2>2. Exchange' /\ Handling' BY <1>4, <2>1, Goes
  <2> QED BY <1>1, <1>4, <2>1, <2>2 DEF Typed, Release, connection
<1>5. Keep \/ (Release(t) /\ (NoResponse(t) \/ DecodeFails(t) \/ \E a \in Addresses : a # "ack" /\ Response(t, a)))
  <2>1. CASE Collect(t)
    <3>1. Head(buffer) \in Item BY <2>1, ItemTaken DEF Collect
    <3> QED BY <2>1, <3>1, FromAddress DEF Collect
  <2> QED BY <2>1 DEF CollectEnds
<1>6. CASE t = "server"
  <2>1. current.kind = "data" BY <1>1, <1>6 DEF Handling
  <2> QED BY <1>2, <1>3, <1>5, <1>6, <2>1 DEF NoResponse, DecodeFails, Response, Recover
<1>7. CASE t = "scanner" BY <1>2, <1>4, <1>5, <1>7 DEF NoResponse, DecodeFails, Response
<1> QED BY <1>6, <1>7 DEF Threads

-----------------------------------------------------------------------------
(* The module, the serial line and the reader thread.                       *)
Outside ==
  \/ CheckSerial \/ LoseBytes \/ (\E a \in bus : Relay(a)) \/ SerialReady
  \/ LoseItem \/ Garble \/ Put \/ DropOldest
LEMMA OutsideKeeps == ASSUME Outside PROVE UNCHANGED <<connection, threads, scan>>
BY DEF Outside, CheckSerial, LoseBytes, Relay, SerialReady, LoseItem, Garble, Put, DropOldest, NoFault, Fault

LEMMA OutsideType ==
  ASSUME Typed, Outside
  PROVE  wire' \in Seq(Command) /\ bus' \subseteq Addresses /\ line' \in Seq(Item) /\ buffer' \in Seq(Item)
<1> USE DEF Typed
<1>1. CASE CheckSerial
  <2>1. wire # <<>> /\ Head(wire) \in Command /\ wire' \in Seq(Command) BY <1>1, Remainder DEF CheckSerial
  <2>2. Head(wire).to \in Addresses BY <2>1 DEF Command
  <2>3. \A a \in Addresses : <<Ack, Data(a)>> \in Seq(Item) /\ <<Ack>> \in Seq(Item) BY ItemsAreItems
  <2>4. line' \in Seq(Item) /\ buffer' = buffer BY <1>1, <2>2, <2>3, Joined DEF CheckSerial, Puts
  <2> QED BY <1>1, <2>1, <2>2, <2>4 DEF CheckSerial
<1>2. CASE LoseBytes BY <1>2, Remainder DEF LoseBytes, input
<1>3. ASSUME NEW a \in bus, Relay(a)
      PROVE  wire' \in Seq(Command) /\ bus' \subseteq Addresses /\ line' \in Seq(Item) /\ buffer' \in Seq(Item)
  <2>1. <<Data(a)>> \in Seq(Item) BY ItemsAreItems
  <2> QED BY <1>3, <2>1, Joined DEF Relay, Puts, input
<1>4. CASE SerialReady
  <2>1. <<[kind |-> "ready", old |-> FALSE]>> \in Seq(Item) BY ItemsAreItems
  <2> QED BY <1>4, <2>1, Joined DEF SerialReady, Puts, module
<1>5. CASE LoseItem BY <1>5, Remainder DEF LoseItem, module
<1>6. CASE Garble
  <2>1. line # <<>> /\ Head(line) \in Item /\ line[1] = Head(line) /\ Head(line).kind = "data"
    BY <1>6, Remainder DEF Garble
  <2>2. [line[1] EXCEPT !.from = "garbled"] \in Item BY <2>1, ItemsAreItems
  <2>3. line' = [line EXCEPT ![1] = [line[1] EXCEPT !.from = "garbled"]] BY <1>6 DEF Garble
  <2>4. line' \in Seq(Item) BY <2>1, <2>2, <2>3, Replaced
  <2> QED BY <1>6, <2>4 DEF Garble, module
<1>7. CASE Put BY <1>7, Remainder, Extended DEF Put, module
<1>8. CASE DropOldest BY <1>8, Remainder DEF DropOldest, module
<1> QED BY <1>1, <1>2, <1>3, <1>4, <1>5, <1>6, <1>7, <1>8 DEF Outside

LEMMA ExchangeStep == ASSUME ExchangeInv, [Next]_vars PROVE ExchangeInv'
<1> USE DEF ExchangeInv
<1>1. CASE Client BY <1>1, ClientStep
<1>2. CASE Receive BY <1>2, ReceiveStep
<1>3. CASE LostConnection
  <2>1. /\ pc' \in [Threads -> ServerStates \cup ScannerStates]
        /\ pc'["server"] = "accept" /\ pc'["scanner"] = pc["scanner"]
    BY <1>3, ServerAt DEF LostConnection, ServerStates
  <2>2. Exchange' /\ Handling' BY <1>3, <2>1 DEF LostConnection, Exchange, Handling, Waits, Busy, connection
  <2> QED BY <1>3, <2>1, <2>2 DEF LostConnection, Typed, ServerStates, connection, scan, module, input
<1>4. CASE ScannerWakes
  <2>1. /\ pc' \in [Threads -> ServerStates \cup ScannerStates]
        /\ pc'["scanner"] = "send" /\ pc'["server"] = pc["server"]
    BY <1>4, ScannerAt DEF ScannerWakes, ScannerStates
  <2>2. Exchange' /\ Handling' BY <1>4, <2>1, Goes DEF ScannerWakes
  <2> QED BY <1>4, <2>1, <2>2 DEF ScannerWakes, Typed, ScannerStates, connection, scan, module, input
<1>5. CASE \E t \in Threads : Thread(t)
  BY <1>5, WriteExchange, ConfirmExchange, RequestExchange, CollectExchange DEF Thread
<1>6. CASE TimeLimit
  <2>1. UNCHANGED <<connection, current, pc>> BY <1>6 DEF TimeLimit
  <2>2. Exchange' /\ Handling' BY <2>1, Goes
  <2> QED BY <1>6, <2>2 DEF TimeLimit, Typed, connection, scan, module, input
<1>7. CASE Outside
  <2>1. UNCHANGED <<connection, threads, scan>> BY <1>7, OutsideKeeps
  <2>2. Exchange' /\ Handling' BY <2>1, Goes DEF threads
  <2> QED BY <1>7, <2>1, <2>2, OutsideType DEF Typed, connection, threads, scan
<1>8. CASE UNCHANGED vars
  <2>1. Exchange' /\ Handling' BY <1>8, Goes DEF vars, connection, threads
  <2> QED BY <1>8, <2>1 DEF vars, connection, threads, scan, module, input, Typed
<1> QED BY <1>1, <1>2, <1>3, <1>4, <1>5, <1>6, <1>7, <1>8 DEF Next, Outside

LEMMA ExchangeInvariant == Spec => []ExchangeInv
<1>1. ExchangeInv /\ [Next]_vars => ExchangeInv' BY ExchangeStep
<1> QED BY <1>1, InitExchange, PTL DEF Spec

(* A request gets one reply, of the kind its client waits for, whatever     *)
(* fails and whoever leaves (listen and reply, server.py).                  *)
THEOREM ReplyCorrect == Spec => []OneReplyOfItsKind
<1>1. ExchangeInv => OneReplyOfItsKind BY ExchangeIsOne DEF ExchangeInv
<1> QED BY <1>1, ExchangeInvariant, PTL

-----------------------------------------------------------------------------
(* What is under way to the threads, in order.                              *)
Queue      == buffer \o line
IsAck(i)   == i.kind = "ack"
OldFirst(q) == \A i, j \in 1 .. Len(q) : i < j /\ q[j].old => q[i].old
OneAck(q)  == \A i, j \in 1 .. Len(q) : IsAck(q[i]) /\ IsAck(q[j]) => i = j
FreshAcks(q) == \A i \in 1 .. Len(q) : IsAck(q[i]) => ~q[i].old
HasAck(q)  == \E i \in 1 .. Len(q) : IsAck(q[i])
HasOld(q)  == \E i \in 1 .. Len(q) : q[i].old

(* A shorter queue, its items as old as before and ACKs where ACKs were.    *)
Thins(r, q) ==
  \E h \in [1 .. Len(r) -> 1 .. Len(q)] :
    /\ \A i \in 1 .. Len(r) : r[i].old = q[h[i]].old /\ (IsAck(r[i]) => IsAck(q[h[i]]))
    /\ \A i, j \in 1 .. Len(r) : i < j => h[i] < h[j]

LEMMA ThinsKeeps ==
  ASSUME NEW q, NEW r, Len(q) \in Nat, Len(r) \in Nat, Thins(r, q)
  PROVE  /\ OldFirst(q) => OldFirst(r)
         /\ OneAck(q) => OneAck(r)
         /\ FreshAcks(q) => FreshAcks(r)
         /\ HasAck(r) => HasAck(q)
         /\ HasOld(r) => HasOld(q)
<1>1. PICK h \in [1 .. Len(r) -> 1 .. Len(q)] :
        /\ \A i \in 1 .. Len(r) : r[i].old = q[h[i]].old /\ (IsAck(r[i]) => IsAck(q[h[i]]))
        /\ \A i, j \in 1 .. Len(r) : i < j => h[i] < h[j]
  BY DEF Thins
<1>2. \A i \in 1 .. Len(r) : h[i] \in 1 .. Len(q) BY <1>1
<1>3. OldFirst(q) => OldFirst(r) BY <1>1, <1>2 DEF OldFirst
<1>4. OneAck(q) => OneAck(r)
  <2> SUFFICES ASSUME OneAck(q), NEW i \in 1 .. Len(r), NEW j \in 1 .. Len(r), IsAck(r[i]), IsAck(r[j])
               PROVE  i = j
    BY DEF OneAck
  <2>1. h[i] = h[j] BY <1>1, <1>2 DEF OneAck
  <2>2. i < j => h[i] < h[j] BY <1>1
  <2>3. j < i => h[j] < h[i] BY <1>1
  <2>4. h[i] \in Int /\ h[j] \in Int BY <1>2
  <2> QED BY <2>1, <2>2, <2>3, <2>4
<1>5. FreshAcks(q) => FreshAcks(r) BY <1>1, <1>2 DEF FreshAcks
<1>6. HasAck(r) => HasAck(q) BY <1>1, <1>2 DEF HasAck
<1>7. HasOld(r) => HasOld(q) BY <1>1, <1>2 DEF HasOld
<1> QED BY <1>3, <1>4, <1>5, <1>6, <1>7

LEMMA QueueIndex ==
  ASSUME NEW b \in Seq(Item), NEW l \in Seq(Item)
  PROVE  /\ b \o l \in Seq(Item) /\ Len(b \o l) = Len(b) + Len(l) /\ Len(b) \in Nat /\ Len(l) \in Nat
         /\ \A i \in 1 .. Len(b) + Len(l) : (b \o l)[i] = IF i <= Len(b) THEN b[i] ELSE l[i - Len(b)]
OBVIOUS
LEMMA TailIndex ==
  ASSUME NEW s \in Seq(Item), s # <<>>
  PROVE  /\ Tail(s) \in Seq(Item) /\ Len(Tail(s)) = Len(s) - 1 /\ Len(s) \in Nat \ {0} /\ Head(s) = s[1]
         /\ \A i \in 1 .. Len(s) - 1 : Tail(s)[i] = s[i + 1]
OBVIOUS
LEMMA AppendIndex ==
  ASSUME NEW s \in Seq(Item), NEW e \in Item
  PROVE  /\ Append(s, e) \in Seq(Item) /\ Len(Append(s, e)) = Len(s) + 1
         /\ \A i \in 1 .. Len(s) + 1 : Append(s, e)[i] = IF i <= Len(s) THEN s[i] ELSE e
OBVIOUS

(* The oldest item is taken.                                                *)
LEMMA TakeThins ==
  ASSUME NEW b \in Seq(Item), NEW l \in Seq(Item), b # <<>>
  PROVE  /\ Thins(Tail(b) \o l, b \o l) /\ Len(Tail(b) \o l) = Len(b \o l) - 1
         /\ (b \o l)[1] = Head(b) /\ Len(b \o l) \in Nat \ {0}
         /\ \A i \in 1 .. Len(Tail(b) \o l) : (Tail(b) \o l)[i] = (b \o l)[i + 1]
<1> DEFINE q == b \o l
           r == Tail(b) \o l
           h == [i \in 1 .. Len(r) |-> i + 1]
<1>1. Len(q) = Len(b) + Len(l) /\ Len(r) = Len(q) - 1 /\ Len(b) \in Nat \ {0} /\ Len(l) \in Nat
      /\ Len(Tail(b)) = Len(b) - 1
  BY QueueIndex, TailIndex
<1>2. \A i \in 1 .. Len(r) : r[i] = q[i + 1]
  <2> SUFFICES ASSUME NEW i \in 1 .. Len(r) PROVE r[i] = q[i + 1] OBVIOUS
  <2>1. r[i] = IF i <= Len(b) - 1 THEN Tail(b)[i] ELSE l[i - (Len(b) - 1)] BY <1>1, QueueIndex, TailIndex
  <2>2. q[i + 1] = IF i + 1 <= Len(b) THEN b[i + 1] ELSE l[i + 1 - Len(b)] BY <1>1, QueueIndex
  <2>3. i + 1 - Len(b) = i - (Len(b) - 1) BY <1>1
  <2>4. i <= Len(b) - 1 => Tail(b)[i] = b[i + 1] BY <1>1, TailIndex
  <2> QED BY <1>1, <2>1, <2>2, <2>3, <2>4
<1>3. q[1] = Head(b) BY <1>1, QueueIndex, TailIndex
<1>4. Len(q) \in Nat \ {0} BY <1>1
<1> HIDE DEF q, r
<1>5. h \in [1 .. Len(r) -> 1 .. Len(q)] /\ \A i \in 1 .. Len(r) : h[i] = i + 1 BY <1>1
<1> HIDE DEF h
<1>6. Thins(r, q)
  <2>1. \A i \in 1 .. Len(r) : r[i].old = q[h[i]].old /\ (IsAck(r[i]) => IsAck(q[h[i]]))
    BY <1>2, <1>5
  <2>2. \A i, j \in 1 .. Len(r) : i < j => h[i] < h[j]
    BY <1>1, <1>5
  <2>3. SUFFICES \E f \in [1 .. Len(r) -> 1 .. Len(q)] :
                   /\ \A i \in 1 .. Len(r) : r[i].old = q[f[i]].old /\ (IsAck(r[i]) => IsAck(q[f[i]]))
                   /\ \A i, j \in 1 .. Len(r) : i < j => f[i] < f[j]
    BY DEF Thins
  <2>. QED  BY <1>5, <2>1, <2>2, Zenon
<1> QED BY <1>1, <1>2, <1>3, <1>4, <1>6 DEF q, r

(* An item is lost on the line.                                             *)
LEMMA LossThins ==
  ASSUME NEW b \in Seq(Item), NEW l \in Seq(Item), l # <<>> PROVE Thins(b \o Tail(l), b \o l)
<1> DEFINE q == b \o l
           r == b \o Tail(l)
           h == [i \in 1 .. Len(r) |-> IF i <= Len(b) THEN i ELSE i + 1]
<1>1. Len(q) = Len(b) + Len(l) /\ Len(r) = Len(q) - 1 /\ Len(l) \in Nat \ {0} /\ Len(b) \in Nat
      /\ Len(Tail(l)) = Len(l) - 1
  BY QueueIndex, TailIndex
<1>2. \A i \in 1 .. Len(r) : r[i] = IF i <= Len(b) THEN q[i] ELSE q[i + 1]
  <2> SUFFICES ASSUME NEW i \in 1 .. Len(r) PROVE r[i] = IF i <= Len(b) THEN q[i] ELSE q[i + 1] OBVIOUS
  <2>1. r[i] = IF i <= Len(b) THEN b[i] ELSE Tail(l)[i - Len(b)] BY <1>1, QueueIndex, TailIndex
  <2>2. i <= Len(b) => q[i] = b[i] BY <1>1, QueueIndex
  <2>3. i > Len(b) => q[i + 1] = l[i + 1 - Len(b)] BY <1>1, QueueIndex
  <2>4. i > Len(b) => Tail(l)[i - Len(b)] = l[i - Len(b) + 1] BY <1>1, TailIndex
  <2>5. i - Len(b) + 1 = i + 1 - Len(b) BY <1>1
  <2> QED BY <1>1, <2>1, <2>2, <2>3, <2>4, <2>5
<1> HIDE DEF q, r
<1>3. h \in [1 .. Len(r) -> 1 .. Len(q)] BY <1>1
<1>4. \A i \in 1 .. Len(r) : h[i] = IF i <= Len(b) THEN i ELSE i + 1 OBVIOUS
<1> HIDE DEF h
<1>5. \A i \in 1 .. Len(r) : r[i] = q[h[i]] BY <1>2, <1>4
<1>6. \A i, j \in 1 .. Len(r) : i < j => h[i] < h[j] BY <1>1, <1>4
<1>7. Thins(r, q) BY <1>3, <1>5, <1>6 DEF Thins
<1> QED BY <1>7 DEF q, r

(* The reader thread moves an item into the buffer.                         *)
LEMMA PutThins ==
  ASSUME NEW b \in Seq(Item), NEW l \in Seq(Item), l # <<>>
  PROVE  Thins(Append(b, Head(l)) \o Tail(l), b \o l)
<1> DEFINE q == b \o l
           a == Append(b, Head(l))
           r == a \o Tail(l)
           h == [i \in 1 .. Len(r) |-> i]
<1>1. a \in Seq(Item) /\ Tail(l) \in Seq(Item) /\ Head(l) \in Item /\ Head(l) = l[1]
      /\ Len(a) = Len(b) + 1 /\ \A i \in 1 .. Len(b) + 1 : a[i] = IF i <= Len(b) THEN b[i] ELSE l[1]
  BY Remainder, TailIndex, AppendIndex
<1> HIDE DEF a
<1>2. Len(q) = Len(b) + Len(l) /\ Len(r) = Len(q) /\ Len(l) \in Nat \ {0} /\ Len(b) \in Nat
      /\ Len(Tail(l)) = Len(l) - 1
  <2>1. Len(q) = Len(b) + Len(l) /\ Len(b) \in Nat BY QueueIndex
  <2>2. Len(r) = Len(a) + Len(Tail(l)) BY <1>1, QueueIndex
  <2>3. Len(l) \in Nat \ {0} /\ Len(Tail(l)) = Len(l) - 1 BY TailIndex
  <2> HIDE DEF q, r
  <2> QED BY <1>1, <2>1, <2>2, <2>3
<1>3. \A i \in 1 .. Len(r) : r[i] = q[i]
  <2> SUFFICES ASSUME NEW i \in 1 .. Len(r) PROVE r[i] = q[i] OBVIOUS
  <2>1. r[i] = IF i <= Len(b) + 1 THEN a[i] ELSE Tail(l)[i - (Len(b) + 1)] BY <1>1, <1>2, QueueIndex
  <2>2. q[i] = IF i <= Len(b) THEN b[i] ELSE l[i - Len(b)] BY <1>2, QueueIndex
  <2>3. i > Len(b) + 1 => Tail(l)[i - (Len(b) + 1)] = l[i - (Len(b) + 1) + 1] BY <1>2, TailIndex
  <2>4. i - (Len(b) + 1) + 1 = i - Len(b) BY <1>2
  <2>5. i <= Len(b) + 1 => a[i] = q[i]
    <3>1. CASE i <= Len(b) BY <1>1, <1>2, <2>2, <3>1
    <3>2. CASE i = Len(b) + 1
      <4>1. i - Len(b) = 1 BY <1>2, <3>2
      <4> QED BY <1>1, <1>2, <2>2, <3>2, <4>1
    <3> QED BY <1>2, <3>1, <3>2
  <2> QED BY <1>2, <2>1, <2>2, <2>3, <2>4, <2>5
<1> HIDE DEF q, r
<1>4. h \in [1 .. Len(r) -> 1 .. Len(q)] BY <1>2
<1>5. Thins(r, q) BY <1>2, <1>3, <1>4 DEF Thins
<1> QED BY <1>5 DEF q, r, a

(* An item is garbled, or nothing happens to the queue.                     *)
LEMMA SameThins ==
  ASSUME NEW q, NEW r, Len(q) \in Nat, Len(r) = Len(q),
         \A i \in 1 .. Len(q) : r[i].old = q[i].old /\ (IsAck(r[i]) => IsAck(q[i]))
  PROVE  Thins(r, q)
<1> DEFINE h == [i \in 1 .. Len(r) |-> i]
<1>1. h \in [1 .. Len(r) -> 1 .. Len(q)] /\ \A i \in 1 .. Len(r) : h[i] = i OBVIOUS
<1> HIDE DEF h
<1> QED BY <1>1 DEF Thins

LEMMA GarbleThins ==
  ASSUME NEW b \in Seq(Item), NEW l \in Seq(Item), l # <<>>, Head(l).kind = "data"
  PROVE  Thins(b \o [l EXCEPT ![1] = [l[1] EXCEPT !.from = "garbled"]], b \o l)
<1> DEFINE e == [l[1] EXCEPT !.from = "garbled"]
           g == [l EXCEPT ![1] = e]
           q == b \o l
           r == b \o g
<1>1. l[1] \in Item /\ l[1].kind = "data" BY TailIndex
<1>2. e \in Item /\ e.kind = "data" /\ e.old = l[1].old BY <1>1, ItemsAreItems DEF Item
<1> HIDE DEF e
<1>3. g \in Seq(Item) /\ Len(g) = Len(l) /\ \A i \in 1 .. Len(l) : g[i] = IF i = 1 THEN e ELSE l[i]
  BY <1>2, Replaced
<1> HIDE DEF g
<1>4. Len(r) = Len(q) /\ Len(q) \in Nat /\ Len(q) = Len(b) + Len(l) /\ Len(b) \in Nat /\ Len(l) \in Nat
  <2>1. Len(q) = Len(b) + Len(l) /\ Len(b) \in Nat /\ Len(l) \in Nat BY QueueIndex
  <2>2. Len(r) = Len(b) + Len(g) BY <1>3, QueueIndex
  <2> HIDE DEF q, r
  <2> QED BY <1>3, <2>1, <2>2
<1>5. ASSUME NEW i \in 1 .. Len(q) PROVE r[i].old = q[i].old /\ (IsAck(r[i]) => IsAck(q[i]))
  <2>1. r[i] = IF i <= Len(b) THEN b[i] ELSE g[i - Len(b)] BY <1>3, <1>4, QueueIndex
  <2>2. q[i] = IF i <= Len(b) THEN b[i] ELSE l[i - Len(b)] BY <1>4, QueueIndex
  <2>3. i > Len(b) => i - Len(b) \in 1 .. Len(l) BY <1>4
  <2>4. i > Len(b) => g[i - Len(b)] = IF i - Len(b) = 1 THEN e ELSE l[i - Len(b)] BY <1>3, <2>3
  <2> HIDE DEF q, r
  <2> QED BY <1>1, <1>2, <1>4, <2>1, <2>2, <2>4 DEF IsAck
<1> HIDE DEF q, r
<1> QED BY <1>4, <1>5, SameThins DEF q, r, g, e

(* The module sends items, none of them old.                                *)
LEMMA PutsIndex ==
  ASSUME NEW b \in Seq(Item), NEW l \in Seq(Item), NEW items \in Seq(Item)
  PROVE  /\ Len(b \o (l \o items)) = Len(b \o l) + Len(items)
         /\ Len(b \o l) \in Nat /\ Len(items) \in Nat
         /\ \A i \in 1 .. Len(b \o l) + Len(items) :
              (b \o (l \o items))[i] = IF i <= Len(b \o l) THEN (b \o l)[i] ELSE items[i - Len(b \o l)]
<1> DEFINE m == l \o items
<1>1. /\ m \in Seq(Item) /\ Len(m) = Len(l) + Len(items) /\ Len(l) \in Nat /\ Len(items) \in Nat
      /\ \A i \in 1 .. Len(l) + Len(items) : m[i] = IF i <= Len(l) THEN l[i] ELSE items[i - Len(l)]
  BY QueueIndex
<1> HIDE DEF m
<1>2. /\ Len(b \o m) = Len(b) + Len(m) /\ Len(b) \in Nat
      /\ \A i \in 1 .. Len(b) + Len(m) : (b \o m)[i] = IF i <= Len(b) THEN b[i] ELSE m[i - Len(b)]
  BY <1>1, QueueIndex
<1>3. /\ Len(b \o l) = Len(b) + Len(l)
      /\ \A i \in 1 .. Len(b) + Len(l) : (b \o l)[i] = IF i <= Len(b) THEN b[i] ELSE l[i - Len(b)]
  BY QueueIndex
<1>4. ASSUME NEW i \in 1 .. Len(b \o l) + Len(items)
      PROVE  (b \o m)[i] = IF i <= Len(b \o l) THEN (b \o l)[i] ELSE items[i - Len(b \o l)]
  <2>0. i \in 1 .. Len(b) + Len(m) /\ Len(b) \in Nat /\ Len(l) \in Nat /\ Len(items) \in Nat
    BY <1>1, <1>2, <1>3
  <2>1. CASE i <= Len(b)
    <3>1. i <= Len(b \o l) /\ i \in 1 .. Len(b) + Len(l) BY <1>3, <2>0, <2>1
    <3> QED BY <1>2, <1>3, <2>0, <2>1, <3>1
  <2>2. CASE i > Len(b) /\ i <= Len(b) + Len(l)
    <3>1. i <= Len(b \o l) /\ i \in 1 .. Len(b) + Len(l) BY <1>3, <2>0, <2>2
    <3>2. i - Len(b) \in 1 .. Len(l) + Len(items) /\ i - Len(b) <= Len(l) BY <2>0, <2>2
    <3> QED BY <1>1, <1>2, <1>3, <2>0, <2>2, <3>1, <3>2
  <2>3. CASE i > Len(b) + Len(l)
    <3>1. i - Len(b) - Len(l) = i - Len(b \o l) /\ i > Len(b) /\ ~(i <= Len(b \o l)) BY <1>3, <2>0, <2>3
    <3>2. i - Len(b) \in 1 .. Len(l) + Len(items) /\ ~(i - Len(b) <= Len(l)) BY <1>1, <1>2, <2>0, <2>3
    <3>3. (b \o m)[i] = m[i - Len(b)] BY <1>2, <2>0, <3>1
    <3>4. m[i - Len(b)] = items[i - Len(b) - Len(l)] BY <1>1, <3>2
    <3> QED BY <3>1, <3>3, <3>4
  <2> QED BY <2>0, <2>1, <2>2, <2>3
<1> QED BY <1>1, <1>2, <1>3, <1>4 DEF m

LEMMA FreshKeeps ==
  ASSUME NEW q, NEW r, NEW items, Len(q) \in Nat, Len(items) \in Nat, Len(r) = Len(q) + Len(items),
         \A i \in 1 .. Len(q) + Len(items) : r[i] = IF i <= Len(q) THEN q[i] ELSE items[i - Len(q)],
         \A i \in 1 .. Len(items) : ~items[i].old
  PROVE  /\ OldFirst(q) => OldFirst(r)
         /\ FreshAcks(q) => FreshAcks(r)
         /\ HasOld(r) => HasOld(q)
         /\ (\A i \in 1 .. Len(items) : ~IsAck(items[i])) => (OneAck(q) => OneAck(r)) /\ (HasAck(r) => HasAck(q))
         /\ ~HasAck(q) /\ (\A i \in 1 .. Len(items) : IsAck(items[i]) => i = 1) => OneAck(r)
<1>1. \A i \in 1 .. Len(r) : i > Len(q) => i - Len(q) \in 1 .. Len(items) /\ r[i] = items[i - Len(q)] OBVIOUS
<1>2. \A i \in 1 .. Len(r) : i <= Len(q) => i \in 1 .. Len(q) /\ r[i] = q[i] OBVIOUS
<1>3. \A i \in 1 .. Len(r) : r[i].old => i <= Len(q) BY <1>1
<1>4. OldFirst(q) => OldFirst(r) BY <1>2, <1>3 DEF OldFirst
<1>5. FreshAcks(q) => FreshAcks(r) BY <1>2, <1>3 DEF FreshAcks
<1>6. HasOld(r) => HasOld(q) BY <1>2, <1>3 DEF HasOld
<1>7. ASSUME \A i \in 1 .. Len(items) : ~IsAck(items[i])
      PROVE  (OneAck(q) => OneAck(r)) /\ (HasAck(r) => HasAck(q))
  <2>1. \A i \in 1 .. Len(r) : IsAck(r[i]) => i <= Len(q) BY <1>1, <1>7
  <2> QED BY <1>2, <2>1 DEF OneAck, HasAck
<1>8. ASSUME ~HasAck(q), \A i \in 1 .. Len(items) : IsAck(items[i]) => i = 1 PROVE OneAck(r)
  <2>1. \A i \in 1 .. Len(r) : IsAck(r[i]) => i = Len(q) + 1 BY <1>1, <1>2, <1>8 DEF HasAck
  <2> QED BY <2>1 DEF OneAck
<1> QED BY <1>4, <1>5, <1>6, <1>7, <1>8

LEMMA AgedItem ==
  ASSUME NEW s \in Seq(Item)
  PROVE  Len(Age(s)) = Len(s) /\ \A i \in 1 .. Len(s) : Age(s)[i].old /\ Age(s)[i].kind = s[i].kind
<1>1. ASSUME NEW i \in Item PROVE [i EXCEPT !.old = TRUE].old /\ [i EXCEPT !.old = TRUE].kind = i.kind
  <2>1. CASE i \in [kind: {"ack", "ready"}, old: BOOLEAN] BY <2>1
  <2>2. CASE i \in [kind: {"data"}, from: Addresses \cup {"garbled"}, old: BOOLEAN] BY <2>2
  <2> QED BY <2>1, <2>2 DEF Item
<1>2. Len(Age(s)) = Len(s) BY AgeType
<1>3. ASSUME NEW i \in 1 .. Len(s) PROVE Age(s)[i].old /\ Age(s)[i].kind = s[i].kind
  <2>1. s[i] \in Item OBVIOUS
  <2>2. Age(s)[i] = [s[i] EXCEPT !.old = TRUE] BY AgeType
  <2> QED BY <1>1, <2>1, <2>2
<1> QED BY <1>2, <1>3

LEMMA AgeIsOld ==
  ASSUME NEW b \in Seq(Item), NEW l \in Seq(Item)
  PROVE  /\ Len(Age(b) \o Age(l)) = Len(b \o l) /\ Len(b \o l) \in Nat
         /\ \A i \in 1 .. Len(b \o l) :
              /\ (Age(b) \o Age(l))[i].old
              /\ IsAck((Age(b) \o Age(l))[i]) => IsAck((b \o l)[i])
<1> DEFINE x == Age(b)
           y == Age(l)
<1>2. /\ x \in Seq(Item) /\ Len(x) = Len(b) /\ \A i \in 1 .. Len(b) : x[i].old /\ x[i].kind = b[i].kind
      /\ y \in Seq(Item) /\ Len(y) = Len(l) /\ \A i \in 1 .. Len(l) : y[i].old /\ y[i].kind = l[i].kind
  BY AgedItem, AgeType
<1> HIDE DEF x, y
<1>3. /\ Len(b \o l) = Len(b) + Len(l) /\ Len(b) \in Nat /\ Len(l) \in Nat
      /\ \A i \in 1 .. Len(b) + Len(l) : (b \o l)[i] = IF i <= Len(b) THEN b[i] ELSE l[i - Len(b)]
  BY QueueIndex
<1>4. /\ Len(x \o y) = Len(b) + Len(l)
      /\ \A i \in 1 .. Len(b) + Len(l) : (x \o y)[i] = IF i <= Len(b) THEN x[i] ELSE y[i - Len(b)]
  <2>1. /\ Len(x \o y) = Len(x) + Len(y)
        /\ \A i \in 1 .. Len(x) + Len(y) : (x \o y)[i] = IF i <= Len(x) THEN x[i] ELSE y[i - Len(x)]
    BY <1>2, QueueIndex
  <2> QED BY <1>2, <2>1
<1>5. ASSUME NEW i \in 1 .. Len(b) + Len(l)
      PROVE  (x \o y)[i].old /\ (x \o y)[i].kind = (b \o l)[i].kind
  <2>1. CASE i <= Len(b)
    <3>1. i \in 1 .. Len(b) BY <1>3, <2>1
    <3>2. (x \o y)[i] = x[i] /\ (b \o l)[i] = b[i] BY <1>3, <1>4, <2>1
    <3> QED BY <1>2, <3>1, <3>2
  <2>2. CASE i > Len(b)
    <3>1. i - Len(b) \in 1 .. Len(l) /\ ~(i <= Len(b)) BY <1>3, <2>2
    <3>2. (x \o y)[i] = y[i - Len(b)] /\ (b \o l)[i] = l[i - Len(b)] BY <1>3, <1>4, <3>1
    <3> QED BY <1>2, <3>1, <3>2
  <2>3. i \in Int /\ Len(b) \in Int BY <1>3
  <2>4. i <= Len(b) \/ i > Len(b) BY <2>3
  <2> QED BY <2>1, <2>2, <2>4
<1> QED BY <1>3, <1>4, <1>5 DEF x, y, IsAck

-----------------------------------------------------------------------------
(* The threads take turns at the port. When none confirms a command, or its *)
(* time limit is past, no command, ACK or old item is on the way.           *)
Confirming == \E t \in Threads : pc[t] = "confirm"
Quiet(q)   == wire = <<>> /\ ~HasAck(q) /\ ~HasOld(q)

Together == pc["server"] = "stopped" <=> pc["scanner"] = "stopped"
Holds == Running => \A t \in Threads : lock = t <=> pc[t] \in {"confirm", "collect"}
Order ==
  /\ FreshAcks(Queue)
  /\ Running =>
       /\ OldFirst(Queue) /\ OneAck(Queue)
       /\ Len(wire) <= 1 /\ (wire # <<>> => ~HasAck(Queue))
       /\ (Confirming /\ ~over) \/ Quiet(Queue)

PortInv == Together /\ Holds /\ Order

LEMMA QueueType == ASSUME Typed PROVE Queue \in Seq(Item) /\ Len(Queue) \in Nat
BY QueueIndex DEF Typed, Queue

LEMMA Arrivals ==
  ASSUME Typed PROVE \A x \in Arriving : \E i \in 1 .. Len(Queue) : Queue[i] = x
<1> SUFFICES ASSUME NEW x \in Arriving PROVE \E i \in 1 .. Len(Queue) : Queue[i] = x OBVIOUS
<1>1. /\ Len(Queue) = Len(buffer) + Len(line) /\ Len(buffer) \in Nat /\ Len(line) \in Nat
      /\ \A i \in 1 .. Len(buffer) + Len(line) :
           Queue[i] = IF i <= Len(buffer) THEN buffer[i] ELSE line[i - Len(buffer)]
  BY QueueIndex DEF Typed, Queue
<1>2. CASE x \in ToSet(buffer)
  <2>1. PICK i \in 1 .. Len(buffer) : buffer[i] = x BY <1>2 DEF ToSet, Typed
  <2>2. i \in 1 .. Len(buffer) + Len(line) /\ i <= Len(buffer) BY <1>1
  <2> QED BY <1>1, <2>1, <2>2
<1>3. CASE x \in ToSet(line)
  <2>1. PICK i \in 1 .. Len(line) : line[i] = x BY <1>3 DEF ToSet, Typed
  <2> DEFINE j == Len(buffer) + i
  <2>2. j \in 1 .. Len(buffer) + Len(line) /\ ~(j <= Len(buffer)) /\ j - Len(buffer) = i BY <1>1
  <2> HIDE DEF j
  <2> QED BY <1>1, <2>1, <2>2
<1> QED BY <1>2, <1>3 DEF Arriving

LEMMA Arrived ==
  ASSUME Typed PROVE \A i \in 1 .. Len(Queue) : Queue[i] \in Arriving
<1> SUFFICES ASSUME NEW i \in 1 .. Len(Queue) PROVE Queue[i] \in Arriving OBVIOUS
<1>1. /\ Len(Queue) = Len(buffer) + Len(line) /\ Len(buffer) \in Nat /\ Len(line) \in Nat
      /\ \A k \in 1 .. Len(buffer) + Len(line) :
           Queue[k] = IF k <= Len(buffer) THEN buffer[k] ELSE line[k - Len(buffer)]
  BY QueueIndex DEF Typed, Queue
<1>2. CASE i <= Len(buffer)
  <2>1. i \in 1 .. Len(buffer) /\ Queue[i] = buffer[i] BY <1>1, <1>2
  <2>2. buffer[i] \in ToSet(buffer) BY <2>1 DEF ToSet, Typed
  <2> QED BY <2>1, <2>2 DEF Arriving
<1>3. CASE ~(i <= Len(buffer))
  <2>1. i - Len(buffer) \in 1 .. Len(line) /\ Queue[i] = line[i - Len(buffer)] BY <1>1, <1>3
  <2>2. line[i - Len(buffer)] \in ToSet(line) BY <2>1 DEF ToSet, Typed
  <2> QED BY <2>1, <2>2 DEF Arriving
<1> QED BY <1>2, <1>3

LEMMA Unchanged == ASSUME Typed, Queue' = Queue PROVE Thins(Queue', Queue)
BY QueueType, SameThins

LEMMA OrderKept ==
  ASSUME Typed, Typed', Order, Thins(Queue', Queue), wire' = wire \/ wire' = <<>>, Running' => Running,
         Running' => \/ Confirming /\ ~over => Confirming' /\ ~over'
                     \/ wire = <<>> /\ ~HasAck(Queue') /\ ~HasOld(Queue')
  PROVE  Order'
<1>1. Len(Queue) \in Nat /\ Len(Queue') \in Nat BY QueueType
<1>2. /\ OldFirst(Queue) => OldFirst(Queue')
      /\ OneAck(Queue) => OneAck(Queue')
      /\ FreshAcks(Queue) => FreshAcks(Queue')
      /\ HasAck(Queue') => HasAck(Queue)
      /\ HasOld(Queue') => HasOld(Queue)
  BY <1>1, ThinsKeeps
<1>3. Len(<<>>) <= 1 OBVIOUS
<1> QED BY <1>2, <1>3 DEF Order, Quiet

LEMMA AllThreads == Threads = {"server", "scanner"} /\ "free" \notin Threads BY DEF Threads

(* A thread goes on without the port.                                       *)
LEMMA TurnStep ==
  ASSUME Typed, Typed', PortInv, UNCHANGED <<wire, line, buffer, lock, over>>,
         \A t \in Threads : \/ pc'[t] = pc[t]
                            \/ {pc[t], pc'[t]} \cap {"confirm", "collect", "stopped"} = {}
  PROVE  PortInv'
<1>1. Thins(Queue', Queue) BY Unchanged DEF Queue
<1>2. /\ Running' = Running /\ Confirming' = Confirming
      /\ \A t \in Threads : pc'[t] \in {"confirm", "collect"} <=> pc[t] \in {"confirm", "collect"}
      /\ \A t \in Threads : pc'[t] = "stopped" <=> pc[t] = "stopped"
  BY AllThreads DEF Running, Confirming
<1>3. Order' BY <1>1, <1>2, OrderKept DEF PortInv
<1> QED BY <1>2, <1>3, AllThreads DEF PortInv, Together, Holds

(* A thread lets the port go.                                               *)
LEMMA ReleaseStep ==
  ASSUME Typed, Typed', PortInv, NEW t \in Threads, pc[t] \in {"confirm", "collect"}, Release(t),
         UNCHANGED wire, Thins(Queue', Queue), pc'[t] \notin {"confirm", "collect", "stopped"},
         \A u \in Threads \ {t} : pc'[u] = pc[u],
         pc[t] = "confirm" => wire = <<>> /\ ~HasAck(Queue') /\ ~HasOld(Queue')
  PROVE  PortInv'
<1>1. Running /\ Running' /\ lock = t /\ lock' = "free"
  BY AllThreads DEF PortInv, Together, Running, Release
<1>2. \A u \in Threads \ {t} : pc[u] \notin {"confirm", "collect"} BY <1>1 DEF PortInv, Holds
<1>3. pc[t] = "collect" => ~Confirming BY <1>2 DEF Confirming
<1>4. Order' BY <1>1, <1>3, OrderKept DEF PortInv
<1>5. Holds' BY <1>1, <1>2, AllThreads DEF Holds
<1>6. Together' BY <1>1, AllThreads DEF Together, PortInv
<1> QED BY <1>4, <1>5, <1>6 DEF PortInv

LEMMA Taken ==
  ASSUME Typed, TakeItem
  PROVE  /\ Thins(Queue', Queue) /\ Len(Queue') = Len(Queue) - 1 /\ Len(Queue) \in Nat \ {0}
         /\ Queue[1] = Head(buffer) /\ \A i \in 1 .. Len(Queue') : Queue'[i] = Queue[i + 1]
BY TakeThins DEF Typed, TakeItem, Queue

LEMMA WriteOrder ==
  ASSUME Typed, Typed', PortInv, NEW t \in Threads, Write(t) PROVE PortInv'
<1>1. /\ pc[t] = "send" /\ lock = "free" /\ lock' = t /\ over' = FALSE
      /\ pc'[t] = "confirm" /\ \A u \in Threads \ {t} : pc'[u] = pc[u]
      /\ wire' = Append(wire, CommandOf(t)) /\ line' = Age(line) /\ buffer' = Age(buffer)
  BY ThreadAt DEF Write, Busy
<1>2. Running /\ Running' BY <1>1, AllThreads DEF PortInv, Together, Running
<1>3. \A u \in Threads : pc[u] \notin {"confirm", "collect"} BY <1>1, <1>2, AllThreads DEF PortInv, Holds
<1>4. wire = <<>> /\ ~HasAck(Queue) BY <1>2, <1>3 DEF PortInv, Order, Quiet, Confirming
<1>5. Len(wire') = 1 BY <1>1, <1>4, AppendOne
<1>6. /\ Len(Queue') = Len(Queue) /\ Len(Queue) \in Nat
      /\ \A i \in 1 .. Len(Queue) : Queue'[i].old /\ (IsAck(Queue'[i]) => IsAck(Queue[i]))
  BY <1>1, AgeIsOld DEF Typed, Queue
<1>7. ~HasAck(Queue') BY <1>4, <1>6 DEF HasAck
<1>8. OldFirst(Queue') BY <1>6 DEF OldFirst
<1>9. OneAck(Queue') /\ FreshAcks(Queue') BY <1>7 DEF OneAck, FreshAcks, HasAck
<1>10. Order' BY <1>1, <1>5, <1>7, <1>8, <1>9 DEF Order, Confirming
<1>11. Holds' BY <1>1, <1>3, AllThreads DEF Holds
<1> QED BY <1>1, <1>2, <1>10, <1>11, AllThreads DEF PortInv, Together, Running

LEMMA ServerReplies ==
  ASSUME Typed, NEW x, Reply(x)
  PROVE  pc'["server"] \in {"recv", "accept"} /\ pc'["scanner"] = pc["scanner"]
BY ServerAt DEF Reply, ServerStates

LEMMA ConfirmOrder ==
  ASSUME Typed, Typed', PortInv, NEW t \in Threads, Confirm(t) PROVE PortInv'
<1>1. /\ pc[t] = "confirm" /\ TakeItem /\ wire' = wire
      /\ Thins(Queue', Queue) /\ Len(Queue') = Len(Queue) - 1 /\ Len(Queue) \in Nat \ {0}
      /\ Queue[1] = Head(buffer) /\ \A i \in 1 .. Len(Queue') : Queue'[i] = Queue[i + 1]
  BY Taken DEF Confirm, module
<1>2. Running /\ Confirming BY <1>1, AllThreads DEF PortInv, Together, Running, Confirming
<1>3. CASE Keep
  <2>1. UNCHANGED <<pc, lock, over>> BY <1>3 DEF Keep, threads
  <2>2. Order' BY <1>1, <1>2, <2>1, OrderKept DEF PortInv, Running, Confirming
  <2> QED BY <2>1, <2>2 DEF PortInv, Together, Holds, Running
<1>4. ASSUME Release(t), Confirmed(t) \/ ConfirmFails(t),
             wire = <<>> /\ ~HasAck(Queue') /\ ~HasOld(Queue')
      PROVE  PortInv'
  <2>1. CASE t = "server"
    <3>1. \E x : Reply(x) BY <1>4, <2>1 DEF Confirmed, ConfirmFails, Recover
    <3>2. pc'["server"] \in {"recv", "accept"} /\ pc'["scanner"] = pc["scanner"] BY <3>1, ServerReplies
    <3> QED BY <1>1, <1>4, <2>1, <3>2, ReleaseStep, AllThreads
  <2>2. CASE t = "scanner"
    <3>1. pc'["scanner"] \in {"sleep", "request"} /\ pc'["server"] = pc["server"]
      BY <1>4, <2>2, ScannerAt DEF Confirmed, ConfirmFails, ScannerSleeps, ScannerStates
    <3> QED BY <1>1, <1>4, <2>2, <3>1, ReleaseStep, AllThreads
  <2> QED BY <2>1, <2>2, AllThreads
<1>5. CASE Head(buffer).kind = "ack"
  <2>1. 1 \in 1 .. Len(Queue) /\ IsAck(Queue[1]) /\ \A i \in 1 .. Len(Queue') : i + 1 \in 1 .. Len(Queue) /\ 1 < i + 1
    BY <1>1, <1>5 DEF IsAck
  <2>2. ~Queue[1].old BY <2>1 DEF PortInv, Order, FreshAcks
  <2>3. ~HasOld(Queue') BY <1>1, <1>2, <2>1, <2>2 DEF PortInv, Order, OldFirst, HasOld
  <2>4. \A i \in 1 .. Len(Queue') : i + 1 # 1 OBVIOUS
  <2>5. ~HasAck(Queue') BY <1>1, <1>2, <2>1, <2>4 DEF PortInv, Order, OneAck, HasAck
  <2>6. wire = <<>> BY <1>2, <2>1 DEF PortInv, Order, HasAck
  <2> QED BY <1>4, <1>5, <2>3, <2>5, <2>6 DEF Confirm
<1>6. CASE Head(buffer).kind # "ack" /\ over
  <2>1. Quiet(Queue) BY <1>2, <1>6 DEF PortInv, Order
  <2>2. Len(Queue) \in Nat /\ Len(Queue') \in Nat BY QueueType
  <2>3. ~HasAck(Queue') /\ ~HasOld(Queue') BY <1>1, <2>1, <2>2, ThinsKeeps DEF Quiet
  <2> QED BY <1>4, <1>6, <2>1, <2>3 DEF Confirm, Quiet
<1> QED BY <1>3, <1>5, <1>6 DEF Confirm

LEMMA CollectOrder ==
  ASSUME Typed, Typed', PortInv, NEW t \in Threads, Collect(t) \/ CollectEnds(t) PROVE PortInv'
<1>1. pc[t] = "collect" /\ wire' = wire BY DEF Collect, CollectEnds, module
<1>2. Thins(Queue', Queue) BY Taken, Unchanged DEF Collect, CollectEnds, input, Queue
<1>3. CASE Keep
  <2>1. UNCHANGED <<pc, lock, over>> BY <1>3 DEF Keep, threads
  <2>2. Order' BY <1>1, <1>2, <2>1, OrderKept DEF PortInv, Running, Confirming
  <2> QED BY <2>1, <2>2 DEF PortInv, Together, Holds, Running
<1>4. CASE Release(t) /\ ((\E a : Response(t, a)) \/ NoResponse(t) \/ DecodeFails(t))
  <2>1. CASE t = "server"
    <3>1. \E x : Reply(x) BY <1>4, <2>1 DEF Response, NoResponse, DecodeFails, Recover
    <3>2. pc'["server"] \in {"recv", "accept"} /\ pc'["scanner"] = pc["scanner"] BY <3>1, ServerReplies
    <3> QED BY <1>1, <1>2, <1>4, <2>1, <3>2, ReleaseStep, AllThreads
  <2>2. CASE t = "scanner"
    <3>1. pc'["scanner"] = "sleep" /\ pc'["server"] = pc["server"]
      BY <1>4, <2>2, ScannerAt DEF Response, NoResponse, DecodeFails, ScannerSleeps, ScannerStates
    <3> QED BY <1>1, <1>2, <1>4, <2>2, <3>1, ReleaseStep, AllThreads
  <2> QED BY <2>1, <2>2, AllThreads
<1> QED BY <1>3, <1>4 DEF Collect, CollectEnds

LEMMA RequestOrder ==
  ASSUME Typed, Typed', PortInv, NEW t \in Threads, RequestData(t) PROVE PortInv'
<1>1. /\ pc[t] = "request" /\ lock = "free" /\ lock' = t /\ wire' = wire
      /\ pc'[t] = "collect" /\ \A u \in Threads \ {t} : pc'[u] = pc[u]
      /\ UNCHANGED <<line, buffer>>
  BY ThreadAt DEF RequestData, Busy, module, input
<1>2. Running /\ Running' BY <1>1, AllThreads DEF PortInv, Together, Running
<1>3. \A u \in Threads : pc[u] \notin {"confirm", "collect"} BY <1>1, <1>2, AllThreads DEF PortInv, Holds
<1>4. ~Confirming BY <1>3 DEF Confirming
<1>5. Thins(Queue', Queue) BY <1>1, Unchanged DEF Queue
<1>6. Order' BY <1>1, <1>2, <1>4, <1>5, OrderKept DEF PortInv
<1>7. Holds' BY <1>1, <1>3, AllThreads DEF Holds
<1> QED BY <1>1, <1>2, <1>6, <1>7, AllThreads DEF PortInv, Together, Running

LEMMA TimeLimitOrder == ASSUME Typed, Typed', PortInv, TimeLimit PROVE PortInv'
<1>1. /\ lock # "free" /\ over' = TRUE /\ (pc[lock] = "confirm" => ~AnswersToTake)
      /\ UNCHANGED <<pc, lock, wire, line, buffer>>
  BY DEF TimeLimit, module, input
<1>2. Thins(Queue', Queue) /\ Queue' = Queue BY <1>1, Unchanged DEF Queue
<1>3. Running /\ Confirming => ~AnswersToTake BY <1>1 DEF PortInv, Holds, Confirming
<1>4. ~AnswersToTake => Quiet(Queue)
  <2> SUFFICES ASSUME ~AnswersToTake PROVE Quiet(Queue) OBVIOUS
  <2>1. \A i \in 1 .. Len(Queue) : Queue[i].kind = "ready" /\ ~Queue[i].old BY Arrived DEF AnswersToTake
  <2> QED BY <2>1 DEF Quiet, HasAck, HasOld, IsAck, AnswersToTake
<1>5. Order' BY <1>1, <1>2, <1>3, <1>4, OrderKept DEF PortInv, Running, Confirming, Quiet
<1> QED BY <1>1, <1>5 DEF PortInv, Together, Holds, Running

(* The module sends items, none of them old, the first of them maybe an ACK.*)
LEMMA Sent ==
  ASSUME Typed, NEW items \in Seq(Item), Puts(items), \A i \in 1 .. Len(items) : ~items[i].old
  PROVE  /\ OldFirst(Queue) => OldFirst(Queue')
         /\ FreshAcks(Queue) => FreshAcks(Queue')
         /\ HasOld(Queue') => HasOld(Queue)
         /\ (\A i \in 1 .. Len(items) : ~IsAck(items[i])) =>
              (OneAck(Queue) => OneAck(Queue')) /\ (HasAck(Queue') => HasAck(Queue))
         /\ ~HasAck(Queue) /\ (\A i \in 1 .. Len(items) : IsAck(items[i]) => i = 1) => OneAck(Queue')
<1> DEFINE q == Queue
           r == Queue'
<1>1. /\ Len(r) = Len(q) + Len(items) /\ Len(q) \in Nat /\ Len(items) \in Nat
      /\ \A i \in 1 .. Len(q) + Len(items) : r[i] = IF i <= Len(q) THEN q[i] ELSE items[i - Len(q)]
  BY PutsIndex DEF Queue, Puts, Typed
<1> HIDE DEF q, r
<1>2. /\ OldFirst(q) => OldFirst(r)
      /\ FreshAcks(q) => FreshAcks(r)
      /\ HasOld(r) => HasOld(q)
      /\ (\A i \in 1 .. Len(items) : ~IsAck(items[i])) => (OneAck(q) => OneAck(r)) /\ (HasAck(r) => HasAck(q))
      /\ ~HasAck(q) /\ (\A i \in 1 .. Len(items) : IsAck(items[i]) => i = 1) => OneAck(r)
  BY <1>1, FreshKeeps
<1> QED BY <1>2 DEF q, r

(* Items that are no ACKs can be sent at any time.                          *)
LEMMA SentOrder ==
  ASSUME Typed, PortInv, NEW items \in Seq(Item), Puts(items), UNCHANGED <<pc, lock, over, wire>>,
         \A i \in 1 .. Len(items) : ~items[i].old /\ ~IsAck(items[i])
  PROVE  PortInv'
<1>1. /\ OldFirst(Queue) => OldFirst(Queue')
      /\ FreshAcks(Queue) => FreshAcks(Queue')
      /\ HasOld(Queue') => HasOld(Queue)
      /\ (OneAck(Queue) => OneAck(Queue')) /\ (HasAck(Queue') => HasAck(Queue))
  BY Sent
<1>2. Order' BY <1>1 DEF PortInv, Order, Quiet, Confirming, Running
<1> QED BY <1>2 DEF PortInv, Together, Holds, Running

LEMMA CheckSerialOrder == ASSUME Typed, PortInv, CheckSerial PROVE PortInv'
<1>1. /\ wire # <<>> /\ wire' = Tail(wire) /\ UNCHANGED <<pc, lock, over>>
  BY DEF CheckSerial, NoFault, threads
<1>2. Running => Len(wire') = 0 /\ wire' = <<>>
  <2>1. Running => Len(wire) <= 1 BY DEF PortInv, Order
  <2>2. Len(wire) \in Nat \ {0} BY <1>1 DEF Typed
  <2>3. Len(Tail(wire)) = Len(wire) - 1 /\ Tail(wire) \in Seq(Command) BY <1>1 DEF Typed
  <2>4. \A x \in Seq(Command) : Len(x) = 0 => x = <<>> OBVIOUS
  <2> QED BY <1>1, <2>1, <2>2, <2>3, <2>4
<1>3. PICK items \in Seq(Item) :
        Puts(items) /\ \A i \in 1 .. Len(items) : ~items[i].old /\ (IsAck(items[i]) => i = 1)
  <2>1. Head(wire) \in Command BY <1>1, Remainder DEF Typed
  <2>2. Head(wire).to \in Addresses BY <2>1 DEF Command
  <2>3. \A a \in Addresses : <<Ack, Data(a)>> \in Seq(Item) /\ <<Ack>> \in Seq(Item) BY ItemsAreItems
  <2>4. CASE Puts(<<Ack, Data(Head(wire).to)>>)
    <3> DEFINE two == <<Ack, Data(Head(wire).to)>>
    <3>1. Len(two) = 2 /\ two[1] = Ack /\ two[2] = Data(Head(wire).to) OBVIOUS
    <3>2. \A i \in 1 .. Len(two) : ~two[i].old /\ (IsAck(two[i]) => i = 1) BY <3>1 DEF Ack, Data, IsAck
    <3> QED BY <2>2, <2>3, <2>4, <3>2
  <2>5. CASE Puts(<<Ack>>)
    <3>1. Len(<<Ack>>) = 1 /\ <<Ack>>[1] = Ack OBVIOUS
    <3>2. \A i \in 1 .. Len(<<Ack>>) : ~(<<Ack>>[i]).old /\ (IsAck(<<Ack>>[i]) => i = 1) BY <3>1 DEF Ack
    <3> QED BY <2>2, <2>3, <2>5, <3>2
  <2> QED BY <2>4, <2>5 DEF CheckSerial
<1>4. /\ OldFirst(Queue) => OldFirst(Queue')
      /\ FreshAcks(Queue) => FreshAcks(Queue')
      /\ ~HasAck(Queue) => OneAck(Queue')
  BY <1>3, Sent
<1>5. Running => ~HasAck(Queue) /\ Confirming /\ ~over BY <1>1 DEF PortInv, Order, Quiet
<1>6. Order' BY <1>1, <1>2, <1>4, <1>5 DEF PortInv, Order, Quiet, Confirming, Running
<1> QED BY <1>1, <1>6 DEF PortInv, Together, Holds, Running

LEMMA ThinOrder ==
  ASSUME Typed, Typed', PortInv, Thins(Queue', Queue), UNCHANGED <<pc, lock, over>>,
         wire' = wire \/ wire' = <<>>
  PROVE  PortInv'
<1>1. Running' = Running /\ Confirming' = Confirming BY DEF Running, Confirming
<1>2. Order' BY <1>1, OrderKept DEF PortInv
<1> QED BY <1>1, <1>2 DEF PortInv, Together, Holds

(* Bytes of the only command are lost; when the server has stopped, it need *)
(* not be the only one.                                                     *)
LEMMA LoseBytesOrder == ASSUME Typed, Typed', PortInv, LoseBytes PROVE PortInv'
<1>1. wire # <<>> /\ wire' = Tail(wire) /\ UNCHANGED <<pc, lock, over, line, buffer>>
  BY DEF LoseBytes, Fault, threads, input
<1>2. CASE Running
  <2>1. Len(wire) <= 1 BY <1>2 DEF PortInv, Order
  <2>2. Len(wire) \in Nat \ {0} BY <1>1 DEF Typed
  <2>3. Len(Tail(wire)) = Len(wire) - 1 /\ Tail(wire) \in Seq(Command) BY <1>1 DEF Typed
  <2>4. \A x \in Seq(Command) : Len(x) = 0 => x = <<>> OBVIOUS
  <2>5. wire' = <<>> BY <1>1, <2>1, <2>2, <2>3, <2>4
  <2> QED BY <1>1, <2>5, ThinOrder, Unchanged DEF Queue
<1>3. CASE ~Running
  <2>1. FreshAcks(Queue') /\ ~Running' BY <1>1, <1>3 DEF PortInv, Order, Queue, Running
  <2> QED BY <1>1, <2>1 DEF PortInv, Order, Together, Holds, Running
<1> QED BY <1>2, <1>3

LEMMA OutsideOrder == ASSUME Typed, Typed', PortInv, Outside PROVE PortInv'
<1>1. UNCHANGED <<pc, lock, over>> BY OutsideKeeps DEF threads
<1>2. CASE CheckSerial BY <1>2, CheckSerialOrder
<1>3. CASE LoseBytes BY <1>3, LoseBytesOrder
<1>4. ASSUME NEW a \in bus, Relay(a) PROVE PortInv'
  <2>1. wire' = wire /\ (Puts(<<Data(a)>>) \/ UNCHANGED input) BY <1>4 DEF Relay
  <2>2. CASE Puts(<<Data(a)>>)
    <3>1. <<Data(a)>> \in Seq(Item) BY ItemsAreItems DEF Typed
    <3>2. Len(<<Data(a)>>) = 1 /\ <<Data(a)>>[1] = Data(a) OBVIOUS
    <3>3. \A i \in 1 .. Len(<<Data(a)>>) : ~(<<Data(a)>>[i]).old /\ ~IsAck(<<Data(a)>>[i])
      BY <3>2 DEF Data, IsAck
    <3> QED BY <1>1, <2>1, <2>2, <3>1, <3>3, SentOrder
  <2>3. CASE UNCHANGED input BY <1>1, <2>1, <2>3, ThinOrder, Unchanged DEF input, Queue
  <2> QED BY <2>1, <2>2, <2>3
<1>5. CASE SerialReady
  <2> DEFINE ready == [kind |-> "ready", old |-> FALSE]
  <2>1. Puts(<<ready>>) /\ wire' = wire BY <1>5 DEF SerialReady, module
  <2>2. <<ready>> \in Seq(Item) BY ItemsAreItems
  <2>3. ~ready.old /\ ~IsAck(ready) BY DEF IsAck
  <2> HIDE DEF ready
  <2>4. Len(<<ready>>) = 1 /\ <<ready>>[1] = ready OBVIOUS
  <2>5. \A i \in 1 .. Len(<<ready>>) : ~(<<ready>>[i]).old /\ ~IsAck(<<ready>>[i]) BY <2>3, <2>4
  <2> QED BY <1>1, <2>1, <2>2, <2>5, SentOrder
<1>6. CASE LoseItem BY <1>1, <1>6, LossThins, ThinOrder DEF LoseItem, module, Queue, Typed
<1>7. CASE Garble
  <2>1. /\ line # <<>> /\ Head(line).kind = "data" /\ buffer' = buffer /\ wire' = wire
        /\ line' = [line EXCEPT ![1] = [line[1] EXCEPT !.from = "garbled"]]
    BY <1>7 DEF Garble, module
  <2>2. Thins(Queue', Queue) BY <2>1, GarbleThins DEF Queue, Typed
  <2> QED BY <1>1, <2>1, <2>2, ThinOrder
<1>8. CASE Put
  <2>1. Thins(Queue', Queue) BY <1>8, PutThins, Unchanged DEF Put, Queue, Typed
  <2> QED BY <1>1, <1>8, <2>1, ThinOrder DEF Put, module
<1>9. CASE DropOldest
  <2>1. Thins(Queue', Queue) BY <1>9, TakeThins, Unchanged DEF DropOldest, Queue, Typed
  <2> QED BY <1>1, <1>9, <2>1, ThinOrder DEF DropOldest, module
<1> QED BY <1>2, <1>3, <1>4, <1>5, <1>6, <1>7, <1>8, <1>9 DEF Outside

-----------------------------------------------------------------------------
LEMMA ReceiveOrder == ASSUME Typed, Typed', PortInv, Receive PROVE PortInv'
<1>1. pc["server"] = "recv" /\ UNCHANGED <<wire, line, buffer, lock, over>> BY DEF Receive, module, input
<1>2. CASE request.kind = "exit" /\ pc' = [t \in Threads |-> "stopped"]
  <2>1. ~Running' /\ pc'["scanner"] = "stopped" BY <1>2, AllThreads DEF Running
  <2>2. FreshAcks(Queue') BY <1>1 DEF PortInv, Order, Queue
  <2> QED BY <2>1, <2>2 DEF PortInv, Together, Holds, Order, Running
<1>3. CASE pc' = pc BY <1>1, <1>3, TurnStep
<1>4. CASE pc' = [pc EXCEPT !["server"] = "send"] \/ pc' = [pc EXCEPT !["server"] = "request"]
  <2>1. pc'["server"] \in {"send", "request"} /\ pc'["scanner"] = pc["scanner"]
    BY <1>4, ServerAt DEF ServerStates
  <2> QED BY <1>1, <2>1, TurnStep, AllThreads
<1> QED BY <1>2, <1>3, <1>4 DEF Receive

LEMMA ClientOrder == ASSUME Typed, Typed', PortInv, Client PROVE PortInv'
<1>1. UNCHANGED <<wire, line, buffer, lock, over>>
  BY DEF Client, ClientSends, GetAck, GetResponseData, ClientLeaves, ClientConnects, threads, module, input
<1>2. pc' = pc \/ ClientConnects
  BY DEF Client, ClientSends, GetAck, GetResponseData, ClientLeaves, threads
<1>3. CASE pc' = pc BY <1>1, <1>3, TurnStep
<1>4. CASE ClientConnects
  <2>1. pc["server"] = "accept" /\ pc'["server"] = "recv" /\ pc'["scanner"] = pc["scanner"]
    BY <1>4, ServerAt DEF ClientConnects, ServerStates
  <2> QED BY <1>1, <2>1, TurnStep, AllThreads
<1> QED BY <1>2, <1>3, <1>4

LEMMA PortStep == ASSUME Typed, Typed', PortInv, [Next]_vars PROVE PortInv'
<1>1. CASE Client BY <1>1, ClientOrder
<1>2. CASE Receive BY <1>2, ReceiveOrder
<1>3. CASE LostConnection
  <2>1. pc["server"] = "recv" /\ pc'["server"] = "accept" /\ pc'["scanner"] = pc["scanner"]
    BY <1>3, ServerAt DEF LostConnection, ServerStates
  <2> QED BY <1>3, <2>1, TurnStep, AllThreads DEF LostConnection, module, input
<1>4. CASE ScannerWakes
  <2>1. pc["scanner"] = "sleep" /\ pc'["scanner"] = "send" /\ pc'["server"] = pc["server"]
    BY <1>4, ScannerAt DEF ScannerWakes, ScannerStates
  <2> QED BY <1>4, <2>1, TurnStep, AllThreads DEF ScannerWakes, module, input
<1>5. CASE \E t \in Threads : Thread(t)
  BY <1>5, WriteOrder, ConfirmOrder, RequestOrder, CollectOrder DEF Thread
<1>6. CASE TimeLimit BY <1>6, TimeLimitOrder
<1>7. CASE Outside BY <1>7, OutsideOrder
<1>8. CASE UNCHANGED vars BY <1>8, TurnStep DEF vars, threads, module, input
<1> QED BY <1>1, <1>2, <1>3, <1>4, <1>5, <1>6, <1>7, <1>8 DEF Next, Outside

LEMMA InitPort == Init => PortInv
<1> SUFFICES ASSUME Init PROVE PortInv OBVIOUS
<1>1. /\ pc["server"] = "accept" /\ pc["scanner"] = "sleep" /\ lock = "free"
      /\ wire = <<>> /\ line = <<>> /\ buffer = <<>>
  BY AllThreads DEF Init
<1>2. Queue = <<>> /\ Len(Queue) = 0 /\ Len(wire) = 0 BY <1>1 DEF Queue
<1>3. 1 .. Len(Queue) = {} BY <1>2
<1>4. Order BY <1>1, <1>2, <1>3 DEF Order, Quiet, OldFirst, OneAck, FreshAcks, HasAck, HasOld
<1> QED BY <1>1, <1>4, AllThreads DEF PortInv, Together, Holds

LEMMA PortInvariant == Spec => []PortInv
<1>1. ExchangeInv => Typed BY DEF ExchangeInv
<1>2. Typed /\ Typed' /\ PortInv /\ [Next]_vars => PortInv' BY PortStep
<1> QED BY <1>1, <1>2, InitPort, ExchangeInvariant, PTL DEF Spec

(* No thread takes the ACK of an earlier command for that of its own        *)
(* (send_and_confirm, under serial_cv).                                     *)
THEOREM AckCorrect == Spec => []AckIsOwn
<1>1. ExchangeInv /\ PortInv => AckIsOwn
  <2> SUFFICES ASSUME ExchangeInv, PortInv, NEW x \in Arriving, x.kind = "ack" PROVE ~x.old
    BY DEF AckIsOwn
  <2>1. PICK i \in 1 .. Len(Queue) : Queue[i] = x BY Arrivals DEF ExchangeInv
  <2> QED BY <2>1 DEF PortInv, Order, FreshAcks, IsAck
<1> QED BY <1>1, PortInvariant, ExchangeInvariant, PTL

(* Who collects a response finds none that came before the last command     *)
(* (get_data_msg, after send_and_confirm has drained the buffer).           *)
THEOREM FreshCorrect == Spec => []ResponseIsFresh
<1>1. ExchangeInv /\ PortInv => ResponseIsFresh
  <2> SUFFICES ASSUME ExchangeInv, PortInv, NEW t \in Threads, pc[t] = "collect", NEW x \in Arriving
               PROVE  ~x.old
    BY DEF ResponseIsFresh
  <2>1. PICK i \in 1 .. Len(Queue) : Queue[i] = x BY Arrivals DEF ExchangeInv
  <2>2. Running BY AllThreads DEF PortInv, Together, Running
  <2>3. ~Confirming BY <2>2 DEF PortInv, Holds, Confirming
  <2> QED BY <2>1, <2>2, <2>3 DEF PortInv, Order, Quiet, HasOld
<1> QED BY <1>1, PortInvariant, ExchangeInvariant, PTL

-----------------------------------------------------------------------------
(* The rest of the types: no more is kept for the client or in the buffer   *)
(* than there is room for, and devices are recorded at addresses.           *)
Payload == {"ack", "none", "garbled"} \cup Addresses
Devices == UNION {[known -> Device] : known \in SUBSET Addresses}
Rest ==
  /\ replies \in Seq(Payload) /\ devices \in Devices /\ partial \in BOOLEAN
  /\ Len(buffer) <= Capacity /\ reader \in {"idle", "full", "dead"} /\ faults \in 0 .. MaxFaults

LEMMA Answers ==
  ASSUME Rest, NEW x \in Payload, Reply(x) PROVE replies' \in Seq(Payload)
BY Extended DEF Rest, Reply

LEMMA RepliesType ==
  ASSUME ExchangeInv, Rest, [Next]_vars PROVE replies' \in Seq(Payload)
<1>0. replies \in Seq(Payload) /\ <<>> \in Seq(Payload) /\ "ack" \in Payload /\ "none" \in Payload
  BY DEF Rest, Payload
<1>1. CASE UNCHANGED replies BY <1>0, <1>1
<1>2. CASE Client
  <2>1. UNCHANGED replies \/ replies' = <<>> \/ (replies # <<>> /\ replies' = Tail(replies))
    BY <1>2 DEF Client, ClientSends, GetAck, GetResponseData, ClientLeaves, ClientConnects
  <2> QED BY <1>0, <2>1, Remainder
<1>3. CASE Receive
  <2>1. UNCHANGED replies \/ replies' = Append(replies, "ack") BY <1>3 DEF Receive
  <2> QED BY <1>0, <2>1, Extended
<1>4. CASE \E x \in Payload : Reply(x) BY <1>4, Answers
<1>5. ASSUME NEW t \in Threads, Thread(t) PROVE UNCHANGED replies \/ \E x \in Payload : Reply(x)
  <2>1. CASE Write(t) \/ RequestData(t) BY <2>1 DEF Write, RequestData, connection
  <2>2. CASE Confirm(t)
    <3>1. UNCHANGED connection \/ Reply("ack") \/ Reply("none")
      BY <2>2 DEF Confirm, Confirmed, ConfirmFails, Keep, Recover
    <3> QED BY <1>0, <3>1 DEF connection
  <2>3. CASE Collect(t)
    <3>1. Head(buffer) \in Item BY <2>3, ItemTaken DEF Collect, ExchangeInv
    <3>2. Head(buffer).kind = "data" => Head(buffer).from \in Payload BY <3>1 DEF Item, Payload
    <3>3. UNCHANGED connection \/ Reply("ack") \/ Reply("none")
          \/ (Head(buffer).kind = "data" /\ Reply(Head(buffer).from))
      BY <2>3 DEF Collect, Keep, DecodeFails, Response, NoResponse, Recover
    <3> QED BY <1>0, <3>2, <3>3 DEF connection
  <2>4. CASE CollectEnds(t)
    <3>1. UNCHANGED connection \/ Reply("none") BY <2>4 DEF CollectEnds, NoResponse
    <3> QED BY <1>0, <3>1 DEF connection
  <2> QED BY <1>5, <2>1, <2>2, <2>3, <2>4 DEF Thread
<1>6. CASE LostConnection \/ ScannerWakes \/ TimeLimit \/ UNCHANGED vars
  BY <1>1, <1>6 DEF LostConnection, ScannerWakes, TimeLimit, connection, vars
<1>7. CASE Outside BY <1>1, <1>7, OutsideKeeps DEF connection
<1> QED BY <1>1, <1>2, <1>3, <1>4, <1>5, <1>6, <1>7 DEF Next, Outside

LEMMA DevicesType ==
  ASSUME ExchangeInv, Rest, [Next]_vars PROVE devices' \in Devices
<1>0. devices \in Devices BY DEF Rest
<1>1. CASE UNCHANGED devices BY <1>0, <1>1
<1>2. Polled \in Addresses BY RangeType DEF ExchangeInv, Typed, Polled
<1>3. PICK known \in SUBSET Addresses : devices \in [known -> Device] BY <1>0 DEF Devices
<1>4. \A d \in known : devices[d] \in Device /\ devices[d].address \in Addresses BY <1>3 DEF Device
<1>5. ASSUME NEW a \in Addresses, Found(a) PROVE devices' \in Devices
  <2>1. AddressOf(a) \in Addresses BY <1>3, <1>4, <1>5 DEF AddressOf, Known
  <2>2. [address |-> AddressOf(a), active |-> TRUE] \in Device BY <2>1 DEF Device
  <2>3. devices' \in [known \cup {Polled} -> Device] BY <1>3, <1>5, <2>2 DEF Found
  <2> QED BY <1>2, <2>3 DEF Devices
<1>6. CASE Silent
  <2>1. CASE Known
    <3>1. devices' = [devices EXCEPT ![Polled].active = FALSE] BY <1>6, <2>1 DEF Silent
    <3>2. devices' \in [known -> Device] BY <1>3, <3>1 DEF Device
    <3> QED BY <3>2 DEF Devices
  <2>2. CASE ~Known BY <1>1, <1>6, <2>2 DEF Silent
  <2> QED BY <2>1, <2>2
<1>7. ASSUME NEW t \in Threads, Thread(t) PROVE UNCHANGED devices \/ Silent \/ \E a \in Addresses : Found(a)
  <2>1. CASE Write(t) \/ RequestData(t) BY <2>1 DEF Write, RequestData, scan
  <2>2. CASE Confirm(t) BY <2>2 DEF Confirm, Confirmed, ConfirmFails, Keep, scan
  <2>3. CASE Collect(t)
    <3>1. Head(buffer) \in Item BY <2>3, ItemTaken DEF Collect, ExchangeInv
    <3>2. UNCHANGED devices \/ Silent
          \/ (Head(buffer).kind = "data" /\ Head(buffer).from # "garbled" /\ Found(Head(buffer).from))
      BY <2>3 DEF Collect, Keep, DecodeFails, Response, NoResponse, scan
    <3> QED BY <3>1, <3>2, FromAddress
  <2>4. CASE CollectEnds(t) BY <2>4 DEF CollectEnds, NoResponse, scan
  <2> QED BY <1>7, <2>1, <2>2, <2>3, <2>4 DEF Thread
<1>8. CASE Client \/ Receive \/ LostConnection \/ ScannerWakes \/ TimeLimit \/ UNCHANGED vars
  BY <1>1, <1>8 DEF Client, ClientSends, GetAck, GetResponseData, ClientLeaves, ClientConnects, Receive,
     LostConnection, ScannerWakes, TimeLimit, scan, vars
<1>9. CASE Outside BY <1>1, <1>9, OutsideKeeps DEF scan
<1> QED BY <1>1, <1>5, <1>6, <1>7, <1>8, <1>9 DEF Next, Outside

LEMMA BufferBound ==
  ASSUME ExchangeInv, Rest, [Next]_vars PROVE Len(buffer') <= Capacity
<1>0. /\ buffer \in Seq(Item) /\ line \in Seq(Item) /\ Len(buffer) \in Nat /\ Len(buffer) <= Capacity
      /\ Capacity \in Nat
  BY ServerAssumption DEF ExchangeInv, Typed, Rest
<1>1. CASE UNCHANGED buffer BY <1>0, <1>1
<1>2. CASE buffer # <<>> /\ buffer' = Tail(buffer)
  <2>1. Len(buffer') = Len(buffer) - 1 BY <1>0, <1>2
  <2> QED BY <1>0, <2>1
<1>3. CASE buffer' = Age(buffer) BY <1>0, <1>3, AgeType
<1>4. CASE Put
  <2>1. CASE Len(buffer) < Capacity
    <3>1. line # <<>> /\ buffer' = Append(buffer, Head(line)) BY <1>4, <2>1 DEF Put
    <3>2. Len(buffer') = Len(buffer) + 1 BY <1>0, <3>1
    <3> QED BY <1>0, <2>1, <3>2
  <2>2. CASE ~(Len(buffer) < Capacity) BY <1>1, <1>4, <2>2 DEF Put
  <2> QED BY <2>1, <2>2
<1>5. CASE DropOldest BY <1>1, <1>2, <1>5 DEF DropOldest
<1>6. CASE CheckSerial \/ LoseBytes \/ (\E a \in bus : Relay(a)) \/ SerialReady \/ LoseItem \/ Garble
  BY <1>1, <1>6 DEF CheckSerial, LoseBytes, Relay, SerialReady, LoseItem, Garble, Puts, input
<1>7. ASSUME NEW t \in Threads, Thread(t)
      PROVE  UNCHANGED buffer \/ buffer' = Age(buffer) \/ (buffer # <<>> /\ buffer' = Tail(buffer))
  BY <1>7 DEF Thread, Write, Confirm, RequestData, Collect, CollectEnds, TakeItem, input
<1>8. CASE Client \/ Receive \/ LostConnection \/ ScannerWakes \/ TimeLimit \/ UNCHANGED vars
  BY <1>1, <1>8 DEF Client, ClientSends, GetAck, GetResponseData, ClientLeaves, ClientConnects, Receive,
     LostConnection, ScannerWakes, TimeLimit, input, vars
<1> QED BY <1>1, <1>2, <1>3, <1>4, <1>5, <1>6, <1>7, <1>8 DEF Next

LEMMA OthersType ==
  ASSUME Rest, [Next]_vars
  PROVE  partial' \in BOOLEAN /\ reader' \in {"idle", "full", "dead"} /\ faults' \in 0 .. MaxFaults
<1> USE DEF Rest
<1>0. MaxFaults \in Nat BY ServerAssumption
<1>1. CASE Outside
  <2>1. CASE CheckSerial BY <2>1 DEF CheckSerial, Puts, NoFault
  <2>2. CASE \E a \in bus : Relay(a) BY <2>2 DEF Relay, Puts, NoFault, input
  <2>3. CASE SerialReady BY <2>3 DEF SerialReady, Puts, NoFault, module
  <2>4. CASE LoseBytes \/ LoseItem \/ Garble
    <3>1. faults < MaxFaults /\ faults' = faults + 1 BY <2>4 DEF LoseBytes, LoseItem, Garble, Fault
    <3>2. faults' \in 0 .. MaxFaults BY <1>0, <3>1
    <3>3. partial' \in {TRUE, partial} /\ reader' = reader
      BY <2>4 DEF LoseBytes, LoseItem, Garble, input, module
    <3>4. partial' = TRUE \/ partial' = partial BY <3>3
    <3>5. partial' \in BOOLEAN BY <3>4, Zenon
    <3> QED BY <3>2, <3>3, <3>5
  <2>5. CASE Put \/ DropOldest BY <2>5 DEF Put, DropOldest, NoFault, module
  <2> QED BY <1>1, <2>1, <2>2, <2>3, <2>4, <2>5 DEF Outside
<1>2. CASE \E t \in Threads : Thread(t)
  BY <1>2 DEF Thread, Write, Confirm, RequestData, Collect, CollectEnds, TakeItem, module, input
<1>3. CASE Client \/ Receive \/ LostConnection \/ ScannerWakes \/ TimeLimit \/ UNCHANGED vars
  BY <1>3 DEF Client, ClientSends, GetAck, GetResponseData, ClientLeaves, ClientConnects, Receive,
     LostConnection, ScannerWakes, TimeLimit, module, input, vars
<1> QED BY <1>1, <1>2, <1>3 DEF Next, Outside

(* The state has its types, for any addresses and faults; the buffer is     *)
(* never longer than its limit (InputBuffer).                               *)
THEOREM TypeCorrect == Spec => []TypeOK
<1>1. Init => Rest
  <2>1. ASSUME Init PROVE devices \in Devices
    <3>1. <<>> \in [{} -> Device] OBVIOUS
    <3> QED BY <2>1, <3>1 DEF Init, Devices
  <2>2. ASSUME Init PROVE Len(buffer) <= Capacity /\ faults \in 0 .. MaxFaults /\ replies \in Seq(Payload)
    BY <2>2, ServerAssumption DEF Init
  <2> QED BY <2>1, <2>2 DEF Init, Rest
<1>2. ExchangeInv /\ Rest /\ [Next]_vars => Rest'
  BY RepliesType, DevicesType, BufferBound, OthersType DEF Rest
<1>3. ExchangeInv /\ Rest => TypeOK
  BY DEF ExchangeInv, Typed, Rest, TypeOK, Payload, Devices, ServerStates, ScannerStates
<1> QED BY <1>1, <1>2, <1>3, ExchangeInvariant, PTL DEF Spec
=============================================================================
