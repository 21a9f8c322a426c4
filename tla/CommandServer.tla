---------------------------- MODULE CommandServer ----------------------------
(***************************************************************************)
(* The command server (server.py) between a client (client.py) and the     *)
(* module attached to its serial port. Two threads share the port: the one *)
(* that serves the client and the scanner, which polls a range of addresses*)
(* for devices. A lock (serial_cv) is held while a command is written and  *)
(* confirmed, and again, separately, while a response is awaited. A third  *)
(* thread, the reader, moves what the module sends into a bounded buffer.  *)
(*                                                                         *)
(* A message is what it is about: a command asks an address for a poll or  *)
(* for an output; the module sends lines (ACK, ready) and poll responses.  *)
(* 10 s, the timeout of a confirmation, are longer than module and reader  *)
(* need to answer.                                                         *)
(***************************************************************************)
EXTENDS Naturals, Sequences, SequencesExt

CONSTANTS
  Addresses, Attached,   \* modules, and the one on the serial port
  ScanRange,             \* address_range of the scanner
  Capacity,              \* limit of the buffer (1000)
  MaxFaults              \* bound on the faults of the serial line

ASSUME ServerAssumption ==
  /\ Attached \in Addresses /\ Addresses \cap {"ack", "none", "garbled"} = {}
  /\ ScanRange \in Seq(Addresses) \ {<<>>}
  /\ Capacity \in Nat \ {0} /\ MaxFaults \in Nat

Threads == {"server", "scanner"}
Command == [kind: {"poll", "output"}, to: Addresses]
Other(kind) == [kind |-> kind]
None    == Other("none")
Request == Command \cup [kind: {"none", "data", "exit", "malformed"}]
(* old is history: the item came before the last command was written.       *)
Item    == [kind: {"ack", "ready"}, old: BOOLEAN]
             \cup [kind: {"data"}, from: Addresses \cup {"garbled"}, old: BOOLEAN]
Device  == [address: Addresses, active: BOOLEAN]

VARIABLES
  client,                 \* what the client waits for
  request, replies,       \* the connection
  pc, lock, over,         \* the threads, serial_cv, whether the time limit is past
  current,                \* the request the server handles
  at, devices,            \* the scanner's position and the devices it found
  wire, partial, bus,     \* commands to the module, its partial frame, polls it forwarded
  line, buffer, reader,   \* what the module sent, the buffer and its thread
  faults

connection == <<client, request, replies>>
threads    == <<pc, lock, over, current>>
scan       == <<at, devices>>
module     == <<wire, partial, bus>>
input      == <<line, buffer, reader>>
vars       == <<connection, threads, scan, module, input, faults>>

TypeOK ==
  /\ client \in {"idle", "awaitAck", "awaitData", "awaitExit", "gone", "done"}
  /\ request \in Request /\ current \in Request
  /\ replies \in Seq({"ack", "none", "garbled"} \cup Addresses)
  /\ pc["server"] \in {"accept", "recv", "send", "confirm", "request", "collect", "stopped"}
  /\ pc["scanner"] \in {"sleep", "send", "confirm", "request", "collect", "stopped"}
  /\ lock \in Threads \cup {"free"} /\ over \in BOOLEAN
  /\ at \in DOMAIN ScanRange /\ devices \in UNION {[known -> Device] : known \in SUBSET Addresses}
  /\ wire \in Seq(Command) /\ partial \in BOOLEAN /\ bus \subseteq Addresses
  /\ line \in Seq(Item) /\ buffer \in Seq(Item) /\ Len(buffer) <= Capacity
  /\ reader \in {"idle", "full", "dead"} /\ faults \in 0 .. MaxFaults

Init ==
  /\ client = "gone" /\ request = None /\ replies = <<>>
  /\ pc = [t \in Threads |-> IF t = "server" THEN "accept" ELSE "sleep"]
  /\ lock = "free" /\ over = FALSE /\ current = None
  /\ at = 1 /\ devices = <<>>
  /\ wire = <<>> /\ partial = FALSE /\ bus = {}
  /\ line = <<>> /\ buffer = <<>> /\ reader = "idle" /\ faults = 0

-----------------------------------------------------------------------------
(* The client: send_and_ack, with a data request for each expected response.*)
ClientSends(r) ==
  /\ client = "idle" /\ request' = r
  /\ client' = IF r.kind = "exit" THEN "awaitExit" ELSE "awaitAck"
  /\ UNCHANGED <<replies, threads, scan, module, input, faults>>

(* It skips replies until it finds the ack.                                 *)
GetAck(expectResponse) ==
  /\ client \in {"awaitAck", "awaitExit"} /\ replies # <<>>
  /\ expectResponse => client = "awaitAck"
  /\ replies' = Tail(replies)
  /\ IF Head(replies) # "ack" THEN UNCHANGED <<client, request>>
     ELSE IF expectResponse THEN client' = "awaitData" /\ request' = Other("data")
     ELSE client' = (IF client = "awaitExit" THEN "done" ELSE "idle") /\ UNCHANGED request
  /\ UNCHANGED <<threads, scan, module, input, faults>>

(* A response may say that there is more.                                   *)
GetResponseData(more) ==
  /\ client = "awaitData" /\ replies # <<>>
  /\ more => Head(replies) \in Addresses
  /\ replies' = Tail(replies)
  /\ IF more THEN request' = Other("data") /\ UNCHANGED client
             ELSE client' = "idle" /\ UNCHANGED request
  /\ UNCHANGED <<threads, scan, module, input, faults>>

ClientLeaves ==
  /\ client \notin {"gone", "done"} /\ client' = "gone" /\ replies' = <<>>
  /\ UNCHANGED <<request, threads, scan, module, input, faults>>

ClientConnects ==
  /\ client = "gone" /\ pc["server"] = "accept"
  /\ client' = "idle" /\ request' = None /\ replies' = <<>>
  /\ pc' = [pc EXCEPT !["server"] = "recv"]
  /\ UNCHANGED <<lock, over, current, scan, module, input, faults>>

-----------------------------------------------------------------------------
(* The server's loop. A reply to a client that left is lost, or fails and   *)
(* the server accepts the next connection.                                  *)
Reply(payload) ==
  /\ IF client = "gone"
     THEN \E s \in {"recv", "accept"} : pc' = [pc EXCEPT !["server"] = s] /\ UNCHANGED replies
     ELSE pc' = [pc EXCEPT !["server"] = "recv"] /\ replies' = Append(replies, payload)
  /\ UNCHANGED <<client, request>> /\ current' = None

(* Wrong: whatever failed, the client gets an ack.                          *)
RecoverWithAck == Reply("ack")
(* What listen() answers when the handling of a request raised.             *)
Recover == Reply(IF current.kind = "data" THEN "none" ELSE "ack")

Receive ==
  /\ pc["server"] = "recv" /\ request # None
  /\ request' = None
  /\ current' = IF request.kind \in {"exit", "malformed"} THEN None ELSE request
  /\ UNCHANGED <<client, lock, over, at, devices, module, input, faults>>
  /\ \/ request \in Command /\ pc' = [pc EXCEPT !["server"] = "send"] /\ UNCHANGED replies
     \/ request.kind = "data" /\ pc' = [pc EXCEPT !["server"] = "request"] /\ UNCHANGED replies
     \/ /\ request.kind = "malformed" /\ pc' = pc
        /\ replies' = IF client = "gone" THEN replies ELSE Append(replies, "ack")
     \/ /\ request.kind = "exit" /\ pc' = [t \in Threads |-> "stopped"]
        /\ replies' = IF client = "gone" THEN replies ELSE Append(replies, "ack")

LostConnection ==
  /\ pc["server"] = "recv" /\ request = None /\ client = "gone"
  /\ pc' = [pc EXCEPT !["server"] = "accept"]
  /\ UNCHANGED <<connection, lock, over, current, scan, module, input, faults>>

-----------------------------------------------------------------------------
(* The scanner. It sleeps long enough for a waiting server to get the lock. *)
ScannerWakes ==
  /\ pc["scanner"] = "sleep" /\ pc["server"] \notin {"send", "request"}
  /\ pc' = [pc EXCEPT !["scanner"] = "send"]
  /\ UNCHANGED <<connection, lock, over, current, scan, module, input, faults>>

ScannerSleeps == /\ pc' = [pc EXCEPT !["scanner"] = "sleep"]
                 /\ at' = (at % Len(ScanRange)) + 1

Polled == ScanRange[at]
(* Whatever module the response is from; a known device is only activated.  *)
Known    == Polled \in DOMAIN devices
AddressOf(a) == IF Known THEN devices[Polled].address ELSE a
Found(a) == devices' = [d \in DOMAIN devices \cup {Polled} |->
                          IF d = Polled THEN [address |-> AddressOf(a), active |-> TRUE] ELSE devices[d]]
Silent   == devices' = IF Known THEN [devices EXCEPT ![Polled].active = FALSE] ELSE devices

-----------------------------------------------------------------------------
(* send_and_confirm and get_data_msg, by either thread.                     *)
CommandOf(t) == IF t = "server" THEN current ELSE [kind |-> "poll", to |-> Polled]
Age(items)   == [i \in DOMAIN items |-> [items[i] EXCEPT !.old = TRUE]]

(* Wrong: a command is written without the lock.                            *)
WriteUnlocked(t) ==
  /\ pc[t] = "send"
  /\ lock' = t /\ over' = FALSE /\ pc' = [pc EXCEPT ![t] = "confirm"]
  /\ wire' = Append(wire, CommandOf(t))
  /\ line' = Age(line) /\ buffer' = Age(buffer)
  /\ UNCHANGED <<connection, current, scan, partial, bus, reader, faults>>
Write(t) ==
  /\ pc[t] = "send" /\ lock = "free"
  /\ lock' = t /\ over' = FALSE /\ pc' = [pc EXCEPT ![t] = "confirm"]
  /\ wire' = Append(wire, CommandOf(t))
  /\ line' = Age(line) /\ buffer' = Age(buffer)
  /\ UNCHANGED <<connection, current, scan, partial, bus, reader, faults>>

TakeItem == buffer # <<>> /\ buffer' = Tail(buffer) /\ UNCHANGED <<line, reader>>
Release(t) == lock = t /\ lock' = "free" /\ over' = FALSE
Keep       == UNCHANGED <<connection, threads, scan>>

Confirmed(t) == /\ IF t = "server" THEN Reply("ack") /\ UNCHANGED scan
                   ELSE pc' = [pc EXCEPT ![t] = "request"] /\ UNCHANGED <<connection, current, scan>>
ConfirmFails(t) == IF t = "server" THEN Recover /\ UNCHANGED scan
                   ELSE ScannerSleeps /\ UNCHANGED <<connection, current, devices>>

(* Wrong: nothing is read, the command is taken as confirmed.               *)
ConfirmBlindly(t) ==
  /\ pc[t] = "confirm" /\ UNCHANGED <<module, input, faults>>
  /\ Release(t) /\ Confirmed(t)
(* Everything before the ack is dropped. The time limit is looked at only   *)
(* after an item came: get_message() waits without a limit.                 *)
Confirm(t) ==
  /\ pc[t] = "confirm" /\ TakeItem /\ UNCHANGED <<module, faults>>
  /\ IF Head(buffer).kind = "ack" THEN Release(t) /\ Confirmed(t)
     ELSE IF over THEN Release(t) /\ ConfirmFails(t)
     ELSE Keep

RequestData(t) ==
  /\ pc[t] = "request" /\ lock = "free"
  /\ lock' = t /\ over' = FALSE /\ pc' = [pc EXCEPT ![t] = "collect"]
  /\ UNCHANGED <<connection, current, scan, module, input, faults>>

Response(t, a) == IF t = "server" THEN Reply(a) /\ UNCHANGED scan
                  ELSE ScannerSleeps /\ Found(a) /\ UNCHANGED <<connection, current>>
NoResponse(t)  == IF t = "server" THEN Reply("none") /\ UNCHANGED scan
                  ELSE ScannerSleeps /\ Silent /\ UNCHANGED <<connection, current>>
DecodeFails(t) == IF t = "server" THEN Recover /\ UNCHANGED scan
                  ELSE ScannerSleeps /\ UNCHANGED <<connection, current, devices>>

Collect(t) ==
  /\ pc[t] = "collect" /\ TakeItem /\ UNCHANGED <<module, faults>>
  /\ IF Head(buffer).kind = "data"
     THEN /\ Release(t)
          /\ IF Head(buffer).from = "garbled" THEN DecodeFails(t) ELSE Response(t, Head(buffer).from)
     ELSE IF over THEN Release(t) /\ NoResponse(t)
     ELSE Keep

CollectEnds(t) ==
  /\ pc[t] = "collect" /\ buffer = <<>> /\ over
  /\ Release(t) /\ NoResponse(t)
  /\ UNCHANGED <<module, input, faults>>

(* A response may take longer than its time limit. In the 10 s of the other *)
(* limit the module answers what it received and the thread reads it.       *)
Arriving     == ToSet(line) \cup ToSet(buffer)
AnswersToTake == wire # <<>> \/ \E i \in Arriving : i.kind # "ready" \/ i.old
TimeLimit ==
  /\ lock # "free" /\ ~over /\ over' = TRUE
  /\ pc[lock] = "confirm" => ~AnswersToTake
  /\ UNCHANGED <<connection, pc, lock, current, scan, module, input, faults>>

-----------------------------------------------------------------------------
(* The module on the serial port.                                           *)
Ack       == [kind |-> "ack", old |-> FALSE]
Data(a)   == [kind |-> "data", from |-> a, old |-> FALSE]
Puts(items) == line' = line \o items /\ UNCHANGED <<buffer, reader>>
Running   == pc["server"] # "stopped"
NoFault   == UNCHANGED <<connection, threads, scan, faults>>
Fault     == /\ faults < MaxFaults /\ faults' = faults + 1
             /\ UNCHANGED <<connection, threads, scan>>

(* check_serial: the ACK goes out before the message is handled. A frame    *)
(* that lost bytes is completed with those of the next one.                 *)
CheckSerial ==
  LET c == Head(wire) IN
  /\ wire # <<>> /\ wire' = Tail(wire) /\ partial' = FALSE /\ NoFault
  /\ Puts(IF ~partial /\ c.kind = "poll" /\ c.to = Attached THEN <<Ack, Data(c.to)>> ELSE <<Ack>>)
  /\ bus' = IF ~partial /\ c.kind = "poll" /\ c.to # Attached THEN bus \cup {c.to} ELSE bus

(* Bytes of the command are lost on the way to the module.                  *)
LoseBytes ==
  /\ wire # <<>> /\ wire' = Tail(wire) /\ partial' \in {TRUE, partial} /\ Fault
  /\ UNCHANGED <<bus, input>>

(* The answer of a polled module comes over the bus, or never.              *)
Relay(a) ==
  /\ a \in bus /\ bus' = bus \ {a} /\ NoFault /\ UNCHANGED <<wire, partial>>
  /\ Puts(<<Data(a)>>) \/ UNCHANGED input

(* Wrong: ready is sent once, when the module starts.                       *)
NeverReady == FALSE
(* serial_ready: the module had no message for a while. The reader keeps up.*)
SerialReady ==
  /\ wire = <<>> /\ line = <<>> /\ Running
  /\ Puts(<<[kind |-> "ready", old |-> FALSE]>>)
  /\ NoFault /\ UNCHANGED module

-----------------------------------------------------------------------------
(* The serial line to the server and the reader thread.                     *)
LoseItem == /\ line # <<>> /\ line' = Tail(line) /\ Fault /\ UNCHANGED <<buffer, reader, module>>
Garble   == /\ line # <<>> /\ Head(line).kind = "data"
            /\ line' = [line EXCEPT ![1].from = "garbled"]
            /\ Fault /\ UNCHANGED <<buffer, reader, module>>

Put ==
  /\ reader = "idle" /\ line # <<>> /\ Running
  /\ IF Len(buffer) < Capacity
     THEN buffer' = Append(buffer, Head(line)) /\ line' = Tail(line) /\ UNCHANGED reader
     ELSE reader' = "full" /\ UNCHANGED <<line, buffer>>
  /\ NoFault /\ UNCHANGED module

(* The oldest item is dropped; if it was taken meanwhile, and all the others,*)
(* get(False) raises and ends the thread.                                   *)
DropOldest ==
  /\ reader = "full" /\ Running
  /\ IF buffer = <<>> THEN reader' = "dead" /\ UNCHANGED buffer
                      ELSE reader' = "idle" /\ buffer' = Tail(buffer)
  /\ UNCHANGED line /\ NoFault /\ UNCHANGED module

-----------------------------------------------------------------------------
Client == \/ \E r \in Command \cup {Other("exit"), Other("malformed")} : ClientSends(r)
          \/ \E b \in BOOLEAN : GetAck(b) \/ GetResponseData(b)
          \/ ClientLeaves \/ ClientConnects
Thread(t) == Write(t) \/ Confirm(t) \/ RequestData(t) \/ Collect(t) \/ CollectEnds(t)
Next == \/ Client \/ Receive \/ LostConnection \/ ScannerWakes
        \/ (\E t \in Threads : Thread(t)) \/ TimeLimit
        \/ CheckSerial \/ LoseBytes \/ (\E a \in bus : Relay(a)) \/ SerialReady
        \/ LoseItem \/ Garble \/ Put \/ DropOldest
Spec == Init /\ [][Next]_vars

(* Every thread, the module and the clock go on; the scanner, the client    *)
(* and the bus need not.                                                    *)
FairSpec ==
  /\ Spec
  /\ WF_vars(Receive) /\ WF_vars(TimeLimit)
  /\ \A t \in Threads : WF_vars(Thread(t))
  /\ WF_vars(CheckSerial) /\ WF_vars(SerialReady) /\ WF_vars(Put) /\ WF_vars(DropOldest)

-----------------------------------------------------------------------------
(* An ACK is that of the last command written: no thread takes the ACK of   *)
(* an earlier command, its own or the other thread's, for that of its own - *)
(* although commands and ACKs are lost and confirmations time out.          *)
AckIsOwn == \A i \in Arriving : i.kind = "ack" => ~i.old

(* Who collects a response finds nothing that came before the last command  *)
(* was written: confirming a command drains the buffer.                     *)
ResponseIsFresh ==
  \A t \in Threads : pc[t] = "collect" =>
     \A i \in Arriving : i.kind = "data" => ~i.old

(* A request gets one reply of the kind the client waits for: an ack for a  *)
(* command, data or None for a data request - also when its handling raised *)
(* ("Send the single reply this request is waiting for", reply).            *)
Waits == {"awaitAck", "awaitData", "awaitExit"}
OneReplyOfItsKind ==
  /\ client \notin Waits => replies = <<>>
  /\ Len(replies) <= 1 /\ (request # None => replies = <<>>)
  /\ replies # <<>> => (Head(replies) = "ack" <=> client # "awaitData")

(* A client that stays is answered: an ACK that never comes does not block  *)
(* the server, because the module repeats its ready line and that lets      *)
(* send_and_confirm look at its time limit. Only the death of the reader    *)
(* thread ends this.                                                        *)
Waiting == client \in Waits /\ replies = <<>>
EveryRequestAnswered == Waiting ~> (~Waiting \/ reader = "dead")

(* "A device previously responded to this address" (DeviceScanner.run): the *)
(* device recorded at an address is the one that has the address.           *)
DevicesAreAtTheirAddress ==
  \A a \in DOMAIN devices : devices[a].address = a
=============================================================================
