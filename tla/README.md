# Verification of HMTL

HMTL is a network of small modules (Arduino and ESP32 boards) with outputs: lights, strips of
pixels, igniters and valves. A module has a serial port, possibly with a host on it, and sockets on
an RS485 bus, a radio or TCP. Hosts and other modules send it messages: show this value, run this
program on this output, tell who you are, take this clock, take this address. On the host's side a
Python server owns the serial port and shares it between clients and a device scanner. Paths below
are relative to `src/`.

This directory holds TLA+ models of the parts in which the order of events decides, the TLC
configurations that check them on small instances, and proofs, checked by TLAPS, of what was found
to hold.

| Module | Models | Checked by | Proofs |
|---|---|---|---|
| `ProgramManager` | main loop of a module, its trackers and all programs | `MCProgramManager*.cfg` | `ProgramManagerProofs` |
| `SlotLifecycle` | what the program manager promises (abstract) | refined by `ProgramManager` | `ProgramManagerProofs` |
| `TimeSync` | clock synchronisation between modules | `MCTimeSync*.cfg` | `TimeSyncProofs` |
| `FlameEffect` | the controller of a fire effect and the module it commands | `FlameEffect*.cfg` | `FlameEffectProofs` |
| `CommandServer` | Python client, server, scanner, reader thread and serial line | `MCCommandServer*.cfg` | `CommandServerProofs` |
| `MessageRouting` | how messages and responses cross several modules | `MCMessageRouting.cfg` | `MessageRoutingProofs` |
| `MessageFormats` | byte layouts of messages and configurations on both sides | used by the next and `Emulator` | |
| `MessageExchange` | one message or configuration record from one side to the other | `MCMessageExchange.cfg` | `MessageProofs` |
| `Emulator` | the Python emulator of a module and a client that commands it | `MCEmulator*.cfg` | `MessageProofs` |
| `InputFraming` | the reader thread that cuts bytes into lines and messages | `MCInputFraming.cfg` | `InputFramingProofs` |
| `ConfigSession` | configuration script, configuration sketch and EEPROM | `MCConfigSession.cfg` | `ConfigSessionProofs` |

`PROJECT.json` lists components, runs, mutants (for each property a plausible bug in a definition
that breaks it), the source lines each definition stands for, findings, hazards and theorems. To
repeat a check: `tlc -workers 2 -config MCTimeSync.cfg MCTimeSync`; of a proof:
`tlapm ProgramManagerProofs.tla`.

## 1. Inventory

For each component: the state it keeps, its operations, what it interacts with, what is hard, and
what makes it correct.

**Program manager** (`Libraries/HMTLMessaging/ProgramManager.cpp`, `HMTL_Module/HMTL_Module.ino`).
State: a tracker per output and one for programs without an output (program, done and dealloc flags,
a malloc'ed state); the outputs' values; `update`. Operations: `handle_msg` (refuse, cancel, start),
`run` (a turn for every tracker), `free_tracker`, `get_program_state`; the sketch's `loop`, which
calls the message handler, `run` and the output update. Hard: a program ends in one place (its turn)
and is freed in another (the next `run`), and a message may come in between; `loop` updates the
hardware only if somebody reported a change; outputs are shared between their own program, a
SEQUENCE and direct messages. Correct: memory and trackers agree, a program only runs where its
setup accepted it, the hardware shows what the outputs hold.

**Output programs** (`HMTLPrograms.cpp`): blink, timed change, fade, level, sound, sparkle,
circular, sound pixels, sequence, brightness, colour, and the sketch's sensor data. State: one
structure per running program (times, phases). Hard: absolute times with 0 as "not started", a
clock that wraps and can be stepped by a synchronisation; sensor flags shared by programs.
Correct: a timed change shows its value and ends; a sequence lights one step.

**Time synchronisation** (`Libraries/TimeSync/TimeSync.cpp`). State: `state`, `latency`, `delta`.
Operations: `synchronize` (start, or handle a message), `resynchronize`, `check`, `set`, `ms`. Hard:
messages lost, delayed, reordered and broadcast; `latency` doubles as a timestamp. Correct: exchanges
match up, a latency is one the link can have, clocks end close, nobody waits for ever.

**Fire-effect controller** (`Libraries/HMTLPoofer/HMTLPoofer.cpp`). State: bits (ignition, pilot
delay, ready, poof) and three deadlines. Operations: enable and disable of igniter, pilot and poof,
`poof`, `cancelPoof`, `update`, `checkChanged`. It commands another module by messages that nobody
acknowledges. Hard: controller and valves disagree after a loss; every order of operations is
possible. Correct: the main valve closes by itself; ready only after a whole ignition.

**Message routing** (`MessageHandler.cpp`). State: the module's address, the source address of each
socket. Operations: `check_serial`, `check_socket`, `check_and_forward`, `process_msg`. Hard: a
message has no hop count and is not remembered; each module decides alone. Correct: nothing is handled
twice, nothing is left out, responses come out where the request came in, forwarding ends.

**Wire framing and construction** (`HMTLMessaging.cpp`, `HMTLprotocol/HMTLWireFormat.h`). State: the
bytes received so far. Operations: `hmtl_serial_getmsg`, `hmtl_socket_getmsg`, `hmtl_*_fmt`. Hard: lost
bytes put the frame boundary in the wrong place; the CRC is not checked. Correct: a valid message
after noise is received at last.

**Module start-up commands**, **ESP32 REST interface** (`HMTL_Module/Module_Startup_Commands.cpp`,
`HMTL_Module_API.cpp`). Stateless builders of the same program messages.

**Configuration storage** (`Libraries/HMTLTypes/HMTLTypes.cpp`). State: a chain of records in EEPROM.
Operations: `hmtl_write_config`, `hmtl_read_config`, validation, `hmtl_setup`. Hard: a reset between
two records; output types that a build does not have. Correct: what is read is what was written last.

**Serial configuration sketch** (`setup/HMTLPythonConfig/HMTLPythonConfig.ino`). State: the
configuration built so far, flags of what was received. Operations: start, header, address and
output records, write, end. Correct: only a complete, valid configuration is written.

**Python serial transport** (`python/hmtl/HMTLSerial.py`, `InputBuffer.py`, `SerialBuffer.py`,
`CircularBuffer.py`). State: a bounded queue filled by a reader thread; the partial item. Operations:
`put`, `get`, `get_message`, `send_and_confirm`, `_read_item`. Hard: the queue is full while another
thread empties it; a time limit that is only looked at when something arrives.

**Command server and client** (`python/hmtl/server.py`, `client.py`). State: the connection, the
lock on the serial port, the table of devices. Operations: `listen`, `handle_msg`, `get_data_msg`,
`reply`, `DeviceScanner.run`; `send_and_ack`. Hard: two threads, two critical sections per request,
failures in every handler, clients that leave. Correct: one reply of the right kind per request, the
ACK and the response are those of the command, devices are recorded where they are.

**Protocol and configuration formats** (`python/hmtl/HMTLprotocol.py`, `TrianglePrograms.py`, `config.py`,
`constants.py`, `HMTLjson.py`; on the other side `HMTLWireFormat.h`, `HMTLPrograms.h`, `HMTLTypes.h`). No
state. Operations: a constructor or formatter and a parser per message, program and configuration
record. Hard: the same layout is written down on both sides, in several ways, with a length that is
declared and not counted. Correct: what is read is what was meant.

**Python emulator** (`python/hmtl/emulator/`). State: outputs, a program object per output or shared by
all, the clock, the tick thread. Operations: `handle_bytes`, `_install_program`, `tick` of each
program, `advance`, `reset`. Hard: ticks come late, programs keep what they believe about outputs that
others change, an exception ends the thread. Correct: outputs show what their programs stand for.

**Command line tools and demos**, **bring-up and test sketches**, **build and layout guards**: front
ends, manual tests and compile-time checks.

How they interact: the client sends requests to the server; the server writes frames to the serial
port; the attached module acknowledges, forwards them over its sockets and handles them; handling
goes to the program manager, the output code or the time synchronisation; what modules answer is cut
into items by the reader thread of the Python transport; the configuration script sends records over
the same transport to the configuration sketch, which writes what modules read when they start; the
emulator stands in for a module and is sent the same messages; a fire-effect controller
is a module's sketch that sends program messages to another module.

## 2. The models

### ProgramManager and SlotLifecycle

One module, single-threaded, as the state machine `check` (messages) → `run` (a turn per tracker) →
`update` (pins). `pc` and `slot` are the place in the loop; time passes between any two steps
(`Tick`), so a program's deadline may fall anywhere.

* `RejectMsg`, `CancelMsg`, `TrackerlessMsg`, `InstallMsg` are the outcomes of `handle_msg`;
  `InstallMsg` frees the trackers of all targets, then sets up the program on those that accept it,
  as the code does. `SetOutputs` is `hmtl_handle_output_msg`, `SensorMsg` a sensor message,
  `SetClock` a time synchronisation (the clock jumps).
* `SkipIdle`, `FreeDone` and one `Run…` action per program are the body of `run` for one tracker.
  `UpdateOutputs` is the end of `loop`.
* `heap` is the set of addresses malloc gave out. `writer` and, in the other modules, variables
  called history exist only for properties.
* Colours, brightness and patterns are values of a small set; the geometry of pixels, blending and
  random choices are free values. A tracker that was never allocated is one without a program.
* Assumed away (`SafeRequestAssumption`): a FADE with period 0 (division by zero) and a SEQUENCE
  step that names an empty output slot (null pointer); both are listed as hazards.

`SlotLifecycle` says what this amounts to: in the message phase a set of slots is emptied and those
that fit are filled; in the turn phase only a program that can end leaves its slot. `ProgramManager`
implements it (`ImplementsSlots`, under `running <- trackers[s].prog`).

### TimeSync

Several nodes with clocks of the same rate and different offsets. `Synchronize`, `Resynchronize`,
`Check`, `SetTime` are the operator's commands; `HandleSync`, `IgnoreSync`, `HandleAck`,
`IgnoreAck`, `HandleSet`, `HandleResync`, `HandleCheck` the branches of `synchronize` on a message.
The network is a set of messages with an age; `Lose` and `Tick` are its faults: a message is
delivered within `MaxDelay` or lost, in any order. Clocks, timestamps and `latency` count modulo
`Wrap`, as unsigned long does.

### FlameEffect

The controller's bits and deadlines, the messages under way (in order, each delivered or lost) and
three valves that run the timed changes of `ProgramManager` (`RunOutput` is `RunTimedChange` on one
output). One action per operation of `Poofer`. A tick is longer than bus and module loop take
(periods are seconds), so `Tick` waits until messages and due outputs are settled; the controller's
own `Update` is not waited for. The clock does not reach its wrap (`ClockAssumption`).

### CommandServer

Client, server thread, scanner thread, reader thread, the lock, the serial line in both directions
and the attached module. `Write` takes the lock and ages what was already on the way; `Confirm`
takes one item from the buffer per step; `RequestData`, `Collect`, `CollectEnds` are
`get_data_msg`, under the lock again. `over` says that the current time limit is past: it is looked
at only where the code does, after an item came. `Recover` is what `listen` answers after an
exception. `Put` and `DropOldest` are the two steps of the reader on a full queue, `reader = "dead"`
what the race between them and a consumer leads to. `LoseBytes`, `LoseItem` and `Garble` are the
faults of the line; `partial` is a frame that lost bytes and swallows the next one.
Two abstractions: the 10 s limit of a confirmation is longer than the module and the reader need for what
they have received (`AnswersToTake`), and a scanner that sleeps (0.25 s or more) lets a waiting server thread
have the lock (guard of `ScannerWakes`).

### MessageRouting

Modules on several media. A packet is a message on a medium to one of the modules there; a medium
carries every message to all of them, since `hmtl_socket_getmsg` is called without an address.
`Receives` is all of `check_socket`: forward over every other socket, then `process_msg` (print an
ACK, answer a poll, change the address, count the handling). `HostSends` is `check_serial`.
`Lose` drops a packet; packets overtake each other. SET_ADDR over a serial port to the module itself
is excluded (`HostSends`): the code dereferences a null pointer. What handling does to outputs,
programs and clocks is in the other modules.

### MessageFormats and MessageExchange

A layout is a list of named fields with widths; `Pack` and `Unpack` are `struct.pack` and
`struct.unpack_from`, `Packs` and `Unpacks` what they refuse. The Python layouts and those of the
firmware's structs are written down separately, each from its own source, and compared only through
the bytes. `Message` and the `…Message` operators are the constructors, with the length each of them
*declares* (`DeclaredData`, `DataLen`); `Constructs` is what they refuse. `MessageExchange` sends one
of them at a time (`Send`, `Receive`); its properties read it on the other side. Left out: decoding to
text and the extra header of TCP messages, which nothing reads. In the run four-byte fields end at
2^31 - 1, because TLC's integers do; the proofs have all of their values.

### Emulator

`Handle` is `handle_bytes` of a whole message: it takes the bytes `MessageFormats` packs and dispatches
them (`HandleValue`, `HandleRGB`, `HandleCancel`, `HandleProgram`, `HandleNothing`). Programs are objects
named after the output they were installed for, so a program for all outputs is one object in every
slot, as in the code. `RunPrograms` ticks the slots in order and stops at the first exception, with
what was written until then; `Advance` (virtual time) answers "error" for it, `TickLoop` (real time)
dies. `Reset` sets every output to 0, not to its configured value. A lock makes the handlers atomic;
the sockets and threads that carry messages are left out. `origin`, `writer` and `cut` (the last run was
cut short) are history.

### InputFraming

`_read_item`, one byte a step: `ReadFrameByte`, `ReadText`, `ReadStartAfterText`, and `EmptyRead` for a
read that timed out. What looked like a message and is none goes to `pushback` without its first
byte (`Rescan`). The module sends lines, messages and noise; `due` is the item that must come next
when the reader was idle, `count`, `of` (the bytes the last item was cut from) and `read` (those read since)
are history. `NothingLost` weighs them against what the reader holds: a message byte for byte, text without
its line ends and without start codes that began no message. `source` is the subclass: `ReaderDies` is what
a socket does after 30 s of silence and standard input with its first character. The message header is
shortened to start code, version and length (`HdrLen = 3` for 8): the reader looks at no other field.
A socket that is closed by its peer, whose reads come back empty for ever, is not modelled.

### ConfigSession

The script (`Begin`, `Send`, `Confirm`, `End`), the line with one command at a time, and the sketch, one
action per command (`HandleStart` … `HandleWrite`). `WriteRecord` writes one record to EEPROM, so `Reset`
falls before, between and inside records; `Chain` follows the records as `hmtl_read_config` does.
A header has a version, which the script takes from the file unchecked. `ValidHeader` is
`hmtl_validate_header`: it knows three versions, and for the two older ones finds the count of outputs where
this one has the baud rate or the low byte of the device's id (`Count`); what is written is stamped with the
sketch's own version (`Stamped`). A header that was never received is one without the magic number
(`NULL`), which every header of the script and of `hmtl_write_config` has. The sketch keeps header and outputs between sessions. `LoseBytes` loses a command or its end (`partial`: it
swallows the next one), `LoseReply` the answer. `before`, `wrote`, `clean` (nothing
was lost or reset since the session began, and a file began with no outputs left over) and `torn` are history. Records
have size 1 or 2, enough for a shorter one to leave the end of a longer one behind. Files are those
whose outputs the sketch has room for (`SessionAssumption`): `add_output` has no limit of its own.
Pins are checked as the code does it, with a map of 64 bits that holds each pin once (`PinMap`,
`ValidConfig`); a file may have a type the script knows and the sketch does not take for an output
(`CONFIG_TYPES`), which `HandleOutput` refuses.
`print` and `dump`, which change nothing, are left out; `device_id` and `baud` are the address command
with another field.

## 3. What the runs show

| Run | Instance | Shows |
|---|---|---|
| `program_manager` | a value output, a strip and a socket; 8 messages; clock of 3 values that wraps and is set | memory and trackers agree (`HeapMatchesTrackers`), a program fits its output (`ProgramFitsOutput`), timed changes and sequences show what they should (`TimedChangeShowsItsValue`, `SequenceLightsOneStep`), pins are current (`PinsCurrent`), the slot life cycle is implemented (`ImplementsSlots`) |
| `program_ends` | a strip and an empty slot; programs that end or follow sensors; fair loop and clock | a program that is done is released (`DoneIsReleased`), a timed change ends (`TimedChangeEnds`) |
| `timesync` | a master, two slaves of which one checks and one sets its clock; delay up to 1, clock modulo 5 | whoever has an ACK to the master or a SET under way waits for that one exchange (`SetIsAwaited`), latencies are possible (`LatencyIsPossible`), clocks end within half the delay (`ClockIsClose`) |
| `flame_effect` | ignition 2, pilot delay 1, poof at most 1 tick, clock to 6 | the main valve closes by itself (`PoofIsBounded`), readiness needs a whole ignition (`ReadyAfterIgnition`), changes are reported but for those of `cancelPoof` (`ChangesAreReported`) |
| `flame_cancel` | same | violation, finding 1 |
| `command_server` | attached module and one behind it, scanner polls the latter; queue of 2; one fault | ACKs and responses belong to the last command (`AckIsOwn`, `ResponseIsFresh`), one reply of the right kind (`OneReplyOfItsKind`), every request is answered unless the reader died (`EveryRequestAnswered`) |
| `command_server_scan` | no faults, scanner polls both | violation, finding 2 |
| `message_routing` | three modules in a line over two media, hosts on two, two messages | nothing is handled twice (`HandledOnce`), what is not lost arrives (`DeliveredWhenQuiet`), responses come out where they should (`ResponsesGoBack`), forwarding ends (`ForwardingEnds`) |
| `message_exchange` | 313 messages and records, every field at its limits in turn | a message declares the length it has (`DeclaredLength`), fields arrive as they were sent (`FieldsArrive`), a COLOR message of an older form lights nothing (`ColorAsMeant`) |
| `emulator` | a value and a colour output, 17 messages, ticks of 1 and 3, clock to 4, resets | a blink keeps its schedule (`BlinkDoesNotDrift`), outputs show what their programs stand for (`ShowsItsPhase`), ticking fails only for a program in the wrong kind of slot or a wrong output (`FailsOnlyOnMisfit`) |
| `input_framing` | three lines, messages or pieces of noise, a gap between any two bytes | only messages are framed (`FramesAreFrames`), the serial reader lives (`SerialReaderLives`), no byte is lost or doubled, and those of messages are as they were sent (`NothingLost`), a message survives gaps (`NextItemIsDue`), the reader comes to rest (`ReaderSettles`) |
| `config_session` | 18 files, up to three sessions, lost bytes and answers, resets | what is written has its outputs (`WriteFindsItsOutputs`), what was confirmed is stored (`WroteIsStored`), what is stored is valid (`StoredIsValid`), nothing correct of the sketch's own version is refused, unless an earlier session left outputs (`RefusesForAReason`) |

`TypeOK` of a module is checked where it is not proved, and in `program_manager` and `flame_effect`.
Five configurations are kept for what the code is known not to do; they are no runs, since no
document says that it does. Each ends with a counterexample (section 4):
`MCProgramManager_all.cfg`, `MCTimeSync_stuck.cfg`, `MCTimeSync_check.cfg`, `FlameEffect_pilot.cfg`,
`MCEmulator_all.cfg`.

### Bounds, and why they are enough

* `ProgramManager`: three outputs are one of each kind, and two that share programs; a sequence of
  two steps has a first, a next and a wrap; values on and off tell all properties apart. The clock
  wraps at 3 and never stops (`MaxNow = Wrap`), so a deadline falls before, on and after the wrap.
  In `program_ends` it stops at 4, and `TimedChangeEnds` speaks of deadlines before that. Deadlock
  is checked.
* `TimeSync`: two slaves, because a broadcast has one winner and others; a delay of 0 or 1 gives
  links that are as fast, faster and slower on the way back; `Wrap = 5` is the smallest modulus for
  which differences up to twice the delay are told apart (`ClockAssumption`). `MaxNet = 2` bounds
  what is under way when an operator acts; answers may exceed it.
* `FlameEffect`: the clock runs to 6, over two ignitions or an ignition and several poofs; asked-for
  period 3 exceeds `POOF_MAX`, so that limiting matters. `MaxNet = 0` lets an operation start
  when the messages before it were delivered or lost; an operation sends up to two. The proofs are
  for all values of these constants that satisfy the assumptions.
* `CommandServer`: a queue of 2 overflows (a poll gives two items), two addresses are the attached
  and a remote module, one fault gives each single failure in every state. Deadlock is not checked: after
  `exit` the server stops.
* `MessageExchange`: every field is once at 0, 255, 256 and its own limit while the others are 0, and once
  all fields differ: a swapped, shifted or cut field shows in one of them.
* `Emulator`: two outputs suffice for a shared object and for a sequence; a tick of 3 is longer than
  every period, so changes come late and several at once are due. Periods are 0, 1 and 2; the clock stops at
  4, after two cycles of the longest program, and starts again with `Reset`. Deadlock is checked:
  messages can always be sent.
* `InputFraming`: three pieces give a message between noise, or noise that becomes a message with what
  follows. Bodies hold a start code and a line end, headers promise bodies that never come.
  `MAX_PARTIAL_FRAME_READS` is 2 for 5: none, some and too many gaps occur with either; `Patience = 2` is the
  longest gap the reader has to ride out. Deadlock is not checked: a dead reader and a silent
  module stop.
* `ConfigSession`: three sessions are one that is interrupted, one that meets what it left, and one
  that meets what that wrote. Pins go to 5, and the files have each reason for a refusal:
  a pin twice within an output and across outputs, one that does not exist, a type the build lacks,
  no output type, no address or device id, a version it does not know, older versions whose count
  it finds too large (44, 8) and one where it does not (2). `HMTL_MAX_OUTPUTS` is 6: three sessions with two outputs each.
* `MessageRouting`: a module in the middle of two others is where forwarding happens; two messages
  meet, overtake each other or change an address between request and response. Deadlock is not
  checked: after `MaxSent` messages nothing is left to do. The media form no cycle, as in the
  sketches' networks; with a cycle `HandledOnce` and `ForwardingEnds` do not hold.

### Fairness

* `ProgramManager!FairSpec`: weak fairness of the loop and of the clock: `loop()` is called for ever
  by the Arduino core. Nobody has to send anything.
* `TimeSync!FairSpec`: strong fairness of the operator's `Synchronize` and of the delivery of each
  kind of message to each node. This is more than the code guarantees; it is used only in
  `MCTimeSync_stuck.cfg`, where the property fails in spite of it.
* `InputFraming!FairSpec`: weak fairness of the reader: its thread runs, and a read returns a byte or
  ends after its timeout. Nobody has to send anything.
* `CommandServer!FairSpec`: weak fairness of the threads, the module's loop (with `SerialReady`,
  which the module repeats), the reader and the clock; none of the client, the scanner's wake-up,
  the bus, or any fault.
* `MessageRouting!FairSpec`: weak fairness of `Receive`: every module polls its sockets in `loop()`.
  It says nothing of which packet is next.

## 4. Findings

Two disagreements between the code and its own comments, each with the run that shows it:

1. **Cancelling a poof leaves the main valve open** (`HMTLPoofer.cpp:257`): the cancel removes the
   timed change that would have closed it and sets no value.
2. **The scanner files a response under the wrong address** (`python/hmtl/server.py:246`): the lock
   is free between its poll and its wait for the response, a client's poll confirmed in between
   leaves the other module's response, and `msg.address` is not compared.

Known behaviour that a reader might not expect, with the property that fails and the configuration
that shows it:

* **A program for all outputs ends programs it does not replace** (`ProgramManager.cpp:175`):
  `handle_msg` frees the tracker of each target before it asks the new program's setup
  (`AllOutputsSparesOthers`, `MCProgramManager_all.cfg`).
* **A lost ACK or SET leaves a slave in its hot-wait for ever** (`TimeSync.cpp:153`): in AWAITING_SET
  every SYNC is ignored, and the master answers only ACKs. The same happens to every node that
  loses the race after a broadcast SYNC (`HotWaitEnds`, `MCTimeSync_stuck.cfg`).
* **An ACK that answers a CHECK is taken for the answer to a SYNC** (`TimeSync.cpp:174`) by a master that
  also checks (`LatencyIsPossible`, `MCTimeSync_check.cfg`); the TODO at `:172` asks for the test.
* **Disabling the pilot during an ignition does not disable the poofer** (`HMTLPoofer.cpp:161`):
  `IGNITER_ON` stays, and its end sets `POOF_READY` (`ReadyMeansPilot`, `FlameEffect_pilot.cfg`).
* **An emulated program for all outputs changes only the first of them**: the object is shared, and its
  first tick takes the change from the others (`AllShowTheirPhase`, `MCEmulator_all.cfg`).

Properties state their exceptions where the code has them: an invalid sensor is acknowledged and left out
(`HMTLPythonConfig.ino:307`), and since "start" keeps the outputs of an interrupted session, one of those
can take its place; `hmtl_read_config` accepts what a torn write left when there are records enough; an
empty read cuts a line of text in two; triangle programs declare 43 bytes and send 23
(`TrianglePrograms.py:19`); a value beyond 13 bits runs into a configuration's flags (`HMTLTypes.h:57`). The
models also have, without a property about it: standard input ends the reader thread at its first
character (`InputBuffer.py` adds text to bytes); the emulator's timed change repeats for ever
(`programs.py:61`) and it never acknowledges; the reader thread dies on a full queue that is emptied
meanwhile (`CircularBuffer.py:29`); a command swallowed by a broken frame is acknowledged; and the response
of a module two hops away stays with the module in between.

## 5. What is proved

The theorems hold for every value of the constants that satisfies the named assumptions: any number
and kinds of outputs, any set of requests, any clock bound and modulus; any ignition, delay and poof
periods; any number of nodes, modules, media, messages and faults; any addresses, buffer and files.

`ProgramManagerProofs` (assumptions: `SizeAssumption`, `KindAssumption`, `ValueAssumption`,
`RequestAssumption`, `SafeRequestAssumption`):

| Theorem | Statement | Invariant it rests on |
|---|---|---|
| `TypeCorrect` | `Spec => []TypeOK` | `TypeOK` is inductive; one lemma for the programs, one for messages, one for the rest |
| `HeapCorrect` | `Spec => []HeapMatchesTrackers` | `HeapInv`: types, the property, and that a block carries the number of the tracker it was allocated for. Without the latter a fresh block might be one that another tracker owns |
| `FitsCorrect` | `Spec => []ProgramFitsOutput` | `SlotInv`: types, the property, and that only a timed change or a fade is ever done |
| `Refinement` | `Spec => ImplementsSlots` | `SlotInv`: a turn that frees a tracker is a `Complete` of `SlotLifecycle` only because what is done can end |
| `PinsCorrect` | `Spec => []PinsCurrent` | itself; each step either reports a change or changes no value (`ReportedSteps`) |
| `TimedChangeCorrect` | `Spec => []TimedChangeShowsItsValue` | `ShownInv`: types and the property, which is inductive because an installed program counts as having written nothing before its first turn (`Disown`) |
| `SequenceCorrect` | `Spec => []SequenceLightsOneStep` | `SequenceInv`: types, the property, and that a sequence writes only outputs that have a colour, so that the next step does clear the one before it |

`FlameEffectProofs` (assumptions: `PeriodAssumption`, `ClockAssumption`):

| Theorem | Statement | Invariant it rests on |
|---|---|---|
| `TypeCorrect` | `Spec => []TypeOK` | `TypeOK`: no message asks for a period above the largest of all, and no deadline passes the wrap. That an open valve is bound by `POOF_MAX` is `PoofCorrect` |
| `ReadyCorrect` | `Spec => []ReadyAfterIgnition` | `ReadyInv`: types, the property, and that while an ignition runs its deadline is that of the last one |
| `PoofCorrect` | `Spec => []PoofIsBounded` | `PoofInv`: every message under way to the main valve closes it in the end, and an open valve that was not cancelled runs a change that closes it within `POOF_MAX` of the last poof |
| `ChangesCorrect` | `Spec => ChangesAreReported` | none: each step that changes a bit of the state leaves CHANGED set, or is `CancelPoof` (`StepReports`) |

`TimeSyncProofs` (assumptions: `NodeAssumption`, `ClockAssumption`; hypothesis `OneMaster`: one node starts
synchronisations, and it sends no checks. With a master that checks the properties fail, see
section 4):

| Theorem | Statement | Invariant it rests on |
|---|---|---|
| `TypeCorrect` | `Spec => []TypeOK` | `TypeOK` and that nobody sends to itself |
| `SetCorrect` | `Spec => []SetIsAwaited` | `Roles` (who sends what, and which states a starter and the others can be in) and `OnePending` (an ACK to a starter or a SET under way is of a node that awaits its SET, and of no other one of that node); an ACK to another node only answers a CHECK |
| `LatencyCorrect` | `Spec => []LatencyIsPossible` | `Timing`: `latency` of a waiting slave is the time of its ACK, so the time since then is the age of the ACK, or the age of the SET and at most one delay more; such differences modulo `Wrap` are exact because they are small (`ClockAssumption`) |
| `ClockCorrect` | `Spec => ClockIsClose` | the same invariant, at the step that takes the SET or RESYNC |

`CommandServerProofs` (assumption: `ServerAssumption`):

| Theorem | Statement | Invariant it rests on |
|---|---|---|
| `ReplyCorrect` | `Spec => []OneReplyOfItsKind` | `ExchangeInv`: of request, server's place and replies, one holds the client's turn, and `current` is of the kind the client waits for (`Exchange`, `Handling`) |
| `AckCorrect` | `Spec => []AckIsOwn` | `PortInv`: the lock's holder is the only thread that confirms or collects (`Holds`); in what is under way to the threads, old items come first, there is one ACK at most and none beside a command on the wire; when no thread confirms, or its limit is past, there is no command, ACK or old item at all (`Order`) |
| `FreshCorrect` | `Spec => []ResponseIsFresh` | the same |
| `TypeCorrect` | `Spec => []TypeOK` | `ExchangeInv` and `Rest`, the types it does not need itself; the buffer keeps its limit because only the reader adds to it, after it looked |

The steps that lose, garble, move or take items are one argument: each yields a `Thins` of the
queue before, an order-preserving choice of its items, which keeps every part of `Order`
(`ThinsKeeps`).

`MessageRoutingProofs` (assumption: `TopologyAssumption`; the hypotheses on the topology are `HostsConnected`,
a host's module reaches another one; `Acyclic`, the media form no cycle; `Tree`, they also join all
modules. TLC evaluates all three on the instance):

| Theorem | Statement | Invariant it rests on |
|---|---|---|
| `TypeCorrect` | `Spec => []TypeOK` | itself |
| `ResponsesCorrect` | with `HostsConnected`, `Spec => []ResponsesGoBack` | `RouteInv`: hosts give each address once (`WellSent`), so an address belongs to one module for good (`Names`), and a response under way is to a module that put the request on a medium (`AllRouted`). The topology may have cycles |
| `HandledCorrect` | with `Acyclic`, `Spec => []HandledOnce` | `OnceInv`: a packet has a side of the topology ahead of it (`Reach`); the sides ahead of two packets of a message share no module (`Apart`), and nobody ahead of a packet has handled its message (`Ahead`). Forwarding divides a side among the packets it makes |
| `DeliveredCorrect` | with `Tree`, `Spec => []DeliveredWhenQuiet` | `OnceInv` and `OnWay`: who is still to handle a message that lost no packet is ahead of one of its packets; nobody on the way takes for itself what is for another |

Whether media form a cycle is stated without paths: there is a function `Side` that gives, for a
medium and a module on it, what a message can reach that the module receives over the medium, such
that the sides at one medium are disjoint and closed under crossing further media (`NoCycle`). In a
network without cycles the connected parts that remain when the medium is taken away are such sides.

`InputFramingProofs` (assumption: `FramingAssumption`; for `NextItemCorrect` the hypothesis `Deliverable`: lines
hold no line end or start code and are not empty, messages have the length their header says, and
`Patience` is at most `MAX_PARTIAL_FRAME_READS`; TLC evaluates it on the instance):

| Theorem | Statement | Invariant it rests on |
|---|---|---|
| `TypeCorrect` | `Spec => []TypeOK` | `FrameInv` |
| `FramesCorrect` | `Spec => []FramesAreFrames` | `PartialOK`: what is being read as a message begins with the start code, has a valid header as soon as it has a whole one, and is not yet as long as that says |
| `ReaderCorrect` | `Spec => []SerialReaderLives` | the same: what is queued as a message is never shorter than a header |
| `NothingLostCorrect` | `Spec => []NothingLost` | `LostInv`: `FrameInv` and the property, which is inductive: it says where in the bytes read since the last item those begin that are pushed back (`Holding`). `Rescan` passes over a start code, which begins every message (`PartialOK`), and gives back the others |
| `NextItemCorrect` | with `Deliverable`, `Spec => NextItemIsDue` | `DueInv`: as long as an item is due nothing is pushed back, what was read of it is a prefix of it, and the rest is next on the line |

`ConfigSessionProofs` (assumptions: `SessionAssumption`, `NullAssumption`):

| Theorem | Statement | Invariant it rests on |
|---|---|---|
| `TypeCorrect` | `Spec => []TypeOK` | `Inv`: `TypeOK` with the property below |
| `WriteCorrect` | `Spec => []WriteFindsItsOutputs` | `Inv`: "end" compares the counts, and in DONE only "read" changes header and outputs, both together |
| `StoredCorrect` | `Spec => []StoredIsValid` | `StoreInv`: who is to speak next and that "write" follows "end" (`TurnInv`), what memory and EEPROM hold, also that a header there has a version its count is right in (`Holds`), that a configuration which may be written has been validated (`Reviewed`), and that the records written so far are those of the first outputs, laid end to end (`Writing`, `Laid`) |
| `WroteCorrect` | `Spec => []WroteIsStored` | `WroteInv`: also, how far the script is in its job, and that the sketch has received what was confirmed, in order (`Progress`, `Stage`, `Received`); that a write that was just answered stored it (`Written`), and that nothing touches it later (`Kept`) |
| `RefusesCorrect` | `Spec => []RefusesForAReason` | `FreshInv`: also, that while nothing goes wrong, and the job's file is of the sketch's version, the sketch is in the state that the confirmed commands lead to (`Clear`, a part of `Stage`) and has not answered "fail" (`Fresh`) |

Each of these invariants contains the one before it. What `FlattenSeq` and the recursive `Chain` and
`Content` compute, and `Ends` and `TicksUpTo` below, is established by induction, for sets rather than for
formulas (lemmas at the head of each of the three modules):
`Induction` says that a set with 0 and with n + 1 for each n in it contains all numbers, and
`Recursion` that a function with a given first value and step exists on an interval. Both rest on the
library's theorem that finite sets are well-founded by inclusion.

`MessageProofs`, of `Emulator` (assumption: `EmulatorAssumption`: up to eight outputs that show what their kind can, and
requests that their constructors accept and that are bytes):

| Theorem | Statement | Invariant it rests on |
|---|---|---|
| `TypeCorrect` | `Spec => []TypeOK` | `IInv`, as for the next three |
| `BlinkCorrect` | `Spec => []BlinkDoesNotDrift` | `NoDrift`, a part of `Sound`: it needs the periods to be numbers, which is what unpacking any bytes yields |
| `PhaseCorrect` | `Spec => []ShowsItsPhase` | `Sound` and `Finishes` |
| `FailsCorrect` | `Spec => FailsOnlyOnMisfit` | `SlotsFit`: which programs are ticked with one output and which with the list |

`IInv` has five parts. An object is in the slot it was installed for or, if it was installed for all
outputs, in theirs (`SlotsFit`), and is blank when no slot refers to it (`Used`). The state of each object is
one its program goes through, and what it wrote last shows that state (`Sound`; `Well`, `PhaseOf`). Unless
the last run was cut short, a fade whose time is over has its end on its output (`Finishes`). The clock
and its threads have their types (`Basic`). A run of the programs is not one step but a tick per slot, each
from the state the one before it left. So `Sound` is stated of that intermediate state (`During`), each of
the four ticks is shown to keep it (`BlinkKeeps`, `TimedKeeps`, `FadeKeeps`, `SequenceKeeps`), and
`RunKeeps` concludes by induction over the slots, with `Ended` for the fades that had their turn. A
sequence's tick passes through a state in which its last output is dark and the next not yet lit; between
them only an exception can end the run (`SequenceTurns`). What a message can install rests on lemmas
about the wire format for any bytes: where fields end (`EndsRecur`), that a field of w bytes reads as a
number below 256^w (`NumberFits`, `UnpackFits`), and which fields a parsed program has (`ParseFits`,
`ReceivedFits`).

Three statements were found wrong by proving them, and corrected. The handlers of a message that is too
short for its type do nothing (`emulator.py:140-156`); `Dispatch` had left that out. The schedule of a blink
was stated with a remainder, which fails for two periods of 0; now it counts the periods. A fade whose
time is over does not show its end when a program in an earlier slot raised in the last run; the
instance has such a fade and such a program.

`MessageProofs`, of `MessageExchange` (assumption: `ExchangeAssumption`: what is sent has the fields of its
layout and no other, as its constructor was called; a field of four bytes holds a number of four bytes; a
module's own structs, and a configuration header, fit their fields; the bytes of an old COLOR message are
five. What is refused where it is constructed is not sent):

| Theorem | Statement | Rests on |
|---|---|---|
| `LengthCorrect` | `ExchangeSpec => []DeclaredLength` | `Declares`: each message begins with a header that declares a number n (`Begins`), and has n bytes |
| `FieldsCorrect` | `ExchangeSpec => []FieldsArrive` | `ProgramRead`, `OutputRead`, `HeaderRead`, `PollRead`, `DumpHeaderRead`, `DumpOutputRead`, one for each way to read |
| `ColorCorrect` | `ExchangeSpec => []ColorAsMeant` | `ProgramRead`, and `OldColorRead` for the five bytes |

The invariant is only that what is on the wire was constructed (`OnWire`); the argument is about the
formats. `Packed` says where `Pack` places each byte of each field (`Sits`), for any layout, by induction
over its fields. `UnpackedAll` says that `Unpack` returns the values that sit in the bytes, if no two fields
share a name and each value fits (`NumberOfBytes`: the bytes of a number are its digits to base 256). A
struct keeps sitting in what is put before or behind it (`SitsLeft`, `SitsRight`) and in what is left when
the bytes before it are dropped (`SitsShifted`). It remains that each layout has the length its
reader counts on and no name twice (`MsgHdrIs` … `SequenceIs`), and that sender and reader list the
same fields (`SamePrograms`, `SameParsed`, `SameConfigs`, `SamePoll`, `SameHeader`).

Each preservation proof has one step per action; facts about helpers (`AfterAdds`, `SetupType`,
`ReuseKeepsHeap`, …) are lemmas.

**Only model-checked:** liveness (`DoneIsReleased`, `TimedChangeEnds`, `EveryRequestAnswered`,
`ForwardingEnds`, `ReaderSettles`), which the prover cannot establish under fairness. Every other
property of a passing run is a theorem.

## 6. What is not modelled

* The start-up commands and the REST interface build messages that `ProgramManager` already accepts.
* Command line tools, demos, test sketches and compile-time layout checks: no state of their own.
* `hmtl_serial_getmsg` byte by byte: the reader in `InputFraming` is the Python one; what lost bytes do
  to the firmware's is in `CommandServer` and `ConfigSession` (`partial`).
* Of the Python transport: opening ports, modem lines, and the time limit of the ready handshake.
* Of the configuration: printing, the default configuration, the EEPROM driver and a write that it reports
  as failed (`EEPROM_safe_write`), and the hardware version and flags of a header, which nothing decides on.
* That SPARKLE and CIRCULAR take a period of 0 for 50 and 100 ms (`HMTLPrograms.cpp:572`, `:778`): the
  periods in the model are those after that, and one of 0 would repaint in every turn.
* Of the emulator: the sockets and threads that carry its messages.
* Real time and memory: a malloc that fails, an interrupt, the time a step takes.
* Undefined behaviour named above: division by a fade's period 0, an empty slot in a sequence, a
  SET_ADDR over serial; the periods of the fire effect near the wrap of `millis()`.

## 7. What could come next

* `hmtl_serial_getmsg` as a byte automaton next to `InputFraming`, both over one lossy line, to bound how
  many messages a lost byte costs.
* The refinement of `CommandServer`'s reader by `InputFraming`, with items for bytes.
* The ready handshake of `HMTLSerial` with a module that resets when the port is opened.
* `Pack` as a recursive function, for a proof that `Unpack` reads what it packed in any layout without overlap.
