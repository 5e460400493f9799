# A verification project for the beer pong table

The table has lights under its cups and sensors that see whether a cup is in its
place. Two programs drive it, and a third is kept beside them:

- **The controller board** (`src/EC/App/BeerpongEmbeddedController`), an Arduino.
  It reads the sensors through a chain of shift registers, lights the cups, and
  takes requests from a serial line.
- **The gateway** (`src/MC/App`), a Linux process on the other end of that line.
  It accepts clients over TCP, forwards their packages to the line, and sends what
  the board says to one client or to all of them.
- **FarsUnoTest** (`src/EC/main/FarsUnoTest`), an earlier form of the board's program.
  It only sets lights, and unlike its successor it reads a whole package.

The modules here are written from that code. TLC checks them on small instances,
and the TLA+ proof system proves the safety properties for every value of the
constants. `PROJECT.json` says which lines each definition stands for, which run
checks which property, and which theorem proves it.

## Inventory

### Gateway (`src/MC/App`)

| Part | State | Operations | Interacts with |
|---|---|---|---|
| `MainController` | the client map `m_clientMap`; the `UartClient` it writes the port with | `start`, `stop`, `networkCallback`, `uartCallback`, `sendMsgToClient`, `notifyAllClients`, `addClientToMap` | called back by both servers, each on its own thread; nothing is locked |
| `NetworkServer` | `m_running`, `m_fd`, `m_buffer`; in its thread `err`, `clientSocket` | `open`, `close`, `serverListenerThread` | started by `start`; calls `networkCallback` |
| `UartServer` | `m_running`, its own `UartClient`, `m_buffer` | `startServer`, `stopServer`, `uartServerThread` | started by `start`; calls `uartCallback` |
| `AbstractConnector`, `UartClient`, `NetworkClient` | `m_fd` | `open`, `write`, `read`, `close` | the descriptor table of the process, shared by all threads |
| `ProtocolTypes`, `loadPackageFromBuffer` | none | parses a package from a buffer | |
| `main`, logger, configuration | none | the body of `main` is commented out | |

Hard here: three threads that share a map, flags and a descriptor table without
a lock; receive buffers that are never cleared, so a short receive leaves the
tail of an older message; every system call can fail, and most failures leave a
descriptor open; stopping while a thread retries, polls or broadcasts.
Right means: what goes out to the line or to a client is the beginning of one
message that came in, no longer than what was received of it, and goes where its
header says; a broadcast reaches each client once; no thread reads, writes or
closes a descriptor another has closed; callbacks return and `stop` stops.

### Controller board (`src/EC/App/BeerpongEmbeddedController`)

| Part | State | Operations | Interacts with |
|---|---|---|---|
| `sn74hc165`, `SensorController` | the pins; the bits in the registers | `SN74HC165_Init`, `SN74HC165_Read`, `read` | the cups, which move while bits are clocked out |
| `UnitController` | last readings (bytes and binary), the light buffer, the controller table | `run`: sample, update the lights, take input | calls all controllers; the serial line |
| `SystemController` | `m_ctrlState` | `read`, `write` | read on each update |
| `LightController` | `m_cupLights`, the pixels | test program, removed-cup sequence, `write`, `read` | the pixel strip |
| `EdgeLightController` | two RGB lights, PWM channels | `read`, `write` | the PWM driver |
| `BjDataPackage`, `UARTMessageController` | a package, the serial port | encode, decode, `dataAvailable`, `readBytes` | the gateway |

Hard here: the world moves while the board reads it; an update takes seconds and
works from one reading; the light buffer outlives an update and only some of its
entries are set in each; the number of bytes waiting passes through a `bool`.
Right means: a reading is a state the table really had; between updates the
lights show it; during one, other cups keep their light; lights catch up with the
cups; a request sets the state. Of the requests: what a light shows is what the
last update or request set, also when a request fails half way; no part of a
request and no mixture of two is ever shown; channels and record agree.

### FarsUnoTest (`src/EC/main/FarsUnoTest`)

| Part | State | Operations | Interacts with |
|---|---|---|---|
| `UnitController` | `m_tmpPkgBuffer`, the controller table | `run`, `checkInputData`, `sendPkgContentToController` | the serial line, which goes on while it delays |
| `LightController` | `m_cupLights`, the pixels | `handlePut`, `read` | the pixel strip |
| `BjDataPackage`, `UARTMessageController` | a package, the serial port | encode, decode, `dataAvailable`, `readByte` | whoever sends packages |

Hard here: nothing marks the end of a package but that no byte waits after a
delay; packages that follow closely are read as one; the serial buffer drops what
it has no room for, and the package buffer has no bound.
Right means: the lights are made by packages that were sent, each at most once, and
a package that begins on a quiet line is served.

### The rest of the repository

`src/EC/main` also holds sketches and host unit tests with a vendored googletest;
`AdafruitNeoPixel`, `AdafruitPwmServo` and `TimerOne` are third-party libraries;
`src/HMI` is empty; `src/GeneralDocs` is a drawing of the protocol. None of it is
modelled: the libraries appear as what they do (a pixel shows what was last sent to
it), and the calls of the unit tests are the environment of `RestDispatch`.

## Modules

| Module | What it models |
|---|---|
| `Descriptors` | the descriptor table: lowest free number first; closing a number that is not open changes nothing |
| `Protocol` | a package and the receive buffers, in three parts: start and header, address, payload and end |
| `NetworkServer` | `NetworkServer::open`, `close` and the listener thread |
| `UartServer` | `startServer`, `stopServer` and the UART thread |
| `MainController` | the gateway: extends the four above with `start`, `stop`, both callbacks and all they call; its properties |
| `MessageRelay` | what the gateway promises: it relays what single receives returned, makes nothing up and puts nothing together from two messages |
| `MCMainController` | the packages of the gateway's instances |
| `MainController_proofs`, `GatewayMessages_proofs` | theorems about the gateway |
| `SensorSnapshot` | what a read of the sensors promises: one state of the table |
| `ShiftRegister` | the driver and the chain it clocks |
| `ShiftRegister_proofs` | theorems about the driver |
| `UnitController` | the board: `setup`, `loop`, `run`, with the system controller and the cup lights |
| `UnitController_proofs` | theorems about the lights |
| `SensedBoard` | the composition: the board of `UnitController`, reading its sensors through `ShiftRegister` |
| `MCSensedBoard` | two registers of three bits under a board of two cups |
| `SensedBoard_proofs` | theorems about the composition |
| `BjDataPackage` | the package codec of both boards: layout, sizes, encode, decode |
| `RgbEntries` | a payload of entries: a light's id and its three colours |
| `LightPayload` | the loop over such entries that both `write` functions have |
| `LightController` | the cup lights: record, strip, `write` |
| `EdgeLightController` | the edge lights: record, PWM channels, `write` |
| `CupStrip` | what the cup lights promise: the strip changes by one whole payload or in an update: pixel by pixel round the rings of removed cups, then to one reading of all cups |
| `RestDispatch` | the board's controller table, requests, and `run` between them: extends the two controllers |
| `MCRestDispatch` | two cups of two pixels, two edge lights, two system controllers, three slots |
| `BjDataPackage_proofs`, `RestDispatch_proofs` | theorems about the codec and the dispatch |
| `FarsLightController` | what a package does to the lights of FarsUnoTest |
| `LightService` | what FarsUnoTest promises: lights made by packages that were sent |
| `UnoBoard` | FarsUnoTest: its loop, byte by byte, and the serial line |
| `MCUnoBoard` | four messages for two cups |
| `UnoBoard_proofs` | theorems about FarsUnoTest |

### From code to model: the gateway

Each thread has a program counter: `ctl` for the caller of `start` and `stop`,
`lpc` for the listener, `upc` for the UART thread. A step is one access to shared
state: the map, the descriptor table, a flag, the serial port. The two servers
define the steps of their threads up to the callback; while `lpc` or `upc` is in
the callback's values the steps are those of `MainController`.

- `nsRunning`, `usRunning` are the two `m_running` flags, `nsFd`, `usFd`, `ucFd`
  and `peerFd` the `m_fd` of the listening socket, of the two `UartClient`s and of
  the `NetworkClient` copy in use. A number stays in `m_fd` after a close, and a
  failed open leaves -1 or, when attributes cannot be set, an open port.
- `lErr` is the listener's `err`, which lives outside its loop. `accept` is called in
  one step and returns in another: a call that blocks keeps the listening socket
  alive after `close`, and one made on a number that `close` has given back, or
  that another thread has been handed since, fails at once (`LAcceptStale`).
- `NetworkClient::open` is two steps as well: the socket it creates is held over the
  `connect` that may wait, and closed when that fails.
- A buffer has three parts. A receive fills the first of them and leaves the rest;
  a write or a send puts on its way no more than the first parts that were received,
  and may put there fewer (`Beginnings`). What goes out beyond the buffer after a
  failed `recv`, with its size of 4294967295, is not modelled.
- `clientMap` is the set of keys of `m_clientMap`. `insert` takes two steps,
  `RegisterBegins` and `RegisterEnds`: a thread that reads the map in between may
  see any part of it (`Seen`), and an iterator alive when it ends may have any
  part before it. A crash of the process from the race is not modelled.
- `received`, `heard`, `wire`, `delivered` are histories of what went through, read
  by no action, each with the size that was returned or passed;
  `raced` and `notified` are the history of one broadcast.
- Definitions whose comment begins "A listener that would ...", "A write that would ..."
  and the like are faulty variants: no action uses them; they show that a property would
  notice the fault.

`start` and `stop` are taken once each, as the text in `main.cpp` does: a second
`start` would end the process (`NetworkServer.cpp:67-68`). That text also calls
`exit` after `stop` from a signal handler; the model is of the classes, and shows
what `stop` does when the process goes on.

### From code to model: the board

`ShiftRegister` has one action per edge that matters: load begins, load ends, read
QH, clock pulse, next byte, return. While the load pin is low the inputs run
through, as in the part. What shifts in at the far end is arbitrary.

`UnitController` takes a reading in one step, `Sample`. The driver takes a step for every
edge, and `SensedBoard` puts the two together: `ReadBegins` enters the driver with an array
of zeros, `ReadGoesOn` clocks the bits out while cups move and requests arrive, `ReadEnds`
compares what is in the buffer with the last readings, and `RestOfLoop` is the rest of
`run`, by `UnitController`'s own actions. That it implements `UnitController` is
`ImplementsBoard`: the reading happens when the load ends, so under the refinement `bpc`
and `shiftReg` are already what they become when the call returns. `bpc` is the place in
`run`: sample, update, the loop over the cups, the removed-cup sequence pixel by
pixel, the write, the input, the delay. `lightBuf` is `m_tmpLightCtrlBuffer` with
a colour per cup ("unset" for memory nothing has written), `old` and `new` the
two arrays of readings, `shown` the pixels. The four constructors' `addController`
calls are part of `Init`.

`RestDispatch` asks other questions of the same program, and takes what happens in
between apart differently. `Run` is the call of `run` as far as nothing is shown: the
readings, the comparison, and the decision whether the lights follow. An update is then
under way (`cupId`), and has a step for every strip that is shown: `SequencePixel`
for each pixel of a removed cup's ring, `UpdateEnds` for the `write` of all cups at its end.
Whether a cup's sequence runs is decided by `binaries`, the readings last shown, as in
the code. `UnitController` has the same steps, and besides them those that fill the
buffer; its `BufferFollowsReadings` is why `UpdateEnds` may say that the buffer holds the
colour of every reading.

A `write` asked for by a request is split into one step for each entry, because it can
fail at any of them: `writing` is who writes,
`entry` its `i`, `payload` the array in the package, with zeros past its end. An id
past the array that is used all the same ends in `lost`: what follows is
undefined, and the model stops. No call begins before the last has returned (`Free`).
Requests come the way `sendPkgContentToController`
sends them, with the size it passes (`PutLight`, `PutEdge`, `PutSystem`), and the way the
unit tests call the controllers, with the payload's own
(`WriteLights`, `WriteEdges`). A GET copies lights into the package, which nothing
sends: the only step of one is the read past the array (`GetEdgeStrays`). In the
program as it stands `checkInputData` never gets that far (run `unit_requests`);
`RestDispatch` is about what the controllers do once they are called. `touched`,
`missed` and `writer` are histories no action reads.

`CupStrip` is the same seen from the table: no loop, no record, no entry, no table of
controllers. There is a strip, a reading, and whether an update is under way. It allows
the blue of a ring only while the cup is away, one ring at a time, each from its first
pixel on, and no payload in between.

### From code to model: FarsUnoTest

`UnoBoard` has a step for each byte on the line and for each byte read. `rx` is the
serial port's buffer, which drops what it has no room for; `buf` is `m_tmpPkgBuffer` up
to `dataBytesRead`; `pc` says where `loop` is. One assumption is made about time: a
byte takes about 1 ms on the line and the delay after each read is 10 ms, so while a
message is on its way a delay does not end without a byte of it (`DelayEnds`).
Messages may follow each other at once, at any moment of the loop. `pad` is the zeros
a sender adds that goes by `getRawPayloadSize`, which still counts the checksum.
Dispatch and PUT are one step: nothing runs beside them but the line, and what the
line does commutes with them. `heads`, `fresh`, `batch` and `served` are histories:
which message began on a quiet line, which of these is at the head of `rx`, which at
the head of `buf`, and which were dispatched. Reading past `m_tmpPkgBuffer`, or setting
a light past `m_cupLights`, ends in `pc = "lost"`.

## Runs

Each run is one question. Deadlock is checked in `SensedBoard` and in `UnitController`.
In the gateway all threads may have ended, and accepts and reads are bounded;
`RestDispatch` and `UnoBoard` stop where an array was left. Their runs do not check it.

| Run | Checks | Bounds, and why they are enough |
|---|---|---|
| `gateway_requests` | types, descriptors, what is forwarded, a listener that ends has met nobody, deafness after a failed accept, the relay | one client, two accepts, two reads, three lengths of receive (none, header only, all) and failures; an answer and a notification with different addresses; four descriptors: every mixture of two messages in either buffer, and a table that is exhausted by what leaks or is held at once |
| `gateway_broadcast` | exactly-once; `stop` ends the UART thread; callbacks return | two clients, so one can be added under the iterator or before it; one whole notification; five descriptors; under fairness |
| `start_race`, `notify_aborts`, `failed_receive`, `short_request` | one claim of a comment each, violated | see Findings |
| `sensed_board` | types, bits in order, the snapshot, the lights show one moment, the board that reads in one step | two registers of three bits under two cups, one sensor covered, in four places, or none: one of them in the last place and one without a cup, a bit crosses from one register to the next, and cups move at every edge and during an update |
| `unit_lights` | types, buffer, lights match, no flicker, lights follow | three cups of two pixels, two registers of two bits, one request value: a reading comes from two bytes and one sensor has no cup, a cup's sequence can run while cups before and after it have changed, and a sequence has a first and a last pixel |
| `unit_requests` | a full request is served, violated | see Findings |
| `board_calls` | types, lights, channels, the strip | two cups of two pixels, so a sequence has a first and a last pixel and another cup to leave alone; two edge lights that share two of four channels; two system controllers for a table of three slots, which can also be full or lack one; payloads of one and two entries, with an id that is refused after one that is set, one past either array, sizes that are refused, and one that only the header makes whole; the two system controllers are alike, and no property distinguishes them: they are a symmetry of the model |
| `edge_channels` | the channels of an edge light are its own, violated | see Findings |
| `uno_frames` | types, heads are kept, the light service, quiet means served | three of four messages: one of 13 bytes, one of 21 with zeros at its end, one of 10, too short to be accepted, and one for a cup that is not there; a serial buffer of 50 and a package buffer of 36 bytes: three messages overrun the first during a pause, and a batch of two or three overruns the second |

`Cut`, `MaxAccepts` and `MaxReads` bound the environment of the gateway only:
which lengths calls return and how often they return data. `Readings` bounds the
sensor patterns of the board. `Payload` and `Message` bound what is sent to the
boards, `MaxMessages` how much. In `UnitController` the next request is sent when the
last has been read. The sizes 50 and 36 stand for 64 and 268: both leave room for
each message and not for all.

### Fairness

The gateway's `FairSpec` says that a thread that can take a step by itself takes
it: the UART thread (its reads do not block, the port is opened with `O_NDELAY`),
the listener's loop test, and the network callback. It does not say that a client
ever connects or sends, nor that anyone calls `stop`. It does take for granted
that `connect`, `send` and the port's calls return. The board's `FairSpec` says its
loop goes on: nothing in it waits. Neither cups nor requests are fair. That of
`UnoBoard` says the same of its loop, and that a message that has begun arrives to its
end; nobody has to send one.

## What is proved

`MainController_proofs` and `GatewayMessages_proofs`, for any clients, packages,
cuts and descriptor table:

- `TypeCorrect`. Inductive is `TypeInv`, the types with `InUsePeers`: what a
  callback adds to the map or sends to is a client, which no type says.
- `DescriptorsHeld`. The inductive invariant `HeldInv` is `HeldDescriptors` with
  `NothingListens`. It rests on
  `OpensFree` (an open hands out a number that was free) and `ClosesOnly`: a step
  of one thread closes only a number that the invariant says is not another's. The one
  stale use there is, `accept` on a number that `close` has given back, is part of
  the statement: nothing in the table listens by then, so the call takes no connection.
- `DeafForGood`, from `ErrKeepsOut`: with `err` set the listener never reaches
  `recv` or the callback.
- `PackagesForwarded`, from the invariant that ties a listener past `recv` to the
  receive it works on (`InForward`): the parts the buffer holds up to the size received
  are those of one client's message, whatever lies behind them.
- `EndedListenerMetNobody`, from `StillWaiting`: before `open` sets `m_running` the
  listener has done nothing but look at it. So finding 1 is the only way to lose the
  listener of a running server: once past its first look it ends after `close` only.
- `BroadcastOnce`, given `NoWalk`: a walk begins with nobody served. That `raced`
  covers every change of the map under the iterator is part of the proof.
- `GatewayIsRelay`: each step of the gateway is a step of `MessageRelay` or changes
  nothing there. `InForward` and `AnswerInv` are its invariants: a thread works on
  its buffer long after the step that received it, and what is behind the received parts
  came from some read before it, the address that an answer cut before its own is sent to
  included. `SameParts` and `BeginningsOfReceive` carry that to what is written. The mapping
  leaves out what a failed receive puts on the line, which no client sent (finding 3).

`ShiftRegister_proofs`, for any number of registers of any width:

- `DriverTypeCorrect`, with `InLoops`, where the two loops can be.
- `BitsKeepOrder`. The inductive invariant `DriverInv` adds that what was loaded is
  held while the load pin is high. Its core is arithmetic: after `reg` bytes and
  `bit` bits, place (r, b) of the chain holds the bit loaded that many places
  further out.
- `ReadsAreSnapshots`: each step of the driver is a step of `SensorSnapshot` or
  changes nothing there. `BitsInOrder` gives the return step: all bits are stored
  (`ReadIsWhole`).

`UnitController_proofs`, for any number of cups, lights and sensors:

- `BoardTypeCorrect`, `BufferIsFilled`, `LightsShowSample`, `LightsDoNotFlicker`. The
  inductive invariant `BoardInv` ties the stages together: `new` is the binary form
  of what was sampled, `old` what was shown before; the buffer agrees with `new`
  before `cupId` and with `old` from there; the pixels agree with the buffer as
  it was at the last write, but for the cup whose sequence is running.

- `NoRequestIsServed`: the state of the table stays automatic for ever. This is
  finding 4 for every table and every sequence of requests.

`SensedBoard_proofs`, for any chain, any readings and any number of cups on it:

- `DriverInBoard`: a step of the composition is a step of `ShiftRegister` or changes
  nothing there, so all that is proved of the driver holds in the board;
  `BitsKeepOrderInBoard` is one such result.
- `SensedImplementsBoard`: a step of the composition is a step of `UnitController` or
  changes nothing there. Its invariant `CallInv` relates the two program counters: the
  driver is at work only while `run` is at its reading. The end of the load is the
  `Sample` of the board above; `ReadIsWhole` makes the return of the call invisible.
- `ShowsOneMoment`: the theorem `LightsShowSample` about `UnitController`, taken through that
  refinement (`Proved`, an instance of the module of its proofs; `BoardAssumed` proves what
  that module assumes of its constants), with the fact that what was compared last is what
  was latched last.

`RestDispatch_proofs`, for any number of cups, edge lights, sensors and controllers and
any payloads:

- `DispatchTypeCorrect`. `RestTypeOK` is inductive; that no loop leaves its payload or
  its arrays rests on the bound of 63 entries a `uint8_t` size can count.
- `ChannelsAgree`. `ChannelsShowWriter` is inductive: a step that sets a light takes over
  all three channels that still carry it, whoever wrote them.
- `LightsFollow`, from `LightsInv`, which adds that before the first `run` every system
  controller is automatic, so that the first `run` updates the lights. An update sets
  every cup: what requests set before it, and readings it missed, do not matter to it.
- `StripChangesWhole`: the dispatch implements `CupStrip`. The invariant `StripInv` says of
  a write under way that the record is the strip with the entries so far applied
  (`Underway`), though the strip shows none of them, and of an update under way that the
  ring of the cup it is at is blue up to `led` and every other cup has one colour (`Drawn`).
  The step that sends the record is then `Put` or `Follow`, the step of a sequence is
  `RemovePixel`, and every other step leaves the strip alone.
- `PutsTakenUp`: a `PUT` to either light controller is taken up only if its payload is one
  byte short of whole entries, by arithmetic modulo 4 and 256, because
  `sendPkgContentToController` passes the size of the whole package for that of the payload
  (`UnitController.cpp:164`), 13 too many. So a PUT of entries in the documented format
  (`EdgeLightController.cpp:124`) would be refused, whatever it carries; in the program
  as it stands no PUT gets that far (finding 4).

`BjDataPackage_proofs`, for any size of the checksum:

- `DecodeEncode`: decoding a buffer that begins with an encoded package gives the
  package, whatever follows it. `Layout` says where `Encode` puts each field.
- `OnePackageBegins`: a buffer begins with at most one package, though nothing looks for
  its end. `RawSizeCountsChecksum`: by how much the size a package gives is wrong.

`UnoBoard_proofs`, for any messages that fit in the serial buffer, any sizes of the
buffers and any number of messages:

- `UnoTypeCorrect` and `BoardIsLightService`, from the inductive invariant `UnoInv`. It
  says that a batch begins with the message named by `batch`, as far as that has been
  read, and what is still to come of it is in `rx` or on the line, with nothing dropped
  before it (`FreshInv`, `BatchInv`); so a batch ends only when the message
  is whole (`DispatchInv`), and `DecodeEncode` says what is made of it. It needs the
  timing assumption, in `DelayEnds`, and that a message fits in the buffer.
- `HeadsStay`, from `HeadsInv`: a message that began on a quiet line and is long enough
  is at the head of what waits or of what was read until it is served. It is what
  `QuietMeansServed` says short of "in the end": the board can be late, it cannot lose one.

The constants carry only the assumptions named in their modules
(`FdAssumption`, `GarbageAssumption`, `CutAssumption`, `NetworkAssumption`,
`UartAssumption`, `ShiftRegisterAssumption`, `BoardAssumption`, `SensedAssumption`, `CrcAssumption`,
`CupAssumption`, `EdgeAssumption`, `DispatchAssumption`, `FarsLightAssumption`,
`UnoAssumption`), and TLC evaluates them.

Only model-checked: the four liveness properties, `StopEndsUartThread`, `CallbacksReturn`,
`LightsFollowCups` and `QuietMeansServed`, because the prover does not reason about fairness
(of the last, `HeadsStay` proves the safety half); and the six claims the code does not
keep, for which a run shows a counterexample. All other properties of the runs are theorems.

## Findings

1. `start_race`: `NetworkServer::open` starts its thread before it sets `m_running`.
   The thread may look first, and end; the gateway then reports that it runs
   ("Indicates if a server is running", `NetworkServer.h:42`) and accepts nobody.
2. `notify_aborts`: `notifyAllClients` returns at the first client that fails
   ("Notify all client", `MainController.h:62`).
3. `failed_receive`: a failed `recv` is compared with 0 as an unsigned number, and
   the old contents of the buffer are forwarded with size 4294967295
   (`NetworkServer.cpp:140-142`).
4. `unit_requests`: the number of bytes waiting passes through a `bool`, each run
   reads one byte, and no request is ever dispatched (`UARTMessageController.cpp:24`,
   `UnitController.cpp:199`).
5. `short_request`: a comment says "Check length of the package" (`MainController.cpp:151`),
   but the check below it looks for the two framing bytes only. When the buffer still has
   the end of an older package, the header of a package alone passes and is forwarded alone.
6. `edge_channels`: "Each ID includes 4 PWM channels" (`EdgeLightController.cpp:125`), but
   `setPwm` writes three, from the channel whose number is the id: neighbours share two
   (`EdgeLightController.cpp:266`). `ChannelsShowWriter` is what holds all the same.

## Plan

Done: the gateway with its abstract relay, the sensor driver with its snapshot,
the board's loop, its composition with the driver, its dispatch and light controllers with
the strip they promise, the codec, and FarsUnoTest with its light service.

Left: the board's dispatch and its loop take `run` apart in different ways, and that they
agree is argued under "From code to model" and not stated as a refinement.

## Not modelled

- A composition of gateway and board over one line. Each has a package format that
  the other does not parse (`ProtocolTypes.h:24` against `BjDataPackageDefines.h:63`), and the
  board serves no request (finding 4), so it would say nothing that the parts do not.
- The logger (output only); the gateway's `main` (commented out); termios settings
  (succeed or fail); the timer interrupt (commented out in `setup`; in FarsUnoTest it
  blinks a LED nothing reads).
- Timing beyond order, but for the one assumption of `UnoBoard`; the death of the process by
  `SIGPIPE` or a data race in the map; bytes the board's serial port loses while the
  pixel driver keeps interrupts off.
- Functions nothing calls: `loadBufferFromPackage`, `returnPingRequest`, the answer to a
  GET. The checksum, which no version computes.
- FarsUnoTest's packages longer than the serial buffer: read every 10 ms, they lose bytes
  in their middle, and what is dispatched then is not a package anyone sent.
- The vendored code (googletest, googlemock, `Adafruit_NeoPixel`, the PWM driver,
  `TimerOne`) is about nine tenths of the lines of the repository. It is no part of
  what this program promises, so the modules cover a small share of all lines and most of
  those that are the project's own.
