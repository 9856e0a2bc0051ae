# A verification of espAim in TLA+

espAim points two servos at an aeroplane. An ESP32 polls a flight-tracking web
service, dead-reckons the plane's position between two polls, turns the
position into a pan and a tilt angle, and moves the servos there; a small web
page shows what it does and lets the user choose the plane. These modules model
that program, from the sketch down to the TCP, web-server and HTTP libraries it
carries with it, and say what is checked (by TLC, on small instances) and what
is proved (by TLAPS, for every value of the constants).

Paths below are relative to the repository; `PROJECT.json` gives the lines
behind every definition.

## 1. Inventory

| Part | State | Operations | Modelled in |
|---|---|---|---|
| Servo, `trackingMotors.cpp` | `Location`, `NewLocation`, `servoTime` | `init`, `update`; the target is stored by the sketch | `TrackingMotors`, `PacedMotor` |
| Plane object, `planeInformation.cpp` | `identifier`, the fields of the last report, `planeupdatedLat/Lon`, `updateTime`; epochs | `update` (poll, parse, read, or interpolate), `planeInterpolation`, `getTime` | `PlaneInformation`, `DeadReckoning` |
| Aiming, `setDirectionAltitude` in `espAim.ino` | the two targets, `objectFront` | one call per `plane.update()` that has a position | `Aiming` |
| Sketch, `setup` and `loop` | all of the above | `loop`: plane, tilt, pan, serial port | `EspAim`, `PacedEspAim` |
| Web page handlers, `espAim.ino:41-333` | none of their own; write `plane.identifier` | GET `/`, `/update`, `/read...`, the page's template | `WebServer`; the race with `update()` in `PlaneInformation` |
| AsyncTCP, events | `_async_queue`, `AsyncClient` objects | lwIP callbacks, the task `async_tcp`, `_close`, `CLEAR` | `AsyncTcp`, `EventDelivery` |
| AsyncTCP, closed slots | `_closed_slots`, `_closed_index`, lwIP's pcbs | API calls, `_lwip_fin`, `_allocate_closed_slot`, `_free_closed_slot` | `ClosedSlots` |
| AsyncTCP, server and outgoing clients | `_pcb`, the listening pcb; `_connect_port`, DNS requests | `begin`, `end`, `_s_accept`; `connect`, `close`, `_connected`, `_dns_found` | `AsyncServer`, `OutgoingClient`, `TcpClients` |
| ESPAsyncWebServer, requests | the parser's state, parameters, headers, handlers, rewrites | `_onData` and the parsers below it, choice of the handler, `send` | `WebRequest`, `WebHandlers`, `RequestData` |
| ESPAsyncWebServer, responses | head, windows, `_sentLength`, `_ackedLength`, cache of the template | `_respond`, `_ack`, `_fillBuffer...` | `WebResponse` |
| Authentication | none | `checkBasicAuthentication`, `checkDigestAuthentication` | `RequestData` |
| SPIFFS editor | files, exclude list, `_authenticated` | list, show, create, delete, upload | `FileEditor` |
| JSON handler | `_contentLength`, the body of the request | `handleBody`, `handleRequest` | `WebHandlers` |
| WebSocket | clients, queues of messages and control frames, shared buffers | handshake, frames both ways, acknowledgements, broadcasts, cleaning up | `WebSocket`, `SocketServer` |
| EventSource | clients, queues of events | `send`, acknowledgements, polls | `EventSource` |
| HTTPClient | the connection, headers, the reply's state, cookies | `begin`, `end`, requests, redirects, bodies | `HttpClient` |
| WiFiManager | `header`, the pins | `update` | `WiFiManager` |
| `DisplayTest`, `Sweep`, `compiled` | | | not modelled: other sketches, generated |

**How they interact.** Three threads of control meet. The *loop task* runs
`plane.update()`, `trackingAltitude.update()`, `trackingDirection.update()` and
reads the serial port, for ever; `plane.update()` calls `setDirectionAltitude()`,
which stores the targets of both servos, and may block in an HTTP request. The
*lwIP thread* calls AsyncTCP back for every connection of the web server and
puts an event into a queue of 32. The task *async_tcp* takes the events out,
runs the web server's handlers, deletes clients, and calls back into the lwIP
thread with `tcpip_api_call`. The loop task and `async_tcp` share the object
`plane`, unprotected, and would share a WebSocket or an event source; lwIP and
`async_tcp` share the queue, the clients and the closed slots.

**What is hard here.** Comparisons with `millis()`, which wraps; integer
division and `map()`; the two mirror-image branches of the aiming; the String
`identifier` assigned from one task while another reads it eight times in a
poll; polls that block, fail and are retried at once; two clocks, ours by SNTP
and the service's; in AsyncTCP a queue that is rotated while another thread
appends to it, addresses, pcbs and slots that are used again, and two threads
that may wait for each other; in the web server requests cut up anywhere,
answers through a window that opens in any portions, and state that belongs to
a handler and not to a request; acknowledgements credited by their lengths
alone; in HTTPClient a connection kept for the next request with whatever is
still under way on it. `PROJECT.json` lists each hazard at its line with the
properties that watch it.

**What makes each part correct.** A servo goes toward its target and not past
it, and gets there in the end. The tracker aims at one plane, the one asked
for, never at the made-up default position or a mixture. The targets point at
the plane to within what whole degrees allow. Dead reckoning uses the age of
the report and never moves the plane back. The events of a TCP client are
handled in order, once, and never for a deleted client; every client is deleted
at last; a call reaches the connection it is meant for. A request is understood
in the same way however it is cut up and answered once; an answer arrives whole
and ends. What is pushed arrives whole and in order, and leaves the queue when
it has been acknowledged. A reply belongs to its request.

## 2. Modules

### The tracker

`Arduino` holds the arithmetic: `Quot` truncates toward zero as C does,
`LinearMap` is `map()`, `Deadline`/`NotYet` are the comparison `millis() <
start + period` in an unsigned long (`start` and `period` are ints: the sum is
signed, and its overflow is taken as the wrap that the compiled 32-bit addition
makes, which the comparison then reads as unsigned).

`TrackingMotors` is one servo. `Update` has the three ways through `update()`:
`TooSoon`, `OnTarget`, `Step`. The two `if`s of lines 78-83 are one assignment
in `Step`: after the first the second cannot hold, for the quotient is smaller
than the difference; the property `NoOvershoot` says so of the outcome.
`sinceStep`, a history variable, is the true time since the last step.
`PacedMotor` adds the pace of `loop()`, which convergence needs.

`PlaneInformation` is `update()` cut where it blocks and wherever it reads
`identifier`: `Interpolate`, `StartPoll`, `PollReturns`, `BuildFilter`
(line 62), `Parse`, `ReadField` (lines 78-83, one read each), `ReadLastField`
(line 84 to the end), `PollFails`. The web handler's assignment is
`WebRenameBegin`/`WebRenameEnd`, and a read between them returns anything; the
serial port's is `SerialRename`. A value is represented by its *owner*: the
plane it was reported for, `Zero` for the 0 of a missing key, `Default` for
the constants of `init()`. A computed position holds the owners of all it was
computed from.

`DeadReckoning` is `planeInterpolation()` as to time: true time, the wall clock,
the time SNTP answers, `currentEpoch`, `prevEpoch`, `prevUpdate`, `updateEpoch`,
and the time they extrapolate by. `trueAge` is history: how old the report
really was. Before SNTP has answered, `getLocalTime()` waits (`NtpWait`) and the
epoch stays zero; once it has, the clock is right, and that SNTP sets it again
later is left out. So is the spherical trigonometry, heading included.

`Aiming` is `setDirectionAltitude()`, with angles in parts of a degree, since
the floats are truncated by `map()`'s long parameters. The trigonometry that
makes the angles is left out. Where a pair of pulses *points* is defined from
the geometry of the mount, and not from the code.

`EspAim` composes the sketch: two instances of `TrackingMotors`, one of
`Aiming` for the targets and one for where the servos are. `plane.update()` is
reduced to what it does to the rest: it aims (`PlaneAims`), or blocks
(`PlanePolls`) and then aims or fails (`PollFails`). `PacedEspAim` adds the
pace under which the servos come to rest.

### AsyncTCP

`AsyncTcp` is the event queue with both threads that use it, and the life of an
accepted `AsyncClient`. The lwIP thread: `Accept`, `Raise`, `Fin` (which closes
the pcb at once), `Err`, and `Resume` when a callback waited for room. The
task: `Get`, the handlers, and each call on the queue that
`_remove_events_with_arg()` makes as a step of its own (`TakeFirst`,
`FirstBack`, `Peek`, `DropRest`, ...), since lwIP may append between any two.
A client is deleted through the callback the web server installed at ACCEPT.
`EventDelivery` is the abstract specification: per connection a queue, each
event delivered once and in order, or thrown away after deletion. Of
`AsyncTcp`, what is simplified:

- RECV stands for SENT too: both run code of the request that may call lwIP.
- CONNECTED and DNS events belong to outgoing connections (`OutgoingClient`).
- After FIN lwIP may still raise events with a NULL argument; they are ignored
  by line 155 and only take room in the queue, and are left out.
- The check of `_pcb` and the calls of `_close()` are one step (`Detach`).
  `ClosedSlots` takes apart what another thread can come between: taking the
  callbacks off, reading `_pcb`, reading the slot, the call to lwIP, deletion.
- Pcbs and closed slots have no identity here: a failed client's dangling
  `_pcb` is the link `"failed"`, and a call with it is assumed harmless.
- A handler called for a deleted client is recorded (`stale`) and then has no
  effect; so is the rest of a data handler that has closed its own client.

`ClosedSlots` gives the pcbs a place in lwIP's memory, which is used again, and
the clients their slots. A call of the task is cut where another thread can
come between: it reads `_pcb` (`Call`), then the slot (`ReadSlot`), and lwIP
makes it (`Api`) unless the slot is marked. `_close()` first finds a `_pcb` and
takes the callbacks off it, which is one step (`CallClose`), and reads `_pcb`
again for the call (`ReadPcb`); the web server then deletes the client
(`Discard`). `_lwip_fin()` is `FinCloses`, `FinFrees`, `FinForgets`. `_error()`
is `Reset` in the lwIP thread and `HandleError` in the task, which writes to a
pcb that may be somebody else's by then (`Unhook`).

`_allocate_closed_slot()` holds a lock and runs on the lwIP thread alone, so it
is a part of `Accept`. `_free_closed_slot()` holds none and runs on either
thread, so it is cut store by store (`freeing`): it reads the index (`Frees`),
marks the slot (`StoresMark`), which may be handed out from then on, has the
client forget it (`Clears`), and stores the index plus one (`Counts`); the other
thread may do the same in between, and an increment be lost. `turns` and `raced`
are history: the slots that were free before the slot of the call in progress
was, and whether both threads have ever been freeing at once.

`AsyncServer` adds `begin()` and `end()`: `BeginCall` with each call to lwIP
that may fail, `SetArg`, `SetCallback`, `UnsetCallback`, `Close`; `setup` is
`"lost"` after undefined behaviour. `OutgoingClient` is a client that the
application connects by address or by name, closes, and connects again as soon
as it has been told that the connection is gone; it has its own small event
queue, since it is about events matched by the client's address. The
application is taken to be disciplined: it connects when it has been told it is
off, closes when on, and keeps the object. `TcpClients` puts the two side by
side; they share nothing but lwIP's memory, and a behaviour plays one of them.

### The web server

`ClientStream` is a connection as the web server sees it: what lwIP has
accepted (`wire`), how much is unacknowledged, acknowledgements that wait in
the event queue, and calls that fail for want of memory. The bytes of heads,
bodies, events and frames are numbered, so that what is on the wire can be
compared with what was meant.

`WebResponse` is `AsyncBasicResponse` and `AsyncAbstractResponse` with all its
sources (file, program memory, stream, callback, JSON, response stream), with a
length, without and in chunks; `_fillBufferAndProcessTemplates()` with its cache
is a recursive function in it. `RequestData` holds URL decoding,
parameters, headers and credentials (MD5 is a constructor: equal exactly for
equal arguments); `FileEditor` and `WebHandlers` (with the JSON
handler) say which handler takes a request and what it does. `WebRequest` is the request: a
segment of any length is taken apart (`ParseLine`, `ParseByte`, `TakeBody` for
`_onData()` and the parsers under it), and the handler's calls that the parser
has come to are made (`CallHandler`, `Answer`); `OnAck`, `OnPoll` and
`LwipAcks` drive the response. A line of the head is two symbols and an end of
line; a path is a sequence of separators and names. `WebServer` adds the pages
of the tracker, `setup()`'s handlers, and the properties.

### What the server pushes

`WebSocket` is one `AsyncWebSocketClient` with its connection: `QueueMessage`,
`QueueControl`, `RunQueue`, `SocketAck`, `SocketData` (frames of the peer in
segments), closing from both sides. What the peer sends is any sequence of
symbols, one for a header and one for a byte, of which `PeerAssumption` says that
frame follows frame, with the length and kind that the header has told. A
segment may end behind any symbol; it never cuts a header, since the code would
then read behind the segment. `handed` is what the application gets as
WS_EVT_DATA: the pieces of data frames, and of control frames those before the
last.
`SocketServer` is the `AsyncWebSocket` with all its clients and shared buffers,
called by the loop task and by callbacks: `textAll()` is cut into making,
locking, a turn for each client that counts a message and then queues it
(`MakeMessage`, `TextQueues`, `TextPasses`), unlocking and cleaning, and
`AsyncWebLock` guards what it does in the code. The counter of a buffer is
unguarded there, so it is read in one step and written in another (`CountReads`,
`CountWrites`) by either task; `miscounted` is history, the buffers that both
were counting at once. `EventSource` is one `AsyncEventSourceClient`. `PushServer` composes the
three; a behaviour plays one of them, since a connection is taken by one
handler, and `SocketServer` looks at the clients from further off.

### What blocks the loop task

`HttpClient` is `HTTPClient`: `begin()` in its four forms, `Ask` (the headers
and options the caller sets), `Send`, the loop of `sendRequest()` that reads a
stream (`Buffer`, `StreamWrites`, `StreamFails`, `StreamEnds`), `AwaitHead`, the
lines of the head with a timeout after each, redirects, cookies,
`WriteToStream` with bodies by length, chunked or up to the end of the
connection, `getString()`, the Stream that is handed out, `end()`. A cookie
belongs to a domain, the one the reply names or the last two labels of its host
(`LastTwo`), and goes to every host in whose name the domain occurs (`Parts`).
The server is the environment: it answers with any of the replies of a plan, in
pieces, late, falls silent or closes. `served` is history: each
request as it was sent, with the reply to it and how much of it was read; and
`stale` holds what was under way when a later request went out on the same
connection. `WiFiManager` is `update()` byte by byte. `LoopClients` puts the
two side by side.

## 3. Runs

| Run | Module, cfg | Instance | Shows |
|---|---|---|---|
| `motor` | `PacedMotor`, `TrackingMotors.cfg` | pulses 0..40, clock of 12 values, step of 5, divisor 5, targets 0, 17, 40 | no overshoot, what freezes a servo, convergence: `HeldBackOnlyByWrap`, `NoOvershoot`, `Converges` |
| `plane` | `MCPlaneInformation`, `PlaneInformation.cfg` | two planes, four fields, clock of 3, one rename; or seconds of 3 ticks, 5 of them, stamps up to 2 s old or 1 s ahead | no mixture of planes, failure handling, the switch takes effect, the age of an extrapolation and its monotony: `NoMixedPlanes`, `NoAimWhileFailing`, `SwitchTakesEffect`, `ExtrapolationLags`, `NeverBackward` |
| `aiming` | `MCAiming`, `Aiming.cfg` | the real pulses and degrees; tenths of a degree round the meridian | both branches describe one mount; jumps: `AimsAtPlane`, `SwingsOnlyAtMeridian` |
| `espaim` | `MCEspAim`, `EspAim.cfg` | 24 pulses, half a turn of 12 degrees, clock of 3 | at rest the servos point at the plane, and they come to rest: `RestingServosPointAtPlane`, `ServosComeToRest` |
| `tcp_one` | `MCAsyncTcp`, `AsyncTcpOne.cfg` | one connection, queue of 2 | refinement of `EventDelivery`: `DeliveredInOrder` |
| `tcp` | `MCAsyncTcp`, `AsyncTcp.cfg` | two connections, two addresses, room for all events | what survives the rotation, and liveness: `StaleOnlyWhenOvertaken`, `EachHandledOnce`, `DeletedIsUnreachable`, `RotationEnds`, `ClientsFreed` |
| `tcp_order` | `MCAsyncTcp`, `AsyncTcpOrder.cfg` | same | *violated*: the order is not kept: `OrderKept` |
| `slots` | `MCClosedSlots`, `ClosedSlots.cfg` | four clients, two places for pcbs, two slots; five calls of `begin`/`end` with two failures; three connections going out | who holds a slot, whom a call reaches, whether the server listens, whether a client knows what is so: `SlotsHeldOnce`, `CallsReachTheirPcb`, `ListensAsTold`, `KnowsWhatIsSo` |
| `web` | `MCWebServer`, `WebServer.cfg` | 31 requests for all paths of the parser, 2 connections, send buffer of 11, head of 3 | requests understood and answered once, answers whole and ended: `ResponseIntact`, `AnsweredOnce`, `RequestDecoded`, `CutOnlyWithHeldHead`, `ChangedAsAsked`, `ResponseEnds` |
| `push` | `MCPushServer`, `PushServer.cfg` | send buffer of 11, queues of 3 and 2, eight scenarios of a connection; two clients of a socket with queues of 1 | order, credit of acknowledgements, broadcasts, buffers, draining: `EventsIntact`, `BuffersHeld`, `HandedInOrder`, `MessagesAcknowledged`, `BroadcastsReach`, `Drains` |
| `push_cleanup` | `MCPushServer`, `PushServerCleanup.cfg` | two clients where one is allowed | *violated*: cleaning up does not limit the clients: `LimitsClients` |
| `http` | `MCHttpClient`, `HttpClient.cfg` | fifteen plans of up to four requests, HEAD and streams among them, three hosts that share domains, two ports; three series of visitors | replies and requests kept apart, calls end, pins: `RepliesKeptApart`, `RequestsAsAsked`, `CallsEnd`, `PinsAsAsked` |

**The bounds, and why they are enough.** The clock widths (`Width` 12 and 3)
are a little more than the periods compared with them, so that every run wraps
many times and every relation of clock, deadline and wrap occurs; the true
constants change only how long one waits for it. In `motor` the pulses 0..40
with divisor 5 have steps of every quotient from 0 to 8 in either direction.
In `plane` the four fields are the three that `setDirectionAltitude()` is given
and the speed, which decides what dead reckoning depends on; the others behave
as the speed does when it is not zero. One rename at any point of `update()` is
enough for a switch in mid-poll; the proofs cover any number. `aiming` needs no
scaling down. `espaim` scales the mount so that a pulse is half a degree and
has a plane to the left, one to the right, and one next to the meridian.
Dead reckoning, which `plane` plays in behaviours of its own
(`played`), is given reports of every age that a second boundary can split in three
ways. `tcp` has a connection to be closed and one to suffer from it,
with addresses that are used again; its queue has room for all events, so that
what is found is not due to a full one; `tcp_one` looks at the full queue.

In `slots` two places for four connections have every pcb used again, by a
client with or without a slot; `Scripts` bounds the calls of the server's owner
and how many calls to lwIP fail, `Errands` those of an outgoing client (each
way of connecting after each way of losing the connection). In `web` the send
buffer of 11 bytes is larger than the 8 that a chunk's frame costs, and smaller
than most answers, so that windows of every size down to none occur; `Sent`
bounds an acknowledgement that is taken to one byte or all that wait, segments
are of any length that matters to the parser, one call fails per connection
(`Faults`), and the second connection is there to meet what the first has left
in the handlers. In `push` an event takes three or six of the eleven bytes, so
that a long one has to wait behind a short one and is overtaken by the next, and
the four bytes of the head are more than the shorter event, which can be taken
for acknowledged by what was late of the head; a scenario (`Scenarios`) says how many frames, messages, control frames and
events there are and whether a call fails; a control frame goes out a second
time once; `Waiting`, `Calls` and `Ids` bound the control frames, calls and
clients of a socket, and one client over `MaxClients` is enough for the oldest
to have to go; the calls are few, since a task's steps on a counter are apart.
In `http` `Plans` are the exchanges that differ: each framing
after each, each kind of redirect, each age of a cookie, each `begin()`, a HEAD
request, a stream that gives less or more than its size or has none and one that
never tells its end, with at most one fault at any point; one has a host that is
named over a connection to another and a place told before that serves a later
redirect, and in two a cookie of one host replaces and reaches another's: the
hosts are two of one domain and a third whose name contains that domain within a
label. `Visits` are the visitors. `CHECK_DEADLOCK FALSE` is
set where the modelled system stops: in `tcp_one`, where a full queue stops it,
and in `slots`, `web`, `push` and `http`, where connections, calls and requests
run out.

**Fairness.** `PacedSpec` (motor, sketch): `loop()` is called for ever by the
Arduino core and the clock does not stop. The pace, one update at least per
tick, is an assumption about load, and it is needed: with two ticks between
updates a servo whose deadline has been overtaken by a wrap can miss, at every
turn of the clock, the one tick in which the guard lets it through. On the
device a tick of the model is a few milliseconds of the 49 days before the
wrap. In `PlaneInformation!Fairness` update() and the clock go on, and strong
fairness of `PollReturns` and `Parse` says that a service asked over and over
answers with something that parses over and over; polls may fail any number of
times in between. In `AsyncTcp!FairSpec` FreeRTOS runs a task that can go on,
and a callback that waits for room is resumed; nothing is assumed of the
connections, but those that have ended. In `WebServer` and `PushServer!Spec` the
tasks of AsyncTCP and lwIP run, lwIP polls twice a second, and a peer that
stays connected acknowledges what it is sent: TCP ends the connection
otherwise. The strong fairness of `Progress` in `WebServer` is for sources that
have nothing at times: an ack or a poll that could make progress again and
again, makes it. Of
`SocketServer` no property of `push` needs fairness; `push_cleanup` has its own
(`CleanupSpec`): both tasks run and get the semaphore they wait for, an
application that has nothing else to do goes on calling `cleanupClients()`, and a
peer acknowledges the frames it is sent; nothing makes it answer a close frame,
for `cleanupClients()` is there for those that do not. In `HttpClient` the client's
loops go on, also the one over a stream, its timeouts pass and what was sent
arrives; nothing is assumed of the server or of a stream.

**Exceptions in the properties.** Where the code does not keep a promise in
full, the property names the cases: `EachHandledOnce` events thrown away for a
namesake or an overtaken ACCEPT, `SlotsHeldOnce` a client in the middle of giving
its slot back (`Returning`), `CallsReachTheirPcb` its four, of which the last
comes at once after the two threads have been freeing slots together (`raced`),
`KnowsWhatIsSo` four (`astray`), `ListensAsTold` failures and a connection in the middle of
`end()`, `ResponseIntact` a body without a length in a first window the size of
the head, `MessagesAcknowledged` and `Drains` the wrongly credited
acknowledgements (`stray`), `EventsIntact` overtaken events and those no longer than
what was acknowledged late of the head (`ahead`), `BuffersHeld` a
buffer that was found deletable before it was locked (`early`) and one whose
counter both tasks were changing at once (`miscounted`), `HandedInOrder` the last
piece of a control frame, `CallsEnd` the body of a server that falls silent
and a stream that gives too little without telling its end, `RepliesKeptApart`
and `RequestsAsAsked` what the next section tells. Each of these is needed:
without it TLC finds a counterexample.

## 4. What the models showed

A run that is expected to fail shows a disagreement with the code's own words.
There are two:

- `tcp_order`. `AsyncTCP.cpp:140`: the rotation that removes a client's
  events means to keep the order of the others (comment at line 125) and does
  not, if lwIP appends an event while it runs.
- `push_cleanup`. `AsyncWebSocket.cpp:922-927`: `cleanupClients()` is documented to
  limit the number of clients, because browsers sometimes do not close correctly
  (the library's `README.md:1133`). It queues a close frame, and the client stays
  and counts until its peer answers or the connection ends; as long as neither
  happens, it asks that client and no other.

The rest was met while the properties above were being found, and shows in
their exceptions or bounds.

*The tracker.*
- `planeInformation.cpp:121`: with `updateEpoch` ahead of `currentEpoch` the
  unsigned difference is near 2^32 seconds, and the plane is thrown far along
  its track until the clock catches up. The same holds before SNTP has
  answered. Otherwise the extrapolation is right to within a second.
- `planeInformation.cpp:133`: `planeTrack`, 71 and 4068 are ints. The plane is
  extrapolated along its track rounded down to whole radians.
- A plane a degree or more below the horizon drives the tilt servo beyond its
  range, by as much as `map()` says; both servos swing across when a plane
  passes the meridian; a servo rests up to four pulses from its target; a servo
  or the polling may freeze when the clock wraps, and nothing else freezes them.
- However the identifier is written during a poll, the tracker aims at one
  plane, at zero, or at one plane with zeros, never at two.

*AsyncTCP.*
- With a full queue the task that alone empties it waits for room, or for an
  lwIP thread that waits for room (lines 106-112).
- Events thrown away take their pbufs with them (lines 134, 145).
- The slots start with marks equal to the first index, so that the slot freed
  first may be handed out again at once; later a slot protects a call until all
  those free before it have been given out. It does no longer once both threads
  have been in `_free_closed_slot()` at the same time (lines 836-842): an
  increment of `_closed_index` may be lost, marks be equal or out of order, and
  the slot freed last go out first; and a slot may be another client's before
  the one that frees it has forgotten it. ERROR frees the pcb and marks no
  slot; a client whose slot is read after FIN has taken it is not protected.
- A failed bind or listen in `begin()` leaves `_pcb` dangling: the next
  `begin()` returns at once and `end()` works on a pcb of somebody else; a
  failed listen leaks the bound pcb. A connection between the first two calls
  of `end()` calls `_accept()` on NULL.
- The result of `tcp_connect()` is not looked at; `_connect_port` is stored
  after the DNS may have answered; a FIN before CONNECTED is handled leaves a
  client with a pcb and an application that was told it is gone; a CLEAR left
  by a close may remove the events of the next connection of that client.

*The web server.*
- The body of a response without a length is lost if the first window is the
  size of the head (`WebResponses.cpp:231-284`); a head that was kept back is not
  counted in the next window, which then is cut short.
- A template that ends in a placeholder whose value exceeds the window loses
  bytes (`WebResponses.cpp:446-460`), and `%%` across two windows begins a new
  placeholder. The page of the sketch does neither.
- Each segment of a body, and each piece of a file, that lacks credentials is
  answered by a 401 of its own. A multipart body with anything behind its
  closing line is never answered.
- The JSON handler's `_contentLength` is of the request before, or not set at
  all, when a request has no body; a body as long as allowed is refused as
  malformed.
- The editor answers 200 to an upload that did not fit; the last pattern of
  its exclude list loses its last character if no newline follows.

*Pushing.*
- A control frame that has been sent but not acknowledged is still in front of
  its queue and is sent again; its acknowledgement, and those of the head of the
  response in portions, are credited to messages. A shorter event overtakes a
  longer one, and the acknowledgement of the one is taken for the other.
- `close(id)` leaves a client counted as connected until its peer has closed;
  the control queue has no limit.
- A buffer may be deleted between `makeBuffer()` and `textAll()`'s lock; and a
  buffer that is still queued may be deleted, or one that is not be kept for
  ever, after the two tasks have changed its counter at once
  (`AsyncWebSocket.h:97-98`) and an update was lost.
- `AsyncWebSocket.h:55-57` says that the application only sees text and binary,
  and all else is handled by the library. Of a ping, pong or close frame that a
  segment has cut, `_onData()` hands all pieces but the last to the application as
  data (`AsyncWebSocket.cpp:648-657`); a ping is answered with its last piece alone.
- Lists are changed while they are iterated over (`AsyncWebSocket.cpp:1226`,
  `AsyncEventSource.cpp:290`, `_removeNotInterestingHeaders`); `messageAll()` gives one
  message to several queues, which delete it each; `avgPacketsWaiting()` divides
  by zero without clients. These are undefined and not modelled.

*HTTPClient and WiFiManager.*
- `getString()` ignores errors (line 976), so a reply cut off is returned as if
  whole, and the caller cannot tell; a body has no timeout, and neither has the
  loop over a stream (line 749): one that has no size, or less than its size, and
  does not tell its end holds the task as long as the server stays connected;
  the last CRLF of a chunked body stays unread, and if it arrives after the next request has begun, that request fails with
  `NO_HTTP_SERVER`; what was not read of a redirect's body, or of one that the
  caller did not ask for, is read as the next head, and the calls after it may be
  answered with earlier replies.
- A cookie is kept for the last two labels of its host's name if the reply names
  no domain (lines 1617-1623), so that hosts of one domain replace and erase each
  other's, and is given to every host in whose name the domain occurs (line
  1684), be it in the middle or within a label.
- A kept connection is used for any port of its host, and for any host after
  `begin(host, port, uri)`; `begin(client, url)` and a redirect to a URL keep
  the headers of the request before, also a `Content-Length` when the payload has
  been dropped, and a `Cookie` for another host; `_location` is never cleared, so
  that a reply that redirects nowhere is followed to where an earlier one led; a
  request from a stream does not wipe the headers collected before; a session cookie that is
  set again is deleted.
- WiFiManager finds its commands anywhere in a request's head, in a fixed order.

## 5. Proofs

All are in modules named `...Proofs`, checked to the last leaf; the only
assumptions are the named ASSUMEs on the constants.

**`TrackingMotorsProofs`** (`MotorAssumption`: a divisor of two or more,
`CenterLoc` and all targets within the range, a period less than the width).
`MotorInv` joins the types, the range, the target's range, and `ClockOK`:
`millis` is `servoTime + sinceStep`, less one width if that is past it, as long
as no more than a width has passed. The range alone is inductive only with the
target's range beside it, and the properties about time need `ClockOK` to know
what `millis` says of the true time. From it: `TypeCorrect`, `RangeSafe`,
`OvershootFree`, `StepRate`, `HeldBack`. `RangeSafe` rests on `QuotTowardZero`:
a truncated quotient by two or more is of the dividend's sign and smaller.

**`PlaneInformationProofs`** (`PlaneAssumption`: the owners are distinct, the
fields include the four that are used). Three invariants: `OwnersInv` says that
what is aimed at, what is stored and what is half read belongs to one plane and
zeros; it is needed in this strength since an aim is made of stored fields and
these are written one by one. `UniformInv` tells how far a reading has got and
that, without a rename, all fields read so far have one owner. `PollInv`
relates the clock to the true time since the last good poll. From them:
`PlaneTypes`, `PlanesUnmixed`, `UntornOtherwise`, `NoAimAfterFailure`,
`PollRate`.

Of `DeadReckoning`, in the same module (`TimeAssumption`: reports are not older than the
epoch of power on, no epoch reaches 2^32 in the time considered). `ReckoningInv`
says that `prevUpdate` lies in the second `prevEpoch`, that the last extrapolation was
made in the second `currentEpoch`, and by how much it lags: by what the code
missed of that second. From it `LagsLessThanASecond`, `NeverMovedBack` (two
extrapolations of a report within a second differ as the clock does; across
seconds the later starts where the earlier one's second ends) and
`ReckoningTypes`.

**`AimingProofs`** (`AimingAssumption`: half a turn is two quarters, and the
zenith is at the centre of the tilt servo, `2 * CenterLoc = MinLoc + MaxLoc`).
All four calls of `map()` are one operator, `Turned`: an angle truncated to whole
degrees, multiplied, divided and truncated to pulses. `TurnedLoses` bounds what is
lost by a degree and a pulse, for angles of either sign. `AimedAtPlane` then
compares where the pulses point with where the plane is, in either branch; near
the zenith a tilt that has been rounded across it turns the pan by half a
circle, and there both heights are within the tolerance of the zenith.
`SteadyOnOneSide` bounds what a call may move the servos by what the plane has
moved, as long as it stays on its side of the meridian.

**`EspAimProofs`** (`SketchAssumption`). `ServosRun`: the sketch drives both
servos as `TrackingMotors` says, whatever else it does; `TrackingMotorsProofs` is
instantiated for each of them, which gives `PanInRange`, and `TiltInRange` as
long as no plane is a degree or more below the horizon. `SketchInv` says that both
targets are of one and the same aim: a poll that fails leaves both alone. From it
and from `AimingProofs` at the servos' locations instead of their targets,
`RestPointsAtPlane`: what `update()` leaves of the way and what `map()` leaves of
the angle never add up to more than a degree and `Divisor` pulses.

**`AsyncTcpProofs`** (any number of connections and addresses, any length of
the queue). `IInv` is what makes the events of a connection countable while the
queue is being rotated:

- `Numbers`: an event is one of those raised for its connection, its number says
  whether it is an ACCEPT, and FIN and ERROR are the last; `Once`: it waits at one
  place, in the queue, at a callback, or in the hands of the task, and as long as
  nothing is thrown away those taken and those waiting are all.
- `Living`: a client lives at its address until it is deleted; `Welcome`: its
  ACCEPT has been handled or is still to be.
- `Working`: what the task works at in each of its steps. `Overtaking`: an event
  that is handled before an earlier one marks its connection.
- `Clears`: there is one CLEAR at most, and only ACCEPTs are ahead of it.
- `Gone` is the argument why a deleted client is not called: of what waits for
  it, either a CLEAR is still to come, or the CLEAR is being handled and the
  packet that ends its second lap is behind it (`Swept`, `Marked`), and neither
  the task nor a callback has any (`Handled`), but for overtaken connections.
- `LostInv`: what is thrown away before its client is deleted belongs to an
  overtaken connection or one whose client has an address that is used again.

From it `TypeCorrect`, `DeletedClientIsUnreachable`, `StaleEventsWereOvertaken`
and `EventsHandledOnce`. For a single connection `AloneInv` adds that the queue
is sorted, that nothing has been overtaken, and that CLEAR never puts anything
back; with it every step of `AsyncTcp` is one of `EventDelivery` or a stutter
(`AloneDeliveredInOrder`), for a queue of any length, and nothing is lost
(`AloneNothingLost`). With several connections order is what `tcp_order` refutes.

**`TcpClientsProofs`** (`SlotsAssumption`, `ServerAssumption`), in three parts;
a step of one part leaves the others' variables alone (`Elsewhere`).

- *The slots.* `JInv` (`SlotsInvariant`) is `SlotsHeldOnce` with what makes it and
  `CallsReachTheirPcb` inductive. `Working`: who the two threads work for, and that
  a client that has not been made holds nothing. `Found`: an open pcb is where
  its client and the call in progress take it to be. `Progress`: a client that FIN
  has closed and that still has a slot is the one whose slot `_lwip_fin()` is
  about to give back, and no client's slot is given back by both threads; so the
  stores of the two, which may fall in any order, are to different slots, and
  lost increments of the index do no harm to `SlotsNeverShared`. They do to the
  marks: `Marks` (the next mark is greater than all in use, but for one that is
  being given back) holds only while the two threads have never been freeing at
  once (`raced`). `Carried`: while a call is under way its slot is the client's,
  or has been freed by FIN, and then, if they have not, every slot that was free
  before is marked lower and will be given out before it. That is the argument why
  a slot that is used again does not deceive a call soon, and hence
  `CallsProtected`.
- *The server.* `SInv` says how far `begin()` or `end()` has got by what lwIP
  knows of the server (`Phase`), and that a pcb nobody keeps track of comes from a
  call that has failed (`Left`); from it `ServerListens`, for any sequence of
  calls and any number of accepted clients.
- *An outgoing client.* `OutInv`: as long as nothing has gone astray the client
  is off, asking the DNS, calling, on, or between the two steps of `close()`, and
  for each of these `Standing` and `Connections` say what the application has
  been told and what lwIP holds. `News` is what makes it inductive: an event of an
  earlier connection has a CLEAR ahead of it or to come (`Doomed`), and exactly
  one event that ends what is under way is queued just when one is awaited. From
  it `OutgoingKnows`, for errands of any number and in any order.

**`PushServerProofs`** (`ServerAssumption`, `PeerAssumption`, `EventAssumption`,
`SocketAssumption`), in four parts.

- *A socket with all its clients*, for any number of clients, buffers and calls.
  `BuffersHeld` alone is not inductive: `_cleanBuffers()` looks at the counter of a
  buffer in one step and deletes it in another, messages are queued without its
  lock, and the counter is itself read and written in two steps. `Exact` says that
  a counter is the number of messages in the queues that refer to the buffer and
  of those that are still to be counted off (`Uses`), but for the one that
  `textAll()` has in hand (`InHand`) and unless the buffer was `miscounted`; `Dues`
  and `Reads` say what each task has yet to count, and that what it has read is
  still so. `UsedKept`: what is referred to is in the list, unless one of the
  named things has happened. `Removable` says that nothing has come to refer to
  a buffer since it was looked at, since only `textAll()` makes new references,
  to the buffer it has made (`MadeKept`) and which is not that one; `Guarded`,
  that the lock is held just by the task that cleans. Hence `NoBufferLost`. What
  `availableForWriteAll()` has seen stays true up to each client's turn in
  `textAll()` (`Reached`): unless a handler has queued an answer, the queues only
  get shorter, and a client that joins has an empty one. Hence
  `BroadcastsAreComplete`.
- *What comes from a peer*: `SocketInv`, for every framed sequence and every way
  of cutting its payloads; headers arrive whole. `Agrees`: `_pinfo` and `_pstate`
  say where in its frame the symbol is that comes next; `GoesOn`: what has been
  handed on goes right up to it, but for the last piece of a control frame, which
  the library keeps. One turn of `_onData()`'s loop keeps both
  (`PayloadGoesOn`), also when the segment ends right behind a header or a frame
  has no payload. Hence `PayloadHandedInOrder`.
- *The events of a client*: `EventInv`, for events of any lengths, a queue and a
  send buffer of any size, and any number of failures. `Sound` has queue and wire
  agree: what is on the wire are whole events, each once (`Lined`); an event of
  the queue is on the wire just if it is marked as sent, and an unsent one is
  longer than all that have passed it, unless memory failed (`Waits`).
  `Balanced` is the argument why an event that was not sent is not taken for
  acknowledged: what has been credited to all events together is no more than
  what the peer has acknowledged behind the head and what was left of the head
  when the client was made (`ahead`). An event that has left the queue without
  having been sent has been credited in full, and so have all before it; were
  nothing later on the wire, the bytes behind the head would be those of the
  events before it only, each once (`OnlyTheFirst`, counted with an injection),
  and the rest was credited from the head. The loops of `_runQueue()` and
  `_onAck()` are recursive functions; that every turn of them keeps `Sound` and
  `Balanced` is carried to their end by the least turn that does not
  (`LoopTurns`, `Upward`). Hence `EventsKeptIntact`.
- *The messages of a socket*: `MessageInv`, for messages of any lengths, queues
  and a send buffer of any size. While nothing has been credited wrongly
  (`stray`), `Tallied` holds: what the peer has not acknowledged, or what the task
  has not yet been told of, is the control frame that has gone out and is still
  the front of its queue, plus `ack` less `acked` of the message in front;
  messages behind it are `Untouched`; and of the one in front exactly the bytes
  1 to `sent` are on the wire, in order. The step that needs all of this is
  `_onAck()` (`CreditKeeps`): a message of which all has been sent is finished
  just when nothing at all remains to be acknowledged. It also needs that a
  control frame is never a long one, since `AsyncWebSocketControl::len()` counts
  two bytes for its header: the 125 in its constructor is what the accounting
  rests on. Hence `MessagesArrive`.

**`LoopClientsProofs`** (`HttpAssumption`; `HostAssumption`: the last two labels of
a host's name occur in it; `PlanAssumption`: a reply is of a
known framing, with a code and a size, and redirects to a host and a port or
nowhere, and what is asked for has a payload of some length; `NothingAssumption`:
`NoPlace` is no place and `NoCookie` no cookie; `VisitAssumption`: the head of a visitor's request goes up to its first
empty line, and a body comes after one), in three parts; the two clients of the
loop task share nothing.

- *What a call of HTTPClient returns*: `HttpInv`, for any requests, replies,
  redirects and faults. `RepliesKeptApart` speaks of a call's result and needs to
  know of the connection what no variable says, since a piece under way carries
  neither its place in the reply nor how many are to come. `Tok` lists the pieces
  of a reply in its framing, and `Under` says that what has arrived and what is
  under way are those of one reply from its piece `d` on. As long as nothing was
  left behind (`stale` is empty), `Apart` holds: the reply is the one to the
  last request, and the call stands where the pieces it has read say (`Stage`:
  still sending from a stream or waiting, in the head, in a plain body, within a
  chunk or between two); after a body
  that counts as whole nothing is unread but the last empty line of a chunked one
  (`Behind`). `Behind` is what carries over to the next request: `_disconnect()`
  throws away what has arrived, and only what has not can be met later. Once
  something was left behind, `Mixed`: what is under way is no older than the first
  reply to be left, and of that one's body what `Behind` allows. Steps that
  read nothing keep it as they are (`QuietSteps`); those that read have a lemma
  each (`HeadLineApart`, `ReadBlockApart`, `ReadChunkSizeApart`, ...). Hence
  `RepliesAreKeptApart`, and `LoopKeepsRepliesApart` with WiFiManager beside it.
- *What HTTPClient asks for*: `AskedInv`, for any requests, replies, redirects and
  faults, as long as nothing is left behind. A request that goes out wrong was
  made so by what the members of the object still held, so the invariant says of
  each what the history of requests and replies allows it to hold: `HeadersFit`,
  that no header stands twice but where `addHeader()` misses one; `JarFits`, that
  a cookie is that of the last reply that set one for its domain, from whatever
  host; `LocationFits`, that
  `_location` is what was told last; `LinkFitsHost`, whose connection is up; and
  `CallFits`, what the call in progress is about to ask for, which is its
  caller's (`Asking`), or what the place told last and the last reply's code come
  to (`Moving`). While the reply is read the members are still those the request
  was sent with (`HeadFits`), and that is where a redirect begins. It is
  inductive only together with `HttpInv`: that a head is of the reply to the last
  request is what makes its cookie, its place and its code that request's. The
  heaviest steps are `Send` (`SentFits`: what is due becomes a request that fits,
  once `sendRequest()` has added its length and its cookie, for which the lemmas
  on `addHeader()` say what lines are left) and the end of a head
  (`RedirectAsks`); those that only read a body leave all of it alone
  (`BodyAsks`). Hence `RequestsAreAsAsked`, and `LoopAsksAsAsked` with WiFiManager
  beside it.
- *The pins of WiFiManager*: `WifiInv`, for any visitors that send and leave as
  they like. The header, what has arrived and what is still to come are always
  the whole request; no line of the header was empty; and `currentLine` is empty
  just when the last line has nothing but carriage returns on it. So the byte that
  makes `update()` answer ends the first empty line, and where that is, the head
  ends (`HeadIsRead`). That nothing is left over from the visitor before
  (`HeaderStartsEmpty`) is what clearing the header on every way out achieves.
  Hence `PinsObeyWholeRequests`.

Preparing the first of these proofs showed that `RepliesKeptApart` had said too
much: it named its exception for every reply that is left behind. But when a
body that nobody asked for arrives late on a kept connection, the calls after it
are each answered with what is left of an earlier reply, and one that so reads a
whole body leaves its own reply behind, body and all. It takes four requests,
more than any plan of the run had. The property now speaks of the first reply
that it happens to. `RequestsAsAsked` was false for plans that the run did not
have: it took a redirect to lead where the reply before told, whereas `_location`
may be older; a request after `begin(host, port, uri)` to go to its host or that
of the request before, whereas the next `begin()`, which compares hosts, then keeps
the wrong connection; and carried headers to be gone after one more request. It
now names these cases, and a plan has the first two. The proof also showed
that the model lost the headers of a request that cannot be sent, which
`sendRequest()` adds before it writes and which the next call may find: `CannotSend`
now keeps them.

`RangeSafe`, `StepRate`, `UntornOtherwise` and `PollRate` are proved and not
listed in a run: for these the proof makes the check superfluous.

**Only model-checked:**

- all liveness (`Converges`, `SwitchTakesEffect`, `ServosComeToRest`,
  `RotationEnds`, `ClientsFreed`, `ResponseEnds`, `Drains`, `CallsEnd`), which, like `ENABLED`, is out of the prover's reach;
- what recursive functions and folds compute over data (the parsers, the
  templates, decoding), for which it would need induction with an operator as a
  parameter. `RequestDecoded` and `ResponseIntact` rest on them; and
  `ResponseIntact` does not hold for every page: what section 4 says of templates
  would have to be excluded by an assumption on the page;
- `AnsweredOnce` and `ChangedAsAsked` of the web server. They compare what the
  server does with what each request of the run says is due (its `codes`, its
  `names`, its `edit`). For every request there is no such answer but that of a
  second parser, so there is nothing to state for all values of `Requests`;
- `CutOnlyWithHeldHead`. Without templates it is arithmetic, case by case; with
  them, it needs that the loop that replaces placeholders stops and leaves no
  more than the window holds. The loop stops only if no value has a mark of its
  own, and it is again a recursive function over data.

There are no RECURSIVE operators in any module.

## 6. Not modelled

- The wait for WiFi in `setup()`; `initMoving()` and the empty `error()` of a
  servo; `updateURL()`; the trigonometry of `getHeading()`/`getAltitude()` and of
  `planeInterpolation()`, its integer division of the track included; a later
  synchronisation by SNTP: a clock that it sets back takes the plane back.
- AsyncTCP: the copy operators and accessors, IPv6 variants that forward to one
  another, data events of outgoing clients, an application that deletes a
  client that connects, a `_close()` that finds a NULL pcb.
- The web server: regular expressions in URIs, removing handlers and rewrites,
  `generateDigestHash()` and passwords stored as hashes, the thin overloads of
  `send()`; what a caller touches after its handler has deleted the client.
- WebSocket: `messageAll()`, `printf()` with a `va_list` (both undefined). Headers
  of the peer's frames that a segment cuts: lines 615-637 then read behind the
  segment, and what they find is anybody's guess. `num`, `final` and
  `message_opcode`, which describe a frame to the application. Clients that come or
  go while a loop over the clients, `textAll()`'s for one, is under way, and the
  single stores by which two tasks without a lock change and search a list
  (`StringArray.h:66-75, 116-137`): the loop may go on from a node that has been
  freed. `SocketServer` makes a change of a list one step, and lets clients join
  and leave only when nobody goes over them. EventSource: `close()` of the source,
  `avgPacketsWaiting()`.
- HTTPClient: TLS, credentials, user agent, the texts of errors, lengths of
  timeouts. A line of a head or the size of a chunk arrives whole or not at all:
  `readStringUntil()` that times out in the middle of one, and takes what is there
  for a line, is left out. Of cookies: secure ones, paths, more than one name, the
  order in which they are sent, an empty domain.
- `DisplayTest`, `Sweep` (sketches of their own), `compiled` (generated).

## 7. Plan

The modelling plan is done, and so are the proofs that it had for the tracker,
for AsyncTCP, for pushing and for the two clients of the loop. The web server is
the component without theorems, for the reasons in section 5. The nearest to a
proof is `CutOnlyWithHeldHead`, with the assumption that a value has no mark and
the number of marks still to be read as what decreases from turn to turn.
