# A TLA+ model of dooraccess-rs

`dooraccess-rs` is a daemon for the indoor unit of a door intercom. It sniffs the
intercom's frames on the wire, opens the door on request or by itself when somebody
rings, keeps a live video session with an outdoor station, and tells Home Assistant
what happened. It is written with threads, channels, atomics and timeouts from the
standard library, without an async runtime, and it runs for months on a small router.
What can go wrong in it is mostly a matter of order: which thread was faster, what was
still queued, what a timeout cut off.

This directory holds a model of that behaviour, the TLC configurations that check it on
small instances, and proofs checked by TLAPS for every instance. Paths below are
relative to `src/src/`.

## 1. The system

| Component | State | Operations | Talks to |
|---|---|---|---|
| unlock core (`unlock`, `sender`, `wire_sender`) | retry counter, deadline, last error kind | `execute_unlock`: 710 → 711 → 518 → 519 with retries | station (TCP), sniffer (bye subscription), shutdown flag |
| wire-worker (`daemon`) | job channel, current job | run unlock, send hangup, stop at the sentinel | requesters through one-shot reply channels |
| main thread (`main`) | place in the shutdown order | wait for a signal, join everybody | all threads |
| HTTP server (`httpx/server`) | listener slot, `closing`, `active` | accept, serve, graceful shutdown | handlers in `control` |
| HTTP connection (`httpx/parse`, `mux`, `response`) | what has been read, what has been written | read a request within limits, route it, write one reply | client, endpoints |
| control endpoints (`control`) | – | `/unlock`, `/auto_unlock`, `/auto_hangup`, `/automation`, `/video/...`, `/info`: guards, JSON scanners, calls | worker, flags, video manager |
| sniffers (`listen18022`, `listen6672`) | duplicate filter, subscriber list | capture, drop copies, dispatch, subscribe, cancel | self-unlock, unlock (bye), pushes |
| self-unlock (`self_unlock`) | subscription, debounce map, hangup timers | handle a ring, trigger an unlock, schedule a hangup | worker, flags, pushes |
| automation flags (`automation_state`, `orchestration`) | two atomics, `PersistedState`, two files | set, persist, load at start | flash |
| pushes (`daemon`, `ha_push`) | tracker of thread handles | spawn, register, join | Home Assistant (HTTP) |
| video manager (`video/session`) | slot `current`, sessions, cleanup handles | start, reuse, stop, TTL, re-invite, teardown, shutdown | station (704/708), RTP port, viewers |
| frame buffer, RTP, reassembly, FLV (`video/*`) | cached key frame, consumers, sequence state | push, subscribe, wait, close | stream handlers |
| configuration (`config`, `codec`) | scanner state, `Config`, warnings | read lines, scan for deprecated names, apply defaults, validate, resolve interfaces | everything, at the start |
| packets (`bpf`, `wire18022`, `listen6672`) | – | capture filters, extraction, frame codecs, number query | sniffers, unlock core |
| RTCP, logging, `/info` | – | reports and text | – |

What is hard here, with the line where it bites, is the list `hazards` of
`PROJECT.json`. The main families:

* **a frame that opens a door must not be repeated** although every step of the
  handshake can time out, be cut off, be cancelled or be answered late;
* **one shutdown flag and a fixed join order** for eight kinds of threads, some of which
  wait for each other's answers;
* **one video slot and five parties** that want to empty it, some of them late;
* **time measured at the wrong place**: a ring is stamped when it is taken from its
  channel, a copy of a frame when its thread got the CPU;
* **flags written by racing handlers** to a file that a crash can interrupt;
* **two implementations of one grammar**: validation and use of a URI, guard and
  extraction of a JSON body, filter and extraction of a packet, two scans of one file;
* **input that stops in the middle**: of a line, a body, a frame;
* **packets that are lost, repeated and reordered**, numbered modulo 2^16 and stamped
  modulo 2^32, from streams that replace one another, for viewers that join anywhere.

## 2. Modules

| Module | Models | Checked by | Proved in |
|---|---|---|---|
| `Unlock` | one `execute_unlock` and the reply of `/unlock` | `MCUnlock` | `ControlProofs` |
| `Daemon` | all threads, queues and the shutdown order | `MCDaemon` | `DaemonProofs` |
| `SelfUnlock` | ring → channel → debounce → worker → hangup, in time | `MCSelfUnlock` | `SelfUnlockProofs` |
| `Listener` | duplicate filter, subscribers | `MCListener` | `ListenerProofs` |
| `VideoManager` | life of video sessions and their viewers | `MCVideo` | `VideoManagerProofs` |
| `Automation` | flags, persistence, crash and restart | `MCAutomation` | `ControlProofs` |
| `Reassembler` | RTP packets → epochs and frames | `MCReassembler` | `ReassemblerProofs` |
| `Stream` | NAL units → frame buffer → viewers' FLV streams | `MCStream` | `StreamProofs` |
| `UnlockService` | what the wire-worker promises, abstractly | through `Daemon` | `DaemonProofs` (safety) |
| `Config` | configuration file → `Config` → interfaces | `MCNetwork` | `NetworkProofs` |
| `Packets` | capture filters, packet extraction, frame codecs | `MCNetwork` | `NetworkProofs` (6672) |
| `Network` | 6672 listener and number query, 18022 intake, a station's answer | `MCNetwork` | `NetworkProofs` (6672) |
| `Json` | the JSON scanners of the endpoints | `MCHttp` | – |
| `HttpConn` | one HTTP connection and the routing half of the endpoints | `MCHttp` | – |

The modules meet at abstractions: `Daemon` and `SelfUnlock` see an unlock as a job with
an outcome and, in `SelfUnlock`, a duration; the bound on that duration is what
`ControlProofs!BoundedDuration` proves. `Unlock` sees the sniffer as a bye that may come
at any time. `Daemon` sees the video manager's shutdown as one step before the joins;
`VideoManager` models that step and what may still run beside it. `Reassembler`, `Stream`
and `VideoManager` are three layers of the video path: the frames that `Reassembler` pushes
are the units of `Stream`, whose epochs are told apart by `EpochTellsStreams`; the buffer
that `Stream` closes is a flag of a session in `VideoManager`. `Network` extends `Config` and
`Packets` and takes the duplicate filter of its listener from `Listener` by `INSTANCE`, with
the frames and keys of port 6672 and no subscribers. `HttpConn` ends where a handler makes
its call; what the call does is in `Unlock`, `Automation`, `VideoManager` and `Stream`, and
how connections are accepted and drained is in `Daemon`.

### Unlock

One behaviour is one execution. `phase` is where the worker thread is: `start` (before
the bye subscription), `top` (loop head), `connect`/`write`/`read` (the three waits of
`send_context`), `backoff`, `classify` (the tail of `execute_unlock`), `done`. `stage` is
`UnlockStage`. Each step has an absolute deadline, the smaller of its own limit and what
is left of the cap. The station may answer, answer wrongly, close silently, break the
connection or say nothing; `cancel` may be set and a bye may arrive at any time. Time
advances only in the waits, and never past the deadline of the wait.
`RespondUnlockOutcome` is the mapping of the outcome to an HTTP status and code. The
history variables `sent`, `opened` and `afterCancel` count frames.

### Daemon

One action per step that other threads can see: a channel operation, a load or store of
a flag, a lock, a join. The main thread's `pc` follows the numbered comment blocks of
`run()`. The job channel is unbounded, as `mpsc::channel` is; a job submitted after the
receiver is gone fails, a job that is in the channel when the receiver is dropped loses
its reply channel: both are the reply `unavailable`. A canceled unlock is answered, as
the worker does. Pushes are spawned and registered in two steps; those of the start-up are
already registered in `Init`, where `main` has reached its loop. The HTTP side has the
accept loop, the window between `accept` and `fetch_add`, the close of the listener slot
and the drain with its timeout. Debounce and flag gate are a free choice here.

`UnlockService` is the specification that `Daemon` implements: requesters that wait, served
one at a time and in the order they asked, an answer each, and a door that shuts. The order is
the function `ahead`: who asked before a requester and still waits. The refinement mapping is
`Service` in `Daemon`: those waiting are the requester of the job in execution and those of
the jobs in the channel before the sentinel, `ahead` is the order of the channel, those behind
the sentinel are `refused`, and the service shuts when the sentinel is put into the channel.
The property `ServedInOrder` is `Service!Spec` with its fairness, so that "every requester is
answered" is part of it; `Service!Safety` is the part without.

### SelfUnlock

Time is explicit: the clock moves only if nobody can run (`Urgent`), which is the usual
reading of "computation takes no time". A ring carries the time it arrived; `last` is the
debounce map, which the code fills with the time of dequeue. The worker is shared with
manual unlocks and hangups, first come first served. `SelfUnlockAssumption` says that an unlock
is shorter than the debounce window (`MaxUnlock < TotalCap + Margin`): it takes at most the cap
and one backoff interval, by `ControlProofs!BoundedDuration`, and the margin of the code is
longer than the interval.

### Listener

A thread captures a frame and reads the clock, checks the ring of keys under its lock,
and dispatches under the lock of the subscriber list: three steps between which others
run. `DedupKey` maps frames to keys, so that collisions are possible; a slot that was
never written has key `ZeroKey` and `set` false, as in the code.

### VideoManager

A session is started under the lock of the slot (bind, 704, acknowledgement, threads) and
ended by whoever takes it out of the slot; the teardown sends the 708, raises the stop
flag, waits for the threads and closes the frame buffer. Cleanup threads of the TTL and of
failed re-invites are spawned and registered in two steps. `pushing` says whose 704 a
station follows. Time is left out: deadlines may expire at any time. A viewer that does not read
blocks its handler inside a write (`Stall`, until `Resume`): the socket has no write
timeout, so the handler sees neither the closed buffer nor the FIN that its watcher saw, while its
TTL refresher goes on.

### Automation

The store of the flag, the lock, the two loads of the value source, and truncation,
contents and rename of the temporary file are separate steps; writes may fail and the
process may crash and restart anywhere. `Torn` is a file that does not parse.

### Reassembler

`Receive` is one iteration of the receive loop: a packet of another SSRC locks the receiver
on it, begins an epoch and resets the reassembler; then the packet is sorted into the
window. `HandlePacket` appends one of the packets that leave the window: a jump of more than
a window or a frame that grows too long drops what was collected, and a marker cuts the
frame. A payload is one unit long, so that the buffer is the sequence of its packets, and
what a frame is made of can be stated. `SeqDiff` is the 16-bit difference read as signed.

### Stream

`ReceiveUnit` and `SwitchStream` are the push under the lock of the frame buffer (cache the
SPS, PPS or IDR, copy the senders), `FanOut` the `try_send`s after it, one viewer at a time.
A handler (`pc`) goes through `wait_idr`, the check of `closed`, the gate on the seed, the
subscription, the priming and the receive loop of `StreamWriter`, and out of it on a closed
channel, a failing write or the peer's FIN. Every write is two steps, so that a handler may
stay inside one (`seed`, `write`; `WriteReturns`) for as long as its client does not read. A parameter set is known by its epoch, a unit by
its stream and its number in it, and a tag by the unit it carries and its FLV time; the layout
of tags is left out. `start` holds the timestamp each stream began with, which the station
chooses; timestamps wrap at `TsMod`, and the viewer's 32-bit time saturates there. Consumers
are a set and the fan-out takes them in any order, because no viewer can tell its place in the
`Vec`.

### Config

A file is a choice of lines, and a line is a sequence of tokens, so that what the scanner
looks at (comment signs, quotes, brackets, blanks, the first `=`) is there and spelling is
not. `ReadLine` is one iteration of the INI scanner and of `detect_deprecated`, which reads the
same text a second time by rules of its own. Defaults, validation and the resolution of the
interfaces follow; each may end the program. `origin` and `quotedMark` are history.

### Packets and Network

A packet is described by its fields and its payload; what the sockets get are its bytes.
`RunBpf` interprets the two filter programs instruction by instruction, and `ExtractUdp`,
`ExtractTcp`, `Classify`, `ParseResponseFrame`, `ValidateResponse` and the frame builders work on
bytes, as the code does. In `Network` a datagram reaches the capture sockets of some interfaces,
a thread reads the clock, goes through the duplicate filter, and answers if it is asked for
the own number; its reply is a packet like any other and is captured too. Own number and own
address are fixed when the listeners start. `NetworkAssumption` gives the fields of a packet the
widths of their headers, and an even number of digits to a number (two go into a byte). The keys of the filters are exact where the code
hashes them: a collision of two 64-bit hashes is left out.

### Json and HttpConn

A body is a sequence of tokens (strings, numbers and literals are one each). The scanners
`JsonParser`, `GoJsonScan` and `SkipJson` share one recursive descent and differ in what they
take for white space, a string and a number. `HttpConn` has a client that sends its request
in pieces, stops inside a line, closes or resets, and the connection's thread: request line,
headers, body, routing and guards, the handler's call, the reply. A reset may discard what has not
been read yet, or not. A handler is one step, since what it waits for has deadlines; the stream
has none, so it is a state of the connection (`streaming`) that `StreamEnds` leaves at some time
or never. A line has a length and a
line end, against which the limits are checked. The server that `main` builds
(`Server::new`) has no deadlines, so a read waits as long as the client likes; the deadline
reader and writer are used by tests only.

What a request asks for (`Asked`) is taken from its composition and not from the scanners: the
body is read as Go's `json.Unmarshal` reads it, which is what the repository's notes promise. Where
the scanners do something else is spelled out in `Departs`, one disjunct for each case; TLC
violates `ActsAsAsked` when any one of them is taken away.

## 3. Runs

Passing runs:

| Run | Question | Bounds |
|---|---|---|
| `unlock_http` | Is one `/unlock` safe and does it end? | the real constants in seconds: 9 attempts, 5 s steps, 1 s backoff, 10 s cap |
| `daemon` | Is a request lost, refused or answered twice; is a push cut off; is everybody answered and does the process end? | 1 client, the consumer, 1 sniffer, 1 push, 2 rings, channel of 1 |
| `ring` | Does the debounce do its work, and how old can a ring be that opens the door? | a station and one with a malformed URI, 3 rings, 1 manual unlock, both flags, 14 ticks of 2 s: two windows and a rest |
| `listener` | Are copies dropped, and only copies? | 2 interfaces, 3 frames, 5 captures, 2 slots, window of 1 tick |
| `video_succession` | Does a late cleanup, viewer or stop frame hurt the next session? | 2 sessions on one station, 1 viewer, 1 cleanup thread of either; no shutdown |
| `video_drivers` | Is a session torn down once, does a dead one leave, are viewers released that go on reading? | 1 session, 1 viewer, 2 cleanups, stop and shutdown |
| `automation` | Are the flags durable and the flash spared? | 3 handlers, 2 flags, crashes |
| `reassembler` | What may a frame be made of, and does the reassembler recover? | 2 streams, frames of 3, 2 and 1 packets, window of 2, 6 arrivals in any order, numbers that wrap inside a frame |
| `network` | Can what the loader accepts be used, are packets understood as they were meant, is a query answered once? | files of up to 5 of 15 lines; 3 deployments, one of them on a bridge of 2 interfaces; 9 datagrams, 17 segments, 12 answers; 2 datagrams and 4 captures in a behaviour |
| `http` | Is the call that is made the one the request means, is the reply one message, is anybody left waiting? | 257 requests under 2 configurations, cut anywhere; limits scaled down to a few bytes |
| `stream` | Does a viewer get the right header, one seed, a time that moves on, and its end if it goes on reading? | 1 viewer, 2 streams of two key frames and a picture, channel of 2, timestamps that wrap inside a stream or do not |

Why these bounds are enough to be interesting: a client and the consumer are two
requesters for one worker, and hangup jobs are a third kind, so one is running, one queued
and one late; a second sentinel or signal does not exist. Two sessions on one station are
the least for a late party to meet a successor; a third meets the same code. The daemon's
shutdown is left out of `video_succession` (`Exits`) because it ends a session through the
same slot as the others, which `video_drivers` checks. A channel of capacity 1 is full as
soon as one element waits. Two slots and four captures are the least for an eviction, which
the run reaches; the proof covers every capacity. An unlock of five ticks after a hangup
of three outlasts the window of six, so `ring` reaches the delays that its properties speak
of. Six arrivals are the least for a frame, a fault and a clean frame after it; a window
of 2 is the smallest that sorts, and a limit of 3 packets is reached by two frames merged
by a lost marker. Viewers of `Stream` share nothing but the seeds, which none of them
writes, and the list of consumers, so one of them meets everything the RTP thread can do to
it. The coarse ticks round unlocks down to the cap. Five lines are the least for a station
block that is interrupted by another section and taken up again with a key before and after.
A query and a second packet, two interfaces and four captures are a burst, a reply that
the daemon captures itself, and a packet in between. The requests of `http` are the product
of what the code tells apart (route, method, headers, framing, body shape, scanner) around a
valid request of each endpoint, and each limit is met exactly and exceeded by one.

The type invariants of the modules with a proof module are proved (`TypeCorrect`) and not
checked again by the runs.

One run finds a disagreement between a comment and the code (`expect: violation`; the
quotation is under `findings`):

| Run | What the code does |
|---|---|
| `daemon_listener_failure` | A sniffer that loses its interface stores the shared shutdown flag. The daemon stays up and cancels every unlock from then on. |

`OnceUnlessBusy` of `ring` is the part of the debounce's promise that holds: an unlock is shorter
than the window, which is what the margin is for, so only other jobs of the worker break it.

More disagreements show in the models without a run of their own:

* A stop between the monitor's check of the slot and its dial is followed by a 704
  (`video/session.rs:1010-1027`; `ReinviteCheck`, `TakeCurrent`, `ReinviteSend`): the station
  streams again for a session that has ended.
* Two rings within the window can unlock twice (the test `t5_2_debounce_window_triggers_once`
  at `self_unlock.rs:774` says once; the code at 263 stamps rings when they are dequeued).
  With auto-hangup on: a ring at 0 s unlocks until 8 s; the hangup is due at 10 s and takes
  5 s; a ring at 12 s waits for it and unlocks until 24 s; a ring that came right after the
  one at 12 s is taken from the channel at 24 s, when the window is over, and unlocks again.
* A client that closes in the middle of a line leaves `read_line` (`httpx/parse.rs:133`) in a
  loop: `read_until` returns what there is, at once, for ever (`Spin`). The connection stays
  counted, so the drain of the shutdown runs into its timeout. `ServedOrClosed` excepts it.
* The bodies of `/unlock` and the toggles are said to be parsed with the semantics of Go's
  `json.Unmarshal` (`testdata/golden/EXCEPTIONS.md:144`: "auto_toggle / unlock body 解析 = Go
  json.Unmarshal 语义"). The scanners depart from it in four ways (`Departs`): a string with an escape
  anywhere in the object is refused on `/unlock`, the toggles and the video endpoints
  (`control.rs:1197`), and so is a null for a string that another member of the name sets; a number
  like `1.` and a form feed are accepted on `/unlock` and the toggles (`control.rs:161-170`, `260-286`);
  and `{"on":true,"on":null}` switches off where `json.Unmarshal` leaves the field on
  (`control.rs:1217`). None of them makes a call for another door, or switches a flag on,
  against what the members say, which is what is left for `ActsAsAsked`.
* A client that stops reading a stream without closing it keeps its handler for good: the server
  has no write timeout (`httpx/server.rs:57`), so `write_all` (`transmux.rs:268-356`) blocks once the
  socket's buffer is full, and neither the closed frame buffer nor the FIN watcher, which
  closes just that buffer, ends the write. The header of `serve_video_stream` (`control.rs:1606-1622`)
  knows two ends, a failing write and the close of the session. `Released` and `ViewersReleased`
  speak of clients that go on reading.
* The timeout of the Home Assistant client is documented as the limit of dial, write and read
  together (`httpx/client.rs:17`); the dial has no limit of its own and the clock of the
  rest starts after it (`httpx/client.rs:151`).
* `validate_uri` accepts a number with capital letters, and the number query compares it with
  digits in lower case: such a daemon never answers. And a datagram that is longer than
  a query and begins like one takes the query's place in the duplicate filter of port 6672.
  `OwnNumberAnswered` excepts both, and a start before the interface has an address.
* `/unlock` can still queue a job behind the sentinel (`main.rs:560` says no unlock job
  does), because HTTP is closed two steps later; the client is told that the worker is
  unavailable, which `UnlockService` allows once it has shut.
* A connection between `accept` and `fetch_add` is not waited for by the HTTP drain
  (`Accept`, `DrainHttp`, `CountConn`).
* `Manager::shutdown` (`video/session.rs:1047`, "settles all detached cleanups") does not
  wait for a cleanup thread that has been spawned and not yet registered:
  `ShutdownCollect` may come between `SpawnCleanup` and `RegisterCleanup`. And a
  `/video/start` after it fills the slot again.
* The comment of `FrameReassembler::push` (`video/reassembler.rs:121`) counts on the gap
  test where a marker is lost; a gap of one packet is within the window, so a single lost
  marker merges two pictures into one frame. `OrderedFrames` states what is left.
* `StreamWriter::run` reads the seed again after the handler has answered 200. If the
  parameter sets of a new stream came in between and its key frame did not, the second
  reading finds nothing: the answer stays empty and the handler ends the session.
* A frame that comes again after the one a viewer's base was taken from is older than the
  base: the difference wraps and the viewer's time jumps. `TimeMovesOn` excludes it. (At the
  end of its 32 bits, after 49 days of watching, the viewer's time stands still.)
* A viewer that joins between the SPS and the PPS of a new stream starts under a header of
  both; the next key frame brings a new header, which is what `SegmentHeader` says.

### Fairness

* `Unlock`: weak fairness of the worker thread and of time. Every wait has a deadline that
  the code hands to the socket, so the thread is never blocked for longer.
* `Daemon`: weak fairness of each thread while the process lives; the threads are
  scheduled by the kernel and none spins under a lock. Not of the environment: clients,
  rings, signals and failing sockets may never come. The accept loop is only assumed to
  return once the listener is closed. The HTTP drain has a timeout of its own.
* `VideoManager`: weak fairness of each session's threads, of the cleanups and of the TTL
  (time passes); strong fairness of a handler noticing that its channel is disconnected, for
  a client may stop reading and go on again and again while the handler needs the CPU only between
  two writes. Not of clients, in particular not that they read (`Stall`, `Resume`), nor of the station.
* `UnlockService`: weak fairness of serving whoever is next and of turning away; `Daemon` has to show
  it from the fairness of its threads.
* `HttpConn`: weak fairness of the connection's thread, never of the client, nor of the end of
  a stream. The other handlers return by deadlines of their own (`Terminates`; `Manager::start`
  5 s each for dial and exchange). Replies other than streams are taken to fit the socket's send
  buffer, so that writing them does not wait for the client.
* `Stream`: weak fairness of the fan-out (its `try_send` never blocks) and of each handler's
  thread outside a write. Not of a write's return, which is the client's affair, the station, the network or
  the peer's FIN; `wait_idr` has a timeout. That a client reads is a premise of `Released` (`Reads`).

The one strong fairness is that of `Disconnected` in `VideoManager`.

### Mutants

Every property has a mutant: a definition is replaced by the operator before it, whose
comment begins with "Slip", and TLC then finds the property violated. The slips are
mistakes that the code could have: a retry after the 518, a cap that is not shared, a
window written before the flag is read, a stop by station instead of by session, a file
written in place, and so on.

## 4. Proofs

`ControlProofs`, in its first half, for every number of retries, cap, step limit and interval
(`UnlockAssumption`: they are natural numbers), proves all the safety properties of
`unlock_http`. The properties are not inductive: that one 518 is written says nothing of
the phases in which a second could follow. `IInv` adds, phase by phase, how far the
handshake can have got (`HandshakeInv`: before the 711 nothing of stage B has happened,
and a 518 is followed only by its answer), how late it can be (`TimeInv`), that the frame
after a cancellation is the last (`CancelInv`), and which tuples the retry loop and the
normalisation can return (`ReturnInv`, `DoneInv`). Every action is one step of `StepIInv`;
the four error actions share `WireErrIInv`. `HonestReply` goes through the table of
replies case by case. `RingNeverCapped` takes the real timings of the ring path (9 probes
of 800 ms, pauses of 200 ms, a cap of 10 s) and shows that the attempts are used up before
the cap, within 9.6 s: `RingInv` bounds the clock by the number of the attempt.

The second half of `ControlProofs` is about `Automation`. For any set of handlers and any default
it proves `NoRedundantWrite`, and `Durable` from: the lock is held exactly between load and rename (`LockHeld`), the cache tells the truth about
the file (`LastIsFile`), the temporary file holds what was loaded (`TmpReady`), and a
loaded flag is stale only if a handler that stored it since is still waiting (`Fresh`).
The last is why racing handlers cannot put an old value back: whoever makes a value stale
writes after it.

`ListenerProofs`, for any number of interfaces, capacity and window, proves that copies
are dropped and nothing else is. The invariant says in which slot each of the last
`Capacity` keys is (`Remembered`) and that nothing else is in the ring (`Genuine`). No
order of the times is needed, which is why reading the clock before the lock is harmless.

`DaemonProofs`, for any number of clients, sniffers, push threads and rings, proves both safety
invariants of `daemon` and the refinement of `UnlockService` without its fairness
(`DaemonImplementsService`). The invariant has three groups. What each stage of the shutdown has
made sure of (`Staged`, `Drained`) gives `SelfUnlockNeverLate`: the sentinel is sent only after the
consumer has been joined. Who answers for a running push (`Handles`, `Live`): its handle is in the
tracker, with the main thread, or with a thread that is about to register it, and such a thread is
still inside its handler, so that a drain without a timeout leaves no push that has begun. Where the
requests are (`Order`, `Submitted`, `Closing`): each requester has one job in one place, and exactly
the jobs behind the sentinel are late. The last group is what makes the refinement mapping a
function of the state: the worker's steps are `Serve`, `TurnAway` and stutters, a submission is `Ask`
or `AskInVain`, the sentinel is `Shut`.

`VideoManagerProofs`, for any number of sessions, stations, viewers and cleanup threads, proves
all the safety properties of the two video runs. `Slot` says that the lock of the slot is held by at most
one start, which finds the slot empty; `Downs` that a session is torn down only after it was
open, and that the stop flag comes after the stop frame. `StopSparesSuccessor` needs the RTP port:
a receiver holds its socket until it sees the stop flag (`Sockets`), and a successor has it only if
the predecessor no longer does (`PortPassedOn`), so nobody can have started while a stop frame
was still to be sent, except after a lost socket. `NoBystander` is an action property and follows
from the guards together with `Watched`.

`SelfUnlockProofs`, for any stations, capacity and durations, proves the safety properties of
`ring`. Jobs in the worker's queue are counted by their places (`Jobs`: at most one unlock for a
ring, and as many others as were submitted). `Waited` bounds how long a ring has been in the
channel by the work that was ahead of it, in proportion to its place; `FreshRing` follows
when it gets to the front. `OnceUnlessBusy` takes more: if nobody else used the worker, a ring
that is still in the channel waits for an unlock that began when its predecessor was taken, which is
less than a window ago (`Explained`, `Recorded`, `Timely`), and this is where the assumption that an
unlock is shorter than the window is used. `IgnoredOnlyAfterUnlock` says what an entry of the debounce
map means (`LastIsUnlock`).

`ReassemblerProofs`, for any loss, repetition and order of packets, any number of streams and any place
where the numbers wrap, proves all the properties of `reassembler`. The arithmetic comes first:
the signed 16-bit difference of two packets of a stream is their true distance as long as a stream is
shorter than half the number space (`SeqDiffExact`; a bound of the module, which stands for packets
in flight being less than half the number space apart), and a packet that
passes the gap test is at most a window ahead (`PacketDistance`). Then `insert_sorted` keeps the window
sorted (`Inserted`); what leaves it and what stays are in order (`Split`, `WindowSorted`); `expect`
names the successor of the buffer's last packet (`Growing`); and nothing of an earlier stream survives
`reset_stream` (`OneStream`). `CleanFrame` speaks of a stretch of arrivals that is only known to be a clean
frame when its marker comes. `PromiseKept` says the same of every stretch that can still become one: its
packets are all held, each once, in the window, the batch or the buffer, in the order that the window will
give them out. Two facts about what came before the stretch carry it: a marker that nothing younger
overtook leaves everything empty (`MarkerCuts`), and an empty buffer that still expects a number has just
dropped the packet before it (`Dropped`), which is where the foreign timestamp comes from that the
property allows.

`StreamProofs`, for any number of viewers, changes of the stream and units, proves the safety properties
of `stream`. Viewers share only the buffer, so the invariant is a statement about the buffer and one
about each viewer. `SeedOnce`: a viewer subscribes only after it was primed, and what was in flight
then goes to the senders taken before (`Buffer`, `NotAgain`). `SegmentHeader`: streams reach a
viewer one after the other, and the parameter sets a writer holds when a header is due are those it was given
since (`Segment`). `TimeMovesOn`: the writer's clock started with some unit `b` of its stream and
has got to a unit `t` not older than `b` (`Clock`); all that is still in the channel is not older than `t`, so the
differences modulo 2^32 are true differences, because a stream is shorter than the range of
timestamps (`StreamAssumption`; 13 hours at 90 kHz, a bound of the module).

`NetworkProofs`, for every configuration file, every UDP packet, any number of interfaces and any size and
window of the duplicate filter (`ConfigAssumption`, `NetworkAssumption`), proves all the properties of
`network` but one. It has three layers.

* *The loader.* `CInv` says that the two scans are in the same section and have met the same names
  (`InStep`), that a station in the making has keys of blocks of one name, the one that `last_subname` holds
  (`OneBlock`; two blocks of one name without another between them are one station to the code), and that a configuration past validation satisfies it. `ScansAgree` and `StationsUnmixed` follow at once.
  `ConfigUsable` is a comparison of two grammars: `ValidUsable` shows that what `validate_uri`
  accepts has the `@`, the digits and the octets that `parse_uri` looks for, although they cut the text differently.
* *The packets.* `HeaderShape`, `UdpHeaderShape` and `UdpShape` say which byte of a packet holds which field, with
  options or without. From there `ExtractExact` follows `extract_udp_payload`, and `BpfTakes` runs the eleven
  instructions of the filter program one by one (`BpfUnrolled`, `BpfOps`), along both branches of the fragment
  test and of the port test; the length of the IP header stays a variable. Together they are `FilterExact`. `BcdRound` and `BcdBack` show that
  a number survives being packed two digits to a byte, and `ResponseShape` gives the bytes of a reply,
  so that a reply is never taken for a query.
* *The listener.* `NInv`: the ring holds the last `Capacity` datagrams that passed and nothing else
  (`RingTrue`), so copies pass a window apart or the ring was overrun between them (`CopiesApart`). What is
  answered, or about to be, has passed (`Backed`), and two such things with one key are as far apart as
  the datagrams they come from (`Separate`), which is `OneReplyPerQuery`; that it was another device that asked follows the
  packet from its sender through the socket to the thread (`Origin`, `Asked`). For `OwnNumberAnswered` every packet that was sent is somewhere: in a
  socket, with a thread before the filter, or remembered by it (`Tracked`); and a query for our number that
  has passed is with a thread or answered (`Handled`). When everything is quiet only the last of each remains.

Only model-checked:

* `Terminates`, `ShutdownCompletes`, the fairness in `ServedInOrder`, `ServedOrClosed`, `DeadSessionLeaves`,
  `ViewersReleased` and `Released`: liveness under fairness, for which there are no proof rules here.
* `FramesUnderstood`: the frames on port 18022, whose segments are given to the model together with what
  they are to mean. For every segment the meaning itself would have to be defined by a second parser of text of any length,
  and the comparison of two parsers is an induction over the text.
* `HttpConn`: its JSON scanners are recursive operators, which the provers do not take.

## 5. What is not modelled

* **Panics.** The release profile aborts on panic, so a panic is the end of the process
  and not a state of it; the code's `catch_unwind` and poisoned-lock branches are left out.
* **Layout without consequence.** FLV tags, the text of replies and logs, the JSON that the
  daemon writes, and the response parser of the Home Assistant client, whose result is only
  logged.
* **Memory.** `read_line` buffers a line without a line end until the client stops sending.
  The limit of 1 MiB for a line of the configuration is left out.
* **Hash collisions** of the duplicate filters.
* **Power loss.** A crash in `Automation` is that of the process. The code does not fsync,
  so what survives a power cut is the file system's affair.
* **The station.** It is modelled by what the daemon sees: answers, silence, and whose 704
  it follows. A station that streams after a lost acknowledgement is not told to stop.
* **`/info`, logging**: read-only.
* **FFI bindings** (sockets, `getifaddrs`, sysfs): external, modelled by their results.
* **RTCP**: periodic reports and a goodbye without effect on the daemon's state.
* **Short writes and long replies.** A body with a `Content-Length` goes to the `BufWriter` with `write`
  instead of `write_all` (`httpx/response.rs:93`). Beyond its 8 KiB that is one `send`, which on a
  blocking socket falls short only if a signal interrupts it; only an error text that quotes a long URI
  is that long. `WriteBytes` takes every write as complete.
* **HTTP keep-alive**: the server closes after every reply, so there is none.

## 6. Plan

Done: the unlock core, the daemon and its refinement of `UnlockService`, the video manager, the
flags, the ring path, the sniffers, the number query, the configuration, HTTP and the
endpoints, the reassembler and the stream path; proofs for the unlock core, the flags, the sniffer,
the daemon and its refinement, the ring path, the video manager, the reassembler and its recovery, the
stream, the configuration, the 6672 filter and the number query.

Next:

1. A composition `Door` of unlock, hangup and video that follows the req=708 frames that
   the daemon sends and its own sniffer takes for a bye.
2. The JSON scanners as recursive functions over positions, so that `ActsAsAsked` can be reasoned about for
   bodies of a fixed depth.
