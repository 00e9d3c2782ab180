# NanoDesk: TLA+ specifications

NanoDesk is a remote desktop written in Go for Windows: a *host* shares its
screen, *viewers* see it and take turns at driving it, a *signalling server*
introduces the devices to each other, and a *web host* serves browsers directly.
This directory holds TLA+ specifications of its concurrent core, the TLC
configurations that check them on small instances, and TLAPS proofs.

Paths below are relative to `src/`.

## Inventory

| Component | State | Operations | What is hard |
|---|---|---|---|
| Desktop hub `core/desktop` | clients, current controller and its lease, encoder, monitors; locks `mu`, `inputMu`, `streamMu`, `clipMu` | attach, command, detach, kick, grant, heartbeat, recover, close | two goroutines per client, sections that give `mu` up in the middle, time |
| Frame queues `core/desktop/security.go` | a channel of 3 frames and `needsKey` per client | encode, broadcast, enqueue, write | drop of a GOP against the receiver of the channel |
| Input `core/input` | keys and buttons that are down, the local override | press, release, release all, 25 ms ticker | the person at the machine acts at any moment |
| Authentication `core/auth` | passwords per role, tokens, requests, failures per address | login, request, approve, poll, revoke, expiry | caps, expiry and decisions in any order |
| Signalling hub `server/hub.go` | devices online, sessions (links), goroutines of connections | register, connect, offer/answer/candidate, close, shutdown | duplicate devices, cleanup against routing, bounded channels |
| Server life cycle `server/controller.go`, `service.go` | phase, active service, error | start, stop, failure | the goroutine of an old service |
| Relay and listener `server/relay.go`, `listener.go` | allocations and slots, connections | allocate, close | close at the same time |
| Stream `core/desktop/hub.go`, `security.go`, `lifecycle.go` | capture engine, encoder, monitor, the time of the last recovery; lock `streamMu` | capture and encode, recover, switch monitor, close | errors at any step, recovery by two threads, a throttle, shutdown |
| Engine `app/engine/engine.go`, `sessions.go` | settings and their generation, signalling connection, peers | start, reconnect, new peer, handle, close, save settings | reconnect against a connection attempt, peers that close while they are attached |
| Window `app/main.go`, `engine.go` | a channel of 256 events, what the window's thread waits for | poll, disconnect all, approve, take events | one thread empties a channel it also fills, under locks |
| File transfer `app/engine/files.go` | one open file per peer, 4 slots, batch budget, acknowledgements | send, cancel, begin, data, end, timeout | timer, late acknowledgements, disconnects |
| Viewer frames `app/engine/video.go` | one channel of 3 frames for all peers, who waits for a key frame | receive, draw | as the frame queues, shared by peers |
| Clipboard `core/clipboard` | last text, sequence number | watch, write | telling its own writes from the user's |
| Web host `web` | slots, sessions, uploads | login, request, WebSocket, upload | a token that is revoked while a file arrives, files of one name, a far end that falls silent |
| Configuration, identity | files | load, save | replacing a file |
| Capture, encoder, user interfaces | pixels, windows | | not modelled, see the end |

How they interact: a viewer's `Engine` and a host's `Engine` exchange offers and
answers through the signalling hub; the host's `Engine` attaches a data channel
to its `StreamHub` as a client; the `StreamHub` asks the `AuthManager` whether
the client's token is valid each time it matters, drives the `InputController`,
and hands frames to a queue per client. The web host attaches WebSockets to the
same `StreamHub`.

What makes each correct: *hub*: one controller, entitled to it, who keeps it as long as the
lease is live; keys never outlive their controller. *Frames*: no client is sent the rest of
a broken group of pictures, and each gets a key frame again, also after the capture was
lost. *Stream*: a closed hub opens no devices. *Authentication*: a token lives no longer
than what it was issued for, a decision is final, the tables stay within their caps.
*Signalling*: a device has one connection, both ends of a session learn that it ends, a
closed server is empty. *Life cycle*: what the controller says agrees with what is held, and
a stop or a failure is acted on. *Relay*: no slot is lost, no socket outlives the server.
*Engine*: a connection with the newest settings, no peer of old ones, no client of a closed
peer; a closed engine leaves nothing. *Window*: what waits for it goes on. *Files*: every
byte is acknowledged, no slot is lost, a partial file is removed.

## Modules

| Module | Models | Used by |
|---|---|---|
| `ControlLease` | abstract: one holder, a lease, what is held down | refined by `ControlHub` |
| `ControlHub` | `core/desktop` (hub, security, native), `core/input` | `MCControlHub` |
| `ControlHubProofs` | safety theorems of `ControlHub`; it implements `ControlLease` | |
| `FrameQueue` | abstract encoder, broadcast, `enqueueFrame`, `writePump` | extended and implemented by `HostStream`; `MCFrameQueue` |
| `HostStream` | the loop with its capture engine and encoder: `recoverCapture`, `switchMonitor`, `Close` | `MCDesktop` |
| `HostStreamProofs` | safety theorems of `FrameQueue` and `HostStream`; the second implements the first | |
| `SignalHub` | `server/hub.go`, `registry.go` | `MCSignalHub` |
| `SignalHubProofs` | safety theorems of `SignalHub` | |
| `AuthManager` | `core/auth/auth.go` | `MCAuthManager` |
| `AuthManagerProofs` | safety theorems of `AuthManager` | |
| `GuardedRelay` | `server/relay.go` | extended by `ServerController` |
| `ServerController` | `server/controller.go`, `service.go`, with a relay per service | `MCServerController` |
| `ServerControllerProofs` | safety theorems of `GuardedRelay` and `ServerController` | |
| `FileBatch` | abstract: the files of a batch are stored and counted one after the other, or given up | refined by `FileTransfer` |
| `FileTransfer` | `app/engine/files.go`, and the close of a peer in `engine.go` | `MCFileTransfer` |
| `FileTransferProofs` | safety theorems of `FileTransfer`, which implements `FileBatch`; what stays of `Upload` | |
| `Upload` | `web/transport/upload.go`, `commitUpload` of `core/desktop/storage.go` | `MCFileTransfer` |
| `Engine` | `app/engine/engine.go`: loop and run, settings, the table of peers, their take-down and the hub they are attached to | `MCDesktop`, `MCEngine` |
| `EngineProofs` | safety theorems of `Engine` | |
| `HostWindow` | the loop of `app/main.go`, `emit`, and all sections of the hub that hold `inputMu` or `streamMu` | `MCHostWindow` |
| `HostWindowProofs` | the order of the locks, and when the window stops for good | |

### ControlHub

A section that holds `inputMu` is cut where the code gives `mu` up or calls the
`InputController`: `at` is the step, `who` the client, `verb` and `key` the
command. `registered` is `StreamHub.clients`, `controller` and `lease` are
`currentController` and the ticks left until `controllerExpiry`, `override` is
the time left of `MasterOverride`. `heldBy` stands for `pressedKeys` and
`pressedButtons`; it also remembers for whom a key was pressed, which the code
does not. `reader` and `pump` are the two goroutines of a client, both of which
call `unregisterClient`. `sessions` is what `ValidateToken` accepts; tokens are
issued and revoked at any time, as the AuthManager takes none of the hub's locks.

The commands that leave no key down are one command, `take`; pastes and special
keys, which press and release, are `tap`.

### FrameQueue

A queue holds frames as what the properties tell apart: a frame's number and
whether it is a key frame. `enqueueFrame` is several steps since `writePump`
receives from the channel without `queueMu`. The encoder stands for any encoder
that begins a new group when it is asked to; it may do so on its own account.

### HostStream

What `FrameQueue` leaves open, the encoder, in detail. `capture` is the capture engine
(open, open with captures that fail, closed), `encoder` says whether the encoder is of
the monitor that is captured. What holds `streamMu` is a step: a round of the loop up
to the frame, `recoverCapture`, `switchMonitor`, the last part of `Close`. An error of
the loop sets `trouble`, as `recoverCapture` is called after `streamMu` was given up;
`recent` is the throttle of two seconds. `recoverCapture` has three results: no engine
starts (the old one has been closed by then), an engine and an encoder, an engine
alone. `RecoverDisplay` is the same called by the window. The pixels, and the order of
the monitors, are not there.

`requestKeyframe` and `sendInitInfo` use the encoder under `mu`, while it is replaced
or released under `streamMu` (`lifecycle.go:20`). The model takes each as one step;
the code can meet a nil or a closed encoder between the two lines.

### SignalHub

A connection goes through the handler `serve`: the check of `online`, the
handshake (no lock), the entry into the table, the greeting, the read loop and
the deferred cleanup. `out` is the peer's channel: a send to a full channel
closes the peer. Links carry the two ends and their age; `Prune` is what
`connect` does with links that are past their time. `greeted`, `known` and `unsaid` are
the far end: what a device that reads its messages in order holds for true.

### AuthManager

Every method holds `mu` from its first line to its last and is one action, or one
action for each of its early returns. What a method does first is part of it:
`Clean` is `cleanupLocked`, and the guards look at the swept tables
(`CleanRequests` and so on), as the code does. Nothing sweeps in between, so a
table holds what has run out until somebody calls.

Times are ages in ticks: `Minute` (a request, the window of failures and a block),
`Kept` (the five minutes a request stays), `Day` (a token). `Valid` is the
`ValidateToken` that `ControlHub` asks at any moment. The session's `from` is a
ghost: the password it was given for, which the code does not keep. A token or a
request id is one that nothing refers to (the code draws 128 and 64 random bits).
The callback of a new request is not modelled: it runs after `mu` is released and
changes nothing here.

### GuardedRelay

`AllocatePacketConn` takes and gives back three things, a place in `pending`, a token
of `slots` and a socket, and looks at `closed` twice; between any two of these another
goroutine may run, so each is an action. `packet[p]` is where the call for `p` is and,
once it has returned, how far `guardedPacket.Close` has come: the socket, the entry in
the table, the token. Who calls Close (the TURN server, a read that finds its session
gone, the relay's own Close) does not matter, as `once` lets one of them through.

### ServerController

One `Service` is one call of `startServer`. `starter[s]` is where the goroutine of its Start
is, `closer[s]` that of the Stop that closes it; `held[s]` is what it has acquired, in the
order of `Resources`, and a failing start gives back the last first. `serving[s]` is the
goroutine in `srv.Serve` together with what is in the channel `done`. `Locked` is the
operations lock as held by Close; a backup that reads holds it too. What `hub.close` does to
its connections is in `SignalHub`. The window of the server asks for one backup at a time; a
stop may come at any moment.

The goroutine of a service that failed, or that was stopped while it started, calls
`Stop`, which looks at the phase only (`controller.go:95`, `:105`). If the window stopped
that service meanwhile and started another, it is the newer one that is closed. The
model has these steps. Nothing promised is broken by them (the newer service is closed
whole and can be started again), so no run is about them; a `Stop` that compares
`active` with its service, as line 101 does for the error, would avoid it.

A token is still in `slots` for a moment after its packet has left the table
(`relay.go:80`: the delete, then `<-g.slots`): an allocation that comes in between
meets "relay quota reached" with a free socket. `SlotsConserved` counts that token for
the packet that is about to take it out.

### FileTransfer

`sender[s]` is the goroutine of SendFiles: the acknowledgement it waits for, or `next`
and `data`. `toHost` and `toCaller` are the two directions of the data channel; what
arrives at the caller is moved to `fileAck` when it fits and dropped when it does not.
The fields of the receiver keep their names, one section of its `mu` per message.
`armed` is a timer that runs, `quiet` says that 30 s have passed since `updated`, and
`callbacks` are callbacks of AfterFunc that wait for `mu`, each with the file it was
started for. `tokens` is what is in the channel `transferSlots`, `slots` who thinks to
have put it there.

Data, end and cancel do not name their file in the code. In the model data and end do,
which only `SavedWhole` reads; `saved` is a ghost as well. A header overwrites
`transfer` before anything is looked at (`files.go:72-77`), so the comparison in line
113 always finds it equal and is no guard here. `CancelFiles` also stands for the Close
of the caller's peer. A message that comes between the two steps of the host's
Close (`CloseReceiver`, `CloseChannel`) may open a file again, which only the timer
ends; `UnfinishedEnds` says it does. A failure of the disk is a choice at each place
that reports one.

`FileBatch` is what is left of this for somebody who looks at the two ends only: `doing`
is the batch of the caller with the files it has counted, `stored` what the host has moved
to its place since that batch began. `late` is the file of a batch that was given up whose
end may still be on its way. It is stored or lost before anything of the next batch.
The mapping takes `doing` from `sender`, `stored` from `saved`, and `late` from the ends
of files in `toHost` that are not of the sender's transfer.

### Upload

An HTTP request of the web host that brings several files: `stage` is where its handler is,
`part` how many files are done, `temp` the temporary file of the present one. All files have
one name, and a `Place` is one of the candidates that `commitUpload` tries; a candidate is
one `MoveFileW`, which refuses to overwrite, so another request or the desktop's user may
come between two of them. `valid` is what `ValidateToken` accepts; each read asks it, and so
does the last look before the move (`CheckUpload`). A revocation behind that look is too
late, as it is in the code. `cut` is a ghost: requests whose token ended before it. A read
that blocks is ended by the deadline that `uploadBody` sets before each (`BodyEnds`). A read
that began before a revocation and returns after it is the one before it here; the look at
the end is the same. `Return` gives the slot back at once, where `part.Close`
(`upload.go:115`) first drains the rest of a part that was refused, without looking at the
token; the limit of the body and the deadline end that as well, so `UploadEnds` is not
touched, only how long the slot is held. Not there: a process that ends leaves its temporary
file on the desktop (`upload.go:148`), which nothing takes away later.

The move to a free name is the one the client's receiver makes as well
(`files.go:170-192`), where `FileTransfer` has it as one step that succeeds or fails.

### Engine

`loop` is the goroutine of `loop` and `run`, `ui` the window's thread in
`SaveSettings` or `Close`; both run `DisconnectAll`, whose copy of the table is `toClose`.
`conn` is the socket while it is `e.conn`. `server` is what `loop` read for `run`
(`engine.go:185`), which dials it. A generation is only compared with the one
`run` has read (`:199`), so `moved` stands for the difference. A `Reconnect` between the
two lines leaves no difference: `run` takes the raised generation for its own and the old
server for the present one. `overlooked` is a ghost that remembers this. `ServerIsPresent`
is what the code's message for a raised generation promises (`:237`) and does not hold
(`engine_stale`); `GenerationHeard` is what does. `cutting` is the time between
the two sections of `Reconnect`, in which a socket that has been taken is not closed
yet. `peer[s]` follows the goroutine of `Close` of a peer through its sections
(`Look`, `Detach`, `Remove`), `handling[s]` the authentication in `handle`, which
attaches the peer to the hub and enters `p.client` in two steps. `Pump` is the
`writePump` of a client, which ends when its transport is dead and then detaches what
`Close` did not see. Of the settings a peer was built with only their age matters:
`behind` are the peers older than the present ones, `late` (a ghost) those that
`newPeer` entered after a `Save`.

A session's id is announced once; the server draws 128 random bits. The WebRTC
negotiation of a peer is not modelled; that it fails or the other end leaves is
`PeerClose`, at any time.

### HostWindow

The window's thread takes turns: `native.Poll`, with what the user asked for, then up
to sixteen events. Every section of the hub that takes `inputMu` or `streamMu` is there,
and every thread that runs one: the window in `kickAllClients`, `Grant` and `Close`
(`native.go:132`, `hub.go:337`), a client's `writePump` in `expireControl` and
`unregisterClient` (`security.go:97`, `hub.go:305`), a peer's callback in a command, a
`Grant` or a `Detach` (`hub.go:699`), the stream loop in its round and in `recoverCapture`,
the goroutine of `DisplayChanged` in `recoverCapture` (`security.go:138`). `recoverCapture`
and a command that switches the monitor wait for `streamMu` under `inputMu`; nobody does the
reverse. `kickAllClients` and `unregisterClient` report the number of clients through `emit`
before they give `inputMu` up. `mu` is taken last and held by nobody who waits, so what is
done under it is part of a step. Of the events only their number counts. All other senders
are `Other`: peers, the loop of the engine, broadcasts.

## Runs

| Run | Bounds | Shows |
|---|---|---|
| `control_lease` | 2 clients, 2 tokens (Standard, Admin), 1 key, spans of 1 | keys follow control, the lease is implemented |
| `control_inputs` | 1 client, 2 tokens (View, Standard), a chord of 2 keys, 1 button, an override of 2, `FairSpec` | a viewer is never the controller; buttons yield to the local user; stale control ends, keys of a revoked client come up, the unauthenticated leave |
| `control_local` | 1 client | **violated**: a key goes down under the override |
| `desktop` | video: 1 client, queue of 2. Engine: 2 sessions for a table of 1, settings saved twice: the same server, then none. `MCSpec` | video: no broken group is queued, no need forgotten, a key frame arrives after every kind of failure; a closed hub opens no engine; the stream implements `FrameQueue`. Engine: a change of the server is heard but at one moment, the table keeps its limit, old peers go; nothing outlives its connection, its client or the engine; a closed peer leaves table and hub, a closed engine leaves nothing |
| `video_torn` | 1 client, queue of 3 | **violated**: the drain races the receiver |
| `signal_hub` | 3 connections of 2 devices, 2 sessions, channels of 2, `MCSpec` | both ends agree; an offer never precedes its session; one connection per device; links join live connections; shutdown returns and leaves nothing |
| `signal_greeting` | 2 connections, channels of 2 | **violated**: a session reaches a device before `registered` |
| `server_life` | a service and the one after it, 2 packets for 1 slot, 1 backup, `FairSpec` | "stopped" means free, a backup reads what is open, slots are conserved; stops and failures are acted on |
| `file_transfer` | client: 1 session, 2 transfers, 2 files of at most 1 chunk, 1 slot, `AckCap` 1, `Window` 3; web host: 2 requests of 1 file of at most 1 chunk, 2 places; `MCSpec` | slots are conserved, and each open file has its timer; what is saved is whole and saved once, what is reported saved is saved; the transfer implements `FileBatch`; an unfinished file is cleaned up, a batch ends; what a request has put on the desktop is whole, allowed and still there, and every request ends |
| `auth_manager` | 3 tokens with room for 2, 3 request ids with room for 2, 2 addresses with room for 1, 1 password, 2 guesses, `Minute` 2, `Kept` 2, `Day` 1 | tokens end with their passwords, grants are shown, decisions are final, blocks hold |
| `engine_stale` | 1 session, settings saved once, with another server | **violated**: `run` keeps to the server of older settings |
| `window_frozen` | 1 client, 1 callback, the stream loop, the goroutine of `DisplayChanged`, a channel of 2, 1 event in a turn, `FairSpec` | **violated**: a `writePump` that returns gets through its clean-up |

Why the bounds are enough: a race in the hub is between at most two clients and the
environment (a third client would repeat what the second does: every condition compares a
client with the controller); a span of one tick already has a live and an expired lease in
each step of a section. The queue of two is full, partly drained and empty while the
receiver runs; three is the code's own number, and `video_torn` has it. Clients of the
stream share the encoder and its requests, and nothing of their queues; the theorems cover
any number of them. In the signalling hub the third connection is the second of a device
that is still online, and a third device would only be another second. Channels of two are
the least with an order: an offer is queued together with its session, a session
with its end, and a channel is full with
either. `MCSpec` keeps cases apart that do not add to each other: the second session needs
the first and a third connection that has not been used, and that one is used only when
there was no second session; refusals, which only fill channels, come until the third
connection is used; `s1` grows old, `s2` does not; and the hub does not begin to close with
the second session used, or with the third connection and a session. In `server_life` the
controller lets one service begin at a time, so an old one whose goroutine lingers and a new
one are all that can meet, and names are used again; two packets and one slot have a full
channel, an allocation on its way and a packet being closed at once. In `file_transfer` two
transfers are the one under way and the one that was cancelled before it, and their names
are used again; a file is empty or of one chunk, so it can be short, whole and longer than
announced; with an `AckCap` of one acknowledgements are dropped, which the code's eight does
only after seven more. With a `Window` of three `SendFiles` may start a batch while the data
or the end of a file of the batch it gave up, and the cancel behind it, are still in the
channel; with two it would wait for them to go. Sessions share nothing but the slots:
another that holds them all is `BeginFails`, and the theorem covers any number. The run is
of two programs, the client and the web host, one or the other in a behaviour (`program`),
which share no state. Two requests and two places have the race for each candidate and a
desktop where all are taken, as the user's files take places too; they never fill the two
slots, whose guard is a channel's. In `auth_manager` every table is smaller by one than what
asks to be in it; a minute of two ticks has a first, a last and a middle moment, so every
comparison of the code (`>=` a minute, `>` two minutes, `>` five) is met below, at and above
its bound; one password for three roles is already one too few. `desktop` is of two parts of
one program that share no state in the models, one or the other in a behaviour (`part`); the
engine rests without a server while the video runs, and the hub has no clients while the
engine runs. There a table of one for two sessions is full, and has a peer that leaves while
another is announced; two saves are one that keeps the server and one that removes it, at
any step of a connection attempt. `engine_stale` has a server that changes to another. In
`window_frozen` a channel of two that is emptied one by one stands for 256 by sixteen; one
client that leaves and the window are all that is needed to stop, and the theorems cover any
number of either.

`CHECK_DEADLOCK FALSE` in the configurations of `SignalHub` and in `MCEngineStale`: a
hub or an engine that has been closed does nothing any more (`MCDesktop` has `Closed`, a
stutter of a closed engine and of nothing else, so that deadlock is checked there). In
`MCHostWindow` it is because the run is about `WritePumpEnds`: the counterexample is a
state in which all wait.

The type invariants, and a few others (`WithinLimits`, `ClosedRelayIsEmpty`,
`PasswordsDistinct`, `RunningIsWhole`, `SomebodyActs`, `CloseReaches`), are theorems for all
constants and are not checked again in the runs.

### Fairness

Goroutines that can run do run, the clock advances, and tickers tick: weak fairness of their
actions. `inputMu` is a `sync.Mutex`, which after 1 ms of waiting is handed over in the
order of arrival; so an action that waits for it has strong fairness. Looking up a name and
bbolt's lock have time limits in the code, so a start ends; the close of the relay closes
each packet it has found. Files: the channel delivers while it is open, the sender waits at
most 30 s, a timer that has run out starts its callback; the handler of an upload runs, and
the body of a request ends or its deadline passes. Nothing is assumed of viewers, of TURN
clients, of the host's user or of the network.

Hub: `StaleControlEnds`, `RevokedKeysComeUp` and `UnauthenticatedLeaves` rest on sections of
`inputMu` that end, and two of these report to the window. As for the engine below, the
three are of a desktop whose window takes its events; `window_frozen` shows that it may stop,
and then they fail with it.

Stream: a capture that is possible again and again succeeds some time (`SF` of
`HostEncode`), an engine starts with an encoder when `recoverCapture` is tried again
and again (`SF` of `LoopRecovers(NewEngine)`), and the display does not change forever;
if one of these fails there is no picture to send. Nothing is assumed of `writePump`:
a key frame gets into the queue even of a client that never reads.

Engine: both threads, the take-down of a peer and `handle` run. Reports to the window
are taken to get through, which `window_frozen` shows not to hold when the channel is
full; `ClosedLeaves` and `CloseEnds` are of an engine whose window goes on. In
`HostWindow` every thread and lock is strongly fair, the best the code could hope for:
the run shows that it does not help.

### Findings

1. `control_local`: `SendKey` (`core/input/input.go:267`) reads the override
   before its lock, `MouseButton` under it; a key can go down after the ticker has
   released everything, under the override, and stays until a later command, the expiry of
   control or another physical action releases it.
2. `video_torn`: `enqueueFrame` drains a channel another goroutine receives
   from, so a delta goes out whose group was just discarded
   (`core/desktop/security.go:38` against the comment in line 21).
3. `signal_greeting`: a session can reach a device before `registered`
   (`server/hub.go:180`), which makes its engine hang up (`app/engine/engine.go:231`).
4. `window_frozen`: `emit` waits for room in a channel of 256 events while `inputMu`
   is held (`engine.go:93`, `hub.go:328`, `:358`); the only thread that makes room waits
   for `inputMu` in `Grant` or `kickAllClients`, or for room itself. The web host has
   the same shape with `SetWindowTextW`, which waits for the window's thread
   (`web/hostgui/gui.go:254-269`).
5. `engine_stale`: `loop` reads the settings (`engine.go:185`) before `run` reads the
   generation (`:199`). When another server is saved in between, `run` dials the old one and
   stays there until that connection ends, against "the server settings have changed" of
   line 237. Reading the two under one lock would avoid it.

Read while modelling, without a run of their own:

- `server/README.md:51`, "16 sessions per device" counts the sessions of the device
  that is called, never the caller's (`server/hub.go:225-232`), and "4,096 devices
  online" is looked at before the handshake and not again (`server/hub.go:96`,
  `:134-141`).
- A peer that `newPeer` is building while `SaveSettings` disconnects all enters the table
  afterwards, with the old settings (`engine.go:387`, `:422`), against
  `app/README.md:9`, which has all connections end. `OnlyLateStay` says that these are
  the only ones.
- A peer whose `Close` came before its data channel opened is entered in `waitingKey`
  by `newPeer` (`:425`) after `Close` has taken it out, and stays there.
- A desktop hub that `handle` creates (`:723`) after `Engine.Close` has looked for one
  (`:347`) is not closed.
- The clipboard watcher keeps the last text over an image (`clipboard.go:429-433`): the
  same text copied again after an image is not sent.

## Proofs

`ControlHubProofs` proves, for every set of clients, tokens, keys, buttons and
chords and every span (`ControlHubAssumption`), that `TypeOK`,
`ControllerEntitled`, `HeldForController` and `ButtonsYield` are invariants of
`Spec`. They are not inductive by themselves. The strengthening `IInv` adds
`GoroutinesOfRegistered` (a client that is registered is read by a goroutine that
will unregister it, and one that is about to register is not in the table),
`SectionInv` (what the step of a section implies: which client it is for, that
control and the release of keys are half-way in exactly the two-step sections) and
`NoLease` (nobody's lease is over). The proof has one lemma per group of
actions.

The module also proves `Spec => ImplementsLease`: each step of the hub is a step of
`ControlLease` or leaves its variables alone, from `IInv` of the state before and after.

`HostStreamProofs` proves `HostTypeOK`, `QueueWhole`, `KeyRequested`, `CaptureReleased` and
`HostSpec => ImplementsFrames` for any clients and any `QueueCap`. Of a queue the proofs use
its head and its length; `AppendFacts` and `TailFacts` say what a step does to these.
`TornWaits` (who lost a frame waits for a key frame, or has one at the head) and
`AllAwaited` (who waits for one will be given the one in hand, or it has been asked for)
make the two invariants inductive. What is an invariant of `FrameQueue` is carried over to
`HostStream` by the refinement (`HostQueues`) and not proved twice.

`SignalHubProofs` proves `TypeOK`, `LinksAreOnline`, `ClosedIsEmpty`, `EndsAgree` and
`OfferAfterSession` for any connections and devices, finitely many session ids and any
limits (`SignalHubAssumption`). For the tables, `HubInv` adds `EnteredItself` (an entry of
`online` is a connection of that device), `Linked` of the sessions in the table alone, and
`NobodyServed` (behind `closed` nobody is counted): without the first, the cleanup of one
connection could be of another's entry. `CloseReaches`, the part of `CloseReturns` that
needs no fairness, is inductive beside the tables' types: what `close` waits for is closed
or in its copy of the table. Queues are not needed there, so `TableTypes` is the part of
`TypeOK` it has. For the channels, `MailInv` holds of every connection that is not closed
(`Agreed`). What is queued for it and what it has read, taken together (`Faithful`), tell it
of the sessions that link it and of those dropped without a word, and of no other. For that
to survive the next message, `SessionsFirst` says that a session is the first thing said of
its id, which a new id gives (`Unused`), and `DroppedApart` that the id of a dropped session
is not drawn again. Nothing is queued for a connection that is not entered, so a new one
starts with nothing to unlearn. Each kind of message has a lemma of queues alone
(`SayNothing`, `SaySession`, `SayClosed`, `TakeOne`, `Forget`). A channel that is full is
cut short by `Send` and its connection closed with it, which is why the truth is lost only
where nobody listens.

`AuthManagerProofs` proves `TypeOK`, `PasswordsDistinct`, `TokensFollowPasswords`,
`OnePending`, `BlocksEnd`, `BlocksHold`, `DecisionsAreFinal`, `WithinLimits` and
`GrantsShown` for any number of tokens, ids, addresses and passwords and any lengths
(`AuthManagerAssumption`). The methods change the three tables in few ways; `SessionStep`,
`RequestStep` and `FailureStep` list these, and each invariant is proved of one table. Two
strengthenings are needed: `SessionsFollow` is `TokensFollowPasswords` of the tokens that
have run out too, which a sweep has yet to remove; `BlocksRunDown` says that a block and the
age of its entry add up to a minute at least, which is why an attempt after the block finds
the count stale. `TypeOK` rests on it: without it the count could pass `MaxGuesses`.
`WithinLimits` needs that the tables are finite (`Limits`), and two lemmas: a table that
loses entries keeps its limit, and one below it has room for one. `GrantsShown` is the one
property of two tables; `GrantSteps` says that only `ApproveRequest` grants, and `Shown`
adds that a request is older than its session by less than a minute, so the session is never
the last to be young.

`ServerControllerProofs` proves `SlotsConserved` and `ClosedRelayIsEmpty` of `RelaySpec`
for any finite set of packets and any number of slots (`GuardedRelayAssumption`).
`RelayInv` adds `CallsPending` (a packet that has not been entered is counted in
`pending`) and `CopyComplete` (what is in use when the relay is closed is in the copy
that Close goes through): without the second look at `closed` it would not be kept.

Of the server the module proves `TypeOK`, `StoppedIsFree`, `RunningIsWhole`,
`BackupReadsOpen` and `SomebodyActs` for any services and packets, and that every behaviour
of the server is one of its relays. `IInv` adds `OneHolds` (at most one service holds
anything: the one that begins or the active one), `ClosingInv` (only the active service is
closed, and is whole until its Close has the lock), `StartingInv` (a start that is not
through has no relayed packets), `BackupInv` and `NoRelayLeft` (without a relay, or behind
its Close, no call and no packet is left). No theorem rests on who called `Stop`.
`SomebodyActs` is the part of the two liveness properties that needs no fairness: no phase
is left without a goroutine to end it. It needs `ServingInv`: the goroutine that serves ends
without an error only behind a `Close`, so a service that fails by itself is always noticed.

`FileTransferProofs` proves `SlotsConserved` for any finite set of sessions and any
number of slots (`FileTransferAssumption`): cleanup takes out the receiver's own token
and no other, and each way to open a file cleans up first. The first half of it is inductive
once `Session` is finite; `FreedTokens` is the arithmetic that all messages share. The
second half, that a timer or its callback watches each open file, is proved beside
it (`WatchNext`): a callback that finds progress since it was started arms the timer again.

It also proves `TypeOK`, `SavedWhole` and `ToldIsSaved` for files of any size and number,
any `AckCap` and any `Window`. `TypeInv` is `TypeOK` with what it rests on: while a file is
under way one is left of the batch, and a timer runs for a file. `SavedWhole` rests on what
the channel holds (`WholeInv`): each part of a file is behind the one before it (`Queued`),
the part that arrives is the next of the file that is open, if one is (`Arrives`), and what
the sender will put in follows what is last in the channel (`Sent`); a refusal closes the
file, so a part that finds none does no harm. That nothing is saved twice is `Once`, below.
`ToldIsSaved` rests on `ToldInv`: of the sender's transfer there is at most one end of a
file or acknowledgement of a saved one under way, only while the sender waits for it, and an
acknowledgement is of the file it waits for (`Awaited`). `SendFiles` names a transfer
nothing under way has (`Mentions`), as the random 16 bytes of the code do.

`TransfersAreBatches` is `Spec => ImplementsBatch`. Beside the invariants above it needs
`InTurn`: at most one end of a file is under way in a session, whichever batch it is of;
and while it is of a batch that was given up, the sender waits for the answer to its
first message, no acknowledgement of the new batch exists, and the headers of the new batch
are behind that end in the channel (`Past`). And it needs `Once`: a file whose end is under
way has not been saved, nor one the sender has not come to. The steps of `Next` are grouped
by what they do to the two ends (`CallerSteps`, `HostSteps`); `InTurn` and `Once` are
proved of these groups, and so is that each is a step of `FileBatch` or leaves it alone
(`CallerBatch`, `HostBatch`). For `Finish` and `Count` the sender's answer has to be of this
file and batch, which is `Awaited`; for `StoreLate` the end that arrives has to be the only one.

`UploadsStay` proves `UploadedStays` of `Upload` for any requests, places and sizes:
`UploadInv` carries along each request what its file and its token were when they were looked
at, and a move takes a free place only.

`EngineProofs` proves `EngineTypeOK`, `GenerationHeard`, `PeersBounded`, `OnlyLateStay` and
`NoneOutlives` for any sessions, servers, limit and settings (`EngineAssumption`).
`GenerationHeard` says that a connection in use is of the present generation or about
to be closed, and is to the present server unless `Reconnect` came between the two reads.
`StaleHeard` strengthens it to the whole attempt: a server that is not the present one has
been overlooked, or the generation has moved since `run` read it, or `SaveSettings` has yet
to move it. `RoomKept` is the reason for `PeersBounded`: between the look of `newPeer` and
its entry only that goroutine enters peers, so the room it saw is still there. `LateOnly`
follows `DisconnectAll` through its copy of the table: what is behind is in the copy, or was
entered after it. `NoneOutlives` has three parts, each with an invariant of its own.
`OutliveInv`: while `run` disconnects all, what is live is in its copy, since only `run`
itself makes a peer live. `ServedInv`: between the two steps in which `handle` attaches a
peer, the hub has it already, or its `writePump` has ended and will hang up. `CancelInv`:
once `Close` has raised the generation nothing registers, so the connection `Close` finds is
the last.

`HostWindowProofs` is about the finding of `window_frozen`, for any clients, any room in the
channel and any number of events in a turn (`NamesApart`, a hypothesis of each theorem). The
invariant `Sections` says which thread in which step holds which lock. `LocksAreOrdered` is
the order of the waits: who holds `streamMu` goes on; who holds `inputMu` goes on, or waits
for `streamMu`, which is free or held by one who goes on, or is at a report of the clients
without `streamMu`. So the locks alone stop nobody, and a report is what can.
`FrozenForever` says that a state in which the channel is full and the window's thread
waits, for room or for one who is at such a report, is never left, and `WaitingIsStuck` that
nobody who waits for `inputMu` gets it from there: a clean-up, a heartbeat, a command or the
recovery of the picture. They say nothing of how often this happens; that it can happen is
what the run shows.

Checked by TLC only: liveness, that is `StaleControlEnds`, `RevokedKeysComeUp`,
`UnauthenticatedLeaves`, `KeyArrives`, `CloseReturns`, `StopIsObeyed`, `FailureIsNoticed`,
`UnfinishedEnds`, `BatchEnds`, `UploadEnds`, `ClosedLeaves` and `CloseEnds`: the prover
has no rules for fairness and ENABLED. Every other property of a passing run is a theorem.
What a recursive definition computes for all inputs cannot be proved either (no induction
over data is available); these modules have none.

## Plan

Done: `ControlHub` with `ControlLease`, `AuthManager`, `HostStream` with `FrameQueue`,
`SignalHub`, `GuardedRelay` with `ServerController`, `Engine`, `FileTransfer` with
`FileBatch`, `Upload`, and `HostWindow`, each with its proofs. Nothing is left but what follows.

## Not modelled

- Viewer frames (`app/engine/video.go`): one function under `videoMu`. It drains a queue
  another thread receives from, as `enqueueFrame` does, so it would show `NoTornGop` a
  second time.
- Clipboard: a watcher that polls the sequence number of the Windows clipboard; when
  that changes, and who writes, is outside the code.
- The listener (`server/listener.go`): a copy of the connections under the mutex, and a
  look at `closed` under it, the protocol of `GuardedRelay` with one lock.
- The rest of the web host (`web`): HTTP handlers around the `StreamHub` and the
  `AuthManager`, which are modelled. Their own state is counters that are taken and given
  back in one function.
- Pixels (capture, encoder, decoder), drawing and widgets (`app/native`, the
  GUIs, `web/assets`), certificate and key material, settings on disk, text of messages,
  and the Windows calls below all of them.
