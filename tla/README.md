# Verification of the Moonlight WebRTC Gateway

This directory holds TLA+ models of the Gateway (C++, Windows) and of its
Samsung TV client (JavaScript), the TLC configurations that check them on small
instances, and TLAPS proofs of the main safety properties for every value of the
constants. Paths are those of the repository.

## The system

A TV runs `tizen/app.js`. It speaks JSON over one WebSocket to the Gateway, which
talks HTTP to Sunshine (the game host) and runs moonlight-common-c to receive
the host's stream, which it forwards over a WebRTC PeerConnection.

| Component | State | Operations | Talks to |
|---|---|---|---|
| Session handler: `SignalingServer`, `Session` in `src/main.cpp` | session id, PeerConnection, tracks, `stopRequested`, `streamingActive`, `hostOperationActive`, streaming thread, application | start, stop, host stop/switch, answer, candidates, close | WebSocket, libdatachannel callbacks, streaming thread, Sunshine |
| Gateway protocol: `src/gateway/GatewayProtocol.cpp` | none | parse requests, build replies | session handler |
| TV client: `tizen/app.js` | `sessionState`, `currentSessionId`, screen, cancellation, switching and busy flags, `runningAppId`, `selectedSession` | user actions, status/offer/error handlers, fallback, timers | Gateway, browser WebRTC |
| Moonlight session: `src/moonlight/control/MoonlightSession.cpp` | state word, global C library | start, stop, termination callback | session handler, media and input bridges |
| Media bridge, buffer pool: `src/moonlight/` | keyframe flags, HDR verdict, slots | submit frames, keyframe requests | C library, media sender |
| Telemetry: `src/telemetry/` | log files, active session, samples | start, record, end, rotate | streaming thread, data channel |
| Test media: `H264AnnexBReader.cpp`, `OpusFileReader.cpp`, `streamTestMedia` | access units, packets, positions | load, send, keyframe requests | WebRTC tracks |
| Saved Gateways: `tizen/gateway-store.js`, `durable-storage.js`, `app.js` | list, active Gateway, editor, validation, two backends | add, edit, remove, connect, load, save | localStorage, `tizen.preference`, WebSocket |
| Input bridge: `src/moonlight/input/MoonlightInputBridgeV2.cpp`, `tizen/gamepad-input.js` | controllers, slots, sequence numbers, mouse mode | connect, state, disconnect, rumble | data channels, C library |
| Identity and pairing: `src/moonlight/control/` | three credential files, paired hosts, migration | load or create, migrate, pair, unpair | management commands, Sunshine |
| Lifecycle and IPC: `src/gateway/`, `src/tray/` | shutdown signal, service state, active pipe | start, stop, commands | Windows, tray |
| Pure functions: settings, profiles, SDP, SPS, wake address | none | validate, build, parse | everything |

What is hard here: the Gateway's handlers, its streaming thread, the WebRTC
callbacks and the host's termination callback run concurrently over one
`Session`; a stop may arrive in every stage of a launch; messages of an earlier
session reach the TV after it has asked for another; a host operation is a
sequence of HTTP calls that may fail after any of them while Sunshine changes.
What makes each part correct:

- *Session handler*: one session at a time with a fresh id; the thread never
  outlives its session; every handler and every stop finishes; input is off
  before the connection is; a host operation keeps its order and its flag.
- *TV client*: it can always stop what it shows; a cancelled launch is never
  shown and always reported; its state returns to one the user can act from.
- *Media bridge*: a keyframe request is answered, no frame is forwarded without
  those it refers to, HDR is decided in time; a frame goes out of a buffer nobody
  else writes, and no buffer is lost.
- *Telemetry*: the log is bounded whatever restarts; a summary is of its session.
- *Test media*: the samples are cut without loss; a keyframe request is answered.
- *Saved Gateways*: each address once; what was saved is there after a kill; nothing
  is saved that was removed or cancelled.
- *Input bridge*: no button stays held at the host when its controller is gone;
  an older state never replaces a newer one.
- *Pairing*: a host is trusted only when it proved the PIN, whatever fails or
  overlaps; the thread of a pairing is always joined.
- *Identity*: a crash never leaves credentials that are mixed or lost, and a
  migration that was interrupted gets there.
- *Lifecycle and IPC*: a stop is never lost and the process ends with nothing half
  done; an answer goes to the command it answers.

`PROJECT.json` lists all components and, under `hazards`, each of these risks
at its line with the properties that cover it.

## Modules

| Module | Models | Extends |
|---|---|---|
| `Protocol` | the messages of the WebSocket | |
| `SessionLease` | abstract: what the Gateway promises a client about sessions | |
| `GatewaySession` | the Gateway in the steps its threads can interleave | `Protocol` |
| `MCGatewaySession` | instances of it | `GatewaySession` |
| `GatewaySessionProofs` | theorems about it | `GatewaySession`, `TLAPS` |
| `GatewayService` | the Gateway in the steps a client can tell apart | `Protocol` |
| `TvClient` | the session part of the TV | `Protocol` |
| `TvGateway` | both, and the socket between them | `Protocol`, instances of the two above |
| `MCTvGateway` | instances of it | `TvGateway` |
| `TvGatewayProofs` | theorems about it | `TvGateway`, `TLAPS` |
| `MCTv` | it and the saved Gateways for TLC | `MCTvGateway`, `TvGateways` |
| `InputBridge` | the Gateway's controllers, slots, mouse mode, and what the host was told | |
| `InputBridgeProofs` | theorems about it | `InputBridge`, `TLAPS` |
| `TvGamepads` | the TV's gamepad manager while a stream plays | |
| `GamepadLink` | both, the two data channels and the streaming thread | `InputBridge`, an instance of `TvGamepads` |
| `MCGamepadLink` | instances of it | `GamepadLink` |
| `GamepadLinkProofs` | theorems about it | `GamepadLink`, `InputBridgeProofs` |
| `StreamSettings` | video modes, their validation, video profile, stream configuration, frame deadline | |
| `MediaBridge` | `MoonlightSession`'s state and callbacks, `MoonlightMediaBridge` | `StreamSettings` |
| `BufferPool` | `FlatBufferPool` and the leases it hands out | |
| `Telemetry` | the telemetry log and the sessions it summarises | |
| `TestMedia` | the sample readers and the loop that sends them | |
| `MCMedia` | these four components for TLC | `MediaBridge`, `BufferPool`, `Telemetry`, `TestMedia` |
| `MediaProofs` | theorems about them | `MediaBridge`, `BufferPool`, `Telemetry`, `TestMedia`, `TLAPS` |
| `PairedHosts` | `paired-hosts.json` and the threads that rewrite it | |
| `Pairing` | the pairing protocol and its thread | `PairedHosts` |
| `ManagementIpc` | the management pipe with both its ends | |
| `GatewayProcess` | the Windows service around both | `ManagementIpc`, `Pairing` |
| `ServiceProofs` | theorems about it | `GatewayProcess`, `TLAPS` |
| `IdentityStore` | the data directories: migration, creation, loading | |
| `IdentityProofs` | theorems about it | `IdentityStore`, `TLAPS` |
| `MCService` | the service and the directories for TLC | `GatewayProcess`, `IdentityStore` |
| `TvGateways` | the TV's saved Gateways, their storage and their editor | |
| `TvGatewaysProofs` | theorems about it | `TvGateways`, `TLAPS` |

**`GatewaySession`.** The socket's thread is a program counter `sock.pc`:
`HandleStart`, `HandleStop`, `HandleHostOperation`, `HandleAnswer`,
`HandleGetApps` and `HandleClosed` begin a handler, and the actions
`CheckStart` ... `CreatePeerConnection`, `StopRead` ... `StopClear`,
`HostQuery*`, `HostStart`, `HostCancel`, `HostIdle*` are its stretches between
points where another thread can run: a lock released, a join, an HTTP call. The
streaming thread is `thread.pc` (`ThreadEnter` ... `ThreadRelease`, after
`streamMoonlightMedia`). A WebRTC callback is two actions, because the code
checks `isCurrentSession` in one critical section and acts in another.
`MoonlightTerminates` and `HostAppQuits` are the host. `sent` holds what the
last step sent. The variables have the names of the `Session` fields.

**`GatewayService`** is the same code at the granularity of messages, small
enough to be composed with the TV. It is a coarser translation, and `GatewaySession` does not
refine it step by step: it says "stopping" and sets `stopRequested` in one step where the
code has two critical sections, joins a failed `createPeerConnection` with the stop that
follows, connects and announces the stream at once, and knows no callbacks of former
sessions. A TV cannot tell these apart, as its messages wait in a queue, but a
refinement mapping would have to look ahead. What relates the two is that both are shown to
implement `SessionLease`.

**`SessionLease`** says what a client may rely on: one session at a time, each with a fresh id
and for one application; a stream only inside its session; the host's application
launched for the session that is held, and none replaced by it. A session whose start fails may
leave its application running; the host's application may quit at any time.

**`TvClient`** has one action per user action and per message handler of
`app.js`; `Handle(m)` chooses by the type of the message. The two awaits of
`handleOffer` separate `HandleOffer` from `AnswerOffer`.

**`TvGateway`** joins them with two queues: the WebSocket loses and reorders
nothing, but a message may wait in it for any time.

**`InputBridge`.** Each operation of `MoonlightInputBridgeV2.cpp` holds `mutex_`
from beginning to end, so each is one action: `Connect`, `Disconnect`, `State` or
`Reject` of a state, `Activate` and `Deactivate`
(`setMoonlightSessionActive`), `OnTransportClosed`, `Shutdown`. `bridge` has the
names of the class's members; `host` is what the calls of `LiSend...` have made
the host believe: pressed buttons of each pad, the mask, the mouse buttons that
are down. `clearControllersLocked` visits an unordered map, so
`HostLearnsClear` chooses what the last call it makes still has in its mask. Time is a
flag: `long` says that Start was held longer than the 750 ms of the code.

**`TvGamepads`** has one action per entry point of `gamepad-input.js`: the two
gamepad events, `Poll`, `OpenMenu` (`pauseForUi`), `CloseMenu`, `Hide`
(`suspend`), `Show` (`resume`), and what the player does. A congested channel
drops any subset of the states an action sends; `Poll` records only those that
were sent, as the code does.

**`GamepadLink`** joins them. `control` is a queue; `states` is a sequence of which
any element may arrive or be lost next. Sequence numbers are only compared with
the last one accepted, so a state in flight carries instead the flag `stale`, set
when a newer one of its controller is accepted. The streaming thread is reduced to
its calls of the bridge.

**`MediaBridge`.** The streaming thread's actions (`Start`, the media's setup, start,
stop and cleanup, `Stop`) follow `MoonlightSession::start` and the callbacks the C
library makes in it; `SubmitVideo(f)` is `submitVideo` with everything it calls: late
frames, the HDR validation, the way to the track, the keyframe request at its end. It
is one action because its flags belong to one thread; the exception,
`moonlightIdrRequested_`, is read once. A frame is what the code looks at: its kind, its
age against the deadline of the latency mode, its HDR flags, the outcome of the SPS
parser. `chain`, a history variable, says whether the TV has what the next P
frame refers to.

**`BufferPool`.** `Flatten`, `Move` and `Drop` are the pool's `flatten`, the lease's move
assignment and its destructor. A frame is a number written into the slot, so a slot
that is overwritten under a lease shows.

**`Telemetry`** has the log as a sequence of entries with sizes, the counted
`currentFileSize_` beside it, a rotation that may fail in its removal or its rename, and
`Restart`. `Percentile` takes the code's index of a sorted order of the samples; the code's
`0.95` and `0.99` are doubles a little below these numbers, so its `ceil` is `CeilDiv`.

**`TestMedia`** starts from any sample files. A file is the sequence of what its reader's loop
meets (NAL unit types; page headers and segments), and each turn of a loop is a step:
`ReadNal`, `FinishVideo`, `ReadPage`, `ReadSegment`, `FinishAudio`. The loops run one after
the other on one thread and interleave with nothing; they are steps because then what a
reader has cut so far is a state, of which an invariant can speak. What a
reader copies out is kept as positions in the file. `SendVideo` and `SendAudio` are
`streamTestMedia`, `RequestKeyframe` the callback on another thread.

**`GatewayProcess`.** One action per step of `serviceMain` and of the ordered stop
(`StopStatus`, `StopManagement`, `JoinManagement`, `Destroy`, `Report`), two for
the control handler (it reports, then signals), and one per stretch of a
management command between calls that block. `Crash` may come at any step. Under it,
`ManagementIpc` is the pipe: the tray's `execute` with its timeout, the tray's pipe
thread, the Gateway's client thread, and both stops, which cancel I/O that may not
have begun. `Pairing` has one action for each of the five requests and for the saving,
each of which may fail or be refused; `sunshine` is what Sunshine knows.
`PairedHosts` is the file: every change reads it, writes the temporary, removes the
file and renames, in steps between which the other thread may act. The write, the removal
and the rename may each fail, the end of the data may be lost as the stream is closed, and
each leaves what the code leaves: the old file, none, or one that cannot be parsed
(`Unreadable`), which every later reading refuses. `trusted` changes with the rename, after
which the caller reports the host as saved or removed.

**`IdentityStore`.** A directory is a function from the names of its files to what they
hold: the legacy identity, an older one, that of the n-th creation, or a torn file. Of the
unique id the code only asks that it is not empty, so a part of one (`Part`) loads, and
`Torn` is an empty one. The migration is
one action per call on the file system (`Stage`, `RemoveEntry`, `BeginCopy`,
`EndCopy`, `RemoveEmpty`, `Publish`); creation writes three files through a temporary.

**`TvGateways`.** `Launch` is the app's start with `getItem`'s choice of a backend; `Kill`
is how it ends: localStorage goes back to `flushed`. `OpenEditor`,
`ConnectGatewayFromEditor`, `CancelEditor` and the messages of the connection are the
handlers of `app.js` that change the active Gateway, the pending validation or the
list; every change of the list is a write to both backends, of which each may throw.
An active Gateway has an id only when it came from the list or was put in it.

## Runs

| Run | Instance | Question |
|---|---|---|
| `gateway` | 2 applications, 1 codec, 2 sessions, callbacks connected, videoOpen, audioOpen, lost | Is anything of a session used after its release? Do host operations keep their order and the lease its promise? |
| `gateway_liveness` | 1 application, 2 codecs, all callbacks, 1 session | Does every handler and every stop finish? |
| `tv` | 2 applications, 2 codecs, 2 user actions, queue of 4; 2 addresses | What does the TV show, can it stop it, does a cancellation arrive? Is the list of Gateways what the user made it, over kills and refused writes? |
| `input_bridge` | 2 controllers, 2 slots, 3 buttons of which 1 is a mouse button | Is anything held at the host that no controller holds? Do the slots agree? |
| `gamepad` | 1 gamepad, 2 ids, 1 slot, 2 states in flight | Do both ends agree on the controllers, and does the host follow the player over a lossy channel? |
| `media` | 3 settings, 2 keyframe requests; 3 leases over 2 slots, 4 frames; 2 logged sessions, 3 samples, a log of 6 lines; 5 NAL units or 3 pages of 2 segments | Are keyframes answered, references whole, buffers intact, the log bounded, the samples complete? |
| `service` | 2 hosts, 4 commands, 2 operations, 2 starts; 3 faults | Does the service stop with nothing left running? Who is trusted, which answer goes to whom, is the identity kept? |
| `gateway_switch_race`, `tv_fallback`, `tv_settings`, `gamepad_menu`, `migration_crash` | as small as the behaviour allows | Five statements of the documentation, comments and tests that the code does not keep. |

About 283,000 (`gateway`), 180,000 (`gateway_liveness`), 309,000 (`tv`), 177,000
(`input_bridge`), 204,000 (`gamepad`), 172,000 (`media`) and 666,000 (`service`)
distinct states.

*Bounds.* `MaxSessions` caps `nextSessionId`; two sessions are needed, and
enough, for something of an old session to meet a new one, as the code never
looks beyond the current id. Two applications are needed for a switch.
`Kinds` is the set of callbacks raised: in `gateway` the others
either only send (`offer`) or act like `lost` (`trackClosed`, `offerInvalid`);
`gateway_liveness` raises them all. `MaxClicks` caps user actions: two give a
launch and its cancellation, stop, switch, change of settings or relaunch;
the invariants were also checked with three (5.5 million states). `MaxQueue` caps
the messages waiting for the TV; a Gateway that meets it waits, which delays
and disables nothing in the end because the TV's reading is fair.
In `input_bridge`, two controllers in two slots are enough to take a slot again, and
three buttons are one of each kind the code tells apart: mouse button, other button, Start.
`MaxOutbox` lets no mouse mode begin or end while one
message about the same controller waits, so that the queue is finite.
In `gamepad`, `MaxId` 2 gives one
gamepad a second id, after which it cannot be plugged in or hidden again;
with `MaxInFlight` 2 one state can overtake another; one slot means that the
second id can only have it after the first has given it back. The button is
Start alone, so that mouse mode begins and ends; the mouse buttons themselves
are `input_bridge`'s matter.

`tv`, `media` and `service` put components that share no state into one run: `focus` names
the one a behaviour is about. Two keyframe requests are one while the other waits; the three
settings give the three latency modes, both HDR codecs and one without HDR. Three leases
over two slots make the pool grow, and four frames use every slot again. Two sessions
and three samples give percentiles at the edges and a sample of the wrong session; six
lines rotate within them. Five NAL units give three access units, before, with and after the
IDR frame; three pages of two segments give packets that span pages, fill a segment or are
empty. One file is varied while the other is fixed: no step of one looks at the other, but
the pace of the video, which the fixed audio sets.
In `service` the commands are those that differ (`test` only reads, as
`pair-status` does); two operations give a command that is given up and the next one, or an
unpairing beside a pairing; two starts give a crash and what the next process makes
of the files. It begins configured for and paired with one host, and the tray is quit after
the last operation, when nothing it could ask is left, and only while no rewrite of
`paired-hosts.json` has failed or been disturbed (`Remains`): the tray's exit and what a
failed rewrite leaves behind have nothing to do with each other. Three faults
interrupt a migration three times, or a migration and a creation.
Two addresses are enough for a saved Gateway and a duplicate; nothing else of
`TvGateways` is bounded.

*Deadlock* is checked in the Gateway's runs; there a closed socket is the only
end, and `Closed` says so. In the TV's runs the user's actions are bounded and
the system rightly comes to rest, so it is not. `InputBridge` checks it, as
a bridge that has been shut down still rejects states; `GamepadLink` does not,
as it ends when the channels have closed and the session is released. `media` and
`service` do not, as streams, samples, starts and operations are bounded and end.

### What the passing runs show

- `ThreadOwnsSession`: while the streaming thread exists its session is in
  place, and a new session is never created over a running thread.
- `InputNeedsMoonlight`: input is active only over a connected host.
- `IdleMeansReleased`: a TV told `idle` without a session can start again.
- `HostOperationScoped`: `hostOperationActive` holds during host operations and
  is cleared on each way out, failures included.
- `SwitchOrdered`: a cancel is sent without a local stream; its target starts
  after the old application has quit.
- `LeaseSpec` (both Gateways): the code implements `SessionLease`; no session replaces
  another, nor another application of the host.
- `HandlerCompletes`, `StopHonoured`: no join waits for ever.
- `StreamIdKnown`, `CancelHidesStream`, `CancellationSent`: see the properties
  in `TvGateway`.
- `StopReleases`: a stop the TV sends ends the session in any stage.
- `SlotsAgree`: controllers, slot table and mask always describe the same
  assignment, so `handleRumble`'s `at()` never throws.
- `MouseHeldByController`, `PadHeldByController`: no simulated mouse button stays down at
  the host when its controller has gone, left mouse mode, or the stream has ended, and no
  pad's button when its controller has gone or is not announced. (What becomes of a pad's
  button that is held as mouse mode begins is not asked.)
- `ControllersAgree`, `MouseModeShown`: when the reliable messages have arrived,
  both ends know the same controllers and the same mouse modes.
- `HostFollows`: when the player holds still, the host ends up with the
  buttons held, whichever states were dropped, lost or overtaken: the keepalive.
- `ReferencesWhole`: no P frame reaches the TV without what it refers to, although
  the second of two late frames is dropped without a word.
- `HdrVerdict`: one verdict at most, the stream ends with a failed one, and no frame
  is sent past the two seconds without one.
- `KeyframeServed`: a keyframe request ends in an IDR frame or the end of the stream.
- `LeasesIntact`, `NoSlotLost`: a frame being sent is never overwritten, and the pool
  does not grow past what is held at once.
- `LogBounded`, `SummaryFaithful`: across restarts and failed rotations the log stays
  under its limit; a summary has the samples of its own session, and percentiles that
  are ones.
- `SamplesCut`, `TestKeyframeServed`: the readers cut the whole files, exactly before
  delimiters and after short segments, and lose nothing but the two header packets; a
  keyframe request of the test stream is answered.
- `ThreadsAccounted`: whatever is stopped or dies, the service is reported stopped only
  when no thread of it runs (the streams of a session aside, which are `GatewaySession`'s)
  and nothing is half done, and the pairing thread is never
  overwritten.
- `TrustEarned`, `FileFollowsTrust`: only a host that proved the PIN is saved or
  reported, also where rewrites overlap. The file has exactly the hosts reported as paired
  and not as removed, whichever writes, removals and renames failed and wherever the process
  died, but for three things: rewrites that overlapped, one that ended in the gap between
  the removal of the old file and the rename (by a crash or because the rename failed), and
  one whose data was lost as the stream was closed.
- `StrayAfterTimeout`: an answer goes to the wrong caller only after a command was
  given up.
- `StopCompletes`: neither the service nor the tray is on its way out for ever, unless the
  stop came just before the other thread blocked (`ReadMissed`, `WakeMissed`: a pipe thread
  that begins to listen, or sleeps with nothing to send).
- `IdentityKept`, `MigrationRecovers`: no file of an identity is replaced or removed, two
  identities are never mixed, and an interrupted migration gets there in the end. After a
  failure a complete identity may hold a part of the unique id, or of files that the
  service itself created; certificate and key of a migrated one are always whole.
- `ActiveSavedOnce`: a Gateway the TV knows by its id is in the list, and once, whatever
  is edited into what; so its next status cannot bring a removed one back.
- `OnlyOlderListsReturn`: after a kill the list is what the user left, unless the mirror
  refused it or localStorage kept an older one.

### Where the code and the documentation differ

1. *A switch does not always verify that Sunshine is idle*
   (`gateway_switch_race`): with no application running at the query, the
   target is started after the local stop without asking again.
2. *The codec fallback is refused* (`tv_fallback`): a rejected AV1 answer stops
   the stream but keeps the session allocated, so the HEVC launch the TV then
   sends gets `session-active`.
   So does a launch after the host ended the stream: the streaming thread reports
   `idle` while the session stays allocated.
3. *New stream settings restart the former application* (`tv_settings`):
   `selectedSession` is not updated by a switch.
4. *A dropped state can cost something* (`gamepad_menu`): the neutral state that
   opening the stream menu sends is dropped by a congested channel, and as the menu
   stops the polling, the keepalive too, the button stays held at the host
   until the menu closes. The same happens, unchecked here, when the network loses it.
5. *A staging directory may be published incomplete* (`migration_crash`): a process that
   died while copying leaves one whose identity is valid and whose paired hosts are not
   there yet; the next migration publishes it.

Seen in the models too, and not asserted by a run:

- a kill can bring an older list of Gateways back: localStorage, taken back to what had been
  written out, is preferred to the mirror, which has the newer list
  (`KillKeepsGateways` in `TvGateways` does not hold, against
  `tests/TizenDurableStorageTest.js:46-47`);
- a Gateway whose validation was cancelled is saved: closing the editor leaves the
  connection, which is retried without end, and its first status saves the address
  (`AddedByValidation` does not hold, against `tests/TizenUiTest.js:162-164`);
- the answer to a management command that timed out is given to the next caller
  (`docs/gateway-protocol.md:44-45` has an answer for each command; `StrayAfterTimeout`
  says when it happens);
- overlapping rewrites of `paired-hosts.json` share one temporary file and may lose a
  pairing; a crash between the removal and the rename, or a rename that fails there, as
  it does while somebody has the temporary open, leaves no file and loses every pairing. An
  unpairing then answers "Local Sunshine trust was preserved" (`main.cpp:1545`), and a
  pairing that it failed;
- data lost as `writeTextFile` closes its stream passes for written
  (`MoonlightIdentity.cpp:50-54`), and a `paired-hosts.json` that cannot be parsed is
  refused by every later pairing, unpairing and detection;
- a migration that is cut off while the unique id is copied may publish a part of it, after
  which paired hosts do not know the Gateway: only an empty one is refused
  (`MoonlightIdentity.cpp:320`, `:424`), against `:353-354`;
- a host stays saved when the verification after the saving fails, though the
  result is a failure; when the thread of a pairing cannot be started, the result stays
  `pairing-in-progress`;
- a crash in `createCredentials` leaves a part of an identity, which every later start
  refuses;
- the stops of the tray and of the management client can come just before the other
  thread blocks (`WakeMissed`, `ReadMissed`), and then wait for it;
- after a Gateway was saved from the editor, its Connect button stays disabled until the
  editor has been left with Cancel or Back once (`app.js:2467`, `:2475`).

## Fairness

`GatewaySession` assumes weak fairness of the socket's thread, of the streaming
thread, of closing, and of finishing a callback that has begun: the operating
system runs threads that can run, HTTP calls have timeouts
(`SunshineHttpClient`) and `MoonlightSession::start` returns. Nothing is assumed
of clients, of callbacks being raised, or of the host. `TvGateway` assumes that
messages are delivered and handled and that handlers and the streaming thread
go on; not that users act, that the browser answers offers, that a
PeerConnection connects or that Sunshine does anything.

`GamepadLink` assumes strong fairness of a poll that sends something and of a
state arriving: the poll timer fires every 8 ms, and a channel that is asked
again and again neither refuses every state nor loses every one. Nothing is assumed
of the player, the control channel, the worker or the streaming thread;
`HostFollows` speaks of a controller that is announced to the host and stays so.

`MediaBridge` assumes that Moonlight goes on delivering frames while connected, that it
delivers an IDR frame when it was told it needs one, and that the streaming thread goes
on. `GatewayProcess` assumes that its threads and the tray's run on; nothing of the user, of
Sunshine's user, of the service manager or of crashes. `IdentityStore` assumes that the
installer is run until the migration succeeds. `MCService` states less: the
steps that can happen only so often share one formula. `TvGateways` assumes nothing.

## Proofs

`GatewaySessionProofs` proves, for any sets of applications, codecs and
callback kinds and any `MaxSessions` (`ConstantsAssumption` in
`GatewaySession`):

| Theorem | States |
|---|---|
| `TypeCorrect` | `Spec => []TypeOK` |
| `SessionOutlivesThread` | `Spec => []ThreadOwnsSession` |
| `InputStopsFirst` | `Spec => []InputNeedsMoonlight` |
| `HostOperationEnds` | `Spec => []HostOperationScoped` |
| `SwitchInOrder` | `Spec => []SwitchOrdered` |
| `ImplementsLease` | `Spec => LeaseSpec` |
| `IdleIsReleased` | `Spec => []IdleMeansReleased` |

None of the properties is inductive alone. The invariant `IInv` is
`FlagsOK /\ DataOK /\ Where /\ Phases /\ HostOperationScoped /\ SwitchOrdered`:
`FlagsOK` and `DataOK` are the types, `Where` says which combinations of
`sock.pc`, `thread.pc` and the session's id can occur together (above all that
between `StopJoin` and `StopClear` no thread exists, and that a start finds
neither a session nor a thread), and `Phases` ties `moonlight`, `inputActive`
and `streamingActive` to the thread's place. With `Where`, the release of the
session's fields is known to happen after the thread's end; with `Phases`, the
input property follows. Each part has its lemmas, one step per action; the
theorems combine them with the temporal step. `ImplementsLease` uses `IInv` to
map each action to a step of `SessionLease` or to a stutter; that a granted session is for an
application needs that a request keeps its target through a switch (`Targeted`). `IdleIsReleased` is about
what the last step sent: of all steps only two of `stopActiveSession` say `idle` of no
session, the one that found none and the one that has just released it, and `IInv`
says what is left at either.

`TvGatewayProofs` proves, for any applications and codecs, any number of sessions and of
user actions, and queues of any length (`ConstantsAssumption` in `TvGateway`):

| Theorem | States |
|---|---|
| `TvGatewayInvariant` | `Spec => []TInv` |
| `TypeCorrect` | `Spec => []TypeOK` |
| `StreamIdIsKnown` | `Spec => []StreamIdKnown` |
| `CancelledStreamHidden` | `Spec => []CancelHidesStream` |
| `CancellationIsSent` | `Spec => []CancellationSent` |
| `TvGatewayImplementsLease` | `Spec => LeaseSpec` |

What the TV knows of the session depends on the messages it has not read, so `TInv` speaks of
the whole queue. `OffersFindId`: before every offer in it the TV has, or will have been
given, the id (`IdAfter` says after how many messages). `IdSettles`: the TV's id
is that of the Gateway's session, or a status still under way corrects it and nothing older
follows that one. `Answers`: a session that has made no offer is answered by nobody,
neither in the browser nor in a queue. `Stages` orders the Gateway's flags,
and the types say which requests name an application (`Named`), so that a session is always
for one. From these follow
that a stream is shown only with an id (`Shows`), and that a cancellation that waits is one
without an id (`Armed`). The lemmas about queues (taking the first message, appending)
are stated of any queue, and each handler of the TV is one lemma.

`InputBridgeProofs` proves, for any controllers, buttons, number of slots and
bound (`InputAssumption` in `InputBridge`):

| Theorem | States |
|---|---|
| `BridgeTypeCorrect` | `BridgeSpec => []BridgeTypeOK` |
| `SlotsAlwaysAgree` | `BridgeSpec => []SlotsAgree` |
| `MouseReleased` | `BridgeSpec => []MouseHeldByController` |
| `PadReleased` | `BridgeSpec => []PadHeldByController` |

The invariant `BridgeInv` is `Sound(bridge, host)`: the types, the slots'
agreement, what is true of each controller (one in no slot is `Absent`, an
announced one needs an active stream, and the mouse buttons it simulates are
held and not suppressed), and the two properties of the host. It is
stated of any bridge and host, not of the variables, because `Connect` removes
a controller and then adds one: the removal is a lemma of its own
used twice. A lowest free slot exists by the well-foundedness of the naturals.

`GamepadLinkProofs` proves, for any finite set of gamepads, any number of slots and of ids,
any buttons, and any bounds on what is in flight (`LinkAssumption` in `GamepadLink`: the
browser numbers the gamepads, ids are given out from 1):

| Theorem | States |
|---|---|
| `LinkInvariant` | `LinkSpec => []LinkInv` |
| `LinkTypeCorrect` | `LinkSpec => []LinkTypeOK` |
| `ControllersAlwaysAgree` | `LinkSpec => []ControllersAgree` |
| `MouseModeAlwaysShown` | `LinkSpec => []MouseModeShown` |
| `LinkImplementsBridge` | `LinkSpec => BridgeSpec` |

Both properties speak of empty channels only, so `LinkInv` says what full ones are worth.
`After(C, q, k)` are the controllers the Gateway will have once it has read `k` messages of
the control channel: after all of them they are the announced ones, and after no
number of them are they more than there are slots, because a gamepad is registered
only when there is a slot for it beside those that are about to go. So `Connect` always finds a
slot, although the Gateway and the TV count separately. Ids are new each time
(`New`), hence the messages about one controller are a connection, then a disconnection,
each once (`ChannelOK`); and the last mode under way to the TV, or else the one it
shows, is the bridge's (`MouseModesOK`). Each handler of the manager is reduced to two
relations, `Moves` and `Retouched`, from which the channel's lemma follows.
`LinkImplementsBridge` carries `SlotsAgree`, `MouseHeldByController` and
`PadHeldByController` over to a session.

`MediaProofs` proves of `MediaBridge`, for any settings a client can ask for and any number
of requests:

| Theorem | States |
|---|---|
| `MediaTypeCorrect` | `Spec => []TypeOK` |
| `ReferencesStayWhole` | `Spec => []ReferencesWhole` |
| `HdrIsDecided` | `Spec => []HdrVerdict` |

The invariant `MediaInv` adds `WaitsTogether` (the bridge waits for an IDR frame only while
Moonlight does, so a late frame it drops in silence is one Moonlight will make
good) and `CompleteMeansMain10` (a complete validation cannot fail on a later SPS). The type
needs a fact about numbers: the deadline of every mode is a natural number.

It proves of `BufferPool`, for any finite set of lease objects and any number of initial
slots:

| Theorem | States |
|---|---|
| `FramesStayWhole` | `PoolSpec => []LeasesIntact` |
| `PoolStaysSmall` | `PoolSpec => []NoSlotLost` |

The invariant `PoolInv` adds that a slot in use has a lease and that the pool is no larger
than the most leases there can be. That the cyclic search finds a free slot if there
is one is arithmetic (every slot is some number of steps from `nextSlot`) and
well-foundedness (one of them is the first); that a pool which is full has room to grow
is a count: its slots map one to one to leases other than the one asking.

And of `Telemetry`, for any sessions, positive values, samples and limit of the file
(`TelemetryAssumption`):

| Theorem | States |
|---|---|
| `LogStaysBounded` | `LogSpec => []LogBounded` |
| `SummariesAreFaithful` | `LogSpec => []SummaryFaithful` |

The invariant `LogInv` says that while the file is open the size that is counted is the size
there is, and that the active session's samples are those recorded for it. The size of a file
is its length and twice the number of its long entries, so that it needs no sum over a
sequence: an entry more is one element more in a set. A sorted order of the samples exists
because `UpTo`, the number of samples that come before or with one, ranks them; with it the
k-th sample has at least k samples at or below it (the first k map into them one to one) and
fewer than k below.

And of `TestMedia`, for any sample files and encodings (`SamplesAssumption`: no file is empty
and an Ogg file starts with a page):

| Theorem | States |
|---|---|
| `SampleInvariant` | `SampleSpec => []SampleInv` |
| `SamplesAreCut` | `SampleSpec => []SamplesCut` |
| `KeyframeIsAnswered` | `SampleSpec => []TestKeyframeServed` |

What a reader returns for a file of any length would be an induction over the file; with
its loop as steps it is an invariant. `VideoCut` says of the part of the file read so far
what `AccessUnitsCut` says of the whole, with the unit that is still open as the last; `AudioCut`
the same of packets, whose open one ends in a full segment (`OpenRun`). A turn of a
loop adds one position, so each part has a lemma for the unit that grows and one for the
unit that begins. Which two packets are dropped is a count: the k-th packet ends at the
k-th short segment (`Counted`). `Answered` adds that the IDR index names a unit with
an IDR frame, to which the request rewinds.

`ServiceProofs` proves, for any hosts, commands, operations and starts:

| Theorem | States |
|---|---|
| `ServiceInvariant` | `Spec => []ServiceInv` |
| `ThreadsAreAccounted` | `Spec => []ThreadsAccounted` |
| `TrustIsEarned` | `Spec => []TrustEarned` |
| `FileKeepsTrust` | `Spec => []FileFollowsTrust` |
| `AnswersCrossOnlyAfterTimeout` | `Spec => []StrayAfterTimeout` |

`ServiceInv` has four parts, each about the variables of one or two components: the pipe carries one
exchange at a time and, until something is given up, all of it belongs to one
command (`IpcInv`); what a rewrite is about to write is what was trusted, changed by the
host it is about, and the file has what is trusted outside the gap of a rewrite, also
after others that failed (`FollowInv`, up to the three exceptions of `FileFollowsTrust`,
which `disturbed` records); what is in any file, rewrite or step of a pairing was earned
(`EarnInv`); and where the main thread, the commands and the pairing can be together
(`OwnInv`). A step of the process is first reduced to what it is for a component, and the
component's lemma then shows the part kept.

`IdentityProofs` proves, for any number of faults (`StoreAssumption`: no directory is the value
that stands for none):

| Theorem | States |
|---|---|
| `StoreInvariant` | `StoreSpec => []StoreInv` |
| `IdentityIsKept` | `StoreSpec => IdentityKept` |
| `MigratedIdentityLoads` | `StoreSpec => []MigratedLoads` |

The invariant `StoreInv` says that a migration only ever works on a destination that holds
nothing, that what it publishes has a whole certificate and key of the legacy directory
and its unique id or, only after a failure, a part of it, and that a
creation began from nothing and wrote, in order, the files that are there, each whole or,
only after a failure, in part. The third theorem is
what remains true of the comment that `migration_crash` refutes: what is published may lack
the paired hosts, but its identity loads.

`TvGatewaysProofs` proves, for any addresses (`GatewaysAssumption`: none of them is one of
the values that stand for no Gateway, no list or no entry):

| Theorem | States |
|---|---|
| `ListInvariant` | `ListSpec => []ListInv` |
| `ListTypesHold` | `ListSpec => []ListTypeOK` |
| `ActiveIsSavedOnce` | `ListSpec => []ActiveSavedOnce` |
| `MirrorReturnsList` | `ListSpec => OnlyOlderListsReturn` |

`ListInv` has the lists without repetitions, in the app and in each backend (`Lists`), so
that reading one back changes nothing (`NormalList`); a Gateway in the editor that is saved,
which is why a validation that fails can make it the active one again (`App`);
a localStorage that has what was written out while the app does not run (`AtRest`);
and a mirror with the app's list, or none for an empty one, as long as nothing was ever
written out and the mirror refused nothing (`Mirrored`). Each operation on the list is a lemma
about a list, and each step of the app one about the invariant.

The type invariants of `TvGateway`, `GamepadLink` and `TvGateways` are theorems; no run
lists them.

Only model-checked: the liveness properties (`HandlerCompletes`, `StopHonoured`,
`StopReleases`, `HostFollows`, `KeyframeServed`, `StopCompletes`, `MigrationRecovers`), as
liveness is beyond the prover, and what the violation runs show.

## Not modelled, and why

Assumed of the parts outside the repository: libdatachannel delivers the
callbacks of one socket, and of one PeerConnection, one at a time, the latter
perhaps late; the WebSocket is reliable and ordered; blocking calls return.

Of input: sticks, triggers, mouse movement, scrolling, rumble and diagnostics are
left out, as data on which no control depends. `GamepadLink` begins when both channels are open and a
stream plays on the TV, and ends when they close; `OnTransportClosed` while
they are still open, which `stopActiveSession` calls, is an action of
`InputBridge` but not of `GamepadLink`.

`MediaBridge` takes the outcome of the SPS parser and of the WebRTC sender as inputs, and
leaves out audio packets, which pass through. `TestMedia` begins behind the byte
parsers. `Pairing` has the verdict of the cryptography, not the cryptography.
`GatewayProcess` is the service; the console host has the same runtime and waits for
Ctrl-C. The session handler and the management thread are not composed: what they
share, whether a session is active when a host is unpaired, is a free choice there.
`IdentityStore` has no access control lists and no contents of certificates.
`TvGateways` assumes `tizen.preference`, and has neither wake-up nor the other stored
values, which are saved in the same way.

Left out so far: a second client replacing the first, as what two sessions do to the C
library's global state is decided in that library; autostart of the TV; ICE
candidates (they change nothing the properties speak of); the text of SDP, SPS, JSON,
HTTP and logs; the WebRTC sender's RTP; artwork (a cache whose files are replaced
whole); Wake on LAN (one packet to an address that is looked up); the display state; the
tray's windows and status monitor; packaging.
In `GatewayService` the error `host-operation-active` is absent: on one socket,
whose handlers run one at a time, it cannot be met.

## Plan

1. (done) `GatewaySession`, `SessionLease`, proofs; `GatewayService`,
   `TvClient`, `TvGateway`.
2. (done) Input: `InputBridge` with its proofs, `TvGamepads`, `GamepadLink`. Its
   safety is proved for every constant.
3. (done) Media: `MediaBridge`, `BufferPool`, `Telemetry`, `TestMedia`, with proofs of
   all four.
4. (done) Identity and pairing: `IdentityStore`, `PairedHosts`, `Pairing`, with proofs.
5. (done) Lifecycle and management pipe: `ManagementIpc`, `GatewayProcess`, with proofs.
6. (done) The TV's saved Gateways: `TvGateways`, with proofs. Left of the pure functions: the protocol's
   validation, SDP and SPS against reference definitions.
7. (done) Proofs of `IdleMeansReleased` and of the safety of `TvGateway`.
8. Not planned: `GatewaySession` as a refinement of `GatewayService` (see there).
