# Infrawise device lab: TLA+ models, model checking and proofs

Infrawise lets testers share Android devices from a browser. A server process
(`src/apps/server`) keeps the authoritative state in Redis, hands devices out
in first-come order, streams the screen, injects input through ADB, and cleans
a device between two testers. This directory models the parts of it that decide
who owns a device and when, checks them with TLC and proves the main safety
results with TLAPS.

## 1. Inventory

| component (source) | state it keeps | operations | hard behaviour | what makes it correct |
|---|---|---|---|---|
| **Store** (`scheduler/store.ts`) | Redis: `device:*`, set `avail`, `session:*`, set `sessions`, `fence:*`, `qe:*`, ZSET `queue`, `client-session:*`, `client-request:*` | one atomic Lua script (or MULTI) each: join, cancel, allocate, claim, heartbeat, disconnect, reconnect, begin termination, finish cleanup, health update, (un)register | every caller may be late: two scripts in any order, with arguments read long ago | devices and sessions agree on who owns whom; a fence is never reused; one place per client; first come, first served |
| **LabCore scheduling** (`core.ts`) | the pump's flags, running cleanups, timers, the reconciler's position | request, claim, end, disconnect; allocation pump; cleanup workers with retries; reaper; health loop; bootstrap and reconciliation | awaits between a read and its use; `kill -9` anywhere; cleanups that fail or time out | no device is forgotten; a device leaves cleanup only clean; the pump strands nobody; everybody who waits is served |
| **Session runtime** (`core.ts`, `SessionRuntime`) | map of runtimes with fences, stream, executor | activate on claim or reconnect, stop on termination | start of the stream races the stop | no stream or input of a session that is over |
| **Input executor** (`input/executor.ts`) | `appliedSeq`, `lastEnqueued`, pending count, promise chain | submit, run, gate against Redis, reply | duplicate, gap, overload, reconnect and restart between send and execution | commands run once, in order, and only for the owner |
| **WebSocket hub** (`realtime/hub.ts`) | sockets of each client, one pending frame per socket | hello, message dispatch, close, frame broadcast | several sockets of one client, a close while `register()` awaits, back-pressure | only the last close is a disconnect, and a tab that is gone keeps nothing; latest frame wins |
| **Browser connection** (`web/src/lib/connection.ts`) | `nextSeq`, phase, request, session, socket, reconnect and heartbeat timers | request, cancel, send input, handle acks and session messages, reconnect | answers of three channels (socket, POST, DELETE) out of order; its sequence counter against the server's | the tab shows the state its client is in; client and server agree on the next sequence number |
| **Device adapter** (`packages/device-adapter`) | ADB subprocesses, stream restart state | input, cleanup, health, stream | timeouts that do not stop the work | no command outlives the cleanup it belongs to; bounded |
| **HTTP routes** (`api/routes.ts`) | rate-limit windows | thin shell over LabCore | the tab may be gone before the answer | the same promises as over the socket |
| **Protocol** (`packages/protocol`) | none | rotation and letterbox mapping, frame header, schemas | rounding at the borders | the mapping stays on the device |
| **Console, UI, telemetry, scripts** | - | parsing, rendering, counters | - | - |

Interactions. Clients reach LabCore through the hub and the routes. LabCore
changes ownership only through the Store's scripts. The pump calls `allocate`
until it answers null. A termination is `beginTermination`, then stopping the
runtime, then `adapter.cleanup`/`health`, then `finishCleanup`; these are
separate awaits, so anything may run in between, and a crash may leave any
prefix of them behind. On restart `bootstrap` registers devices, repairs
sessions and then devices, and only then does the server listen and start its
timers. The executor reads session and device from Redis before every command.

## 2. Modules

| module | models | composed from |
|---|---|---|
| `DeviceLease` | the abstract promise: grant a free device under a larger token, revoke once, release after revoking | - |
| `ClientPlace` | the abstract promise to a client: one place at a time, nowhere, in the queue or in its session, and the moves between them | - |
| `LabStore` | the Redis state and every script that changes it, one action each | refines `DeviceLease` and `ClientPlace` |
| `LabCore` | the server process over the store: pump, workers, reaper, health loop, crash and bootstrap | EXTENDS `LabStore`, refines it |
| `InputChannel` | one session's input: browser, sockets, executor, Redis record | the session of `LabStore`, reduced to active, away or over |
| `ScreenStream` | the runtimes and captures of one device over its sessions: streams, their processes, restarts, termination, crash | the lease of `LabStore` and the cleanup of `LabCore`, reduced to one device; refines `DeviceLease` |
| `CleanupAttempts` | one device under `cleanupDevice`, in seconds: the commands of an attempt, their limits, `withTimeout`, retries, abandoned attempts | justifies the step `CleanupRuns` of `LabCore` |
| `FramePath` | the pictures of one capture on their way to the tabs: keepalive, numbering, hub back-pressure, decoding, canvas | the running capture of `ScreenStream` |
| `ClientLink` | one tab, its successive sockets, its HTTP requests, and what the server believes of the client | the client of `LabStore`, reduced to its request or session; refines `ClientPlace` |
| `Gesture` | functions only: a pointer gesture on its way to a command and to a pixel | the command that `InputChannel` sends |
| `JpegStream` | the splitting of ffmpeg's output into pictures, for any division into chunks | one picture of it is a frame of `FramePath` |
| `LabStoreMC`, `LabCoreMC`, `LabCoreLiveMC` | constants for TLC | |
| `LabStoreProofs`, `LabCoreProofs`, `ScreenStreamProofs`, `CleanupAttemptsProofs`, `InputChannelProofs`, `PictureProofs`, `GestureProofs`, `ClientLinkProofs` | theorems | |

`DeviceLease` and `ClientPlace` join the modules. The store implements both, so they
are what every other part may rely on; `ScreenStream` and `ClientLink`, which contain
a small copy of the store of their own, implement them too, so that the copy does nothing
the store would not do. In `ClientPlace` a client's place has the names of `domain.ts`
(`WAITING`, `RESERVED`, ...); it comes from the two indexes `client-request` and
`client-session` (`Place` in `LabStore`) and from `srv` in `ClientLink`.

### How `LabStore` corresponds to the code

Redis runs a script atomically, so each script is one action. A script that
answers an error or `IGNORED` changes nothing and is a stuttering step.

* **Times.** `late[s]` is the set of the deadlines of session `s` that have
  passed. `DeadlinePasses` adds one; the scripts that set a deadline anew take
  it out. `DeadlinesRead` limits the deadlines that pass to those that anybody
  compares with the clock in the session's state; this loses no behaviour.
* **Queue.** A score is only compared, so `clock` moves by 0 (same millisecond,
  a tie that the member string decides) or by 1 at each join.
* **Random ids** are never reused: a fresh id is one whose record is `"NONE"`.
  An ended session or entry whose key has expired (`PEXPIRE`) behaves like one
  that is `ENDED` or not `WAITING`: every reader treats both the same way.
* **Left out**, because no decision reads them: the `lease:{id}` key (its TTL
  only labels a metric), `stream-pids`, the event stream, device dimensions
  and names, `lastHealthAt`. `expectedFence` is never passed by a caller.
  `lastAcceptedInputSeq` belongs to the input channel.
* **`UnregisterDevice`** runs in bootstrap for a serial that left the
  configuration. It is an action of `LabStore`; in `LabCore` the configuration
  is constant and it does not occur.

### How `LabCore` corresponds to the code

* `mode` is the phase of `bootstrap()` (`down`, `register`, `sessions`,
  `devices`, `up`), `todo` what is left of the loop, `repair` the device the
  reconciler is working on, with what it has read of it. Between two awaits of
  the reconciler anything else may run: resumed cleanups are already at work.
* `worker[w]` is a running `terminateSession`/`cleanupDevice`: `stopping`
  (awaiting the runtime), `cleaning` (in the adapter), `clean` or `failed`
  (outcome known, not yet reported), `sleeping` (before a retry).
* `pump`, `pumpAgain` are the pump's two flags; `calls` counts invocations of
  `pump()` that are scheduled but have not run. `pump = "null"` is the moment
  between Redis' null answer and the pump seeing it.
* Redis answers one connection in order, so a script and the read of its answer
  need two steps only where another step in between matters (pump, reconciler).
* `dirty` is a history variable: devices that a session has used and no cleanup
  has finished since.
* `Crash` loses all of the memory and none of Redis.
* The adapter is external: `CleanupRuns` may clean and be healthy, clean and not
  be healthy, or fail. That an attempt is one step, and that none goes on after
  its timeout, is what `CleanupAttempts` shows.
* `faults` bounds what is not the system's own doing: kills of the process and
  failed probes of an idle device.

### How `InputChannel` corresponds to the code

* `browser` is `LabConnection` (socket open, phase active, `nextSeq`); `up` and
  `down` are its socket. `stray` is what the server may still read from a socket
  the browser has given up, until it notices the close (`hub.old`).
* `hub` is what the hub is awaiting: `marking` is a `clientDisconnected` on its
  way to Redis, `greet` the position of `register()`: reconnect script, start
  of the stream, reading of the snapshot, `hello`. `starting` holds the number
  `session.active` will announce, read before the stream started.
* `exec` is the `InputExecutor`: `lastEnqueued`, `lastApplied`, the promise chain,
  and the command in `execute()` with its position: ownership check (`gate`),
  adapter (`call`), `updateSessionInputSeq` (`persist`).
* `owner` is the session as the check sees it. A passed `expiresAt` and an error
  of Redis are the refusal that `ExecGate` always allows.
* Only messages the browser acts upon are sent: `session.active`/`hello`, the end
  of the session, and rejections with an `expectedSeq`. Fences only distinguish
  sessions, and there is one.
* Bounds of the model: one abandoned socket at a time, and a browser does not
  open a socket while the greeting of the one before waits for Redis (its
  back-off of at least 250 ms against a few round trips).
* `newest` and `late` are history variables.

### How `ScreenStream` corresponds to the code

* A stream is one call of `adapter.startStream`, with its position: awaiting the
  display's size, probing (the first 1500 ms of screenrecord), `done` (the handle
  is returned), `failed` (it threw), `dead` (its server was killed). `pipe` and
  `loop` are the two captures' closures: `on` until their `stopped` flag is set
  or the loop gives up. A stream in mode `auto` whose probe fails has both.
* `procs` are processes of the operating system: ffmpeg, the first screenrecord,
  or that of a later segment. They may exit at any moment; `later` stands for
  every further segment.
* `handle.pids` is an array that the adapter goes on pushing the pids of later
  segments into, and the Redis key `stream-pids` is written once, when the runtime
  takes the handle. `recorded` names the stream whose handle was written, and
  `Recorded` the processes whose pids are in Redis: ffmpeg and the first
  screenrecord of that stream. A restart kills these and no others.
* `runtime[s].ending` is a `terminateSession` that a failing stream has called and
  Redis has not yet executed. `ender` is the termination itself: between
  `beginTermination` and `stopRuntime`, then in cleanup.
* What runs between two awaits is one step: `ProbePasses` hands over the handle
  and writes its pids, `StopRuntime` stops the handle and clears them, since the
  commands of one Redis connection are executed in the order they were given.
* Bootstrap is one step: the server does not listen before it has ended.
* Left out: the contents and numbers of frames, the 170 s timer (an exit of the
  segment like any other) and the graceful `stop()`.
* `overtaken` is a history variable.

### How `CleanupAttempts` corresponds to the code

* An attempt is `adapter.cleanup` (BACK, HOME, and a force-stop where a package is
  configured) and then `adapter.health` (two commands). `step` is the command that
  runs, `left` the seconds until `adbExec` kills it, `timer` the seconds until
  `withTimeout` stops waiting. `withTimeout` does not stop the work: what it gives
  up joins `strays` and goes on.
* With the default limits the commands need at most 2 x 10 s, less than the 30 s of
  `CLEANUP_TIMEOUT_MS`. The three values of `CleanupTimeouts` show both sides: under
  20 s a cleanup can be abandoned and meet the retry or the next session, above it
  cannot. With a package to stop, 3 x 10 s meet 30 s exactly, and the guard of
  `NoneAbandoned` (`>`) says why that is not enough.
* A second passes only if nothing is due, so timers fire at their second, in any
  order with the commands of the same second. `Reports` takes no time.
* A `kill -9` leaves commands behind too; they belong to no attempt and are not in
  this module.

### How `FramePath` corresponds to the code

* A frame is the version of the screen it shows. The screen changes at any moment;
  `ScreenChanges` may or may not produce an encoded frame, so that nothing is
  assumed of screenrecord and ffmpeg. `shot` are the two screencaps (the priming
  one and the keepalive's); each shows the screen at the time it was asked for.
* `wire` is `bufferedAmount`, counted in frames; `pending` and `timer` are the hub's
  `pendingFrame` and `flushTimer`; `decoding` are the `createImageBitmap` calls that
  `handleFrame` awaits, which end in any order; `shown` is the canvas.
* The viewport draws whatever decoding ends last. A picture may therefore go back in
  time; `PictureCatchesUp` says that it does not stay there.

### How `ClientLink` corresponds to the code

* `pipe` is the one ioredis connection: commands are executed and answered in the
  order in which they were issued. A handler is a chain of commands; the step that
  executes one appends the next. So two handlers interleave exactly as they do in
  Node, and no order is possible that one connection excludes. The names of the
  commands are those of the functions: `connected`, `session`, `reconnect`, `claim`,
  then `state`, `held`, `device`, `request` (`getStateByClientId`) and `pool` for
  `register()`; `disconnected`, `load`, `mark` for the last close of a client; `end` and
  `terminate` for `endSession`. What a handler has read travels with its next command.
* `srv` is the client in Redis: idle, waiting, reserved, active or away, with the
  id of its request (its session has the same). `ver` counts the changes, so that an
  answer can be compared with one read earlier. The readings of `poolStatus` and of
  `broadcastQueueAndPool` are one round trip each.
* `link[s]` is a connection: the tab's end `open`, the hub's record `hub`, and the
  messages under way. The hub notices a close any time later, also after the next
  socket has registered.
* `tab` is `LabState` as far as a message can change it; `http` its POST and its
  DELETE. They travel on connections of their own: a request that is sent (`sent`,
  `cancel`) arrives any time later, also after a refreshed page has been greeted, and an
  answer overtakes or follows the socket's messages. `FetchFails` is a rejected fetch
  or a refusal by the rate limit: the request may still arrive, or never.
* A tab sends heartbeats for the session it was last told is active (`Beats`).
* `left` is one budget for what the tester, the network and the rest of the server
  do on their own: a broken connection, a refresh, a cancel, an end, a deadline that
  passes although the tab is connected, a session limit, a failing stream or fetch,
  and the start of the process before, after which the first disconnection still has to
  load its script.
* Deadlines are seconds and round trips milliseconds: a deadline passes only when
  Redis has answered everything and messages have been delivered (`Settled`).

### How `Gesture` corresponds to the code

* The module has no state and so no run: its theorems hold for every size and every
  pointer. `PointerToNormalized` and `NormalizedToDevice` are `mapping.ts`, the rest
  is `DeviceViewport.tsx` (`OnPointerUp`, `ToContainer`), the schema of taps and
  swipes (`ValidPayload`) and the duration in `AdbDeviceAdapter.swipe`.
* A quotient is an exact pair `[n, d]`; what floating point adds to it is left out.
  Lengths are integers in a unit as small as one likes (`CssPixel` of them are a CSS
  pixel), so that positions between two pixels are covered. Durations are whole
  milliseconds.
* All four rotations are modelled; today's adapter always reports 0 (`adb.ts:176`).

### How `JpegStream` corresponds to the code

* Bytes are known by their offset in ffmpeg's output. `JpegStreamParser.buffer` is
  always a suffix of what has arrived, so it is the interval `[from, got)`; a piece is
  `first` and `next`, the offset behind it. What is external is `MjpegOutput`: FF D8 and
  FF D9 occur at the ends of pictures only, as the comment above the class says.
* `Push` is one call of `push`. Its loop cuts the buffer at every marker that lies in it
  with both bytes (`Found`), so the pieces are what lies between two of them.
* The module has theorems and no run: an output of any length is not a finite
  instance, and its inductive invariant was found with outputs of 15 bytes.

## 3. Runs

| run | module / cfg | what it shows |
|---|---|---|
| `store_ownership` | LabStoreMC | `TypeOK`, `OwnershipAgrees`, `FencesNeverReused`, `OnePlacePerClient`, `NoOvertaking`, and that the store implements `DeviceLease` and `ClientPlace` (`ImplementsLeases`, `ImplementsPlaces`) |
| `core_crash` | LabCoreMC / Crash | `CoreTypeOK`, `NoDeviceForgotten`, `WorkersBelong`, `FreedOnlyWhenClean`, `ImplementsStore` with a fault in any state |
| `core_served` | LabCoreLiveMC | `EveryWaiterServed`, `WorkConserving`, and `OnlyCleansInCleaning` as long as there is no crash |
| `core_dirty` | LabCoreMC / Dirty | violated: finding 1 |
| `core_double_cleanup` | LabCoreMC / Double | violated: finding 2 |
| `core_stranded` | LabCoreMC / Stuck | violated: finding 3 |
| `input_channel` | InputChannel | `InSendOrder`, `NoReplay`, `AtMostOneLate`, `EveryCommandAnswered` with three commands, a queue of two and one fault |
| `input_desync` | InputChannel / Desync | violated: finding 4 |
| `screen_stream` | ScreenStream | `RuntimeHasDevice`, `RestartsOnce`, `RestartFindsCapture`, `OnlyKnownLeaks`, `NeverDarkForGood`, `LeasesAsStored` with two sessions, three streams, one crash |
| `cleanup_attempts` | CleanupAttempts | `NoneAbandoned`, `FinishesInTime` with every command hanging or failing at any second |
| `frame_path` | FramePath | `LatestFrameWins`, `PictureCatchesUp` with a slow tab, a stalled H.264 path, failing screencaps and decodings |
| `client_link` | ClientLink | `NothingLeftHanging`, `TabAgrees`, `UnattendedIsReleased`, `MovesAsStored` with two sockets, a refresh, late closes, and HTTP requests that come late, fail or lose their answer |

**Bounds and why they are enough.** The ownership run has two devices and two
clients, so that a late report can meet another session on the same device and
another device of the same client; two sessions suffice for every two-party
property, because each relates at most two sessions. It has two requests, a head
that is cancelled or claimed and one behind it; that `NoOvertaking` holds of any
number is proved. The core runs have
one device (devices share nothing but the queue, and a session never changes
its device) and two sessions, so a late cleanup of the first can meet the
second. `Workers` is a pool: a device can have at most one cleanup from its
termination and two from one reconciliation, hence three for one crash, so
that the pool is never the reason why a cleanup does not start. `MaxFailures =
2` lets a cleanup fail, be retried and give up. `MaxFaults = 1` lets the server
die in any state before the bootstrap, or an idle device fail a probe;
`MaxFaults` and the finite sets of ids are the only bounds. Three commands fill
the executor (one running, two queued), and one fault breaks the socket or kills
the process. Three streams are a session's two and one of the next session (or a
third that must not happen), so that what one session leaves behind meets the
next; the run uses mode `auto`, the default, which reaches both captures.
`cleanup_attempts` runs with the code's own times. In `frame_path`, two changes of
the screen fill a buffer of two and leave a third frame pending, and two decodings
can overtake each other; sockets share nothing, so one is enough. In `client_link`
one request and its session pass through every state; two sockets are the old and
the new one of a refresh or a broken connection; two events are, for instance, a
break that is noticed late and a session that ends meanwhile, or a DELETE and the
failure of its fetch. What the server and the tab do by themselves costs no event.
Deadlock checking is on for the store and the core; where all ids are used up,
the health loop and the heartbeats still go on. It is off for `InputChannel`,
where a session ends and nothing is left to do, for `ScreenStream`, where the
last session's device is free, and for `ClientLink`, where the tab is gone.

**Fairness.** `Fairness` of `LabCore` assumes what Node and the timers give:
promises settle (`WorkerNext`, the pump, bootstrap), the clock moves
(some claim or session deadline passes, `TimePasses`), the reaper's timer fires
(some session is expired, `ReaperExpires`), and an idle device that is offline is found healthy again eventually (`HealthRecovers`; this is the
assumption of `docs/ANSWERS.md:46-48`). Nothing is assumed of clients: they may
neither claim, heartbeat, disconnect nor end a session. A cleanup that fails
for ever ends in `OFFLINE` because of the failure limit, so no fairness about
its outcome is needed. `InputChannel` assumes that the executor's promises settle
(`ExecNext`), adapter calls by their timeouts. `ScreenStream` assumes that the adb
calls and the probe of a starting stream end (each has a timeout) and that a
termination that was asked for goes on (`Settles`); processes need never exit,
and clients need never act. A capture that runs counts as one that shows
pictures; what happens to them is `FramePath`'s: its timers fire, an open socket
drains, a screencap and a decoding fail only finitely often in a row
(`SF` on the keepalive's arrival and on `Drawn`). `ClientLink` assumes that Redis
answers and that the hub and an open tab read what they have received (`Delivery`), and
that deadlines pass and the reaper acts on them and on missing heartbeats (`Timers`). The
second is strong fairness, because a deadline is modelled to pass only when Redis has
answered (`Settled`), and the tester may keep Redis busy again and again; seconds pass
all the same. Nothing is assumed of the tester, the network, the HTTP requests, the
streams, or of closed connections being noticed. TLC's liveness checking allows no symmetry, so `LabCoreLiveMC` draws
the random ids in a fixed order; by symmetry of the ids every behaviour has a
renaming that does so (request 1 goes to the first client: two requests exist,
and the tie-break makes both orders possible).

## 4. Proofs

`LabStoreProofs` proves, for all sets of devices, clients and ids and every
failure limit, that `Spec` implies each invariant of `store_ownership`, that no two live sessions share a device
(`NoDoubleAssignment`), and that `Spec` implements `DeviceLease` and `ClientPlace`.

The inductive invariant is `Inv`: `TypeOK`, `OwnershipAgrees`,
`FencesNeverReused`, `OnePlacePerClient`, `EnqueuedByClock` and `NoOvertaking`.
None of the parts is inductive alone. `Claim` writes the device of a session, so
it needs that the device is bound to it. `FencesNeverReused` needs that no
session has a fence above the device's counter. `NoOvertaking` compares claimed
with waiting requests, and a join preserves it only because nothing has a score
above `clock`. One lemma per script shows that it preserves `Inv`; `InvNext`
combines them. The refinement needs `OwnershipAgrees`: a device becomes free only
when its session's lease is revoked. `PlacesImplemented` needs `OnePlacePerClient`: a
reservation goes to the client at the head of the queue, and only because the indexes agree
with the records is that client nowhere else; for the same reason a late cleanup reports
for a session that is nobody's place, and is a stuttering step.

`LabCoreProofs` proves that every step of the server is a step of the store or
leaves it alone (`CoreImplementsStore`), so all results about the store hold of
the server (`CoreOwnership`, `CoreKeepsPromises`), and that `WorkersBelong`
holds: no cleanup runs for a session that is alive. The inductive invariant
`CoreInv` adds `CoreTypeOK`, `WorkersBelong` and `RepairBelongs`: what the
reconciler read of a device must still name its session when it acts on it.

Two more invariants build on `CoreInv`. `RecoveryInv` proves for any number of
restarts that no device stays behind in `CLEANING` (`NothingForgotten`) and that the
pool gets back only clean devices (`FreedClean`). It follows a device through the
phases of the bootstrap: until a worker has it, the loop over sessions still has its
session ahead, or that session is `ENDED` (a failed attempt was reported before the
crash) and the loop over devices still has the device ahead. For that every session
whose cleanup was not reported must be in the set `sessions`. `CleanMeansClean` says
that an attempt about to be reported as a success has cleaned the device if that is
still the worker's: of two overlapping cleanups the second finds it gone.
`CalmInv` is about a process that is not restarted: a device that is being cleaned
has exactly one worker (`CleansOnlyInCleaning`), `avail` is exact, and what the pump
found when it last looked still is so, or one of its flags makes it look again
(`PumpConserving`). Both theorems assume `MaxFaults = 0`; findings 2 and 3 are the
counterexamples with one fault.

`ScreenStreamProofs` proves, in every mode and for all bounds, that a runtime is in
the map only while its session has the device (`RuntimesHaveDevices`), and that a
stopped pipeline has no process (`StreamTypeCorrect`). The inductive invariant
`StreamInv` adds that whoever ends a session ends one without a lease
(`EnderAgrees`: otherwise a cleanup could free a device under a runtime), that
nothing in memory survives the server (`DownIsEmpty`: otherwise a terminator could
appear while it is down), and that started streams and leases name sessions. On top
of it `HandleInv` proves that a runtime starts at most two streams (`OneRestart`), that
a restart would find the running capture by the pids in Redis, but for a later segment,
and nothing else (`RestartFindsTheCapture`), and that captures outlive their runtime in three ways only (`LeaksKnown`). It says that a stream
that is starting is awaited by its runtime or was overtaken, that a handle is that of a
stream that has started, and that a runtime that has not restarted has one stream. Each
step of a stream is one of three kinds: it goes on, it hands itself over, or another is
started for its session; one lemma per kind preserves the invariant.

`CleanupAttemptsProofs` proves for all limits, and with or without a package to stop,
that an attempt whose commands need less than `withTimeout` allows is never
abandoned (`CleanupsEndThemselves`) and that a cleanup is over within `MaxFailures`
times its longest attempt (`CleanupsFinish`). The inductive invariant bounds at each
command what the attempt has used by what its commands before it may have used: the
`timer` has never run further down than the limits of the commands that are over,
and `elapsed` is at most the failures so far times `Longest` plus that.

`InputChannelProofs` proves, for any number of commands, any queue limit and any
number of faults, the type invariant and the three safety properties of
`input_channel`: send order is kept, no recorded number is executed again, and at
most one command is late. The inductive invariant `InputInv` has four parts. `Types`
adds to the types that nobody knows a number the browser has not given yet, and that
there is no more than one socket per fault. `Numbers` orders the numbers: Redis at
most what was applied, that below the command under execution, that below everything
in the chain in increasing order, and all at most what was admitted. `Order` does the
same for ids: the command under execution, the chain and each socket's queue come in
send order, and all are newer than what the device has executed of their socket. The
old and the new socket are compared only through `Apart`: the old one holds commands
of earlier sockets only, which is why neither can overtake the other. `Lateness` says
that the one late command has been counted only after its call has left.

`PictureProofs` proves for any number of tabs, buffer size and history of the screen
that a socket holds a bounded number of frames (`FrameTypeCorrect`) and that
back-pressure keeps the newest frame and the order (`NewestFrameKept`). The inductive
invariant `FrameInv` says of each socket that its timer runs exactly while a frame
waits, that the waiting frame is the newest one, and that without one the last frame in
the socket's buffer is.

`GestureProofs` proves that the letterboxed picture fits its container
(`ContentFits`), that the cursor of the overlay is where the pointer is although the
inverse mapping is written separately (`CursorLandsOnPointer`), that rounding and
clamping stay on the device and within half a pixel (`PixelNearPoint`), that the pixel
tapped is less than one away from the one under the pointer (`PixelUnderPointer`),
that rotations compose (`QuarterTurns`), and that no gesture is refused by the schema
or changed by the adapter's own limits (`GesturesAreAdmitted`). They are arithmetic on
exact quotients and have no assumption but that lengths are integers.

Of `JpegStream` the module `PictureProofs` proves for any output of the encoder, any
division into chunks and any bound of the buffer that only whole pictures are emitted (`PicturesAreWhole`) and
that a picture is lost only if it, or the one before it, is longer than the buffer
(`LossIsBounded`). The one before counts because the buffer may be dropped between the
two bytes of an end marker, which is then not seen: the next picture is glued to the
rest, and dropped with it. The inductive invariant `JpegInv` says that the buffer begins
where a picture begins, or within one of which as much as fits has been dropped.

`ClientLinkProofs` proves the type invariant of `ClientLink` (`LinkTypeCorrect`), that a
connected tab's reservation is claimed and its suspended session resumed
(`NothingHangs`), and that a connected tab to which nothing is under way shows the
right state (`TabIsRight`), for any number of requests, connections and events. Both
properties speak of quiet moments (`Quiet`) and are not inductive: the invariant has to
say what is still under way. `LinkInv` is `Inv(b)` for some version `b` of the client's
state, the oldest one that still counts:

* `Truthful(b)`: whatever is under way to the tab, or has been read by a handler that is
  not finished, is true now or of a version before `b`; nothing is told before it
  happens. Without it an old answer could be the last word.
* `Informed(b)`: a tab that has last been told of `b` or a later version shows the
  client's state, and to an open tab that has not, something that tells it is under way
  (`Coming`): a message, a command of its registration, a broadcast, an answer.
* `Claimed` and `Resumed`: as long as a connected tab's reservation is not claimed, or
  its session not resumed, a registration, a reading of the session, a claim or the event
  that makes the tab claim is under way.
* `Orders`: the effects of an earlier socket's close come before the registration of
  the new one or before its reading of the session (`GoneOrder`, `MarkOrder`), and the
  broadcast of a request comes before a DELETE for it can be executed (`CancelOrder`),
  because the tab knows the number of its request only after the join, and the broadcast
  is issued at once. It is what one ioredis connection gives, and `Resumed` is not
  preserved without it. Nothing is assumed of the order of HTTP requests and sockets.

A step that changes what a tab shows moves `b` to the new version, which makes
`Truthful` easy and obliges the step to put something under way for `Informed`; every
other step keeps `b`. A cancellation keeps `b`, too: no message tells of it, so what
says that the request waits counts as true of a request that has been cancelled
(`Shows`), and in a quiet moment that is `MissedCancel`. One lemma per command of Redis and per action shows that `LinkInv`
is preserved. In a quiet moment nothing is under way, so that what is `Coming` cannot be.

The refinements `LinkMovesAsStored` and `ScreenLeasesAsStored` connect these modules with
the store. Of `ClientLink` they say that no handler acts on what it read before an await:
each of its moves is one that `ClientPlace` allows in the state of that moment. Of
`ScreenStream` they say that terminations, late exits and the reconciler follow
`DeviceLease`; `EnderAgrees` of `StreamInv` is what makes the end of a cleanup a `Release`.

Assumptions: `NoneAssumption` (the null value is no id), `RequestIdsAssumption`
(member strings are ordered), `MaxFailuresAssumption` (the limit is positive),
`TimesAssumption` (the limits are numbers), `InputNoneAssumption` (the null value is
neither a number nor a command), `LinkNoneAssumption` (a missing answer is no answer),
and those of `LabCore`, `ScreenStream`, `InputChannel`, `FramePath` and `ClientLink` on
their bounds. Every invariant and action property that a run checks is so a theorem.
Only model-checked is liveness (`EveryWaiterServed`, `EveryCommandAnswered`,
`NeverDarkForGood`, `PictureCatchesUp`, `UnattendedIsReleased`): it and `ENABLED` are
out of the prover's reach.

## 5. Findings

1. **A device can be served dirty** (`core_dirty`). A device goes `OFFLINE`
   because its cleanup failed `maxDeviceFailures` times; the health loop makes it
   `AVAILABLE` on one healthy probe without cleaning it, and the pump reserves it for
   the next tester.
2. **Two cleanups of one device after a restart** (`core_double_cleanup`). The
   device loop of the reconciler starts a second cleanup where the session loop
   has already resumed one; the first frees the device while the second still
   works on it.
3. **A free device hidden from the allocator** (`core_stranded`). The reconciler
   writes `avail` from a device record it read before an await; a cleanup that
   finishes in between is undone. The next healthy probe repairs `avail` but does
   not call the pump.
4. **Numbers diverge after a failed command** (`input_desync`). A command that
   fails or is too long uses up its number in the executor only; `hello` reads
   the number from Redis. The reconnecting browser reuses numbers, and the
   commands that carry them are acknowledged as duplicates without being
   executed.

Besides, four properties hold with exceptions that they name:

* **Captures that nobody stops.** A stream is restarted without stopping the one that
  reported an exit, and only the latest handle is stopped later, so a device can
  have several ffmpegs. `OnlyKnownLeaks` states the three ways in which a capture
  outlives its session: it was still starting when the session was ended, it was
  replaced by a restart, or its probe failed and the fallback took over. The
  leftovers also overwrite the recorded pids of the next session, which is why
  `RestartFindsCapture` holds only while nothing was overtaken.
* **A segment that a restart does not find.** After its first segment (170 s) a
  pipeline runs a screenrecord whose pid is in `handle.pids` only (`adb.ts:389`), not
  in Redis (`core.ts:596`). `RestartFindsCapture` exempts this process, although
  `docs/DESIGN.md:75-76` and `docs/ANSWERS.md:65` say that a restart kills orphaned
  captures by their persisted pids. Its ffmpeg is found.
* **What a tab is not told.** The client keeps its state in Redis, and the tab shows
  what it was told last. Nobody tells of a cancellation but the DELETE's own answer. If
  the answer is lost, or the DELETE arrives after the page was refreshed and greeted, the
  tab goes on showing that it waits, until it connects again or the tester cancels again
  (`MissedCancel`, exempt in `TabAgrees`). `TabAgrees` also says nothing of a tab whose
  last message or answer was older than one before (`seen.last`): a hello, the news of a
  started or stopped stream, or the answer to a refused DELETE can come last and be
  out of date, and the tab then shows the wrong state until the server has news for it.
  The harm to others is limited, as `UnattendedIsReleased` shows: a device is not kept
  for a tab that does not send heartbeats for its session.
* **A refresh that loses the session.** `NothingLeftHanging` exempts a session whose
  suspension was the first that a server process marked. `LabStore.run` loads a
  script before its first use, so this `markDisconnected` takes one round trip more
  than any other, and the new tab can be told that its session is active just
  before it is suspended. Nothing resumes it then, and it ends after the grace
  period, although `README.md:67` promises that a refresh keeps it. A session that
  the reaper suspends while its tab is connected (heartbeats that come late) is
  exempt for the same reason: later heartbeats do not resume it.

## 6. Not modelled, and the plan

See the "hazards" of `PROJECT.json` for what each part is to catch. Left out so far,
in the order in which they would be added:

1. **Composition**: `InputChannel`'s `owner` against `ClientPlace`. It begins with an
   active session, so only its steps can be compared, and each of them has the guard of
   the script it stands for. That the executor's check, which also compares device and
   fences, is the same as asking whether the session is active follows from
   `OwnershipAgrees`.
2. **Protocol**: the frame header and the rate-limit windows; the
   message schemas are data.

Never modelled: the natural-language console (string grammars), the UI
(rendering), telemetry (no decision reads it), scripts and deployment.
