---------------------------- MODULE ScreenStream ----------------------------
(***************************************************************************)
(* The screen of one device, shown to the successive sessions that have it *)
(* (server/src/core.ts, "session runtime"), and the capture the adapter    *)
(* runs for that (device-adapter/src/adb.ts): screenrecord segments piped  *)
(* into ffmpeg, or a loop of screencaps.  Starting a capture takes several *)
(* adb calls, during which the session may be ended; capture processes may *)
(* exit at any moment and outlive a server that is killed.                 *)
(*                                                                         *)
(* A stream is one call of adapter.startStream.  Its closures (the handle, *)
(* the exit handlers) belong to the server process; the processes it spawns*)
(* belong to the operating system.                                         *)
(***************************************************************************)
EXTENDS Integers

CONSTANTS
    Mode,          \* config.streamMode
    MaxSessions,   \* bounds: sessions the device is given to,
    MaxStreams,    \* calls of startStream
    MaxCrashes     \* and times the server process is killed

ASSUME StreamBoundsAssumption ==
    /\ Mode \in {"auto", "screenrecord", "screencap"}
    /\ MaxSessions \in Nat /\ MaxStreams \in Nat /\ MaxCrashes \in Nat

VARIABLES
    up,        \* the server process runs
    crashes,
    lease,     \* Redis: the last session that was given the device, and its state
    recorded,  \* Redis: stream-pids, as the stream whose handle they were read from; 0 for none
    ender,     \* terminateSession and cleanupDevice of that session
    runtime,   \* the runtimes, of each session: in the map, its handle, its restarts
    stream,    \* the streams and their closures
    procs,     \* the capture processes that are alive
    overtaken  \* history: streams that were starting when their runtime was stopped

streamVars == <<up, crashes, lease, recorded, ender, runtime, stream, procs, overtaken>>
storeOnly == <<recorded, runtime, stream, procs, overtaken>>

-----------------------------------------------------------------------------

Sessions == 1 .. MaxSessions
Streams == 1 .. MaxStreams

Held == {"reserved", "active", "away"}
Runtime == [mapped : BOOLEAN, handle : 0 .. MaxStreams, restarts : 0 .. 1, ending : BOOLEAN]

\* "pipe" is the pipeline of screenrecord and ffmpeg, "loop" that of screencaps.
Capture == {"none", "on", "off"}
Stream == [session : 0 .. MaxSessions, pc : {"unused", "display", "probe", "done", "failed", "dead"},
           pipe : Capture, loop : Capture]

\* The ffmpeg of a stream, the first screenrecord, and the one of a later segment.
Process == Streams \X {"ffmpeg", "first", "later"}
ProcessesOf(i) == {p \in procs : p[1] = i}

\* The processes whose pids are in Redis: handle.pids is written once, when the handle is
\* taken.  The pid of a later segment is pushed into that array, but is not written again.
Recorded == {<<recorded, "ffmpeg">>, <<recorded, "first">>}

NoRuntime == [mapped |-> FALSE, handle |-> 0, restarts |-> 0, ending |-> FALSE]
NoStream == [session |-> 0, pc |-> "unused", pipe |-> "none", loop |-> "none"]

StreamInit ==
    /\ up = TRUE /\ crashes = 0
    /\ lease = [id |-> 0, state |-> "free"]
    /\ recorded = 0
    /\ ender = "none"
    /\ runtime = [s \in Sessions |-> NoRuntime]
    /\ stream = [i \in Streams |-> NoStream]
    /\ procs = {}
    /\ overtaken = {}

-----------------------------------------------------------------------------
(* Starting a stream. *)

Unused == {i \in Streams : stream[i].pc = "unused"}

\* startStream up to its first await: the adapter asks for the display's size.
Starting(s) == [session |-> s, pc |-> "display", pipe |-> "none", loop |-> "none"]
Starts(s, streams) ==
    \E i \in Unused :
        /\ \A j \in Unused : i <= j
        /\ stream' = [streams EXCEPT ![i] = Starting(s)]

\* startStream returns a handle: the runtime takes it and the pids it names at that time
\* are recorded; that of a screencap loop names none.
Handed(i, pids) ==
    /\ runtime' = [runtime EXCEPT ![stream[i].session].handle = i]
    /\ recorded' = pids

\* Mutated form of Refused: the error is logged and nothing else.
RefusedSilently(i) == UNCHANGED <<runtime, recorded>>

\* startStream throws: the session is to be terminated.
Refused(i) ==
    /\ runtime' = [runtime EXCEPT ![stream[i].session].ending = TRUE]
    /\ UNCHANGED recorded

DisplayFails(i) ==
    /\ stream[i].pc = "display"
    /\ stream' = [stream EXCEPT ![i].pc = "failed"]
    /\ Refused(i)
    /\ UNCHANGED <<up, crashes, lease, ender, procs, overtaken>>

DisplayRead(i) ==
    /\ stream[i].pc = "display"
    /\ IF Mode = "screencap"
         THEN /\ stream' = [stream EXCEPT ![i].pc = "done", ![i].loop = "on"]
              /\ Handed(i, 0)
              /\ UNCHANGED procs
         ELSE /\ stream' = [stream EXCEPT ![i].pc = "probe", ![i].pipe = "on"]
              /\ procs' = procs \cup {<<i, "ffmpeg">>, <<i, "first">>}
              /\ UNCHANGED <<runtime, recorded>>
    /\ UNCHANGED <<up, crashes, lease, ender, overtaken>>

\* The first segment has lived for 1500 ms, or could not be spawned at all.
ProbePasses(i) ==
    /\ stream[i].pc = "probe"
    /\ stream' = [stream EXCEPT ![i].pc = "done"]
    /\ Handed(i, i)
    /\ UNCHANGED <<up, crashes, lease, ender, procs, overtaken>>

\* The first segment has exited.  Nothing stops the pipeline, whose exit handler
\* has started the next segment already.
ProbeFails(i) ==
    /\ IF Mode = "auto"
         THEN /\ stream' = [stream EXCEPT ![i].pc = "done", ![i].loop = "on"]
              /\ Handed(i, 0)
         ELSE /\ stream' = [stream EXCEPT ![i].pc = "failed"]
              /\ Refused(i)

-----------------------------------------------------------------------------
(* A capture exits. *)

\* Mutated form of Exits: the restart is not counted.
ExitsUncounted(s, streams) ==
    \/ /\ ~runtime[s].mapped
       /\ stream' = streams
       /\ UNCHANGED runtime
    \/ /\ runtime[s].mapped
       /\ Starts(s, streams)
       /\ UNCHANGED runtime

\* onStreamExit: one restart per runtime, the second exit ends the session.
Exits(s, streams) ==
    \/ /\ ~runtime[s].mapped
       /\ stream' = streams
       /\ UNCHANGED runtime
    \/ /\ runtime[s].mapped /\ runtime[s].restarts >= 1
       /\ stream' = streams
       /\ runtime' = [runtime EXCEPT ![s].ending = TRUE]
    \/ /\ runtime[s].mapped /\ runtime[s].restarts = 0
       /\ Starts(s, streams)
       /\ runtime' = [runtime EXCEPT ![s].restarts = 1]

\* The exit handler of a segment starts the next one unless the stream was
\* stopped; in the first 1500 ms the probe hears of it, too.
SegmentExits(i) ==
    \E kind \in {"first", "later"} :
        /\ <<i, kind>> \in procs
        /\ stream[i].pipe = "on"
        /\ procs' = (procs \ {<<i, kind>>}) \cup {<<i, "later">>}
        /\ IF stream[i].pc = "probe" THEN ProbeFails(i) ELSE UNCHANGED <<stream, runtime, recorded>>
        /\ UNCHANGED <<up, crashes, lease, ender, overtaken>>

\* adbProc.on("error"): no process, no exit, no further segment.
SegmentUnspawned(i) ==
    \E kind \in {"first", "later"} :
        /\ <<i, kind>> \in procs
        /\ stream[i].pipe = "on"
        /\ procs' = procs \ {<<i, kind>>}
        /\ Exits(stream[i].session, stream)
        /\ UNCHANGED <<up, crashes, lease, recorded, ender, overtaken>>

\* Its exit handler is installed only after the probe has passed.
FfmpegExits(i) ==
    /\ <<i, "ffmpeg">> \in procs
    /\ procs' = procs \ {<<i, "ffmpeg">>}
    /\ IF stream[i].pc = "done" /\ stream[i].pipe = "on" /\ stream[i].loop = "none"
         THEN Exits(stream[i].session, stream)
         ELSE UNCHANGED <<stream, runtime>>
    /\ UNCHANGED <<up, crashes, lease, recorded, ender, overtaken>>

\* Three screencaps in a row have failed.
LoopFails(i) ==
    /\ stream[i].loop = "on"
    /\ Exits(stream[i].session, [stream EXCEPT ![i].loop = "off"])
    /\ UNCHANGED <<up, crashes, lease, recorded, ender, procs, overtaken>>

\* A process nobody in the server listens to any more.
OrphanExits(i) ==
    \E kind \in {"first", "later"} :
        /\ <<i, kind>> \in procs
        /\ stream[i].pipe # "on"
        /\ procs' = procs \ {<<i, kind>>}
        /\ UNCHANGED <<up, crashes, lease, recorded, ender, runtime, stream, overtaken>>

StreamNext(i) ==
    \/ DisplayFails(i) \/ DisplayRead(i) \/ ProbePasses(i)
    \/ SegmentExits(i) \/ SegmentUnspawned(i) \/ FfmpegExits(i) \/ LoopFails(i) \/ OrphanExits(i)

-----------------------------------------------------------------------------
(* The session. *)

\* A pump reserves the device for the next session.
Reserve ==
    /\ up /\ lease.state = "free" /\ lease.id < MaxSessions
    /\ lease' = [id |-> lease.id + 1, state |-> "reserved"]
    /\ UNCHANGED <<up, crashes, ender, storeOnly>>

\* A claim or a reconnect, and activateRuntime.
Activate ==
    /\ up /\ lease.state \in {"reserved", "away"}
    /\ lease' = [lease EXCEPT !.state = "active"]
    /\ \/ /\ runtime[lease.id].mapped
          /\ UNCHANGED <<runtime, stream>>
       \/ /\ ~runtime[lease.id].mapped
          /\ runtime' = [runtime EXCEPT ![lease.id] = [NoRuntime EXCEPT !.mapped = TRUE]]
          /\ Starts(lease.id, stream)
    /\ UNCHANGED <<up, crashes, recorded, ender, procs, overtaken>>

\* markDisconnected, by the hub or by the reaper.
Disconnect ==
    /\ up /\ lease.state = "active"
    /\ lease' = [lease EXCEPT !.state = "away"]
    /\ UNCHANGED <<up, crashes, ender, storeOnly>>

\* Mutated form of Terminating: the cleanup does not wait for stopRuntime.
TerminatingAtOnce ==
    /\ lease' = [lease EXCEPT !.state = "over"]
    /\ ender' = "cleaning"

Terminating ==
    /\ lease' = [lease EXCEPT !.state = "over"]
    /\ ender' = "stopping"

\* terminateSession, called by the tester, the reaper or the health check.
Terminate ==
    /\ up /\ lease.state \in Held
    /\ Terminating
    /\ UNCHANGED <<up, crashes, storeOnly>>

\* terminateSession, called because the stream could not be started or restarted.
EndsItself(s) ==
    /\ runtime[s].ending
    /\ runtime' = [runtime EXCEPT ![s].ending = FALSE]
    /\ IF lease.id = s /\ lease.state \in Held THEN Terminating ELSE UNCHANGED <<lease, ender>>
    /\ UNCHANGED <<up, crashes, recorded, stream, procs, overtaken>>

\* Mutated form of KilledBy: ffmpeg is left to notice the end of its input.
KilledByAdbOnly(i) == {p \in ProcessesOf(i) : stream[i].loop = "none" /\ p[2] # "ffmpeg"}

\* The processes handle.stop() kills: of a pipeline that of the current segment and
\* ffmpeg; of a screencap loop none.
KilledBy(i) == {p \in ProcessesOf(i) : stream[i].loop = "none"}

\* Mutated form of StoppedBy: the flag is not set.
StoppedByKilling(i) == stream

StoppedBy(i) ==
    IF i = 0 THEN stream
    ELSE IF stream[i].loop = "none" THEN [stream EXCEPT ![i].pipe = "off"]
    ELSE [stream EXCEPT ![i].loop = "off"]

\* Mutated form of Forgotten: the pids stay in Redis.
ForgottenNever == recorded

\* setStreamPids(deviceId, []).
Forgotten == 0

\* stopRuntime.  It stops the handle the runtime has; a stream that is still
\* starting has none.
StopRuntime ==
    /\ ender = "stopping"
    /\ ender' = "cleaning"
    /\ LET s == lease.id
           i == runtime[s].handle IN
       \/ /\ ~runtime[s].mapped
          /\ UNCHANGED storeOnly
       \/ /\ runtime[s].mapped
          /\ runtime' = [runtime EXCEPT ![s].mapped = FALSE]
          /\ stream' = StoppedBy(i)
          /\ procs' = procs \ KilledBy(i)
          /\ recorded' = Forgotten
          /\ overtaken' = overtaken \cup
               {j \in Streams : stream[j].session = s /\ stream[j].pc \in {"display", "probe"}}
    /\ UNCHANGED <<up, crashes, lease>>

\* finishCleanup.
CleanupDone ==
    /\ ender = "cleaning"
    /\ ender' = "none"
    /\ lease' = [lease EXCEPT !.state = "free"]
    /\ UNCHANGED <<up, crashes, storeOnly>>

SessionNext ==
    \/ Reserve \/ Activate \/ Disconnect \/ Terminate
    \/ StopRuntime \/ CleanupDone
    \/ \E s \in Sessions : EndsItself(s)

-----------------------------------------------------------------------------
(* The process. *)

\* kill -9: the closures are gone, the capture processes are not.
Crash ==
    /\ up /\ crashes < MaxCrashes
    /\ up' = FALSE
    /\ crashes' = crashes + 1
    /\ ender' = "none"
    /\ runtime' = [s \in Sessions |-> NoRuntime]
    /\ stream' = [i \in Streams |->
                    IF i \in Unused THEN NoStream
                    ELSE [NoStream EXCEPT !.session = stream[i].session, !.pc = "dead"]]
    /\ overtaken' = {}
    /\ UNCHANGED <<lease, recorded, procs>>

\* Mutated form of Graced: every session gets the grace.
GracedAll(state) == IF state = "free" THEN state ELSE "away"

\* The session that was active may be reconnected to.
Graced(state) == IF state = "active" THEN "away" ELSE state

\* reconcileAfterRestart: the recorded processes are killed, the session goes
\* into its reconnect grace or on with its cleanup.
Boot ==
    /\ ~up
    /\ up' = TRUE
    /\ procs' = procs \ Recorded
    /\ recorded' = 0
    /\ lease' = [lease EXCEPT !.state = Graced(@)]
    /\ ender' = IF lease.state = "over" THEN "cleaning" ELSE "none"
    /\ UNCHANGED <<crashes, runtime, stream, overtaken>>

ScreenNext ==
    \/ \E i \in Streams : StreamNext(i)
    \/ SessionNext
    \/ Crash \/ Boot

ScreenSpec == StreamInit /\ [][ScreenNext]_streamVars

\* Adb calls and the probe come to an end, by their timeouts if need be, and so
\* does a termination.
Settles ==
    \/ \E i \in Streams : DisplayFails(i) \/ DisplayRead(i) \/ ProbePasses(i)
    \/ \E s \in Sessions : EndsItself(s)
    \/ StopRuntime
FairScreenSpec == ScreenSpec /\ WF_streamVars(Settles)

-----------------------------------------------------------------------------
(* Properties. *)

\* Every variable has its type, and a pipeline that was stopped has no process.
StreamTypeOK ==
    /\ up \in BOOLEAN /\ crashes \in 0 .. MaxCrashes
    /\ lease \in [id : 0 .. MaxSessions, state : Held \cup {"over", "free"}]
    /\ recorded \in 0 .. MaxStreams
    /\ ender \in {"none", "stopping", "cleaning"}
    /\ runtime \in [Sessions -> Runtime]
    /\ stream \in [Streams -> Stream]
    /\ procs \in SUBSET Process
    /\ overtaken \in SUBSET Streams
    /\ \A i \in Streams : stream[i].pipe = "off" => ProcessesOf(i) = {}

\* A runtime is in the map only while its session has the device: before the
\* device is cleaned, let alone given away, the runtime is stopped.
RuntimeHasDevice ==
    \A s \in Sessions : runtime[s].mapped =>
        lease.id = s /\ (lease.state \in Held \/ ender = "stopping")

\* However often its captures exit, and even if two exit at once, a runtime starts
\* a stream at most twice.
RestartsOnce ==
    \A i, j, k \in Streams :
        /\ i < j /\ j < k
        /\ {stream[i].pc, stream[j].pc, stream[k].pc} \cap {"unused", "dead"} = {}
        => ~(stream[i].session = stream[j].session /\ stream[j].session = stream[k].session)

\* A server that is killed now and restarted finds the capture processes of the running
\* session by their pids, but for the segment that has taken over from the first one;
\* and it kills nothing else: the pids in Redis are those of the handle the runtime has,
\* not of one that was stopped, whose pids the system may have given away.  This is
\* across restarts of the stream, sessions and crashes, as long as no stream was still
\* starting when its session ended.
RestartFindsCapture ==
    up /\ overtaken = {} =>
        /\ \A s \in Sessions : runtime[s].mapped =>
               \A p \in KilledBy(runtime[s].handle) : p \in Recorded \/ p[2] = "later"
        /\ recorded # 0 => \E s \in Sessions : runtime[s].mapped /\ runtime[s].handle = recorded

\* A capture that goes on after its session's runtime was stopped is one that
\* stopRuntime could not know: it was still starting then, or the stream had been
\* restarted beside it, or it is the pipeline left behind when the probe failed.
OnlyKnownLeaks ==
    \A i \in Streams :
        LET s == stream[i].session IN
        /\ s # 0 /\ ~runtime[s].mapped
        /\ stream[i].pipe = "on" \/ stream[i].loop = "on"
        => \/ i \in overtaken
           \/ runtime[s].handle # i
           \/ stream[i].pipe = "on" /\ stream[i].loop = "off"

\* The viewer gets pictures: from the loop, or from a pipeline that has passed its
\* probe, whose keepalive sends screencaps if nothing else comes.
Showing(s) ==
    \E i \in Streams :
        /\ stream[i].session = s
        /\ stream[i].loop = "on" \/ (stream[i].pipe = "on" /\ stream[i].loop = "none"
                                     /\ stream[i].pc = "done")

\* Whatever fails, a runtime does not stay without pictures: its stream starts,
\* is restarted, or the session is ended.
NeverDarkForGood == \A s \in Sessions : runtime[s].mapped ~> (~runtime[s].mapped \/ Showing(s))

\* The device as the store sees it: the sessions take it one after the other.
InStore == INSTANCE DeviceLease WITH
    Devices <- {1},
    None <- 0,
    holder <- [d \in {1} |-> IF lease.state = "free" THEN 0 ELSE lease.id],
    token <- [d \in {1} |-> lease.id],
    lease <- [s \in Sessions |->
                IF s > lease.id THEN [status |-> "fresh", device |-> 0, token |-> 0]
                ELSE [status |-> IF s = lease.id /\ lease.state \in Held THEN "valid" ELSE "revoked",
                      device |-> 1, token |-> s]]

\* Whatever streams exit and whenever the server is killed, a session's lease is revoked
\* once and for good, and the device is freed after that: a runtime that reports an exit
\* late, a cleanup and the reconciler never end or revive another session's.
LeasesAsStored == InStore!Spec
=============================================================================
