------------------------ MODULE ScreenStreamProofs --------------------------
(* Runtimes and streams are well formed, a runtime is over before its device *)
(* is cleaned, it starts at most two streams, and Redis and the runtime agree *)
(* on the capture except where ScreenStream says otherwise: for every number *)
(* of sessions, streams and crashes, and in every mode.                      *)
EXTENDS ScreenStream, TLAPS

\* Whoever ends a session ends one that has lost its lease.
EnderAgrees == ender # "none" => lease.state = "over"

\* Nothing in memory outlives the server process.
DownIsEmpty ==
    ~up => /\ ender = "none"
           /\ runtime = [s \in Sessions |-> NoRuntime]
           /\ \A i \in Streams : /\ stream[i].pc \in {"unused", "dead"}
                                 /\ stream[i].pipe = "none" /\ stream[i].loop = "none"

\* A stream that was started belongs to a session.
Started(i) == stream[i].pc # "unused" \/ stream[i].pipe = "on" \/ stream[i].loop = "on"
StreamsOwned == \A i \in Streams : Started(i) => stream[i].session \in Sessions

\* A device that is not free belongs to a session.
LeaseNamed == lease.state # "free" => lease.id \in Sessions

StreamInv ==
    /\ StreamTypeOK
    /\ StreamsOwned
    /\ LeaseNamed
    /\ RuntimeHasDevice
    /\ EnderAgrees
    /\ DownIsEmpty

-----------------------------------------------------------------------------
(* Typing. *)

\* What StreamTypeOK says, without the processes of stopped pipelines.
Typed ==
    /\ up \in BOOLEAN /\ crashes \in 0 .. MaxCrashes
    /\ lease \in [id : 0 .. MaxSessions, state : Held \cup {"over", "free"}]
    /\ recorded \in 0 .. MaxStreams
    /\ ender \in {"none", "stopping", "cleaning"}
    /\ runtime \in [Sessions -> Runtime]
    /\ stream \in [Streams -> Stream]
    /\ procs \in SUBSET Process
    /\ overtaken \in SUBSET Streams

StoppedHasNone == \A i \in Streams : stream[i].pipe = "off" => ProcessesOf(i) = {}

\* A stream that starts is well formed, and its pipeline is not a stopped one.
LEMMA StartsTyped ==
    ASSUME NEW s \in Sessions, NEW streams \in [Streams -> Stream], Starts(s, streams)
    PROVE  /\ stream' \in [Streams -> Stream]
           /\ \A i \in Streams :
                stream'[i] = streams[i] \/ (stream'[i].session = s /\ stream'[i].pc = "display"
                                            /\ stream'[i].pipe = "none" /\ stream'[i].loop = "none")
<1>1. PICK i \in Streams : stream' = [streams EXCEPT ![i] = Starting(s)]
  BY DEF Starts, Unused
<1>2. Starting(s) = [session |-> s, pc |-> "display", pipe |-> "none", loop |-> "none"]
  BY DEF Starting
<1>3. s \in 0 .. MaxSessions
  BY StreamBoundsAssumption DEF Sessions
<1>4. Starting(s) \in Stream
  BY <1>2, <1>3 DEF Stream, Capture
<1>5. QED
  BY <1>1, <1>2, <1>4

\* A step after an exit may start a stream, and changes nothing of the runtimes
\* but their counters.
LEMMA ExitsTyped ==
    ASSUME Typed, NEW s \in Sessions, NEW streams \in [Streams -> Stream], Exits(s, streams)
    PROVE  /\ stream' \in [Streams -> Stream]
           /\ \A i \in Streams :
                stream'[i] = streams[i] \/ (stream'[i].session = s /\ stream'[i].pc = "display"
                                            /\ stream'[i].pipe = "none" /\ stream'[i].loop = "none")
           /\ runtime' \in [Sessions -> Runtime]
           /\ \A t \in Sessions : runtime'[t].mapped = runtime[t].mapped
<1>1. CASE ~runtime[s].mapped /\ stream' = streams /\ UNCHANGED runtime
  BY <1>1 DEF Typed
<1>2. CASE stream' = streams /\ runtime' = [runtime EXCEPT ![s].ending = TRUE]
  BY <1>2 DEF Typed, Runtime
<1>3. CASE Starts(s, streams) /\ runtime' = [runtime EXCEPT ![s].restarts = 1]
  BY <1>3, StartsTyped DEF Typed, Runtime
<1>4. QED
  BY <1>1, <1>2, <1>3 DEF Exits

-----------------------------------------------------------------------------
(* What one step does to the streams and to the processes. *)

StreamsKept == Typed' /\ StoppedHasNone' /\ StreamsOwned'

LEMMA SameStreams ==
    ASSUME Typed, StoppedHasNone, StreamsOwned, UNCHANGED <<stream, procs>>
    PROVE  StoppedHasNone' /\ StreamsOwned'
  BY DEF StoppedHasNone, StreamsOwned, Started, ProcessesOf

LEMMA HandedTyped ==
    ASSUME Typed, NEW i \in Streams, stream[i].session \in Sessions,
           NEW pids \in 0 .. MaxStreams, Handed(i, pids)
    PROVE  /\ runtime' \in [Sessions -> Runtime] /\ recorded' \in 0 .. MaxStreams
           /\ \A t \in Sessions : runtime'[t].mapped = runtime[t].mapped
<1>1. i \in 0 .. MaxStreams
  BY StreamBoundsAssumption DEF Streams
<1>2. QED
  BY <1>1 DEF Handed, Typed, Runtime

LEMMA RefusedTyped ==
    ASSUME Typed, NEW i \in Streams, stream[i].session \in Sessions, Refused(i)
    PROVE  /\ runtime' \in [Sessions -> Runtime] /\ recorded' \in 0 .. MaxStreams
           /\ \A t \in Sessions : runtime'[t].mapped = runtime[t].mapped
  BY DEF Refused, Typed, Runtime

\* A step of a stream changes that stream and starts others; what it adds to the
\* processes belongs to a pipeline that is on.
LEMMA StreamStepKeeps ==
    ASSUME Typed, StoppedHasNone, StreamsOwned, NEW i \in Streams, StreamNext(i)
    PROVE  StreamsKept
<1> USE DEF StreamsKept
<1>1. Started(i) => stream[i].session \in Sessions
  BY DEF StreamsOwned, Started
<1>0. /\ 0 \in 0 .. MaxStreams /\ i \in 0 .. MaxStreams
      /\ stream[i].pc \in {"display", "probe"} => stream[i].session \in Sessions
  BY <1>1, StreamBoundsAssumption DEF Started, Streams
<1>2. CASE DisplayFails(i)
  <2>1. Typed' /\ StreamsOwned'
    <3>1. runtime' \in [Sessions -> Runtime] /\ recorded' \in 0 .. MaxStreams
      BY <1>0, <1>2, RefusedTyped DEF DisplayFails
    <3>2. stream' = [stream EXCEPT ![i] = [stream[i] EXCEPT !.pc = "failed"]]
      BY <1>2 DEF DisplayFails, Typed
    <3>3. QED
      BY <1>1, <1>2, <3>1, <3>2 DEF DisplayFails, Typed, Stream, StreamsOwned, Started
  <2>2. StoppedHasNone'
    BY <1>2 DEF DisplayFails, StoppedHasNone, ProcessesOf, Typed, Stream
  <2>3. QED
    BY <2>1, <2>2
<1>3. CASE DisplayRead(i)
  <2>1. CASE Mode = "screencap"
    <3>1. stream' = [stream EXCEPT ![i] = [stream[i] EXCEPT !.pc = "done", !.loop = "on"]]
      BY <1>3, <2>1 DEF DisplayRead, Typed
    <3>2. runtime' \in [Sessions -> Runtime] /\ recorded' \in 0 .. MaxStreams /\ procs' = procs
      BY <1>0, <1>3, <2>1, HandedTyped DEF DisplayRead
    <3>3. Typed' /\ StreamsOwned'
      BY <1>1, <1>3, <3>1, <3>2, StreamBoundsAssumption
         DEF DisplayRead, Typed, Stream, Capture, StreamsOwned, Started
    <3>4. StoppedHasNone'
      BY <3>1, <3>2 DEF Typed, Stream, StoppedHasNone, ProcessesOf
    <3>5. QED
      BY <3>3, <3>4
  <2>2. CASE Mode # "screencap"
    <3>1. stream' = [stream EXCEPT ![i] = [stream[i] EXCEPT !.pc = "probe", !.pipe = "on"]]
      BY <1>3, <2>2 DEF DisplayRead, Typed
    <3>2. procs' = procs \cup {<<i, "ffmpeg">>, <<i, "first">>} /\ UNCHANGED <<runtime, recorded>>
      BY <1>3, <2>2 DEF DisplayRead
    <3>3. Typed' /\ StreamsOwned'
      BY <1>1, <1>3, <3>1, <3>2
         DEF DisplayRead, Typed, Stream, Capture, StreamsOwned, Started, Process
    <3>4. \A j \in Streams : j # i => stream'[j] = stream[j] /\ ProcessesOf(j)' = ProcessesOf(j)
      BY <3>1, <3>2 DEF Typed, ProcessesOf
    <3>5. stream'[i].pipe = "on"
      BY <3>1 DEF Typed, Stream
    <3>6. QED
      BY <3>3, <3>4, <3>5 DEF StoppedHasNone
  <2>3. QED
    BY <2>1, <2>2
<1>4. CASE ProbePasses(i)
  <2>1. stream' = [stream EXCEPT ![i] = [stream[i] EXCEPT !.pc = "done"]]
    BY <1>4 DEF ProbePasses, Typed
  <2>2. runtime' \in [Sessions -> Runtime] /\ recorded' \in 0 .. MaxStreams /\ procs' = procs
    BY <1>0, <1>4, HandedTyped DEF ProbePasses
  <2>3. Typed' /\ StreamsOwned'
    BY <1>1, <1>4, <2>1, <2>2
       DEF ProbePasses, Typed, Stream, Capture, StreamsOwned, Started, Streams
  <2>4. StoppedHasNone'
    BY <2>1, <2>2 DEF Typed, Stream, StoppedHasNone, ProcessesOf
  <2>5. QED
    BY <2>3, <2>4
<1>5. CASE SegmentExits(i)
  <2>1. PICK kind \in {"first", "later"} :
          /\ stream[i].pipe = "on"
          /\ procs' = (procs \ {<<i, kind>>}) \cup {<<i, "later">>}
          /\ IF stream[i].pc = "probe" THEN ProbeFails(i)
             ELSE UNCHANGED <<stream, runtime, recorded>>
          /\ UNCHANGED <<up, crashes, lease, ender, overtaken>>
    BY <1>5 DEF SegmentExits
  <2>2. procs' \in SUBSET Process
    BY <2>1 DEF Typed, Process
  <2>3. \A j \in Streams : j # i => ProcessesOf(j)' = ProcessesOf(j)
    BY <2>1 DEF ProcessesOf
  <2>4. /\ Typed'
        /\ stream'[i].pipe = "on"
        /\ stream'[i].session = stream[i].session
        /\ \A j \in Streams : j # i => stream'[j] = stream[j]
    <3>1. CASE UNCHANGED <<stream, runtime, recorded>>
      BY <1>1, <2>1, <2>2, <3>1 DEF Typed, StreamsOwned, Started
    <3>2. CASE stream[i].pc = "probe" /\ Mode = "auto"
      <4>1. stream' = [stream EXCEPT ![i] = [stream[i] EXCEPT !.pc = "done", !.loop = "on"]]
        BY <2>1, <3>2 DEF ProbeFails, Typed
      <4>2. runtime' \in [Sessions -> Runtime] /\ recorded' \in 0 .. MaxStreams
        BY <1>0, <2>1, <3>2, HandedTyped DEF ProbeFails
      <4>3. QED
        BY <2>1, <2>2, <4>1, <4>2, StreamBoundsAssumption DEF Typed, Stream, Capture
    <3>3. CASE stream[i].pc = "probe" /\ Mode # "auto"
      <4>1. stream' = [stream EXCEPT ![i] = [stream[i] EXCEPT !.pc = "failed"]]
        BY <2>1, <3>3 DEF ProbeFails, Typed
      <4>2. runtime' \in [Sessions -> Runtime] /\ recorded' \in 0 .. MaxStreams
        BY <1>0, <2>1, <3>3, RefusedTyped DEF ProbeFails
      <4>3. QED
        BY <2>1, <2>2, <4>1, <4>2 DEF Typed, Stream, Capture
    <3>4. QED
      BY <2>1, <3>1, <3>2, <3>3
  <2>5. StoppedHasNone'
    BY <2>3, <2>4 DEF StoppedHasNone
  <2>6. StreamsOwned'
    BY <1>1, <2>1, <2>4 DEF StreamsOwned, Started
  <2>7. QED
    BY <2>4, <2>5, <2>6
<1>6. ASSUME NEW streams \in [Streams -> Stream], stream[i].session \in Sessions,
             Exits(stream[i].session, streams),
             \A j \in Streams : /\ streams[j].pipe = stream[j].pipe /\ streams[j].pc = stream[j].pc
                                /\ streams[j].session = stream[j].session
                                /\ streams[j].loop = "on" => stream[j].loop = "on",
             procs' \in SUBSET procs, UNCHANGED <<up, crashes, lease, recorded, ender, overtaken>>
      PROVE  StreamsKept
  <2>1. Typed'
    BY <1>6, ExitsTyped DEF Typed
  <2>2. \A j \in Streams : stream'[j].pipe = "off" => stream[j].pipe = "off"
    BY <1>6, ExitsTyped
  <2>3. StoppedHasNone'
    BY <1>6, <2>2 DEF StoppedHasNone, ProcessesOf
  <2>4. StreamsOwned'
    BY <1>6, ExitsTyped DEF StreamsOwned, Started
  <2>5. QED
    BY <2>1, <2>3, <2>4
<1>7. CASE SegmentUnspawned(i)
  <2>1. /\ stream[i].pipe = "on" /\ procs' \in SUBSET procs
        /\ Exits(stream[i].session, stream)
        /\ UNCHANGED <<up, crashes, lease, recorded, ender, overtaken>>
    BY <1>7 DEF SegmentUnspawned
  <2>2. stream[i].session \in Sessions
    BY <1>1, <2>1 DEF Started
  <2>3. QED
    BY <1>6, <2>1, <2>2 DEF Typed
<1>8. CASE FfmpegExits(i)
  <2>1. CASE stream[i].pc = "done" /\ stream[i].pipe = "on" /\ stream[i].loop = "none"
    <3>1. stream[i].session \in Sessions
      BY <1>1, <2>1 DEF Started
    <3>2. QED
      BY <1>6, <1>8, <2>1, <3>1 DEF FfmpegExits, Typed
  <2>2. CASE UNCHANGED <<stream, runtime>>
    BY <1>8, <2>2 DEF FfmpegExits, Typed, StoppedHasNone, StreamsOwned, Started, ProcessesOf
  <2>3. QED
    BY <1>8, <2>1, <2>2 DEF FfmpegExits
<1>9. CASE LoopFails(i)
  <2>1. stream[i].session \in Sessions
    BY <1>1, <1>9 DEF LoopFails, Started
  <2>2. PICK streams : streams = [stream EXCEPT ![i].loop = "off"]
    OBVIOUS
  <2>3. streams \in [Streams -> Stream]
    BY <2>2 DEF Typed, Stream, Capture
  <2>4. \A j \in Streams : /\ streams[j].pipe = stream[j].pipe /\ streams[j].pc = stream[j].pc
                           /\ streams[j].session = stream[j].session
                           /\ streams[j].loop = "on" => stream[j].loop = "on"
    BY <2>1, <2>2 DEF Typed, Stream
  <2>5. QED
    BY <1>6, <1>9, <2>1, <2>2, <2>3, <2>4 DEF LoopFails
<1>10. CASE OrphanExits(i)
  BY <1>10 DEF OrphanExits, Typed, StoppedHasNone, StreamsOwned, Started, ProcessesOf
<1>11. QED
  BY <1>2, <1>3, <1>4, <1>5, <1>7, <1>8, <1>9, <1>10 DEF StreamNext

\* Of the runtimes, a step of a stream changes no place in the map, and none but
\* the exit of a process happens while the server is down.
LEMMA StreamStepStays ==
    ASSUME Typed, StreamsOwned, DownIsEmpty, NEW i \in Streams, StreamNext(i)
    PROVE  /\ UNCHANGED <<up, lease, ender>>
           /\ \A t \in Sessions : runtime'[t].mapped = runtime[t].mapped
           /\ ~up => UNCHANGED <<runtime, stream>>
<1>0. /\ 0 \in 0 .. MaxStreams /\ i \in 0 .. MaxStreams
      /\ stream[i].pc # "unused" \/ stream[i].pipe = "on" \/ stream[i].loop = "on" =>
           stream[i].session \in Sessions
  BY StreamBoundsAssumption DEF StreamsOwned, Started, Streams
<1>1. UNCHANGED <<up, lease, ender>>
  BY DEF StreamNext, DisplayFails, DisplayRead, ProbePasses, SegmentExits, SegmentUnspawned,
         FfmpegExits, LoopFails, OrphanExits
<1>2. \A t \in Sessions : runtime'[t].mapped = runtime[t].mapped
  <2>1. CASE DisplayFails(i)
    BY <1>0, <2>1, RefusedTyped DEF DisplayFails
  <2>2. CASE DisplayRead(i)
    BY <1>0, <2>2, HandedTyped DEF DisplayRead
  <2>3. CASE ProbePasses(i)
    BY <1>0, <2>3, HandedTyped DEF ProbePasses
  <2>4. CASE SegmentExits(i)
    <3>1. CASE UNCHANGED runtime
      BY <3>1
    <3>2. CASE stream[i].pc = "probe" /\ ProbeFails(i)
      BY <1>0, <3>2, HandedTyped, RefusedTyped DEF ProbeFails
    <3>3. QED
      BY <2>4, <3>1, <3>2 DEF SegmentExits
  <2>5. CASE SegmentUnspawned(i)
    BY <1>0, <2>5, ExitsTyped DEF SegmentUnspawned, Typed
  <2>6. CASE FfmpegExits(i)
    BY <1>0, <2>6, ExitsTyped DEF FfmpegExits, Typed
  <2>7. CASE LoopFails(i)
    <3>1. [stream EXCEPT ![i].loop = "off"] \in [Streams -> Stream]
      BY DEF Typed, Stream, Capture
    <3>2. QED
      BY <1>0, <2>7, <3>1, ExitsTyped DEF LoopFails
  <2>8. CASE OrphanExits(i)
    BY <2>8 DEF OrphanExits
  <2>9. QED
    BY <2>1, <2>2, <2>3, <2>4, <2>5, <2>6, <2>7, <2>8 DEF StreamNext
<1>3. ASSUME ~up
      PROVE  UNCHANGED <<runtime, stream>>
  <2>1. /\ stream[i].pc \in {"unused", "dead"}
        /\ stream[i].pipe = "none" /\ stream[i].loop = "none"
    BY <1>3 DEF DownIsEmpty
  <2>2. QED
    BY <2>1 DEF StreamNext, DisplayFails, DisplayRead, ProbePasses, SegmentExits,
                SegmentUnspawned, FfmpegExits, LoopFails, OrphanExits
<1>4. QED
  BY <1>1, <1>2, <1>3

-----------------------------------------------------------------------------
(* The session and the process. *)

\* The invariant, with the typing taken apart.
LEMMA InvParts ==
    StreamInv <=> /\ Typed /\ StoppedHasNone /\ StreamsOwned
                  /\ LeaseNamed /\ RuntimeHasDevice /\ EnderAgrees /\ DownIsEmpty
  BY DEF StreamInv, StreamTypeOK, Typed, StoppedHasNone

LEMMA StreamStepKeepsInv ==
    ASSUME StreamInv, NEW i \in Streams, StreamNext(i)
    PROVE  StreamsKept /\ LeaseNamed' /\ RuntimeHasDevice' /\ EnderAgrees' /\ DownIsEmpty'
<1>1. /\ Typed /\ StoppedHasNone /\ StreamsOwned
      /\ LeaseNamed /\ RuntimeHasDevice /\ EnderAgrees /\ DownIsEmpty
  BY InvParts
<1>2. StreamsKept
  BY <1>1, StreamStepKeeps
<1>3. /\ UNCHANGED <<up, lease, ender>>
      /\ \A t \in Sessions : runtime'[t].mapped = runtime[t].mapped
      /\ ~up => UNCHANGED <<runtime, stream>>
  BY <1>1, StreamStepStays
<1>4. LeaseNamed' /\ RuntimeHasDevice' /\ EnderAgrees'
  BY <1>1, <1>3 DEF LeaseNamed, RuntimeHasDevice, EnderAgrees
<1>5. DownIsEmpty'
  BY <1>1, <1>3 DEF DownIsEmpty
<1>6. QED
  BY <1>2, <1>4, <1>5

LEMMA ActivateKeeps ==
    ASSUME StreamInv, Activate
    PROVE  StreamsKept /\ LeaseNamed' /\ RuntimeHasDevice' /\ EnderAgrees' /\ DownIsEmpty'
<1>1. /\ Typed /\ StoppedHasNone /\ StreamsOwned
      /\ LeaseNamed /\ RuntimeHasDevice /\ EnderAgrees
  BY InvParts
<1>2. /\ lease' = [lease EXCEPT !.state = "active"] /\ lease.state \in {"reserved", "away"}
      /\ up /\ UNCHANGED <<up, crashes, recorded, ender, procs, overtaken>>
  BY DEF Activate
<1>3. /\ lease.id \in Sessions /\ lease'.id = lease.id /\ lease'.state = "active"
      /\ lease' \in [id : 0 .. MaxSessions, state : Held \cup {"over", "free"}]
  BY <1>1, <1>2 DEF Typed, Held, LeaseNamed
<1>4. LeaseNamed' /\ EnderAgrees' /\ DownIsEmpty'
  BY <1>1, <1>2, <1>3 DEF LeaseNamed, EnderAgrees, DownIsEmpty
<1>5. CASE UNCHANGED <<runtime, stream>>
  <2>1. StreamsKept
    BY <1>1, <1>2, <1>3, <1>5, SameStreams DEF StreamsKept, Typed
  <2>2. RuntimeHasDevice'
    BY <1>1, <1>3, <1>5 DEF RuntimeHasDevice, Held
  <2>3. QED
    BY <1>4, <2>1, <2>2
<1>6. CASE /\ runtime' = [runtime EXCEPT ![lease.id] = [NoRuntime EXCEPT !.mapped = TRUE]]
           /\ Starts(lease.id, stream)
  <2>1. [NoRuntime EXCEPT !.mapped = TRUE] \in Runtime
    <3>1. NoRuntime \in Runtime
      BY StreamBoundsAssumption DEF NoRuntime, Runtime
    <3>2. QED
      BY <3>1 DEF Runtime
  <2>2. /\ runtime' \in [Sessions -> Runtime]
        /\ \A t \in Sessions : t # lease.id => runtime'[t] = runtime[t]
    BY <1>1, <1>3, <1>6, <2>1 DEF Typed
  <2>3. /\ stream' \in [Streams -> Stream]
        /\ \A i \in Streams :
             stream'[i] = stream[i] \/ (stream'[i].session = lease.id /\ stream'[i].pc = "display"
                                        /\ stream'[i].pipe = "none" /\ stream'[i].loop = "none")
    BY <1>1, <1>3, <1>6, StartsTyped DEF Typed
  <2>4. Typed'
    BY <1>1, <1>2, <1>3, <2>2, <2>3 DEF Typed
  <2>5. StoppedHasNone' /\ StreamsOwned'
    BY <1>1, <1>2, <1>3, <2>3 DEF StoppedHasNone, StreamsOwned, Started, ProcessesOf
  <2>6. RuntimeHasDevice'
    BY <1>1, <1>3, <2>2 DEF RuntimeHasDevice, Held
  <2>7. QED
    BY <1>4, <2>4, <2>5, <2>6 DEF StreamsKept
<1>7. QED
  BY <1>5, <1>6 DEF Activate

\* stopRuntime takes the runtime out of the map, and the processes from its handle.
LEMMA StopKeeps ==
    ASSUME StreamInv, StopRuntime
    PROVE  StreamsKept /\ LeaseNamed' /\ RuntimeHasDevice' /\ EnderAgrees' /\ DownIsEmpty'
<1>1. /\ Typed /\ StoppedHasNone /\ StreamsOwned
      /\ LeaseNamed /\ RuntimeHasDevice /\ EnderAgrees /\ DownIsEmpty
  BY InvParts
<1>2. /\ ender = "stopping" /\ ender' = "cleaning"
      /\ UNCHANGED <<up, crashes, lease>>
  BY DEF StopRuntime
<1>3. PICK s \in Sessions : s = lease.id
  BY <1>1, <1>2 DEF EnderAgrees, LeaseNamed
<1>4. LeaseNamed' /\ EnderAgrees' /\ DownIsEmpty'
  BY <1>1, <1>2 DEF LeaseNamed, EnderAgrees, DownIsEmpty
<1>5. CASE ~runtime[s].mapped /\ UNCHANGED storeOnly
  <2>1. StreamsKept
    BY <1>1, <1>2, <1>5, SameStreams DEF StreamsKept, Typed, storeOnly
  <2>2. RuntimeHasDevice'
    BY <1>1, <1>2, <1>3, <1>5 DEF RuntimeHasDevice, storeOnly
  <2>3. QED
    BY <1>4, <2>1, <2>2
<1>6. CASE /\ runtime' = [runtime EXCEPT ![s].mapped = FALSE]
           /\ stream' = StoppedBy(runtime[s].handle)
           /\ procs' = procs \ KilledBy(runtime[s].handle)
           /\ recorded' = Forgotten
           /\ overtaken' = overtaken \cup
                {j \in Streams : stream[j].session = s /\ stream[j].pc \in {"display", "probe"}}
  <2>1. PICK i \in 0 .. MaxStreams : i = runtime[s].handle
    BY <1>1 DEF Typed, Runtime
  <2>2. /\ runtime' \in [Sessions -> Runtime] /\ ~runtime'[s].mapped
        /\ \A t \in Sessions : t # s => runtime'[t] = runtime[t]
    BY <1>1, <1>6 DEF Typed, Runtime
  <2>3. RuntimeHasDevice'
    BY <1>1, <1>2, <1>3, <2>2 DEF RuntimeHasDevice
  <2>4. /\ procs' \in SUBSET procs /\ recorded' \in 0 .. MaxStreams
        /\ overtaken' \in SUBSET Streams
    BY <1>1, <1>6, StreamBoundsAssumption DEF Typed, Forgotten
  <2>5. CASE i = 0 \/ (i # 0 /\ stream[i].loop # "none")
    <3>1. /\ stream' \in [Streams -> Stream]
          /\ \A j \in Streams : /\ stream'[j].pipe = stream[j].pipe /\ stream'[j].pc = stream[j].pc
                                /\ stream'[j].session = stream[j].session
                                /\ stream'[j].loop = "on" => stream[j].loop = "on"
      <4>1. CASE stream' = stream
        BY <1>1, <4>1 DEF Typed
      <4>2. CASE stream' = [stream EXCEPT ![i].loop = "off"]
        BY <1>1, <4>2 DEF Typed, Stream, Capture
      <4>3. QED
        BY <1>6, <2>1, <2>5, <4>1, <4>2 DEF StoppedBy
    <3>2. Typed'
      BY <1>1, <1>2, <2>2, <2>4, <3>1 DEF Typed
    <3>3. StoppedHasNone' /\ StreamsOwned'
      BY <1>1, <2>4, <3>1 DEF StoppedHasNone, StreamsOwned, Started, ProcessesOf
    <3>4. QED
      BY <1>4, <2>3, <3>2, <3>3 DEF StreamsKept
  <2>6. CASE i # 0 /\ stream[i].loop = "none"
    <3>1. i \in Streams
      BY <2>1, <2>6, StreamBoundsAssumption DEF Streams
    <3>2. stream' = [stream EXCEPT ![i].pipe = "off"]
      BY <1>6, <2>1, <2>6 DEF StoppedBy
    <3>3. ProcessesOf(i)' = {}
      BY <1>6, <2>1, <2>6 DEF KilledBy, ProcessesOf
    <3>4. \A j \in Streams : j # i => stream'[j] = stream[j]
      BY <1>1, <3>1, <3>2 DEF Typed
    <3>5. Typed'
      BY <1>1, <1>2, <2>2, <2>4, <3>1, <3>2 DEF Typed, Stream, Capture
    <3>6. StoppedHasNone'
      BY <1>1, <2>4, <3>3, <3>4 DEF StoppedHasNone, ProcessesOf
    <3>7. StreamsOwned'
      BY <1>1, <3>1, <3>2 DEF Typed, Stream, StreamsOwned, Started
    <3>8. QED
      BY <1>4, <2>3, <3>5, <3>6, <3>7 DEF StreamsKept
  <2>7. QED
    BY <2>1, <2>5, <2>6
<1>7. QED
  BY <1>3, <1>5, <1>6 DEF StopRuntime

\* The other steps of the session change the lease and who ends it.
LEMMA LeaseStepKeeps ==
    ASSUME StreamInv, Reserve \/ Disconnect \/ Terminate \/ CleanupDone
    PROVE  StreamsKept /\ LeaseNamed' /\ RuntimeHasDevice' /\ EnderAgrees' /\ DownIsEmpty'
<1>1. /\ Typed /\ StoppedHasNone /\ StreamsOwned
      /\ LeaseNamed /\ RuntimeHasDevice /\ EnderAgrees /\ DownIsEmpty
  BY InvParts
<1>2. UNCHANGED <<up, crashes, storeOnly>>
  BY DEF Reserve, Disconnect, Terminate, CleanupDone
<1>3. StoppedHasNone' /\ StreamsOwned'
  BY <1>1, <1>2, SameStreams DEF storeOnly
<1>4. CASE Reserve
  <2>1. /\ lease.id + 1 \in Sessions /\ lease.id + 1 \in 0 .. MaxSessions
        /\ lease' = [id |-> lease.id + 1, state |-> "reserved"] /\ ender' = ender
        /\ lease.state = "free" /\ up
    BY <1>1, <1>4, StreamBoundsAssumption DEF Reserve, Typed, Sessions
  <2>2. \A s \in Sessions : ~runtime[s].mapped
    BY <1>1, <2>1 DEF RuntimeHasDevice, EnderAgrees, Held
  <2>3. QED
    BY <1>1, <1>2, <1>3, <2>1, <2>2
       DEF StreamsKept, Typed, LeaseNamed, RuntimeHasDevice, EnderAgrees, DownIsEmpty, Held,
           storeOnly
<1>5. CASE Disconnect
  <2>1. /\ lease'.id = lease.id /\ lease'.state = "away" /\ ender' = ender
        /\ lease' \in [id : 0 .. MaxSessions, state : Held \cup {"over", "free"}]
        /\ lease.state = "active" /\ up
    BY <1>1, <1>5 DEF Disconnect, Typed, Held
  <2>2. QED
    BY <1>1, <1>2, <1>3, <2>1
       DEF StreamsKept, Typed, LeaseNamed, RuntimeHasDevice, EnderAgrees, DownIsEmpty, Held,
           storeOnly
<1>6. CASE Terminate
  <2>1. /\ lease'.id = lease.id /\ lease'.state = "over" /\ ender' = "stopping"
        /\ lease' \in [id : 0 .. MaxSessions, state : Held \cup {"over", "free"}]
        /\ lease.state \in Held /\ up
    BY <1>1, <1>6 DEF Terminate, Terminating, Typed, Held
  <2>2. QED
    BY <1>1, <1>2, <1>3, <2>1
       DEF StreamsKept, Typed, LeaseNamed, RuntimeHasDevice, EnderAgrees, DownIsEmpty, Held,
           storeOnly
<1>7. CASE CleanupDone
  <2>1. /\ lease'.id = lease.id /\ lease'.state = "free" /\ ender' = "none"
        /\ lease' \in [id : 0 .. MaxSessions, state : Held \cup {"over", "free"}]
        /\ ender = "cleaning"
    BY <1>1, <1>7 DEF CleanupDone, Typed, Held
  <2>2. up /\ \A s \in Sessions : ~runtime[s].mapped
    BY <1>1, <2>1 DEF RuntimeHasDevice, EnderAgrees, DownIsEmpty, Held
  <2>3. QED
    BY <1>1, <1>2, <1>3, <2>1, <2>2
       DEF StreamsKept, Typed, LeaseNamed, RuntimeHasDevice, EnderAgrees, DownIsEmpty, Held,
           storeOnly
<1>8. QED
  BY <1>4, <1>5, <1>6, <1>7

LEMMA EndsItselfKeeps ==
    ASSUME StreamInv, NEW s \in Sessions, EndsItself(s)
    PROVE  StreamsKept /\ LeaseNamed' /\ RuntimeHasDevice' /\ EnderAgrees' /\ DownIsEmpty'
<1>1. /\ Typed /\ StoppedHasNone /\ StreamsOwned
      /\ LeaseNamed /\ RuntimeHasDevice /\ EnderAgrees /\ DownIsEmpty
  BY InvParts
<1>2. /\ UNCHANGED <<up, crashes, recorded, stream, procs, overtaken>>
      /\ runtime' \in [Sessions -> Runtime]
      /\ \A t \in Sessions : runtime'[t].mapped = runtime[t].mapped
  BY <1>1 DEF EndsItself, Typed, Runtime
<1>3. up
  BY <1>1 DEF EndsItself, DownIsEmpty, NoRuntime
<1>4. StoppedHasNone' /\ StreamsOwned'
  BY <1>1, <1>2, SameStreams
<1>5. CASE UNCHANGED <<lease, ender>>
  BY <1>1, <1>2, <1>3, <1>4, <1>5
     DEF StreamsKept, Typed, LeaseNamed, RuntimeHasDevice, EnderAgrees, DownIsEmpty
<1>6. CASE lease.state \in Held /\ Terminating
  <2>1. /\ lease'.id = lease.id /\ lease'.state = "over" /\ ender' = "stopping"
        /\ lease' \in [id : 0 .. MaxSessions, state : Held \cup {"over", "free"}]
    BY <1>1, <1>6 DEF Terminating, Typed, Held
  <2>2. QED
    BY <1>1, <1>2, <1>3, <1>4, <1>6, <2>1
       DEF StreamsKept, Typed, LeaseNamed, RuntimeHasDevice, EnderAgrees, DownIsEmpty, Held
<1>7. QED
  BY <1>5, <1>6 DEF EndsItself

LEMMA CrashKeeps ==
    ASSUME StreamInv, Crash
    PROVE  StreamsKept /\ LeaseNamed' /\ RuntimeHasDevice' /\ EnderAgrees' /\ DownIsEmpty'
<1>1. Typed /\ StoppedHasNone /\ StreamsOwned /\ LeaseNamed
  BY InvParts
<1>2. NoRuntime \in Runtime /\ ~NoRuntime.mapped
  BY StreamBoundsAssumption DEF NoRuntime, Runtime
<1>3. \A i \in Streams :
        /\ stream'[i] \in Stream
        /\ stream'[i].pipe = "none" /\ stream'[i].loop = "none"
        /\ \/ stream[i].pc = "unused" /\ stream'[i].pc = "unused"
           \/ /\ stream[i].pc # "unused" /\ stream'[i].pc = "dead"
              /\ stream'[i].session = stream[i].session
  <2>1. NoStream \in Stream
    BY StreamBoundsAssumption DEF NoStream, Stream, Capture
  <2>2. TAKE i \in Streams
  <2>3. stream[i].session \in 0 .. MaxSessions
    BY <1>1 DEF Typed, Stream
  <2>4. CASE stream[i].pc = "unused"
    <3>1. stream'[i] = NoStream
      BY <2>4 DEF Crash, Unused
    <3>2. QED
      BY <2>1, <2>4, <3>1 DEF NoStream
  <2>5. CASE stream[i].pc # "unused"
    <3>1. stream'[i] = [NoStream EXCEPT !.session = stream[i].session, !.pc = "dead"]
      BY <2>5 DEF Crash, Unused
    <3>2. stream'[i] = [session |-> stream[i].session, pc |-> "dead",
                        pipe |-> "none", loop |-> "none"]
      BY <3>1 DEF NoStream
    <3>3. QED
      BY <2>3, <2>5, <3>2 DEF Stream, Capture
  <2>6. QED
    BY <2>4, <2>5
<1>4. stream' \in [Streams -> Stream]
  BY <1>3 DEF Crash
<1>5. Typed'
  <2>1. crashes' \in 0 .. MaxCrashes
    <3>1. crashes \in 0 .. MaxCrashes
      BY <1>1 DEF Typed
    <3>2. crashes < MaxCrashes /\ crashes' = crashes + 1
      BY DEF Crash
    <3>3. QED
      BY <3>1, <3>2, StreamBoundsAssumption
  <2>2. runtime' \in [Sessions -> Runtime]
    BY <1>2 DEF Crash
  <2>3. /\ up' \in BOOLEAN /\ ender' = "none" /\ overtaken' = {}
        /\ UNCHANGED <<lease, recorded, procs>>
    BY DEF Crash
  <2>4. QED
    BY <1>1, <1>4, <2>1, <2>2, <2>3 DEF Typed
<1>6. StoppedHasNone' /\ StreamsOwned'
  BY <1>1, <1>3 DEF StoppedHasNone, StreamsOwned, Started
<1>7. LeaseNamed' /\ EnderAgrees' /\ RuntimeHasDevice'
  BY <1>1, <1>2 DEF Crash, LeaseNamed, EnderAgrees, RuntimeHasDevice
<1>8. DownIsEmpty'
  BY <1>3 DEF Crash, DownIsEmpty
<1>9. QED
  BY <1>5, <1>6, <1>7, <1>8 DEF StreamsKept

LEMMA BootKeeps ==
    ASSUME StreamInv, Boot
    PROVE  StreamsKept /\ LeaseNamed' /\ RuntimeHasDevice' /\ EnderAgrees' /\ DownIsEmpty'
<1>1. /\ Typed /\ StoppedHasNone /\ StreamsOwned
      /\ LeaseNamed /\ RuntimeHasDevice /\ EnderAgrees /\ DownIsEmpty
  BY InvParts
<1>2. /\ lease'.id = lease.id
      /\ lease'.state = IF lease.state = "active" THEN "away" ELSE lease.state
      /\ lease' \in [id : 0 .. MaxSessions, state : Held \cup {"over", "free"}]
  BY <1>1 DEF Boot, Graced, Typed, Held
<1>3. \A s \in Sessions : ~runtime[s].mapped
  BY <1>1 DEF Boot, DownIsEmpty, NoRuntime
<1>4. Typed'
  BY <1>1, <1>2, StreamBoundsAssumption DEF Boot, Typed
<1>5. StoppedHasNone' /\ StreamsOwned'
  BY <1>1 DEF Boot, StoppedHasNone, StreamsOwned, Started, ProcessesOf
<1>6. LeaseNamed' /\ EnderAgrees' /\ RuntimeHasDevice' /\ DownIsEmpty'
  BY <1>1, <1>2, <1>3
     DEF Boot, LeaseNamed, EnderAgrees, RuntimeHasDevice, DownIsEmpty
<1>7. QED
  BY <1>4, <1>5, <1>6 DEF StreamsKept

-----------------------------------------------------------------------------
(* The invariant and what follows from it. *)

LEMMA StreamInvInit == StreamInit => StreamInv
<1> SUFFICES ASSUME StreamInit PROVE StreamInv
  OBVIOUS
<1>1. NoRuntime \in Runtime /\ ~NoRuntime.mapped
  BY StreamBoundsAssumption DEF NoRuntime, Runtime
<1>2. /\ NoStream \in Stream
      /\ NoStream.pc = "unused" /\ NoStream.pipe = "none" /\ NoStream.loop = "none"
  BY StreamBoundsAssumption DEF NoStream, Stream, Capture
<1>3. Typed
  BY <1>1, <1>2, StreamBoundsAssumption DEF StreamInit, Typed, Held
<1>4. StoppedHasNone /\ StreamsOwned
  BY <1>2 DEF StreamInit, StoppedHasNone, StreamsOwned, Started
<1>5. LeaseNamed /\ RuntimeHasDevice /\ EnderAgrees /\ DownIsEmpty
  BY <1>1 DEF StreamInit, LeaseNamed, RuntimeHasDevice, EnderAgrees, DownIsEmpty
<1>6. QED
  BY <1>3, <1>4, <1>5, InvParts

LEMMA StreamInvNext == StreamInv /\ [ScreenNext]_streamVars => StreamInv'
<1> SUFFICES ASSUME StreamInv, [ScreenNext]_streamVars PROVE StreamInv'
  OBVIOUS
<1>1. CASE UNCHANGED streamVars
  BY <1>1 DEF streamVars, StreamInv, StreamTypeOK, StreamsOwned, Started, LeaseNamed,
              RuntimeHasDevice, EnderAgrees, DownIsEmpty, ProcessesOf
<1>2. CASE ScreenNext
  <2>1. StreamsKept /\ LeaseNamed' /\ RuntimeHasDevice' /\ EnderAgrees' /\ DownIsEmpty'
    BY <1>2, StreamStepKeepsInv, ActivateKeeps, StopKeeps, LeaseStepKeeps, EndsItselfKeeps,
       CrashKeeps, BootKeeps DEF ScreenNext, SessionNext
  <2>2. StreamTypeOK'
    BY <2>1 DEF StreamsKept, Typed, StoppedHasNone, StreamTypeOK
  <2>3. QED
    BY <2>1, <2>2 DEF StreamsKept, StreamInv
<1>3. QED
  BY <1>1, <1>2

THEOREM StreamInvariance == ScreenSpec => []StreamInv
<1>1. QED
  BY StreamInvInit, StreamInvNext, PTL DEF ScreenSpec

\* Every variable of the runtimes and their streams always has its type, and a
\* stopped pipeline has no process left (stop() in adb.ts).
THEOREM StreamTypeCorrect == ScreenSpec => []StreamTypeOK
<1>1. StreamInv => StreamTypeOK
  BY DEF StreamInv
<1>2. QED
  BY <1>1, StreamInvariance, PTL

\* A runtime is in the map of core.ts only while its session has the device:
\* before the device is cleaned, the runtime is stopped.
THEOREM RuntimesHaveDevices == ScreenSpec => []RuntimeHasDevice
<1>1. StreamInv => RuntimeHasDevice
  BY DEF StreamInv
<1>2. QED
  BY <1>1, StreamInvariance, PTL

-----------------------------------------------------------------------------
(* Streams, handles and the record in Redis.  Three properties share one     *)
(* invariant about the streams of each session.                              *)

Alive(i, s) == stream[i].session = s /\ stream[i].pc \notin {"unused", "dead"}

\* A stream that is starting has no loop yet, and its runtime waits for it,
\* unless it was stopped meanwhile.
StartingKnown ==
    \A i \in Streams : stream[i].pc \in {"display", "probe"} =>
        /\ stream[i].loop = "none"
        /\ runtime[stream[i].session].mapped \/ i \in overtaken

\* A handle is that of a stream that has started.
HandlesDone ==
    \A s \in Sessions : runtime[s].mapped /\ runtime[s].handle # 0 =>
        runtime[s].handle \in Streams /\ stream[runtime[s].handle].pc = "done"

\* The stream that is recorded when handle i is taken.
Written(i) == IF i # 0 /\ stream[i].loop = "none" THEN i ELSE 0

\* Redis holds what was written for the handle of the only runtime, or nothing if there
\* is none.
RecordExact ==
    up /\ overtaken = {} =>
        /\ \A s \in Sessions : runtime[s].mapped => recorded = Written(runtime[s].handle)
        /\ (\A s \in Sessions : ~runtime[s].mapped) => recorded = 0

\* Only sessions that were given the device have streams, and the one that has it
\* only if it has a runtime.
AliveKnown ==
    \A i \in Streams, s \in Sessions : Alive(i, s) =>
        /\ s <= lease.id
        /\ s = lease.id /\ lease.state \in Held => runtime[s].mapped

\* The first stream of a runtime is the only one until the runtime restarts it.
AliveCounted ==
    \A s \in Sessions : runtime[s].restarts = 0 =>
        \A i, j \in Streams : Alive(i, s) /\ Alive(j, s) => i = j

\* RestartsOnce without the order.
TwoAlive ==
    \A s \in Sessions : \A i, j, k \in Streams :
        Alive(i, s) /\ Alive(j, s) /\ Alive(k, s) => i = j \/ j = k \/ i = k

HandleInv ==
    /\ StreamInv
    /\ StartingKnown /\ HandlesDone /\ RecordExact
    /\ AliveKnown /\ AliveCounted /\ TwoAlive
    /\ OnlyKnownLeaks

\* The three kinds of steps a stream takes: it goes on, ...
GoesOn(j) ==
    /\ stream'[j].session = stream[j].session
    /\ \/ stream'[j].pc = stream[j].pc /\ stream'[j].pipe = stream[j].pipe
       \/ stream[j].pc \in {"display", "probe"} /\ stream'[j].pc \in {"probe", "failed"}
    /\ stream'[j].loop = stream[j].loop \/ (stream[j].loop = "on" /\ stream'[j].loop = "off")

GoingOn ==
    /\ \A j \in Streams : GoesOn(j)
    /\ \A t \in Sessions : /\ runtime'[t].mapped = runtime[t].mapped
                           /\ runtime'[t].handle = runtime[t].handle
                           /\ runtime'[t].restarts = runtime[t].restarts
    /\ recorded' = recorded

\* ... it hands itself to the runtime, ...
Handing(i) ==
    /\ stream[i].pc \in {"display", "probe"} /\ stream'[i].pc = "done"
    /\ stream'[i].session = stream[i].session
    /\ \A j \in Streams : j # i => stream'[j] = stream[j]
    /\ \A t \in Sessions :
         /\ runtime'[t].mapped = runtime[t].mapped
         /\ runtime'[t].restarts = runtime[t].restarts
         /\ runtime'[t].handle = IF t = stream[i].session THEN i ELSE runtime[t].handle
    /\ recorded' = IF stream'[i].loop = "none" THEN i ELSE 0

\* ... or another is started for its session.
Another(s, k) ==
    /\ stream[k].pc = "unused"
    /\ stream'[k].session = s /\ stream'[k].pc = "display"
    /\ stream'[k].pipe = "none" /\ stream'[k].loop = "none"
    /\ \A j \in Streams : j # k => stream'[j].pc = stream[j].pc /\ GoesOn(j)
    /\ recorded' = recorded

Restarting(s, k) ==
    /\ Another(s, k)
    /\ runtime[s].mapped /\ runtime[s].restarts = 0
    /\ \A t \in Sessions :
         /\ runtime'[t].mapped = runtime[t].mapped
         /\ runtime'[t].handle = runtime[t].handle
         /\ runtime'[t].restarts = IF t = s THEN 1 ELSE runtime[t].restarts

StreamStep(i) ==
    /\ UNCHANGED <<up, lease, overtaken>>
    /\ \/ GoingOn
       \/ stream[i].session \in Sessions /\ Handing(i)
       \/ \E s \in Sessions, k \in Streams : Restarting(s, k)

\* The exit of a capture: nothing, the end of the session, or another stream.
LEMMA ExitsKinds ==
    ASSUME Typed, NEW s \in Sessions, NEW streams \in [Streams -> Stream],
           \A j \in Streams : /\ streams[j].session = stream[j].session
                              /\ streams[j].pc = stream[j].pc
                              /\ streams[j].pipe = stream[j].pipe
                              /\ \/ streams[j].loop = stream[j].loop
                                 \/ stream[j].loop = "on" /\ streams[j].loop = "off",
           Exits(s, streams), recorded' = recorded
    PROVE  GoingOn \/ \E k \in Streams : Restarting(s, k)
<1>1. CASE stream' = streams /\ UNCHANGED runtime
  BY <1>1 DEF GoingOn, GoesOn
<1>2. CASE stream' = streams /\ runtime' = [runtime EXCEPT ![s].ending = TRUE]
  BY <1>2 DEF GoingOn, GoesOn, Typed, Runtime
<1>3. CASE /\ runtime[s].mapped /\ runtime[s].restarts = 0
           /\ Starts(s, streams) /\ runtime' = [runtime EXCEPT ![s].restarts = 1]
  <2>1. PICK k \in Unused : stream' = [streams EXCEPT ![k] = Starting(s)]
    BY <1>3 DEF Starts
  <2>2. k \in Streams /\ stream[k].pc = "unused"
    BY DEF Unused
  <2>3. /\ stream'[k] = Starting(s)
        /\ \A j \in Streams : j # k => stream'[j] = streams[j]
    BY <2>1, <2>2
  <2>4. Another(s, k)
    BY <2>2, <2>3 DEF Another, Starting, GoesOn
  <2>5. QED
    BY <1>3, <2>2, <2>4 DEF Restarting, Typed, Runtime
<1>4. QED
  BY <1>1, <1>2, <1>3 DEF Exits

LEMMA HandedKind ==
    ASSUME Typed, NEW i \in Streams, stream[i].session \in Sessions,
           stream[i].pc \in {"display", "probe"},
           NEW pids, Handed(i, pids), pids = IF stream'[i].loop = "none" THEN i ELSE 0,
           stream'[i].session = stream[i].session, stream'[i].pc = "done",
           \A j \in Streams : j # i => stream'[j] = stream[j]
    PROVE  Handing(i)
<1>1. \A t \in Sessions :
         /\ runtime'[t].mapped = runtime[t].mapped
         /\ runtime'[t].restarts = runtime[t].restarts
         /\ runtime'[t].handle = IF t = stream[i].session THEN i ELSE runtime[t].handle
  BY DEF Handed, Typed, Runtime
<1>2. recorded' = pids
  BY DEF Handed
<1>3. QED
  BY <1>1, <1>2 DEF Handing

LEMMA RefusedKind ==
    ASSUME Typed, NEW i \in Streams, stream[i].session \in Sessions,
           stream[i].pc \in {"display", "probe"}, Refused(i),
           stream' = [stream EXCEPT ![i].pc = "failed"]
    PROVE  GoingOn
<1>1. \A j \in Streams : GoesOn(j)
  BY DEF Typed, Stream, GoesOn
<1>2. QED
  BY <1>1 DEF Refused, GoingOn, Typed, Runtime

LEMMA StreamStepKinds ==
    ASSUME Typed, StreamsOwned, StartingKnown, NEW i \in Streams, StreamNext(i)
    PROVE  StreamStep(i)
<1>1. UNCHANGED <<up, lease, overtaken>>
  BY DEF StreamNext, DisplayFails, DisplayRead, ProbePasses, SegmentExits, SegmentUnspawned,
         FfmpegExits, LoopFails, OrphanExits
<1>2. stream[i].pc # "unused" \/ stream[i].pipe = "on" \/ stream[i].loop = "on" =>
        stream[i].session \in Sessions
  BY DEF StreamsOwned, Started
<1>3. UNCHANGED <<stream, runtime, recorded>> => GoingOn
  BY DEF GoingOn, GoesOn
<1>4. CASE DisplayFails(i)
  BY <1>1, <1>2, <1>4, RefusedKind DEF DisplayFails, StreamStep
<1>5. CASE DisplayRead(i)
  <2>1. CASE Mode = "screencap"
    <3>1. stream' = [stream EXCEPT ![i] = [stream[i] EXCEPT !.pc = "done", !.loop = "on"]]
      BY <1>5, <2>1 DEF DisplayRead, Typed
    <3>2. /\ stream'[i].session = stream[i].session
          /\ stream'[i].pc = "done" /\ stream'[i].loop = "on"
          /\ \A j \in Streams : j # i => stream'[j] = stream[j]
      BY <3>1 DEF Typed, Stream
    <3>3. stream[i].pc = "display" /\ Handed(i, 0)
      BY <1>5, <2>1 DEF DisplayRead
    <3>4. Handing(i)
      BY <1>2, <3>2, <3>3, HandedKind
    <3>5. QED
      BY <1>1, <1>2, <3>3, <3>4 DEF StreamStep
  <2>2. CASE Mode # "screencap"
    <3>1. stream' = [stream EXCEPT ![i] = [stream[i] EXCEPT !.pc = "probe", !.pipe = "on"]]
      BY <1>5, <2>2 DEF DisplayRead, Typed
    <3>2. stream[i].pc = "display" /\ UNCHANGED <<runtime, recorded>>
      BY <1>5, <2>2 DEF DisplayRead
    <3>3. \A j \in Streams : GoesOn(j)
      BY <3>1, <3>2 DEF GoesOn, Typed, Stream
    <3>4. QED
      BY <1>1, <3>2, <3>3 DEF StreamStep, GoingOn
  <2>3. QED
    BY <2>1, <2>2
<1>6. CASE ProbePasses(i)
  <2>1. stream[i].pc = "probe" /\ Handed(i, i) /\ stream[i].loop = "none"
    BY <1>6 DEF ProbePasses, StartingKnown
  <2>2. /\ stream'[i].session = stream[i].session
        /\ stream'[i].pc = "done" /\ stream'[i].loop = "none"
        /\ \A j \in Streams : j # i => stream'[j] = stream[j]
    BY <1>6, <2>1 DEF ProbePasses, Typed, Stream
  <2>3. Handing(i)
    BY <1>2, <2>1, <2>2, HandedKind
  <2>4. QED
    BY <1>1, <1>2, <2>1, <2>3 DEF StreamStep
<1>7. CASE SegmentExits(i)
  <2>1. CASE UNCHANGED <<stream, runtime, recorded>>
    BY <1>1, <1>3, <2>1 DEF StreamStep
  <2>2. CASE stream[i].pc = "probe" /\ ProbeFails(i) /\ Mode = "auto"
    <3>1. stream' = [stream EXCEPT ![i] = [stream[i] EXCEPT !.pc = "done", !.loop = "on"]]
      BY <2>2 DEF ProbeFails, Typed
    <3>2. /\ stream'[i].session = stream[i].session
          /\ stream'[i].pc = "done" /\ stream'[i].loop = "on"
          /\ \A j \in Streams : j # i => stream'[j] = stream[j]
      BY <3>1 DEF Typed, Stream
    <3>3. Handed(i, 0)
      BY <2>2 DEF ProbeFails
    <3>4. Handing(i)
      BY <1>2, <2>2, <3>2, <3>3, HandedKind
    <3>5. QED
      BY <1>1, <1>2, <2>2, <3>4 DEF StreamStep
  <2>3. CASE stream[i].pc = "probe" /\ ProbeFails(i) /\ Mode # "auto"
    BY <1>1, <1>2, <2>3, RefusedKind DEF ProbeFails, StreamStep
  <2>4. QED
    BY <1>7, <2>1, <2>2, <2>3 DEF SegmentExits
<1>8. CASE SegmentUnspawned(i)
  BY <1>1, <1>2, <1>8, ExitsKinds DEF SegmentUnspawned, Typed, StreamStep
<1>9. CASE FfmpegExits(i)
  BY <1>1, <1>2, <1>3, <1>9, ExitsKinds DEF FfmpegExits, Typed, StreamStep
<1>10. CASE LoopFails(i)
  <2>1. [stream EXCEPT ![i].loop = "off"] \in [Streams -> Stream]
    BY DEF Typed, Stream, Capture
  <2>2. \A j \in Streams :
          /\ [stream EXCEPT ![i].loop = "off"][j].session = stream[j].session
          /\ [stream EXCEPT ![i].loop = "off"][j].pc = stream[j].pc
          /\ [stream EXCEPT ![i].loop = "off"][j].pipe = stream[j].pipe
          /\ \/ [stream EXCEPT ![i].loop = "off"][j].loop = stream[j].loop
             \/ stream[j].loop = "on" /\ [stream EXCEPT ![i].loop = "off"][j].loop = "off"
    BY <1>10 DEF LoopFails, Typed, Stream
  <2>3. QED
    BY <1>1, <1>2, <1>10, <2>1, <2>2, ExitsKinds DEF LoopFails, StreamStep
<1>11. CASE OrphanExits(i)
  BY <1>1, <1>3, <1>11 DEF OrphanExits, StreamStep
<1>12. QED
  BY <1>4, <1>5, <1>6, <1>7, <1>8, <1>9, <1>10, <1>11 DEF StreamNext

\* What HandleInv adds to StreamInv.
Handles ==
    /\ StartingKnown /\ HandlesDone /\ RecordExact
    /\ AliveKnown /\ AliveCounted /\ TwoAlive
    /\ OnlyKnownLeaks

LEMMA GoingOnKeeps ==
    ASSUME HandleInv, UNCHANGED <<up, lease, overtaken>>, GoingOn
    PROVE  Handles'
<1> USE DEF GoingOn, GoesOn
<1>1. /\ StreamsOwned /\ Typed
      /\ StartingKnown /\ HandlesDone /\ RecordExact /\ AliveKnown /\ AliveCounted /\ TwoAlive
      /\ OnlyKnownLeaks
  BY InvParts DEF HandleInv
<1>2. \A j \in Streams : stream[j].pc \in {"display", "probe"} => stream[j].session \in Sessions
  BY <1>1 DEF StreamsOwned, Started
<1>3. StartingKnown'
  BY <1>1, <1>2 DEF StartingKnown
<1>4. HandlesDone'
  BY <1>1 DEF HandlesDone
<1>5. RecordExact'
  <2>1. \A s \in Sessions : runtime[s].mapped =>
          Written(runtime[s].handle)' = Written(runtime[s].handle)
    BY <1>1 DEF HandlesDone, Written
  <2>2. QED
    BY <1>1, <2>1 DEF RecordExact
<1>6. \A j \in Streams, s \in Sessions : Alive(j, s)' => Alive(j, s)
  BY DEF Alive
<1>7. AliveKnown' /\ AliveCounted' /\ TwoAlive'
  BY <1>1, <1>6 DEF AliveKnown, AliveCounted, TwoAlive
<1>8. OnlyKnownLeaks'
  <2> SUFFICES ASSUME NEW j \in Streams, NEW s \in 1 .. MaxSessions, s = stream[j].session,
                      ~runtime[s].mapped, stream'[j].pipe = "on" \/ stream'[j].loop = "on"
               PROVE  \/ j \in overtaken
                      \/ runtime[s].handle # j
                      \/ stream'[j].pipe = "on" /\ stream'[j].loop = "off"
    <3>1. \A j \in Streams : stream[j].session \in 0 .. MaxSessions
      BY <1>1 DEF Typed, Stream
    <3>2. \A t \in 0 .. MaxSessions : t # 0 => t \in 1 .. MaxSessions
      BY StreamBoundsAssumption
    <3>3. QED
      BY <3>1, <3>2 DEF OnlyKnownLeaks, Sessions
  <2>1. CASE stream[j].pc \in {"display", "probe"}
    BY <1>1, <2>1 DEF StartingKnown
  <2>2. CASE stream[j].pc \notin {"display", "probe"}
    <3>1. s # 0
      BY StreamBoundsAssumption
    <3>2. QED
      BY <1>1, <2>2, <3>1 DEF OnlyKnownLeaks
  <2>3. QED
    BY <2>1, <2>2
<1>9. QED
  BY <1>3, <1>4, <1>5, <1>7, <1>8 DEF Handles

\* A runtime gets its handle, or a session that is over does, too late.
LEMMA HandingKeeps ==
    ASSUME HandleInv, UNCHANGED <<up, lease, overtaken>>,
           NEW i \in Streams, stream[i].session \in Sessions, Handing(i)
    PROVE  Handles'
<1>1. /\ StreamsOwned /\ Typed /\ RuntimeHasDevice
      /\ StartingKnown /\ HandlesDone /\ RecordExact /\ AliveKnown /\ AliveCounted /\ TwoAlive
      /\ OnlyKnownLeaks
  BY InvParts DEF HandleInv
<1>2. /\ stream[i].pc \in {"display", "probe"} /\ stream'[i].pc = "done"
      /\ stream'[i].session = stream[i].session
      /\ \A j \in Streams : j # i => stream'[j] = stream[j]
      /\ \A t \in Sessions :
           /\ runtime'[t].mapped = runtime[t].mapped
           /\ runtime'[t].restarts = runtime[t].restarts
           /\ runtime'[t].handle = IF t = stream[i].session THEN i ELSE runtime[t].handle
      /\ recorded' = IF stream'[i].loop = "none" THEN i ELSE 0
  BY DEF Handing
<1>3. i # 0 /\ \A j \in Streams : stream[j].pc \in {"display", "probe"} => stream[j].session \in Sessions
  BY <1>1, StreamBoundsAssumption DEF StreamsOwned, Started, Streams
<1>4. StartingKnown'
  BY <1>1, <1>2, <1>3 DEF StartingKnown
<1>5. HandlesDone'
  BY <1>1, <1>2 DEF HandlesDone
<1>6. RecordExact'
  <2> SUFFICES ASSUME up, overtaken = {}
               PROVE  /\ \A s \in Sessions : runtime'[s].mapped => recorded' = Written(runtime[s].handle)'
                      /\ ~ \A s \in Sessions : ~runtime'[s].mapped
    BY DEF RecordExact
  <2>1. runtime[stream[i].session].mapped
    BY <1>1, <1>2 DEF StartingKnown
  <2>2. \A s \in Sessions : runtime'[s].mapped => s = stream[i].session
    BY <1>1, <1>2, <2>1 DEF RuntimeHasDevice
  <2>3. recorded' = Written(runtime[stream[i].session].handle)'
    BY <1>2, <1>3 DEF Written
  <2>4. QED
    BY <1>2, <2>1, <2>2, <2>3 DEF Written
<1>7. \A j \in Streams, s \in Sessions : Alive(j, s)' => Alive(j, s)
  BY <1>2 DEF Alive
<1>8. AliveKnown' /\ AliveCounted' /\ TwoAlive'
  BY <1>1, <1>2, <1>7 DEF AliveKnown, AliveCounted, TwoAlive
<1>9. OnlyKnownLeaks'
  <2> SUFFICES ASSUME NEW j \in Streams, stream'[j].session # 0,
                      ~runtime'[stream'[j].session].mapped,
                      stream'[j].pipe = "on" \/ stream'[j].loop = "on"
               PROVE  \/ j \in overtaken
                      \/ runtime'[stream'[j].session].handle # j
                      \/ stream'[j].pipe = "on" /\ stream'[j].loop = "off"
    BY DEF OnlyKnownLeaks
  <2>1. CASE j = i
    BY <1>1, <1>2, <2>1 DEF StartingKnown
  <2>2. CASE j # i
    <3>1. stream[j].session \in Sessions
      <4>1. stream[j].session \in 0 .. MaxSessions /\ stream[j].session # 0
        BY <1>1, <1>2, <2>2 DEF Typed, Stream
      <4>2. QED
        BY <4>1, StreamBoundsAssumption DEF Sessions
    <3>2. QED
      BY <1>1, <1>2, <2>2, <3>1 DEF OnlyKnownLeaks
  <2>3. QED
    BY <2>1, <2>2
<1>10. QED
  BY <1>4, <1>5, <1>6, <1>8, <1>9 DEF Handles

\* A second stream for a runtime that has one, or the first for one that has none.
LEMMA AnotherKeeps ==
    ASSUME HandleInv, Typed', UNCHANGED <<up, overtaken>>, lease'.id = lease.id,
           lease'.state \in Held => lease.state \in Held,
           NEW s \in Sessions, NEW k \in Streams, Another(s, k), runtime'[s].mapped,
           \A t \in Sessions : t # s =>
             /\ runtime'[t].mapped = runtime[t].mapped
             /\ runtime'[t].handle = runtime[t].handle
             /\ runtime'[t].restarts = runtime[t].restarts,
           \/ /\ runtime[s].mapped /\ runtime[s].restarts = 0 /\ runtime'[s].restarts = 1
              /\ runtime'[s].handle = runtime[s].handle
           \/ /\ \A t \in Sessions : ~runtime[t].mapped
              /\ s = lease.id /\ lease.state \in Held /\ runtime'[s].handle = 0
    PROVE  Handles'
<1>1. /\ StreamsOwned /\ Typed /\ RuntimeHasDevice /\ LeaseNamed
      /\ StartingKnown /\ HandlesDone /\ RecordExact /\ AliveKnown /\ AliveCounted /\ TwoAlive
      /\ OnlyKnownLeaks
  BY InvParts DEF HandleInv
<1>2. /\ stream[k].pc = "unused"
      /\ stream'[k].session = s /\ stream'[k].pc = "display"
      /\ stream'[k].pipe = "none" /\ stream'[k].loop = "none"
      /\ \A j \in Streams : j # k =>
           /\ stream'[j].session = stream[j].session /\ stream'[j].pc = stream[j].pc
           /\ stream[j].pc \notin {"display", "probe"} => stream'[j].pipe = stream[j].pipe
           /\ stream'[j].loop = stream[j].loop \/ (stream[j].loop = "on" /\ stream'[j].loop = "off")
      /\ recorded' = recorded
  BY DEF Another, GoesOn
<1>3. \A j \in Streams : stream[j].pc \in {"display", "probe"} => stream[j].session \in Sessions
  BY <1>1 DEF StreamsOwned, Started
<1>4. s <= lease.id
  <2>1. s = lease.id
    BY <1>1 DEF RuntimeHasDevice
  <2>2. QED
    BY <2>1 DEF Sessions
<1>5. StartingKnown'
  BY <1>1, <1>2, <1>3 DEF StartingKnown
<1>6. HandlesDone'
  BY <1>1, <1>2 DEF HandlesDone
<1>7. RecordExact'
  <2>1. \A t \in Sessions : runtime[t].mapped =>
          Written(runtime[t].handle)' = Written(runtime[t].handle)
    BY <1>1, <1>2 DEF HandlesDone, Written
  <2>2. CASE runtime[s].mapped /\ runtime'[s].handle = runtime[s].handle
    BY <1>1, <1>2, <2>1, <2>2 DEF RecordExact, Written
  <2>3. CASE (\A t \in Sessions : ~runtime[t].mapped) /\ runtime'[s].handle = 0
    BY <1>1, <1>2, <2>3 DEF RecordExact, Written
  <2>4. QED
    BY <2>2, <2>3
<1>8. \A j \in Streams, t \in Sessions : Alive(j, t)' => Alive(j, t) \/ (j = k /\ t = s)
  BY <1>2 DEF Alive
<1>9. \A j \in Streams : ~runtime[s].mapped => ~Alive(j, s)
  BY <1>1 DEF AliveKnown
<1>10. AliveKnown'
  BY <1>1, <1>4, <1>8 DEF AliveKnown
<1>11. AliveCounted'
  BY <1>1, <1>8, <1>9 DEF AliveCounted
<1>12. TwoAlive'
  <2>1. \A i, j \in Streams : Alive(i, s) /\ Alive(j, s) => i = j
    BY <1>1, <1>9 DEF AliveCounted
  <2>2. QED
    BY <1>1, <1>8, <2>1 DEF TwoAlive
<1>13. OnlyKnownLeaks'
  <2> SUFFICES ASSUME NEW j \in Streams, stream'[j].session # 0,
                      ~runtime'[stream'[j].session].mapped,
                      stream'[j].pipe = "on" \/ stream'[j].loop = "on"
               PROVE  \/ j \in overtaken
                      \/ runtime'[stream'[j].session].handle # j
                      \/ stream'[j].pipe = "on" /\ stream'[j].loop = "off"
    BY DEF OnlyKnownLeaks
  <2>1. j # k /\ stream'[j].session # s
    BY <1>2
  <2>2. stream[j].session \in Sessions
    <3>1. stream[j].session \in 0 .. MaxSessions /\ stream[j].session # 0
      BY <1>1, <1>2, <2>1 DEF Typed, Stream
    <3>2. QED
      BY <3>1, StreamBoundsAssumption DEF Sessions
  <2>3. CASE stream[j].pc \in {"display", "probe"}
    BY <1>1, <1>2, <2>1, <2>2, <2>3 DEF StartingKnown
  <2>4. CASE stream[j].pc \notin {"display", "probe"}
    BY <1>1, <1>2, <2>1, <2>2, <2>4 DEF OnlyKnownLeaks
  <2>5. QED
    BY <2>3, <2>4
<1>14. QED
  BY <1>5, <1>6, <1>7, <1>10, <1>11, <1>12, <1>13 DEF Handles

LEMMA StreamStepHandles ==
    ASSUME HandleInv, StreamInv', NEW i \in Streams, StreamNext(i)
    PROVE  Handles'
<1>1. /\ Typed /\ StreamsOwned /\ Typed' /\ StartingKnown
      /\ StreamStep(i)
  BY InvParts, StreamStepKinds DEF HandleInv, StreamInv, StreamTypeOK, Typed
<1>2. UNCHANGED <<up, lease, overtaken>>
  BY <1>1 DEF StreamStep
<1>3. ASSUME NEW s \in Sessions, NEW k \in Streams, Restarting(s, k)
      PROVE  Handles'
  BY <1>1, <1>2, <1>3, AnotherKeeps DEF Restarting
<1>4. QED
  BY <1>1, <1>2, <1>3, GoingOnKeeps, HandingKeeps DEF StreamStep

\* The lease moves, the streams do not.
LEMMA LeaseMoves ==
    ASSUME HandleInv, UNCHANGED <<up, stream, recorded, overtaken>>, lease'.id \in Nat,
           \/ lease'.id = lease.id /\ (lease'.state \in Held => lease.state \in Held)
           \/ lease'.id = lease.id + 1,
           \A t \in Sessions : /\ runtime'[t].mapped = runtime[t].mapped
                               /\ runtime'[t].handle = runtime[t].handle
                               /\ runtime'[t].restarts = runtime[t].restarts
    PROVE  Handles'
<1>1. /\ StreamsOwned /\ Typed
      /\ StartingKnown /\ HandlesDone /\ RecordExact /\ AliveKnown /\ AliveCounted /\ TwoAlive
      /\ OnlyKnownLeaks
  BY InvParts DEF HandleInv
<1>2. \A j \in Streams : stream[j].pc \in {"display", "probe"} => stream[j].session \in Sessions
  BY <1>1 DEF StreamsOwned, Started
<1>3. StartingKnown' /\ HandlesDone'
  BY <1>1, <1>2 DEF StartingKnown, HandlesDone
<1>4. RecordExact'
  BY <1>1 DEF RecordExact, Written
<1>5. AliveKnown'
  <2>1. lease.id \in Nat /\ \A s \in Sessions : s \in Nat
    BY <1>1, StreamBoundsAssumption DEF Typed, Sessions
  <2>2. \A j \in Streams, s \in Sessions : Alive(j, s)' = Alive(j, s)
    BY DEF Alive
  <2>3. QED
    BY <1>1, <2>1, <2>2 DEF AliveKnown
<1>6. AliveCounted' /\ TwoAlive'
  BY <1>1 DEF AliveCounted, TwoAlive, Alive
<1>7. OnlyKnownLeaks'
  <2>1. \A j \in Streams : stream[j].session # 0 => stream[j].session \in Sessions
    BY <1>1, StreamBoundsAssumption DEF Typed, Stream, Sessions
  <2>2. QED
    BY <1>1, <2>1 DEF OnlyKnownLeaks
<1>8. QED
  BY <1>3, <1>4, <1>5, <1>6, <1>7 DEF Handles

LEMMA ActivateHandles ==
    ASSUME HandleInv, StreamInv', Activate
    PROVE  Handles'
<1>1. Typed /\ Typed' /\ RuntimeHasDevice /\ LeaseNamed
  BY InvParts DEF HandleInv, StreamInv, StreamTypeOK, Typed
<1>2. /\ lease.state \in {"reserved", "away"} /\ lease.id \in Sessions
      /\ lease'.id = lease.id /\ UNCHANGED <<up, recorded, overtaken>>
  BY <1>1 DEF Activate, Typed, LeaseNamed
<1>3. CASE UNCHANGED <<runtime, stream>>
  <2>1. lease'.id \in Nat
    BY <1>1, <1>2, StreamBoundsAssumption DEF Typed
  <2>2. QED
    BY <1>2, <1>3, <2>1, LeaseMoves DEF Held
<1>4. CASE /\ ~runtime[lease.id].mapped
           /\ runtime' = [runtime EXCEPT ![lease.id] = [NoRuntime EXCEPT !.mapped = TRUE]]
           /\ Starts(lease.id, stream)
  <2>1. PICK k \in Unused : stream' = [stream EXCEPT ![k] = Starting(lease.id)]
    BY <1>4 DEF Starts
  <2>2. k \in Streams /\ stream[k].pc = "unused"
    BY DEF Unused
  <2>3. /\ stream'[k] = Starting(lease.id)
        /\ \A j \in Streams : j # k => stream'[j] = stream[j]
    BY <1>1, <2>1, <2>2 DEF Typed
  <2>4. Another(lease.id, k)
    BY <1>2, <2>2, <2>3 DEF Another, Starting, GoesOn
  <2>5. /\ \A t \in Sessions : t # lease.id => runtime'[t] = runtime[t]
        /\ runtime'[lease.id] = [NoRuntime EXCEPT !.mapped = TRUE]
    BY <1>1, <1>2, <1>4 DEF Typed
  <2>6. runtime'[lease.id].mapped /\ runtime'[lease.id].handle = 0
    BY <2>5 DEF NoRuntime
  <2>7. \A t \in Sessions : ~runtime[t].mapped
    BY <1>1, <1>4 DEF RuntimeHasDevice
  <2>8. lease.state \in Held
    BY <1>2 DEF Held
  <2>9. QED
    BY <1>1, <1>2, <2>2, <2>4, <2>5, <2>6, <2>7, <2>8, AnotherKeeps
<1>5. QED
  BY <1>3, <1>4 DEF Activate

\* stopRuntime stops what the handle says, and whatever is starting is overtaken.
LEMMA StopHandles ==
    ASSUME HandleInv, StreamInv', StopRuntime
    PROVE  Handles'
<1>1. /\ StreamsOwned /\ Typed /\ Typed' /\ EnderAgrees /\ LeaseNamed /\ RuntimeHasDevice
      /\ StartingKnown /\ HandlesDone /\ RecordExact /\ AliveKnown /\ AliveCounted /\ TwoAlive
      /\ OnlyKnownLeaks
  BY InvParts DEF HandleInv, StreamInv, StreamTypeOK, Typed
<1>2. /\ ender = "stopping" /\ UNCHANGED <<up, crashes, lease>>
  BY DEF StopRuntime
<1>3. PICK s \in Sessions : s = lease.id
  BY <1>1, <1>2 DEF EnderAgrees, LeaseNamed
<1>4. CASE UNCHANGED storeOnly
  <2>1. lease'.id \in Nat
    BY <1>1, <1>2, StreamBoundsAssumption DEF Typed
  <2>2. QED
    BY <1>2, <1>4, <2>1, LeaseMoves DEF storeOnly
<1>5. CASE /\ runtime[s].mapped
           /\ runtime' = [runtime EXCEPT ![s].mapped = FALSE]
           /\ stream' = StoppedBy(runtime[s].handle)
           /\ recorded' = Forgotten
           /\ overtaken' = overtaken \cup
                {j \in Streams : stream[j].session = s /\ stream[j].pc \in {"display", "probe"}}
  <2> DEFINE h == runtime[s].handle
  <2>1. h # 0 => h \in Streams /\ stream[h].pc = "done"
    BY <1>1, <1>5 DEF HandlesDone
  <2>2. \A j \in Streams :
          /\ stream'[j].session = stream[j].session /\ stream'[j].pc = stream[j].pc
          /\ j # h => stream'[j] = stream[j]
          /\ j = h => stream'[j].loop # "on" /\ (stream[j].loop = "none" => stream'[j].pipe = "off")
          /\ j = h /\ stream[j].loop # "none" => stream'[j].loop = "off"
          /\ stream'[j].loop = "none" <=> stream[j].loop = "none"
    <3>1. CASE h = 0
      BY <1>5, <3>1, StreamBoundsAssumption DEF StoppedBy, Streams
    <3>2. CASE h # 0 /\ stream[h].loop = "none"
      BY <1>1, <1>5, <2>1, <3>2 DEF StoppedBy, Typed, Stream
    <3>3. CASE h # 0 /\ stream[h].loop # "none"
      BY <1>1, <1>5, <2>1, <3>3 DEF StoppedBy, Typed, Stream
    <3>4. QED
      BY <3>1, <3>2, <3>3
  <2>3. /\ ~runtime'[s].mapped /\ runtime'[s].handle = h
        /\ runtime'[s].restarts = runtime[s].restarts
        /\ \A t \in Sessions : t # s => runtime'[t] = runtime[t]
    BY <1>1, <1>5 DEF Typed, Runtime
  <2>4. \A t \in Sessions : ~runtime'[t].mapped
    BY <1>1, <1>3, <2>3 DEF RuntimeHasDevice
  <2>5. \A j \in Streams : stream[j].pc \in {"display", "probe"} =>
          stream[j].session \in Sessions /\ j \in overtaken'
    BY <1>1, <1>3, <1>5 DEF StreamsOwned, Started, StartingKnown, RuntimeHasDevice
  <2>6. StartingKnown' /\ HandlesDone'
    BY <1>1, <2>2, <2>4, <2>5 DEF StartingKnown, HandlesDone
  <2>7. RecordExact'
    BY <1>5, <2>4 DEF RecordExact, Forgotten
  <2>8. \A j \in Streams, t \in Sessions : Alive(j, t)' = Alive(j, t)
    BY <2>2 DEF Alive
  <2>9. lease'.state \notin Held
    BY <1>1, <1>2 DEF EnderAgrees, Held
  <2>10. AliveKnown' /\ AliveCounted' /\ TwoAlive'
    BY <1>1, <1>2, <2>3, <2>8, <2>9 DEF AliveKnown, AliveCounted, TwoAlive
  <2>11. OnlyKnownLeaks'
    <3> SUFFICES ASSUME NEW j \in Streams, stream[j].session # 0, j \notin overtaken',
                        stream'[j].pipe = "on" \/ stream'[j].loop = "on",
                        runtime'[stream[j].session].handle = j
                 PROVE  stream'[j].pipe = "on" /\ stream'[j].loop = "off"
      BY <2>2 DEF OnlyKnownLeaks
    <3>1. stream[j].session \in Sessions
      BY <1>1, StreamBoundsAssumption DEF Typed, Stream, Sessions
    <3>2. CASE stream[j].session = s
      BY <2>2, <2>3, <3>2
    <3>3. CASE stream[j].session # s
      <4>1. ~runtime[stream[j].session].mapped /\ runtime[stream[j].session].handle = j
        BY <2>3, <2>4, <3>1, <3>3
      <4>2. j \notin overtaken
        BY <1>5
      <4>3. CASE j = h
        BY <2>2, <4>3
      <4>4. CASE j # h
        BY <1>1, <2>2, <4>1, <4>2, <4>4 DEF OnlyKnownLeaks
      <4>5. QED
        BY <4>3, <4>4
    <3>4. QED
      BY <3>2, <3>3
  <2>12. QED
    BY <2>6, <2>7, <2>10, <2>11 DEF Handles
<1>6. QED
  BY <1>3, <1>4, <1>5 DEF StopRuntime

\* Nothing is left of the process, so nothing can be wrong with it.
LEMMA EmptyHandles ==
    ASSUME \A i \in Streams : /\ stream'[i].pc \in {"unused", "dead"}
                              /\ stream'[i].pipe # "on" /\ stream'[i].loop # "on",
           \A s \in Sessions : ~runtime'[s].mapped,
           up' => recorded' = 0
    PROVE  Handles'
  BY DEF Handles, StartingKnown, HandlesDone, RecordExact, AliveKnown, AliveCounted, TwoAlive,
         Alive, OnlyKnownLeaks

LEMMA HandlesNext == HandleInv /\ [ScreenNext]_streamVars => HandleInv'
<1> SUFFICES ASSUME HandleInv, [ScreenNext]_streamVars PROVE HandleInv'
  OBVIOUS
<1>1. StreamInv'
  BY StreamInvNext DEF HandleInv
<1> SUFFICES Handles'
  BY <1>1 DEF HandleInv, Handles
<1>2. Typed /\ LeaseNamed /\ EnderAgrees /\ DownIsEmpty /\ lease.id \in Nat /\ lease'.id \in Nat
  <2>1. Typed /\ Typed' /\ LeaseNamed /\ EnderAgrees /\ DownIsEmpty
    BY <1>1, InvParts DEF HandleInv, StreamInv, StreamTypeOK, Typed
  <2>2. QED
    BY <2>1, StreamBoundsAssumption DEF Typed
<1>3. ASSUME NEW i \in Streams, StreamNext(i)
      PROVE  Handles'
  BY <1>1, <1>3, StreamStepHandles
<1>4. CASE Reserve \/ Disconnect \/ Terminate \/ CleanupDone
  <2>1. \/ lease'.id = lease.id /\ (lease'.state \in Held => lease.state \in Held)
        \/ lease'.id = lease.id + 1
    BY <1>2, <1>4 DEF Reserve, Disconnect, Terminate, Terminating, CleanupDone, Held, Typed
  <2>2. UNCHANGED <<up, storeOnly>>
    BY <1>4 DEF Reserve, Disconnect, Terminate, CleanupDone
  <2>3. QED
    BY <1>2, <2>1, <2>2, LeaseMoves DEF storeOnly
<1>5. ASSUME NEW s \in Sessions, EndsItself(s)
      PROVE  Handles'
  <2>1. lease'.id = lease.id /\ (lease'.state \in Held => lease.state \in Held)
    BY <1>2, <1>5 DEF EndsItself, Terminating, Held, Typed
  <2>2. \A t \in Sessions : /\ runtime'[t].mapped = runtime[t].mapped
                            /\ runtime'[t].handle = runtime[t].handle
                            /\ runtime'[t].restarts = runtime[t].restarts
    BY <1>2, <1>5 DEF EndsItself, Typed, Runtime
  <2>3. UNCHANGED <<up, stream, recorded, overtaken>>
    BY <1>5 DEF EndsItself
  <2>4. QED
    BY <1>2, <2>1, <2>2, <2>3, LeaseMoves
<1>6. CASE Crash
  <2>1. \A i \in Streams : /\ stream'[i].pc \in {"unused", "dead"}
                          /\ stream'[i].pipe = "none" /\ stream'[i].loop = "none"
    BY <1>6 DEF Crash, NoStream
  <2>2. \A s \in Sessions : ~runtime'[s].mapped
    BY <1>6 DEF Crash, NoRuntime
  <2>3. ~up'
    BY <1>6 DEF Crash
  <2>4. QED
    BY <2>1, <2>2, <2>3, EmptyHandles
<1>7. CASE Boot
  <2>1. UNCHANGED <<runtime, stream>> /\ recorded' = 0 /\ ~up
    BY <1>7 DEF Boot
  <2>2. /\ \A i \in Streams : /\ stream[i].pc \in {"unused", "dead"}
                            /\ stream[i].pipe = "none" /\ stream[i].loop = "none"
        /\ \A s \in Sessions : ~runtime[s].mapped
    BY <1>2, <2>1 DEF DownIsEmpty, NoRuntime
  <2>3. QED
    BY <2>1, <2>2, EmptyHandles
<1>8. CASE UNCHANGED streamVars
  <2>1. UNCHANGED <<up, lease, stream, runtime, recorded, overtaken>>
    BY <1>8 DEF streamVars
  <2>2. QED
    BY <1>2, <2>1, LeaseMoves
<1>9. QED
  BY <1>1, <1>3, <1>4, <1>5, <1>6, <1>7, <1>8, ActivateHandles, StopHandles
     DEF ScreenNext, SessionNext

LEMMA HandlesInit == StreamInit => HandleInv
<1> SUFFICES ASSUME StreamInit PROVE HandleInv
  OBVIOUS
<1>1. StreamInv
  BY StreamInvInit
<1>2. StartingKnown /\ HandlesDone /\ RecordExact /\ AliveKnown /\ AliveCounted /\ TwoAlive
      /\ OnlyKnownLeaks
  BY DEF StreamInit, NoRuntime, NoStream, StartingKnown, HandlesDone, RecordExact, AliveKnown,
         AliveCounted, TwoAlive, Alive, OnlyKnownLeaks
<1>3. QED
  BY <1>1, <1>2 DEF HandleInv

THEOREM HandleInvariance == ScreenSpec => []HandleInv
  BY HandlesInit, HandlesNext, PTL DEF ScreenSpec

\* A runtime starts at most two streams, whatever exits when.
THEOREM OneRestart == ScreenSpec => []RestartsOnce
<1>1. HandleInv => RestartsOnce
  <2> SUFFICES ASSUME HandleInv, NEW i \in Streams, NEW j \in Streams, NEW k \in Streams,
                      i < j, j < k,
                      {stream[i].pc, stream[j].pc, stream[k].pc} \cap {"unused", "dead"} = {},
                      stream[i].session = stream[j].session, stream[j].session = stream[k].session
               PROVE  FALSE
    BY DEF RestartsOnce
  <2>1. Alive(i, stream[i].session) /\ Alive(j, stream[i].session) /\ Alive(k, stream[i].session)
    BY DEF Alive
  <2>2. stream[i].session \in Sessions
    BY DEF HandleInv, StreamInv, StreamsOwned, Started
  <2>3. i = j \/ j = k \/ i = k
    BY <2>1, <2>2 DEF HandleInv, TwoAlive
  <2>4. i \in Nat /\ j \in Nat /\ k \in Nat
    BY StreamBoundsAssumption DEF Streams
  <2>5. QED
    BY <2>3, <2>4
<1>2. QED
  BY <1>1, HandleInvariance, PTL

\* As long as no stream was overtaken by its termination, a restart finds the running
\* capture by its pids, but for a later segment, and finds no other pids: through
\* restarts of the stream, sessions and crashes.
THEOREM RestartFindsTheCapture == ScreenSpec => []RestartFindsCapture
<1>1. HandleInv => RestartFindsCapture
  <2> SUFFICES ASSUME HandleInv, up, overtaken = {}
               PROVE  /\ \A s \in Sessions : runtime[s].mapped =>
                           \A p \in KilledBy(runtime[s].handle) : p \in Recorded \/ p[2] = "later"
                      /\ recorded # 0 => \E s \in Sessions : runtime[s].mapped /\ runtime[s].handle = recorded
    BY DEF RestartFindsCapture
  <2>1. /\ \A s \in Sessions : runtime[s].mapped => recorded = Written(runtime[s].handle)
        /\ (\A s \in Sessions : ~runtime[s].mapped) => recorded = 0
    BY DEF HandleInv, RecordExact
  <2>2. ASSUME NEW s \in Sessions, runtime[s].mapped, NEW p \in KilledBy(runtime[s].handle)
        PROVE  p \in Recorded \/ p[2] = "later"
    <3>1. PICK i : i = runtime[s].handle
      OBVIOUS
    <3>2. p \in procs /\ p[1] = i /\ stream[i].loop = "none"
      BY <2>2, <3>1 DEF KilledBy, ProcessesOf
    <3>3. p \in Process
      BY <3>2 DEF HandleInv, StreamInv, StreamTypeOK
    <3>4. PICK j \in Streams, kind \in {"ffmpeg", "first", "later"} : p = <<j, kind>>
      BY <3>3 DEF Process
    <3>5. j = i /\ i # 0 /\ p[2] = kind
      BY <3>2, <3>4, StreamBoundsAssumption DEF Streams
    <3>6. recorded = i
      BY <2>1, <2>2, <3>1, <3>2, <3>5 DEF Written
    <3>7. QED
      BY <3>4, <3>5, <3>6 DEF Recorded
  <2>3. ASSUME recorded # 0
        PROVE  \E s \in Sessions : runtime[s].mapped /\ runtime[s].handle = recorded
    <3>1. PICK s \in Sessions : runtime[s].mapped
      BY <2>1, <2>3
    <3>2. QED
      BY <2>1, <2>3, <3>1 DEF Written
  <2>4. QED
    BY <2>2, <2>3
<1>2. QED
  BY <1>1, HandleInvariance, PTL

\* There are three ways, and no other, in which a capture outlives its runtime.
THEOREM LeaksKnown == ScreenSpec => []OnlyKnownLeaks
<1>1. HandleInv => OnlyKnownLeaks
  BY DEF HandleInv
<1>2. QED
  BY <1>1, HandleInvariance, PTL
-----------------------------------------------------------------------------
(* The device of this module is leased as the store leases devices: Reserve is *)
(* a Grant, the start of a termination a Revoke, the end of a cleanup a Release. *)

holder == [d \in {1} |-> IF lease.state = "free" THEN 0 ELSE lease.id]
token == [d \in {1} |-> lease.id]
LeaseOf(s) ==
    IF s > lease.id THEN [status |-> "fresh", device |-> 0, token |-> 0]
    ELSE [status |-> IF s = lease.id /\ lease.state \in Held THEN "valid" ELSE "revoked",
          device |-> 1, token |-> s]
leases == [s \in Sessions |-> LeaseOf(s)]

\* What a step may do with the lease.
Kept == lease'.id = lease.id /\ (lease'.state = lease.state \/ (lease.state \in Held /\ lease'.state \in Held))
Granted == lease.state = "free" /\ lease.id < MaxSessions /\ lease' = [id |-> lease.id + 1, state |-> "reserved"]
Revoked == lease.state \in Held /\ lease'.id = lease.id /\ lease'.state = "over"
Released == lease.state = "over" /\ lease'.id = lease.id /\ lease'.state = "free"

LEMMA LeaseSteps ==
    ASSUME StreamInv, [ScreenNext]_streamVars
    PROVE  Kept \/ Granted \/ Revoked \/ Released
<1> DEFINE LeaseT == [id : 0 .. MaxSessions, state : Held \cup {"over", "free"}]
<1>1. lease \in LeaseT
  BY DEF StreamInv, StreamTypeOK
<1>2. CASE UNCHANGED lease
  BY <1>2 DEF Kept
<1>3. CASE Reserve
  BY <1>3 DEF Reserve, Granted
<1>4. CASE Activate \/ Disconnect
  BY <1>1, <1>4 DEF Activate, Disconnect, Kept, Held
<1>5. CASE Terminate \/ \E s \in Sessions : EndsItself(s)
  BY <1>1, <1>5 DEF Terminate, EndsItself, Terminating, Kept, Revoked
<1>6. CASE CleanupDone
  BY <1>1, <1>6 DEF CleanupDone, Released, StreamInv, EnderAgrees
<1>7. CASE Boot
  BY <1>1, <1>7 DEF Boot, Graced, Kept, Held
<1>8. QED
  BY <1>2, <1>3, <1>4, <1>5, <1>6, <1>7
     DEF ScreenNext, streamVars, StreamNext, SessionNext, StopRuntime, Crash, DisplayFails, DisplayRead,
         ProbePasses, SegmentExits, SegmentUnspawned, FfmpegExits, LoopFails, OrphanExits

LEMMA InStoreNext ==
    ASSUME StreamInv, [ScreenNext]_streamVars
    PROVE  [InStore!Next]_InStore!leaseVars
<1>1. /\ MaxSessions \in Nat /\ lease.id \in 0 .. MaxSessions
      /\ lease.state # "free" => lease.id \in Sessions
  BY StreamBoundsAssumption DEF StreamInv, StreamTypeOK, LeaseNamed
<1>2. holder[1] = (IF lease.state = "free" THEN 0 ELSE lease.id) /\ token[1] = lease.id
  BY DEF holder, token
<1>3. CASE Kept
  <2>1. holder' = holder /\ token' = token
    BY <1>3 DEF Kept, Held, holder, token
  <2>2. leases' = leases
    BY <1>3 DEF Kept, Held, leases, LeaseOf
  <2>3. QED
    BY <2>1, <2>2 DEF InStore!leaseVars, holder, token, leases, LeaseOf
<1>4. CASE Granted
  <2>1. PICK s \in Sessions : s = lease.id + 1 /\ lease'.id = s /\ lease'.state = "reserved"
    BY <1>1, <1>4 DEF Granted, Sessions
  <2>2. holder[1] = 0 /\ leases[s].status = "fresh"
    BY <1>1, <1>2, <1>4, <2>1 DEF Granted, leases, LeaseOf
  <2>3. holder' = [holder EXCEPT ![1] = s] /\ token' = [token EXCEPT ![1] = token[1] + 1]
    BY <1>2, <2>1 DEF holder, token
  <2>4. leases' = [leases EXCEPT ![s] = [status |-> "valid", device |-> 1, token |-> token[1] + 1]]
    <3>1. LeaseOf(s)' = [status |-> "valid", device |-> 1, token |-> token[1] + 1]
      BY <1>1, <1>2, <2>1 DEF LeaseOf, Held
    <3>2. ASSUME NEW t \in Sessions, t # s
          PROVE  LeaseOf(t)' = LeaseOf(t)
      BY <1>1, <1>4, <2>1, <3>2 DEF LeaseOf, Granted, Held, Sessions
    <3>3. QED
      BY <3>1, <3>2 DEF leases
  <2>5. InStore!Grant(1, s)
    BY <2>2, <2>3, <2>4 DEF InStore!Grant, holder, token, leases, LeaseOf
  <2>6. QED
    BY <2>1, <2>5 DEF InStore!Next
<1>5. CASE Revoked
  <2>1. PICK s \in Sessions : s = lease.id /\ leases[s] = [status |-> "valid", device |-> 1, token |-> s]
    BY <1>1, <1>5 DEF Revoked, Held, Sessions, leases, LeaseOf
  <2>2. holder' = holder /\ token' = token
    BY <1>5 DEF Revoked, Held, holder, token
  <2>3. leases' = [leases EXCEPT ![s] = [status |-> "revoked", device |-> 1, token |-> s]]
    BY <1>1, <1>5, <2>1 DEF Revoked, Held, Sessions, leases, LeaseOf
  <2>4. [leases[s] EXCEPT !.status = "revoked"] = [status |-> "revoked", device |-> 1, token |-> s]
    BY <2>1
  <2>5. leases' = [leases EXCEPT ![s] = [leases[s] EXCEPT !.status = "revoked"]]
    BY <2>3, <2>4
  <2>6. InStore!Revoke(s)
    BY <2>1, <2>2, <2>5 DEF InStore!Revoke, holder, token, leases, LeaseOf
  <2>7. QED
    BY <2>1, <2>6 DEF InStore!Next
<1>6. CASE Released
  <2>1. lease.id \in Sessions /\ holder[1] = lease.id /\ leases[lease.id].status = "revoked"
    BY <1>1, <1>2, <1>6 DEF Released, Held, Sessions, leases, LeaseOf
  <2>2. holder' = [holder EXCEPT ![1] = 0] /\ token' = token /\ leases' = leases
    BY <1>6 DEF Released, Held, holder, token, leases, LeaseOf
  <2>3. holder[1] # 0
    BY <1>1, <2>1 DEF Sessions
  <2>4. InStore!Release(1)
    BY <2>1, <2>2, <2>3 DEF InStore!Release, holder, token, leases, LeaseOf
  <2>5. QED
    BY <2>4 DEF InStore!Next
<1>7. QED
  BY <1>3, <1>4, <1>5, <1>6, LeaseSteps

\* The sessions' leases in this module are those the store grants: whatever exits late and
\* whenever the server is killed, a lease is revoked once and for good, and the device
\* becomes free only afterwards.
THEOREM ScreenLeasesAsStored == ScreenSpec => LeasesAsStored
<1>1. StreamInit => InStore!Init
  BY StreamBoundsAssumption DEF StreamInit, InStore!Init, InStore!NoLease, Sessions
<1>2. StreamInv /\ [ScreenNext]_streamVars => [InStore!Next]_InStore!leaseVars
  BY InStoreNext
<1>3. QED
  BY <1>1, <1>2, StreamInvariance, PTL DEF ScreenSpec, InStore!Spec, LeasesAsStored
=============================================================================
