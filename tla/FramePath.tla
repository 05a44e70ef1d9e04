------------------------------ MODULE FramePath ------------------------------
(***************************************************************************)
(* The pictures of one running capture on their way to the tester's tabs:  *)
(* JPEGs parsed from ffmpeg's output and screencaps (device-adapter/adb.ts)*)
(* are numbered by the runtime (core.ts), sent or held back by the hub for *)
(* each socket of the client (realtime/hub.ts), and decoded and drawn by   *)
(* the browser, which awaits each decoding on its own (connection.ts).     *)
(*                                                                         *)
(* A frame is the version of the screen it shows.  Its header, with the    *)
(* frameSeq the viewport does not look at, is left out.                    *)
(***************************************************************************)
EXTENDS Integers, Sequences, SequencesExt

CONSTANTS
    None,
    Sockets,      \* the tabs of the session's client
    MaxChanges,   \* bound: how often the screen changes
    BufferCap,    \* frames that bring bufferedAmount to streamMaxBufferedBytes
    MaxDecodes    \* bound: frames a browser decodes at the same time

ASSUME FrameBoundsAssumption ==
    /\ MaxChanges \in Nat
    /\ BufferCap \in Nat \ {0} /\ MaxDecodes \in Nat \ {0}
    /\ None \notin Nat

VARIABLES
    screen,     \* the version of the screen
    pipeline,   \* versions encoded by screenrecord, not yet parsed from ffmpeg's output
    shot,       \* the screencaps under way: the first one, and the keepalive's
    idle,       \* no frame for KEEPALIVE_IDLE_MS
    sock,       \* the sockets, with the browser at the other end
    newest      \* history: the last frame that was captured

frameVars == <<screen, pipeline, shot, idle, sock, newest>>

-----------------------------------------------------------------------------

Versions == 0 .. MaxChanges
Shots == {"prime", "keepalive"}

\* SocketState, what ws has buffered, the frames under decoding and the canvas.
NoSocket == [ready |-> "none", pending |-> None, timer |-> FALSE,
             wire |-> <<>>, decoding |-> <<>>, shown |-> None]

\* The stream has just started: a screencap is to prime it.
FrameInit ==
    /\ screen = 0
    /\ pipeline = <<>>
    /\ shot = [k \in Shots |-> IF k = "prime" THEN 0 ELSE None]
    /\ idle = FALSE
    /\ sock = [s \in Sockets |-> NoSocket]
    /\ newest = None

-----------------------------------------------------------------------------
(* The hub, for one socket. *)

\* Mutated form of Room: a pending frame does not hold back a newer one.
RoomInBuffer(k) == Len(k.wire) < BufferCap

\* A frame may be sent at once.
Room(k) == Len(k.wire) < BufferCap /\ k.pending = None

\* sendFrame: sent, or put in the place of the pending frame; the timer runs.
Queued(k, f) ==
    IF k.ready # "open" THEN k
    ELSE IF Room(k) THEN [k EXCEPT !.wire = Append(@, f)]
    ELSE [k EXCEPT !.pending = f, !.timer = TRUE]

\* Mutated form of Flushed: without a look at bufferedAmount.
FlushedAnyway(k) ==
    IF k.ready # "open" THEN [k EXCEPT !.timer = FALSE, !.pending = None]
    ELSE [k EXCEPT !.wire = Append(@, k.pending), !.timer = FALSE, !.pending = None]

\* flush, every FLUSH_INTERVAL_MS: on a socket that is not open the frame is
\* forgotten, on one with a full buffer it is kept.
Flushed(k) ==
    IF k.ready # "open" THEN [k EXCEPT !.timer = FALSE, !.pending = None]
    ELSE IF Len(k.wire) < BufferCap
      THEN [k EXCEPT !.wire = Append(@, k.pending), !.timer = FALSE, !.pending = None]
    ELSE k

Flush(s) ==
    /\ sock[s].timer
    /\ sock' = [sock EXCEPT ![s] = Flushed(@)]
    /\ UNCHANGED <<screen, pipeline, shot, idle, newest>>

-----------------------------------------------------------------------------
(* The capture. *)

\* The runtime's onFrame: the frame goes to every socket of the client.
Emit(f) ==
    /\ sock' = [s \in Sockets |-> Queued(sock[s], f)]
    /\ newest' = f

\* screenrecord encodes a change of the screen, or its path stalls.
ScreenChanges ==
    /\ screen < MaxChanges
    /\ screen' = screen + 1
    /\ pipeline' \in {pipeline, Append(pipeline, screen + 1)}
    /\ UNCHANGED <<shot, idle, sock, newest>>

\* The parser has found the end of a JPEG in ffmpeg's output.
Parsed ==
    /\ pipeline # <<>>
    /\ Emit(Head(pipeline))
    /\ pipeline' = Tail(pipeline)
    /\ idle' = FALSE
    /\ UNCHANGED <<screen, shot>>

IdlePasses ==
    /\ ~idle
    /\ idle' = TRUE
    /\ UNCHANGED <<screen, pipeline, shot, sock, newest>>

\* Mutated form of Keepalive: only until there is a picture.
KeepaliveUntilFirst ==
    /\ idle /\ shot["keepalive"] = None
    /\ newest = None
    /\ shot' = [shot EXCEPT !["keepalive"] = screen]
    /\ UNCHANGED <<screen, pipeline, idle, sock, newest>>

\* The keepalive timer: one screencap at a time.  The picture is as old as can
\* be when it arrives: it is taken when it is asked for.
Keepalive ==
    /\ idle /\ shot["keepalive"] = None
    /\ shot' = [shot EXCEPT !["keepalive"] = screen]
    /\ UNCHANGED <<screen, pipeline, idle, sock, newest>>

ShotArrives(k) ==
    /\ shot[k] # None
    /\ Emit(shot[k])
    /\ shot' = [shot EXCEPT ![k] = None]
    /\ idle' = IF k = "keepalive" THEN FALSE ELSE idle
    /\ UNCHANGED <<screen, pipeline>>

\* The error is swallowed, and the next keepalive tries again.
ShotFails(k) ==
    /\ shot[k] # None
    /\ shot' = [shot EXCEPT ![k] = None]
    /\ UNCHANGED <<screen, pipeline, idle, sock, newest>>

-----------------------------------------------------------------------------
(* The sockets and the browser. *)

\* A tab connects; its canvas is empty.
Opens(s) ==
    /\ sock[s].ready = "none"
    /\ sock' = [sock EXCEPT ![s] = [NoSocket EXCEPT !.ready = "open"]]
    /\ UNCHANGED <<screen, pipeline, shot, idle, newest>>

\* The tab, what was sent and what it decoded are gone; the hub's part is left.
Broken(k) == [ready |-> "closing", pending |-> k.pending, timer |-> k.timer,
              wire |-> <<>>, decoding |-> <<>>, shown |-> None]

\* The connection breaks.
Closes(s) ==
    /\ sock[s].ready = "open"
    /\ sock' = [sock EXCEPT ![s] = Broken(@)]
    /\ UNCHANGED <<screen, pipeline, shot, idle, newest>>

\* onClose
SocketClosed(s) ==
    /\ sock[s].ready = "closing"
    /\ sock' = [sock EXCEPT ![s] = NoSocket]
    /\ UNCHANGED <<screen, pipeline, shot, idle, newest>>

\* A frame leaves the buffer and reaches handleFrame, which awaits its decoding.
Handled(k) == [k EXCEPT !.wire = Tail(k.wire), !.decoding = Append(k.decoding, Head(k.wire))]

Received(s) ==
    /\ sock[s].wire # <<>>
    /\ Len(sock[s].decoding) < MaxDecodes
    /\ sock' = [sock EXCEPT ![s] = Handled(@)]
    /\ UNCHANGED <<screen, pipeline, shot, idle, newest>>

\* A decoding ends, in whatever order, and the canvas shows a picture.
Decoded(k, i, picture) == [k EXCEPT !.decoding = RemoveAt(@, i), !.shown = picture]

\* The frame is drawn over what is there; or its decoding failed.
Drawn(s) ==
    /\ \E i \in DOMAIN sock[s].decoding :
         sock' = [sock EXCEPT ![s] = Decoded(@, i, sock[s].decoding[i])]
    /\ UNCHANGED <<screen, pipeline, shot, idle, newest>>

Corrupt(s) ==
    /\ \E i \in DOMAIN sock[s].decoding :
         sock' = [sock EXCEPT ![s] = Decoded(@, i, sock[s].shown)]
    /\ UNCHANGED <<screen, pipeline, shot, idle, newest>>

FrameNext ==
    \/ ScreenChanges \/ Parsed \/ IdlePasses \/ Keepalive
    \/ \E k \in Shots : ShotArrives(k) \/ ShotFails(k)
    \/ \E s \in Sockets :
         \/ Flush(s) \/ Opens(s) \/ Closes(s) \/ SocketClosed(s)
         \/ Received(s) \/ Drawn(s) \/ Corrupt(s)

FrameSpec == FrameInit /\ [][FrameNext]_frameVars

\* Timers fire, adb calls end, and not always with an error; an open socket
\* drains; decodings end, and not always with an error.  Nothing is assumed of
\* the H.264 path.
FrameFairness ==
    /\ WF_frameVars(IdlePasses) /\ WF_frameVars(Keepalive)
    /\ WF_frameVars(\E k \in Shots : ShotArrives(k) \/ ShotFails(k))
    /\ SF_frameVars(ShotArrives("keepalive"))
    /\ \A s \in Sockets :
         /\ WF_frameVars(Flush(s)) /\ WF_frameVars(Received(s))
         /\ WF_frameVars(Drawn(s) \/ Corrupt(s)) /\ SF_frameVars(Drawn(s))

FairFrameSpec == FrameSpec /\ FrameFairness

-----------------------------------------------------------------------------
(* Properties. *)

\* Every variable has its type.  Of a socket, at most BufferCap frames and one
\* more are in memory, however slow the browser is, and the one more has a timer.
FrameTypeOK ==
    /\ screen \in Versions
    /\ pipeline \in Seq(Versions)
    /\ shot \in [Shots -> Versions \cup {None}]
    /\ idle \in BOOLEAN
    /\ newest \in Versions \cup {None}
    /\ sock \in [Sockets -> [ready : {"none", "open", "closing"}, pending : Versions \cup {None},
                             timer : BOOLEAN, wire : Seq(Versions), decoding : Seq(Versions),
                             shown : Versions \cup {None}]]
    /\ \A s \in Sockets :
         /\ Len(sock[s].wire) <= BufferCap
         /\ sock[s].pending # None => sock[s].timer
         /\ sock[s].ready # "open" => sock[s].wire = <<>>

\* The last frame an open socket has to carry is the newest that was captured: no
\* older one is sent after it, and it is not the one that is dropped (hub.ts,
\* "latest-frame-wins: at most one unsent frame; newer frames replace it").
LatestFrameWins ==
    \A s \in Sockets :
        LET wire == sock[s].wire
            pending == sock[s].pending IN
        sock[s].ready = "open" =>
            /\ pending # None => pending = newest
            /\ pending = None /\ wire # <<>> => wire[Len(wire)] = newest

\* A tab that stays connected shows the screen as it is once the screen stays as it
\* is, whatever was dropped, drawn out of order, failed or stalled before (adb.ts,
\* "push a single screencap so the feed stays live (and self-heals if the H.264
\* path stalls)").
PictureCatchesUp ==
    \A s \in Sockets :
        <>[](sock[s].ready = "open") => <>[](sock[s].shown = screen)
=============================================================================
