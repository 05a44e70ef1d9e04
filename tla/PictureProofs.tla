---------------------------- MODULE PictureProofs ----------------------------
(***************************************************************************)
(* The pictures of the screen, from the encoder to the tester's tabs: the  *)
(* three promises of JpegStream, for every output, division into chunks    *)
(* and length of the buffer; and the safety of FramePath, for any number   *)
(* of tabs, any buffer and any history of the screen.                      *)
(***************************************************************************)
EXTENDS FramePath, JpegStream, SequenceTheorems, TLAPS

-----------------------------------------------------------------------------
(* JpegStream: the invariant. *)

\* The buffer begins where a picture does, or a part of a picture that will be longer
\* than the buffer has been dropped: from its beginning a on, as many bytes as fit.
Dropped(a) ==
    /\ a \in Starts /\ a < from /\ from - a >= MaxBuffer
    /\ ~\E c \in ends : a < c /\ c <= from

BufferBegins == from \in Starts \/ \E a \in Starts : Dropped(a)

JpegInv == JpegTypeOK /\ WholePicturesOnly /\ BufferBegins /\ OnlyOversizedLost

\* What a push with the chunk up to hi does, with the last marker it finds.
Pushes(hi, last) ==
    /\ hi \in got + 1 .. Length
    /\ got' = hi
    /\ emitted' = emitted \cup Emits(from, hi)
    /\ last \in {from} \cup Found(from, hi)
    /\ \A b \in Found(from, hi) : b <= last
    /\ from' = Kept(last, hi)
    /\ UNCHANGED ends

-----------------------------------------------------------------------------

\* A piece with a picture's beginning is a picture: no marker is overlooked in it.
LEMMA EmitsPictures ==
    ASSUME Length \in Nat, MaxBuffer \in Nat, MjpegOutput, from \in Nat, NEW hi \in Nat
    PROVE  Emits(from, hi) \subseteq Pictures
<1> SUFFICES ASSUME NEW p \in Pieces(from, hi), p.first \in Starts
             PROVE  p \in Pictures
  BY DEF Emits
<1>1. /\ p \in Piece /\ p.first < p.next
      /\ p.first \in {from} \cup Found(from, hi) /\ p.next \in Found(from, hi)
      /\ ~\E c \in Found(from, hi) : p.first < c /\ c < p.next
  BY DEF Pieces
<1>2. p.next \in ends /\ p.next <= hi /\ from <= p.first
  <2>1. p.first \in Nat /\ p.next \in Nat
    BY <1>1 DEF Piece
  <2>2. QED
    BY <1>1, <2>1 DEF Found
<1>3. ASSUME NEW c \in ends, p.first < c, c < p.next
      PROVE  FALSE
  <2>1. p.first + 4 <= c
    BY <1>3 DEF MjpegOutput
  <2>2. c \in Found(from, hi)
    BY <1>1, <1>2, <1>3, <2>1 DEF Found, MjpegOutput, Piece
  <2>3. QED
    BY <1>1, <1>3, <2>2
<1>4. QED
  BY <1>1, <1>2, <1>3 DEF Pictures

\* The buffer is bounded again, and every marker in it has been found.
LEMMA PushTyped ==
    ASSUME Length \in Nat, MaxBuffer \in Nat, JpegInv, NEW hi, NEW last, Pushes(hi, last)
    PROVE  JpegTypeOK'
<1>1. /\ MjpegOutput /\ got \in 0 .. Length /\ from \in 0 .. got
      /\ emitted \in SUBSET Piece
  BY DEF JpegInv, JpegTypeOK
<1>2. /\ hi \in 0 .. Length /\ got < hi /\ last \in from .. hi
      /\ got' = hi /\ ends' = ends
  BY <1>1 DEF Pushes, Found, MjpegOutput
<1>3. (from' = last /\ hi - last <= MaxBuffer) \/ from' = hi
  BY <1>2 DEF Pushes, Kept
<1>4. from' \in 0 .. hi /\ hi - from' <= MaxBuffer
  BY <1>1, <1>2, <1>3
<1>5. ASSUME NEW b \in ends, from' + 2 <= b, b <= hi
      PROVE  FALSE
  <2>1. from' = last
    BY <1>1, <1>2, <1>3, <1>5 DEF MjpegOutput
  <2>2. b \in Found(from, hi)
    BY <1>1, <1>2, <1>5, <2>1 DEF Found, MjpegOutput
  <2>3. b <= last
    BY <2>2 DEF Pushes
  <2>4. QED
    BY <1>1, <1>2, <1>5, <2>1, <2>3 DEF MjpegOutput
<1>6. (Found(from, got) = {})'
  BY <1>2, <1>5 DEF Found
<1>7. emitted' \in SUBSET Piece
  BY <1>1 DEF Pushes, Emits, Pieces
<1>8. MjpegOutput'
  BY <1>1, <1>2 DEF MjpegOutput, Starts
<1>9. QED
  BY <1>2, <1>4, <1>6, <1>7, <1>8 DEF JpegTypeOK

\* Behind the last marker a picture begins; a buffer that is dropped was too long.
LEMMA PushBegins ==
    ASSUME Length \in Nat, MaxBuffer \in Nat, JpegInv, NEW hi, NEW last, Pushes(hi, last)
    PROVE  BufferBegins'
<1>1. /\ MjpegOutput /\ got \in 0 .. Length /\ from \in 0 .. got
      /\ hi \in 0 .. Length /\ got < hi /\ last \in from .. hi
      /\ ends' = ends /\ Starts' = Starts /\ Starts \subseteq Nat
  BY DEF Pushes, Found, MjpegOutput, JpegInv, JpegTypeOK, Starts
<1>2. last \in Starts \/ last = from
  BY DEF Pushes, Found, Starts
<1>3. CASE from' = last
  <2>1. CASE last \in Starts
    BY <1>1, <1>3, <2>1 DEF BufferBegins
  <2>2. CASE last = from
    BY <1>1, <1>3, <2>2 DEF JpegInv, BufferBegins, Dropped
  <2>3. QED
    BY <1>2, <2>1, <2>2
<1>4. CASE from' = hi /\ hi - last > MaxBuffer
  <2>1. ASSUME NEW c \in ends, last < c, c <= hi
        PROVE  c = last + 1 /\ last = from
    <3>1. c \notin Found(from, hi)
      BY <1>1, <2>1 DEF Pushes, MjpegOutput
    <3>2. c < from + 2
      BY <1>1, <2>1, <3>1 DEF Found, MjpegOutput
    <3>3. QED
      BY <1>1, <2>1, <3>2 DEF MjpegOutput
  <2>2. CASE \E c \in ends : last < c /\ c <= hi
    <3>1. from + 1 \in ends /\ last = from
      BY <2>1, <2>2
    <3>2. CASE from + 1 = hi
      BY <1>1, <1>4, <3>1, <3>2 DEF BufferBegins, Starts
    <3>3. CASE from + 1 < hi
      <4>1. hi - (from + 1) >= MaxBuffer
        BY <1>1, <1>4, <3>1
      <4>2. ~\E c \in ends : from + 1 < c /\ c <= hi
        BY <1>1, <2>1, <3>1 DEF MjpegOutput
      <4>3. QED
        BY <1>1, <1>4, <3>1, <3>3, <4>1, <4>2 DEF BufferBegins, Dropped, Starts
    <3>4. QED
      BY <1>1, <3>1, <3>2, <3>3, <2>2 DEF MjpegOutput
  <2>3. CASE ~\E c \in ends : last < c /\ c <= hi
    <3>1. CASE last \in Starts
      BY <1>1, <1>4, <2>3, <3>1 DEF BufferBegins, Dropped
    <3>2. CASE last = from /\ from \notin Starts
      <4>1. PICK a \in Starts : Dropped(a)
        BY <3>2 DEF JpegInv, BufferBegins
      <4>2. /\ a < hi /\ hi - a >= MaxBuffer
            /\ ~\E c \in ends : a < c /\ c <= hi
        BY <1>1, <2>3, <3>2, <4>1 DEF Dropped, MjpegOutput
      <4>3. QED
        BY <1>1, <1>4, <4>2 DEF BufferBegins, Dropped
    <3>3. QED
      BY <1>2, <3>1, <3>2
  <2>4. QED
    BY <2>2, <2>3
<1>5. QED
  BY <1>3, <1>4 DEF Pushes, Kept

\* A picture that begins in front of the buffer has been dropped in part, and is too long.
LEMMA BegunIsTooLong ==
    ASSUME Length \in Nat, MaxBuffer \in Nat, JpegInv, NEW p \in Pictures, p.first < from, from < p.next
    PROVE  TooLong(p)
<1>1. /\ MjpegOutput /\ from \in Nat /\ MaxBuffer \in Nat
      /\ p.first \in Starts /\ p.next \in ends /\ p.first \in Nat /\ p.next \in Nat
      /\ \A c \in ends : c \in Nat
      /\ ~\E c \in ends : p.first < c /\ c < p.next
  BY DEF JpegInv, JpegTypeOK, MjpegOutput, Starts, Pictures, Piece
<1>2. from \notin Starts
  BY <1>1 DEF Starts
<1>3. PICK a \in Starts : Dropped(a)
  BY <1>2 DEF JpegInv, BufferBegins
<1>4. a = p.first
  <2>1. ~(a < p.first)
    BY <1>1, <1>3 DEF Dropped, Starts
  <2>2. ~(p.first < a)
    BY <1>1, <1>3 DEF Dropped, Starts
  <2>3. a \in Nat
    BY <1>1, <1>3 DEF Starts
  <2>4. QED
    BY <1>1, <2>1, <2>2, <2>3
<1>5. QED
  BY <1>1, <1>3, <1>4 DEF Dropped, TooLong

\* A picture that is complete with this chunk is cut off as one piece, unless it or the
\* one before it is too long.
LEMMA PushLoses ==
    ASSUME Length \in Nat, MaxBuffer \in Nat, JpegInv, NEW hi, NEW last, Pushes(hi, last),
           NEW p \in Pictures, p.next <= hi, ~(p.next <= got)
    PROVE  \/ p \in emitted'
           \/ TooLong(p)
           \/ \E q \in Pictures : q.next = p.first /\ TooLong(q)
<1>1. /\ MjpegOutput /\ got \in Nat /\ from \in Nat /\ from <= got /\ hi \in Nat /\ MaxBuffer \in Nat
  BY DEF JpegInv, JpegTypeOK, Pushes
<1>2. /\ p \in Piece /\ p.first \in Nat /\ p.next \in Nat
      /\ p.first \in Starts /\ p.next \in ends /\ p.first < p.next
      /\ \A c \in ends : c \in Nat
      /\ ~\E c \in ends : p.first < c /\ c < p.next
  BY <1>1 DEF MjpegOutput, Pictures, Piece
<1>3. p.first + 4 <= p.next
  BY <1>1, <1>2 DEF MjpegOutput
<1>4. CASE p.first < from
  BY <1>1, <1>2, <1>3, <1>4, BegunIsTooLong
<1>5. CASE p.first = from \/ from + 2 <= p.first
  <2>1. p.next \in Found(from, hi) /\ p.first \in {from} \cup Found(from, hi)
    BY <1>1, <1>2, <1>3, <1>5 DEF Found, Starts
  <2>2. ~\E c \in Found(from, hi) : p.first < c /\ c < p.next
    BY <1>1, <1>2, <1>3 DEF Found
  <2>3. p \in Emits(from, hi)
    BY <1>1, <1>2, <1>3, <2>1, <2>2 DEF Emits, Pieces
  <2>4. QED
    BY <2>3 DEF Pushes
<1>6. CASE p.first = from + 1
  <2>1. p.first \in ends
    BY <1>1, <1>2, <1>3, <1>6 DEF Starts
  <2>2. from \notin Starts
    BY <1>1, <1>2, <1>3, <1>6, <2>1 DEF MjpegOutput
  <2>3. PICK a \in Starts : Dropped(a)
    BY <2>2 DEF JpegInv, BufferBegins
  <2>4. a \in Nat /\ a < p.first /\ p.first - a > MaxBuffer
    <3>1. a \in Nat
      BY <1>2, <2>3 DEF Starts
    <3>2. QED
      BY <1>1, <1>6, <2>3, <3>1 DEF Dropped
  <2> DEFINE q == [first |-> a, next |-> p.first]
  <2>5. q \in Pictures
    <3>1. a \in 0 .. Length /\ p.first \in 0 .. Length
      BY <1>2, <2>4 DEF Piece
    <3>2. q \in Piece
      BY <3>1 DEF Piece
    <3>3. ~\E c \in ends : a < c /\ c < p.first
      BY <1>1, <1>2, <1>6, <2>3 DEF Dropped
    <3>4. QED
      BY <2>1, <2>3, <2>4, <3>2, <3>3 DEF Pictures
  <2>6. TooLong(q)
    BY <2>4 DEF TooLong
  <2>7. QED
    BY <2>5, <2>6
<1>7. QED
  BY <1>1, <1>2, <1>3, <1>4, <1>5, <1>6

-----------------------------------------------------------------------------

LEMMA JpegInvInit ==
    ASSUME Length \in Nat, MaxBuffer \in Nat, JpegInit
    PROVE  JpegInv
<1>1. /\ MjpegOutput /\ got = 0 /\ from = 0 /\ emitted = {}
      /\ \A b \in ends : b \in Nat /\ b > 0
  BY DEF JpegInit, MjpegOutput
<1>2. JpegTypeOK
  <2>1. Found(from, got) = {}
    BY <1>1 DEF Found
  <2>2. QED
    BY <1>1, <2>1 DEF JpegTypeOK
<1>3. OnlyOversizedLost
  <2>1. \A p \in Pictures : p.next \in Nat /\ p.next > 0
    BY <1>1 DEF Pictures
  <2>2. QED
    BY <1>1, <2>1 DEF OnlyOversizedLost
<1>4. QED
  BY <1>1, <1>2, <1>3 DEF JpegInv, WholePicturesOnly, BufferBegins, Starts

LEMMA JpegInvNext ==
    ASSUME Length \in Nat, MaxBuffer \in Nat, JpegInv, [Push]_jpegVars
    PROVE  JpegInv'
<1>1. ASSUME NEW hi, NEW last, Pushes(hi, last)
      PROVE  JpegInv'
  <2>1. Pictures' = Pictures /\ \A p : TooLong(p)' = TooLong(p)
    BY <1>1 DEF Pushes, Pictures, Starts, TooLong
  <2>2. MjpegOutput /\ from \in Nat /\ hi \in Nat /\ got \in Nat
    BY <1>1 DEF Pushes, JpegInv, JpegTypeOK
  <2>3. WholePicturesOnly'
    <3>1. Emits(from, hi) \subseteq Pictures
      BY <2>2, EmitsPictures
    <3>2. QED
      BY <1>1, <2>1, <3>1 DEF Pushes, JpegInv, WholePicturesOnly
  <2>4. OnlyOversizedLost'
    <3> SUFFICES ASSUME NEW p \in Pictures, p.next <= hi
                 PROVE  \/ p \in emitted'
                        \/ TooLong(p)
                        \/ \E q \in Pictures : q.next = p.first /\ TooLong(q)
      BY <1>1, <2>1 DEF Pushes, OnlyOversizedLost
    <3>1. CASE p.next <= got
      BY <1>1, <3>1 DEF Pushes, JpegInv, OnlyOversizedLost
    <3>2. CASE ~(p.next <= got)
      BY <1>1, <3>2, PushLoses
    <3>3. QED
      BY <3>1, <3>2
  <2>5. QED
    BY <1>1, <2>3, <2>4, PushTyped, PushBegins DEF JpegInv
<1>2. CASE Push
  BY <1>1, <1>2 DEF Push, Pushes
<1>3. CASE UNCHANGED jpegVars
  BY <1>3 DEF jpegVars, JpegInv, JpegTypeOK, MjpegOutput, Starts, Found, WholePicturesOnly, Pictures,
              BufferBegins, Dropped, OnlyOversizedLost, TooLong
<1>4. QED
  BY <1>2, <1>3

THEOREM JpegInvariance ==
    ASSUME Length \in Nat, MaxBuffer \in Nat
    PROVE  JpegSpec => []JpegInv
<1>1. JpegInit => JpegInv
  BY JpegInvInit
<1>2. JpegInv /\ [Push]_jpegVars => JpegInv'
  BY JpegInvNext
<1>3. QED
  BY <1>1, <1>2, PTL DEF JpegSpec

\* The buffer is bounded between two chunks, and no complete picture waits in it.
THEOREM JpegTypeCorrect ==
    ASSUME Length \in Nat, MaxBuffer \in Nat
    PROVE  JpegSpec => []JpegTypeOK
<1>1. JpegInv => JpegTypeOK
  BY DEF JpegInv
<1>2. QED
  BY <1>1, JpegInvariance, PTL

\* Every picture handed on is one of the encoder's, whole and alone, however the output
\* is divided into chunks and whatever was dropped before.
THEOREM PicturesAreWhole ==
    ASSUME Length \in Nat, MaxBuffer \in Nat
    PROVE  JpegSpec => []WholePicturesOnly
<1>1. JpegInv => WholePicturesOnly
  BY DEF JpegInv
<1>2. QED
  BY <1>1, JpegInvariance, PTL

\* A picture is lost only if it, or the one before it, does not fit into the buffer.
THEOREM LossIsBounded ==
    ASSUME Length \in Nat, MaxBuffer \in Nat
    PROVE  JpegSpec => []OnlyOversizedLost
<1>1. JpegInv => OnlyOversizedLost
  BY DEF JpegInv
<1>2. QED
  BY <1>1, JpegInvariance, PTL

-----------------------------------------------------------------------------
(* FramePath: the invariant. *)

SocketRecord ==
    [ready : {"none", "open", "closing"}, pending : Versions \cup {None}, timer : BOOLEAN,
     wire : Seq(Versions), decoding : Seq(Versions), shown : Versions \cup {None}]

\* What FrameTypeOK says of one socket; in addition the timer runs only while there is
\* something to flush, so that it never sends a frame that is not there.
Sound(k) ==
    /\ k \in SocketRecord
    /\ Len(k.wire) <= BufferCap
    /\ k.pending # None <=> k.timer
    /\ k.ready # "open" => k.wire = <<>>

\* What LatestFrameWins says of one socket, for the newest frame f.
Carries(k, f) ==
    k.ready = "open" =>
        /\ k.pending # None => k.pending = f
        /\ k.pending = None /\ k.wire # <<>> => k.wire[Len(k.wire)] = f

CaptureOK ==
    /\ screen \in Versions
    /\ pipeline \in Seq(Versions)
    /\ shot \in [Shots -> Versions \cup {None}]
    /\ idle \in BOOLEAN
    /\ newest \in Versions \cup {None}

SocketsOK ==
    /\ sock \in [Sockets -> SocketRecord]
    /\ \A s \in Sockets : Sound(sock[s]) /\ Carries(sock[s], newest)

FrameInv == CaptureOK /\ SocketsOK

-----------------------------------------------------------------------------
(* One socket. *)

\* The null value is not a version.
LEMMA NoneIsNoVersion == None \notin Versions
BY FrameBoundsAssumption DEF Versions

\* A frame at the end of a wire.
LEMMA Appended ==
    ASSUME NEW w \in Seq(Versions), NEW f \in Versions
    PROVE  /\ Append(w, f) \in Seq(Versions)
           /\ Len(Append(w, f)) = Len(w) + 1
           /\ Append(w, f) # <<>>
           /\ Append(w, f)[Len(w) + 1] = f
OBVIOUS

\* The head leaves a sequence, and the last element stays unless it was the head.
LEMMA Shifted ==
    ASSUME NEW w \in Seq(Versions), w # <<>>
    PROVE  /\ Head(w) \in Versions
           /\ Tail(w) \in Seq(Versions)
           /\ Len(Tail(w)) = Len(w) - 1
           /\ Tail(w) # <<>> => Tail(w)[Len(Tail(w))] = w[Len(w)]
<1>1. Head(w) \in Versions /\ Tail(w) \in Seq(Versions) /\ Len(Tail(w)) = Len(w) - 1
  OBVIOUS
<1>2. \A i \in 1 .. Len(Tail(w)) : Tail(w)[i] = w[i + 1]
  OBVIOUS
<1>3. ASSUME Tail(w) # <<>> PROVE Len(Tail(w)) \in 1 .. Len(Tail(w))
  BY <1>1, <1>3
<1>4. QED
  BY <1>1, <1>2, <1>3

\* A decoding is over.
LEMMA Removed ==
    ASSUME NEW w \in Seq(Versions), NEW i \in DOMAIN w
    PROVE  w[i] \in Versions /\ RemoveAt(w, i) \in Seq(Versions)
<1>1. i \in 1 .. Len(w) /\ w[i] \in Versions
  OBVIOUS
<1>2. SubSeq(w, 1, i - 1) \in Seq(Versions)
  <2>1. \A j \in 1 .. i - 1 : w[j] \in Versions
    BY <1>1
  <2>2. QED
    BY <1>1, <2>1
<1>3. SubSeq(w, i + 1, Len(w)) \in Seq(Versions)
  <2>1. \A j \in i + 1 .. Len(w) : w[j] \in Versions
    BY <1>1
  <2>2. QED
    BY <1>1, <2>1
<1>4. QED
  BY <1>1, <1>2, <1>3 DEF RemoveAt

\* The fields of a socket that has been read from.
LEMMA ReadFields ==
    ASSUME NEW k \in SocketRecord, NEW w, NEW d
    PROVE  [k EXCEPT !.wire = w, !.decoding = d]
             = [ready |-> k.ready, pending |-> k.pending, timer |-> k.timer, wire |-> w,
                decoding |-> d, shown |-> k.shown]
<1> DEFINE r == [ready |-> k.ready, pending |-> k.pending, timer |-> k.timer, wire |-> w,
                 decoding |-> k.decoding, shown |-> k.shown]
<1>1. [k EXCEPT !.wire = w] = r
  BY SMTT(60) DEF SocketRecord
<1>2. [r EXCEPT !.decoding = d]
        = [ready |-> k.ready, pending |-> k.pending, timer |-> k.timer, wire |-> w,
           decoding |-> d, shown |-> k.shown]
  OBVIOUS
<1>3. QED
  BY <1>1, <1>2

\* A socket that is not there.
LEMMA NoSocketSound ==
    \A f : Sound(NoSocket) /\ Carries(NoSocket, f)
BY FrameBoundsAssumption DEF NoSocket, Sound, SocketRecord, Carries

\* sendFrame, whatever was on the way before.
LEMMA QueuedSound ==
    ASSUME NEW k, Sound(k), NEW f \in Versions, NEW g, Carries(k, g)
    PROVE  Sound(Queued(k, f)) /\ Carries(Queued(k, f), f)
<1>1. k \in SocketRecord /\ f # None
  BY NoneIsNoVersion DEF Sound
<1>2. CASE k.ready # "open"
  BY <1>2 DEF Queued, Carries
<1>3. CASE k.ready = "open" /\ Room(k)
  <2> DEFINE q == Queued(k, f)
  <2>1. q = [k EXCEPT !.wire = Append(@, f)]
    BY <1>3 DEF Queued
  <2>2. Append(k.wire, f) \in Seq(Versions) /\ k.pending = None /\ k.timer = FALSE
    BY <1>1, <1>3, Appended DEF SocketRecord, Sound, Room
  <2>3. q \in SocketRecord
    BY <1>1, <2>1, <2>2 DEF SocketRecord
  <2>4. /\ q.ready = "open" /\ q.pending = None /\ q.timer = FALSE
        /\ q.wire = Append(k.wire, f)
        /\ q \in SocketRecord
    BY <1>1, <1>3, <2>1, <2>2, <2>3 DEF SocketRecord
  <2>5. Len(q.wire) = Len(k.wire) + 1 /\ q.wire[Len(q.wire)] = f
    BY <1>1, <2>4, Appended DEF SocketRecord
  <2>6. Len(k.wire) < BufferCap /\ Len(k.wire) \in Nat
    BY <1>1, <1>3 DEF Room, SocketRecord
  <2>7. QED
    BY <2>4, <2>5, <2>6, FrameBoundsAssumption DEF Sound, Carries
<1>4. CASE k.ready = "open" /\ ~Room(k)
  <2> DEFINE q == Queued(k, f)
  <2>1. q = [k EXCEPT !.pending = f, !.timer = TRUE]
    BY <1>4 DEF Queued
  <2>2. /\ q.ready = "open" /\ q.pending = f /\ q.timer = TRUE /\ q.wire = k.wire
        /\ q \in SocketRecord
    BY <1>1, <1>4, <2>1 DEF SocketRecord
  <2>3. QED
    BY <1>1, <2>2 DEF Sound, Carries
<1>5. QED
  BY <1>2, <1>3, <1>4

\* flush sends the pending frame, which is the newest.
LEMMA FlushedSound ==
    ASSUME NEW k, Sound(k), k.timer, NEW f, Carries(k, f)
    PROVE  Sound(Flushed(k)) /\ Carries(Flushed(k), f)
<1>1. k \in SocketRecord /\ k.pending \in Versions
  BY NoneIsNoVersion DEF Sound, SocketRecord
<1>2. CASE k.ready # "open"
  <2> DEFINE q == Flushed(k)
  <2>1. q = [k EXCEPT !.timer = FALSE, !.pending = None]
    BY <1>2 DEF Flushed
  <2>2. q.ready = k.ready /\ q.pending = None /\ q.timer = FALSE /\ q.wire = k.wire /\ q \in SocketRecord
    BY <1>1, <2>1 DEF SocketRecord
  <2>3. QED
    BY <1>2, <2>2 DEF Sound, Carries
<1>3. CASE k.ready = "open" /\ Len(k.wire) < BufferCap
  <2> DEFINE q == Flushed(k)
  <2>1. q = [k EXCEPT !.wire = Append(@, k.pending), !.timer = FALSE, !.pending = None]
    BY <1>3 DEF Flushed
  <2>2. Append(k.wire, k.pending) \in Seq(Versions)
    BY <1>1, Appended DEF SocketRecord
  <2>3. q = [ready |-> k.ready, pending |-> None, timer |-> FALSE,
             wire |-> Append(k.wire, k.pending), decoding |-> k.decoding, shown |-> k.shown]
    BY <1>1, <2>1 DEF SocketRecord
  <2>4. /\ q.ready = "open" /\ q.pending = None /\ q.timer = FALSE
        /\ q.wire = Append(k.wire, k.pending)
        /\ q \in SocketRecord
    BY <1>1, <1>3, <2>2, <2>3 DEF SocketRecord
  <2>5. Len(q.wire) = Len(k.wire) + 1 /\ q.wire[Len(q.wire)] = k.pending /\ Len(k.wire) \in Nat
    BY <1>1, <2>4, Appended DEF SocketRecord
  <2>6. k.pending = f
    BY <1>1, <1>3, NoneIsNoVersion DEF Carries
  <2>7. QED
    BY <1>3, <2>4, <2>5, <2>6, FrameBoundsAssumption DEF Sound, Carries
<1>4. CASE k.ready = "open" /\ ~(Len(k.wire) < BufferCap)
  BY <1>4 DEF Flushed
<1>5. QED
  BY <1>2, <1>3, <1>4

\* What a step of one socket leaves of the others.
LEMMA OneSocket ==
    ASSUME SocketsOK, NEW s \in Sockets, NEW k, Sound(k), Carries(k, newest),
           sock' = [sock EXCEPT ![s] = k], newest' = newest
    PROVE  SocketsOK'
<1>1. \A x \in Sockets : sock'[x] = IF x = s THEN k ELSE sock[x]
  BY DEF SocketsOK
<1>2. sock' \in [Sockets -> SocketRecord]
  BY DEF SocketsOK, Sound
<1>3. \A x \in Sockets : Sound(sock'[x]) /\ Carries(sock'[x], newest)
  BY <1>1 DEF SocketsOK
<1>4. QED
  BY <1>2, <1>3 DEF SocketsOK

\* A frame goes to all of them.
LEMMA EmitSound ==
    ASSUME SocketsOK, NEW f \in Versions, Emit(f)
    PROVE  SocketsOK'
<1>1. \A x \in Sockets : Sound(Queued(sock[x], f)) /\ Carries(Queued(sock[x], f), f)
  BY QueuedSound DEF SocketsOK
<1>2. sock' = [x \in Sockets |-> Queued(sock[x], f)] /\ newest' = f
  BY DEF Emit
<1>3. sock' \in [Sockets -> SocketRecord]
  BY <1>1, <1>2 DEF Sound
<1>4. \A x \in Sockets : Sound(sock'[x]) /\ Carries(sock'[x], f)
  BY <1>1, <1>2
<1>5. QED
  BY <1>2, <1>3, <1>4 DEF SocketsOK

-----------------------------------------------------------------------------
(* The steps. *)

LEMMA FrameInvInit == FrameInit => FrameInv
<1> SUFFICES ASSUME FrameInit PROVE FrameInv
  OBVIOUS
<1>1. CaptureOK
  <2>1. 0 \in Versions /\ shot \in [Shots -> Versions \cup {None}]
    BY FrameBoundsAssumption DEF FrameInit, Versions
  <2>2. <<>> \in Seq(Versions)
    OBVIOUS
  <2>3. QED
    BY <2>1, <2>2 DEF FrameInit, CaptureOK
<1>2. NoSocket \in SocketRecord
  BY NoSocketSound DEF Sound
<1>3. SocketsOK
  BY <1>2, NoSocketSound DEF FrameInit, SocketsOK
<1>4. QED
  BY <1>1, <1>3 DEF FrameInv

\* The capture's steps that send nothing.
LEMMA CaptureSteps ==
    ASSUME FrameInv, ScreenChanges \/ IdlePasses \/ Keepalive
    PROVE  FrameInv'
<1>1. UNCHANGED <<sock, newest>>
  BY DEF ScreenChanges, IdlePasses, Keepalive
<1>2. SocketsOK'
  BY <1>1 DEF FrameInv, SocketsOK
<1>3. CASE ScreenChanges
  <2>1. screen + 1 \in Versions /\ screen' = screen + 1
    BY <1>3, FrameBoundsAssumption DEF ScreenChanges, FrameInv, CaptureOK, Versions
  <2>2. pipeline' \in Seq(Versions)
    BY <1>3, <2>1, Appended DEF ScreenChanges, FrameInv, CaptureOK
  <2>3. QED
    BY <1>2, <1>3, <2>1, <2>2 DEF ScreenChanges, FrameInv, CaptureOK
<1>4. CASE IdlePasses
  BY <1>2, <1>4 DEF IdlePasses, FrameInv, CaptureOK
<1>5. CASE Keepalive
  BY <1>2, <1>5 DEF Keepalive, FrameInv, CaptureOK
<1>6. QED
  BY <1>3, <1>4, <1>5

LEMMA ParsedStep ==
    ASSUME FrameInv, Parsed
    PROVE  FrameInv'
<1>1. Head(pipeline) \in Versions /\ Tail(pipeline) \in Seq(Versions)
  BY Shifted DEF Parsed, FrameInv, CaptureOK
<1>2. SocketsOK'
  BY <1>1, EmitSound DEF Parsed, FrameInv
<1>3. CaptureOK'
  BY <1>1 DEF Parsed, Emit, FrameInv, CaptureOK
<1>4. QED
  BY <1>2, <1>3 DEF FrameInv

LEMMA ShotSteps ==
    ASSUME FrameInv, NEW k \in Shots, ShotArrives(k) \/ ShotFails(k)
    PROVE  FrameInv'
<1>1. CASE ShotArrives(k)
  <2>1. shot[k] \in Versions
    BY <1>1 DEF ShotArrives, FrameInv, CaptureOK
  <2>2. SocketsOK'
    BY <1>1, <2>1, EmitSound DEF ShotArrives, FrameInv
  <2>3. CaptureOK'
    BY <1>1, <2>1 DEF ShotArrives, Emit, FrameInv, CaptureOK
  <2>4. QED
    BY <2>2, <2>3 DEF FrameInv
<1>2. CASE ShotFails(k)
  BY <1>2 DEF ShotFails, FrameInv, CaptureOK, SocketsOK
<1>3. QED
  BY <1>1, <1>2

LEMMA SocketSteps ==
    ASSUME FrameInv, NEW s \in Sockets,
           Flush(s) \/ Opens(s) \/ Closes(s) \/ SocketClosed(s) \/ Received(s) \/ Drawn(s) \/ Corrupt(s)
    PROVE  FrameInv'
<1> DEFINE k == sock[s]
<1>1. UNCHANGED <<screen, pipeline, shot, idle, newest>>
  BY DEF Flush, Opens, Closes, SocketClosed, Received, Drawn, Corrupt
<1>2. CaptureOK'
  BY <1>1 DEF FrameInv, CaptureOK
<1>3. k \in SocketRecord /\ Sound(k) /\ Carries(k, newest) /\ SocketsOK
  BY DEF FrameInv, SocketsOK
<1>4. CASE Flush(s)
  <2>1. Sound(Flushed(k)) /\ Carries(Flushed(k), newest)
    BY <1>3, <1>4, FlushedSound DEF Flush
  <2>2. sock' = [sock EXCEPT ![s] = Flushed(k)]
    BY <1>4 DEF Flush
  <2>3. QED
    BY <1>1, <1>2, <1>3, <2>1, <2>2, OneSocket DEF FrameInv
<1>5. CASE Opens(s)
  <2> DEFINE q == [NoSocket EXCEPT !.ready = "open"]
  <2>1. NoSocket \in SocketRecord
    BY NoSocketSound DEF Sound
  <2>2. /\ q.ready = "open" /\ q.pending = None /\ q.timer = FALSE /\ q.wire = <<>>
        /\ q \in SocketRecord
    BY <2>1 DEF NoSocket, SocketRecord
  <2>3. Sound(q) /\ Carries(q, newest)
    BY <2>2, FrameBoundsAssumption DEF Sound, Carries
  <2>4. sock' = [sock EXCEPT ![s] = q]
    BY <1>5 DEF Opens
  <2>5. QED
    BY <1>1, <1>2, <1>3, <2>3, <2>4, OneSocket DEF FrameInv
<1>6. CASE Closes(s)
  <2> DEFINE q == Broken(k)
  <2>1. /\ q.ready = "closing" /\ q.pending = k.pending /\ q.timer = k.timer /\ q.wire = <<>>
        /\ q \in SocketRecord
    BY <1>3 DEF SocketRecord, Broken
  <2>2. Sound(q) /\ Carries(q, newest)
    BY <1>3, <2>1, FrameBoundsAssumption DEF Sound, Carries
  <2>3. sock' = [sock EXCEPT ![s] = q]
    BY <1>6 DEF Closes
  <2>4. QED
    BY <1>1, <1>2, <1>3, <2>2, <2>3, OneSocket DEF FrameInv
<1>7. CASE SocketClosed(s)
  <2>1. sock' = [sock EXCEPT ![s] = NoSocket]
    BY <1>7 DEF SocketClosed
  <2>2. QED
    BY <1>1, <1>2, <1>3, <2>1, NoSocketSound, OneSocket DEF FrameInv
<1>8. CASE Received(s)
  <2> DEFINE q == Handled(k)
  <2>1. k.wire \in Seq(Versions) /\ k.decoding \in Seq(Versions) /\ k.wire # <<>>
    BY <1>3, <1>8 DEF Received, SocketRecord
  <2>2. /\ Head(k.wire) \in Versions /\ Tail(k.wire) \in Seq(Versions)
        /\ Len(Tail(k.wire)) = Len(k.wire) - 1
        /\ Tail(k.wire) # <<>> => Tail(k.wire)[Len(Tail(k.wire))] = k.wire[Len(k.wire)]
    BY <2>1, Shifted
  <2>3. Append(k.decoding, Head(k.wire)) \in Seq(Versions)
    BY <2>1, <2>2, Appended
  <2>4. q = [ready |-> k.ready, pending |-> k.pending, timer |-> k.timer, wire |-> Tail(k.wire),
             decoding |-> Append(k.decoding, Head(k.wire)), shown |-> k.shown]
    BY <1>3, ReadFields DEF Handled
  <2>5. /\ q.ready = k.ready /\ q.pending = k.pending /\ q.timer = k.timer /\ q.wire = Tail(k.wire)
        /\ q \in SocketRecord
    BY <1>3, <2>2, <2>3, <2>4 DEF SocketRecord
  <2>6. k.ready = "open" /\ Len(k.wire) <= BufferCap /\ Len(k.wire) \in Nat
    BY <1>3, <2>1 DEF Sound
  <2>7. Sound(q) /\ Carries(q, newest)
    BY <1>3, <2>1, <2>2, <2>5, <2>6, FrameBoundsAssumption DEF Sound, Carries
  <2>8. sock' = [sock EXCEPT ![s] = q]
    BY <1>8 DEF Received
  <2>9. QED
    BY <1>1, <1>2, <1>3, <2>7, <2>8, OneSocket DEF FrameInv
<1>9. CASE Drawn(s) \/ Corrupt(s)
  <2>1. PICK i \in DOMAIN k.decoding :
          \/ sock' = [sock EXCEPT ![s] = Decoded(k, i, k.decoding[i])]
          \/ sock' = [sock EXCEPT ![s] = Decoded(k, i, k.shown)]
    BY <1>9 DEF Drawn, Corrupt
  <2>2. PICK v \in {k.decoding[i], k.shown} : sock' = [sock EXCEPT ![s] = Decoded(k, i, v)]
    BY <2>1
  <2> DEFINE q == Decoded(k, i, v)
  <2>3. RemoveAt(k.decoding, i) \in Seq(Versions) /\ v \in Versions \cup {None}
    BY <1>3, Removed DEF SocketRecord
  <2>4. q = [ready |-> k.ready, pending |-> k.pending, timer |-> k.timer, wire |-> k.wire,
             decoding |-> RemoveAt(k.decoding, i), shown |-> v]
    <3> DEFINE r == [ready |-> k.ready, pending |-> k.pending, timer |-> k.timer, wire |-> k.wire,
                     decoding |-> RemoveAt(k.decoding, i), shown |-> k.shown]
    <3>1. [k EXCEPT !.decoding = RemoveAt(@, i)] = r
      BY <1>3 DEF SocketRecord
    <3>2. [r EXCEPT !.shown = v]
            = [ready |-> k.ready, pending |-> k.pending, timer |-> k.timer, wire |-> k.wire,
               decoding |-> RemoveAt(k.decoding, i), shown |-> v]
      OBVIOUS
    <3>3. QED
      BY <3>1, <3>2 DEF Decoded
  <2>5. /\ q.ready = k.ready /\ q.pending = k.pending /\ q.timer = k.timer /\ q.wire = k.wire
        /\ q \in SocketRecord
    BY <1>3, <2>3, <2>4 DEF SocketRecord
  <2>6. Sound(q) /\ Carries(q, newest)
    BY <1>3, <2>5 DEF Sound, Carries
  <2>7. QED
    BY <1>1, <1>2, <1>3, <2>2, <2>6, OneSocket DEF FrameInv
<1>10. QED
  BY <1>4, <1>5, <1>6, <1>7, <1>8, <1>9

LEMMA FrameInvNext == FrameInv /\ [FrameNext]_frameVars => FrameInv'
<1> SUFFICES ASSUME FrameInv, [FrameNext]_frameVars PROVE FrameInv'
  OBVIOUS
<1>1. CASE UNCHANGED frameVars
  BY <1>1 DEF frameVars, FrameInv, CaptureOK, SocketsOK
<1>2. CASE FrameNext
  BY <1>2, CaptureSteps, ParsedStep, ShotSteps, SocketSteps DEF FrameNext
<1>3. QED
  BY <1>1, <1>2

LEMMA FrameInvariant == FrameSpec => []FrameInv
BY FrameInvInit, FrameInvNext, PTL DEF FrameSpec

-----------------------------------------------------------------------------
(* The theorems. *)

\* A slow tab costs the server a bounded number of frames: at most BufferCap of them are
\* in a socket's buffer and one waits, with a timer that will flush it (hub.ts, sendFrame).
THEOREM FrameTypeCorrect == FrameSpec => []FrameTypeOK
<1>1. FrameInv => FrameTypeOK
  BY DEF FrameInv, CaptureOK, SocketsOK, Sound, SocketRecord, FrameTypeOK
<1>2. QED
  BY <1>1, FrameInvariant, PTL

\* Back-pressure never drops the newest frame, nor sends an older one after it (hub.ts,
\* "latest-frame-wins: at most one unsent frame; newer frames replace it").
THEOREM NewestFrameKept == FrameSpec => []LatestFrameWins
<1>1. FrameInv => LatestFrameWins
  BY DEF FrameInv, SocketsOK, Carries, LatestFrameWins
<1>2. QED
  BY <1>1, FrameInvariant, PTL

=============================================================================
