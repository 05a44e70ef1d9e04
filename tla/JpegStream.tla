----------------------------- MODULE JpegStream -----------------------------
(***************************************************************************)
(* JpegStreamParser (device-adapter/src/adb.ts): ffmpeg's output is cut    *)
(* into pictures at the end markers, whatever the chunks it arrives in.    *)
(*                                                                         *)
(* Bytes are known by their offset in the output, so the buffer, a suffix  *)
(* of what has arrived, is an interval: [from, got).  A picture is known   *)
(* by its first offset and the one after its last.                         *)
(***************************************************************************)
EXTENDS Integers

CONSTANTS
    Length,     \* the bytes that ffmpeg writes, as many as one likes
    MaxBuffer   \* the bytes kept while no end marker arrives (8 MB)

VARIABLES
    ends,     \* the output: where its pictures end
    got,      \* the bytes that have arrived
    from,     \* the first of them in the buffer
    emitted   \* the pictures handed to onJpeg

jpegVars == <<ends, got, from, emitted>>

-----------------------------------------------------------------------------

Starts == {0} \cup ends

\* A picture begins with FF D8 and ends with FF D9, and neither is inside of one:
\* in between an FF is followed by 00 or by a restart marker.
MjpegOutput ==
    /\ ends \in SUBSET (1 .. Length)
    /\ \A a \in Starts, b \in ends : a < b => a + 4 <= b

\* What lies between two end markers.
Piece == [first : 0 .. Length, next : 0 .. Length]

\* The encoder's pictures.
Pictures ==
    {p \in Piece : /\ p.first \in Starts /\ p.next \in ends /\ p.first < p.next
                   /\ ~\E c \in ends : p.first < c /\ c < p.next}

JpegInit ==
    /\ MjpegOutput
    /\ got = 0 /\ from = 0
    /\ emitted = {}

-----------------------------------------------------------------------------

\* buffer.indexOf: the end markers that lie in the buffer with both bytes.
Found(lo, hi) == {b \in ends : lo + 2 <= b /\ b <= hi}

Pieces(lo, hi) ==
    {p \in Piece : /\ p.first \in {lo} \cup Found(lo, hi) /\ p.next \in Found(lo, hi)
                   /\ p.first < p.next
                   /\ ~\E c \in Found(lo, hi) : p.first < c /\ c < p.next}

\* A piece that does not begin with FF D8 is what a dropped buffer has left over.
Emits(lo, hi) == {p \in Pieces(lo, hi) : p.first \in Starts}

\* The buffer is dropped when it gets too long.
Kept(last, hi) == IF hi - last > MaxBuffer THEN hi ELSE last

\* push: every complete piece is cut off, the rest is kept.
Push ==
    \E hi \in got + 1 .. Length :
        /\ got' = hi
        /\ emitted' = emitted \cup Emits(from, hi)
        /\ \E last \in {from} \cup Found(from, hi) :
             /\ \A b \in Found(from, hi) : b <= last
             /\ from' = Kept(last, hi)
        /\ UNCHANGED ends

JpegSpec == JpegInit /\ [][Push]_jpegVars

-----------------------------------------------------------------------------
(* Properties. *)

\* Every variable has its type, and between two chunks the buffer is bounded and
\* holds no end marker.
JpegTypeOK ==
    /\ MjpegOutput
    /\ got \in 0 .. Length /\ from \in 0 .. got
    /\ emitted \in SUBSET Piece
    /\ got - from <= MaxBuffer
    /\ Found(from, got) = {}

\* A viewer never gets a part of a picture or two in one, also when a chunk ends within
\* a marker or the buffer was dropped within a picture ("Frames must start with SOI").
WholePicturesOnly == emitted \subseteq Pictures

TooLong(p) == p.next - p.first > MaxBuffer

\* However the output is divided into chunks, no picture is lost but one that is longer
\* than the buffer, and at most the one behind it: the buffer may be dropped between the
\* two bytes of an end marker.
OnlyOversizedLost ==
    \A p \in Pictures :
        p.next <= got => \/ p \in emitted
                       \/ TooLong(p)
                       \/ \E q \in Pictures : q.next = p.first /\ TooLong(q)
=============================================================================
