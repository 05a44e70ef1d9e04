------------------------------- MODULE Gesture -------------------------------
(***************************************************************************)
(* The way of a pointer gesture to the device: the viewport turns it into  *)
(* a tap or a swipe in normalized coordinates (DeviceViewport.tsx), the    *)
(* schema admits it (messages.ts), the executor turns the coordinates into *)
(* pixels (executor.ts, mapping.ts), and the adapter hands them to adb     *)
(* (adb.ts).  Functions only; there is no state.                           *)
(*                                                                         *)
(* Lengths and pointer positions are integers in a unit as small as one    *)
(* likes, durations are whole milliseconds, and quotients are exact: a     *)
(* pair [n, d] is the number n / d.                                        *)
(***************************************************************************)
EXTENDS Integers

CONSTANTS
    None,
    CssPixel      \* units in a CSS pixel

\* Sizes of a container and of a device that can show something.
Sizes == [w : Nat \ {0}, h : Nat \ {0}]

Smaller(a, b) == IF a < b THEN a ELSE b
Larger(a, b) == IF a > b THEN a ELSE b

-----------------------------------------------------------------------------
(* mapping.ts and the viewport: pointer to normalized point, and back. *)

\* The scale at which the whole device fits into the container.
Scale(box, dev) ==
    IF box.w * dev.h <= box.h * dev.w THEN [n |-> box.w, d |-> dev.w]
                                      ELSE [n |-> box.h, d |-> dev.h]

\* Along one axis, all in units of 1 / s.d: what is rendered, and twice the offset of
\* its letterbox.
Rendered(len, s) == len * s.n
TwiceOffset(box, len, s) == box * s.d - Rendered(len, s)

\* (p - offset) / rendered
Normalized(p, box, len, s) ==
    [n |-> 2 * (p * s.d) - TwiceOffset(box, len, s), d |-> 2 * Rendered(len, s)]

InUnit(v) == 0 <= v.n /\ v.n <= v.d

\* A pointer outside the rendered content has no normalized point, nor has one where
\* nothing is rendered yet.
PointerToNormalized(p, box, dev) ==
    LET s == Scale(box, dev)
        x == Normalized(p.x, box.w, dev.w, s)
        y == Normalized(p.y, box.h, dev.h, s) IN
    IF box \in Sizes /\ dev \in Sizes /\ InUnit(x) /\ InUnit(y) THEN [x |-> x, y |-> y] ELSE None

\* offset + v * rendered: where the cursor of a previewed gesture is put.
ToContainer(v, box, len, s) ==
    [n |-> TwiceOffset(box, len, s) * v.d + 2 * (v.n * Rendered(len, s)), d |-> 2 * (s.d * v.d)]

-----------------------------------------------------------------------------
(* onPointerUp. *)

TapMaxDistance == 12 * CssPixel
TapMaxDuration == 350

\* A gesture that has hardly moved and was short.
IsTap(from, to, duration) ==
    /\ (to.x - from.x) * (to.x - from.x) + (to.y - from.y) * (to.y - from.y)
         <= TapMaxDistance * TapMaxDistance
    /\ duration <= TapMaxDuration

Tap(point) == [kind |-> "tap", point |-> point]
Swipe(from, to, duration) == [kind |-> "swipe", from |-> from, to |-> to, durationMs |-> duration]

\* The command that is sent, if any.
OnPointerUp(from, to, duration, box, dev) ==
    LET a == PointerToNormalized(from, box, dev)
        b == PointerToNormalized(to, box, dev) IN
    IF IsTap(from, to, duration)
      THEN IF a # None THEN Tap(a) ELSE None
      ELSE IF a # None /\ b # None
             THEN Swipe(a, b, Smaller(Larger(duration, 40), 2000))
             ELSE None

\* InputPayloadSchema, for these two kinds.
ValidPoint(pt) == InUnit(pt.x) /\ InUnit(pt.y)
ValidPayload(m) ==
    \/ m.kind = "tap" /\ ValidPoint(m.point)
    \/ m.kind = "swipe" /\ ValidPoint(m.from) /\ ValidPoint(m.to) /\ m.durationMs \in 20 .. 5000

-----------------------------------------------------------------------------
(* The executor and the adapter: normalized point to pixel. *)

Complement(v) == [v EXCEPT !.n = v.d - v.n]

Rotations == {0, 90, 180, 270}

\* The point in the coordinates of a display that is rotated.
Rotated(pt, rotation) ==
    CASE rotation = 90 -> [x |-> pt.y, y |-> Complement(pt.x)]
      [] rotation = 180 -> [x |-> Complement(pt.x), y |-> Complement(pt.y)]
      [] rotation = 270 -> [x |-> Complement(pt.y), y |-> pt.x]
      [] OTHER -> pt

\* Math.round(n / d): halves go up.
Round(n, d) == (2 * n + d) \div (2 * d)

Pixel(v, max) == Smaller(max - 1, Larger(0, Round(v.n * max, v.d)))

NormalizedToDevice(pt, dev, rotation) ==
    LET q == Rotated(pt, rotation) IN
    [x |-> Pixel(q.x, dev.w), y |-> Pixel(q.y, dev.h)]

\* AdbDeviceAdapter.swipe
SwipeDuration(ms) == Larger(20, Smaller(5000, ms))
=============================================================================
