---------------------------- MODULE GestureProofs ----------------------------
(***************************************************************************)
(* What the functions of Gesture promise for all sizes of container and    *)
(* device and all pointer positions.                                       *)
(***************************************************************************)
EXTENDS Gesture, TLAPS

Points == [x : Int, y : Int]

\* Numbers that are written as pairs.
Numbers == [n : Int, d : Int]

-----------------------------------------------------------------------------
(* Arithmetic. *)

\* Division rounds down.
LEMMA Division ==
    ASSUME NEW a \in Int, NEW b \in Int, b > 0
    PROVE  /\ a \div b \in Int
           /\ b * (a \div b) <= a
           /\ a < b * (a \div b) + b
OBVIOUS

\* Products of positive numbers are positive, and a positive factor can be dropped.
LEMMA Products ==
    ASSUME NEW a \in Nat \ {0}, NEW b \in Nat \ {0}
    PROVE  a * b \in Nat \ {0}
OBVIOUS

LEMMA Cancellation ==
    ASSUME NEW a \in Int, NEW b \in Int, NEW c \in Nat \ {0}, a * c <= b * c
    PROVE  a <= b
OBVIOUS

\* The scale and what it renders are positive.
LEMMA Scales ==
    ASSUME NEW box \in Sizes, NEW dev \in Sizes
    PROVE  LET s == Scale(box, dev) IN
           /\ s \in [n : Nat \ {0}, d : Nat \ {0}]
           /\ Rendered(dev.w, s) \in Nat \ {0}
           /\ Rendered(dev.h, s) \in Nat \ {0}
<1> DEFINE s == Scale(box, dev)
<1>1. s \in [n : Nat \ {0}, d : Nat \ {0}]
  BY DEF Scale, Sizes
<1>2. dev.w \in Nat \ {0} /\ dev.h \in Nat \ {0} /\ s.n \in Nat \ {0}
  BY <1>1 DEF Sizes
<1> HIDE DEF s
<1>3. QED
  BY <1>1, <1>2, Products DEF Rendered, s

-----------------------------------------------------------------------------
(* The letterbox. *)

\* The picture fills the container in one direction and does not stick out in the
\* other: offset is never negative (mapping.ts, the scale and its offsets).
THEOREM ContentFits ==
    ASSUME NEW box \in Sizes, NEW dev \in Sizes
    PROVE  LET s == Scale(box, dev)
               left == TwiceOffset(box.w, dev.w, s)
               top == TwiceOffset(box.h, dev.h, s) IN
           left >= 0 /\ top >= 0 /\ (left = 0 \/ top = 0)
<1> DEFINE s == Scale(box, dev)
<1>1. box.w \in Nat \ {0} /\ box.h \in Nat \ {0} /\ dev.w \in Nat \ {0} /\ dev.h \in Nat \ {0}
  BY DEF Sizes
<1>2. box.w * dev.h \in Int /\ box.h * dev.w \in Int
      /\ box.w * dev.w \in Int /\ box.h * dev.h \in Int
  BY <1>1
<1>3. /\ dev.w * box.w = box.w * dev.w /\ dev.h * box.h = box.h * dev.h
      /\ dev.h * box.w = box.w * dev.h /\ dev.w * box.h = box.h * dev.w
  BY <1>1
<1>4. CASE box.w * dev.h <= box.h * dev.w
  <2>1. s.n = box.w /\ s.d = dev.w
    BY <1>4 DEF Scale
  <2>2. QED
    BY <1>2, <1>3, <1>4, <2>1 DEF TwiceOffset, Rendered
<1>5. CASE ~(box.w * dev.h <= box.h * dev.w)
  <2>1. s.n = box.h /\ s.d = dev.h
    BY <1>5 DEF Scale
  <2>2. QED
    BY <1>2, <1>3, <1>5, <2>1 DEF TwiceOffset, Rendered
<1>6. QED
  BY <1>4, <1>5

\* A pointer's normalized coordinate, put back into the container, is where the pointer
\* was (DeviceViewport.tsx, "so the cursor lands exactly where the tap will").
THEOREM CursorLandsOnPointer ==
    ASSUME NEW box \in Nat \ {0}, NEW len \in Nat \ {0}, NEW p \in Int,
           NEW s \in [n : Nat \ {0}, d : Nat \ {0}]
    PROVE  LET c == ToContainer(Normalized(p, box, len, s), box, len, s) IN
           c.d > 0 /\ c.n = p * c.d
<1> DEFINE v == Normalized(p, box, len, s)
           r == Rendered(len, s)
           o == TwiceOffset(box, len, s)
           q == p * s.d
<1>1. s.n \in Nat \ {0} /\ s.d \in Nat \ {0}
  OBVIOUS
<1>2. r \in Nat \ {0} /\ o \in Int /\ q \in Int
  BY <1>1, Products DEF Rendered, TwiceOffset
<1>3. v.n = 2 * q - o /\ v.d = 2 * r
  BY DEF Normalized
<1>4. ToContainer(v, box, len, s) = [n |-> o * (2 * r) + 2 * ((2 * q - o) * r), d |-> 2 * (s.d * (2 * r))]
  BY <1>3 DEF ToContainer
<1> HIDE DEF v, r, o
<1>5. s.d * (2 * r) \in Nat \ {0}
  BY <1>1, <1>2, Products
<1>6. o * (2 * r) + 2 * ((2 * q - o) * r) = 4 * (q * r)
  BY <1>2
<1>7. p * (2 * (s.d * (2 * r))) = 4 * (q * r)
  BY <1>1, <1>2
<1>8. QED
  BY <1>4, <1>5, <1>6, <1>7 DEF v

-----------------------------------------------------------------------------
(* From a point to a pixel. *)

\* The pixel is on the device, and the point is at most half a pixel away from it,
\* or within the last pixel, where rounding would leave the device.
THEOREM PixelNearPoint ==
    ASSUME NEW len \in Nat \ {0}, NEW v \in Numbers, v.d > 0, InUnit(v)
    PROVE  LET p == Pixel(v, len) IN
           /\ p \in 0 .. len - 1
           /\ 2 * (p * v.d) <= 2 * (v.n * len) + v.d
           /\ 2 * (v.n * len) < 2 * (p * v.d) + v.d \/ p = len - 1
<1> DEFINE m == v.n * len
           d == v.d
           k == Round(m, d)
           p == Pixel(v, len)
<1>1. v.n \in Int /\ d \in Nat \ {0} /\ 0 <= v.n /\ v.n <= d
  BY DEF Numbers, InUnit
<1>2. m \in Int /\ 0 <= m
  BY <1>1
<1>3. /\ k \in Int
      /\ (2 * d) * k <= 2 * m + d
      /\ 2 * m + d < (2 * d) * k + 2 * d
  <2>1. 2 * m + d \in Int /\ 2 * d \in Int /\ 2 * d > 0
    BY <1>1, <1>2
  <2>2. QED
    BY <2>1, Division DEF Round
<1>4. p = Smaller(len - 1, Larger(0, k))
  BY DEF Pixel
<1> HIDE DEF m, k, p, d
<1>5. 0 <= k
  <2>1. SUFFICES ASSUME k <= -1 PROVE FALSE
    BY <1>3
  <2>2. (2 * d) * k <= (2 * d) * (-1)
    BY <1>1, <1>3, <2>1
  <2>3. QED
    BY <1>1, <1>2, <1>3, <2>2
<1>6. (2 * d) * k = 2 * (k * d)
  BY <1>1, <1>3
<1>7. CASE k <= len - 1
  <2>1. p = k
    BY <1>3, <1>4, <1>5, <1>7 DEF Smaller, Larger
  <2>2. k * d \in Int
    BY <1>1, <1>3
  <2>3. 2 * (p * d) <= 2 * m + d /\ 2 * m < 2 * (p * d) + d
    BY <1>1, <1>2, <1>3, <1>6, <2>1, <2>2
  <2>4. QED
    BY <1>3, <1>5, <1>7, <2>1, <2>3 DEF m, d, p
<1>8. CASE k >= len
  <2>1. p = len - 1
    BY <1>3, <1>4, <1>5, <1>8 DEF Smaller, Larger
  <2>2. k * d \in Int /\ p * d \in Int /\ p * d <= k * d
    BY <1>1, <1>3, <1>8, <2>1
  <2>3. 2 * (p * d) <= 2 * m + d
    BY <1>1, <1>2, <1>3, <1>6, <2>2
  <2>4. QED
    BY <2>1, <2>3 DEF m, d, p
<1>9. QED
  BY <1>3, <1>7, <1>8

\* A gesture's pixel is the one under the pointer or next to it: measured in device
\* pixels the pointer is less than one away, whatever the container's size and shape
\* (DeviceViewport.tsx, "so clicks are accurate at any size").
THEOREM PixelUnderPointer ==
    ASSUME NEW box \in Nat \ {0}, NEW len \in Nat \ {0}, NEW p \in Int,
           NEW s \in [n : Nat \ {0}, d : Nat \ {0}],
           InUnit(Normalized(p, box, len, s))
    PROVE  LET pixel == Pixel(Normalized(p, box, len, s), len)
               pointer == 2 * (p * s.d) - TwiceOffset(box, len, s) IN
           (pixel - 1) * (2 * s.n) <= pointer /\ pointer <= (pixel + 1) * (2 * s.n)
<1> DEFINE v == Normalized(p, box, len, s)
           pointer == 2 * (p * s.d) - TwiceOffset(box, len, s)
           k == Pixel(v, len)
           u == 2 * s.n
<1>1. s.n \in Nat \ {0} /\ s.d \in Nat \ {0} /\ u \in Nat \ {0}
  OBVIOUS
<1>2. /\ Rendered(len, s) \in Nat \ {0} /\ TwiceOffset(box, len, s) \in Int
      /\ pointer \in Int
  BY <1>1, Products DEF Rendered, TwiceOffset
<1>3. v \in Numbers /\ v.n = pointer /\ v.d = 2 * Rendered(len, s) /\ v.d > 0
  BY <1>2 DEF Normalized, Numbers
<1>4. v.d = u * len
  BY <1>1, <1>3 DEF Rendered
<1>5. /\ k \in 0 .. len - 1
      /\ 2 * (k * v.d) <= 2 * (v.n * len) + v.d
      /\ 2 * (v.n * len) < 2 * (k * v.d) + v.d \/ k = len - 1
  BY <1>3, PixelNearPoint
<1>6. 0 <= pointer /\ pointer <= v.d
  BY <1>3 DEF InUnit
<1> HIDE DEF v, pointer, k, u
<1>7. /\ k * v.d = (k * u) * len /\ k * u \in Int
      /\ (k - 1) * u = k * u - u /\ (k + 1) * u = k * u + u
  BY <1>1, <1>4, <1>5
<1>8. (k - 1) * u <= pointer
  <2>1. 2 * ((k * u) * len) <= 2 * (pointer * len) + u * len
    BY <1>3, <1>4, <1>5, <1>7
  <2>2. (2 * (k * u)) * len <= (2 * pointer + u) * len
    BY <1>1, <1>2, <1>7, <2>1
  <2>3. 2 * (k * u) <= 2 * pointer + u
    BY <1>1, <1>2, <1>7, <2>2, Cancellation
  <2>4. QED
    BY <1>1, <1>2, <1>7, <2>3
<1>9. pointer <= (k + 1) * u
  <2>1. CASE k = len - 1
    <3>1. (k + 1) * u = v.d
      BY <1>1, <1>4, <2>1
    <3>2. QED
      BY <1>6, <3>1
  <2>2. CASE 2 * (v.n * len) < 2 * (k * v.d) + v.d
    <3>1. (2 * pointer) * len <= (2 * (k * u) + u) * len
      BY <1>1, <1>2, <1>3, <1>4, <1>7, <2>2
    <3>2. 2 * pointer <= 2 * (k * u) + u
      BY <1>1, <1>2, <1>7, <3>1, Cancellation
    <3>3. QED
      BY <1>1, <1>2, <1>7, <3>2
  <2>3. QED
    BY <1>5, <2>1, <2>2
<1>10. QED
  BY <1>8, <1>9 DEF v, pointer, k, u

-----------------------------------------------------------------------------
(* Rotations. *)

\* Two quarter turns are a half turn, and a quarter turn forward and one back lead to
\* the point one started from; no turn leaves the display (normalizedToDevice).
THEOREM QuarterTurns ==
    ASSUME NEW pt \in [x : Numbers, y : Numbers]
    PROVE  /\ Rotated(Rotated(pt, 90), 90) = Rotated(pt, 180)
           /\ Rotated(Rotated(pt, 90), 270) = pt
           /\ Rotated(Rotated(pt, 180), 180) = pt
           /\ ValidPoint(pt) => \A r \in Rotations : ValidPoint(Rotated(pt, r))
<1>1. \A v \in Numbers : Complement(v) = [n |-> v.d - v.n, d |-> v.d]
  BY DEF Complement, Numbers
<1>2. \A v \in Numbers : Complement(v) \in Numbers /\ Complement(Complement(v)) = v
  BY <1>1 DEF Numbers
<1>3. \A v \in Numbers : InUnit(v) => InUnit(Complement(v))
  BY <1>1 DEF Numbers, InUnit
<1>4. pt.x \in Numbers /\ pt.y \in Numbers /\ pt = [x |-> pt.x, y |-> pt.y]
  OBVIOUS
<1>5. QED
  BY <1>2, <1>3, <1>4 DEF Rotated, Rotations, ValidPoint

-----------------------------------------------------------------------------
(* The payload. *)

\* Whatever the tester does with the pointer, the server does not refuse the command
\* (InputPayloadSchema), and the adapter executes a swipe with the duration it was
\* made with (AdbDeviceAdapter.swipe limits it again).
THEOREM GesturesAreAdmitted ==
    ASSUME NEW box, NEW dev, NEW from \in Points, NEW to \in Points, NEW duration \in Nat,
           NEW m, m = OnPointerUp(from, to, duration, box, dev), m # None
    PROVE  /\ ValidPayload(m)
           /\ m.kind = "swipe" => SwipeDuration(m.durationMs) = m.durationMs
<1> DEFINE a == PointerToNormalized(from, box, dev)
           b == PointerToNormalized(to, box, dev)
           ms == Smaller(Larger(duration, 40), 2000)
<1>1. a # None => ValidPoint(a)
  BY DEF PointerToNormalized, ValidPoint
<1>2. b # None => ValidPoint(b)
  BY DEF PointerToNormalized, ValidPoint
<1>3. ms \in 40 .. 2000
  BY DEF Smaller, Larger
<1>4. \/ a # None /\ m = Tap(a)
      \/ a # None /\ b # None /\ m = Swipe(a, b, ms)
  BY DEF OnPointerUp
<1> HIDE DEF a, b, ms
<1>5. CASE a # None /\ m = Tap(a)
  BY <1>1, <1>5 DEF Tap, ValidPayload
<1>6. CASE a # None /\ b # None /\ m = Swipe(a, b, ms)
  <2>1. m.kind = "swipe" /\ m.from = a /\ m.to = b /\ m.durationMs = ms
    BY <1>6 DEF Swipe
  <2>2. SwipeDuration(ms) = ms
    BY <1>3 DEF SwipeDuration, Smaller, Larger
  <2>3. QED
    BY <1>1, <1>2, <1>3, <1>6, <2>1, <2>2 DEF ValidPayload
<1>7. QED
  BY <1>4, <1>5, <1>6
=============================================================================
