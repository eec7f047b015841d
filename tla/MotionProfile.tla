--------------------------- MODULE MotionProfile ---------------------------
(* The speed of a move step by step: constant, a trapezoid or an S-curve.   *)
(* Speeds are steps per second.  One is the unit of the fixed point of the  *)
(* S-curve (65536 in the code).                                             *)
EXTENDS Integers

CONSTANT One

MP_MAX_SPS == 20000
Profiles == {"constant", "trapezoid", "scurve"}

LOCAL Least(a, b) == IF a < b THEN a ELSE b
LOCAL Most(a, b)  == IF a < b THEN b ELSE a

(* isqrt64: the Newton iteration ends at the root rounded down. *)
Root(n) == CHOOSE r \in 0..n : r * r <= n /\ (r + 1) * (r + 1) > n

Smooth(x) == LET x2 == (x * x) \div One IN 3 * x2 - 2 * ((x2 * x) \div One)
Slope(x)  == (6 * x * (One - x)) \div One

(* The steepest acceleration is found at 63 samples of the ramp. *)
ScurveLength(v0, v1, a) ==
    LET Term(i) == (v0 * One + (v1 - v0) * Smooth((i * One) \div 64)) * Slope((i * One) \div 64)
        best == CHOOSE t \in {Term(i) : i \in 1..63} \cup {0} : \A i \in 1..63 : Term(i) <= t
    IN  ((v1 - v0) * (best \div One)) \div (a * One)

RampLength(v0, v1, a, profile) ==
    IF profile = "scurve" THEN ScurveLength(v0, v1, a)
    ELSE (v1 * v1 - v0 * v0) \div (2 * a) + 1

(* The peak of a move too short to reach the cruise speed. *)
PeakWithin(ramp, v0, cruise, a, profile) ==
    IF profile = "trapezoid" THEN Root(v0 * v0 + 2 * a * ramp)
    ELSE CHOOSE v \in v0..cruise :
            /\ v = v0 \/ ScurveLength(v0, v, a) <= ramp
            /\ \A w \in (v + 1)..cruise : ScurveLength(v0, w, a) > ramp

NoPlan == [steps |-> 0, start |-> 0, peak |-> 0, accel |-> 0, ramp |-> 0, profile |-> "constant"]

(* Mp_Plan; a refused move leaves the plan of Features_NoteMove empty. *)
Plan(steps, cruise, wanted, accel, profile) ==
    LET start == Least(Most(wanted, 1), cruise)
        ramp  == RampLength(start, cruise, accel, profile)
        half  == steps \div 2
        Made(v0, peak, r) == [steps |-> steps, start |-> v0, peak |-> peak, accel |-> accel,
                              ramp |-> r, profile |-> profile]
    IN  CASE steps = 0 \/ cruise \notin 1..MP_MAX_SPS \/ accel = 0 -> NoPlan
          [] profile = "constant" -> Made(cruise, cruise, 0)
          [] ramp * 2 <= steps -> Made(start, cruise, ramp)
          [] OTHER -> Made(start, Most(start, Least(cruise,
                             PeakWithin(half, start, cruise, accel, profile))), half)

(* The speed at a distance from the slow end of a ramp. *)
RampSpeed(p, s) ==
    CASE p.ramp = 0 \/ p.peak = p.start -> p.peak
      [] p.profile = "trapezoid" -> Least(p.peak, Root(p.start * p.start + 2 * p.accel * s))
      [] OTHER -> p.start + ((p.peak - p.start) * Smooth(Least(One, (s * One) \div p.ramp))) \div One

SpeedAt(p, index) ==
    LET fromEnd == p.steps - 1 - index
    IN  CASE index >= p.steps -> 0
          [] p.profile = "constant" -> p.peak
          [] index < p.ramp /\ index <= fromEnd -> RampSpeed(p, index)
          [] fromEnd < p.ramp /\ fromEnd < index -> RampSpeed(p, fromEnd)
          [] OTHER -> p.peak

IntervalUs(p, index) ==
    IF SpeedAt(p, index) = 0 THEN 0 ELSE 1000000 \div SpeedAt(p, index)
=============================================================================
