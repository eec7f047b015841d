---------------------------- MODULE CameraWords ----------------------------
(* How the calibration of a thermal camera is packed in its words, and how  *)
(* the drivers keep a table of fractions as small integers.                 *)
EXTENDS Integers, Sequences, FiniteSetsExt

(* w bits of v from bit lo on, and what they are in two's complement. *)
Bits(v, lo, w) == (v \div 2 ^ lo) % 2 ^ w
Signed(v, w)   == IF v >= 2 ^ (w - 1) THEN v - 2 ^ w ELSE v
SignedBits(v, lo, w) == Signed(Bits(v, lo, w), w)
Int16(n)       == Signed(n % 65536, 16)
Nibble(v, n)   == Bits(v, 4 * (n - 1), 4)

SCALE_ITER_MAX == 64

Magnitude(n) == IF n < 0 THEN 0 - n ELSE n
Largest(table) == Max({Magnitude(table[p]) : p \in DOMAIN table} \cup {0})

(* The table holds numerators over 2^s.  All are doubled until the largest  *)
(* reaches `least' tenths; a table of zeros is doubled to the cap.          *)
Reaches(n, s, k, least) ==
    IF k >= s THEN 10 * n * 2 ^ (k - s) >= least ELSE 10 * n >= least * 2 ^ (s - k)
Doublings(table, s, least) ==
    LET n == Largest(table)
    IN  IF n = 0 THEN SCALE_ITER_MAX ELSE Min({k \in 0..(s + 11) : Reaches(n, s, k, least)})

(* To the nearest integer, halves away from zero. *)
RoundedShift(n, s, k) ==
    LET up(m) == IF k >= s THEN m * 2 ^ (k - s)
                 ELSE (2 * m + 2 ^ (s - k)) \div 2 ^ (s - k + 1)
    IN  IF n < 0 THEN 0 - up(0 - n) ELSE up(n)

Kept(table, s, least) ==
    LET k == Doublings(table, s, least)
    IN  [scale |-> k, values |-> [p \in DOMAIN table |-> IF table[p] = 0 THEN 0
                                                         ELSE RoundedShift(table[p], s, k)]]
=============================================================================
