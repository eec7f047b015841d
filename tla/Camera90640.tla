---------------------------- MODULE Camera90640 ----------------------------
(* The calibration of the MLX90640, from the words of its EEPROM, numbered  *)
(* from 0.  A coefficient is the integer that is stored, over a power of    *)
(* two.                                                                     *)
EXTENDS CameraWords, FiniteSets

CONSTANTS Columns,   \* pixels of a line
          MaxBad     \* pixels that may be bad

Vdd(ee) == [k |-> 32 * SignedBits(ee[51], 8, 8), at25 |-> (Bits(ee[51], 0, 8) - 256) * 32 - 8192]
(* kv over 2^12, kt over 2^3, alpha over 2^2 *)
Ptat(ee) == [kv |-> SignedBits(ee[50], 10, 6), kt |-> SignedBits(ee[50], 0, 10),
             at25 |-> Int16(ee[49]), alpha |-> Nibble(ee[16], 4) + 32]
Gain(ee)       == Int16(ee[48])
Tgc(ee)        == SignedBits(ee[60], 0, 8)     \* over 2^5
KsTa(ee)       == SignedBits(ee[60], 8, 8)     \* over 2^13
Resolution(ee) == Bits(ee[56], 12, 2)

(* The ranges of temperature and their slopes, over 2^scale. *)
KsTo(ee) ==
    LET step == 10 * Bits(ee[63], 12, 2)
        ct2  == step * Nibble(ee[63], 2)
    IN  [ct |-> <<0 - 40, 0, ct2, ct2 + step * Nibble(ee[63], 3)>>,
         ks |-> <<SignedBits(ee[61], 0, 8), SignedBits(ee[61], 8, 8),
                  SignedBits(ee[62], 0, 8), SignedBits(ee[62], 8, 8)>>,
         scale |-> Nibble(ee[63], 1) + 8]

(* Four signed nibbles to a word: the row and the column of a pixel. *)
Packed(ee, from, n) == SignedBits(ee[from + n \div 4], 4 * (n % 4), 4)
Row(p)    == p \div Columns
Column(p) == p % Columns
Summed(ee, scales, rows, columns, p, own) ==
    Packed(ee, rows, Row(p)) * 2 ^ Nibble(ee[scales], 3)
      + Packed(ee, columns, Column(p)) * 2 ^ Nibble(ee[scales], 2)
      + own * 2 ^ Nibble(ee[scales], 1)

Offset(ee, p) == Int16(Int16(ee[17]) + Summed(ee, 16, 18, 24, p, SignedBits(ee[64 + p], 10, 6)))
(* The sensitivity before it is compensated, over 2^(30 + a nibble). *)
AlphaSum(ee, p) == ee[33] + Summed(ee, 32, 34, 40, p, SignedBits(ee[64 + p], 4, 6))

(* The coefficients that a pixel shares with a quarter of the others. *)
Split(p) == 2 * (Row(p) % 2) + (p % 2)
KtaTable(ee, pixels) ==
    LET rc == <<SignedBits(ee[54], 8, 8), SignedBits(ee[55], 8, 8),
                SignedBits(ee[54], 0, 8), SignedBits(ee[55], 0, 8)>>
    IN  [p \in pixels |-> rc[Split(p) + 1] + SignedBits(ee[64 + p], 1, 3) * 2 ^ Nibble(ee[56], 1)]
KvTable(ee, pixels) ==
    LET rc == <<SignedBits(ee[52], 12, 4), SignedBits(ee[52], 4, 4),
                SignedBits(ee[52], 8, 4), SignedBits(ee[52], 0, 4)>>
    IN  [p \in pixels |-> rc[Split(p) + 1]]
Kta(ee, pixels) == Kept(KtaTable(ee, pixels), Nibble(ee[56], 2) + 8, 634)
Kv(ee, pixels)  == Kept(KvTable(ee, pixels), Nibble(ee[56], 3), 634)

(* The reference pixels of the two sub-pages: alpha over 2^(27 + a nibble), *)
(* the second one as 128ths of the first.                                   *)
ReferencePixels(ee) ==
    LET offset == SignedBits(ee[58], 0, 10)
    IN  [offsets |-> <<offset, offset + SignedBits(ee[58], 10, 6)>>,
         alpha |-> SignedBits(ee[57], 0, 10), second |-> 128 + SignedBits(ee[57], 10, 6),
         kta |-> SignedBits(ee[59], 0, 8), kv |-> SignedBits(ee[59], 8, 8)]

(* The mode the camera was calibrated in, and what corrects the other one,  *)
(* over 16, 2 and 8.                                                        *)
Calibrated(ee) ==
    [mode |-> IF Bits(ee[10], 11, 1) = 1 THEN "interleaved" ELSE "chess",
     il |-> <<SignedBits(ee[53], 0, 6), SignedBits(ee[53], 6, 5), SignedBits(ee[53], 11, 5)>>]

-----------------------------------------------------------------------------
(* The bad pixels, in the order of the picture: 0 is broken, an odd word an *)
(* outlier.                                                                 *)
IsBroken(word)  == word = 0
IsOutlier(word) == word # 0 /\ word % 2 = 1

(* The search ends with one too many of either kind. *)
Searched(words) ==
    {p \in DOMAIN words :
        /\ Cardinality({q \in DOMAIN words : q < p /\ IsBroken(words[q])}) <= MaxBad
        /\ Cardinality({q \in DOMAIN words : q < p /\ IsOutlier(words[q])}) <= MaxBad}
Broken(words)   == {p \in Searched(words) : IsBroken(words[p])}
Outliers(words) == {p \in Searched(words) : IsOutlier(words[p])}

CheckAdjacentPixels(p, q) ==
    Magnitude(Row(p) - Row(q)) < 2 /\ Magnitude(Column(p) - Column(q)) < 2

(* What ExtractParameters returns. *)
DeviatingPixels(words) ==
    LET b == Broken(words)
        o == Outliers(words)
    IN  CASE Cardinality(b) > MaxBad -> "broken"
          [] Cardinality(b) <= MaxBad /\ Cardinality(o) > MaxBad -> "outliers"
          [] Cardinality(b) <= MaxBad /\ Cardinality(o) <= MaxBad
                /\ Cardinality(b) + Cardinality(o) > MaxBad -> "bad"
          [] OTHER -> IF \E p, q \in b \cup o : p # q /\ CheckAdjacentPixels(p, q)
                      THEN "adjacent" ELSE "ok"
=============================================================================
