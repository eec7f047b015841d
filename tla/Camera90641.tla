---------------------------- MODULE Camera90641 ----------------------------
(* The words of the MLX90641: eleven bits of data and five of a Hamming     *)
(* code that corrects one bit and sees two; and the calibration in them.    *)
EXTENDS CameraWords, FiniteSets

CONSTANTS FirstCoded   \* words before this one have no code

-----------------------------------------------------------------------------
(* HammingDecode: a word is the set of its bits that are 1. *)
ParityBits == <<{0, 1, 3, 4, 6, 8, 10, 11}, {0, 2, 3, 5, 6, 9, 10, 12},
                {1, 2, 3, 7, 8, 9, 10, 13}, {4, 5, 6, 7, 8, 9, 10, 14}, 0..15>>
Parity(word, n) == Cardinality(word \cap ParityBits[n]) % 2
Check(word) ==
    Parity(word, 1) + 2 * Parity(word, 2) + 4 * Parity(word, 3)
      + 8 * Parity(word, 4) + 16 * Parity(word, 5)

(* The bit that a check of 16 to 31 names. *)
Named == <<15, 11, 12, 0, 13, 1, 2, 3, 14, 4, 5, 6, 7, 8, 9, 10>>
Flipped(word, b) == IF b \in word THEN word \ {b} ELSE word \cup {b}
Corrected(word) ==
    IF Check(word) \in 16..31 THEN Flipped(word, Named[Check(word) - 15]) ELSE word
Data(word) == Corrected(word) \cap 0..10

(* -9 stands only until a word that cannot be corrected. *)
HammingDecode(words) ==
    LET coded == {n \in DOMAIN words : n >= FirstCoded}
    IN  [words |-> [n \in DOMAIN words |-> IF n \in coded THEN Data(words[n]) ELSE words[n]],
         error |-> IF \E n \in coded : Check(words[n]) \in 1..15 THEN "uncorrectable"
                   ELSE IF \E n \in coded : Check(words[n]) # 0 THEN "corrected" ELSE "ok"]
DumpEE(read, words) ==
    IF read # "ok" THEN [words |-> words, error |-> read] ELSE HammingDecode(words)

(* The start-up extracts the calibration from a dump without any error, of  *)
(* a camera that is one; the parameters are zero otherwise.                 *)
IsCamera(ee) == Bits(ee[10], 6, 1) = 1
Extracts(error, ee) == error = "ok" /\ IsCamera(ee)

-----------------------------------------------------------------------------
(* The calibration, from words of eleven bits. *)
S11(v) == Signed(v, 11)
Pair(ee, n) == Int16(32 * ee[n] + ee[n + 1])

Vdd(ee) == [k |-> 32 * S11(ee[39]), at25 |-> 32 * S11(ee[38])]
(* kv over 2^12, kt over 2^3, alpha over 2^7 *)
Ptat(ee) == [kv |-> S11(ee[43]), kt |-> S11(ee[42]), at25 |-> Pair(ee, 40), alpha |-> ee[44]]
Gain(ee)       == Pair(ee, 36)
Tgc(ee)        == SignedBits(ee[51], 0, 9)   \* over 2^6
Emissivity(ee) == S11(ee[35])                \* over 2^9
Resolution(ee) == Bits(ee[51], 9, 2)
KsTa(ee)       == S11(ee[34])                \* over 2^15
KsTo(ee) ==
    [ct |-> <<0 - 40, 0 - 20, 0, 80, 120, ee[58], ee[60], ee[62]>>,
     ks |-> [n \in 1..8 |-> S11(ee[<<53, 54, 55, 56, 57, 59, 61, 63>>[n]])],
     scale |-> ee[52]]

Offset(ee, page, p) ==
    Int16(S11(ee[(IF page = 0 THEN 64 ELSE 640) + p]) * 2 ^ Bits(ee[16], 5, 6) + Pair(ee, 17))

Fractions(own, average, scales) ==
    Kept([p \in DOMAIN own |-> S11(average) + own[p] * 2 ^ Bits(scales, 0, 5)],
         Bits(scales, 5, 6), 640)
Kta(ee, pixels) == Fractions([p \in pixels |-> SignedBits(ee[448 + p], 5, 6)], ee[21], ee[22])
Kv(ee, pixels)  == Fractions([p \in pixels |-> SignedBits(ee[448 + p], 0, 5)], ee[23], ee[24])

(* The sensitivity of a pixel over that of its row, and the row's own over  *)
(* 2047 * 2^scale.                                                          *)
RowAlpha(ee, row) ==
    [norm |-> ee[28 + row], scale |-> 20 + Bits(ee[25 + row \div 2], IF row % 2 = 0 THEN 5 ELSE 0,
                                                IF row % 2 = 0 THEN 6 ELSE 5)]
AlphaProduct(ee, p) == ee[256 + p] * RowAlpha(ee, p \div 32).norm

ReferencePixel(ee) ==
    [alpha |-> S11(ee[45]), alphaScale |-> ee[46], offset |-> Pair(ee, 47),
     kta |-> SignedBits(ee[49], 0, 6), ktaScale |-> Bits(ee[49], 6, 5),
     kv |-> SignedBits(ee[50], 0, 6), kvScale |-> Bits(ee[50], 6, 5)]

(* A pixel is broken when its four words are zero; two are too many, and    *)
(* the search ends there.                                                   *)
Broken(pixels) == {p \in DOMAIN pixels : pixels[p] = <<0, 0, 0, 0>>}
BrokenPixel(pixels) ==
    LET b == Broken(pixels)
        first == Min(b)
    IN  CASE b = {} -> [pixel |-> 65535, error |-> "ok"]
          [] Cardinality(b) = 1 -> [pixel |-> first, error |-> "ok"]
          [] OTHER -> [pixel |-> Min(b \ {first}), error |-> "broken"]
=============================================================================
