--------------------------- MODULE FirmwareImage ---------------------------
(***************************************************************************)
(* What the two URTC bootloaders know of a firmware image and of the flash *)
(* that holds it.                                                          *)
(*                                                                         *)
(* Flash is abstracted to cells: a cell is the unit a data frame fills, a  *)
(* page (the unit of erasing) is PAGE consecutive cells, and a slot is     *)
(* AppPages pages.  The content of a cell is the identity of the image     *)
(* whose cell of that position it holds, Erased (0xFF), TornCell (an       *)
(* erase or a write cut half way) or Noise (any other bytes).              *)
(*                                                                         *)
(* Hashes are perfect: the CRC-32 and the SHA-256 of a region are its      *)
(* content, so two regions have one digest only if they are equal.         *)
(***************************************************************************)
EXTENDS Integers, Sequences

CONSTANTS
    Image,             \* Firmware images a host may send
    Signed,            \* Those whose record a key of the trust table verifies
    Size,              \* Size[i]: length of image i, in cells
    Version,           \* Version[i]: version in the signed header of image i
    RollbackCounter,   \* RollbackCounter[i]: counter in the record of image i
    HardwareOf,        \* HardwareOf[i]: hardware id in the header of image i
    HardwareIds,       \* Hardware ids a frame may declare
    THIS_HARDWARE_ID,  \* The id of this board
    BootVersion,       \* FIRMWARE_VERSION_* the bootloader was compiled with
    MinCounter,        \* URTC_TRUST_MIN_COUNTER, compiled in
    PAGE,              \* FLASH_PAGE_SIZE, in cells
    AppPages,          \* Pages of one slot
    RecordChunks,      \* SIG_CHUNK_COUNT, the frames of one signature record
    PATCH_UNKNOWN,     \* URTC_PATCH_UNKNOWN: the flasher sent no patch number
    Erased, TornCell, Noise, NoChunk

Versions == [major : Nat, minor : Nat, patch : Nat \cup {PATCH_UNKNOWN}]

ASSUME ImageAssumption ==
    /\ Signed \subseteq Image
    /\ Image \cap {Erased, TornCell, Noise, NoChunk} = {}
    /\ PAGE \in Nat \ {0}
    /\ AppPages \in Nat \ {0}
    /\ Size \in [Image -> 1..(PAGE * AppPages)]
    /\ Version \in [Image -> Versions]
    /\ \A i \in Image : Version[i].patch # PATCH_UNKNOWN
    /\ BootVersion \in Versions
    /\ RollbackCounter \in [Image -> Nat]
    /\ HardwareOf \in [Image -> HardwareIds]
    /\ THIS_HARDWARE_ID \in HardwareIds
    /\ MinCounter \in Nat
    /\ RecordChunks \in Nat \ {0}

\* APP_MAX_SIZE: the slot is a whole number of pages
APP_MAX_SIZE == PAGE * AppPages

Content == Image \cup {Erased, TornCell, Noise}
Cells   == 1..APP_MAX_SIZE
Slot    == [Cells -> Content]
Digests == UNION {[1..n -> Content] : n \in Cells}

-----------------------------------------------------------------------------
(* Regions of a slot *)

\* Mutant: the last, partial page is not counted
PagesNeeded_RoundedDown(n) == n \div PAGE

\* The pages a region of n cells needs: (n + PAGE - 1) / PAGE
PagesNeeded(n) == (n + PAGE - 1) \div PAGE

\* The cells of page p, pages numbered from 0
PageCells(p) == {k \in Cells : (k - 1) \div PAGE = p}

\* The digest of the first n cells
Digest(region, n) == [k \in 1..n |-> region[k]]

\* The digest of the whole of image i
ImageDigest(i) == [k \in 1..Size[i] |-> i]

FillPage(region, p, value) ==
    [k \in Cells |-> IF k \in PageCells(p) THEN value ELSE region[k]]

\* Page p of the region, as far as cell n, written from source
WritePage(region, p, source, n) ==
    [k \in Cells |-> IF k \in PageCells(p) /\ k <= n THEN source[k] ELSE region[k]]

\* A half-word that is not erased cannot be programmed: the flash reports an
\* error, so a write of the cells of page p up to n needs all of them erased
Programmable(region, p, n) ==
    \A k \in PageCells(p) : k <= n => region[k] = Erased

-----------------------------------------------------------------------------
(* Versions on the wire *)

\* urtc_version_is_older: the patch decides only when both sides know it
Older(new, cur) ==
    \/ new.major < cur.major
    \/ /\ new.major = cur.major
       /\ \/ new.minor < cur.minor
          \/ /\ new.minor = cur.minor
             /\ new.patch # PATCH_UNKNOWN
             /\ cur.patch # PATCH_UNKNOWN
             /\ new.patch < cur.patch

\* The version the signature covers when the flasher declares v: an unknown
\* patch is signed as patch 0
HeaderVersion(v) ==
    IF v.patch = PATCH_UNKNOWN THEN [v EXCEPT !.patch = 0] ELSE v
=============================================================================
