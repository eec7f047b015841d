-------------------------- MODULE BootFlash_proof --------------------------
(***************************************************************************)
(* Lemmas about the flash of the two bootloaders: the pages of a slot and  *)
(* the metadata log, for every size of either.                             *)
(***************************************************************************)
EXTENDS MetaLog, TLAPS

-----------------------------------------------------------------------------
(* Pages and cells *)

\* Division by the length of a page.
LEMMA DivFacts ==
    ASSUME NEW n \in Nat, NEW p \in Nat \ {0}
    PROVE  /\ n \div p \in Nat
           /\ (n \div p) * p <= n
           /\ n < (n \div p + 1) * p
  OBVIOUS

\* The page of a position is the one it lies in.
LEMMA DivUnique ==
    ASSUME NEW n \in Nat, NEW p \in Nat \ {0}, NEW q \in Nat,
           q * p <= n, n < (q + 1) * p
    PROVE  n \div p = q
  OBVIOUS

\* Page numbers are ordered as the positions they start at.
LEMMA MulLess ==
    ASSUME NEW x \in Nat, NEW y \in Nat, NEW p \in Nat \ {0}, x * p < y * p
    PROVE  x < y
  OBVIOUS

LEMMA MulLeq ==
    ASSUME NEW x \in Nat, NEW y \in Nat, NEW p \in Nat, x <= y
    PROVE  /\ x * p \in Nat
           /\ x * p <= y * p
           /\ (x + 1) * p = x * p + p
  OBVIOUS

\* A slot has at least one cell.
LEMMA SlotSize == APP_MAX_SIZE \in Nat \ {0} /\ 1 \in Cells
<1>1. APP_MAX_SIZE \in Nat \ {0}
  BY ImageAssumption DEF APP_MAX_SIZE
<1> QED
  BY <1>1 DEF Cells

\* Every cell lies in a page.
LEMMA PageOfCell == \A k \in Cells : k - 1 \in Nat /\ (k - 1) \div PAGE \in Nat
<1> SUFFICES ASSUME NEW k \in Cells
             PROVE  k - 1 \in Nat /\ (k - 1) \div PAGE \in Nat
  OBVIOUS
<1>1. k - 1 \in Nat
  BY DEF Cells
<1> QED
  BY <1>1, ImageAssumption, DivFacts

\* A buffer that one more cell fills ends at a page boundary; one that it
\* does not fill stays short of it.
LEMMA BufferArithmetic ==
    ASSUME NEW n \in Nat, NEW p \in Nat, NEW len \in Nat \ {0},
           p * len <= n, n < (p + 1) * len
    PROVE  /\ p * len < n + 1
           /\ n - p * len + 1 = len => n + 1 = (p + 1) * len
           /\ n - p * len + 1 # len => n + 1 < (p + 1) * len
<1>1. (p + 1) * len = p * len + len /\ p * len \in Nat
  BY MulLeq
<1> QED
  BY <1>1

\* The pages counted for n cells lie in the slot and cover the n cells: the
\* computation of HandleStartUpdate and of Flash_CopyRegion.
LEMMA PagesCover ==
    ASSUME NEW n \in Cells
    PROVE  /\ PagesNeeded(n) \in 1..AppPages
           /\ \A k \in Cells : k <= n => (k - 1) \div PAGE < PagesNeeded(n)
<1> DEFINE q == PagesNeeded(n)
<1>1. PAGE \in Nat \ {0} /\ AppPages \in Nat \ {0} /\ n \in Nat \ {0} /\ n <= PAGE * AppPages
  BY SlotSize, ImageAssumption DEF Cells, APP_MAX_SIZE
<1>2. q \in Nat /\ q * PAGE <= n + PAGE - 1 /\ n + PAGE - 1 < (q + 1) * PAGE
  <2>1. n + PAGE - 1 \in Nat
    BY <1>1
  <2> QED
    BY <1>1, <2>1, DivFacts DEF PagesNeeded
<1>3. (q + 1) * PAGE = q * PAGE + PAGE
  BY <1>1, <1>2, MulLeq
<1>4. n <= q * PAGE
  BY <1>1, <1>2, <1>3
<1>5. q # 0
  BY <1>1, <1>2, <1>4
<1>6. q <= AppPages
  <2>1. q * PAGE < (AppPages + 1) * PAGE
    <3>1. (AppPages + 1) * PAGE = PAGE * AppPages + PAGE
      BY <1>1
    <3> QED
      BY <1>1, <1>2, <3>1
  <2> QED
    BY <1>1, <1>2, <2>1, MulLess
<1>7. ASSUME NEW k \in Cells, k <= n
      PROVE  (k - 1) \div PAGE < q
  <2>1. k - 1 \in Nat
    BY DEF Cells
  <2>2. ((k - 1) \div PAGE) * PAGE <= k - 1 /\ (k - 1) \div PAGE \in Nat
    BY <1>1, <2>1, DivFacts
  <2>3. ((k - 1) \div PAGE) * PAGE < q * PAGE
    BY <1>1, <1>2, <1>4, <1>7, <2>1, <2>2
  <2> QED
    BY <1>1, <1>2, <2>2, <2>3, MulLess
<1> QED
  BY <1>1, <1>2, <1>5, <1>6, <1>7

\* Filling a page leaves a slot a slot, and only the page changes.
LEMMA FillPageFacts ==
    ASSUME NEW region \in Slot, NEW p \in Int, NEW value \in Content
    PROVE  /\ FillPage(region, p, value) \in Slot
           /\ \A k \in Cells : FillPage(region, p, value)[k] =
                 IF (k - 1) \div PAGE = p THEN value ELSE region[k]
  BY DEF FillPage, PageCells, Slot

LEMMA WritePageFacts ==
    ASSUME NEW region \in Slot, NEW p \in Int, NEW n \in Nat, NEW source,
           \A k \in Cells : k <= n => source[k] \in Content
    PROVE  /\ WritePage(region, p, source, n) \in Slot
           /\ \A k \in Cells : (k - 1) \div PAGE # p =>
                 WritePage(region, p, source, n)[k] = region[k]
  BY DEF WritePage, PageCells, Slot

\* The digest of a region is a digest.
LEMMA DigestType ==
    ASSUME NEW region \in Slot, NEW n \in Cells
    PROVE  Digest(region, n) \in Digests
<1>1. \A k \in 1..n : k \in Cells
  BY SlotSize DEF Cells
<1>2. Digest(region, n) \in [1..n -> Content]
  BY <1>1 DEF Digest, Slot
<1> QED
  BY <1>2 DEF Digests

-----------------------------------------------------------------------------
(* The metadata log *)

\* The newest record is unique, so that Newest is it.
LEMMA NewestIs ==
    ASSUME NEW lg \in Log, NEW s \in LogSlots, IsNewest(lg, s)
    PROVE  /\ HasRecord(lg) /\ Newest(lg) = lg[s] /\ Newest(lg) \in Record
           /\ ReadMeta(lg) = lg[s].meta /\ ReadMeta(lg) \in Meta
           /\ \A t \in RecordSlots(lg) : lg[t].gen <= Newest(lg).gen
<1>1. \A t \in RecordSlots(lg) : lg[t] \in Record /\ lg[t].gen \in Nat /\ t \in Int
  BY LogAssumption DEF RecordSlots, IsRecord, Log, Record, LogSlots
<1>2. ASSUME NEW t \in LogSlots, IsNewest(lg, t)
      PROVE  t = s
  <2>1. s \in RecordSlots(lg) /\ t \in RecordSlots(lg)
    BY <1>2 DEF IsNewest
  <2>2. /\ lg[t].gen < lg[s].gen \/ (lg[t].gen = lg[s].gen /\ s <= t)
        /\ lg[s].gen < lg[t].gen \/ (lg[t].gen = lg[s].gen /\ t <= s)
    BY <1>2, <2>1 DEF IsNewest
  <2> QED
    BY <1>1, <2>1, <2>2
<1>3. s = CHOOSE t \in LogSlots : IsNewest(lg, t)
  BY <1>2
<1>4. Newest(lg) = lg[s]
  BY <1>3 DEF Newest
<1>5. s \in RecordSlots(lg)
  BY DEF IsNewest
<1>6. \A t \in RecordSlots(lg) : lg[t].gen <= lg[s].gen
  BY <1>1, <1>5 DEF IsNewest
<1> QED
  BY <1>1, <1>4, <1>5, <1>6 DEF HasRecord, ReadMeta, Record

\* Metadata_Read returns one of the records of the log, the newest.
LEMMA ReadMetaFacts ==
    ASSUME NEW lg \in Log, LogShape(lg), HasRecord(lg)
    PROVE  /\ \E s \in RecordSlots(lg) : ReadMeta(lg) = lg[s].meta
           /\ ReadMeta(lg) \in Meta
           /\ Newest(lg).gen \in Nat
           /\ \A t \in RecordSlots(lg) : lg[t].gen <= Newest(lg).gen
<1>1. PICK s \in LogSlots : IsNewest(lg, s)
  BY DEF LogShape
<1>2. s \in RecordSlots(lg)
  BY <1>1 DEF IsNewest
<1> QED
  BY <1>1, <1>2, NewestIs DEF Record

\* The generation of the next record is above all those of the log.
LEMMA NextGenerationFacts ==
    ASSUME NEW lg \in Log, LogShape(lg)
    PROVE  /\ NextGeneration(lg) \in Nat
           /\ \A s \in RecordSlots(lg) : lg[s].gen < NextGeneration(lg)
<1>1. CASE HasRecord(lg)
  <2>1. \A t \in RecordSlots(lg) : lg[t].gen \in Nat
    BY DEF RecordSlots, IsRecord, Log, Record
  <2> QED
    BY <1>1, <2>1, ReadMetaFacts DEF NextGeneration
<1>2. CASE ~HasRecord(lg)
  BY <1>2 DEF NextGeneration, HasRecord
<1> QED
  BY <1>1, <1>2

\* The first blank slot of a log that is not full ends its written part.
LEMMA FirstBlankFacts ==
    ASSUME NEW lg \in Log, LogShape(lg), ~IsFull(lg)
    PROVE  /\ FirstBlank(lg) \in LogSlots
           /\ FirstBlank(lg) - 1 \in 0..META_RECORD_SLOTS
           /\ \A s \in LogSlots : lg[s] = Blank <=> s > FirstBlank(lg) - 1
<1>1. META_RECORD_SLOTS \in Nat \ {0}
  BY LogAssumption
<1>2. PICK n \in 0..META_RECORD_SLOTS : \A s \in LogSlots : lg[s] = Blank <=> s > n
  BY DEF LogShape
<1>3. n + 1 \in LogSlots
  BY <1>1, <1>2 DEF IsFull, LogSlots
<1>4. \A s \in LogSlots : (lg[s] = Blank /\ \A t \in LogSlots : lg[t] = Blank => s <= t)
                          <=> s = n + 1
  BY <1>1, <1>2, <1>3 DEF LogSlots
<1>5. FirstBlank(lg) = n + 1
  BY <1>3, <1>4 DEF FirstBlank
<1> QED
  BY <1>1, <1>2, <1>3, <1>5

\* A record written to the first blank slot, of a generation above the
\* others, is the newest.
LEMMA AppendFacts ==
    ASSUME NEW lg \in Log, LogShape(lg), ~IsFull(lg), NEW r \in Record,
           \A s \in RecordSlots(lg) : lg[s].gen < r.gen,
           NEW lg2, lg2 = Appended(lg, r)
    PROVE  /\ lg2 \in Log /\ LogShape(lg2)
           /\ HasRecord(lg2) /\ ReadMeta(lg2) = r.meta
           /\ \A s \in RecordSlots(lg2) :
                 lg2[s] = r \/ (s \in RecordSlots(lg) /\ lg2[s] = lg[s])
<1> DEFINE f == FirstBlank(lg)
<1>1. f \in LogSlots /\ f - 1 \in 0..META_RECORD_SLOTS
      /\ \A s \in LogSlots : lg[s] = Blank <=> s > f - 1
  BY FirstBlankFacts
<1>2. lg2 \in Log /\ lg2[f] = r /\ \A s \in LogSlots : s # f => lg2[s] = lg[s]
  BY <1>1 DEF Log, Appended
<1>3. r # Blank /\ r # TornRecord
  BY RecordAssumption
<1>4. \A s \in LogSlots : lg2[s] = Blank <=> s > f
  BY <1>1, <1>2, <1>3 DEF LogSlots
<1>5. f \in 0..META_RECORD_SLOTS
  BY <1>1 DEF LogSlots
<1>6. \A s \in RecordSlots(lg2) : s = f \/ (s \in RecordSlots(lg) /\ lg2[s] = lg[s])
  BY <1>2 DEF RecordSlots
<1>7. f \in RecordSlots(lg2)
  BY <1>1, <1>2, <1>3 DEF RecordSlots, IsRecord
<1>8. IsNewest(lg2, f)
  <2>1. f <= f
    BY <1>5
  <2> QED
    BY <1>2, <1>6, <1>7, <2>1 DEF IsNewest
<1>9. HasRecord(lg2) /\ ReadMeta(lg2) = r.meta
  BY <1>1, <1>2, <1>8, NewestIs
<1>10. LogShape(lg2)
  BY <1>1, <1>4, <1>5, <1>8 DEF LogShape
<1> QED
  BY <1>2, <1>6, <1>9, <1>10

\* A torn record takes a slot and changes nothing of what is read.
LEMMA TearFacts ==
    ASSUME NEW lg \in Log, LogShape(lg), ~IsFull(lg),
           NEW lg2, lg2 = Appended(lg, TornRecord)
    PROVE  /\ lg2 \in Log /\ LogShape(lg2)
           /\ RecordSlots(lg2) = RecordSlots(lg)
           /\ \A s \in RecordSlots(lg) : lg2[s] = lg[s]
           /\ HasRecord(lg2) <=> HasRecord(lg)
           /\ HasRecord(lg) => ReadMeta(lg2) = ReadMeta(lg)
<1> DEFINE f == FirstBlank(lg)
<1>1. f \in LogSlots /\ f - 1 \in 0..META_RECORD_SLOTS
      /\ \A s \in LogSlots : lg[s] = Blank <=> s > f - 1
  BY FirstBlankFacts
<1>2. lg2 \in Log /\ lg2[f] = TornRecord /\ \A s \in LogSlots : s # f => lg2[s] = lg[s]
  BY <1>1 DEF Log, Appended
<1>3. TornRecord # Blank
  BY LogAssumption
<1>4. \A s \in LogSlots : lg2[s] = Blank <=> s > f
  BY <1>1, <1>2, <1>3 DEF LogSlots
<1>5. f \in 0..META_RECORD_SLOTS
  BY <1>1 DEF LogSlots
<1>6. lg[f] = Blank
  BY <1>1 DEF LogSlots
<1>7. RecordSlots(lg2) = RecordSlots(lg) /\ \A s \in RecordSlots(lg) : lg2[s] = lg[s]
  BY <1>2, <1>6 DEF RecordSlots, IsRecord
<1>8. \A s \in LogSlots : IsNewest(lg2, s) <=> IsNewest(lg, s)
  BY <1>7 DEF IsNewest
<1>9. HasRecord(lg2) <=> HasRecord(lg)
  BY <1>7 DEF HasRecord
<1>10. HasRecord(lg) => ReadMeta(lg2) = ReadMeta(lg)
  <2>1. SUFFICES ASSUME HasRecord(lg) PROVE ReadMeta(lg2) = ReadMeta(lg)
    OBVIOUS
  <2>2. PICK s \in LogSlots : IsNewest(lg, s)
    BY <2>1 DEF LogShape
  <2>3. s \in RecordSlots(lg)
    BY <2>2 DEF IsNewest
  <2>4. ReadMeta(lg) = lg[s].meta
    BY <2>2, NewestIs
  <2>5. lg2 \in Log /\ IsNewest(lg2, s)
    BY <1>2, <1>8, <2>2
  <2>6. ReadMeta(lg2) = lg2[s].meta
    BY <2>5, NewestIs
  <2> QED
    BY <1>7, <2>3, <2>4, <2>6
<1>11. LogShape(lg2)
  BY <1>4, <1>5, <1>8, <1>9 DEF LogShape
<1> QED
  BY <1>2, <1>7, <1>9, <1>10, <1>11

\* An erased page, or one whose erase was cut, has no record.
LEMMA EmptyPageFacts ==
    /\ BlankPage \in Log /\ LogShape(BlankPage) /\ RecordSlots(BlankPage) = {}
    /\ TornPage \in Log /\ LogShape(TornPage) /\ RecordSlots(TornPage) = {}
    /\ ~HasRecord(BlankPage) /\ ~HasRecord(TornPage) /\ ~IsFull(BlankPage)
<1>1. 0 \in 0..META_RECORD_SLOTS /\ META_RECORD_SLOTS \in 0..META_RECORD_SLOTS
      /\ 1 \in LogSlots /\ \A s \in LogSlots : s > 0 /\ ~(s > META_RECORD_SLOTS)
  BY LogAssumption DEF LogSlots
<1>2. RecordSlots(BlankPage) = {} /\ RecordSlots(TornPage) = {}
  BY DEF RecordSlots, IsRecord, BlankPage, TornPage
<1>3. ~HasRecord(BlankPage) /\ ~HasRecord(TornPage)
  BY <1>2 DEF HasRecord
<1>4. BlankPage \in Log /\ TornPage \in Log
  BY DEF BlankPage, TornPage, Log
<1>5. \A s \in LogSlots : BlankPage[s] = Blank <=> s > 0
  BY <1>1 DEF BlankPage
<1>6. \A s \in LogSlots : TornPage[s] = Blank <=> s > META_RECORD_SLOTS
  BY <1>1, LogAssumption DEF TornPage
<1>7. ~IsFull(BlankPage)
  BY <1>1 DEF IsFull, BlankPage
<1> QED
  BY <1>1, <1>2, <1>3, <1>4, <1>5, <1>6, <1>7 DEF LogShape
=============================================================================
