------------------------------ MODULE MetaLog ------------------------------
(***************************************************************************)
(* The metadata page of a bootloader: an append-only log of records, each  *)
(* with a generation and a CRC.  A slot is Blank (all 0xFF), TornRecord    *)
(* (neither blank nor a record whose CRC holds: a write or an erase that   *)
(* was cut) or a record [gen, meta].  The newest record is the state of    *)
(* the board.                                                              *)
(***************************************************************************)
EXTENDS FirmwareImage

CONSTANTS
    META_RECORD_SLOTS,  \* Records that fit in the page (28 in the master)
    Blank, TornRecord

ASSUME LogAssumption ==
    /\ META_RECORD_SLOTS \in Nat \ {0}
    /\ Blank # TornRecord

COPY_PENDING == "copy_pending"
APP_VALID    == "app_valid"

\* The state of a board, and a record of it
Meta   == [state : {COPY_PENDING, APP_VALID}, hw : HardwareIds, version : Versions,
           size : Cells, digest : Digests, counter : Nat]
Record == [gen : Nat, meta : Meta]

ASSUME RecordAssumption == Blank \notin Record /\ TornRecord \notin Record

\* No state is being written
NoMeta == [state |-> APP_VALID, hw |-> THIS_HARDWARE_ID, version |-> BootVersion,
           size |-> 1, digest |-> [k \in 1..1 |-> Erased], counter |-> 0]

LogSlots == 1..META_RECORD_SLOTS
Log      == [LogSlots -> Record \cup {Blank, TornRecord}]

BlankPage == [s \in LogSlots |-> Blank]
TornPage  == [s \in LogSlots |-> TornRecord]

IsRecord(slot) == slot \notin {Blank, TornRecord}

RecordSlots(lg) == {s \in LogSlots : IsRecord(lg[s])}

\* meta_find_newest: the highest generation, the first slot on a tie
IsNewest(lg, s) ==
    /\ s \in RecordSlots(lg)
    /\ \A t \in RecordSlots(lg) :
          \/ lg[t].gen < lg[s].gen
          \/ lg[t].gen = lg[s].gen /\ s <= t

HasRecord(lg) == RecordSlots(lg) # {}
Newest(lg)    == lg[CHOOSE s \in LogSlots : IsNewest(lg, s)]

\* Metadata_Read: the state the newest record holds (when HasRecord)
ReadMeta(lg) == Newest(lg).meta

\* Mutant: every record is of the same generation
NextGeneration_Constant(lg) == 1

\* The generation of the next record
NextGeneration(lg) == IF HasRecord(lg) THEN Newest(lg).gen + 1 ELSE 1

IsFull(lg)     == \A s \in LogSlots : lg[s] # Blank
FirstBlank(lg) == CHOOSE s \in LogSlots :
                     /\ lg[s] = Blank
                     /\ \A t \in LogSlots : lg[t] = Blank => s <= t

\* The log once `slot` is written to its first blank slot
Appended(lg, slot) == [lg EXCEPT ![FirstBlank(lg)] = slot]

\* For the proofs: the log is written from its first slot on, and its newest
\* record exists
LogShape(lg) ==
    /\ \E n \in 0..META_RECORD_SLOTS : \A s \in LogSlots : lg[s] = Blank <=> s > n
    /\ HasRecord(lg) => \E s \in LogSlots : IsNewest(lg, s)
=============================================================================
