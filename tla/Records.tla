------------------------------ MODULE Records ------------------------------
(***************************************************************************)
(* What the application keeps in its F-RAM: the saved state, the hardware  *)
(* configuration in a record of its own, the switches of the features, the *)
(* thermal counters and the black box.  The main loop writes the first two *)
(* when they differ from what it last wrote; the CAN interrupt sets        *)
(* values, erases records and writes the switches over the same bus.       *)
(*                                                                         *)
(* A transfer of the bus is begun and ended: power can fail in between,    *)
(* and an interrupt that finds it under way is refused by the HAL.  A      *)
(* record holds the value written, or Torn, which no checksum accepts.     *)
(***************************************************************************)
EXTENDS Integers

CONSTANTS
    Config,       \* board type, free tool, serial number and camera together
    Default,      \* their values when nothing was restored
    Look,         \* what else the saved state holds: colours, setpoints
    Mask,         \* sets of optional features; NoFeatures is the empty one
    NoFeatures,
    Blank,        \* an erased record
    Torn,         \* a record cut short
    MaxCuts,      \* bound: power failures and resets
    MaxFaults,    \* bound: transfers that the F-RAM does not answer
    MaxCount      \* bound: thermal faults counted

ASSUME RecordsAssumption ==
    /\ Default \in Config /\ NoFeatures \in Mask /\ Look # {}
    /\ {Blank, Torn} \cap (Config \cup Mask \cup [config : Config, look : Look]) = {}
    /\ {MaxCuts, MaxFaults, MaxCount} \subseteq Nat

VARIABLES
    chip,      \* the records: the two chunks of the saved state, hw, features, ...
    ram,       \* what the application holds in RAM
    main,      \* where the main loop is, and the values it is writing
    sound,     \* both copies of the configuration were good when a write began
    cuts, faults,
    heard,     \* the switches stored as a host was told last; Blank if it was
               \* told while a failure stood between the report and the chip
    doubt      \* the last transfer of the switches since the start failed

report == <<heard, doubt>>
vars == <<chip, ram, main, sound, cuts, faults, report>>

State == [config : Config, look : Look]
Cell(S) == S \cup {Blank, Torn}

TypeOK ==
    /\ chip \in [lo : Cell(State), hi : Cell(State), hw : Cell(Config), features : Cell(Mask),
                 stats : Cell(0 .. MaxCount), black : Cell({"fault"})]
    /\ ram \in [config : Config, look : Look, saved : State \cup {Blank}, hw : Config \cup {Blank},
                persisted : Mask, count : 0 .. MaxCount, error : BOOLEAN, flushed : BOOLEAN]
    /\ main \in [at : {"off", "load", "hw", "hwWrite", "saved", "lo", "between", "hi", "stats",
                       "statsWrite", "black", "blackWrite"},
                 s : State, h : Config]
    /\ sound \in BOOLEAN
    /\ cuts \in 0 .. MaxCuts /\ faults \in 0 .. MaxFaults
    /\ heard \in Mask \cup {Blank} /\ doubt \in BOOLEAN

SavedWhole == chip.lo = chip.hi /\ chip.lo \in State
HwWhole == chip.hw \in Config
(* Both copies of the configuration are whole, and hold what a host chose. *)
BothWhole == SavedWhole /\ HwWhole /\ Default \notin {chip.lo.config, chip.hw}
(* ... and the board runs with one, so what it writes is not the default. *)
Safe == BothWhole /\ ram.config # Default
At(p) == main.at = p
Go(p) == main' = [main EXCEPT !.at = p]
Transfer == main.at \in {"hwWrite", "lo", "hi", "statsWrite", "blackWrite"}
Fault == faults < MaxFaults /\ faults' = faults + 1

AnyState == CHOOSE s \in State : s.config = Default
Off == [at |-> "off", s |-> AnyState, h |-> Default]
Cold == [config |-> Default, look |-> AnyState.look, saved |-> Blank, hw |-> Blank,
         persisted |-> NoFeatures, count |-> 0, error |-> FALSE, flushed |-> FALSE]

Init ==
    /\ chip = [lo |-> Blank, hi |-> Blank, hw |-> Blank, features |-> Blank, stats |-> Blank,
               black |-> Blank]
    /\ ram = Cold /\ main = Off /\ sound = FALSE
    /\ cuts = 0 /\ faults = 0 /\ heard = Blank /\ doubt = FALSE

-----------------------------------------------------------------------------
(* Start-up *)

FeaturesOn(cell) == IF cell \in Mask THEN cell ELSE NoFeatures

(* The head whose jumpers say that its tool is chosen by a host looks for  *)
(* the choice in the saved state, and only there; then it looks for its    *)
(* switches.  A read that fails is as good as no choice, or no switch.     *)
Start ==
    /\ At("off") /\ Go("load")
    /\ \E chosen, switched \in BOOLEAN :
          /\ IF chosen /\ switched THEN UNCHANGED faults ELSE Fault
          /\ ram' = [ram EXCEPT !.error = ~(chosen /\ SavedWhole),
                                !.persisted = IF switched THEN FeaturesOn(chip.features) ELSE NoFeatures]
          /\ doubt' = ~switched
    /\ UNCHANGED <<chip, sound, cuts, heard>>

CountsOf(cell) == IF cell \in 0 .. MaxCount THEN cell ELSE 0

Restored_OnlySaved(r) ==
    [r EXCEPT !.config = IF SavedWhole THEN chip.lo.config ELSE @,
              !.look = IF SavedWhole THEN chip.lo.look ELSE @,
              !.saved = IF SavedWhole THEN chip.lo ELSE @,
              !.hw = IF HwWhole THEN chip.hw ELSE Blank,
              !.count = CountsOf(chip.stats)]
(* SavedState_Load: the configuration comes from the saved state, or from  *)
(* its own record when the saved state is not to be trusted.               *)
Restored(r) ==
    [r EXCEPT !.config = IF SavedWhole THEN chip.lo.config ELSE IF HwWhole THEN chip.hw ELSE @,
              !.look = IF SavedWhole THEN chip.lo.look ELSE @,
              !.saved = IF SavedWhole THEN chip.lo ELSE @,
              !.hw = IF HwWhole THEN chip.hw ELSE Blank,
              !.count = CountsOf(chip.stats)]

Load ==
    /\ At("load") /\ ram' = Restored(ram) /\ Go("hw")
    /\ UNCHANGED <<chip, sound, cuts, faults, report>>
(* The F-RAM does not answer: the board starts with the values it has. *)
LoadFails ==
    /\ At("load") /\ Fault /\ sound' = FALSE /\ Go("hw")
    /\ UNCHANGED <<chip, ram, cuts, report>>

-----------------------------------------------------------------------------
(* The main loop: SavedState_MaybeSave, with the hardware configuration    *)
(* first.  Whether three seconds have passed is left open.                 *)

Snapshot == [config |-> ram.config, look |-> ram.look]

HwMaybeSave ==
    /\ At("hw")
    /\ LET known == IF ram.saved = Blank THEN Blank ELSE ram.hw
       IN  /\ ram' = [ram EXCEPT !.hw = known]
           /\ \/ Go("saved") /\ UNCHANGED sound
              \/ /\ ram.config # known
                 /\ main' = [main EXCEPT !.at = "hwWrite", !.h = ram.config]
                 /\ sound' = Safe
    /\ UNCHANGED <<chip, cuts, faults, report>>

HwWritten ==
    /\ At("hwWrite") /\ Go("saved")
    /\ chip' = [chip EXCEPT !.hw = main.h] /\ ram' = [ram EXCEPT !.hw = main.h]
    /\ UNCHANGED <<sound, cuts, faults, report>>

MaybeSave ==
    /\ At("saved")
    /\ \/ Go("stats") /\ UNCHANGED sound
       \/ /\ Snapshot # ram.saved
          /\ main' = [main EXCEPT !.at = "lo", !.s = Snapshot] /\ sound' = Safe
    /\ UNCHANGED <<chip, ram, cuts, faults, report>>

LoWritten ==
    /\ At("lo") /\ Go("between") /\ chip' = [chip EXCEPT !.lo = main.s]
    /\ UNCHANGED <<ram, sound, cuts, faults, report>>
Between == At("between") /\ Go("hi") /\ UNCHANGED <<chip, ram, sound, cuts, faults, report>>
HiWritten ==
    /\ At("hi") /\ Go("stats") /\ chip' = [chip EXCEPT !.hi = main.s]
    /\ ram' = [ram EXCEPT !.saved = main.s]
    /\ UNCHANGED <<sound, cuts, faults, report>>

(* The thermal counters are written once a minute, and at every fault. *)
StatsService ==
    /\ At("stats") /\ Go("black") /\ UNCHANGED <<chip, ram, sound, cuts, faults, report>>
NoteFault ==
    /\ At("stats") /\ ~ram.error /\ Go("statsWrite")
    /\ ram' = [ram EXCEPT !.error = TRUE, !.count = IF @ < MaxCount THEN @ + 1 ELSE @]
    /\ UNCHANGED <<chip, sound, cuts, faults, report>>
StatsWritten ==
    /\ At("statsWrite") /\ Go("black") /\ chip' = [chip EXCEPT !.stats = ram.count]
    /\ UNCHANGED <<ram, sound, cuts, faults, report>>

(* BlackBox_Sample: on the first sample that shows an error the last ten   *)
(* seconds are written, once.                                              *)
Sample ==
    /\ At("black")
    /\ IF ram.error /\ ~ram.flushed
       THEN Go("blackWrite") /\ ram' = [ram EXCEPT !.flushed = TRUE]
       ELSE Go("hw") /\ UNCHANGED ram
    /\ UNCHANGED <<chip, sound, cuts, faults, report>>
Flushed ==
    /\ At("blackWrite") /\ Go("hw") /\ chip' = [chip EXCEPT !.black = "fault"]
    /\ UNCHANGED <<ram, sound, cuts, faults, report>>

(* What the transfer under way may leave behind. *)
Left ==
    CASE At("hwWrite") -> {[chip EXCEPT !.hw = v] : v \in {chip.hw, main.h, Torn}}
      [] At("lo") -> {[chip EXCEPT !.lo = v] : v \in {chip.lo, main.s, Torn}}
      [] At("hi") -> {[chip EXCEPT !.hi = v] : v \in {chip.hi, main.s, Torn}}
      [] At("statsWrite") -> {[chip EXCEPT !.stats = v] : v \in {chip.stats, ram.count, Torn}}
      [] At("blackWrite") -> {[chip EXCEPT !.black = v] : v \in {chip.black, Torn}}
      [] OTHER -> {chip}

(* The F-RAM does not answer, at first or midway: the write is given up.   *)
WriteFails ==
    /\ Transfer /\ Fault
    /\ chip' \in Left
    /\ Go(CASE At("hwWrite") -> "saved"
            [] main.at \in {"lo", "hi"} -> "stats"
            [] At("statsWrite") -> "black"
            [] OTHER -> "hw")
    /\ UNCHANGED <<ram, sound, cuts, report>>

-----------------------------------------------------------------------------
(* The CAN interrupt, from the moment the bus is up *)

Served == main.at # "off" /\ UNCHANGED <<main, cuts>>

(* Nothing is said of the switches. *)
Other == Served /\ UNCHANGED <<faults, report>>

SetConfig ==
    /\ Other /\ \E c \in Config \ {Default} : ram' = [ram EXCEPT !.config = c]
    /\ UNCHANGED <<chip, sound>>
SetLook ==
    /\ Other /\ \E l \in Look : ram' = [ram EXCEPT !.look = l]
    /\ UNCHANGED <<chip, sound>>

(* 0x192: both copies are erased, if the bus is free, and the mirror says  *)
(* so whether they were or not.                                            *)
Erase ==
    /\ Other /\ ~ram.error
    /\ chip' = IF Transfer THEN chip ELSE [chip EXCEPT !.lo = Blank, !.hi = Blank, !.hw = Blank]
    /\ ram' = [ram EXCEPT !.saved = Blank]
    /\ sound' = FALSE

Reported_AsAsked(written, m) == m
(* What is reported is read back from the chip when the write went well. *)
Reported(written, m) == IF written THEN FeaturesOn(m) ELSE ram.persisted

Stores(cell) == chip' = [chip EXCEPT !.features = cell]
Answers(mask) == ram' = [ram EXCEPT !.persisted = mask] /\ heard' = IF doubt' THEN Blank ELSE mask

(* SET_FEATURES is refused while a transfer of the main loop is under way; *)
(* else written and read back, of which either may fail, the write with a  *)
(* part of the record on the chip.  It is answered in any case.            *)
HandleFeatures ==
    /\ Served /\ ~ram.error /\ UNCHANGED sound
    /\ \E m \in Mask :
          \/ Transfer /\ UNCHANGED <<chip, doubt, faults>> /\ Answers(Reported(FALSE, m))
          \/ ~Transfer /\ Stores(m) /\ doubt' = FALSE /\ Answers(Reported(TRUE, m)) /\ UNCHANGED faults
          \/ /\ ~Transfer /\ Fault /\ doubt' = TRUE
             /\ \/ (\E v \in {chip.features, m, Torn} : Stores(v)) /\ Answers(Reported(FALSE, m))
                \/ Stores(m) /\ Answers(NoFeatures)

AskFeatures ==
    /\ Served /\ ~ram.error /\ UNCHANGED <<chip, sound, faults, doubt>>
    /\ Answers(ram.persisted)

-----------------------------------------------------------------------------
(* Power failures, and the faults of the processor *)

WriteUnderWay == main.at \in {"hwWrite", "lo", "between", "hi"}

(* The interrupt is cut short while it writes the switches. *)
FeaturesCut ==
    /\ ~Transfer /\ ~ram.error /\ heard' = Blank
    /\ \E cell \in Mask \cup {Torn} : Stores(cell)

(* The power fails, or the watchdog resets the head after a fault of the   *)
(* processor.                                                              *)
Gone ==
    /\ main.at # "off" /\ cuts < MaxCuts /\ cuts' = cuts + 1
    /\ (chip' \in Left /\ heard' = heard) \/ FeaturesCut
    /\ main' = Off /\ ram' = Cold /\ doubt' = FALSE
    /\ sound' = IF WriteUnderWay THEN sound ELSE BothWhole
    /\ UNCHANGED faults

MainStep ==
    \/ Start \/ Load \/ LoadFails \/ HwMaybeSave \/ HwWritten \/ MaybeSave \/ LoWritten
    \/ Between \/ HiWritten \/ StatsService \/ NoteFault \/ StatsWritten \/ Sample \/ Flushed
    \/ WriteFails
Interrupt == SetConfig \/ SetLook \/ Erase \/ HandleFeatures \/ AskFeatures
Next == MainStep \/ Interrupt \/ Gone
Spec == Init /\ [][Next]_vars

-----------------------------------------------------------------------------
(* The configuration of the board outlives a power failure at any point of *)
(* any write, as long as both of its copies were whole when that write     *)
(* began and the board ran with one: the copy that is not being written    *)
(* restores it, and the board never comes up as one without configuration. *)
ConfigurationKept == [][Load /\ sound => ram'.config # Default]_vars

(* The switches that a host was told are stored are those that the next    *)
(* start runs, over power failures, refused commands and whatever else is  *)
(* written or erased; but for a start whose read fails, which runs none,   *)
(* and for an answer given after a transfer of the switches had failed     *)
(* since the start (firmware_features.c:30-37, 117-119, 130-147).          *)
SwitchesReported ==
    [][Start /\ heard # Blank =>
          \/ ram'.persisted = heard
          \/ faults' # faults /\ ram'.persisted = NoFeatures]_vars

(* The comments at firmware_features.c:26 and :139: `persisted` is what is *)
(* in F-RAM now, blank when the chip does not answer, and the answer is    *)
(* what the chip really holds: not kept by a write that fails midway.      *)
PersistedIsStored ==
    main.at # "off" => ram.persisted \in {NoFeatures, FeaturesOn(chip.features)}

-----------------------------------------------------------------------------
(* The inductive invariant behind both                                     *)

(* While one copy of the configuration is written the other one is whole,  *)
(* and neither says that there is none; what is found at a start is one.   *)
CopiesInv ==
    sound =>
      /\ main.at \in {"off", "load"} =>
            IF SavedWhole THEN chip.lo.config # Default ELSE HwWhole /\ chip.hw # Default
      /\ At("hwWrite") => SavedWhole /\ chip.lo.config # Default /\ main.h # Default
      /\ main.at \in {"lo", "between", "hi"} =>
            /\ HwWhole /\ chip.hw # Default /\ main.s.config # Default
            /\ \A half \in {chip.lo, chip.hi} : half \in State => half.config # Default

(* What was reported is on the chip, and what is held in RAM, unless a     *)
(* transfer failed.                                                        *)
ReportInv ==
    /\ heard # Blank => FeaturesOn(chip.features) = heard
    /\ main.at # "off" /\ ~doubt => ram.persisted = FeaturesOn(chip.features)

RecordsInv == TypeOK /\ ReportInv /\ CopiesInv
=============================================================================
