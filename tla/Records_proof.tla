---------------------------- MODULE Records_proof ----------------------------
(***************************************************************************)
(* Proofs of what a head keeps through power failures: in the application  *)
(* its configuration and the switches it reports, in the bootloader the    *)
(* serial of the last command confirmed and the window of a rotated key.   *)
(***************************************************************************)
EXTENDS Records, BootPage, SequenceTheorems, TLAPS

-----------------------------------------------------------------------------
(* The application *)

Chip == [lo : Cell(State), hi : Cell(State), hw : Cell(Config), features : Cell(Mask),
         stats : Cell(0..MaxCount), black : Cell({"fault"})]
Ram  == [config : Config, look : Look, saved : State \cup {Blank}, hw : Config \cup {Blank},
         persisted : Mask, count : 0..MaxCount, error : BOOLEAN, flushed : BOOLEAN]
MainAt == {"off", "load", "hw", "hwWrite", "saved", "lo", "between", "hi", "stats",
           "statsWrite", "black", "blackWrite"}
Main == [at : MainAt, s : State, h : Config]

LEMMA RecordFacts ==
    /\ Default \in Config /\ NoFeatures \in Mask
    /\ Blank \notin Config /\ Torn \notin Config /\ Blank \notin Mask /\ Torn \notin Mask
    /\ Blank \notin State /\ Torn \notin State
    /\ MaxCount \in Nat /\ MaxCuts \in Nat /\ MaxFaults \in Nat
  BY RecordsAssumption DEF State

LEMMA TypeIs ==
    TypeOK <=> /\ chip \in Chip /\ ram \in Ram /\ main \in Main /\ sound \in BOOLEAN
               /\ cuts \in 0..MaxCuts /\ faults \in 0..MaxFaults
               /\ heard \in Mask \cup {Blank} /\ doubt \in BOOLEAN
  BY DEF TypeOK, Chip, Ram, Main, MainAt

LEMMA ColdIs == AnyState \in State /\ AnyState.config = Default /\ Off \in Main /\ Cold \in Ram
<1>1. PICK l \in Look : TRUE
  BY RecordsAssumption
<1>2. \E s \in State : s.config = Default
  <2>1. [config |-> Default, look |-> l] \in State
    BY <1>1, RecordFacts DEF State
  <2> QED
    BY <2>1
<1>3. AnyState \in State /\ AnyState.config = Default
  BY <1>2 DEF AnyState
<1>4. AnyState.look \in Look
  BY <1>3 DEF State
<1> QED
  BY <1>3, <1>4, RecordFacts DEF Off, Cold, Main, MainAt, Ram

LEMMA InitRecords == Init => RecordsInv
<1> SUFFICES ASSUME Init PROVE RecordsInv
  OBVIOUS
<1>1. /\ chip = [lo |-> Blank, hi |-> Blank, hw |-> Blank, features |-> Blank, stats |-> Blank,
                 black |-> Blank]
      /\ ram = Cold /\ main = Off /\ sound = FALSE /\ cuts = 0 /\ faults = 0
      /\ heard = Blank /\ doubt = FALSE
  BY DEF Init
<1>2. chip \in Chip
  BY <1>1 DEF Chip, Cell
<1>3. TypeOK
  <2>1. cuts \in 0..MaxCuts /\ faults \in 0..MaxFaults
    BY <1>1, RecordFacts
  <2>3. sound \in BOOLEAN /\ heard \in Mask \cup {Blank} /\ doubt \in BOOLEAN
    BY <1>1
  <2>2. ram \in Ram /\ main \in Main
    BY <1>1, ColdIs
  <2> QED
    BY <1>2, <2>1, <2>2, <2>3, TypeIs
<1>4. main.at = "off"
  BY <1>1 DEF Off
<1>5. ReportInv /\ CopiesInv
  BY <1>1, <1>4 DEF ReportInv, CopiesInv
<1> QED
  BY <1>3, <1>5 DEF RecordsInv

\* Restoring a state keeps the types.
LEMMA RestoredIs ==
    ASSUME TypeOK
    PROVE  Restored(ram) \in Ram /\ Restored(ram).persisted = ram.persisted
<1>1. chip \in Chip /\ ram \in Ram
  BY TypeIs
<1>2. SavedWhole => chip.lo \in State /\ chip.lo.config \in Config /\ chip.lo.look \in Look
  BY DEF SavedWhole, State
<1>3. CountsOf(chip.stats) \in 0..MaxCount
  BY RecordFacts DEF CountsOf
<1>4. HwWhole => chip.hw \in Config
  BY DEF HwWhole
<1>5. (IF SavedWhole THEN chip.lo.config ELSE IF HwWhole THEN chip.hw ELSE ram.config) \in Config
  BY <1>1, <1>2, <1>4 DEF Ram
<1>6. (IF SavedWhole THEN chip.lo.look ELSE ram.look) \in Look
  BY <1>1, <1>2 DEF Ram
<1>7. (IF SavedWhole THEN chip.lo ELSE ram.saved) \in State \cup {Blank}
  BY <1>1, <1>2 DEF Ram
<1>8. (IF HwWhole THEN chip.hw ELSE Blank) \in Config \cup {Blank}
  BY <1>4
<1> QED
  BY <1>1, <1>3, <1>5, <1>6, <1>7, <1>8 DEF Restored, Ram

\* What a transfer that is cut short leaves: the old value, the new one or neither.
LEMMA LeftIs ==
    ASSUME TypeOK, chip' \in Left
    PROVE  /\ chip' \in Chip /\ chip'.features = chip.features
           /\ chip'.lo \in {chip.lo} \cup (IF At("lo") THEN {main.s, Torn} ELSE {})
           /\ chip'.hi \in {chip.hi} \cup (IF At("hi") THEN {main.s, Torn} ELSE {})
           /\ chip'.hw \in {chip.hw} \cup (IF At("hwWrite") THEN {main.h, Torn} ELSE {})
<1>1. chip \in Chip /\ main.s \in State /\ main.h \in Config /\ ram.count \in 0..MaxCount
  BY TypeIs DEF Main, Ram
<1>2. CASE At("hwWrite")
  <2>1. PICK v \in {chip.hw, main.h, Torn} : chip' = [chip EXCEPT !.hw = v]
    BY <1>2 DEF Left, At
  <2> QED
    BY <1>1, <1>2, <2>1 DEF Chip, Cell
<1>3. CASE At("lo")
  <2>1. PICK v \in {chip.lo, main.s, Torn} : chip' = [chip EXCEPT !.lo = v]
    BY <1>3 DEF Left, At
  <2> QED
    BY <1>1, <1>3, <2>1 DEF Chip, Cell
<1>4. CASE At("hi")
  <2>1. PICK v \in {chip.hi, main.s, Torn} : chip' = [chip EXCEPT !.hi = v]
    BY <1>4 DEF Left, At
  <2> QED
    BY <1>1, <1>4, <2>1 DEF Chip, Cell
<1>5. CASE At("statsWrite")
  <2>1. PICK v \in {chip.stats, ram.count, Torn} : chip' = [chip EXCEPT !.stats = v]
    BY <1>5 DEF Left, At
  <2> QED
    BY <1>1, <1>5, <2>1 DEF Chip, Cell
<1>6. CASE At("blackWrite")
  <2>1. PICK v \in {chip.black, Torn} : chip' = [chip EXCEPT !.black = v]
    BY <1>6 DEF Left, At
  <2> QED
    BY <1>1, <1>6, <2>1 DEF Chip, Cell
<1>7. CASE ~(At("hwWrite") \/ At("lo") \/ At("hi") \/ At("statsWrite") \/ At("blackWrite"))
  <2>1. chip' = chip
    BY <1>7 DEF Left
  <2> QED
    BY <1>1, <2>1
<1> QED
  BY <1>2, <1>3, <1>4, <1>5, <1>6, <1>7

\* The steps of the main loop.
LEMMA MainStepKeeps == ASSUME RecordsInv, MainStep PROVE RecordsInv'
<1>1. /\ chip \in Chip /\ ram \in Ram /\ main \in Main /\ sound \in BOOLEAN
      /\ cuts \in 0..MaxCuts /\ faults \in 0..MaxFaults
      /\ heard \in Mask \cup {Blank} /\ doubt \in BOOLEAN
      /\ ReportInv /\ CopiesInv /\ TypeOK
  BY TypeIs DEF RecordsInv
<1>2. ASSUME NEW p \in MainAt, Go(p)
      PROVE  main' \in Main /\ main'.at = p /\ main'.s = main.s /\ main'.h = main.h
  BY <1>1, <1>2 DEF Go, Main
<1>3. ASSUME Fault PROVE faults' \in 0..MaxFaults
  BY <1>1, <1>3, RecordFacts DEF Fault
\* Where nothing is promised of the copies
<1>4. ASSUME chip' \in Chip, ram' \in Ram, main' \in Main, sound' \in BOOLEAN,
             faults' \in 0..MaxFaults, cuts' = cuts, heard' = heard, doubt' \in BOOLEAN,
             chip'.features = chip.features,
             \/ main.at # "off" /\ ram'.persisted = ram.persisted /\ doubt' = doubt
             \/ doubt' \/ ram'.persisted = FeaturesOn(chip.features),
             CopiesInv'
      PROVE  RecordsInv'
  <2>1. TypeOK'
    BY <1>1, <1>4 DEF TypeOK, Chip, Ram, Main, MainAt
  <2>2. ReportInv'
    BY <1>1, <1>4 DEF ReportInv, FeaturesOn
  <2> QED
    BY <1>4, <2>1, <2>2 DEF RecordsInv
<1>5. ASSUME main'.at \notin {"off", "load", "hwWrite", "lo", "between", "hi"}
      PROVE  CopiesInv'
  BY <1>5 DEF CopiesInv, At
<1>6. CASE Start
  <2>1. Go("load") /\ UNCHANGED <<chip, sound, cuts, heard>> /\ main.at = "off"
    BY <1>6 DEF Start, At
  <2>2. PICK chosen \in BOOLEAN, switched \in BOOLEAN :
          /\ IF chosen /\ switched THEN UNCHANGED faults ELSE Fault
          /\ ram' = [ram EXCEPT !.error = ~(chosen /\ SavedWhole),
                                !.persisted = IF switched THEN FeaturesOn(chip.features) ELSE NoFeatures]
          /\ doubt' = ~switched
    BY <1>6 DEF Start
  <2>3. FeaturesOn(chip.features) \in Mask /\ NoFeatures \in Mask
    BY RecordFacts DEF FeaturesOn
  <2>4. ram' \in Ram /\ (doubt' \/ ram'.persisted = FeaturesOn(chip.features)) /\ doubt' \in BOOLEAN
    BY <1>1, <2>2, <2>3 DEF Ram
  <2>5. main' \in Main /\ main'.at = "load"
    BY <1>2, <2>1 DEF MainAt
  <2>6. CopiesInv'
    BY <1>1, <2>1, <2>5 DEF CopiesInv, At, SavedWhole, HwWhole
  <2>7. faults' \in 0..MaxFaults
    BY <1>1, <1>3, <2>2
  <2> QED
    BY <1>1, <1>4, <2>1, <2>4, <2>5, <2>6, <2>7
<1>7. CASE Load
  <2>1. ram' = Restored(ram) /\ Go("hw") /\ UNCHANGED <<chip, sound, cuts, faults, heard, doubt>>
        /\ main.at = "load"
    BY <1>7 DEF Load, At, report
  <2>2. main' \in Main /\ main'.at = "hw"
    BY <1>2, <2>1 DEF MainAt
  <2> QED
    BY <1>1, <1>4, <1>5, <2>1, <2>2, RestoredIs
<1>8. CASE LoadFails
  <2>1. Fault /\ sound' = FALSE /\ Go("hw") /\ UNCHANGED <<chip, ram, cuts, heard, doubt>> /\ main.at = "load"
    BY <1>8 DEF LoadFails, At, report
  <2>2. main' \in Main /\ main'.at = "hw"
    BY <1>2, <2>1 DEF MainAt
  <2> QED
    BY <1>1, <1>3, <1>4, <1>5, <2>1, <2>2
<1>9. CASE HwMaybeSave
  <2>1. PICK known \in {Blank, ram.hw} :
          /\ ram' = [ram EXCEPT !.hw = known]
          /\ \/ Go("saved") /\ UNCHANGED sound
             \/ main' = [main EXCEPT !.at = "hwWrite", !.h = ram.config] /\ sound' = Safe
    BY <1>9 DEF HwMaybeSave
  <2>2. UNCHANGED <<chip, cuts, faults, heard, doubt>> /\ main.at = "hw"
    BY <1>9 DEF HwMaybeSave, At, report
  <2>3. ram' \in Ram /\ ram'.persisted = ram.persisted
    BY <1>1, <2>1 DEF Ram
  <2>4. CASE Go("saved") /\ UNCHANGED sound
    <3>1. main' \in Main /\ main'.at = "saved"
      BY <1>2, <2>4 DEF MainAt
    <3> QED
      BY <1>1, <1>4, <1>5, <2>2, <2>3, <2>4, <3>1
  <2>5. CASE main' = [main EXCEPT !.at = "hwWrite", !.h = ram.config] /\ sound' = Safe
    <3>1. main' \in Main /\ main'.at = "hwWrite" /\ main'.h = ram.config
      BY <1>1, <2>5 DEF Main, MainAt, Ram
    <3>2. sound' \in BOOLEAN
      BY <2>5 DEF Safe, BothWhole, SavedWhole, HwWhole
    <3>3. CopiesInv'
      BY <1>1, <2>2, <2>5, <3>1 DEF CopiesInv, At, SavedWhole, HwWhole, Safe, BothWhole
    <3> QED
      BY <1>1, <1>4, <2>2, <2>3, <3>1, <3>2, <3>3
  <2> QED
    BY <2>1, <2>4, <2>5
<1>10. CASE HwWritten
  <2>1. /\ Go("saved") /\ chip' = [chip EXCEPT !.hw = main.h] /\ ram' = [ram EXCEPT !.hw = main.h]
        /\ UNCHANGED <<sound, cuts, faults, heard, doubt>> /\ main.at = "hwWrite"
    BY <1>10 DEF HwWritten, At, report
  <2>2. main' \in Main /\ main'.at = "saved" /\ main.h \in Config
    BY <1>1, <1>2, <2>1 DEF Main, MainAt
  <2>3. /\ chip' \in Chip /\ ram' \in Ram /\ chip'.features = chip.features
        /\ ram'.persisted = ram.persisted
    BY <1>1, <2>1, <2>2 DEF Chip, Ram, Cell
  <2> QED
    BY <1>1, <1>4, <1>5, <2>1, <2>2, <2>3
<1>11. CASE MaybeSave
  <2>1. UNCHANGED <<chip, ram, cuts, faults, heard, doubt>> /\ main.at = "saved"
    BY <1>11 DEF MaybeSave, At, report
  <2>2. CASE Go("stats") /\ UNCHANGED sound
    <3>1. main' \in Main /\ main'.at = "stats"
      BY <1>2, <2>2 DEF MainAt
    <3> QED
      BY <1>1, <1>4, <1>5, <2>1, <2>2, <3>1
  <2>3. CASE main' = [main EXCEPT !.at = "lo", !.s = Snapshot] /\ sound' = Safe
    <3>1. Snapshot \in State /\ Snapshot.config = ram.config
      BY <1>1 DEF Snapshot, State, Ram
    <3>2. main' \in Main /\ main'.at = "lo" /\ main'.s = Snapshot
      BY <1>1, <2>3, <3>1 DEF Main, MainAt
    <3>3. sound' \in BOOLEAN
      BY <2>3 DEF Safe, BothWhole, SavedWhole, HwWhole
    <3>4. CopiesInv'
      BY <1>1, <2>1, <2>3, <3>1, <3>2 DEF CopiesInv, At, SavedWhole, HwWhole, Safe, BothWhole
    <3> QED
      BY <1>1, <1>4, <2>1, <3>2, <3>3, <3>4
  <2> QED
    BY <1>11, <2>2, <2>3 DEF MaybeSave
<1>12. CASE LoWritten
  <2>1. /\ Go("between") /\ chip' = [chip EXCEPT !.lo = main.s]
        /\ UNCHANGED <<ram, sound, cuts, faults, heard, doubt>> /\ main.at = "lo"
    BY <1>12 DEF LoWritten, At, report
  <2>2. main' \in Main /\ main'.at = "between" /\ main.s \in State /\ main'.s = main.s
    BY <1>1, <1>2, <2>1 DEF Main, MainAt
  <2>3. /\ chip' \in Chip /\ chip'.features = chip.features /\ chip'.lo = main.s
        /\ chip'.hi = chip.hi /\ chip'.hw = chip.hw
    BY <1>1, <2>1, <2>2 DEF Chip, Cell
  <2>4. CopiesInv'
    BY <1>1, <2>1, <2>2, <2>3 DEF CopiesInv, At, HwWhole
  <2> QED
    BY <1>1, <1>4, <2>1, <2>2, <2>3, <2>4
<1>13. CASE Between
  <2>1. Go("hi") /\ UNCHANGED <<chip, ram, sound, cuts, faults, heard, doubt>> /\ main.at = "between"
    BY <1>13 DEF Between, At, report
  <2>2. main' \in Main /\ main'.at = "hi" /\ main'.s = main.s
    BY <1>2, <2>1 DEF MainAt
  <2>3. CopiesInv'
    BY <1>1, <2>1, <2>2 DEF CopiesInv, At, HwWhole
  <2> QED
    BY <1>1, <1>4, <2>1, <2>2, <2>3
<1>14. CASE HiWritten
  <2>1. /\ Go("stats") /\ chip' = [chip EXCEPT !.hi = main.s] /\ ram' = [ram EXCEPT !.saved = main.s]
        /\ UNCHANGED <<sound, cuts, faults, heard, doubt>> /\ main.at = "hi"
    BY <1>14 DEF HiWritten, At, report
  <2>2. main' \in Main /\ main'.at = "stats" /\ main.s \in State
    BY <1>1, <1>2, <2>1 DEF Main, MainAt
  <2>3. /\ chip' \in Chip /\ ram' \in Ram /\ chip'.features = chip.features
        /\ ram'.persisted = ram.persisted
    BY <1>1, <2>1, <2>2 DEF Chip, Ram, Cell
  <2> QED
    BY <1>1, <1>4, <1>5, <2>1, <2>2, <2>3
<1>15. CASE StatsService \/ NoteFault
  <2>1. UNCHANGED <<chip, sound, cuts, faults, heard, doubt>> /\ main.at = "stats"
    BY <1>15 DEF StatsService, NoteFault, At, report
  <2>2. main' \in Main /\ main'.at \in {"black", "statsWrite"}
    BY <1>2, <1>15 DEF StatsService, NoteFault, MainAt
  <2>3. (IF ram.count < MaxCount THEN ram.count + 1 ELSE ram.count) \in 0..MaxCount
    BY <1>1, RecordFacts DEF Ram
  <2>4. ram' \in Ram /\ ram'.persisted = ram.persisted
    BY <1>1, <1>15, <2>3 DEF StatsService, NoteFault, Ram
  <2> QED
    BY <1>1, <1>4, <1>5, <2>1, <2>2, <2>4
<1>16. CASE StatsWritten
  <2>1. /\ Go("black") /\ chip' = [chip EXCEPT !.stats = ram.count]
        /\ UNCHANGED <<ram, sound, cuts, faults, heard, doubt>> /\ main.at = "statsWrite"
    BY <1>16 DEF StatsWritten, At, report
  <2>2. main' \in Main /\ main'.at = "black"
    BY <1>2, <2>1 DEF MainAt
  <2>3. chip' \in Chip /\ chip'.features = chip.features
    BY <1>1, <2>1 DEF Chip, Cell, Ram
  <2> QED
    BY <1>1, <1>4, <1>5, <2>1, <2>2, <2>3
<1>17. CASE Sample
  <2>1. UNCHANGED <<chip, sound, cuts, faults, heard, doubt>> /\ main.at = "black"
    BY <1>17 DEF Sample, At, report
  <2>2. main' \in Main /\ main'.at \in {"blackWrite", "hw"}
    BY <1>2, <1>17 DEF Sample, MainAt
  <2>3. ram' \in Ram /\ ram'.persisted = ram.persisted
    BY <1>1, <1>17 DEF Sample, Ram
  <2> QED
    BY <1>1, <1>4, <1>5, <2>1, <2>2, <2>3
<1>18. CASE Flushed
  <2>1. /\ Go("hw") /\ chip' = [chip EXCEPT !.black = "fault"]
        /\ UNCHANGED <<ram, sound, cuts, faults, heard, doubt>> /\ main.at = "blackWrite"
    BY <1>18 DEF Flushed, At, report
  <2>2. main' \in Main /\ main'.at = "hw"
    BY <1>2, <2>1 DEF MainAt
  <2>3. chip' \in Chip /\ chip'.features = chip.features
    BY <1>1, <2>1 DEF Chip, Cell
  <2> QED
    BY <1>1, <1>4, <1>5, <2>1, <2>2, <2>3
<1>19. CASE WriteFails
  <2>1. PICK p \in {"saved", "stats", "black", "hw"} : Go(p)
    BY <1>19 DEF WriteFails, At
  <2>2. Fault /\ UNCHANGED <<ram, sound, cuts, heard, doubt>> /\ main.at # "off" /\ chip' \in Left
    BY <1>19 DEF WriteFails, Transfer, report
  <2>3. main' \in Main /\ main'.at = p
    BY <1>2, <2>1 DEF MainAt
  <2>4. chip' \in Chip /\ chip'.features = chip.features
    BY <1>1, <2>2, LeftIs
  <2> QED
    BY <1>1, <1>3, <1>4, <1>5, <2>2, <2>3, <2>4
<1> QED
  BY <1>6, <1>7, <1>8, <1>9, <1>10, <1>11, <1>12, <1>13, <1>14, <1>15, <1>16, <1>17, <1>18, <1>19
  DEF MainStep

\* The frames of the host, over the same bus.
LEMMA HostFramesKeep ==
    ASSUME RecordsInv, SetConfig \/ SetLook \/ Erase \/ HandleFeatures \/ AskFeatures
    PROVE  RecordsInv'
<1>1. /\ chip \in Chip /\ ram \in Ram /\ ReportInv /\ CopiesInv /\ sound \in BOOLEAN
      /\ TypeOK /\ heard \in Mask \cup {Blank} /\ doubt \in BOOLEAN /\ faults \in 0..MaxFaults
  BY TypeIs DEF RecordsInv
<1>2. Served
  BY DEF SetConfig, SetLook, Erase, HandleFeatures, AskFeatures, Other
<1>3. main' = main /\ cuts' = cuts /\ main.at # "off"
  BY <1>2 DEF Served
<1>4. ASSUME chip' \in Chip, ram' \in Ram, sound' \in BOOLEAN, faults' \in 0..MaxFaults,
             heard' \in Mask \cup {Blank}, doubt' \in BOOLEAN, ReportInv',
             \/ chip'.lo = chip.lo /\ chip'.hi = chip.hi /\ chip'.hw = chip.hw /\ sound' = sound
             \/ ~sound'
      PROVE  RecordsInv'
  <2>1. TypeOK'
    BY <1>1, <1>3, <1>4 DEF TypeOK, Chip, Ram
  <2>2. CopiesInv'
    BY <1>1, <1>3, <1>4 DEF CopiesInv, At, SavedWhole, HwWhole
  <2> QED
    BY <1>4, <2>1, <2>2 DEF RecordsInv
<1>5. CASE SetConfig \/ SetLook
  <2>1. /\ ram' \in Ram /\ ram'.persisted = ram.persisted
        /\ UNCHANGED <<chip, sound, faults, heard, doubt>>
    BY <1>1, <1>5 DEF SetConfig, SetLook, Other, report, Ram
  <2>2. ReportInv'
    BY <1>1, <1>3, <2>1 DEF ReportInv
  <2> QED
    BY <1>1, <1>4, <2>1, <2>2
<1>6. CASE Erase
  <2>1. ram' \in Ram /\ ram'.persisted = ram.persisted /\ sound' = FALSE
    BY <1>1, <1>6 DEF Erase, Ram
  <2>2. /\ chip' \in Chip /\ chip'.features = chip.features
        /\ UNCHANGED <<faults, heard, doubt>>
    BY <1>1, <1>6 DEF Erase, Other, report, Chip, Cell
  <2>3. ReportInv'
    BY <1>1, <1>3, <2>1, <2>2 DEF ReportInv
  <2> QED
    BY <1>1, <1>4, <2>1, <2>2, <2>3
\* An answer repeats what is held in RAM, and that is on the chip or in doubt
<1>7. ASSUME NEW cell \in Cell(Mask), Stores(cell) \/ (chip' = chip /\ cell = chip.features),
             NEW mask \in Mask, Answers(mask), doubt' \in BOOLEAN,
             faults' \in 0..MaxFaults, sound' = sound,
             doubt' \/ mask = FeaturesOn(cell)
      PROVE  RecordsInv'
  <2>1. /\ chip' \in Chip /\ chip'.features = cell
        /\ chip'.lo = chip.lo /\ chip'.hi = chip.hi /\ chip'.hw = chip.hw
    BY <1>1, <1>7 DEF Stores, Chip
  <2>2. ram' \in Ram /\ ram'.persisted = mask
    BY <1>1, <1>7 DEF Answers, Ram
  <2>3. heard' = IF doubt' THEN Blank ELSE mask
    BY <1>7 DEF Answers
  <2>4. ReportInv'
    BY <1>7, <2>1, <2>2, <2>3 DEF ReportInv
  <2> QED
    BY <1>1, <1>4, <1>7, <2>1, <2>2, <2>3, <2>4
<1>8. /\ chip.features \in Cell(Mask) /\ Torn \in Cell(Mask) /\ Mask \subseteq Cell(Mask)
      /\ ram.persisted \in Mask
      /\ doubt \/ ram.persisted = FeaturesOn(chip.features)
  BY <1>1, <1>3 DEF Chip, Ram, Cell, ReportInv
<1>9. CASE AskFeatures
  BY <1>1, <1>7, <1>8, <1>9 DEF AskFeatures
<1>10. CASE HandleFeatures
  <2>1. PICK m \in Mask :
          \/ Transfer /\ UNCHANGED <<chip, doubt, faults>> /\ Answers(Reported(FALSE, m))
          \/ ~Transfer /\ Stores(m) /\ doubt' = FALSE /\ Answers(Reported(TRUE, m)) /\ UNCHANGED faults
          \/ /\ ~Transfer /\ Fault /\ doubt' = TRUE
             /\ \/ (\E v \in {chip.features, m, Torn} : Stores(v)) /\ Answers(Reported(FALSE, m))
                \/ Stores(m) /\ Answers(NoFeatures)
    BY <1>10 DEF HandleFeatures
  <2>2. Reported(FALSE, m) = ram.persisted /\ Reported(TRUE, m) = FeaturesOn(m) /\ FeaturesOn(m) = m
    BY DEF Reported, FeaturesOn
  <2>3. sound' = sound
    BY <1>10 DEF HandleFeatures
  <2>4. CASE Transfer /\ UNCHANGED <<chip, doubt, faults>> /\ Answers(Reported(FALSE, m))
    BY <1>1, <1>7, <1>8, <2>2, <2>3, <2>4
  <2>5. CASE Stores(m) /\ doubt' = FALSE /\ Answers(Reported(TRUE, m)) /\ UNCHANGED faults
    BY <1>1, <1>7, <1>8, <2>2, <2>3, <2>5
  <2>6. CASE /\ Fault /\ doubt' = TRUE
             /\ \/ (\E v \in {chip.features, m, Torn} : Stores(v)) /\ Answers(Reported(FALSE, m))
                \/ Stores(m) /\ Answers(NoFeatures)
    <3>1. faults' \in 0..MaxFaults
      BY <1>1, <2>6, RecordFacts DEF Fault
    <3>2. PICK v \in Cell(Mask), mask \in Mask : Stores(v) /\ Answers(mask)
      BY <1>8, <2>2, <2>6, RecordFacts
    <3> QED
      BY <1>7, <2>3, <2>6, <3>1, <3>2
  <2> QED
    BY <2>1, <2>4, <2>5, <2>6
<1> QED
  BY <1>5, <1>6, <1>9, <1>10

\* A power failure, wherever it falls.
LEMMA GoneKeeps ==
    ASSUME RecordsInv, Gone
    PROVE  RecordsInv'
<1>1. /\ chip \in Chip /\ ram \in Ram /\ main \in Main /\ sound \in BOOLEAN /\ CopiesInv
      /\ cuts \in 0..MaxCuts /\ faults \in 0..MaxFaults
      /\ heard \in Mask \cup {Blank} /\ ReportInv /\ TypeOK
  BY TypeIs DEF RecordsInv
<1>2. /\ main.at # "off" /\ cuts < MaxCuts /\ cuts' = cuts + 1
      /\ (chip' \in Left /\ heard' = heard) \/ FeaturesCut
      /\ main' = Off /\ ram' = Cold /\ faults' = faults /\ doubt' = FALSE
      /\ sound' = IF WriteUnderWay THEN sound ELSE BothWhole
  BY DEF Gone
<1>3. main'.at = "off" /\ main' \in Main /\ ram' \in Ram /\ cuts' \in 0..MaxCuts
  BY <1>1, <1>2, ColdIs, RecordFacts DEF Off
<1>4. main.s \in State /\ main.h \in Config /\ ram.count \in 0..MaxCount
  BY <1>1 DEF Main, Ram
<1>5. /\ chip' \in Chip
      /\ chip'.lo \in {chip.lo} \cup (IF At("lo") THEN {main.s, Torn} ELSE {})
      /\ chip'.hi \in {chip.hi} \cup (IF At("hi") THEN {main.s, Torn} ELSE {})
      /\ chip'.hw \in {chip.hw} \cup (IF At("hwWrite") THEN {main.h, Torn} ELSE {})
      /\ heard' = Blank \/ (heard' = heard /\ chip'.features = chip.features)
  <2>1. CASE chip' \in Left /\ heard' = heard
    BY <1>1, <2>1, LeftIs
  <2>2. CASE FeaturesCut
    <3>1. PICK cell \in Mask \cup {Torn} : chip' = [chip EXCEPT !.features = cell]
      BY <2>2 DEF FeaturesCut, Stores
    <3>2. chip' \in Chip /\ chip'.lo = chip.lo /\ chip'.hi = chip.hi /\ chip'.hw = chip.hw
      BY <1>1, <3>1 DEF Chip, Cell
    <3> QED
      BY <2>2, <3>2 DEF FeaturesCut
  <2> QED
    BY <1>2, <2>1, <2>2
<1>6. sound' \in BOOLEAN /\ heard' \in Mask \cup {Blank}
  BY <1>1, <1>2, <1>5 DEF BothWhole, SavedWhole, HwWhole
<1>7. TypeOK'
  BY <1>1, <1>2, <1>3, <1>5, <1>6 DEF TypeOK, Chip, Ram, Main, MainAt
<1>8. CopiesInv'
  <2> SUFFICES ASSUME sound'
               PROVE  IF SavedWhole' THEN chip'.lo.config # Default
                                     ELSE HwWhole' /\ chip'.hw # Default
    BY <1>3 DEF CopiesInv, At
  <2>1. CASE main.at = "hwWrite"
    <3>1. sound /\ SavedWhole /\ chip.lo.config # Default
      BY <1>1, <1>2, <2>1 DEF WriteUnderWay, CopiesInv, At
    <3> QED
      BY <1>5, <2>1, <3>1 DEF SavedWhole, At
  <2>2. CASE main.at \in {"lo", "between", "hi"}
    <3>1. /\ HwWhole /\ chip.hw # Default /\ main.s.config # Default
          /\ \A half \in {chip.lo, chip.hi} : half \in State => half.config # Default
      BY <1>1, <1>2, <2>2 DEF WriteUnderWay, CopiesInv, At
    <3>2. chip'.hw = chip.hw
      BY <1>5, <2>2 DEF At
    <3>3. chip'.lo \in State => chip'.lo.config # Default
      BY <1>5, <3>1, RecordFacts
    <3> QED
      BY <3>1, <3>2, <3>3 DEF SavedWhole, HwWhole
  <2>3. CASE ~WriteUnderWay
    <3>1. BothWhole
      BY <1>2, <2>3
    <3>2. chip'.lo = chip.lo /\ chip'.hi = chip.hi
      BY <1>5, <2>3 DEF WriteUnderWay, At
    <3> QED
      BY <3>1, <3>2 DEF BothWhole, SavedWhole
  <2> QED
    BY <2>1, <2>2, <2>3 DEF WriteUnderWay
<1>9. ReportInv'
  BY <1>1, <1>3, <1>5 DEF ReportInv
<1> QED
  BY <1>7, <1>8, <1>9 DEF RecordsInv

LEMMA RecordsInvKept == RecordsInv /\ [Next]_vars => RecordsInv'
<1> SUFFICES ASSUME RecordsInv, [Next]_vars PROVE RecordsInv'
  OBVIOUS
<1>1. CASE MainStep
  BY <1>1, MainStepKeeps
<1>2. CASE Interrupt
  BY <1>2, HostFramesKeep DEF Interrupt
<1>3. CASE Gone
  BY <1>3, GoneKeeps
<1>4. CASE UNCHANGED vars
  BY <1>4 DEF vars, report, RecordsInv, TypeOK, ReportInv, CopiesInv, At, SavedWhole, HwWhole
<1> QED
  BY <1>1, <1>2, <1>3, <1>4 DEF Next

\* What a chain of saves and the interrupts that stop it leave in the F-RAM, for
\* any configurations, failures and cuts (HardwareConfig_MaybeSave,
\* SavedState_MaybeSave).
THEOREM RecordsInvariance == Spec => []RecordsInv
  BY InitRecords, RecordsInvKept, PTL DEF Spec

\* The switches a host was told are stored are those the next start runs, for
\* any sets of features, order of transfers and requests, failures of the F-RAM
\* and power failures; but for a start whose read fails and an answer given
\* after a transfer of the switches had failed (Features_Init, FwFeatures_Save).
THEOREM ReportsWhatIsStored == Spec => SwitchesReported
<1> DEFINE Told == \/ ram'.persisted = heard
                   \/ faults' # faults /\ ram'.persisted = NoFeatures
<1>1. ASSUME RecordsInv, Start, heard # Blank PROVE Told
  <2>1. FeaturesOn(chip.features) = heard
    BY <1>1 DEF RecordsInv, ReportInv
  <2>2. ram \in Ram /\ faults \in Nat
    BY <1>1, TypeIs, RecordsAssumption DEF RecordsInv
  <2>3. PICK chosen \in BOOLEAN, switched \in BOOLEAN :
          /\ IF chosen /\ switched THEN UNCHANGED faults ELSE Fault
          /\ ram' = [ram EXCEPT !.error = ~(chosen /\ SavedWhole),
                                !.persisted = IF switched THEN FeaturesOn(chip.features) ELSE NoFeatures]
    BY <1>1 DEF Start
  <2>4. CASE switched
    BY <2>1, <2>2, <2>3, <2>4 DEF Ram
  <2>5. CASE ~switched
    <3>1. faults' # faults
      BY <2>2, <2>3, <2>5 DEF Fault
    <3> QED
      BY <2>2, <2>3, <2>5, <3>1 DEF Ram
  <2> QED
    BY <2>4, <2>5
<1>2. RecordsInv /\ [Next]_vars => [Start /\ heard # Blank => Told]_vars
  BY <1>1
<1> QED
  BY <1>2, RecordsInvariance, PTL DEF Spec, SwitchesReported

\* Whatever write a power failure cuts, the board comes up with a
\* configuration if both copies were whole when the write began
\* (SavedState_Load falls back on the record of the hardware).
THEOREM ConfigurationSurvives == Spec => ConfigurationKept
<1>1. RecordsInv /\ [Next]_vars => [Load /\ sound => ram'.config # Default]_vars
  <2> SUFFICES ASSUME RecordsInv, Load, sound PROVE ram'.config # Default
    OBVIOUS
  <2>1. ram' = Restored(ram) /\ main.at = "load" /\ ram \in Ram
    BY TypeIs DEF Load, At, RecordsInv
  <2>2. IF SavedWhole THEN chip.lo.config # Default ELSE HwWhole /\ chip.hw # Default
    BY <2>1 DEF RecordsInv, CopiesInv
  <2>3. ram'.config = IF SavedWhole THEN chip.lo.config ELSE IF HwWhole THEN chip.hw ELSE ram.config
    BY <2>1 DEF Restored, Ram
  <2> QED
    BY <2>2, <2>3
<1> QED
  BY <1>1, RecordsInvariance, PTL DEF Spec, ConfigurationKept

-----------------------------------------------------------------------------
(* The bootloader: the serial *)

LEMMA PageNumbers ==
    /\ MaxCounter \in Nat /\ MaxUptime \in Nat /\ Wrap \in Nat /\ MaxUptime < Wrap
    /\ HostTime \subseteq 0..(Wrap - 1) /\ Window \subseteq Nat
    /\ \A s \in Serial : s # Fold /\ s # NotASerial
  BY BootPageAssumption

AllWords == {"serial", "check", "counter", "magic"}

\* The words of a slot after some were programmed: the magic is the last.
LEMMA SlotIs ==
    ASSUME NEW n \in 0..4, NEW s, NEW c \in 0..MaxCounter
    PROVE  /\ Slot(n, s, c).counter = c /\ SlotInv(Slot(n, s, c))
           /\ n = 4 => Slot(n, s, c).words = AllWords
           /\ n # 4 => "magic" \notin Slot(n, s, c).words
           /\ ToSet(SlotOrder) = AllWords
<1>1. ToSet(SlotOrder) = AllWords
  BY DEF ToSet, SlotOrder, AllWords
<1>2. SubSeq(SlotOrder, 1, n) = [i \in 1..n |-> SlotOrder[i]]
  BY DEF SlotOrder
<1>3. ToSet(SubSeq(SlotOrder, 1, n)) = {SlotOrder[i] : i \in 1..n}
  BY <1>2 DEF ToSet
<1>4. n = 4 => Slot(n, s, c).words = AllWords
  BY <1>3 DEF Slot, SlotOrder, AllWords
<1>5. n # 4 => "magic" \notin Slot(n, s, c).words
  BY <1>3 DEF Slot, SlotOrder
<1>6. Slot(n, s, c).counter = c
  BY DEF Slot
<1> QED
  BY <1>1, <1>4, <1>5, <1>6 DEF SlotInv

LEMMA SpareSlots ==
    /\ SlotInv(BlankSlot) /\ ~ValidSlot(BlankSlot)
    /\ SlotInv(TornSlot) /\ ~ValidSlot(TornSlot)
  BY PageNumbers DEF SlotInv, BlankSlot, TornSlot, ValidSlot

\* A slot is believed when it is whole.
LEMMA ValidIsWhole ==
    ASSUME NEW slot, SlotInv(slot)
    PROVE  /\ ValidSlot(slot) <=> "magic" \in slot.words
           /\ ValidSlot(slot) => slot.words = AllWords /\ CounterOf(slot) = slot.counter
           /\ slot.counter \in 0..MaxCounter
<1>1. ToSet(SlotOrder) = AllWords
  BY DEF ToSet, SlotOrder, AllWords
<1> QED
  BY <1>1 DEF SlotInv, ValidSlot, CounterOf, AllWords

\* The counter that is stored is the greatest of the slots.
StoredFacts ==
    SlotInv(page.a) /\ SlotInv(page.b) =>
      /\ StoredCounter \in 0..MaxCounter
      /\ ValidSlot(page.a) => page.a.counter <= StoredCounter
      /\ ValidSlot(page.b) => page.b.counter <= StoredCounter
      /\ Kept = {} <=> ~ValidSlot(page.a) /\ ~ValidSlot(page.b)
      /\ Kept = {} => StoredCounter = 0
      /\ Kept # {} => /\ ValidSlot(Picked) /\ SlotInv(Picked)
                      /\ CounterOf(Picked) = StoredCounter
      /\ StoredCounter \in {0} \cup (IF ValidSlot(page.a) THEN {page.a.counter} ELSE {})
                               \cup (IF ValidSlot(page.b) THEN {page.b.counter} ELSE {})

LEMMA StoredIs == StoredFacts
<1> SUFFICES ASSUME SlotInv(page.a), SlotInv(page.b)
             PROVE  /\ StoredCounter \in 0..MaxCounter
                    /\ ValidSlot(page.a) => page.a.counter <= StoredCounter
                    /\ ValidSlot(page.b) => page.b.counter <= StoredCounter
                    /\ Kept = {} <=> ~ValidSlot(page.a) /\ ~ValidSlot(page.b)
                    /\ Kept = {} => StoredCounter = 0
                    /\ Kept # {} => /\ ValidSlot(Picked) /\ SlotInv(Picked)
                                    /\ CounterOf(Picked) = StoredCounter
                    /\ StoredCounter \in {0} \cup (IF ValidSlot(page.a) THEN {page.a.counter} ELSE {})
                                             \cup (IF ValidSlot(page.b) THEN {page.b.counter} ELSE {})
  BY DEF StoredFacts
<1>1. Kept = {} <=> ~ValidSlot(page.a) /\ ~ValidSlot(page.b)
  BY DEF Kept
<1>2. Kept # {} => /\ Picked \in {page.a, page.b} /\ ValidSlot(Picked)
  BY <1>1 DEF Picked
<1>3. /\ ValidSlot(page.a) => CounterOf(page.a) = page.a.counter
      /\ ValidSlot(page.b) => CounterOf(page.b) = page.b.counter
      /\ page.a.counter \in 0..MaxCounter /\ page.b.counter \in 0..MaxCounter
  BY ValidIsWhole
<1>4. Kept = {} => StoredCounter = 0
  BY DEF StoredCounter
<1>5. Kept # {} => StoredCounter = CounterOf(Picked)
  BY DEF StoredCounter
<1>6. CASE Kept = {}
  BY <1>1, <1>4, <1>6, PageNumbers
<1>7. CASE Kept # {}
  <2>1. CASE Picked = page.a /\ ValidSlot(page.a) /\ (ValidSlot(page.b) => CounterOf(page.b) <= CounterOf(page.a))
    BY <1>1, <1>3, <1>5, <1>7, <2>1, PageNumbers
  <2>2. CASE Picked = page.b /\ ValidSlot(page.b) /\ (ValidSlot(page.a) => CounterOf(page.a) < CounterOf(page.b))
    BY <1>1, <1>3, <1>5, <1>7, <2>2, PageNumbers
  <2>3. CounterOf(page.b) <= CounterOf(page.a) \/ CounterOf(page.a) < CounterOf(page.b)
        \/ ~(ValidSlot(page.a) /\ ValidSlot(page.b))
    BY <1>3
  <2> QED
    BY <1>1, <1>2, <1>7, <2>1, <2>2, <2>3 DEF Picked
<1> QED
  BY <1>6, <1>7

LEMMA StoredIsNext == StoredFacts'
  BY StoredIs, PTL

\* A slot that was blank is programmed, as far as it goes.
LEMMA SlotProgrammed ==
    ASSUME PageShape, NEW n \in 0..4, NEW s, NEW c \in 0..MaxCounter, StoredCounter <= c,
           \/ page.a = BlankSlot /\ page' = [page EXCEPT !.a = Slot(n, s, c)]
           \/ page.b = BlankSlot /\ page' = [page EXCEPT !.b = Slot(n, s, c)]
    PROVE  /\ PageShape' /\ StoredCounter <= StoredCounter'
           /\ n = 4 => StoredCounter' = c
           /\ n # 4 /\ Kept = {} => Kept' = {}
<1>1. /\ SlotInv(Slot(n, s, c)) /\ Slot(n, s, c).counter = c
      /\ ValidSlot(Slot(n, s, c)) <=> n = 4
  BY SlotIs, ValidIsWhole DEF AllWords
<1>2. ~ValidSlot(BlankSlot)
  BY SpareSlots
<1>3. CASE page.a = BlankSlot /\ page' = [page EXCEPT !.a = Slot(n, s, c)]
  <2>1. page'.a = Slot(n, s, c) /\ page'.b = page.b /\ page'.log = page.log
    BY <1>3 DEF PageShape
  <2>2. PageShape'
    BY <1>1, <1>3, <2>1 DEF PageShape
  <2> QED
    BY <1>1, <1>2, <1>3, <2>1, <2>2, StoredIs, StoredIsNext DEF StoredFacts, PageShape
<1>4. CASE page.b = BlankSlot /\ page' = [page EXCEPT !.b = Slot(n, s, c)]
  <2>1. page'.b = Slot(n, s, c) /\ page'.a = page.a /\ page'.log = page.log
    BY <1>4 DEF PageShape
  <2>2. PageShape'
    BY <1>1, <1>4, <2>1 DEF PageShape
  <2> QED
    BY <1>1, <1>2, <1>4, <2>1, <2>2, StoredIs, StoredIsNext DEF StoredFacts, PageShape
<1> QED
  BY <1>3, <1>4

\* The slots of the page are both spare.
LEMMA SlotsLost ==
    ASSUME page' = [a |-> page'.a, b |-> page'.b, log |-> page'.log],
           page'.a = page'.b, page'.a \in {BlankSlot, TornSlot}
    PROVE  PageShape' /\ Kept' = {} /\ StoredCounter' = 0
<1>1. PageShape'
  BY SpareSlots DEF PageShape
<1> QED
  BY <1>1, SpareSlots, StoredIsNext DEF StoredFacts, PageShape

\* The slots of the page are as they were.
LEMMA SlotsStay ==
    ASSUME PageShape, page' = page \/ \E l : page' = [page EXCEPT !.log = l]
    PROVE  /\ PageShape' /\ StoredCounter' = StoredCounter /\ Kept' = Kept
           /\ page'.a = page.a /\ page'.b = page.b
<1>1. page'.a = page.a /\ page'.b = page.b /\ page' = [a |-> page'.a, b |-> page'.b, log |-> page'.log]
  BY DEF PageShape
<1> QED
  BY <1>1 DEF PageShape, StoredCounter, Kept, Picked

\* A list that a call was given or has left.
IsPlan(p, n) == p = [i \in 1..n |-> p[i]] /\ Len(p) = n

LEMMA OnePlan ==
    ASSUME NEW x
    PROVE  IsPlan(<<x>>, 1) /\ <<x>>[1] = x /\ <<x>> # <<>>
  BY DEF IsPlan

LEMMA TwoPlan ==
    ASSUME NEW x, NEW y
    PROVE  IsPlan(<<x, y>>, 2) /\ <<x, y>>[1] = x /\ <<x, y>>[2] = y /\ <<x, y>> # <<>>
  BY DEF IsPlan

LEMMA ThreePlan ==
    ASSUME NEW x, NEW y, NEW z
    PROVE  /\ IsPlan(<<x, y, z>>, 3) /\ <<x, y, z>> # <<>>
           /\ <<x, y, z>>[1] = x /\ <<x, y, z>>[2] = y /\ <<x, y, z>>[3] = z
  BY DEF IsPlan

LEMMA NoneLeft ==
    ASSUME NEW S, NEW s \in Seq(S), Len(s) = 0
    PROVE  s = <<>>
  BY EmptySeq

\* What is left of a list when its first operation is done.
LEMMA RestOfPlan ==
    ASSUME NEW p, NEW n \in 1..3, IsPlan(p, n)
    PROVE  /\ Head(p) = p[1] /\ p # <<>>
           /\ IsPlan(Tail(p), n - 1) /\ \A i \in 1..(n - 1) : Tail(p)[i] = p[i + 1]
           /\ n = 1 => Tail(p) = <<>>
<1> DEFINE S == {p[i] : i \in 1..n}
<1>1. p \in Seq(S)
  <2>1. p \in [1..n -> S] /\ n \in Nat
    BY DEF IsPlan
  <2> QED
    BY <2>1
<1>2. Len(p) = n
  BY DEF IsPlan
<1> HIDE DEF S
<1>3. p # <<>>
  BY <1>1, <1>2
<1>4. Tail(p) \in Seq(S) /\ Len(Tail(p)) = n - 1
  BY <1>1, <1>2, <1>3
<1>5. Head(p) = p[1]
  BY <1>1, <1>2
<1>8. \A i \in 1..(n - 1) : Tail(p)[i] = p[i + 1]
  BY <1>1, <1>2, <1>3
<1>6. ASSUME n = 1 PROVE Tail(p) = <<>>
  <2>1. Len(Tail(p)) = 0
    BY <1>4, <1>6
  <2> QED
    BY <1>4, <2>1, NoneLeft
<1>7. Tail(p) = [i \in 1..(n - 1) |-> Tail(p)[i]]
  <2>1. Tail(p) \in [1..(n - 1) -> S]
    BY <1>4, LenProperties
  <2> QED
    BY <2>1
<1> QED
  BY <1>3, <1>4, <1>5, <1>6, <1>7, <1>8 DEF IsPlan

LEMMA Joined ==
    ASSUME NEW a, NEW b, NEW c
    PROVE  <<a>> \o <<b>> = <<a, b>> /\ <<a, b>> \o <<c>> = <<a, b, c>>
<1> DEFINE S == {a, b, c}
<1>1. /\ <<a>> \in Seq(S) /\ <<b>> \in Seq(S) /\ <<c>> \in Seq(S)
      /\ <<a, b>> \in Seq(S) /\ <<a, b, c>> \in Seq(S)
  OBVIOUS
<1>2. /\ <<a>> \o <<b>> \in Seq(S) /\ Len(<<a>> \o <<b>>) = 2
      /\ \A i \in 1..2 : (<<a>> \o <<b>>)[i] = <<a, b>>[i]
  BY <1>1, ConcatProperties
<1>3. /\ <<a, b>> \o <<c>> \in Seq(S) /\ Len(<<a, b>> \o <<c>>) = 3
      /\ \A i \in 1..3 : (<<a, b>> \o <<c>>)[i] = <<a, b, c>>[i]
  BY <1>1, ConcatProperties
<1>4. <<a>> \o <<b>> = <<a, b>>
  BY <1>1, <1>2, SeqEqual
<1>5. <<a, b>> \o <<c>> = <<a, b, c>>
  BY <1>1, <1>3, SeqEqual
<1> QED
  BY <1>4, <1>5

LEMMA EmptyJoined ==
    ASSUME NEW a, NEW b
    PROVE  <<a>> \o <<>> = <<a>> /\ <<a, b>> \o <<>> = <<a, b>>
  OBVIOUS

LEMMA InitSerial == PageInit => SerialInv
<1> SUFFICES ASSUME PageInit PROVE SerialInv
  OBVIOUS
<1>1. page = EmptyPage /\ todo = <<>> /\ storing = NoCommand /\ told = NoCommand /\ lost = FALSE
  BY DEF PageInit
<1>2. PageShape
  BY <1>1, SpareSlots DEF PageShape, EmptyPage
<1>3. PlanInv
  BY <1>1 DEF PlanInv
<1> QED
  BY <1>1, <1>2, <1>3 DEF SerialInv, ToldInv

LEMMA Operations ==
    /\ ErasePage.op = "erase"
    /\ \A where, s, c : /\ Program(where, s, c).op = where /\ Program(where, s, c).serial = s
                        /\ Program(where, s, c).counter = c
    /\ \A m : AppendRecord(m).op = "log"
  BY DEF ErasePage, Program, AppendRecord

\* A call gives a list of operations: what is confirmed is on the page when it
\* starts.
LEMMA CallKeeps ==
    ASSUME SerialInv, Idle, UNCHANGED <<page, told, lost>>, PlanInv'
    PROVE  SerialInv'
<1>1. StoredCounter' = StoredCounter /\ PageShape'
  BY DEF StoredCounter, Kept, Picked, SerialInv, PageShape
<1>2. ToldInv'
  BY <1>1 DEF SerialInv, ToldInv, Idle
<1> QED
  BY <1>1, <1>2 DEF SerialInv

\* A call that writes a slot: what it carries on, or a command that is newer
\* than what is stored.
LEMMA WritePlan ==
    ASSUME PageShape, UNCHANGED page, NEW s, NEW c \in 0..MaxCounter, StoredCounter <= c,
           storing' = NoCommand \/ storing' = [serial |-> s, counter |-> c],
           \/ todo' = <<Program("a", s, c)>> /\ page.a = BlankSlot
           \/ todo' = <<Program("b", s, c)>> /\ page.b = BlankSlot
           \/ todo' = <<ErasePage, Program("a", s, c)>>
           \/ \E m : todo' = <<ErasePage, Program("a", s, c), AppendRecord(m)>>
    PROVE  PlanInv'
<1>1. StoredCounter' = StoredCounter
  BY DEF StoredCounter, Kept, Picked
<1>2. ASSUME NEW where \in {"a", "b"}, NEW o, o = Program(where, s, c)
      PROVE  o = Program(o.op, o.serial, o.counter) /\ o.op = where
             /\ o.counter \in 0..MaxCounter /\ StoredCounter' <= o.counter
             /\ (storing' # NoCommand => storing' = [serial |-> o.serial, counter |-> o.counter])
  BY <1>1, <1>2, Operations
<1>3. CASE \E where \in {"a", "b"} : /\ todo' = <<Program(where, s, c)>>
                                    /\ IF where = "a" THEN page.a = BlankSlot ELSE page.b = BlankSlot
  <2>1. PICK where \in {"a", "b"} : /\ todo' = <<Program(where, s, c)>>
                                    /\ IF where = "a" THEN page.a = BlankSlot ELSE page.b = BlankSlot
    BY <1>3
  <2>2. IsPlan(todo', 1) /\ todo'[1] = Program(where, s, c) /\ todo' # <<>>
    BY <2>1, OnePlan
  <2> QED
    BY <1>2, <2>1, <2>2 DEF PlanInv, IsPlan, EndsAfter, SlotWrite
<1>4. CASE todo' = <<ErasePage, Program("a", s, c)>>
  <2>1. IsPlan(todo', 2) /\ todo'[1] = ErasePage /\ todo'[2] = Program("a", s, c)
    BY <1>4, TwoPlan
  <2> QED
    BY <1>2, <2>1 DEF PlanInv, IsPlan, EndsAfter, SlotWrite
<1>5. CASE \E m : todo' = <<ErasePage, Program("a", s, c), AppendRecord(m)>>
  <2>1. PICK m : todo' = <<ErasePage, Program("a", s, c), AppendRecord(m)>>
    BY <1>5
  <2>2. /\ IsPlan(todo', 3) /\ todo'[1] = ErasePage /\ todo'[2] = Program("a", s, c)
        /\ todo'[3] = AppendRecord(m)
    BY <2>1, ThreePlan
  <2> QED
    BY <1>2, <2>2, Operations DEF PlanInv, IsPlan, EndsAfter, SlotWrite
<1> QED
  BY <1>3, <1>4, <1>5

LEMMA SerialCommandKeeps == ASSUME SerialInv, SerialCommand PROVE SerialInv'
<1>1. PICK c \in Command :
        /\ Decide(c) = "ok"
        /\ storing' = [serial |-> c.serial, counter |-> c.counter]
        /\ todo' = SerialStore(c.serial, c.counter)
  BY DEF SerialCommand
<1>2. Idle /\ UNCHANGED <<page, told, lost>> /\ PageShape
  BY DEF SerialCommand, SerialInv
<1>3. c.counter \in 0..MaxCounter
  BY DEF Command
<1>4. ~(c.counter <= StoredCounter)
  BY <1>1 DEF Decide
<1>5. StoredCounter <= c.counter
  BY <1>2, <1>3, <1>4, StoredIs, PageNumbers DEF StoredFacts, PageShape
<1>6. \/ todo' = <<Program("a", c.serial, c.counter)>> /\ page.a = BlankSlot
      \/ todo' = <<Program("b", c.serial, c.counter)>> /\ page.b = BlankSlot
      \/ todo' = <<ErasePage, Program("a", c.serial, c.counter)>>
      \/ \E m : todo' = <<ErasePage, Program("a", c.serial, c.counter), AppendRecord(m)>>
  <2>1. CASE page.a = BlankSlot \/ page.b = BlankSlot
    BY <1>1, <2>1 DEF SerialStore
  <2>2. CASE page.a # BlankSlot /\ page.b # BlankSlot
    <3> DEFINE first == Program("a", c.serial, c.counter)
               last  == AppendRecord(NewestMeta)
    <3>1. todo' = <<ErasePage, first>> \o (IF HasMeta THEN <<last>> ELSE <<>>)
      BY <1>1, <2>2 DEF SerialStore
    <3>2. /\ <<ErasePage, first>> \o <<>> = <<ErasePage, first>>
          /\ <<ErasePage, first>> \o <<last>> = <<ErasePage, first, last>>
      <4> HIDE DEF first, last
      <4>1. <<ErasePage, first>> \o <<>> = <<ErasePage, first>>
        BY EmptyJoined
      <4>2. <<ErasePage, first>> \o <<last>> = <<ErasePage, first, last>>
        BY Joined
      <4> QED
        BY <4>1, <4>2
    <3>3. todo' = <<ErasePage, first>> \/ todo' = <<ErasePage, first, last>>
      <4> HIDE DEF first, last
      <4>1. CASE HasMeta
        BY <3>1, <3>2, <4>1
      <4>2. CASE ~HasMeta
        BY <3>1, <3>2, <4>2
      <4> QED
        BY <4>1, <4>2
    <3>4. todo' = <<ErasePage, first, last>> =>
            \E m : todo' = <<ErasePage, Program("a", c.serial, c.counter), AppendRecord(m)>>
      OBVIOUS
    <3> QED
      BY <3>3, <3>4
  <2> QED
    BY <2>1, <2>2
<1>7. PlanInv'
  BY <1>1, <1>2, <1>3, <1>5, <1>6, WritePlan
<1> QED
  BY <1>2, <1>7, CallKeeps

LEMMA MetadataCommandKeeps == ASSUME SerialInv, MetadataCommand PROVE SerialInv'
<1>1. PICK m \in MetaState : todo' = MetadataWrite(m)
  BY DEF MetadataCommand
<1>2. Idle /\ UNCHANGED <<page, told, lost, storing>> /\ storing = NoCommand /\ PageShape
  BY DEF MetadataCommand, SerialInv, PlanInv, Idle, EndsAfter
<1>3. CASE todo' = <<>>
  BY <1>2, <1>3, CallKeeps DEF PlanInv
<1>4. CASE todo' = <<AppendRecord(m)>>
  <2>1. IsPlan(todo', 1) /\ todo'[1] = AppendRecord(m)
    BY <1>4, OnePlan
  <2>2. PlanInv'
    BY <1>2, <2>1, Operations DEF PlanInv, IsPlan
  <2> QED
    BY <1>2, <2>2, CallKeeps
<1>5. CASE todo' = RecycledLog(m)
  <2>1. CASE Kept = {}
    <3>1. todo' = <<ErasePage, AppendRecord(m)>>
      <4>1. todo' = (<<ErasePage>> \o <<>>) \o <<AppendRecord(m)>>
        BY <1>5, <2>1 DEF RecycledLog
      <4>2. <<ErasePage>> \o <<>> = <<ErasePage>>
        BY EmptyJoined
      <4> QED
        BY <4>1, <4>2, Joined
    <3>2. IsPlan(todo', 2) /\ todo'[1] = ErasePage /\ todo'[2] = AppendRecord(m)
      BY <3>1, TwoPlan
    <3>3. Kept' = {}
      BY <1>2, <2>1 DEF Kept
    <3>4. PlanInv'
      BY <1>2, <3>2, <3>3, Operations DEF PlanInv, IsPlan
    <3> QED
      BY <1>2, <3>4, CallKeeps
  <2>2. CASE Kept # {}
    <3>1. todo' = <<ErasePage, Program("a", Picked.serial, CounterOf(Picked)), AppendRecord(m)>>
      <4>1. todo' = (<<ErasePage>> \o <<Program("a", Picked.serial, CounterOf(Picked))>>)
                      \o <<AppendRecord(m)>>
        BY <1>5, <2>2 DEF RecycledLog
      <4> QED
        BY <4>1, Joined
    <3>2. CounterOf(Picked) = StoredCounter /\ StoredCounter \in 0..MaxCounter
      BY <1>2, <2>2, StoredIs DEF StoredFacts, PageShape
    <3>3. PlanInv'
      BY <1>2, <3>1, <3>2, WritePlan
    <3> QED
      BY <1>2, <3>3, CallKeeps
  <2> QED
    BY <2>1, <2>2
<1> QED
  BY <1>1, <1>3, <1>4, <1>5 DEF MetadataWrite

\* What a call under way has left, operation by operation.
LEMMA PlanLeft ==
    ASSUME SerialInv, ~Idle
    PROVE  /\ Len(todo) \in 1..3 /\ Head(todo) = todo[1]
           /\ IsPlan(Tail(todo), Len(todo) - 1)
           /\ \A i \in 1..(Len(todo) - 1) : Tail(todo)[i] = todo[i + 1]
           /\ Len(todo) = 1 => Tail(todo) = <<>>
<1>1. todo # <<>> /\ Len(todo) \in 0..3 /\ todo = [i \in 1..Len(todo) |-> todo[i]]
  BY DEF Idle, SerialInv, PlanInv
<1>2. Len(todo) \in 1..3
  <2>1. todo \in [1..Len(todo) -> {todo[i] : i \in 1..Len(todo)}]
    BY <1>1
  <2>2. todo \in Seq({todo[i] : i \in 1..Len(todo)})
    BY <1>1, <2>1
  <2>3. Len(todo) # 0
    BY <1>1, <2>2, NoneLeft
  <2> QED
    BY <1>1, <2>3
<1>3. IsPlan(todo, Len(todo))
  BY <1>1 DEF IsPlan
<1> QED
  BY <1>2, <1>3, RestOfPlan

LEMMA FirstOperation ==
    ASSUME SerialInv, ~Idle
    PROVE  \/ Head(todo).op = "log"
           \/ Head(todo) = ErasePage
           \/ SlotWrite(Head(todo)) /\ Head(todo).op = "a" /\ page.a = BlankSlot
           \/ SlotWrite(Head(todo)) /\ Head(todo).op = "b" /\ page.b = BlankSlot
  BY PlanLeft DEF SerialInv, PlanInv, Idle

\* The four words of a slot go to one that is blank.
LEMMA SlotDone ==
    ASSUME PageShape, NEW o, NEW n \in 0..4, SlotWrite(o),
           \/ o.op = "a" /\ page.a = BlankSlot
              /\ page' = [page EXCEPT !.a = Slot(n, o.serial, o.counter)]
           \/ o.op = "b" /\ page.b = BlankSlot
              /\ page' = [page EXCEPT !.b = Slot(n, o.serial, o.counter)]
    PROVE  /\ PageShape' /\ StoredCounter <= StoredCounter'
           /\ o.counter \in 0..MaxCounter
           /\ n = 4 => StoredCounter' = o.counter
           /\ n # 4 /\ Kept = {} => Kept' = {}
<1>1. o.counter \in 0..MaxCounter /\ StoredCounter <= o.counter
  BY DEF SlotWrite
<1> QED
  BY <1>1, SlotProgrammed

LEMMA FlashStepKeeps == ASSUME SerialInv, FlashStep PROVE SerialInv'
<1> DEFINE n == Len(todo)
<1>1. /\ n \in 1..3 /\ Head(todo) = todo[1]
      /\ IsPlan(todo', n - 1) /\ \A i \in 1..(n - 1) : todo'[i] = todo[i + 1]
      /\ n = 1 => todo' = <<>>
      /\ page' = Done(todo[1])
  BY PlanLeft DEF FlashStep
<1>2. IF n = 1 /\ storing # NoCommand
      THEN told' = storing /\ lost' = FALSE /\ storing' = NoCommand
      ELSE told' = told /\ lost' = lost /\ storing' = storing
  BY DEF FlashStep
<1>3. PageShape /\ PlanInv /\ ToldInv /\ todo # <<>>
  BY DEF SerialInv, FlashStep, Idle
<1>4. StoredFacts /\ StoredFacts'
  BY StoredIs, StoredIsNext
<1>5. StoredCounter \in 0..MaxCounter
  BY <1>3, <1>4 DEF StoredFacts, PageShape
<1>6. /\ Len(todo') = n - 1 /\ Len(todo') \in 0..3
      /\ todo' = [i \in 1..Len(todo') |-> todo'[i]]
  BY <1>1 DEF IsPlan
<1>7. CASE n = 1 /\ todo[1].op = "log" /\ (storing # NoCommand => storing.counter \in 0..StoredCounter)
  <2>1. page' = [page EXCEPT !.log = Append(@, todo[1].meta)]
    BY <1>1, <1>7 DEF Done
  <2>2. PageShape' /\ StoredCounter' = StoredCounter
    BY <1>3, <2>1, SlotsStay
  <2>3. PlanInv'
    BY <1>1, <1>2, <1>6, <1>7 DEF PlanInv
  <2>4. ToldInv'
    <3>1. CASE storing # NoCommand
      BY <1>2, <1>5, <1>7, <2>2, <3>1, PageNumbers DEF ToldInv
    <3>2. CASE storing = NoCommand
      BY <1>2, <1>3, <1>7, <2>2, <3>2 DEF ToldInv
    <3> QED
      BY <3>1, <3>2
  <2> QED
    BY <2>2, <2>3, <2>4 DEF SerialInv
<1>8. CASE /\ n = 2 /\ todo[1] = ErasePage /\ todo[2].op = "log"
           /\ storing = NoCommand /\ Kept = {}
  <2>1. page' = EmptyPage
    BY <1>1, <1>8, Operations DEF Done
  <2>2. PageShape' /\ StoredCounter' = 0
    BY <2>1, SlotsLost DEF EmptyPage
  <2>3. todo'[1].op = "log"
    BY <1>1, <1>8
  <2>4. storing' = NoCommand /\ told' = told /\ lost' = lost
    BY <1>2, <1>8
  <2>5. PlanInv'
    BY <1>6, <1>8, <2>3, <2>4 DEF PlanInv
  <2>6. StoredCounter = 0 /\ todo[1].op # "a"
    BY <1>3, <1>4, <1>8, Operations DEF StoredFacts, PageShape
  <2>7. ToldInv'
    BY <1>3, <2>2, <2>4, <2>6 DEF ToldInv
  <2> QED
    BY <2>2, <2>5, <2>7 DEF SerialInv
<1>9. CASE /\ EndsAfter(1) /\ SlotWrite(todo[1])
           /\ \/ todo[1].op = "a" /\ page.a = BlankSlot
              \/ todo[1].op = "b" /\ page.b = BlankSlot
  <2> DEFINE o == todo[1]
  <2>1. \/ o.op = "a" /\ page' = [page EXCEPT !.a = Slot(4, o.serial, o.counter)]
        \/ o.op = "b" /\ page' = [page EXCEPT !.b = Slot(4, o.serial, o.counter)]
    BY <1>1, <1>9 DEF Done
  <2>2. PageShape' /\ StoredCounter' = o.counter /\ o.counter \in 0..MaxCounter
        /\ StoredCounter <= StoredCounter'
    BY <1>3, <1>9, <2>1, SlotDone
  <2>3. storing # NoCommand => storing.counter = o.counter
    BY <1>9 DEF SlotWrite
  <2>4. n = 1 \/ (n = 2 /\ todo'[1].op = "log")
    <3>1. n = 1 \/ (n = 2 /\ todo[2].op = "log")
      BY <1>9 DEF EndsAfter
    <3>2. n = 2 => todo'[1] = todo[2]
      BY <1>1
    <3> QED
      BY <3>1, <3>2
  <2>5. PlanInv'
    <3>1. CASE n = 1
      BY <1>1, <1>2, <1>6, <3>1 DEF PlanInv
    <3>2. CASE n = 2 /\ todo'[1].op = "log"
      <4>1. storing' # NoCommand => storing'.counter \in 0..StoredCounter'
        BY <1>2, <2>2, <2>3, <3>2
      <4> QED
        BY <1>6, <3>2, <4>1 DEF PlanInv
    <3> QED
      BY <2>4, <3>1, <3>2
  <2>6. ToldInv'
    <3>1. CASE n = 1 /\ storing # NoCommand
      <4>1. told'.counter = o.counter
        BY <1>2, <2>3, <3>1
      <4> QED
        BY <2>2, <4>1, PageNumbers DEF ToldInv
    <3>2. CASE ~(n = 1 /\ storing # NoCommand)
      <4>1. told' = told /\ lost' = lost
        BY <1>2, <3>2
      <4>2. told # NoCommand /\ ~lost => told.counter \in 0..MaxCounter /\ o.counter >= told.counter
        BY <1>3, <1>5, <2>2, PageNumbers DEF ToldInv
      <4> QED
        BY <2>2, <4>1, <4>2 DEF ToldInv
    <3> QED
      BY <3>1, <3>2
  <2> QED
    BY <2>2, <2>5, <2>6 DEF SerialInv
<1>10. CASE /\ n > 1 /\ EndsAfter(2) /\ todo[1] = ErasePage
            /\ SlotWrite(todo[2]) /\ todo[2].op = "a"
  <2> DEFINE o == todo[2]
  <2>1. page' = EmptyPage
    BY <1>1, <1>10, Operations DEF Done
  <2>2. PageShape' /\ StoredCounter' = 0 /\ Kept' = {} /\ page'.a = BlankSlot
    BY <2>1, SlotsLost DEF EmptyPage
  <2>3. todo'[1] = o
    BY <1>1, <1>10
  <2>4. o.counter \in 0..MaxCounter /\ StoredCounter <= o.counter
    BY <1>10 DEF SlotWrite
  <2>5. storing' = storing /\ told' = told /\ lost' = lost
    BY <1>2, <1>10
  <2>6. SlotWrite(todo[1])'
    BY <1>10, <2>2, <2>3, <2>4, <2>5 DEF SlotWrite
  <2>7. n \in 2..3 /\ (n = 3 => todo'[2].op = "log")
    <3>1. n = 2 \/ (n = 3 /\ todo[3].op = "log")
      BY <1>10 DEF EndsAfter
    <3>2. n = 3 => todo'[2] = todo[3]
      BY <1>1
    <3> QED
      BY <3>1, <3>2
  <2>8. todo' # <<>> /\ EndsAfter(1)'
    <3>1. n = 2 \/ n = 3
      BY <2>7
    <3>2. Len(todo') = n - 1
      BY <1>6
    <3>3. Len(todo') = 1 \/ Len(todo') = 2
      BY <3>1, <3>2
    <3>4. todo' # <<>>
      BY <3>3
    <3>5. Len(todo') = 2 => n = 3
      BY <3>1, <3>2
    <3>6. Len(todo') = 1 \/ (Len(todo') = 2 /\ todo'[2].op = "log")
      BY <2>7, <3>3, <3>5
    <3> QED
      BY <3>4, <3>6 DEF EndsAfter
  <2>9. PlanInv'
    BY <1>6, <1>10, <2>2, <2>3, <2>6, <2>8 DEF PlanInv
  <2>10. todo[1].op # "a"
    BY <1>10, Operations
  <2>11. told # NoCommand /\ ~lost => told.counter \in 0..MaxCounter /\ o.counter >= told.counter
    BY <1>3, <1>5, <2>4, <2>10, PageNumbers DEF ToldInv
  <2>12. ToldInv'
    BY <1>10, <2>2, <2>3, <2>5, <2>8, <2>11 DEF ToldInv
  <2> QED
    BY <2>2, <2>9, <2>12 DEF SerialInv
<1> QED
  BY <1>3, <1>7, <1>8, <1>9, <1>10 DEF PlanInv

\* A cut or an error of the flash, wherever it falls.
LEMMA CutKeeps ==
    ASSUME SerialInv, CallBroken,
           page' = page \/ (~Idle /\ page' \in PartOf(Head(todo)))
    PROVE  SerialInv'
<1> DEFINE o == Head(todo)
<1>1. PageShape /\ ToldInv
  BY DEF SerialInv
<1>2. StoredCounter \in 0..MaxCounter
  BY <1>1, StoredIs DEF StoredFacts, PageShape
<1>3. PlanInv'
  BY DEF PlanInv, CallBroken
<1>4. ASSUME PageShape',
             told # NoCommand /\ ~lost /\ (Recycling => Kept' # {}) => StoredCounter' >= told.counter
      PROVE  SerialInv'
  <2>1. told' = told /\ (~lost' => ~lost /\ (Recycling => Kept' # {}))
    BY DEF CallBroken
  <2>2. ToldInv'
    BY <1>1, <1>4, <2>1 DEF ToldInv
  <2> QED
    BY <1>3, <1>4, <2>2 DEF SerialInv
<1>5. CASE page' = page \/ \E l : page' = [page EXCEPT !.log = l]
  <2>1. PageShape' /\ StoredCounter' = StoredCounter /\ Kept' = Kept
    BY <1>1, <1>5, SlotsStay
  <2>2. Kept = {} /\ todo # <<>> => Recycling
    BY DEF Recycling, Idle
  <2> QED
    BY <1>1, <1>4, <2>1, <2>2 DEF ToldInv
<1>6. CASE ~Idle /\ o = ErasePage /\ page' = TornPageOf(page)
  <2>1. PageShape' /\ Kept' = {}
    BY <1>6, SlotsLost DEF TornPageOf
  <2>2. Recycling
    BY <1>6 DEF Recycling
  <2> QED
    BY <1>4, <2>1, <2>2
<1>7. CASE /\ ~Idle /\ SlotWrite(o)
           /\ \/ o.op = "a" /\ page.a = BlankSlot
              \/ o.op = "b" /\ page.b = BlankSlot
           /\ page' \in PartOf(o)
  <2>1. PICK n \in 0..4 :
          \/ o.op = "a" /\ page' = [page EXCEPT !.a = Slot(n, o.serial, o.counter)]
          \/ o.op = "b" /\ page' = [page EXCEPT !.b = Slot(n, o.serial, o.counter)]
    BY <1>7 DEF PartOf
  <2>2. /\ PageShape' /\ StoredCounter <= StoredCounter' /\ o.counter \in 0..MaxCounter
        /\ n = 4 => StoredCounter' = o.counter
        /\ n # 4 /\ Kept = {} => Kept' = {}
    BY <1>1, <1>7, <2>1, SlotDone
  <2>3. StoredCounter' \in 0..MaxCounter
    BY <2>2, StoredIsNext DEF StoredFacts, PageShape
  <2>4. o = todo[1] /\ (Kept = {} => Recycling)
    BY <1>7, PlanLeft DEF Recycling
  <2>5. CASE told # NoCommand /\ ~lost /\ StoredCounter >= told.counter
    BY <1>1, <1>2, <1>4, <2>2, <2>3, <2>5, PageNumbers DEF ToldInv
  <2>6. CASE Kept = {} /\ o.counter >= told.counter
    BY <1>4, <2>2, <2>4, <2>6
  <2> QED
    BY <1>1, <1>4, <2>2, <2>4, <2>5, <2>6 DEF ToldInv
<1> QED
  <2>1. CASE page' = page
    BY <1>5, <2>1
  <2>2. CASE ~Idle /\ page' \in PartOf(o)
    <3>1. CASE o.op = "log"
      BY <1>5, <2>2, <3>1 DEF PartOf
    <3>2. CASE o = ErasePage
      BY <1>5, <1>6, <2>2, <3>2, Operations DEF PartOf
    <3> QED
      BY <1>7, <2>2, <3>1, <3>2, FirstOperation
  <2> QED
    BY <2>1, <2>2

LEMMA SerialInvKept == SerialInv /\ [PageNext]_pageVars => SerialInv'
<1> SUFFICES ASSUME SerialInv, [PageNext]_pageVars PROVE SerialInv'
  OBVIOUS
<1>1. CASE FlashError
  BY <1>1, CutKeeps DEF FlashError
<1>2. CASE PageCut
  <2>1. /\ CallBroken
        /\ page' \in IF Idle THEN {page} ELSE PartOf(Head(todo))
    BY <1>2 DEF PageCut
  <2> QED
    BY <2>1, CutKeeps
<1>3. ASSUME UNCHANGED <<page, todo, storing, told, lost>> PROVE SerialInv'
  BY <1>3 DEF SerialInv, PageShape, PlanInv, ToldInv, SlotWrite, EndsAfter, StoredCounter, Kept, Picked
<1>4. CASE RotationCommand \/ UpdateStarts \/ UpdateEnds \/ Second \/ UNCHANGED pageVars
  <2>1. UNCHANGED <<page, todo, storing, told, lost>>
    BY <1>4 DEF RotationCommand, UpdateStarts, UpdateEnds, Second, pageVars
  <2> QED
    BY <1>3, <2>1
<1> QED
  BY <1>1, <1>2, <1>4, SerialCommandKeeps, MetadataCommandKeeps, FlashStepKeeps DEF PageNext

\* The serial number of a master bootloader, for any serials, counters and
\* length of the log: a record that is believed is whole, and the page never
\* holds less than the last command confirmed, but after a cut or an error that
\* found it being recycled, between the erase and the slot written next
\* (Serial_Store, Metadata_EraseAndWrite, urtc_serial_pick).
THEOREM SerialsAreKept == PageSpec => []SerialKept
<1>1. SerialInv => SerialKept
  <2> SUFFICES ASSUME SerialInv PROVE SerialKept
    OBVIOUS
  <2>1. \A s \in Kept : s.words = ToSet(SlotOrder)
    <3>1. ToSet(SlotOrder) = AllWords
      BY DEF ToSet, SlotOrder, AllWords
    <3> QED
      BY <3>1, ValidIsWhole DEF SerialInv, PageShape, Kept
  <2>2. Idle /\ told # NoCommand => StoredCounter >= told.counter \/ lost
    BY DEF SerialInv, ToldInv, Idle
  <2> QED
    BY <2>1, <2>2 DEF SerialKept
<1> QED
  BY <1>1, InitSerial, SerialInvKept, PTL DEF PageSpec

-----------------------------------------------------------------------------
(* The bootloader: the rotation of the key                                 *)

LEMMA Remainder ==
    ASSUME NEW w \in Nat \ {0}, NEW r \in 0..(w - 1)
    PROVE  r % w = r /\ (w + r) % w = r /\ (r - w) % w = r
<1>1. r % w = r
  OBVIOUS
<1>2. (w + r) % w = r
  OBVIOUS
<1>3. (r - w) % w = r
  OBVIOUS
<1> QED
  BY <1>1, <1>2, <1>3

\* The clock of the host goes on with the uptime until it wraps.
LEMMA HostClock ==
    ASSUME NEW w \in Nat \ {0}, NEW s \in 0..(w - 1), NEW u \in 0..(w - 1), NEW at \in 0..u,
           NEW now, now = (u + ((s - at) % w)) % w
    PROVE  now = s + (u - at) \/ (now = s + (u - at) - w /\ now < s)
<1> DEFINE o == (s - at) % w
           e == u - at
<1>1. o = s - at \/ o = s - at + w
  <2>1. CASE s >= at
    <3>1. s - at \in 0..(w - 1)
      BY <2>1
    <3> QED
      BY <3>1, Remainder
  <2>2. CASE s < at
    <3>1. w + (s - at) \in 0..(w - 1) /\ (w + (s - at)) - w = s - at
      BY <2>2
    <3> QED
      BY <3>1, Remainder
  <2> QED
    BY <2>1, <2>2
<1>2. e \in 0..(w - 1) /\ s + e \in Nat /\ s + e < 2 * w
  OBVIOUS
<1>3. (s + e) % w = IF s + e < w THEN s + e ELSE s + e - w
  <2> DEFINE x == s + e
  <2>1. x \in Nat /\ x < 2 * w
    BY <1>2
  <2> HIDE DEF x
  <2>2. CASE x < w
    <3>1. x \in 0..(w - 1)
      BY <2>1, <2>2
    <3>2. x % w = x
      BY <3>1, Remainder
    <3> QED
      BY <2>2, <3>2 DEF x
  <2>3. CASE ~(x < w)
    <3>1. x - w \in 0..(w - 1) /\ w + (x - w) = x
      BY <2>1, <2>3
    <3>2. x % w = x - w
      BY <3>1, Remainder
    <3> QED
      BY <2>3, <3>2 DEF x
  <2> QED
    BY <2>2, <2>3
<1>4. CASE o = s - at
  <2>1. now = (s + e) % w
    BY <1>4
  <2> QED
    BY <1>2, <1>3, <2>1
<1>5. CASE o = s - at + w
  <2>1. o \in 0..(w - 1)
    OBVIOUS
  <2>2. s - at < 0 /\ s + e \in 0..(w - 1)
    BY <1>5, <2>1
  <2>3. now = (w + (s + e)) % w
    BY <1>5
  <2> QED
    BY <2>2, <2>3, Remainder
<1> QED
  BY <1>1, <1>4, <1>5

LEMMA InitRotation == PageInit => RotationInv
<1> SUFFICES ASSUME PageInit PROVE RotationInv
  OBVIOUS
<1>1. uptime = 0 /\ rot.previous = NoKey
  BY DEF PageInit, Loaded, NoRotation
<1> QED
  BY <1>1, PageNumbers DEF RotationInv

LEMMA RotationInvKept == RotationInv /\ [PageNext]_pageVars => RotationInv'
<1> SUFFICES ASSUME RotationInv, [PageNext]_pageVars PROVE RotationInv'
  OBVIOUS
<1>1. CASE PageCut
  <2>1. uptime' = 0 /\ rot'.previous = NoKey
    BY <1>1 DEF PageCut, Loaded, NoRotation
  <2> QED
    BY <2>1, PageNumbers DEF RotationInv
<1>2. CASE RotationCommand
  <2>1. PICK r \in RotationRecord : rot' = Rotated(r) /\ began' = Began(r.window)
    BY <1>2 DEF RotationCommand
  <2>2. uptime' = uptime /\ uptime \in 0..MaxUptime
    BY <1>2 DEF RotationCommand, RotationInv
  <2>3. r.window \in Nat /\ r.time \in 0..(Wrap - 1)
    BY PageNumbers DEF RotationRecord
  <2>4. began'.at = uptime /\ began'.window = r.window
    BY <2>1 DEF Began
  <2>5. /\ rot'.previous # NoKey => rot'.window = r.window
        /\ rot'.started = r.time /\ rot'.offset = (r.time - uptime) % Wrap
    BY <2>1 DEF Rotated
  <2>6. uptime \in 0..uptime
    BY <2>2, PageNumbers
  <2> QED
    BY <2>2, <2>3, <2>4, <2>5, <2>6 DEF RotationInv
<1>3. CASE Second
  <2>1. /\ uptime \in 0..MaxUptime /\ uptime < MaxUptime /\ uptime' = uptime + 1
        /\ rot' = rot /\ began' = began
    BY <1>3 DEF Second, RotationInv
  <2>2. uptime' \in 0..MaxUptime
    BY <2>1, PageNumbers
  <2>3. began.at \in 0..uptime => began.at \in 0..uptime'
    BY <2>1, PageNumbers
  <2> QED
    BY <2>1, <2>2, <2>3 DEF RotationInv
<1>4. CASE \/ SerialCommand \/ MetadataCommand \/ FlashStep \/ FlashError
           \/ UpdateStarts \/ UpdateEnds \/ UNCHANGED pageVars
  <2>1. UNCHANGED <<uptime, rot, began>>
    BY <1>4 DEF SerialCommand, MetadataCommand, FlashStep, FlashError, UpdateStarts, UpdateEnds, pageVars
  <2> QED
    BY <2>1 DEF RotationInv
<1> QED
  BY <1>1, <1>2, <1>3, <1>4 DEF PageNext

\* The window of a rotation: for any trust tables, windows and times of the
\* host, the wrap of its clock included, a key that was replaced verifies
\* nothing once the window that its command gave is over by the uptime of the
\* bootloader, and what is announced is the time that is left (rot_now,
\* urtc_kr_in_window, Rotation_AcceptedKeys).
THEOREM PreviousKeyExpires == PageSpec => []PreviousExpires
<1>1. RotationInv => PreviousExpires
  <2> SUFFICES ASSUME RotationInv, build.rotation, rot.previous \in AcceptedKeys \ {rot.current}
               PROVE  /\ uptime < began.at + began.window
                      /\ Announced.left = began.at + began.window - uptime
    BY DEF PreviousExpires
  <2>1. PreviousActive
    BY DEF AcceptedKeys
  <2>2. rot.previous # NoKey /\ Now >= rot.started /\ Now - rot.started < rot.window
    BY <2>1 DEF PreviousActive, InWindow
  <2>3. /\ rot.window = began.window /\ began.window \in Nat /\ began.at \in 0..uptime
        /\ rot.started \in 0..(Wrap - 1) /\ rot.offset = (rot.started - began.at) % Wrap
        /\ uptime \in 0..MaxUptime
    BY <2>2 DEF RotationInv
  <2>4. Wrap \in Nat \ {0} /\ uptime \in 0..(Wrap - 1)
    BY <2>3, PageNumbers
  <2>5. Now = (uptime + ((rot.started - began.at) % Wrap)) % Wrap
    BY <2>3 DEF Now
  <2> DEFINE start == rot.started
             at == began.at
  <2>6. start \in 0..(Wrap - 1) /\ at \in 0..uptime /\ Now = (uptime + ((start - at) % Wrap)) % Wrap
    BY <2>3, <2>5
  <2> HIDE DEF Now, start, at
  <2>7. Now = start + (uptime - at) \/ (Now = start + (uptime - at) - Wrap /\ Now < start)
    BY <2>4, <2>6, HostClock
  <2>8. \/ Now = rot.started + (uptime - began.at)
        \/ Now = rot.started + (uptime - began.at) - Wrap /\ Now < rot.started
    BY <2>7 DEF start, at
  <2>9. Now = rot.started + (uptime - began.at)
    BY <2>2, <2>3, <2>4, <2>8
  <2>10. Announced.left = SecondsLeft
    BY <2>1 DEF Announced
  <2> QED
    BY <2>2, <2>3, <2>4, <2>9, <2>10 DEF SecondsLeft
<1> QED
  BY <1>1, InitRotation, RotationInvKept, PTL DEF PageSpec

=============================================================================
