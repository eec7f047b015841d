-------------------------- MODULE MasterBoot_proof --------------------------
(***************************************************************************)
(* Proofs about MasterBoot, for every set of images, size of the slots and *)
(* of the log, and bound on the environment.  IInv of MasterBoot is        *)
(* inductive: one lemma per action shows that it is preserved; the safety  *)
(* properties follow from it.  PendingInv, until the flash first errs, is   *)
(* the second invariant: the update is atomic.                             *)
(***************************************************************************)
EXTENDS MasterBoot, BootFlash_proof

-----------------------------------------------------------------------------
(* Values of the variables *)

\* What the variables hold when nothing is under way.
LEMMA RestingValues ==
    /\ NoMeta \in Meta /\ NoUpdate \in Update
    /\ ~NoUpdate.inProgress /\ ~NoUpdate.downgrade
    /\ NoFrame.version \in Versions
    /\ \A u \in Update : Fail(u) \in Update /\ ~Fail(u).inProgress
                         /\ Fail(u).downgrade = u.downgrade
<1>1. NoMeta \in Meta
  <2>1. [k \in 1..1 |-> Erased] \in Digests
    BY SlotSize DEF Digests, Content
  <2> QED
    BY <2>1, SlotSize, ImageAssumption DEF NoMeta, Meta
<1>2. NoUpdate \in Update
  BY SlotSize, ImageAssumption DEF NoUpdate, Update, NoRecord
<1>3. ~NoUpdate.inProgress /\ ~NoUpdate.downgrade
  BY DEF NoUpdate
<1>4. NoFrame.version \in Versions
  BY ImageAssumption DEF NoFrame
<1>5. ASSUME NEW u \in Update
      PROVE  Fail(u) \in Update /\ ~Fail(u).inProgress /\ Fail(u).downgrade = u.downgrade
  BY DEF Fail, Update
<1> QED
  BY <1>1, <1>2, <1>3, <1>4, <1>5

\* A step after which no update is in progress, the thread is where no flash
\* operation is under way, and what may run is what the log says.
LEMMA RestInv ==
    ASSUME IInv,
           pc' \in {"boot", "window", "listen", "app"}, then' = "none",
           cp' \in 0..AppPages, mrec' \in Meta, mgen' \in Nat,
           upd' \in Update, ~upd'.inProgress, upd'.downgrade => heard',
           frame'.version \in Versions,
           {appValid', unsafeOk', sessionWord', heard'} \subseteq BOOLEAN,
           starts' \in 0..MaxStarts, faults' \in 0..MaxFaults, cuts' \in 0..MaxCuts,
           main' \in Slot, backup' \in Slot,
           log' \in Log, LogShape(log'), RecordsAreVouched', RunInv'
    PROVE  IInv'
<1>1. TypeOK'
  BY DEF TypeOK
<1>2. MetaWriteInv' /\ CopyInv'
  BY DEF MetaWriteInv, CopyInv, WritesMeta, Copies
<1>3. ReceiveInv' /\ AuthorizationInv'
  BY DEF ReceiveInv, AuthorizationInv
<1> QED
  BY <1>1, <1>2, <1>3 DEF IInv

-----------------------------------------------------------------------------
(* The end of a metadata write or of a copy *)

\* OpenWindow keeps the invariant when what it declares valid is what the
\* newest record describes.
LEMMA OpenWindowInv ==
    ASSUME IInv, NEW valid \in BOOLEAN, OpenWindow(valid),
           ~upd.inProgress, UNCHANGED <<upd, frame, starts, cuts, heard>>,
           mgen' \in Nat, faults' \in 0..MaxFaults,
           main' \in Slot, backup' \in Slot,
           log' \in Log, LogShape(log'), RecordsAreVouched',
           valid => /\ HasRecord(log')
                    /\ ReadMeta(log').state = APP_VALID
                    /\ Digest(main', ReadMeta(log').size) = ReadMeta(log').digest
    PROVE  IInv'
<1>1. RunInv'
  BY DEF OpenWindow, RunInv, Matches
<1>2. unsafeOk' \in BOOLEAN /\ appValid' \in BOOLEAN /\ sessionWord' \in BOOLEAN
  BY DEF OpenWindow
<1>3. upd' \in Update /\ frame'.version \in Versions /\ heard' \in BOOLEAN
      /\ starts' \in 0..MaxStarts /\ cuts' \in 0..MaxCuts /\ (upd'.downgrade => heard')
  BY DEF IInv, TypeOK, AuthorizationInv
<1>4. mrec' \in Meta /\ cp' \in 0..AppPages /\ pc' = "window" /\ then' = "none"
  BY RestingValues, ImageAssumption DEF OpenWindow
<1> QED
  BY <1>1, <1>2, <1>3, <1>4, RestInv

\* A failure sends the thread to the listening loop with the attempt failed.
LEMMA FailInv ==
    ASSUME IInv, pc' = "listen", then' = "none", cp' \in 0..AppPages,
           upd' = Fail(upd), mrec' \in Meta, mgen' \in Nat,
           frame'.version \in Versions, UNCHANGED <<session, starts, cuts, heard>>,
           faults' \in 0..MaxFaults, main' \in Slot, backup' \in Slot,
           log' \in Log, LogShape(log'), RecordsAreVouched'
    PROVE  IInv'
<1>1. RunInv'
  BY DEF RunInv
<1>2. upd' \in Update /\ ~upd'.inProgress /\ (upd'.downgrade => heard')
  BY RestingValues DEF IInv, TypeOK, AuthorizationInv
<1>3. {appValid', unsafeOk', sessionWord', heard'} \subseteq BOOLEAN
      /\ starts' \in 0..MaxStarts /\ cuts' \in 0..MaxCuts
  BY DEF IInv, TypeOK, session
<1> QED
  BY <1>1, <1>2, <1>3, RestInv

\* The callers of Metadata_EraseAndWrite go on with the invariant, whatever
\* the write did to the log, provided that an ok means the record is in it.
LEMMA MetaWriteReturnsInv ==
    ASSUME IInv, WritesMeta, NEW ok \in BOOLEAN, MetaWriteReturns(ok),
           UNCHANGED <<main, backup, frame, starts, cuts, heard>>,
           faults' \in 0..MaxFaults,
           log' \in Log, LogShape(log'), RecordsAreVouched',
           ok => HasRecord(log') /\ ReadMeta(log') = mrec
    PROVE  IInv'
<1>1. /\ TypeOK /\ mgen' = 0
      /\ main' \in Slot /\ backup' \in Slot /\ frame'.version \in Versions
      /\ starts' \in 0..MaxStarts /\ cuts' \in 0..MaxCuts
      /\ heard' \in BOOLEAN /\ 0 \in 0..AppPages
  BY ImageAssumption DEF IInv, TypeOK, MetaWriteReturns
<1>2. /\ mrec.state = IF then = "pending" THEN COPY_PENDING ELSE APP_VALID
      /\ then = "adopt" => Matches(mrec)
      /\ then \in {"adopt", "resumed"} => ~upd.inProgress
  BY DEF IInv, MetaWriteInv, ReceiveInv
<1>3. CASE then = "adopt"
  <2>1. OpenWindow(ok) /\ UNCHANGED upd
    BY <1>3 DEF MetaWriteReturns
  <2>2. ok => Digest(main', ReadMeta(log').size) = ReadMeta(log').digest
    BY <1>2, <1>3 DEF Matches
  <2> QED
    BY <1>1, <1>2, <1>3, <2>1, <2>2, OpenWindowInv
<1>4. CASE then = "resumed"
  <2>1. OpenWindow(ok /\ Matches(mrec)) /\ UNCHANGED upd
    BY <1>4 DEF MetaWriteReturns
  <2>2. (ok /\ Matches(mrec)) \in BOOLEAN
    BY DEF Matches
  <2>3. ok /\ Matches(mrec) => /\ HasRecord(log')
                               /\ ReadMeta(log').state = APP_VALID
                               /\ Digest(main', ReadMeta(log').size) = ReadMeta(log').digest
    BY <1>2, <1>4 DEF Matches
  <2> QED
    BY <1>1, <1>2, <1>4, <2>1, <2>2, <2>3, OpenWindowInv
<1>5. CASE then = "pending" /\ ok
  <2>1. /\ pc' = "copyErase" /\ then' = "install" /\ cp' = 0
        /\ UNCHANGED <<upd, mrec, session>>
    BY <1>5 DEF MetaWriteReturns
  <2>2. TypeOK'
    BY <1>1, <2>1 DEF TypeOK, session, WritesMeta, Received
  <2>3. CopyInv'
    <3>1. mrec \in Meta /\ mrec.size \in Cells
      BY <1>1 DEF TypeOK, Meta
    <3>2. 0 <= PagesNeeded(mrec.size)
      BY <3>1, PagesCover
    <3> QED
      BY <1>2, <1>5, <2>1, <3>2 DEF CopyInv, Copies
  <2>4. MetaWriteInv' /\ RunInv'
    BY <2>1 DEF MetaWriteInv, WritesMeta, RunInv
  <2>5. ReceiveInv' /\ AuthorizationInv'
    BY <2>1 DEF ReceiveInv, IInv, AuthorizationInv
  <2> QED
    BY <2>2, <2>3, <2>4, <2>5 DEF IInv
<1>6. CASE then = "done" /\ ok
  <2>1. /\ pc' = "boot" /\ then' = "none" /\ cp' = 0 /\ mrec' = NoMeta
        /\ upd' = NoUpdate /\ appValid' = FALSE /\ unsafeOk' = FALSE
        /\ UNCHANGED sessionWord
    BY <1>6 DEF MetaWriteReturns
  <2>2. {appValid', unsafeOk', sessionWord', heard'} \subseteq BOOLEAN
    BY <1>1, <2>1 DEF TypeOK
  <2>3. RunInv'
    BY <2>1 DEF RunInv
  <2> QED
    BY <1>1, <2>1, <2>2, <2>3, RestingValues, RestInv
<1>7. CASE then \in {"pending", "done"} /\ ~ok
  BY <1>1, <1>7, FailInv, RestingValues DEF MetaWriteReturns
<1> QED
  BY <1>3, <1>4, <1>5, <1>6, <1>7 DEF IInv, MetaWriteInv

-----------------------------------------------------------------------------
(* The writes of the metadata log *)

LEMMA MetaBeginInv ==
    ASSUME IInv, MetaBegin
    PROVE  IInv'
<1>1. TypeOK /\ WritesMeta /\ UNCHANGED <<main, backup, log, frame, starts, faults, cuts, heard>>
  BY DEF IInv, MetaBegin, flash, env, WritesMeta
<1>2. log' \in Log /\ LogShape(log') /\ RecordsAreVouched' /\ faults' \in 0..MaxFaults
  BY <1>1 DEF IInv, TypeOK, RecordsAreVouched
<1>3. CASE IsLogged(mrec) /\ MetaWriteReturns(TRUE)
  BY <1>1, <1>2, <1>3, MetaWriteReturnsInv DEF IsLogged
<1>4. CASE /\ mgen' = NextGeneration(log)
           /\ pc' = IF IsFull(log) THEN "metaErase" ELSE "metaWrite"
           /\ UNCHANGED <<upd, then, cp, mrec, session>>
  <2>1. mgen' \in Nat /\ \A s \in RecordSlots(log) : log[s].gen < mgen'
    BY <1>1, <1>4, NextGenerationFacts DEF IInv, TypeOK
  <2>2. TypeOK'
    BY <1>1, <1>4, <2>1 DEF TypeOK, session, WritesMeta, Received
  <2>3. MetaWriteInv'
    BY <1>1, <1>4, <2>1 DEF IInv, MetaWriteInv, WritesMeta, Matches
  <2>4. CopyInv' /\ RunInv'
    BY <1>4 DEF CopyInv, Copies, RunInv
  <2>5. ReceiveInv' /\ AuthorizationInv'
    BY <1>1, <1>4 DEF IInv, ReceiveInv, AuthorizationInv, WritesMeta
  <2> QED
    BY <1>2, <2>2, <2>3, <2>4, <2>5 DEF IInv
<1> QED
  BY <1>3, <1>4 DEF MetaBegin

\* The whole page is erased: the records go, and with them their counter.
LEMMA MetaEraseInv ==
    ASSUME IInv, MetaErase
    PROVE  IInv'
<1>1. TypeOK /\ WritesMeta /\ UNCHANGED <<main, backup, frame, starts, cuts, heard>>
  BY DEF IInv, MetaErase, WritesMeta
<1>2. CASE /\ log' = BlankPage
           /\ pc' = "metaWrite"
           /\ UNCHANGED <<faults, upd, then, cp, mrec, mgen, session>>
  <2>1. log' \in Log /\ LogShape(log') /\ RecordSlots(log') = {} /\ ~HasRecord(log')
        /\ ~IsFull(log')
    BY <1>2, EmptyPageFacts
  <2>2. TypeOK'
    BY <1>1, <1>2, <2>1 DEF TypeOK, session, WritesMeta, Received
  <2>3. RecordsAreVouched'
    BY <2>1 DEF RecordsAreVouched
  <2>4. MetaWriteInv'
    BY <1>1, <1>2, <2>1 DEF IInv, MetaWriteInv, WritesMeta, Matches
  <2>5. CopyInv' /\ RunInv'
    BY <1>2 DEF CopyInv, Copies, RunInv
  <2>6. ReceiveInv' /\ AuthorizationInv'
    BY <1>1, <1>2 DEF IInv, ReceiveInv, AuthorizationInv, WritesMeta
  <2> QED
    BY <2>1, <2>2, <2>3, <2>4, <2>5, <2>6 DEF IInv
<1>3. CASE /\ CanFault /\ faults' = faults + 1
           /\ log' \in {log, TornPage}
           /\ MetaWriteReturns(FALSE)
  <2>1. faults' \in 0..MaxFaults
    BY <1>1, <1>3, HostAssumption DEF TypeOK, CanFault
  <2>2. log' \in Log /\ LogShape(log') /\ RecordsAreVouched'
    BY <1>1, <1>3, EmptyPageFacts DEF IInv, TypeOK, RecordsAreVouched
  <2> QED
    BY <1>1, <1>3, <2>1, <2>2, MetaWriteReturnsInv
<1> QED
  BY <1>2, <1>3 DEF MetaErase

\* The record that is appended is vouched for, and is read from then on.
LEMMA MetaWriteStepInv ==
    ASSUME IInv, MetaWrite
    PROVE  IInv'
<1>1. TypeOK /\ WritesMeta /\ UNCHANGED <<main, backup, frame, starts, cuts, heard>>
  BY DEF IInv, MetaWrite, WritesMeta
<1>2. /\ log \in Log /\ LogShape(log) /\ ~IsFull(log) /\ mrec \in Meta /\ mgen \in Nat
      /\ \A s \in RecordSlots(log) : log[s].gen < mgen
      /\ Vouched(mrec) \/ IsAdopted(mrec)
  BY <1>1 DEF IInv, TypeOK, MetaWriteInv, MetaWrite
<1> DEFINE r == [gen |-> mgen, meta |-> mrec]
<1>3. CASE /\ log' = Appended(log, r)
           /\ UNCHANGED faults
           /\ MetaWriteReturns(TRUE)
  <2>1. r \in Record /\ r.gen = mgen /\ r.meta = mrec
    BY <1>2 DEF Record
  <2>2. /\ log' \in Log /\ LogShape(log')
        /\ HasRecord(log') /\ ReadMeta(log') = r.meta
        /\ \A s \in RecordSlots(log') :
              log'[s] = r \/ (s \in RecordSlots(log) /\ log'[s] = log[s])
    <3>1. \A s \in RecordSlots(log) : log[s].gen < r.gen
      BY <1>2, <2>1
    <3>2. log' = Appended(log, r)
      BY <1>3
    <3>3. log \in Log /\ LogShape(log) /\ ~IsFull(log) /\ r \in Record
      BY <1>2, <2>1
    <3> HIDE DEF r
    <3> QED
      BY <3>1, <3>2, <3>3, AppendFacts
  <2>3. RecordsAreVouched'
    BY <1>2, <2>1, <2>2 DEF IInv, RecordsAreVouched
  <2>4. faults' \in 0..MaxFaults
    BY <1>1, <1>3 DEF TypeOK
  <2> QED
    BY <1>1, <1>3, <2>1, <2>2, <2>3, <2>4, MetaWriteReturnsInv
<1>4. CASE /\ CanFault /\ faults' = faults + 1
           /\ log' \in {log, Appended(log, TornRecord)}
           /\ MetaWriteReturns(FALSE)
  <2>1. faults' \in 0..MaxFaults
    BY <1>1, <1>4, HostAssumption DEF TypeOK, CanFault
  <2>2. log' \in Log /\ LogShape(log') /\ RecordsAreVouched'
    BY <1>2, <1>4, TearFacts DEF IInv, RecordsAreVouched
  <2> QED
    BY <1>1, <1>4, <2>1, <2>2, MetaWriteReturnsInv
<1> QED
  BY <1>3, <1>4 DEF MetaWrite

-----------------------------------------------------------------------------
(* The copy of the backup slot over the main slot *)

LEMMA CopyFailsInv ==
    ASSUME IInv, Copies, CopyFails,
           UNCHANGED <<backup, log, mgen, frame, starts, cuts, heard>>,
           main' \in Slot, faults' \in 0..MaxFaults
    PROVE  IInv'
<1>1. /\ TypeOK /\ mgen' \in Nat /\ backup' \in Slot /\ frame'.version \in Versions
      /\ log' \in Log /\ LogShape(log') /\ RecordsAreVouched' /\ 0 \in 0..AppPages
  BY ImageAssumption DEF IInv, TypeOK, RecordsAreVouched
<1>2. CASE then = "resume"
  <2>1. ~upd.inProgress
    BY <1>2 DEF IInv, ReceiveInv
  <2>2. OpenWindow(FALSE) /\ UNCHANGED upd
    BY <1>2 DEF CopyFails
  <2> QED
    BY <1>1, <2>1, <2>2, OpenWindowInv
<1>3. CASE then # "resume"
  BY <1>1, <1>3, RestingValues, FailInv DEF CopyFails
<1> QED
  BY <1>2, <1>3

LEMMA CopyEraseInv ==
    ASSUME IInv, CopyErase
    PROVE  IInv'
<1>1. /\ TypeOK /\ Copies /\ cp < PagesNeeded(mrec.size) /\ cp \in Nat
      /\ UNCHANGED <<backup, log, mgen, frame, starts, cuts, heard>>
      /\ main \in Slot /\ Erased \in Content /\ TornCell \in Content
  BY DEF IInv, TypeOK, CopyErase, Copies, Content
<1>2. CASE /\ main' = FillPage(main, cp, Erased) /\ UNCHANGED faults
           /\ pc' = "copyWrite"
           /\ UNCHANGED <<upd, then, cp, mrec, session>>
  <2>1. main' \in Slot /\ \A k \in PageCells(cp) : main'[k] = Erased
    BY <1>1, <1>2, FillPageFacts DEF PageCells
  <2>2. TypeOK'
    BY <1>1, <1>2, <2>1 DEF TypeOK, session, Copies, Received
  <2>3. RecordsAreVouched' /\ LogShape(log')
    BY <1>1 DEF IInv, RecordsAreVouched
  <2>4. MetaWriteInv' /\ RunInv'
    BY <1>2 DEF MetaWriteInv, WritesMeta, RunInv
  <2>5. CopyInv'
    BY <1>1, <1>2, <2>1 DEF IInv, CopyInv, Copies, Programmable
  <2>6. ReceiveInv' /\ AuthorizationInv'
    BY <1>1, <1>2 DEF IInv, ReceiveInv, AuthorizationInv, Copies
  <2> QED
    BY <2>2, <2>3, <2>4, <2>5, <2>6 DEF IInv
<1>3. CASE EraseErrs(main, main', cp) /\ CopyFails
  <2>1. main' \in Slot /\ faults' \in 0..MaxFaults
    BY <1>1, <1>3, FillPageFacts, HostAssumption DEF EraseErrs, CanFault, TypeOK
  <2> QED
    BY <1>1, <1>3, <2>1, CopyFailsInv
<1> QED
  BY <1>2, <1>3 DEF CopyErase, Succeeds

LEMMA CopyWriteInv ==
    ASSUME IInv, CopyWrite
    PROVE  IInv'
<1>1. /\ TypeOK /\ Copies /\ cp < PagesNeeded(mrec.size) /\ cp \in Nat
      /\ UNCHANGED <<backup, log, mgen, frame, starts, cuts, heard>>
      /\ main \in Slot /\ backup \in Slot /\ TornCell \in Content
      /\ mrec.size \in Cells /\ mrec.size \in Nat
  BY DEF IInv, TypeOK, CopyInv, CopyWrite, Copies, Content, Meta, Cells
<1>2. CASE /\ main' = WritePage(main, cp, backup, mrec.size) /\ UNCHANGED faults
           /\ cp' = cp + 1
           /\ pc' = "copyErase"
           /\ UNCHANGED <<upd, then, mrec, session>>
  <2>1. \A k \in Cells : backup[k] \in Content
    BY <1>1 DEF Slot
  <2>2. main' \in Slot
    BY <1>1, <1>2, <2>1, WritePageFacts
  <2>3. PagesNeeded(mrec.size) \in 1..AppPages
    BY <1>1, PagesCover
  <2>4. cp' <= PagesNeeded(mrec.size) /\ cp' \in 0..AppPages
    BY <1>1, <1>2, <2>3, ImageAssumption
  <2>5. TypeOK'
    BY <1>1, <1>2, <2>2, <2>4 DEF TypeOK, session, Copies, Received
  <2>6. RecordsAreVouched' /\ LogShape(log')
    BY <1>1 DEF IInv, RecordsAreVouched
  <2>7. MetaWriteInv' /\ RunInv'
    BY <1>2 DEF MetaWriteInv, WritesMeta, RunInv
  <2>8. CopyInv'
    BY <1>1, <1>2, <2>4 DEF IInv, CopyInv, Copies
  <2>9. ReceiveInv' /\ AuthorizationInv'
    BY <1>1, <1>2 DEF IInv, ReceiveInv, AuthorizationInv, Copies
  <2> QED
    BY <2>5, <2>6, <2>7, <2>8, <2>9 DEF IInv
<1>3. CASE WriteErrs(main, main', cp, Programmable(main, cp, mrec.size)) /\ CopyFails
  <2>1. main' \in Slot /\ faults' \in 0..MaxFaults
    BY <1>1, <1>3, FillPageFacts, HostAssumption DEF WriteErrs, CanFault, TypeOK
  <2> QED
    BY <1>1, <1>3, <2>1, CopyFailsInv
<1> QED
  BY <1>2, <1>3 DEF CopyWrite, Succeeds

\* The record of the installed image is that of the pending one.
LEMMA CopyDoneInv ==
    ASSUME IInv, CopyDone
    PROVE  IInv'
<1>1. /\ TypeOK /\ then \in {"resume", "install"}
      /\ HasRecord(log) /\ ReadMeta(log) = mrec /\ mrec.state = COPY_PENDING
      /\ UNCHANGED <<main, backup, log, upd, mgen, frame, session, starts, faults, cuts, heard>>
      /\ pc' = "metaBegin" /\ cp' = 0
      /\ mrec' = [mrec EXCEPT !.state = APP_VALID]
      /\ then' = IF then = "resume" THEN "resumed" ELSE "done"
  BY DEF IInv, CopyInv, CopyDone, Copies, CallMetaWrite, flash, env
<1>2. /\ mrec' \in Meta /\ mrec'.state = APP_VALID /\ mrec'.counter = mrec.counter
      /\ mrec.counter \in Nat
      /\ mrec'.hw = mrec.hw /\ mrec'.size = mrec.size
      /\ mrec'.version = mrec.version /\ mrec'.digest = mrec.digest
  BY <1>1 DEF TypeOK, Meta
<1>3. Vouched(mrec)
  <2>1. PICK s \in RecordSlots(log) : ReadMeta(log) = log[s].meta
    BY <1>1, ReadMetaFacts DEF IInv, TypeOK
  <2>2. ~IsAdopted(mrec)
    BY <1>1 DEF IsAdopted, COPY_PENDING, APP_VALID
  <2> QED
    BY <1>1, <2>1, <2>2 DEF IInv, RecordsAreVouched
<1>4. Vouched(mrec')
  BY <1>2, <1>3 DEF Vouched
<1>5. TypeOK'
  BY <1>1, <1>2, ImageAssumption DEF TypeOK, session, Received, CopyDone
<1>6. RecordsAreVouched' /\ LogShape(log')
  BY <1>1 DEF IInv, RecordsAreVouched
<1>7. MetaWriteInv'
  BY <1>1, <1>2, <1>4 DEF MetaWriteInv, WritesMeta
<1>8. CopyInv' /\ RunInv'
  BY <1>1 DEF CopyInv, Copies, RunInv
<1>9. ReceiveInv' /\ AuthorizationInv'
  BY <1>1 DEF IInv, ReceiveInv, AuthorizationInv
<1> QED
  BY <1>5, <1>6, <1>7, <1>8, <1>9 DEF IInv

-----------------------------------------------------------------------------
(* Start-up and the window *)

LEMMA ApplicationIsValidInv ==
    ASSUME IInv, ApplicationIsValid
    PROVE  IInv'
<1>1. /\ TypeOK /\ ~upd.inProgress /\ log \in Log /\ LogShape(log) /\ RecordsAreVouched
      /\ UNCHANGED <<main, backup, log, upd, mgen, frame, starts, faults, cuts, heard>>
  <2>1. pc = "boot" /\ UNCHANGED <<flash, upd, mgen, frame, env, heard>>
    BY DEF ApplicationIsValid
  <2>2. TypeOK /\ ~upd.inProgress /\ LogShape(log) /\ RecordsAreVouched /\ log \in Log
    BY <2>1 DEF IInv, ReceiveInv, TypeOK
  <2> QED
    BY <2>1, <2>2 DEF flash, env
<1>2. /\ mgen' \in Nat /\ faults' \in 0..MaxFaults /\ main' \in Slot /\ backup' \in Slot
      /\ log' \in Log /\ LogShape(log') /\ RecordsAreVouched' /\ 0 \in 0..AppPages
  BY <1>1, ImageAssumption DEF TypeOK, RecordsAreVouched
<1>3. CASE CallMetaWrite(Adopted, "adopt") /\ UNCHANGED <<cp, session>> /\ ~HasRecord(log)
  <2>1. /\ pc' = "metaBegin" /\ then' = "adopt" /\ mrec' = Adopted
        /\ UNCHANGED <<cp, session>>
    BY <1>3 DEF CallMetaWrite
  <2>2. Adopted \in Meta /\ IsAdopted(Adopted) /\ Adopted.state = APP_VALID
        /\ Matches(Adopted)
    <3>1. APP_MAX_SIZE \in Cells
      BY SlotSize DEF Cells
    <3>2. Digest(main, APP_MAX_SIZE) \in Digests
      BY <1>1, <3>1, DigestType DEF TypeOK
    <3> QED
      BY <3>1, <3>2, ImageAssumption DEF Adopted, Meta, IsAdopted, Matches
  <2>3. TypeOK'
    BY <1>1, <2>1, <2>2 DEF TypeOK, session, Received
  <2>4. MetaWriteInv'
    BY <1>1, <1>3, <2>1, <2>2 DEF MetaWriteInv, WritesMeta, Matches
  <2>5. CopyInv' /\ RunInv'
    BY <2>1 DEF CopyInv, Copies, RunInv
  <2>6. ReceiveInv' /\ AuthorizationInv'
    BY <1>1, <2>1 DEF IInv, ReceiveInv, AuthorizationInv
  <2> QED
    BY <1>2, <2>3, <2>4, <2>5, <2>6 DEF IInv
<1>4. CASE OpenWindow(FALSE)
  BY <1>1, <1>2, <1>4, OpenWindowInv
<1>5. CASE /\ HasRecord(log)
           /\ ResumesCopy(ReadMeta(log))
           /\ pc' = "copyErase" /\ then' = "resume"
           /\ mrec' = ReadMeta(log) /\ cp' = 0
           /\ UNCHANGED session
  <2>1. ReadMeta(log) \in Meta
    BY <1>1, <1>5, ReadMetaFacts
  <2>2. TypeOK'
    BY <1>1, <1>2, <1>5, <2>1 DEF TypeOK, session, Received
  <2>3. CopyInv'
    <3>1. 0 <= PagesNeeded(ReadMeta(log).size)
      BY <2>1, PagesCover DEF Meta
    <3> QED
      BY <1>1, <1>5, <3>1 DEF CopyInv, Copies, ResumesCopy
  <2>4. MetaWriteInv' /\ RunInv'
    BY <1>5 DEF MetaWriteInv, WritesMeta, RunInv
  <2>5. ReceiveInv' /\ AuthorizationInv'
    BY <1>1, <1>5 DEF IInv, ReceiveInv, AuthorizationInv
  <2> QED
    BY <1>2, <2>2, <2>3, <2>4, <2>5 DEF IInv
<1>6. CASE /\ HasRecord(log)
           /\ ReadMeta(log).hw = THIS_HARDWARE_ID => ~ResumesCopy(ReadMeta(log))
           /\ OpenWindow(/\ ReadMeta(log).hw = THIS_HARDWARE_ID
                         /\ Matches(ReadMeta(log)))
  <2> DEFINE valid == ReadMeta(log).hw = THIS_HARDWARE_ID /\ Matches(ReadMeta(log))
  <2>1. valid \in BOOLEAN
    BY DEF Matches
  <2>2. ReadMeta(log) \in Meta
    BY <1>1, <1>6, ReadMetaFacts
  <2>3. valid => /\ HasRecord(log')
                 /\ ReadMeta(log').state = APP_VALID
                 /\ Digest(main', ReadMeta(log').size) = ReadMeta(log').digest
    BY <1>1, <1>6, <2>2 DEF Matches, Meta, ResumesCopy
  <2>4. OpenWindow(valid)
    BY <1>6
  <2> HIDE DEF valid
  <2> QED
    BY <1>1, <1>2, <2>1, <2>3, <2>4, OpenWindowInv
<1> QED
  BY <1>3, <1>4, <1>5, <1>6 DEF ApplicationIsValid

LEMMA WindowExpiresInv ==
    ASSUME IInv, WindowExpires
    PROVE  IInv'
<1>1. /\ TypeOK /\ pc = "window" /\ ~upd.inProgress
      /\ UNCHANGED <<main, backup, log, upd, cp, mrec, mgen, frame,
                     appValid, unsafeOk, sessionWord, starts, faults, cuts, heard>>
      /\ then' = then
      /\ pc' = "listen" \/ (pc' = "app" /\ appValid)
  BY DEF IInv, WindowExpires, ReceiveInv, flash, env, session
<1>2. TypeOK'
  BY <1>1 DEF TypeOK, Received
<1>3. RecordsAreVouched' /\ LogShape(log')
  BY <1>1 DEF IInv, RecordsAreVouched
<1>4. MetaWriteInv' /\ CopyInv'
  BY <1>1 DEF MetaWriteInv, WritesMeta, CopyInv, Copies
<1>5. RunInv'
  BY <1>1 DEF IInv, RunInv, Matches
<1>6. ReceiveInv' /\ AuthorizationInv'
  BY <1>1 DEF IInv, ReceiveInv, AuthorizationInv
<1> QED
  BY <1>2, <1>3, <1>4, <1>5, <1>6 DEF IInv

\* A reset of the application changes nothing in flash.
LEMMA ResetApplicationInv ==
    ASSUME IInv, NEW entry \in BOOLEAN, ResetApplication(entry)
    PROVE  IInv'
<1>1. /\ TypeOK /\ pc = "app" /\ pc' = "boot" /\ ~upd.inProgress
      /\ UNCHANGED <<main, backup, log, upd, then, cp, mrec, mgen, frame,
                     starts, faults, cuts, heard>>
      /\ sessionWord' = entry /\ appValid' = FALSE /\ unsafeOk' = FALSE
  BY DEF IInv, ResetApplication, ReceiveInv, flash, env
<1>2. TypeOK'
  BY <1>1 DEF TypeOK, Received
<1>3. RecordsAreVouched' /\ LogShape(log')
  BY <1>1 DEF IInv, RecordsAreVouched
<1>4. MetaWriteInv' /\ CopyInv' /\ RunInv'
  BY <1>1 DEF MetaWriteInv, WritesMeta, CopyInv, Copies, RunInv
<1>5. ReceiveInv' /\ AuthorizationInv'
  BY <1>1 DEF IInv, ReceiveInv, AuthorizationInv
<1> QED
  BY <1>2, <1>3, <1>4, <1>5 DEF IInv

\* Whatever the power cut leaves of a flash operation keeps the invariant.
LEMMA PowerCutInv ==
    ASSUME IInv, PowerCut
    PROVE  IInv'
<1>1. /\ TypeOK /\ cuts < MaxCuts /\ cuts' = cuts + 1 /\ UNCHANGED <<starts, faults>>
      /\ CutMain /\ CutBackup /\ CutLog
      /\ upd' = NoUpdate /\ pc' = "boot" /\ then' = "none" /\ cp' = 0
      /\ mrec' = NoMeta /\ mgen' = 0 /\ frame' = NoFrame
      /\ appValid' = FALSE /\ unsafeOk' = FALSE /\ sessionWord' = FALSE
      /\ heard' = FALSE
  BY DEF IInv, PowerCut
<1>2. main' \in Slot /\ backup' \in Slot
  <2>1. main \in Slot /\ backup \in Slot /\ cp \in Int /\ upd.page \in Int
        /\ TornCell \in Content
    BY <1>1 DEF TypeOK, Update, Content
  <2> QED
    BY <1>1, <2>1, FillPageFacts DEF CutMain, CutBackup
<1>3. log' \in Log /\ LogShape(log') /\ RecordsAreVouched'
  <2>1. log \in Log /\ LogShape(log) /\ RecordsAreVouched
        /\ (pc = "metaWrite" => ~IsFull(log))
    BY <1>1 DEF IInv, TypeOK, MetaWriteInv
  <2>2. CASE log' = log
    BY <2>1, <2>2 DEF RecordsAreVouched
  <2>3. CASE log' = TornPage
    BY <2>3, EmptyPageFacts DEF RecordsAreVouched
  <2>4. CASE pc = "metaWrite" /\ log' = Appended(log, TornRecord)
    BY <2>1, <2>4, TearFacts DEF RecordsAreVouched
  <2> QED
    BY <1>1, <2>2, <2>3, <2>4 DEF CutLog
<1>4. {appValid', unsafeOk', sessionWord', heard'} \subseteq BOOLEAN
  BY <1>1
<1>5. cuts' \in 0..MaxCuts /\ starts' \in 0..MaxStarts /\ faults' \in 0..MaxFaults
      /\ cp' \in 0..AppPages /\ mgen' \in Nat
  BY <1>1, HostAssumption, ImageAssumption DEF TypeOK
<1>6. RunInv'
  BY <1>1 DEF RunInv
<1> QED
  BY <1>1, <1>2, <1>3, <1>4, <1>5, <1>6, RestingValues, RestInv

-----------------------------------------------------------------------------
(* The frames of the update *)

\* A step that leaves flash and the copy alone, and does not write the log.
LEMMA QuietInv ==
    ASSUME IInv, TypeOK', ReceiveInv', upd'.downgrade => heard',
           UNCHANGED <<main, backup, log>>,
           pc' \in {"listen", "startErase", "flush", "verify"}
    PROVE  IInv'
<1>1. RecordsAreVouched' /\ LogShape(log')
  BY DEF IInv, RecordsAreVouched
<1>2. MetaWriteInv' /\ CopyInv' /\ RunInv'
  BY DEF MetaWriteInv, WritesMeta, CopyInv, Copies, RunInv
<1> QED
  BY <1>1, <1>2 DEF IInv, AuthorizationInv

LEMMA HandleStartUpdateInv ==
    ASSUME IInv, NEW size \in Nat, NEW hw \in HardwareIds, HandleStartUpdate(size, hw)
    PROVE  IInv'
<1>1. /\ TypeOK /\ pc \in {"window", "listen"} /\ then = "none"
      /\ UNCHANGED <<main, backup, log, then, mrec, mgen, frame,
                     appValid, unsafeOk, sessionWord, faults, cuts, heard>>
  BY DEF IInv, HandleStartUpdate, ReceiveInv, flash, session
<1>2. CASE pc' = "listen" /\ UNCHANGED <<upd, cp, starts>>
  <2>1. TypeOK'
    BY <1>1, <1>2 DEF TypeOK, Received
  <2>2. ReceiveInv'
    BY <1>1, <1>2 DEF IInv, ReceiveInv, Received, ErasedFrom
  <2> QED
    BY <1>1, <1>2, <2>1, <2>2, QuietInv DEF IInv, AuthorizationInv
<1>3. CASE /\ size \in Cells /\ hw = THIS_HARDWARE_ID
           /\ starts < MaxStarts /\ starts' = starts + 1
           /\ upd' = [upd EXCEPT !.total = size, !.hw = hw]
           /\ pc' = "startErase" /\ cp' = 0
  <2>1. /\ upd' \in Update /\ upd'.total = size /\ upd'.downgrade = upd.downgrade
        /\ upd'.inProgress = upd.inProgress
    <3>1. upd \in Update /\ size \in 0..APP_MAX_SIZE
      BY <1>1, <1>3, SlotSize DEF TypeOK, Cells
    <3> QED
      BY <1>3, <3>1 DEF Update
  <2>2. TypeOK'
    BY <1>1, <1>3, <2>1, HostAssumption, ImageAssumption DEF TypeOK
  <2>3. ReceiveInv'
    <3>1. 0 <= PagesNeeded(size)
      BY <1>3, PagesCover
    <3>2. ErasedBefore(0)'
      BY PageOfCell DEF ErasedBefore
    <3>3. ErasedBefore(cp)'
      BY <1>3, <3>2 DEF ErasedBefore
    <3> QED
      BY <1>1, <1>3, <2>1, <3>1, <3>3 DEF ReceiveInv
  <2> QED
    BY <1>1, <1>3, <2>1, <2>2, <2>3, QuietInv DEF IInv, AuthorizationInv
<1> QED
  BY <1>2, <1>3 DEF HandleStartUpdate

LEMMA StartEraseInv ==
    ASSUME IInv, StartErase
    PROVE  IInv'
<1>1. /\ TypeOK /\ pc = "startErase" /\ then = "none" /\ cp < PagesNeeded(upd.total)
      /\ upd.total \in Cells /\ ErasedBefore(cp) /\ cp \in Nat
      /\ UNCHANGED <<main, log, then, mrec, mgen, frame,
                     appValid, unsafeOk, sessionWord, starts, cuts, heard>>
      /\ backup \in Slot /\ Erased \in Content /\ TornCell \in Content
  BY DEF IInv, TypeOK, StartErase, ReceiveInv, session, Content
<1>2. PagesNeeded(upd.total) \in 1..AppPages
  BY <1>1, PagesCover
<1>3. CASE /\ backup' = FillPage(backup, cp, Erased) /\ UNCHANGED faults
           /\ cp' = cp + 1 /\ UNCHANGED <<pc, upd>>
  <2>1. backup' \in Slot /\ ErasedBefore(cp)'
    BY <1>1, <1>3, PageOfCell, FillPageFacts DEF ErasedBefore
  <2>2. cp' \in 0..AppPages /\ cp' <= PagesNeeded(upd.total)
    BY <1>1, <1>2, <1>3, ImageAssumption
  <2>3. TypeOK'
    BY <1>1, <1>3, <2>1, <2>2 DEF TypeOK, Received
  <2>4. ReceiveInv'
    BY <1>1, <1>3, <2>1, <2>2 DEF ReceiveInv
  <2>5. RecordsAreVouched' /\ LogShape(log')
    BY <1>1 DEF IInv, RecordsAreVouched
  <2>6. MetaWriteInv' /\ CopyInv' /\ RunInv' /\ AuthorizationInv'
    BY <1>1, <1>3 DEF IInv, MetaWriteInv, WritesMeta, CopyInv, Copies, RunInv,
                      AuthorizationInv
  <2> QED
    BY <2>3, <2>4, <2>5, <2>6 DEF IInv
<1>4. CASE /\ EraseErrs(backup, backup', cp)
           /\ pc' = "listen" /\ cp' = 0
           /\ upd' = Fail(upd)
  <2>1. backup' \in Slot /\ faults' \in 0..MaxFaults
    BY <1>1, <1>4, FillPageFacts, HostAssumption DEF EraseErrs, CanFault, TypeOK
  <2>2. /\ log' \in Log /\ LogShape(log') /\ RecordsAreVouched' /\ main' \in Slot
        /\ mrec' \in Meta /\ mgen' \in Nat /\ frame'.version \in Versions
        /\ cp' \in 0..AppPages
    BY <1>1, <1>4, ImageAssumption DEF IInv, TypeOK, RecordsAreVouched
  <2> QED
    BY <1>1, <1>4, <2>1, <2>2, FailInv DEF session
<1> QED
  BY <1>3, <1>4 DEF StartErase, Succeeds

\* A fresh attempt starts on a backup slot erased as far as the image goes.
LEMMA StartReceivingInv ==
    ASSUME IInv, StartReceiving
    PROVE  IInv'
<1>1. /\ TypeOK /\ pc = "startErase" /\ then = "none" /\ cp = PagesNeeded(upd.total)
      /\ upd.total \in Cells /\ ErasedBefore(cp) /\ upd \in Update
      /\ UNCHANGED <<main, backup, log, then, mrec, mgen, frame,
                     appValid, unsafeOk, sessionWord, starts, faults, cuts>>
      /\ upd' = Fresh(upd) /\ heard' = FALSE /\ pc' = "listen" /\ cp' = 0
  BY DEF IInv, TypeOK, StartReceiving, ReceiveInv, session, flash, env
<1>2. /\ upd' \in Update /\ upd'.page = 0 /\ upd'.total = upd.total
      /\ upd'.stream = <<>> /\ ~upd'.downgrade /\ Received(upd') = 0
  BY <1>1, ImageAssumption DEF Fresh, Update, NoRecord, Received
<1>3. TypeOK'
  <2>1. {appValid', unsafeOk', sessionWord', heard'} \subseteq BOOLEAN
    BY <1>1 DEF TypeOK
  <2>2. Received(upd') <= upd'.total /\ 0 \in 0..AppPages
    BY <1>1, <1>2, SlotSize, ImageAssumption DEF Cells
  <2> QED
    BY <1>1, <1>2, <2>1, <2>2 DEF TypeOK
<1>4. ErasedFrom(0, upd.total)'
  <2>1. PagesNeeded(upd.total) \in Nat
    BY <1>1, PagesCover
  <2>2. \A k \in Cells : k <= upd.total => backup[k] = Erased
    BY <1>1, PagesCover DEF ErasedBefore
  <2> QED
    BY <1>1, <1>2, <2>2 DEF ErasedFrom
<1>5. ReceiveInv'
  <2>1. PAGE \in Nat \ {0}
    BY ImageAssumption
  <2>2. ErasedFrom(upd.page, upd.total)'
    BY <1>1, <1>2, <1>4 DEF ErasedFrom
  <2>3. upd'.page * PAGE = 0 /\ (upd'.page + 1) * PAGE = PAGE
    BY <1>2, <2>1
  <2> QED
    BY <1>1, <1>2, <2>1, <2>2, <2>3 DEF ReceiveInv
<1> QED
  BY <1>1, <1>2, <1>3, <1>5, QuietInv

LEMMA HandleSigChunkInv ==
    ASSUME IInv, NEW k \in 1..RecordChunks, NEW c \in FrameCells, HandleSigChunk(k, c)
    PROVE  IInv'
<1>1. /\ TypeOK /\ pc = "listen" /\ upd.inProgress /\ upd \in Update
      /\ UNCHANGED <<main, backup, log, pc, then, cp, mrec, mgen, frame,
                     appValid, unsafeOk, sessionWord, starts, faults, cuts, heard>>
      /\ upd' = [upd EXCEPT !.record[k] = c]
  BY DEF IInv, TypeOK, HandleSigChunk, Receiving, session, flash, env, thread
<1>2. /\ upd' \in Update /\ upd'.inProgress = upd.inProgress /\ upd'.total = upd.total
      /\ upd'.page = upd.page /\ upd'.stream = upd.stream /\ upd'.downgrade = upd.downgrade
  <2>1. upd'.record \in [1..RecordChunks -> Image \cup {Noise, NoChunk}]
    BY <1>1, HostAssumption DEF Update
  <2> QED
    BY <1>1, <2>1 DEF Update
<1>3. TypeOK'
  BY <1>1, <1>2 DEF TypeOK, Received
<1>4. ReceiveInv'
  BY <1>1, <1>2 DEF IInv, ReceiveInv, Received, ErasedFrom
<1> QED
  BY <1>1, <1>2, <1>3, <1>4, QuietInv DEF IInv, AuthorizationInv

\* The buffer is flushed as soon as it holds a page.
LEMMA HandleDataInv ==
    ASSUME IInv, NEW c \in FrameCells, HandleData(c)
    PROVE  IInv'
<1>1. /\ TypeOK /\ pc = "listen" /\ then = "none" /\ upd.inProgress /\ upd \in Update
      /\ Received(upd) < upd.total
      /\ UNCHANGED <<main, backup, log, cp, mrec, mgen, frame,
                     appValid, unsafeOk, sessionWord, starts, faults, cuts, heard>>
      /\ upd' = [upd EXCEPT !.stream = Append(upd.stream, c)]
      /\ IF BufferFill(upd) + 1 = PAGE
         THEN pc' = "flush" /\ then' = "data"
         ELSE UNCHANGED <<pc, then>>
  BY DEF IInv, TypeOK, HandleData, Receiving, Expects, ReceiveInv, session, flash, env
<1>2. upd.stream \in Seq(Image \cup {Noise}) /\ c \in Image \cup {Noise}
  BY <1>1, HostAssumption DEF Update
<1>3. /\ upd' \in Update /\ upd'.inProgress /\ upd'.total = upd.total
      /\ upd'.page = upd.page /\ upd'.downgrade = upd.downgrade
      /\ Received(upd') = Received(upd) + 1 /\ Received(upd) \in Nat
  <2>1. /\ Append(upd.stream, c) \in Seq(Image \cup {Noise})
        /\ Len(Append(upd.stream, c)) = Len(upd.stream) + 1 /\ Len(upd.stream) \in Nat
    BY <1>2
  <2>2. /\ upd' \in Update /\ upd'.inProgress /\ upd'.total = upd.total
        /\ upd'.page = upd.page /\ upd'.downgrade = upd.downgrade
        /\ upd'.stream = Append(upd.stream, c)
    BY <1>1, <2>1 DEF Update
  <2> QED
    BY <2>1, <2>2 DEF Received
<1>4. upd.total \in Nat /\ upd.page \in Nat /\ PAGE \in Nat \ {0}
  BY <1>1, SlotSize, ImageAssumption DEF Update
<1>5. TypeOK'
  BY <1>1, <1>3, <1>4 DEF TypeOK
<1>6. /\ upd.page * PAGE <= Received(upd) /\ Received(upd) < (upd.page + 1) * PAGE
      /\ ErasedFrom(upd.page, upd.total)
  BY <1>1 DEF IInv, ReceiveInv
<1>7. ErasedFrom(upd.page, upd.total)'
  BY <1>1, <1>3, <1>6 DEF ErasedFrom
<1>8. /\ upd.page * PAGE < Received(upd) + 1
      /\ BufferFill(upd) + 1 = PAGE => Received(upd) + 1 = (upd.page + 1) * PAGE
      /\ BufferFill(upd) + 1 # PAGE => Received(upd) + 1 < (upd.page + 1) * PAGE
  <2>1. BufferFill(upd) = Received(upd) - upd.page * PAGE
    BY DEF BufferFill, Received
  <2> QED
    BY <1>3, <1>4, <1>6, <2>1, BufferArithmetic
<1>9. /\ upd'.page * PAGE <= Received(upd') /\ upd'.page * PAGE < Received(upd')
      /\ Received(upd') <= (upd'.page + 1) * PAGE
  BY <1>3, <1>4, <1>8, MulLeq
<1>10. CASE BufferFill(upd) + 1 = PAGE
  <2>1. ReceiveInv'
    BY <1>1, <1>3, <1>7, <1>8, <1>9, <1>10 DEF ReceiveInv
  <2> QED
    BY <1>1, <1>3, <1>5, <1>10, <2>1, QuietInv DEF IInv, AuthorizationInv
<1>11. CASE BufferFill(upd) + 1 # PAGE
  <2>1. ReceiveInv'
    BY <1>1, <1>3, <1>7, <1>8, <1>9, <1>11 DEF ReceiveInv
  <2> QED
    BY <1>1, <1>3, <1>5, <1>11, <2>1, QuietInv DEF IInv, AuthorizationInv
<1> QED
  BY <1>10, <1>11

\* A page is flushed onto erased cells, and the cells after it stay erased.
LEMMA FlushPageBufferInv ==
    ASSUME IInv, FlushPageBuffer
    PROVE  IInv'
<1>1. /\ TypeOK /\ pc = "flush" /\ then \in {"data", "end"} /\ upd.inProgress
      /\ upd \in Update /\ backup \in Slot /\ TornCell \in Content
      /\ Received(upd) <= upd.total
      /\ upd.page * PAGE < Received(upd) /\ Received(upd) <= (upd.page + 1) * PAGE
      /\ then = "data" => Received(upd) = (upd.page + 1) * PAGE
      /\ ErasedFrom(upd.page, upd.total)
      /\ then' = "none"
      /\ UNCHANGED <<main, log, cp, mrec, mgen, appValid, unsafeOk, sessionWord,
                     starts, cuts, heard>>
  BY DEF IInv, TypeOK, FlushPageBuffer, ReceiveInv, session, Content
<1>2. /\ upd.page \in Nat /\ PAGE \in Nat \ {0} /\ AppPages \in Nat
      /\ Received(upd) \in Nat /\ upd.total <= APP_MAX_SIZE /\ upd.total \in Nat
  BY <1>1, SlotSize, ImageAssumption DEF Update, Received
<1>3. CASE /\ backup' = WritePage(backup, upd.page, upd.stream, Received(upd))
           /\ UNCHANGED <<faults, frame>>
           /\ upd' = [upd EXCEPT !.page = upd.page + 1]
           /\ pc' = IF then = "data" THEN "listen" ELSE "verify"
  <2>1. upd.page + 1 \in 0..AppPages
    <3>1. APP_MAX_SIZE = AppPages * PAGE
      BY ImageAssumption DEF APP_MAX_SIZE
    <3>2. upd.page * PAGE < AppPages * PAGE
      BY <1>1, <1>2, <3>1, MulLeq
    <3> QED
      BY <1>2, <3>2, MulLess
  <2>2. /\ upd' \in Update /\ upd'.inProgress /\ upd'.total = upd.total
        /\ upd'.page = upd.page + 1 /\ upd'.downgrade = upd.downgrade
        /\ Received(upd') = Received(upd)
    BY <1>1, <1>3, <2>1 DEF Update, Received
  <2>3. backup' \in Slot /\ \A k \in Cells :
           (k - 1) \div PAGE # upd.page => backup'[k] = backup[k]
    <3>1. \A k \in Cells : k <= Received(upd) => upd.stream[k] \in Content
      BY <1>1 DEF Update, Content, Cells, Received
    <3> QED
      BY <1>1, <1>2, <1>3, <3>1, WritePageFacts
  <2>4. ErasedFrom(upd.page, upd.total)'
    BY <1>1, <1>2, <2>2, <2>3, PageOfCell DEF ErasedFrom
  <2>5. TypeOK'
    BY <1>1, <1>3, <2>2, <2>3 DEF TypeOK
  <2>6. ReceiveInv'
    <3>1. CASE then = "data"
      <4>1. /\ upd'.page * PAGE <= Received(upd')
            /\ Received(upd') < (upd'.page + 1) * PAGE
        BY <1>1, <1>2, <2>2, <3>1, MulLeq
      <4>2. Received(upd') <= (upd'.page + 1) * PAGE
        BY <1>2, <2>2, <4>1
      <4> QED
        BY <1>1, <1>3, <2>2, <2>4, <3>1, <4>1, <4>2 DEF ReceiveInv
    <3>2. CASE then # "data"
      BY <1>1, <1>3, <2>2, <3>2 DEF ReceiveInv
    <3> QED
      BY <3>1, <3>2
  <2>7. pc' \in {"listen", "verify"} /\ (upd'.downgrade => heard')
    BY <1>1, <1>3, <2>2 DEF IInv, AuthorizationInv
  <2>8. RecordsAreVouched' /\ LogShape(log')
    BY <1>1 DEF IInv, RecordsAreVouched
  <2>9. MetaWriteInv' /\ CopyInv' /\ RunInv' /\ AuthorizationInv'
    BY <2>7 DEF MetaWriteInv, WritesMeta, CopyInv, Copies, RunInv, AuthorizationInv
  <2> QED
    BY <2>5, <2>6, <2>8, <2>9 DEF IInv
<1>4. CASE \E fits \in BOOLEAN :
              /\ WriteErrs(backup, backup', upd.page, fits)
              /\ upd' = Fail(upd)
              /\ pc' = "listen"
              /\ frame' = NoFrame
  <2>1. backup' \in Slot /\ faults' \in 0..MaxFaults
    BY <1>1, <1>2, <1>4, FillPageFacts, HostAssumption DEF WriteErrs, CanFault, TypeOK
  <2>2. /\ log' \in Log /\ LogShape(log') /\ RecordsAreVouched' /\ main' \in Slot
        /\ mrec' \in Meta /\ mgen' \in Nat /\ cp' \in 0..AppPages
    BY <1>1 DEF IInv, TypeOK, RecordsAreVouched
  <2> QED
    BY <1>1, <1>4, <2>1, <2>2, RestingValues, FailInv DEF session
<1>5. Programmable(backup, upd.page, Received(upd)) \in BOOLEAN
  BY DEF Programmable
<1> QED
  BY <1>3, <1>4, <1>5 DEF FlushPageBuffer, Succeeds

LEMMA HandleEndUpdateInv ==
    ASSUME IInv, NEW crc, NEW version \in Versions, HandleEndUpdate(crc, version)
    PROVE  IInv'
<1>1. /\ TypeOK /\ pc = "listen" /\ then = "none" /\ upd.inProgress /\ upd \in Update
      /\ upd.page * PAGE <= Received(upd) /\ Received(upd) < (upd.page + 1) * PAGE
      /\ ErasedFrom(upd.page, upd.total)
      /\ UNCHANGED <<main, backup, log, upd, cp, mrec, mgen,
                     appValid, unsafeOk, sessionWord, starts, faults, cuts, heard>>
      /\ frame' = [crc |-> crc, version |-> version]
      /\ IF BufferFill(upd) > 0
         THEN pc' = "flush" /\ then' = "end"
         ELSE pc' = "verify" /\ UNCHANGED then
  BY DEF IInv, TypeOK, HandleEndUpdate, Receiving, ReceiveInv, session, flash, env
<1>2. TypeOK'
  BY <1>1 DEF TypeOK, Received
<1>3. /\ upd.page * PAGE \in Nat /\ Received(upd) \in Nat
      /\ BufferFill(upd) > 0 => upd.page * PAGE < Received(upd)
  <2>1. upd.page \in Nat /\ PAGE \in Nat /\ Received(upd) \in Nat
    BY <1>1, ImageAssumption DEF Update, Received
  <2>2. BufferFill(upd) = Received(upd) - upd.page * PAGE
    BY DEF BufferFill, Received
  <2> QED
    BY <2>1, <2>2, MulLeq
<1>4. Received(upd) <= (upd.page + 1) * PAGE
  BY <1>1, <1>3, ImageAssumption DEF Update
<1>5. ReceiveInv'
  BY <1>1, <1>3, <1>4 DEF ReceiveInv, ErasedFrom, Received
<1> QED
  BY <1>1, <1>2, <1>5, QuietInv DEF IInv, AuthorizationInv

\* The flag of the attempt is set only together with the history.
LEMMA HandleAuthorizeDowngradeInv ==
    ASSUME IInv, HandleAuthorizeDowngrade
    PROVE  IInv'
<1>1. /\ TypeOK /\ pc = "listen" /\ upd \in Update /\ heard' = TRUE
      /\ UNCHANGED <<main, backup, log, pc, then, cp, mrec, mgen, frame,
                     appValid, unsafeOk, sessionWord, starts, faults, cuts>>
      /\ upd' = [upd EXCEPT !.downgrade = TRUE]
  BY DEF IInv, TypeOK, HandleAuthorizeDowngrade, session, flash, env, thread
<1>2. /\ upd' \in Update /\ upd'.inProgress = upd.inProgress /\ upd'.total = upd.total
      /\ upd'.page = upd.page /\ upd'.stream = upd.stream
  BY <1>1 DEF Update
<1>3. TypeOK'
  <2>1. {appValid', unsafeOk', sessionWord', heard'} \subseteq BOOLEAN
    BY <1>1 DEF TypeOK
  <2> QED
    BY <1>1, <1>2, <2>1 DEF TypeOK, Received
<1>4. ReceiveInv'
  BY <1>1, <1>2 DEF IInv, ReceiveInv, Received, ErasedFrom
<1> QED
  BY <1>1, <1>3, <1>4, QuietInv

LEMMA InactivityAbortInv ==
    ASSUME IInv, InactivityAbort
    PROVE  IInv'
<1>1. /\ TypeOK /\ pc = "listen" /\ then = "none" /\ upd \in Update
      /\ UNCHANGED <<main, backup, log, pc, then, cp, mrec, mgen, frame,
                     appValid, unsafeOk, sessionWord, starts, faults, cuts, heard>>
      /\ upd' = [upd EXCEPT !.inProgress = FALSE, !.failed = FALSE]
  BY DEF IInv, TypeOK, InactivityAbort, ReceiveInv, session, flash, env, thread
<1>2. upd' \in Update /\ ~upd'.inProgress /\ upd'.downgrade = upd.downgrade
  BY <1>1 DEF Update
<1>3. TypeOK'
  BY <1>1, <1>2 DEF TypeOK
<1>4. ReceiveInv'
  BY <1>1, <1>2 DEF ReceiveInv
<1> QED
  BY <1>1, <1>2, <1>3, <1>4, QuietInv DEF IInv, AuthorizationInv

-----------------------------------------------------------------------------
(* The verdict *)

\* Only a state that describes a signed image, all of it, and that does not
\* lower the counter is handed to the metadata log.
LEMMA AcceptInv ==
    ASSUME IInv, NEW i \in Image, Accept(i)
    PROVE  IInv'
<1>1. /\ TypeOK /\ pc = "verify" /\ upd \in Update /\ upd.inProgress
      /\ Installable(i) /\ frame.version \in Versions
      /\ upd' = [upd EXCEPT !.downgrade = FALSE]
      /\ pc' = "metaBegin" /\ then' = "pending" /\ mrec' = Pending(i)
      /\ frame' = NoFrame
      /\ UNCHANGED <<main, backup, log, cp, mgen,
                     appValid, unsafeOk, sessionWord, starts, faults, cuts, heard>>
  BY DEF IInv, TypeOK, Accept, RecordThenCopy, CallMetaWrite, ReceiveInv,
         session, flash, env
<1>2. /\ i \in Signed /\ HardwareOf[i] = upd.hw /\ Size[i] = upd.total
      /\ Version[i] = HeaderVersion(frame.version)
      /\ Digest(backup, upd.total) = ImageDigest(i)
      /\ RollbackCounter[i] >= CounterFloor /\ RollbackCounter[i] \in Nat
      /\ upd.total \in Cells /\ upd.hw \in HardwareIds
  BY <1>1, ImageAssumption DEF Installable, Authentic, SignedHeader, Update,
                               Cells, APP_MAX_SIZE
<1>3. Digest(backup, upd.total) \in Digests
  BY <1>1, <1>2, DigestType DEF TypeOK
<1>4. Pending(i) \in Meta /\ Vouched(Pending(i)) /\ Pending(i).state = COPY_PENDING
      /\ Pending(i).counter = RollbackCounter[i]
  BY <1>1, <1>2, <1>3 DEF Pending, Meta, Vouched
<1>5. HasRecord(log) => Pending(i).counter >= ReadMeta(log).counter
  <2>1. SUFFICES ASSUME HasRecord(log)
                 PROVE  RollbackCounter[i] >= ReadMeta(log).counter
    BY <1>4
  <2>2. ReadMeta(log).counter \in Nat
    BY <1>1, <2>1, ReadMetaFacts DEF IInv, TypeOK, Meta
  <2> QED
    BY <1>2, <2>1, <2>2, ImageAssumption DEF CounterFloor
<1>6. upd' \in Update /\ ~upd'.downgrade /\ upd'.inProgress
      /\ upd'.total = upd.total /\ upd'.stream = upd.stream
  BY <1>1 DEF Update
<1>7. TypeOK'
  BY <1>1, <1>4, <1>6, RestingValues DEF TypeOK, Received
<1>8. MetaWriteInv'
  BY <1>1, <1>4, <1>5 DEF MetaWriteInv, WritesMeta
<1>9. CopyInv' /\ RunInv'
  BY <1>1 DEF CopyInv, Copies, RunInv
<1>10. ReceiveInv' /\ AuthorizationInv'
  BY <1>1, <1>6 DEF ReceiveInv, AuthorizationInv
<1>11. RecordsAreVouched' /\ LogShape(log')
  BY <1>1 DEF IInv, RecordsAreVouched
<1> QED
  BY <1>7, <1>8, <1>9, <1>10, <1>11 DEF IInv

LEMMA RejectInv ==
    ASSUME IInv, Reject
    PROVE  IInv'
<1>1. /\ TypeOK /\ pc = "verify" /\ then = "none"
      /\ upd' = Fail(upd) /\ pc' = "listen" /\ frame' = NoFrame
      /\ UNCHANGED <<main, backup, log, then, cp, mrec, mgen, session,
                     starts, faults, cuts, heard>>
  BY DEF IInv, Reject, ReceiveInv, flash, env
<1>2. /\ log' \in Log /\ LogShape(log') /\ RecordsAreVouched'
      /\ main' \in Slot /\ backup' \in Slot /\ faults' \in 0..MaxFaults
      /\ mrec' \in Meta /\ mgen' \in Nat /\ cp' \in 0..AppPages
  BY <1>1 DEF IInv, TypeOK, RecordsAreVouched
<1> QED
  BY <1>1, <1>2, RestingValues, FailInv

-----------------------------------------------------------------------------
(* The invariant *)

LEMMA InitInv == Init => IInv
<1> SUFFICES ASSUME Init PROVE IInv
  OBVIOUS
<1>1. main \in Slot /\ backup \in Slot
  BY DEF Init, Slot, Content
<1>2. log \in Log /\ LogShape(log) /\ RecordSlots(log) = {}
  BY EmptyPageFacts DEF Init
<1>3. TypeOK
  <2>1. {appValid, unsafeOk, sessionWord, heard} \subseteq BOOLEAN
    BY DEF Init
  <2> QED
    BY <1>1, <1>2, <2>1, RestingValues, HostAssumption, ImageAssumption DEF Init, TypeOK
<1>4. RecordsAreVouched /\ MetaWriteInv /\ CopyInv /\ RunInv
  BY <1>2 DEF Init, RecordsAreVouched, MetaWriteInv, WritesMeta, CopyInv, Copies, RunInv
<1>5. ReceiveInv /\ AuthorizationInv
  BY RestingValues DEF Init, ReceiveInv, AuthorizationInv
<1> QED
  BY <1>2, <1>3, <1>4, <1>5 DEF IInv

\* A version field on the wire is a version.
LEMMA DeclaredType == ASSUME NEW j \in Image PROVE Declared(j) \subseteq Versions
  BY ImageAssumption DEF Declared, Versions

LEMMA BootStepInv ==
    ASSUME IInv, BootStep
    PROVE  IInv'
  BY ApplicationIsValidInv, WindowExpiresInv, MetaBeginInv, MetaEraseInv,
     MetaWriteStepInv, CopyEraseInv, CopyWriteInv, CopyDoneInv, StartEraseInv,
     StartReceivingInv, FlushPageBufferInv, AcceptInv, RejectInv,
     InactivityAbortInv DEF BootStep

LEMMA HostFrameInv ==
    ASSUME IInv, HostFrame
    PROVE  IInv'
<1>1. CASE \E n \in {Size[i] : i \in Image} \cup {0}, hw \in HardwareIds :
              HandleStartUpdate(n, hw)
  <2>1. \A n \in {Size[i] : i \in Image} \cup {0} : n \in Nat
    BY ImageAssumption
  <2> QED
    BY <1>1, <2>1, HandleStartUpdateInv
<1>2. CASE \E k \in 1..RecordChunks, c \in FrameCells : HandleSigChunk(k, c)
  BY <1>2, HandleSigChunkInv
<1>3. CASE \E c \in FrameCells : HandleData(c)
  BY <1>3, HandleDataInv
<1>4. CASE \E i, j \in Image : \E v \in Declared(j) : HandleEndUpdate(ImageDigest(i), v)
  <2>1. PICK i \in Image, j \in Image : \E v \in Declared(j) : HandleEndUpdate(ImageDigest(i), v)
    BY <1>4
  <2>2. PICK v \in Declared(j) : HandleEndUpdate(ImageDigest(i), v)
    BY <2>1
  <2>3. v \in Versions
    BY <2>2, DeclaredType
  <2> QED
    BY <2>2, <2>3, HandleEndUpdateInv
<1>5. CASE HandleAuthorizeDowngrade
  BY <1>5, HandleAuthorizeDowngradeInv
<1> QED
  BY <1>1, <1>2, <1>3, <1>4, <1>5 DEF HostFrame

LEMMA StutterInv ==
    ASSUME IInv, UNCHANGED vars
    PROVE  IInv'
  BY DEF vars, IInv, TypeOK, Received, RecordsAreVouched, MetaWriteInv, WritesMeta,
         CopyInv, Copies, RunInv, Matches, ReceiveInv, ErasedFrom, ErasedBefore,
         AuthorizationInv

LEMMA NextInv == IInv /\ [Next]_vars => IInv'
<1> SUFFICES ASSUME IInv, [Next]_vars PROVE IInv'
  OBVIOUS
<1>1. CASE BootStep
  BY <1>1, BootStepInv
<1>2. CASE HostFrame
  BY <1>2, HostFrameInv
<1>3. CASE \E entry \in BOOLEAN : ResetApplication(entry)
  BY <1>3, ResetApplicationInv
<1>4. CASE PowerCut
  BY <1>4, PowerCutInv
<1>5. CASE UNCHANGED vars
  BY <1>5, StutterInv
<1> QED
  BY <1>1, <1>2, <1>3, <1>4, <1>5 DEF Next

\* IInv is an invariant of the bootloader, for every image table, slot and
\* log size, and number of starts, flash errors and cuts.
THEOREM Invariance == Spec => []IInv
  BY InitInv, NextInv, PTL DEF Spec

\* Type correctness: among the rest, no more cells are taken than
\* HandleStartUpdate was told of.
THEOREM TypeCorrect == Spec => []TypeOK
<1>1. IInv => TypeOK
  BY DEF IInv
<1> QED
  BY <1>1, Invariance, PTL

\* Every record that Metadata_EraseAndWrite appends is about one signed
\* image, or is the baseline adopted when there was no record.
THEOREM Vouching == Spec => []RecordsAreVouched
<1>1. IInv => RecordsAreVouched
  BY DEF IInv
<1> QED
  BY <1>1, Invariance, PTL

\* JumpToApplication starts only what the newest record describes, with no
\* copy pending.
THEOREM StartsWhatIsRecorded == Spec => []RunsWhatIsRecorded
<1>1. IInv => RunsWhatIsRecorded
  BY DEF IInv, RunInv, Matches, RunsWhatIsRecorded
<1> QED
  BY <1>1, Invariance, PTL

\* Flash_WriteVerified, Flash_CopyRegion and the metadata log program erased
\* cells only: what HandleStartUpdate erases covers what is flushed.
THEOREM ErasedBeforeWritten == Spec => []WritesOnlyErased
<1>1. IInv => WritesOnlyErased
  <2> SUFFICES ASSUME IInv PROVE WritesOnlyErased
    OBVIOUS
  <2>1. pc = "flush" => Programmable(backup, upd.page, Received(upd))
    <3> SUFFICES ASSUME pc = "flush", NEW k \in PageCells(upd.page), k <= Received(upd)
                 PROVE  backup[k] = Erased
      BY DEF Programmable
    <3>1. upd \in Update /\ upd.inProgress /\ Received(upd) <= upd.total
          /\ ErasedFrom(upd.page, upd.total)
      BY DEF IInv, TypeOK, ReceiveInv
    <3>2. k \in Cells /\ (k - 1) \div PAGE = upd.page /\ k \in Nat
      BY DEF PageCells, Cells
    <3>3. upd.page \in Nat /\ upd.total \in Nat /\ Received(upd) \in Nat
      BY <3>1 DEF Update, Received
    <3> QED
      BY <3>1, <3>2, <3>3 DEF ErasedFrom
  <2>2. pc = "copyWrite" => Programmable(main, cp, mrec.size)
    BY DEF IInv, CopyInv
  <2>3. pc = "metaWrite" => ~IsFull(log)
    BY DEF IInv, MetaWriteInv
  <2> QED
    BY <2>1, <2>2, <2>3 DEF WritesOnlyErased
<1> QED
  BY <1>1, Invariance, PTL

-----------------------------------------------------------------------------
(* What a step may never do *)

\* Flash_CopyRegion runs over the main slot only while the newest record says
\* that a verified image is pending; a cut in the middle of it does too.
THEOREM CopyOnlyWhenPending == Spec => MainChangesOnlyWhenPending
<1>1. IInv /\ [Next]_vars => [main' # main => HasRecord(log)
                                /\ ReadMeta(log).state = COPY_PENDING]_vars
  <2> SUFFICES ASSUME IInv, [Next]_vars, main' # main
               PROVE  HasRecord(log) /\ ReadMeta(log).state = COPY_PENDING
    OBVIOUS
  <2>1. Copies
    <3>1. ~UNCHANGED vars /\ Next
      BY DEF vars
    <3>2. CASE BootStep
      BY <3>2 DEF BootStep, ApplicationIsValid, WindowExpires, MetaBegin, MetaErase,
                  MetaWrite, CopyErase, CopyWrite, CopyDone, StartErase,
                  StartReceiving, FlushPageBuffer, Accept, Reject, InactivityAbort,
                  flash, Copies
    <3>3. CASE HostFrame
      BY <3>3 DEF HostFrame, HandleStartUpdate, HandleSigChunk, HandleData,
                  HandleEndUpdate, HandleAuthorizeDowngrade, flash
    <3>4. CASE \E entry \in BOOLEAN : ResetApplication(entry)
      BY <3>4 DEF ResetApplication, flash
    <3>5. CASE PowerCut
      BY <3>5 DEF PowerCut, CutMain, Copies
    <3> QED
      BY <3>1, <3>2, <3>3, <3>4, <3>5 DEF Next
  <2> QED
    BY <2>1 DEF IInv, CopyInv
<1> QED
  BY <1>1, Invariance, PTL DEF Spec, MainChangesOnlyWhenPending

\* Metadata_EraseAndWrite never appends a record of a lower counter than the
\* newest, whoever called it and however often it was cut.
THEOREM CounterIsMonotonic == Spec => CounterNeverFalls
<1>1. IInv /\ [Next]_vars => [HasRecord(log) /\ HasRecord(log')
                                => ReadMeta(log').counter >= ReadMeta(log).counter]_vars
  <2> SUFFICES ASSUME IInv, [Next]_vars, HasRecord(log), HasRecord(log')
               PROVE  ReadMeta(log').counter >= ReadMeta(log).counter
    OBVIOUS
  <2>1. log \in Log /\ LogShape(log)
    BY DEF IInv, TypeOK
  <2>2. ReadMeta(log).counter \in Nat
    BY <2>1, ReadMetaFacts DEF Meta
  <2>3. CASE log' = log
    BY <2>2, <2>3
  <2>4. CASE MetaErase
    <3>1. log' \in {BlankPage, TornPage, log}
      BY <2>4 DEF MetaErase
    <3>2. log' = log
      BY <3>1, EmptyPageFacts
    <3> QED
      BY <2>3, <3>2
  <2>5. CASE MetaWrite
    <3>1. /\ ~IsFull(log) /\ mrec \in Meta /\ mgen \in Nat
          /\ \A s \in RecordSlots(log) : log[s].gen < mgen
          /\ mrec.counter >= ReadMeta(log).counter
      BY <2>5 DEF IInv, TypeOK, MetaWriteInv, WritesMeta, MetaWrite
    <3> DEFINE r == [gen |-> mgen, meta |-> mrec]
    <3>2. r \in Record /\ r.gen = mgen /\ r.meta = mrec
      BY <3>1 DEF Record
    <3>3. CASE log' = Appended(log, r)
      <4>1. \A s \in RecordSlots(log) : log[s].gen < r.gen
        BY <3>1, <3>2
      <4> HIDE DEF r
      <4>2. ReadMeta(log') = mrec
        BY <2>1, <3>1, <3>2, <3>3, <4>1, AppendFacts
      <4> QED
        BY <3>1, <4>2
    <3>4. CASE log' = Appended(log, TornRecord)
      BY <2>1, <2>2, <3>1, <3>4, TearFacts
    <3> QED
      BY <2>3, <2>5, <3>3, <3>4 DEF MetaWrite
  <2>6. CASE PowerCut
    <3>1. CASE log' = TornPage
      BY <3>1, EmptyPageFacts
    <3>2. CASE pc = "metaWrite" /\ log' = Appended(log, TornRecord)
      <4>1. ~IsFull(log)
        BY <3>2 DEF IInv, MetaWriteInv
      <4> QED
        BY <2>1, <2>2, <3>2, <4>1, TearFacts
    <3> QED
      BY <2>3, <2>6, <3>1, <3>2 DEF PowerCut, CutLog
  <2>7. BootStep => log' = log \/ MetaErase \/ MetaWrite
    BY DEF BootStep, ApplicationIsValid, WindowExpires, MetaBegin,
           CopyErase, CopyWrite, CopyDone, StartErase,
           StartReceiving, FlushPageBuffer, Accept, Reject, InactivityAbort, flash
  <2>8. HostFrame => log' = log
    BY DEF HostFrame, HandleStartUpdate, HandleSigChunk, HandleData,
           HandleEndUpdate, HandleAuthorizeDowngrade, flash
  <2>9. (\E entry \in BOOLEAN : ResetApplication(entry)) => log' = log
    BY DEF ResetApplication, flash
  <2>10. UNCHANGED vars => log' = log
    BY DEF vars
  <2> QED
    BY <2>3, <2>4, <2>5, <2>6, <2>7, <2>8, <2>9, <2>10 DEF Next
<1> QED
  BY <1>1, Invariance, PTL DEF Spec, CounterNeverFalls

\* HandleEndUpdate takes an image that declares an older version only when
\* the host authorised the downgrade since HandleStartUpdate.
THEOREM DowngradeNeedsAuthorization == Spec => DowngradeWasAuthorized
<1>1. IInv /\ [Next]_vars =>
         [pc = "verify" /\ pc' = "metaBegin" /\ IsDowngrade => heard]_vars
  <2> SUFFICES ASSUME IInv, [Next]_vars, pc = "verify", pc' = "metaBegin", IsDowngrade
               PROVE  heard
    OBVIOUS
  <2>1. Next
    BY DEF vars
  <2>2. ~PowerCut /\ ~(\E entry \in BOOLEAN : ResetApplication(entry))
    BY DEF PowerCut, ResetApplication
  <2>3. ~HostFrame
    BY DEF HostFrame, HandleStartUpdate, HandleSigChunk, HandleData, Receiving,
           HandleEndUpdate, HandleAuthorizeDowngrade
  <2>4. BootStep => \E i \in Image : Accept(i)
    BY DEF BootStep, ApplicationIsValid, WindowExpires, MetaBegin, MetaErase,
           MetaWrite, CopyErase, CopyWrite, CopyDone, StartErase,
           StartReceiving, FlushPageBuffer, Reject, InactivityAbort
  <2>5. PICK i \in Image : Accept(i)
    BY <2>1, <2>2, <2>3, <2>4 DEF Next
  <2> QED
    BY <2>5 DEF Accept, Installable, IInv, AuthorizationInv
<1> QED
  BY <1>1, Invariance, PTL DEF Spec, DowngradeWasAuthorized

-----------------------------------------------------------------------------
(***************************************************************************)
(* On flash without errors an update of the master is atomic: while a copy *)
(* is pending the backup slot holds the image to copy, and MasterBoot      *)
(* implements AtomicInstall, whenever the power is cut.  PendingInv of     *)
(* MasterBoot is inductive together with IInv.                             *)
(***************************************************************************)

\* An operation that errs is counted.
LEMMA NoFaults ==
    ASSUME IInv, faults' = 0
    PROVE  ~(CanFault /\ faults' = faults + 1)
  BY DEF IInv, TypeOK

\* A slot holds the digest of a record if it is, as far as it counts, equal
\* to one that does.
LEMMA SameDigest ==
    ASSUME NEW n \in Cells, NEW x, NEW y, \A k \in Cells : k <= n => x[k] = y[k]
    PROVE  Digest(x, n) = Digest(y, n)
<1>1. \A k \in 1..n : k \in Cells /\ k <= n
  BY SlotSize DEF Cells
<1> QED
  BY <1>1 DEF Digest

\* A slot that holds what a record says of an image holds the image.
LEMMA InSlotHolds ==
    ASSUME NEW m, NEW i \in Image, IsOf(m, i), NEW region, InSlot(m, region)
    PROVE  Digest(region, Size[i]) = ImageDigest(i)
  BY DEF IsOf, InSlot

-----------------------------------------------------------------------------
(* PendingInv is preserved *)

\* Whatever is done outside a copy and a metadata write: no copy is pending.
LEMMA OtherWork ==
    ASSUME PendingInv, UNCHANGED <<main, log>>,
           pc \in {"window", "listen", "app", "startErase", "flush", "verify"},
           pc' \in {"window", "listen", "app", "startErase", "flush", "verify", "boot"}
    PROVE  PendingInv'
<1>1. ~IsPendingCopy(log)
  BY DEF PendingInv, Copies, WritesMeta
<1>2. ~IsPendingCopy(log)' /\ ~Copies' /\ ~WritesMeta'
  BY <1>1 DEF IsPendingCopy, Copies, WritesMeta
<1>3. MainIsWhole'
  BY <1>1 DEF PendingInv, MainIsWhole, Holds
<1> QED
  BY <1>2, <1>3 DEF PendingInv

\* The end of a metadata write that is in the log.
LEMMA RecordedPending ==
    ASSUME IInv, PendingInv, WritesMeta, MetaWriteReturns(TRUE),
           UNCHANGED <<main, backup>>, HasRecord(log'), ReadMeta(log') = mrec
    PROVE  PendingInv'
<1>1. /\ then \in {"adopt", "resumed", "pending", "done"}
      /\ mrec.state = IF then = "pending" THEN COPY_PENDING ELSE APP_VALID
  BY DEF IInv, MetaWriteInv
<1>2. CASE then # "pending"
  <2>1. pc' \in {"window", "boot"}
    BY <1>1, <1>2 DEF MetaWriteReturns, OpenWindow
  <2>2. ~IsPendingCopy(log')
    BY <1>1, <1>2 DEF IsPendingCopy, COPY_PENDING, APP_VALID
  <2>3. MainIsWhole
    <3>1. CASE then = "adopt"
      BY <3>1 DEF PendingInv, Copies, WritesMeta
    <3>2. CASE then \in {"resumed", "done"}
      <4>1. PICK i \in Signed : IsOf(mrec, i)
        BY <3>2 DEF PendingInv
      <4>2. i \in Image /\ InSlot(mrec, main)
        BY <3>2, <4>1, ImageAssumption DEF PendingInv
      <4>3. Holds(i)
        BY <4>1, <4>2, InSlotHolds DEF Holds
      <4> QED
        BY <4>2, <4>3 DEF MainIsWhole
    <3> QED
      BY <1>1, <1>2, <3>1, <3>2
  <2>4. MainIsWhole'
    BY <2>3 DEF MainIsWhole, Holds
  <2> QED
    BY <2>1, <2>2, <2>4 DEF PendingInv, Copies, WritesMeta
<1>3. CASE then = "pending"
  <2>1. pc' = "copyErase" /\ cp' = 0 /\ mrec' = mrec
    BY <1>3 DEF MetaWriteReturns
  <2>2. InSlot(ReadMeta(log'), backup') /\ ReadMeta(log').hw = THIS_HARDWARE_ID
    BY <1>3 DEF PendingInv, InSlot
  <2>3. \A k \in Cells : ~((k - 1) \div PAGE < cp')
    BY <2>1, PageOfCell
  <2>4. IsPendingCopy(log')
    BY <1>1, <1>3 DEF IsPendingCopy
  <2> QED
    BY <2>1, <2>2, <2>3, <2>4 DEF PendingInv, Copies, WritesMeta
<1> QED
  BY <1>2, <1>3

\* The page of the log is erased, or torn by a cut: what was pending is in
\* the main slot already.
LEMMA ErasedLogPending ==
    ASSUME PendingInv, WritesMeta, UNCHANGED main
    PROVE  MainIsWhole'
<1>1. MainIsWhole
  <2>1. CASE IsPendingCopy(log)
    <3>1. then \in {"resumed", "done"}
      BY <2>1 DEF PendingInv, Copies, WritesMeta
    <3>2. PICK i \in Signed : IsOf(mrec, i)
      BY <3>1 DEF PendingInv
    <3>3. i \in Image /\ InSlot(mrec, main)
      BY <3>1, <3>2, ImageAssumption DEF PendingInv
    <3>4. Holds(i)
      BY <3>2, <3>3, InSlotHolds DEF Holds
    <3> QED
      BY <3>3, <3>4 DEF MainIsWhole
  <2>2. CASE ~IsPendingCopy(log)
    BY <2>2 DEF PendingInv
  <2> QED
    BY <2>1, <2>2
<1> QED
  BY <1>1 DEF MainIsWhole, Holds

LEMMA ApplicationIsValidPending ==
    ASSUME IInv, PendingInv, ApplicationIsValid
    PROVE  PendingInv'
<1>1. /\ pc = "boot" /\ UNCHANGED <<main, backup, log>>
  BY DEF ApplicationIsValid, flash
<1>2. IsPendingCopy(log)' = IsPendingCopy(log)
  BY <1>1 DEF IsPendingCopy
<1>3. ~IsPendingCopy(log) => MainIsWhole'
  BY <1>1 DEF PendingInv, MainIsWhole, Holds
<1>4. CASE ~IsPendingCopy(log) /\ (pc' = "window" \/ (pc' = "metaBegin" /\ then' = "adopt"))
  BY <1>2, <1>3, <1>4 DEF PendingInv, Copies, WritesMeta
<1>5. CASE /\ HasRecord(log) /\ ResumesCopy(ReadMeta(log))
           /\ pc' = "copyErase" /\ mrec' = ReadMeta(log) /\ cp' = 0
  <2>1. IsPendingCopy(log)
    BY <1>5 DEF IsPendingCopy, ResumesCopy
  <2>2. InSlot(ReadMeta(log), backup)' /\ ReadMeta(log)'.hw = THIS_HARDWARE_ID
    BY <1>1, <2>1 DEF PendingInv, InSlot
  <2>3. \A k \in Cells : ~((k - 1) \div PAGE < cp')
    BY <1>5, PageOfCell
  <2> QED
    BY <1>2, <1>5, <2>1, <2>2, <2>3 DEF PendingInv, Copies, WritesMeta
<1>6. HasRecord(log) /\ (ReadMeta(log).hw = THIS_HARDWARE_ID => ~ResumesCopy(ReadMeta(log)))
         => ~IsPendingCopy(log)
  BY DEF PendingInv, IsPendingCopy, ResumesCopy
<1>7. ~HasRecord(log) => ~IsPendingCopy(log)
  BY DEF IsPendingCopy
<1> QED
  BY <1>4, <1>5, <1>6, <1>7 DEF ApplicationIsValid, CallMetaWrite, OpenWindow

LEMMA MetaBeginPending ==
    ASSUME IInv, PendingInv, MetaBegin
    PROVE  PendingInv'
<1>1. /\ WritesMeta /\ UNCHANGED <<main, backup, log>>
  BY DEF MetaBegin, WritesMeta, flash
<1>2. CASE IsLogged(mrec) /\ MetaWriteReturns(TRUE)
  BY <1>1, <1>2, RecordedPending DEF IsLogged
<1>3. CASE pc' \in {"metaErase", "metaWrite"} /\ UNCHANGED <<then, mrec>>
  <2>1. WritesMeta' /\ ~Copies'
    BY <1>3 DEF WritesMeta, Copies
  <2>2. /\ IsPendingCopy(log)' = IsPendingCopy(log) /\ MainIsWhole' = MainIsWhole
        /\ ReadMeta(log)' = ReadMeta(log)
        /\ InSlot(ReadMeta(log), backup)' = InSlot(ReadMeta(log), backup)
        /\ InSlot(mrec, backup)' = InSlot(mrec, backup)
        /\ InSlot(mrec, main)' = InSlot(mrec, main)
    BY <1>1, <1>3 DEF IsPendingCopy, MainIsWhole, Holds, InSlot
  <2> QED
    BY <1>1, <1>3, <2>1, <2>2 DEF PendingInv, Copies, WritesMeta
<1> QED
  BY <1>2, <1>3 DEF MetaBegin

LEMMA MetaErasePending ==
    ASSUME IInv, PendingInv, MetaErase, faults' = 0
    PROVE  PendingInv'
<1>1. /\ WritesMeta /\ log' = BlankPage /\ pc' = "metaWrite"
      /\ UNCHANGED <<main, backup, then, mrec>>
  BY NoFaults DEF MetaErase, WritesMeta
<1>2. ~IsPendingCopy(log') /\ MainIsWhole' /\ ~Copies' /\ WritesMeta'
  BY <1>1, EmptyPageFacts, ErasedLogPending DEF IsPendingCopy, Copies, WritesMeta
<1>3. /\ InSlot(mrec, backup)' = InSlot(mrec, backup)
      /\ InSlot(mrec, main)' = InSlot(mrec, main)
  BY <1>1 DEF InSlot
<1> QED
  BY <1>1, <1>2, <1>3 DEF PendingInv

LEMMA MetaWritePending ==
    ASSUME IInv, PendingInv, MetaWrite, faults' = 0
    PROVE  PendingInv'
<1>1. /\ WritesMeta /\ ~IsFull(log) /\ mrec \in Meta /\ mgen \in Nat
      /\ log \in Log /\ LogShape(log)
      /\ \A s \in RecordSlots(log) : log[s].gen < mgen
  BY DEF IInv, TypeOK, MetaWriteInv, WritesMeta, MetaWrite
<1>2. /\ log' = Appended(log, [gen |-> mgen, meta |-> mrec]) /\ MetaWriteReturns(TRUE)
      /\ UNCHANGED <<main, backup>>
  BY NoFaults DEF MetaWrite
<1> DEFINE r == [gen |-> mgen, meta |-> mrec]
<1>3. r \in Record /\ r.gen = mgen /\ r.meta = mrec /\ log' = Appended(log, r)
  BY <1>1, <1>2 DEF Record
<1>4. HasRecord(log') /\ ReadMeta(log') = mrec
  <2>1. \A s \in RecordSlots(log) : log[s].gen < r.gen
    BY <1>1, <1>3
  <2> HIDE DEF r
  <2> QED
    BY <1>1, <1>3, <2>1, AppendFacts
<1> QED
  BY <1>1, <1>2, <1>4, RecordedPending

LEMMA CopyErasePending ==
    ASSUME IInv, PendingInv, CopyErase, faults' = 0
    PROVE  PendingInv'
<1>1. /\ pc = "copyErase" /\ pc' = "copyWrite"
      /\ main' = FillPage(main, cp, Erased) /\ UNCHANGED <<backup, log, cp, mrec>>
  BY NoFaults DEF CopyErase, Succeeds, EraseErrs
<1>2. IsPendingCopy(log) /\ cp \in Int /\ main \in Slot /\ Erased \in Content
  BY <1>1 DEF IInv, TypeOK, CopyInv, Copies, IsPendingCopy, Content
<1>3. \A k \in Cells : (k - 1) \div PAGE < cp => main'[k] = main[k]
  <2>1. \A k \in Cells : main'[k] = IF (k - 1) \div PAGE = cp THEN Erased ELSE main[k]
    BY <1>1, <1>2, FillPageFacts
  <2>2. \A k \in Cells : (k - 1) \div PAGE < cp => (k - 1) \div PAGE # cp
    BY <1>2, PageOfCell
  <2> QED
    BY <2>1, <2>2
<1>4. IsPendingCopy(log') /\ InSlot(ReadMeta(log), backup)' = InSlot(ReadMeta(log), backup)
  BY <1>1, <1>2 DEF InSlot
<1> QED
  BY <1>1, <1>2, <1>3, <1>4 DEF PendingInv, Copies, WritesMeta

LEMMA CopyWritePending ==
    ASSUME IInv, PendingInv, CopyWrite, faults' = 0
    PROVE  PendingInv'
<1>1. pc = "copyWrite" /\ Programmable(main, cp, mrec.size)
  BY DEF IInv, CopyInv, CopyWrite
<1>2. /\ pc' = "copyErase" /\ cp' = cp + 1
      /\ main' = WritePage(main, cp, backup, mrec.size)
      /\ UNCHANGED <<backup, log, mrec>>
  BY <1>1, NoFaults DEF CopyWrite, Succeeds, WriteErrs
<1>3. IsPendingCopy(log) /\ cp \in Int /\ main \in Slot
  BY <1>1 DEF IInv, TypeOK, CopyInv, Copies, IsPendingCopy
<1>4. ASSUME NEW k \in Cells, (k - 1) \div PAGE < cp', k <= mrec.size
      PROVE  main'[k] = backup[k]
  <2>1. main'[k] = IF (k - 1) \div PAGE = cp /\ k <= mrec.size THEN backup[k] ELSE main[k]
    BY <1>2 DEF WritePage, PageCells
  <2>2. (k - 1) \div PAGE < cp \/ (k - 1) \div PAGE = cp
    BY <1>2, <1>3, <1>4, PageOfCell
  <2>3. (k - 1) \div PAGE < cp => main[k] = backup[k]
    BY <1>1, <1>4 DEF PendingInv, Copies
  <2> QED
    BY <1>4, <2>1, <2>2, <2>3
<1>5. IsPendingCopy(log') /\ InSlot(ReadMeta(log), backup)' = InSlot(ReadMeta(log), backup)
  BY <1>2, <1>3 DEF InSlot
<1> QED
  BY <1>1, <1>2, <1>3, <1>4, <1>5 DEF PendingInv, Copies, WritesMeta

LEMMA CopyDonePending ==
    ASSUME IInv, PendingInv, CopyDone
    PROVE  PendingInv'
<1>1. /\ pc = "copyErase" /\ cp = PagesNeeded(mrec.size)
      /\ mrec' = [mrec EXCEPT !.state = APP_VALID]
      /\ then' \in {"resumed", "done"} /\ pc' = "metaBegin"
      /\ UNCHANGED <<main, backup, log>>
  BY DEF CopyDone, CallMetaWrite, flash
<1>2. /\ IsPendingCopy(log) /\ ReadMeta(log) = mrec /\ mrec.state = COPY_PENDING
      /\ mrec \in Meta /\ mrec.size \in Cells /\ log \in Log /\ LogShape(log)
  BY <1>1 DEF IInv, TypeOK, CopyInv, Copies, IsPendingCopy, Meta
<1>3. mrec'.size = mrec.size /\ mrec'.digest = mrec.digest
  BY <1>1, <1>2 DEF Meta
<1>4. InSlot(mrec', main')
  <2>1. \A k \in Cells : k <= mrec.size => main[k] = backup[k]
    BY <1>1, <1>2, PagesCover DEF PendingInv, Copies
  <2>2. Digest(main, mrec.size) = Digest(backup, mrec.size)
    BY <1>2, <2>1, SameDigest
  <2> QED
    BY <1>1, <1>2, <1>3, <2>2 DEF PendingInv, InSlot
<1>5. \E i \in Signed : IsOf(mrec', i)
  <2>1. PICK s \in RecordSlots(log) : ReadMeta(log) = log[s].meta
    BY <1>2, ReadMetaFacts DEF IsPendingCopy
  <2>2. ~IsAdopted(mrec)
    BY <1>2 DEF IsAdopted, COPY_PENDING, APP_VALID
  <2>3. Vouched(mrec)
    BY <1>2, <2>1, <2>2 DEF IInv, RecordsAreVouched
  <2> QED
    BY <1>3, <2>3 DEF Vouched, IsOf
<1>6. /\ IsPendingCopy(log') /\ ReadMeta(log') = ReadMeta(log)
      /\ InSlot(ReadMeta(log), backup)' = InSlot(ReadMeta(log), backup)
  BY <1>1, <1>2 DEF InSlot
<1> QED
  BY <1>1, <1>2, <1>3, <1>4, <1>5, <1>6 DEF PendingInv, Copies, WritesMeta

\* What is recorded as pending is what the backup slot was verified to hold.
LEMMA AcceptPending ==
    ASSUME IInv, PendingInv, NEW i \in Image, Accept(i)
    PROVE  PendingInv'
<1>1. /\ pc = "verify" /\ pc' = "metaBegin" /\ then' = "pending" /\ mrec' = Pending(i)
      /\ UNCHANGED <<main, backup, log>>
  BY DEF Accept, RecordThenCopy, CallMetaWrite, flash
<1>2. ~IsPendingCopy(log') /\ MainIsWhole'
  <2>1. ~IsPendingCopy(log)
    BY <1>1 DEF PendingInv, Copies, WritesMeta
  <2> QED
    BY <1>1, <2>1 DEF PendingInv, IsPendingCopy, MainIsWhole, Holds
<1>3. upd.hw = THIS_HARDWARE_ID
  BY DEF IInv, TypeOK, Update
<1>4. InSlot(mrec', backup') /\ mrec'.hw = THIS_HARDWARE_ID
  BY <1>1, <1>3 DEF Pending, InSlot
<1> QED
  BY <1>1, <1>2, <1>4 DEF PendingInv, Copies

\* A cut of the copy leaves the backup slot and the record; a cut of the
\* metadata write leaves a main slot that is whole.
LEMMA PowerCutPending ==
    ASSUME IInv, PendingInv, PowerCut
    PROVE  PendingInv'
<1>1. pc' = "boot" /\ CutMain /\ CutBackup /\ CutLog /\ log \in Log /\ LogShape(log)
  BY DEF PowerCut, IInv, TypeOK
<1>2. ~Copies' /\ ~WritesMeta'
  BY <1>1 DEF Copies, WritesMeta
<1>3. Copies => IsPendingCopy(log)
  BY DEF IInv, CopyInv, IsPendingCopy
<1>4. IsPendingCopy(log) => backup' = backup
  <2>1. IsPendingCopy(log) => pc \notin {"startErase", "flush"}
    BY DEF PendingInv, Copies, WritesMeta
  <2> QED
    BY <1>1, <2>1 DEF CutBackup
<1>5. ~Copies => main' = main
  BY <1>1 DEF CutMain, Copies
<1>6. CASE IsPendingCopy(log') = IsPendingCopy(log) /\ (HasRecord(log) => ReadMeta(log') = ReadMeta(log))
  <2>1. CASE IsPendingCopy(log)
    <3>1. ReadMeta(log') = ReadMeta(log) /\ backup' = backup
      BY <1>4, <1>6, <2>1 DEF IsPendingCopy
    <3>2. InSlot(ReadMeta(log), backup)' /\ ReadMeta(log)'.hw = THIS_HARDWARE_ID
      BY <2>1, <3>1 DEF PendingInv, InSlot
    <3> QED
      BY <1>1, <1>2, <1>6, <2>1, <3>2 DEF PendingInv
  <2>2. CASE ~IsPendingCopy(log)
    <3>1. MainIsWhole'
      BY <1>3, <1>5, <2>2 DEF PendingInv, MainIsWhole, Holds
    <3> QED
      BY <1>2, <1>6, <2>2, <3>1 DEF PendingInv
  <2> QED
    BY <2>1, <2>2
<1>7. CASE pc = "metaErase" /\ log' = TornPage
  <2>1. WritesMeta /\ main' = main /\ ~IsPendingCopy(log')
    BY <1>5, <1>7, EmptyPageFacts DEF WritesMeta, Copies, IsPendingCopy
  <2> QED
    BY <1>2, <2>1, ErasedLogPending DEF PendingInv
<1>8. CASE pc = "metaWrite" /\ log' = Appended(log, TornRecord)
  <2>1. ~IsFull(log)
    BY <1>8 DEF IInv, MetaWriteInv
  <2>2. /\ HasRecord(log') <=> HasRecord(log)
        /\ HasRecord(log) => ReadMeta(log') = ReadMeta(log)
    BY <1>1, <1>8, <2>1, TearFacts
  <2> QED
    BY <1>6, <2>2 DEF IsPendingCopy
<1> QED
  BY <1>1, <1>6, <1>7, <1>8 DEF CutLog

LEMMA InitPending == Init => PendingInv
<1> SUFFICES ASSUME Init PROVE PendingInv
  OBVIOUS
<1>1. ~IsPendingCopy(log) /\ ~Copies /\ ~WritesMeta
  BY EmptyPageFacts DEF Init, IsPendingCopy, Copies, WritesMeta
<1>2. MainIsWhole
  <2>1. CASE main = [k \in Cells |-> Erased]
    BY <2>1, SlotSize DEF MainIsWhole
  <2>2. CASE \E i \in Image : main = [k \in Cells |-> IF k <= Size[i] THEN i ELSE Erased]
    <3>1. PICK i \in Image : main = [k \in Cells |-> IF k <= Size[i] THEN i ELSE Erased]
      BY <2>2
    <3>2. \A k \in 1..Size[i] : k \in Cells /\ k <= Size[i]
      BY SlotSize, ImageAssumption DEF Cells, APP_MAX_SIZE
    <3>3. Holds(i)
      BY <3>1, <3>2 DEF Holds, Digest, ImageDigest
    <3> QED
      BY <3>3 DEF MainIsWhole
  <2> QED
    BY <2>1, <2>2 DEF Init
<1> QED
  BY <1>1, <1>2 DEF PendingInv

LEMMA BootStepPending ==
    ASSUME IInv, PendingInv, BootStep, faults' = 0
    PROVE  PendingInv'
<1>1. CASE WindowExpires \/ StartErase \/ StartReceiving \/ FlushPageBuffer \/ Reject
             \/ InactivityAbort
  <2>1. UNCHANGED <<main, log>>
    BY <1>1 DEF WindowExpires, StartErase, StartReceiving, FlushPageBuffer, Reject,
                InactivityAbort, flash
  <2>2. /\ pc \in {"window", "listen", "app", "startErase", "flush", "verify"}
        /\ pc' \in {"window", "listen", "app", "startErase", "flush", "verify", "boot"}
    BY <1>1 DEF WindowExpires, StartErase, StartReceiving, FlushPageBuffer, Reject,
                InactivityAbort, thread
  <2> QED
    BY <2>1, <2>2, OtherWork
<1> QED
  BY <1>1, ApplicationIsValidPending, MetaBeginPending, MetaErasePending, MetaWritePending,
     CopyErasePending, CopyWritePending, CopyDonePending, AcceptPending DEF BootStep

LEMMA HostFramePending ==
    ASSUME PendingInv, HostFrame
    PROVE  PendingInv'
<1>1. UNCHANGED <<main, log>>
  BY DEF HostFrame, HandleStartUpdate, HandleSigChunk, HandleData, HandleEndUpdate,
         HandleAuthorizeDowngrade, flash
<1>2. /\ pc \in {"window", "listen", "app", "startErase", "flush", "verify"}
      /\ pc' \in {"window", "listen", "app", "startErase", "flush", "verify", "boot"}
  BY DEF HostFrame, HandleStartUpdate, HandleSigChunk, HandleData, HandleEndUpdate,
         HandleAuthorizeDowngrade, Receiving, thread
<1> QED
  BY <1>1, <1>2, OtherWork

LEMMA NextPending ==
    ASSUME IInv, PendingInv, [Next]_vars, faults' = 0
    PROVE  PendingInv'
<1>1. CASE \E entry \in BOOLEAN : ResetApplication(entry)
  <2>1. UNCHANGED <<main, log>> /\ pc = "app" /\ pc' = "boot"
    BY <1>1 DEF ResetApplication, flash
  <2> QED
    BY <2>1, OtherWork
<1>2. CASE UNCHANGED vars
  <2>1. UNCHANGED <<main, backup, log, pc, then, mrec, cp>>
    BY <1>2 DEF vars, flash, thread
  <2> QED
    BY <2>1 DEF PendingInv, IsPendingCopy, MainIsWhole, Holds, InSlot, Copies, WritesMeta
<1> QED
  BY <1>1, <1>2, BootStepPending, HostFramePending, PowerCutPending DEF Next

\* Errors are counted, and never forgotten.
LEMMA FaultsGrow ==
    ASSUME IInv, [Next]_vars
    PROVE  faults \in Nat /\ faults' \in {faults, faults + 1}
<1>1. faults \in Nat
  BY HostAssumption DEF IInv, TypeOK
<1>2. CASE HostFrame \/ UNCHANGED vars \/ \E entry \in BOOLEAN : ResetApplication(entry)
  BY <1>1, <1>2 DEF HostFrame, HandleStartUpdate, HandleSigChunk, HandleData, HandleEndUpdate,
              HandleAuthorizeDowngrade, ResetApplication, vars, env
<1>3. CASE PowerCut
  BY <1>1, <1>3 DEF PowerCut
<1>4. CASE MetaErase \/ MetaWrite \/ CopyErase \/ CopyWrite \/ StartErase \/ FlushPageBuffer
  BY <1>1, <1>4 DEF MetaErase, MetaWrite, CopyErase, CopyWrite, StartErase, FlushPageBuffer,
              Succeeds, EraseErrs, WriteErrs
<1>5. CASE BootStep /\ ~(\/ MetaErase \/ MetaWrite \/ CopyErase \/ CopyWrite \/ StartErase
                         \/ FlushPageBuffer)
  BY <1>1, <1>5 DEF BootStep, ApplicationIsValid, WindowExpires, MetaBegin, CopyDone, StartReceiving,
              Accept, Reject, InactivityAbort, env
<1> QED
  BY <1>1, <1>2, <1>3, <1>4, <1>5 DEF Next

\* Until the flash errs, a pending copy is intact and leads to an image that
\* is whole.
THEOREM Atomicity == Spec => []AtomicInv
<1>1. Init => AtomicInv
  BY InitPending DEF AtomicInv
<1>2. IInv /\ AtomicInv /\ [Next]_vars => AtomicInv'
  BY NextPending, FaultsGrow DEF AtomicInv
<1> QED
  BY <1>1, <1>2, Invariance, PTL DEF Spec

-----------------------------------------------------------------------------
(* How the backup slot of a pending copy can be lost *)

\* Nothing touches the backup slot between the digest and the record of it.
LEMMA RecordedSlotKept ==
    ASSUME IInv, RecordedSlotInv, [Next]_vars
    PROVE  RecordedSlotInv'
<1> SUFFICES ASSUME WritesMeta', then' = "pending" PROVE InSlot(mrec, backup)'
  BY DEF RecordedSlotInv
<1>1. CASE WritesMeta /\ UNCHANGED <<then, mrec, backup>>
  BY <1>1 DEF RecordedSlotInv, InSlot
<1>2. CASE \E i \in Image : Accept(i)
  BY <1>2 DEF Accept, RecordThenCopy, CallMetaWrite, Pending, InSlot, flash
<1>3. CASE PowerCut
  BY <1>3 DEF PowerCut, WritesMeta
<1>4. CASE MetaBegin \/ MetaErase \/ MetaWrite
  <2>1. WritesMeta /\ backup' = backup
    BY <1>4 DEF MetaBegin, MetaErase, MetaWrite, WritesMeta, flash
  <2>2. ~MetaWriteReturns(TRUE) /\ ~MetaWriteReturns(FALSE)
    BY DEF MetaWriteReturns, OpenWindow, WritesMeta
  <2>3. UNCHANGED <<then, mrec>>
    BY <1>4, <2>2 DEF MetaBegin, MetaErase, MetaWrite
  <2> QED
    BY <1>1, <2>1, <2>3
<1>5. CASE CopyDone \/ ApplicationIsValid
  BY <1>5 DEF CopyDone, ApplicationIsValid, CallMetaWrite, OpenWindow, WritesMeta
<1>6. CASE CopyErase \/ CopyWrite
  BY <1>6 DEF CopyErase, CopyWrite, CopyFails, OpenWindow, WritesMeta
<1>7. CASE \/ WindowExpires \/ StartErase \/ StartReceiving \/ FlushPageBuffer \/ Reject
           \/ InactivityAbort
  BY <1>7 DEF WindowExpires, StartErase, StartReceiving, FlushPageBuffer, Reject,
              InactivityAbort, WritesMeta, thread
<1>8. CASE HostFrame \/ \E entry \in BOOLEAN : ResetApplication(entry)
  BY <1>8 DEF HostFrame, HandleStartUpdate, HandleSigChunk, HandleData, HandleEndUpdate,
              HandleAuthorizeDowngrade, Receiving, ResetApplication, WritesMeta, thread
<1>9. CASE UNCHANGED vars
  BY <1>1, <1>9 DEF vars, WritesMeta
<1> QED
  BY <1>2, <1>3, <1>4, <1>5, <1>6, <1>7, <1>8, <1>9 DEF Next, BootStep

\* A flush goes to a page that START_UPDATE erased: no part of a whole image.
LEMMA FlushSparesIntact ==
    ASSUME IInv, pc = "flush", IsPendingCopy(log), InSlot(ReadMeta(log), backup),
           \A k \in Cells : (k - 1) \div PAGE # upd.page => backup'[k] = backup[k]
    PROVE  InSlot(ReadMeta(log), backup')
<1> DEFINE m == ReadMeta(log)
<1>1. PICK i \in Signed : m.size = Size[i] /\ m.digest = ImageDigest(i)
  <2>1. \E s \in RecordSlots(log) : m = log[s].meta
    BY ReadMetaFacts DEF IInv, TypeOK, IsPendingCopy
  <2>2. ~IsAdopted(m)
    BY DEF IsPendingCopy, IsAdopted, COPY_PENDING, APP_VALID
  <2> QED
    BY <2>1, <2>2 DEF IInv, RecordsAreVouched, Vouched
<1>2. i \in Image /\ i # Erased /\ Size[i] \in Cells /\ Size[i] \in Nat
  BY ImageAssumption DEF Cells, APP_MAX_SIZE
<1>3. \A k \in 1..Size[i] : backup[k] = i
  BY <1>1 DEF InSlot, Digest, ImageDigest
<1>4. /\ upd.page \in Nat /\ PAGE \in Nat \ {0} /\ upd.total \in Nat /\ Received(upd) \in Nat
      /\ upd.page * PAGE < Received(upd) /\ Received(upd) <= upd.total
      /\ ErasedFrom(upd.page, upd.total) /\ upd.total <= APP_MAX_SIZE
  BY SlotSize, ImageAssumption DEF IInv, TypeOK, ReceiveInv, Update, Received
<1> DEFINE first == upd.page * PAGE + 1
<1>5. first \in Cells /\ first <= upd.total /\ (first - 1) \div PAGE = upd.page
  <2>1. upd.page * PAGE \in Nat
    BY <1>4, MulLeq
  <2>2. first \in Cells /\ first <= upd.total /\ first - 1 = upd.page * PAGE
    BY <1>4, <2>1, SlotSize DEF Cells
  <2>3. upd.page * PAGE < (upd.page + 1) * PAGE
    BY <1>4, <2>1, MulLeq
  <2>4. (upd.page * PAGE) \div PAGE = upd.page
    BY <1>4, <2>1, <2>3, DivUnique
  <2> QED
    BY <2>2, <2>4
<1>6. backup[first] = Erased
  BY <1>4, <1>5 DEF ErasedFrom
<1>7. Size[i] < first
  BY <1>2, <1>3, <1>5, <1>6 DEF Cells
<1>8. ASSUME NEW k \in Cells, k <= Size[i] PROVE backup'[k] = backup[k]
  <2> DEFINE q == (k - 1) \div PAGE
  <2>1. q \in Nat /\ q * PAGE <= k - 1 /\ q * PAGE \in Nat /\ upd.page * PAGE \in Nat
    <3>1. k - 1 \in Nat /\ q \in Nat
      BY PageOfCell
    <3>2. q * PAGE <= k - 1
      BY <1>4, <3>1, DivFacts
    <3> HIDE DEF q
    <3>3. q * PAGE \in Nat /\ upd.page * PAGE \in Nat
      BY <1>4, <3>1, MulLeq
    <3> QED
      BY <3>1, <3>2, <3>3
  <2>2. k - 1 < upd.page * PAGE
    BY <1>2, <1>4, <1>7, <1>8, <2>1 DEF Cells
  <2> HIDE DEF q
  <2>3. q * PAGE < upd.page * PAGE
    BY <2>1, <2>2, <1>8 DEF Cells
  <2>4. q # upd.page
    BY <1>4, <2>3
  <2> QED
    BY <2>4 DEF q
<1>9. Digest(backup', Size[i]) = Digest(backup, Size[i])
  BY <1>2, <1>8, SameDigest
<1> QED
  BY <1>1, <1>9 DEF InSlot

\* A step that leaves the backup slot alone keeps what is pending intact.
LEMMA LogStepKeepsIntact ==
    ASSUME IInv, RecordedSlotInv, Intact(log, backup), UNCHANGED backup,
           \/ UNCHANGED log
           \/ pc = "metaErase" /\ log' \in {log, BlankPage, TornPage}
           \/ pc = "metaWrite" /\ log' \in {log, Appended(log, [gen |-> mgen, meta |-> mrec]),
                                            Appended(log, TornRecord)}
    PROVE  Intact(log', backup')
<1>1. CASE log' = log
  BY <1>1 DEF Intact
<1>2. CASE log' \in {BlankPage, TornPage}
  BY <1>2, EmptyPageFacts DEF Intact
<1>3. CASE pc = "metaWrite" /\ log' = Appended(log, TornRecord)
  BY <1>3, TearFacts DEF IInv, TypeOK, MetaWriteInv, Intact
<1>4. CASE pc = "metaWrite" /\ log' = Appended(log, [gen |-> mgen, meta |-> mrec])
  <2>1. /\ WritesMeta /\ ~IsFull(log) /\ mrec \in Meta /\ mgen \in Nat
        /\ log \in Log /\ LogShape(log)
        /\ \A s \in RecordSlots(log) : log[s].gen < mgen
        /\ mrec.state = IF then = "pending" THEN COPY_PENDING ELSE APP_VALID
    BY <1>4 DEF IInv, TypeOK, MetaWriteInv, WritesMeta
  <2> DEFINE r == [gen |-> mgen, meta |-> mrec]
  <2>2. r \in Record /\ r.gen = mgen /\ r.meta = mrec /\ log' = Appended(log, r)
    BY <1>4, <2>1 DEF Record
  <2>3. ReadMeta(log') = mrec
    <3>1. \A s \in RecordSlots(log) : log[s].gen < r.gen
      BY <2>1, <2>2
    <3> HIDE DEF r
    <3> QED
      BY <2>1, <2>2, <3>1, AppendFacts
  <2>4. CASE then = "pending"
    BY <2>1, <2>3, <2>4 DEF Intact, RecordedSlotInv, InSlot
  <2>5. CASE then # "pending"
    BY <2>1, <2>3, <2>5 DEF Intact, COPY_PENDING, APP_VALID
  <2> QED
    BY <2>4, <2>5
<1> QED
  BY <1>1, <1>2, <1>3, <1>4

\* One step: only the erase of a START_UPDATE, after an error.
LEMMA BackupStep ==
    ASSUME IInv, AtomicInv, RecordedSlotInv, [Next]_vars, Intact(log, backup)
    PROVE  Intact(log', backup') \/ (pc = "startErase" /\ faults > 0)
<1>1. CASE pc = "startErase" /\ log' = log
  <2>1. CASE faults = 0
    <3>1. ~IsPendingCopy(log)
      BY <1>1, <2>1 DEF AtomicInv, PendingInv, Copies, WritesMeta
    <3> QED
      BY <1>1, <3>1 DEF Intact, IsPendingCopy
  <2>2. CASE faults # 0
    BY <1>1, <2>2, FaultsGrow
  <2> QED
    BY <2>1, <2>2
<1>2. ASSUME pc = "flush", log' = log,
             \A k \in Cells : (k - 1) \div PAGE # upd.page => backup'[k] = backup[k]
      PROVE  Intact(log', backup')
  <2>1. CASE IsPendingCopy(log)
    BY <1>2, <2>1, FlushSparesIntact DEF Intact, InSlot, IsPendingCopy
  <2>2. CASE ~IsPendingCopy(log)
    BY <1>2, <2>2 DEF Intact, IsPendingCopy
  <2> QED
    BY <2>1, <2>2
<1>3. backup \in Slot /\ upd \in Update /\ TornCell \in Content
  BY DEF IInv, TypeOK, Content
<1>4. /\ \A k \in Cells : (k - 1) \div PAGE # upd.page
            => FillPage(backup, upd.page, TornCell)[k] = backup[k]
      /\ \A k \in Cells : (k - 1) \div PAGE # upd.page
            => WritePage(backup, upd.page, upd.stream, Received(upd))[k] = backup[k]
  BY DEF FillPage, WritePage, PageCells
<1>5. CASE StartErase
  BY <1>1, <1>5 DEF StartErase
<1>6. CASE FlushPageBuffer
  <2>1. pc = "flush" /\ log' = log
    BY <1>6 DEF FlushPageBuffer
  <2>2. backup' \in {backup, FillPage(backup, upd.page, TornCell),
                     WritePage(backup, upd.page, upd.stream, Received(upd))}
    BY <1>6 DEF FlushPageBuffer, Succeeds, WriteErrs
  <2> QED
    BY <1>2, <1>4, <2>1, <2>2
<1>7. CASE PowerCut
  <2>1. CutBackup /\ CutLog
    BY <1>7 DEF PowerCut
  <2>2. CASE backup' = backup
    BY <2>1, <2>2, LogStepKeepsIntact DEF CutLog
  <2>3. CASE pc = "startErase"
    BY <1>1, <2>1, <2>3 DEF CutLog
  <2>4. CASE pc = "flush" /\ backup' = FillPage(backup, upd.page, TornCell)
    BY <1>2, <1>4, <2>1, <2>4 DEF CutLog
  <2> QED
    BY <2>1, <2>2, <2>3, <2>4 DEF CutBackup
<1>8. CASE MetaErase \/ MetaWrite
  <2>1. \/ pc = "metaErase" /\ log' \in {log, BlankPage, TornPage}
        \/ pc = "metaWrite" /\ log' \in {log, Appended(log, [gen |-> mgen, meta |-> mrec]),
                                         Appended(log, TornRecord)}
    BY <1>8 DEF MetaErase, MetaWrite
  <2>2. backup' = backup
    BY <1>8 DEF MetaErase, MetaWrite
  <2> QED
    BY <2>1, <2>2, LogStepKeepsIntact
<1>9. CASE BootStep /\ ~(StartErase \/ FlushPageBuffer \/ MetaErase \/ MetaWrite)
  <2>1. UNCHANGED <<backup, log>>
    BY <1>9 DEF BootStep, ApplicationIsValid, WindowExpires, MetaBegin, CopyErase, CopyWrite,
                CopyDone, StartReceiving, Accept, Reject, InactivityAbort, flash
  <2> QED
    BY <2>1, LogStepKeepsIntact
<1>10. CASE HostFrame \/ UNCHANGED vars \/ \E entry \in BOOLEAN : ResetApplication(entry)
  <2>1. UNCHANGED <<backup, log>>
    BY <1>10 DEF HostFrame, HandleStartUpdate, HandleSigChunk, HandleData, HandleEndUpdate,
                 HandleAuthorizeDowngrade, ResetApplication, vars, flash
  <2> QED
    BY <2>1, LogStepKeepsIntact
<1> QED
  BY <1>5, <1>6, <1>7, <1>8, <1>9, <1>10 DEF Next

\* For any images, errors, cuts and attempts: what a pending copy is resumed
\* from is lost only to a START_UPDATE that follows a flash error (the reason
\* that HandleEndUpdate gives for going on after a copy that fails).
THEOREM BackupLostOnlyThere == Spec => BackupLostOnlyToStart
<1>1. Init => RecordedSlotInv
  BY DEF Init, RecordedSlotInv, WritesMeta
<1>2. Spec => []RecordedSlotInv
  BY <1>1, RecordedSlotKept, Invariance, PTL DEF Spec
<1>3. IInv /\ AtomicInv /\ RecordedSlotInv /\ [Next]_vars
         => [Intact(log, backup) /\ ~Intact(log', backup') => pc = "startErase" /\ faults > 0]_vars
  BY BackupStep
<1> QED
  BY <1>2, <1>3, Invariance, Atomicity, PTL DEF Spec, BackupLostOnlyToStart

-----------------------------------------------------------------------------
(* MasterBoot implements AtomicInstall *)

\* The image the board is committed to, as a function of the two variables
\* it is derived from
PendingOf(lg) ==
    IF \E i \in Image : ReadMeta(lg).digest = ImageDigest(i)
    THEN CHOOSE i \in Image : ReadMeta(lg).digest = ImageDigest(i) ELSE NoChunk
HeldOf(mn) ==
    IF \E i \in Image : Digest(mn, Size[i]) = ImageDigest(i)
    THEN CHOOSE i \in Image : Digest(mn, Size[i]) = ImageDigest(i) ELSE NoChunk
CommittedOf(lg, mn) == IF IsPendingCopy(lg) THEN PendingOf(lg) ELSE HeldOf(mn)

LEMMA CommittedUnprimed == CommittedImage = CommittedOf(log, main)
  BY DEF CommittedImage, CommittedOf, IsPendingCopy, PendingOf, HeldOf, ImageIn,
         IsPending, Holds

LEMMA CommittedPrimed == CommittedImage' = CommittedOf(log', main')
  BY DEF CommittedImage, CommittedOf, IsPendingCopy, PendingOf, HeldOf, ImageIn,
         IsPending, Holds

\* Two images differ in their digests: in their first cells.
LEMMA DigestTellsImages ==
    ASSUME NEW i \in Image, NEW j \in Image, ImageDigest(i) = ImageDigest(j)
    PROVE  i = j
<1>1. 1 \in 1..Size[i] /\ 1 \in 1..Size[j]
  BY ImageAssumption
<1>2. ImageDigest(i)[1] = i /\ ImageDigest(j)[1] = j
  BY <1>1 DEF ImageDigest
<1> QED
  BY <1>2

LEMMA PendingIs ==
    ASSUME NEW lg, IsPendingCopy(lg), NEW i \in Image, ReadMeta(lg).digest = ImageDigest(i),
           NEW mn
    PROVE  CommittedOf(lg, mn) = i
<1> DEFINE P(j) == ReadMeta(lg).digest = ImageDigest(j)
<1>1. P(i) /\ \A j \in Image : P(j) => j = i
  BY DigestTellsImages
<1>2. (CHOOSE j \in Image : P(j)) = i
  <2> HIDE DEF P
  <2> QED
    BY <1>1
<1> QED
  BY <1>1, <1>2 DEF CommittedOf, PendingOf

LEMMA HeldIs ==
    ASSUME NEW lg, ~IsPendingCopy(lg), NEW mn, NEW i \in Image,
           Digest(mn, Size[i]) = ImageDigest(i)
    PROVE  CommittedOf(lg, mn) = i
<1> DEFINE P(j) == Digest(mn, Size[j]) = ImageDigest(j)
<1>1. \A j \in Image : P(j) => mn[1] = j
  <2> SUFFICES ASSUME NEW j \in Image, P(j) PROVE mn[1] = j
    OBVIOUS
  <2>1. 1 \in 1..Size[j]
    BY ImageAssumption
  <2>2. Digest(mn, Size[j])[1] = mn[1] /\ ImageDigest(j)[1] = j
    BY <2>1 DEF Digest, ImageDigest
  <2> QED
    BY <2>2
<1>2. P(i) /\ \A j \in Image : P(j) => j = i
  BY <1>1
<1>3. (CHOOSE j \in Image : P(j)) = i
  <2> HIDE DEF P
  <2> QED
    BY <1>2
<1> QED
  BY <1>2, <1>3 DEF CommittedOf, HeldOf

LEMMA CommittedInRange ==
    ASSUME NEW lg, NEW mn
    PROVE  CommittedOf(lg, mn) \in Image \cup {NoChunk}
  BY DEF CommittedOf, PendingOf, HeldOf

\* The write of an installed image to the log, and the erase of the log
\* before it, change nothing: main holds what was pending.
LEMMA InstalledKeeps ==
    ASSUME PendingInv, WritesMeta, NEW lg, ~IsPendingCopy(lg), then \in {"resumed", "done"}
    PROVE  CommittedOf(lg, main) = CommittedOf(log, main)
<1>1. PICK i \in Signed : IsOf(mrec, i)
  BY DEF PendingInv
<1>2. i \in Image /\ Digest(main, Size[i]) = ImageDigest(i)
  BY <1>1, ImageAssumption, InSlotHolds DEF PendingInv
<1>3. CommittedOf(lg, main) = i
  BY <1>2, HeldIs
<1>4. CASE IsPendingCopy(log)
  <2>1. ReadMeta(log).digest = ImageDigest(i)
    BY <1>1, <1>4 DEF PendingInv, IsOf
  <2> QED
    BY <1>2, <1>3, <1>4, <2>1, PendingIs
<1>5. CASE ~IsPendingCopy(log)
  BY <1>2, <1>3, <1>5, HeldIs
<1> QED
  BY <1>4, <1>5

\* While a copy is pending, only the log counts.
LEMMA PendingKeeps ==
    ASSUME IsPendingCopy(log), NEW lg, IsPendingCopy(lg), ReadMeta(lg) = ReadMeta(log),
           NEW mn
    PROVE  CommittedOf(lg, mn) = CommittedOf(log, main)
  BY DEF CommittedOf, PendingOf

\* What a step does to the commitment
Keeps    == CommittedOf(log', main') = CommittedOf(log, main)
Commits  == /\ pc # "app" /\ pc' # "app"
            /\ \E i \in Signed : CommittedOf(log', main') = i

LEMMA MetaWriteCommits ==
    ASSUME IInv, PendingInv, MetaWrite, faults' = 0
    PROVE  Keeps \/ Commits
<1>1. /\ pc = "metaWrite" /\ WritesMeta /\ ~IsFull(log) /\ mrec \in Meta /\ mgen \in Nat
      /\ log \in Log /\ LogShape(log)
      /\ \A s \in RecordSlots(log) : log[s].gen < mgen
  BY DEF IInv, TypeOK, MetaWriteInv, WritesMeta, MetaWrite
<1>2. /\ log' = Appended(log, [gen |-> mgen, meta |-> mrec]) /\ MetaWriteReturns(TRUE)
      /\ main' = main
  BY NoFaults DEF MetaWrite
<1> DEFINE r == [gen |-> mgen, meta |-> mrec]
<1>3. r \in Record /\ r.gen = mgen /\ r.meta = mrec /\ log' = Appended(log, r)
  BY <1>1, <1>2 DEF Record
<1>4. HasRecord(log') /\ ReadMeta(log') = mrec
  <2>1. \A s \in RecordSlots(log) : log[s].gen < r.gen
    BY <1>1, <1>3
  <2> HIDE DEF r
  <2> QED
    BY <1>1, <1>3, <2>1, AppendFacts
<1>5. /\ then \in {"adopt", "resumed", "pending", "done"}
      /\ mrec.state = IF then = "pending" THEN COPY_PENDING ELSE APP_VALID
      /\ Vouched(mrec) \/ IsAdopted(mrec)
  BY <1>1 DEF IInv, MetaWriteInv
<1>6. CASE then = "pending"
  <2>1. IsPendingCopy(log')
    BY <1>4, <1>5, <1>6 DEF IsPendingCopy
  <2>2. ~IsAdopted(mrec)
    BY <1>5, <1>6 DEF IsAdopted, COPY_PENDING, APP_VALID
  <2>3. PICK i \in Signed : mrec.digest = ImageDigest(i)
    BY <1>5, <2>2 DEF Vouched
  <2>4. i \in Image
    BY ImageAssumption
  <2>5. CommittedOf(log', main') = i
    BY <1>4, <2>1, <2>3, <2>4, PendingIs
  <2>6. pc' # "app"
    BY <1>2, <1>6 DEF MetaWriteReturns
  <2> QED
    BY <1>1, <2>5, <2>6 DEF Commits
<1>7. CASE then # "pending"
  <2>1. ~IsPendingCopy(log')
    BY <1>4, <1>5, <1>7 DEF IsPendingCopy, COPY_PENDING, APP_VALID
  <2>2. CASE then \in {"resumed", "done"}
    BY <1>1, <1>2, <2>1, <2>2, InstalledKeeps DEF Keeps
  <2>3. CASE then = "adopt"
    <3>1. ~IsPendingCopy(log)
      BY <1>1, <2>3 DEF PendingInv, Copies, WritesMeta
    <3> QED
      BY <1>2, <2>1, <3>1 DEF Keeps, CommittedOf
  <2> QED
    BY <1>5, <1>7, <2>2, <2>3
<1> QED
  BY <1>6, <1>7

LEMMA MetaEraseKeeps ==
    ASSUME IInv, PendingInv, WritesMeta, UNCHANGED main, log' \in {BlankPage, TornPage}
    PROVE  Keeps
<1>1. ~IsPendingCopy(log')
  BY EmptyPageFacts DEF IsPendingCopy
<1>2. CASE then \in {"resumed", "done"}
  BY <1>1, <1>2, InstalledKeeps DEF Keeps
<1>3. CASE then \notin {"resumed", "done"}
  <2>1. ~IsPendingCopy(log)
    BY <1>3 DEF PendingInv, Copies, WritesMeta
  <2> QED
    BY <1>1, <2>1 DEF Keeps, CommittedOf
<1> QED
  BY <1>2, <1>3

LEMMA CopyKeeps ==
    ASSUME IInv, Copies, UNCHANGED log
    PROVE  Keeps
<1>1. IsPendingCopy(log) /\ IsPendingCopy(log')
  BY DEF IInv, CopyInv, IsPendingCopy
<1> QED
  BY <1>1 DEF Keeps, CommittedOf

LEMMA PowerCutKeeps ==
    ASSUME IInv, PendingInv, PowerCut
    PROVE  Keeps
<1>1. CutMain /\ CutLog /\ log \in Log /\ LogShape(log)
  BY DEF PowerCut, IInv, TypeOK
<1>2. CASE Copies
  <2>1. log' = log
    BY <1>1, <1>2 DEF CutLog, Copies
  <2> QED
    BY <1>2, <2>1, CopyKeeps
<1>3. CASE ~Copies
  <2>1. main' = main
    BY <1>1, <1>3 DEF CutMain, Copies
  <2>2. CASE log' = log
    BY <2>1, <2>2 DEF Keeps
  <2>3. CASE pc = "metaErase" /\ log' = TornPage
    BY <2>1, <2>3, MetaEraseKeeps DEF WritesMeta
  <2>4. CASE pc = "metaWrite" /\ log' = Appended(log, TornRecord)
    <3>1. ~IsFull(log)
      BY <2>4 DEF IInv, MetaWriteInv
    <3>2. /\ HasRecord(log') <=> HasRecord(log)
          /\ HasRecord(log) => ReadMeta(log') = ReadMeta(log)
      BY <1>1, <2>4, <3>1, TearFacts
    <3>3. IsPendingCopy(log') <=> IsPendingCopy(log)
      BY <3>2 DEF IsPendingCopy
    <3> QED
      BY <2>1, <3>2, <3>3, PendingKeeps DEF Keeps, CommittedOf, IsPendingCopy
  <2> QED
    BY <1>1, <2>2, <2>3, <2>4 DEF CutLog
<1> QED
  BY <1>2, <1>3

LEMMA NextCommits ==
    ASSUME IInv, PendingInv, [Next]_vars, faults' = 0
    PROVE  Keeps \/ Commits
<1>1. CASE UNCHANGED <<main, log>>
  BY <1>1 DEF Keeps
<1>2. CASE MetaErase
  <2>1. WritesMeta /\ UNCHANGED main /\ log' = BlankPage
    BY <1>2, NoFaults DEF MetaErase, WritesMeta
  <2> QED
    BY <2>1, MetaEraseKeeps
<1>3. CASE MetaWrite
  BY <1>3, MetaWriteCommits
<1>4. CASE CopyErase \/ CopyWrite
  <2>1. Copies /\ UNCHANGED log
    BY <1>4 DEF CopyErase, CopyWrite, Copies
  <2> QED
    BY <2>1, CopyKeeps
<1>5. CASE PowerCut
  BY <1>5, PowerCutKeeps
<1>6. CASE BootStep /\ ~(MetaErase \/ MetaWrite \/ CopyErase \/ CopyWrite)
  <2>1. UNCHANGED <<main, log>>
    BY <1>6 DEF BootStep, ApplicationIsValid, MetaBegin, CopyDone, WindowExpires, StartErase,
                StartReceiving, FlushPageBuffer, Reject, InactivityAbort, Accept, flash
  <2> QED
    BY <1>1, <2>1
<1>7. CASE HostFrame
  BY <1>1, <1>7 DEF HostFrame, HandleStartUpdate, HandleSigChunk, HandleData,
         HandleEndUpdate, HandleAuthorizeDowngrade, flash
<1>8. CASE \E entry \in BOOLEAN : ResetApplication(entry)
  BY <1>1, <1>8 DEF ResetApplication, flash
<1>9. CASE UNCHANGED vars
  BY <1>1, <1>9 DEF vars, flash
<1> QED
  BY <1>2, <1>3, <1>4, <1>5, <1>6, <1>7, <1>8, <1>9 DEF Next

LEMMA StepRefines ==
    ASSUME Keeps \/ Commits
    PROVE  [Promise!Next]_(Promise!vars)
<1>1. CommittedImage = CommittedOf(log, main) /\ CommittedImage' = CommittedOf(log', main')
  BY CommittedUnprimed, CommittedPrimed
<1>2. CASE Keeps
  BY <1>1, <1>2 DEF Keeps, Promise!Next, Promise!vars, Promise!Run, Promise!Stop
<1>3. CASE Commits
  <2>1. PICK i \in Signed : CommittedOf(log', main') = i
    BY <1>3 DEF Commits
  <2>2. i \in Image
    BY ImageAssumption
  <2>3. Promise!Install(i)
    BY <1>1, <1>3, <2>1 DEF Commits, Promise!Install
  <2> QED
    BY <2>2, <2>3 DEF Promise!Next
<1> QED
  BY <1>2, <1>3

LEMMA InitRefines == Init => Promise!Init
  BY CommittedUnprimed, CommittedInRange DEF Init, Promise!Init

\* On flash without errors MasterBoot implements AtomicInstall: whenever the
\* power is cut, the board is committed to one whole image, to a new one from
\* the moment its record is written, and never back.
THEOREM AtomicUpdate ==
    ASSUME MaxFaults = 0
    PROVE  Spec => UpdateIsAtomic
<1>1. Init => Promise!Init
  BY InitRefines
<1>2. IInv /\ AtomicInv /\ [Next]_vars /\ IInv' => [Promise!Next]_(Promise!vars)
  <2> SUFFICES ASSUME IInv, AtomicInv, [Next]_vars, IInv' PROVE [Promise!Next]_(Promise!vars)
    OBVIOUS
  <2>1. faults = 0 /\ faults' = 0
    BY DEF IInv, TypeOK
  <2> QED
    BY <2>1, NextCommits, StepRefines DEF AtomicInv
<1> QED
  BY <1>1, <1>2, Invariance, Atomicity, PTL DEF Spec, UpdateIsAtomic, Promise!Spec
=============================================================================
