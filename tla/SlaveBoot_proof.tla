--------------------------- MODULE SlaveBoot_proof ---------------------------
(***************************************************************************)
(* Proofs about SlaveBoot, for every set of images, size of the slots and  *)
(* of the log, and bound on the environment.  IInv of SlaveBoot is         *)
(* inductive: the steps of the interrupt leave what the main loop works on *)
(* alone, those of the main loop what the interrupt does, and one lemma    *)
(* per action shows the rest.                                              *)
(***************************************************************************)
EXTENDS SlaveBoot, BootFlash_proof

-----------------------------------------------------------------------------
(* Values of the variables *)

LEMMA MetaAtRest == NoMeta \in Meta
<1>1. [k \in 1..1 |-> Erased] \in Digests
  BY SlotSize DEF Digests, Content
<1> QED
  BY <1>1, SlotSize, ImageAssumption DEF NoMeta, Meta

\* However a session ends, its nonce stays used up.
LEMMA SessionValues ==
    /\ NoSession \in Session /\ ~NoSession.inProgress
    /\ \A u \in Session :
          /\ \A b \in BOOLEAN :
                /\ Over(u, b) \in Session /\ ~Over(u, b).inProgress
                /\ Over(u, b).nonce = u.nonce /\ Over(u, b).nonceValid = u.nonceValid
          /\ FailUpdate(u) \in Session /\ ~FailUpdate(u).inProgress
          /\ FailUpdate(u).nonce = u.nonce /\ ~FailUpdate(u).nonceValid
          /\ Reborn(u) \in Session /\ ~Reborn(u).inProgress
          /\ Reborn(u).nonce = u.nonce /\ ~Reborn(u).nonceValid
<1>1. NoSession \in Session /\ ~NoSession.inProgress
  BY SlotSize, ImageAssumption DEF NoSession, Session
<1>2. ASSUME NEW u \in Session
      PROVE  /\ Reborn(u) \in Session /\ ~Reborn(u).inProgress
             /\ Reborn(u).nonce = u.nonce /\ ~Reborn(u).nonceValid
  BY <1>1 DEF Reborn, NoSession, Session
<1>3. ASSUME NEW u \in Session, NEW b \in BOOLEAN
      PROVE  /\ Over(u, b) \in Session /\ ~Over(u, b).inProgress
             /\ Over(u, b).nonce = u.nonce /\ Over(u, b).nonceValid = u.nonceValid
  <2>1. u.awaiting \in BOOLEAN /\ u.nonceValid \in BOOLEAN
    BY DEF Session
  <2> QED
    BY <1>2, <2>1 DEF Over, Session
<1>4. ASSUME NEW u \in Session
      PROVE  /\ FailUpdate(u) \in Session /\ ~FailUpdate(u).inProgress
             /\ FailUpdate(u).nonce = u.nonce /\ ~FailUpdate(u).nonceValid
  <2>1. /\ Over(u, TRUE) \in Session /\ ~Over(u, TRUE).inProgress
        /\ Over(u, TRUE).nonce = u.nonce
    BY <1>3
  <2> QED
    BY <2>1 DEF FailUpdate, Fail, Session
<1> QED
  BY <1>1, <1>2, <1>3, <1>4

\* A version field on the wire is a version, and what an image is described
\* by can be recorded.
LEMMA ImageTypes ==
    ASSUME NEW i \in Image
    PROVE  /\ Declared(i) \subseteq Versions
           /\ Size[i] \in Cells /\ ImageDigest(i) \in Digests /\ RollbackCounter[i] \in Nat
<1>1. Size[i] \in Cells
  BY ImageAssumption DEF Cells, APP_MAX_SIZE
<1>2. ImageDigest(i) \in [1..Size[i] -> Content]
  BY DEF ImageDigest, Content
<1> QED
  BY <1>1, <1>2, ImageAssumption DEF Declared, Versions, Digests

-----------------------------------------------------------------------------
(* What one thread leaves alone *)

\* A step that writes neither the main slot nor the log, and does not move
\* the main loop.
LEMMA LoopUndisturbed ==
    ASSUME IInv, UNCHANGED <<main, log, pc, then, cp, mrec, mgen>>,
           TypeOK', DeferredInv', InstallInv', ReceiveInv', ChallengeInv'
    PROVE  IInv'
<1>1. RecordsAreVouched' /\ LogShape(log')
  BY DEF IInv, RecordsAreVouched
<1>2. WriteInv' /\ CopyInv' /\ RunInv'
  BY DEF IInv, WriteInv, WritesMeta, CopyInv, Copies, RunInv, Matches
<1> QED
  BY <1>1, <1>2 DEF IInv

\* A step of the main loop that keeps the session, or ends it, and does not
\* end a CONFIRM otherwise than with the reset due.
LEMMA LinkUndisturbed ==
    ASSUME IInv, TypeOK', isr = "idle",
           UNCHANGED <<deferred, isr, ip, challenge, readSince>>,
           pc' \notin {"endFlush", "endVerify"},
           Confirming' => Confirming,
           resetDue' => resetDue \/ Confirming,
           \/ upd' = upd /\ pc # "endVerify" /\ (Confirming => Confirming' \/ resetDue')
              /\ (resetDue => resetDue')
           \/ ~upd'.inProgress /\ upd'.nonce = upd.nonce /\ (upd'.nonceValid => upd.nonceValid)
    PROVE  DeferredInv' /\ ReceiveInv' /\ ChallengeInv'
<1>1. DeferredInv'
  BY DEF IInv, DeferredInv, DeferredBusy, Confirming
<1>2. ReceiveInv'
  BY DEF IInv, ReceiveInv, Filling, Receiving, Received
<1>3. ChallengeInv'
  BY DEF IInv, ChallengeInv
<1> QED
  BY <1>1, <1>2, <1>3

\* A step of the main loop between places where nothing is written.
LEMMA LoopMoves ==
    ASSUME IInv, isr = "idle",
           UNCHANGED <<main, backup, log, then, cp, mrec, mgen, deferred, resetDue, isr, ip,
                       challenge, readSince, disturbed, starts, faults, cuts>>,
           {silent', stamped'} \subseteq BOOLEAN, upd' \in Session,
           \/ upd' = upd
           \/ ~upd'.inProgress /\ upd'.nonce = upd.nonce /\ (upd'.nonceValid => upd.nonceValid),
           pc \in {"windowBody", "window", "jump", "app", "loop", "tick", "abort"},
           pc' \in {"windowBody", "window", "jump", "app", "loop", "tick", "abort", "clear"},
           pc' \in {"windowBody", "window", "jump", "app"}
              => pc \in {"windowBody", "window", "jump", "app"}
    PROVE  IInv'
<1>1. TypeOK'
  <2>1. {resetDue', disturbed', silent', stamped', readSince'} \subseteq BOOLEAN
    BY DEF IInv, TypeOK
  <2>2. upd'.inProgress /\ isr' # "erase" => Received(upd') <= upd'.total
    BY DEF IInv, TypeOK
  <2> QED
    BY <2>1, <2>2 DEF IInv, TypeOK
<1>2. RecordsAreVouched' /\ LogShape(log')
  BY DEF IInv, RecordsAreVouched
<1>3. then = "none" /\ WriteInv' /\ CopyInv'
  BY DEF IInv, WriteInv, WritesMeta, CopyInv, Copies
<1>4. RunInv'
  BY DEF IInv, RunInv, Matches
<1>5. InstallInv'
  BY <1>3 DEF InstallInv
<1>6. DeferredInv' /\ ReceiveInv' /\ ChallengeInv'
  <2>1. ~Confirming /\ ~Confirming'
    BY <1>3 DEF Confirming
  <2> QED
    BY <1>1, <2>1, LinkUndisturbed
<1> QED
  BY <1>1, <1>2, <1>3, <1>4, <1>5, <1>6 DEF IInv

-----------------------------------------------------------------------------
(* The end of a metadata write or of a copy *)

\* ApplicationIsValid ends: the window opens only over what the newest record
\* describes.
LEMMA StartUpInv ==
    ASSUME IInv, isr = "idle", NEW valid \in BOOLEAN, StartUp(valid),
           then \in {"none", "adopt", "resume", "resumed"}, pc # "endVerify",
           UNCHANGED <<backup, upd, deferred, resetDue, isr, ip, silent, stamped,
                       challenge, readSince, starts, cuts>>,
           mgen' \in Nat, disturbed' \in BOOLEAN, faults' \in 0..MaxFaults, main' \in Slot,
           log' \in Log, LogShape(log'), RecordsAreVouched',
           valid => /\ HasRecord(log')
                    /\ ReadMeta(log').state = APP_VALID
                    /\ Digest(main', ReadMeta(log').size) = ReadMeta(log').digest
    PROVE  IInv'
<1>1. /\ pc' = IF valid THEN "windowBody" ELSE "loop"
      /\ then' = "none" /\ mrec' \in Meta /\ cp' \in 0..AppPages
  BY MetaAtRest, ImageAssumption DEF StartUp
<1>2. TypeOK'
  <2>1. {resetDue', disturbed', silent', stamped', readSince'} \subseteq BOOLEAN
    BY DEF IInv, TypeOK
  <2> QED
    BY <1>1, <2>1 DEF IInv, TypeOK, Received
<1>3. RunInv'
  BY <1>1 DEF RunInv, Matches
<1>4. WriteInv' /\ CopyInv' /\ InstallInv'
  BY <1>1 DEF WriteInv, WritesMeta, CopyInv, Copies, InstallInv
<1>5. DeferredInv' /\ ReceiveInv' /\ ChallengeInv'
  <2>1. ~Confirming /\ ~Confirming'
    BY <1>1 DEF Confirming
  <2> QED
    BY <1>1, <1>2, <2>1, LinkUndisturbed
<1> QED
  BY <1>2, <1>3, <1>4, <1>5 DEF IInv

\* A CONFIRM that fails leaves a session that is over, whatever it did to the
\* main slot and to the log.
LEMMA ConfirmFailsInv ==
    ASSUME IInv, isr = "idle", ConfirmFails,
           UNCHANGED <<backup, deferred, resetDue, isr, ip, silent, stamped,
                       challenge, readSince, starts, cuts>>,
           mgen' \in Nat, disturbed' \in BOOLEAN, faults' \in 0..MaxFaults, main' \in Slot,
           log' \in Log, LogShape(log'), RecordsAreVouched'
    PROVE  IInv'
<1>1. /\ pc' = "clear" /\ then' = "none" /\ mrec' \in Meta /\ cp' \in 0..AppPages
      /\ upd' = Fail(upd)
  BY MetaAtRest, ImageAssumption DEF ConfirmFails
<1>2. upd' \in Session /\ ~upd'.inProgress /\ upd'.nonce = upd.nonce
      /\ upd'.nonceValid = upd.nonceValid
  BY <1>1, SessionValues DEF Fail, IInv, TypeOK
<1>3. TypeOK'
  <2>1. {resetDue', disturbed', silent', stamped', readSince'} \subseteq BOOLEAN
    BY DEF IInv, TypeOK
  <2> QED
    BY <1>1, <1>2, <2>1 DEF IInv, TypeOK
<1>4. WriteInv' /\ CopyInv' /\ InstallInv' /\ RunInv'
  BY <1>1 DEF WriteInv, WritesMeta, CopyInv, Copies, InstallInv, RunInv
<1>5. DeferredInv' /\ ReceiveInv' /\ ChallengeInv'
  <2>1. ~Confirming'
    BY <1>1 DEF Confirming
  <2> QED
    BY <1>1, <1>2, <1>3, <2>1, LinkUndisturbed
<1> QED
  BY <1>3, <1>4, <1>5 DEF IInv

\* The callers of Metadata_EraseAndWrite go on with the invariant, whatever
\* the write did to the log, provided that an ok means the record is in it.
LEMMA MetaWriteReturnsInv ==
    ASSUME IInv, isr = "idle", WritesMeta, NEW ok \in BOOLEAN, MetaWriteReturns(ok),
           UNCHANGED <<main, backup, deferred, isr, ip, silent, stamped,
                       challenge, readSince, starts, cuts>>,
           disturbed' \in BOOLEAN, faults' \in 0..MaxFaults,
           log' \in Log, LogShape(log'), RecordsAreVouched',
           ok => HasRecord(log') /\ ReadMeta(log') = mrec
    PROVE  IInv'
<1>1. /\ mgen' \in Nat /\ main' \in Slot /\ main' = main /\ mrec \in Meta
      /\ mrec.state = IF then = "pending" THEN COPY_PENDING ELSE APP_VALID
      /\ then = "adopt" => Matches(mrec)
      /\ pc # "endVerify"
  BY DEF IInv, TypeOK, WriteInv, MetaWriteReturns, WritesMeta
<1>2. CASE then = "adopt"
  <2>1. StartUp(ok) /\ UNCHANGED <<upd, resetDue>>
    BY <1>2 DEF MetaWriteReturns
  <2>2. ok => Digest(main', ReadMeta(log').size) = ReadMeta(log').digest
    BY <1>1, <1>2 DEF Matches
  <2> QED
    BY <1>1, <1>2, <2>1, <2>2, StartUpInv
<1>3. CASE then = "resumed"
  <2>1. StartUp(ok /\ Matches(mrec)) /\ UNCHANGED <<upd, resetDue>>
    BY <1>3 DEF MetaWriteReturns
  <2>2. (ok /\ Matches(mrec)) \in BOOLEAN
    BY DEF Matches
  <2>3. ok /\ Matches(mrec) => /\ HasRecord(log')
                               /\ ReadMeta(log').state = APP_VALID
                               /\ Digest(main', ReadMeta(log').size) = ReadMeta(log').digest
    BY <1>1, <1>3 DEF Matches
  <2> QED
    BY <1>1, <1>3, <2>1, <2>2, <2>3, StartUpInv
<1>4. CASE then = "pending" /\ ok
  <2>1. /\ pc' = "copyErase" /\ then' = "install" /\ cp' = 0
        /\ UNCHANGED <<upd, mrec, resetDue>>
    BY <1>4 DEF MetaWriteReturns
  <2>2. TypeOK'
    <3>1. {resetDue', disturbed', silent', stamped', readSince'} \subseteq BOOLEAN
      BY <2>1 DEF IInv, TypeOK
    <3> QED
      BY <1>1, <2>1, <3>1, ImageAssumption DEF IInv, TypeOK, Received
  <2>3. CopyInv'
    <3>1. 0 <= PagesNeeded(mrec.size)
      BY <1>1, PagesCover DEF Meta
    <3> QED
      BY <1>1, <1>4, <2>1, <3>1 DEF CopyInv, Copies
  <2>4. WriteInv' /\ RunInv'
    BY <2>1 DEF WriteInv, WritesMeta, RunInv
  <2>5. InstallInv'
    BY <1>4, <2>1 DEF IInv, InstallInv
  <2>6. DeferredInv' /\ ReceiveInv' /\ ChallengeInv'
    <3>1. Confirming /\ Confirming'
      BY <1>4, <2>1 DEF Confirming
    <3> QED
      BY <1>1, <2>1, <2>2, <3>1, LinkUndisturbed
  <2> QED
    BY <2>2, <2>3, <2>4, <2>5, <2>6 DEF IInv
<1>5. CASE then = "done" /\ ok
  <2>1. /\ pc' = "clear" /\ then' = "none" /\ cp' = 0 /\ mrec' = NoMeta
        /\ resetDue' = TRUE /\ upd' = upd
    BY <1>5 DEF MetaWriteReturns
  <2>2. TypeOK'
    <3>1. {resetDue', disturbed', silent', stamped', readSince'} \subseteq BOOLEAN
      BY <2>1 DEF IInv, TypeOK
    <3> QED
      BY <1>1, <2>1, <3>1, MetaAtRest, ImageAssumption DEF IInv, TypeOK, Received
  <2>3. WriteInv' /\ CopyInv' /\ RunInv' /\ InstallInv'
    BY <2>1 DEF WriteInv, WritesMeta, CopyInv, Copies, RunInv, InstallInv
  <2>4. DeferredInv' /\ ReceiveInv' /\ ChallengeInv'
    <3>1. Confirming /\ ~Confirming'
      BY <1>5, <2>1 DEF Confirming
    <3> QED
      BY <1>1, <2>1, <2>2, <3>1, LinkUndisturbed
  <2> QED
    BY <2>2, <2>3, <2>4 DEF IInv
<1>6. CASE then \in {"pending", "done"} /\ ~ok
  BY <1>1, <1>6, ConfirmFailsInv DEF MetaWriteReturns
<1> QED
  BY <1>2, <1>3, <1>4, <1>5, <1>6 DEF MetaWriteReturns

-----------------------------------------------------------------------------
(* The writes of the metadata log *)

\* The main loop goes on to another place of the same metadata write.
LEMMA MetaWriteGoesOn ==
    ASSUME IInv, isr = "idle", WritesMeta, WritesMeta',
           UNCHANGED <<main, backup, upd, deferred, resetDue, then, cp, mrec, isr, ip,
                       silent, stamped, challenge, readSince, starts, faults, cuts>>,
           disturbed' \in BOOLEAN, mgen' \in Nat,
           log' \in Log, LogShape(log'), RecordsAreVouched',
           HasRecord(log') => HasRecord(log) /\ ReadMeta(log') = ReadMeta(log),
           \A s \in RecordSlots(log') : log'[s].gen < mgen'
    PROVE  IInv'
<1>1. TypeOK'
  <2>1. {resetDue', disturbed', silent', stamped', readSince'} \subseteq BOOLEAN
    BY DEF IInv, TypeOK
  <2> QED
    BY <2>1 DEF IInv, TypeOK, WritesMeta, Received
<1>2. WriteInv'
  BY DEF IInv, WriteInv, WritesMeta, Matches
<1>3. CopyInv' /\ RunInv' /\ InstallInv'
  BY DEF IInv, CopyInv, Copies, WritesMeta, RunInv, InstallInv
<1>4. DeferredInv' /\ ReceiveInv' /\ ChallengeInv'
  BY <1>1, LinkUndisturbed DEF WritesMeta, Confirming
<1> QED
  BY <1>1, <1>2, <1>3, <1>4 DEF IInv

LEMMA MetaBeginInv ==
    ASSUME IInv, isr = "idle", MetaBegin
    PROVE  IInv'
<1>1. /\ WritesMeta /\ log \in Log /\ LogShape(log)
      /\ UNCHANGED <<main, backup, log, deferred, isr, ip, disturbed, silent, stamped,
                     challenge, readSince, starts, faults, cuts>>
  BY DEF IInv, TypeOK, MetaBegin, WritesMeta, flash, irq, clock, master, env
<1>2. /\ log' \in Log /\ LogShape(log') /\ RecordsAreVouched' /\ faults' \in 0..MaxFaults
      /\ disturbed' \in BOOLEAN
  BY <1>1 DEF IInv, TypeOK, RecordsAreVouched
<1>3. CASE HasRecord(log) /\ ReadMeta(log) = mrec /\ MetaWriteReturns(TRUE)
  BY <1>1, <1>2, <1>3, MetaWriteReturnsInv
<1>4. CASE /\ mgen' = NextGeneration(log)
           /\ pc' = IF IsFull(log) THEN "metaErase" ELSE "metaWrite"
           /\ UNCHANGED <<upd, resetDue, then, cp, mrec>>
  <2>1. mgen' \in Nat /\ \A s \in RecordSlots(log) : log[s].gen < mgen'
    BY <1>1, <1>4, NextGenerationFacts
  <2>2. WritesMeta'
    BY <1>4 DEF WritesMeta
  <2> QED
    BY <1>1, <1>2, <1>4, <2>1, <2>2, MetaWriteGoesOn
<1> QED
  BY <1>3, <1>4 DEF MetaBegin

\* What an operation of the main loop that errs does to the count of faults.
LEMMA MainErrsFacts ==
    ASSUME IInv, MainErrs
    PROVE  faults' \in 0..MaxFaults
  BY LinkAssumption DEF IInv, TypeOK, MainErrs, CanFault

\* The page is erased with its records, or not at all when the interrupt had
\* locked the controller.
LEMMA MetaEraseInv ==
    ASSUME IInv, isr = "idle", MetaErase
    PROVE  IInv'
<1>1. /\ WritesMeta /\ log \in Log /\ LogShape(log) /\ RecordsAreVouched
      /\ pc = "metaErase" /\ disturbed' \in BOOLEAN /\ mgen \in Nat
      /\ \A s \in RecordSlots(log) : log[s].gen < mgen
      /\ UNCHANGED <<main, backup, deferred, isr, ip, silent, stamped,
                     challenge, readSince, starts, cuts>>
  BY DEF IInv, TypeOK, MetaErase, WritesMeta, WriteInv, irq, clock, master
<1>2. CASE /\ log' \in AfterErase(log, BlankPage)
           /\ pc' = "metaWrite"
           /\ UNCHANGED <<upd, resetDue, then, cp, mrec, mgen, faults>>
  <2>1. log' = BlankPage \/ log' = log
    BY <1>2 DEF AfterErase
  <2>2. /\ log' \in Log /\ LogShape(log')
        /\ log' = log \/ (RecordSlots(log') = {} /\ ~HasRecord(log'))
    BY <1>1, <2>1, EmptyPageFacts
  <2>3. RecordsAreVouched' /\ WritesMeta'
    BY <1>1, <1>2, <2>2 DEF RecordsAreVouched, WritesMeta
  <2> QED
    BY <1>1, <1>2, <2>2, <2>3, MetaWriteGoesOn
<1>3. CASE MainErrs /\ log' \in {log, TornPage} /\ MetaWriteReturns(FALSE)
  <2>1. log' \in Log /\ LogShape(log') /\ RecordsAreVouched'
    BY <1>1, <1>3, EmptyPageFacts DEF RecordsAreVouched
  <2> QED
    BY <1>1, <1>3, <2>1, MainErrsFacts, MetaWriteReturnsInv
<1> QED
  BY <1>2, <1>3 DEF MetaErase

\* The record that is appended is vouched for, and is read from then on.
LEMMA MetaWriteStepInv ==
    ASSUME IInv, isr = "idle", MetaWrite
    PROVE  IInv'
<1>1. /\ WritesMeta /\ log \in Log /\ LogShape(log) /\ RecordsAreVouched
      /\ pc = "metaWrite" /\ disturbed' \in BOOLEAN /\ mgen \in Nat /\ mrec \in Meta
      /\ \A s \in RecordSlots(log) : log[s].gen < mgen
      /\ Vouched(mrec) \/ IsAdopted(mrec)
      /\ UNCHANGED <<main, backup, deferred, isr, ip, silent, stamped,
                     challenge, readSince, starts, cuts>>
  BY DEF IInv, TypeOK, MetaWrite, WritesMeta, WriteInv, irq, clock, master
<1> DEFINE r == [gen |-> mgen, meta |-> mrec]
<1>2. CASE /\ ~IsFull(log) /\ log' = Appended(log, r)
           /\ MetaWriteReturns(TRUE) /\ UNCHANGED faults
  <2>1. r \in Record /\ r.gen = mgen /\ r.meta = mrec
    BY <1>1 DEF Record
  <2>2. /\ log' \in Log /\ LogShape(log')
        /\ HasRecord(log') /\ ReadMeta(log') = r.meta
        /\ \A s \in RecordSlots(log') :
              log'[s] = r \/ (s \in RecordSlots(log) /\ log'[s] = log[s])
    <3>1. \A s \in RecordSlots(log) : log[s].gen < r.gen
      BY <1>1, <2>1
    <3>2. log' = Appended(log, r) /\ ~IsFull(log)
      BY <1>2
    <3> HIDE DEF r
    <3> QED
      BY <1>1, <2>1, <3>1, <3>2, AppendFacts
  <2>3. RecordsAreVouched'
    BY <1>1, <2>1, <2>2 DEF RecordsAreVouched
  <2>4. faults' \in 0..MaxFaults
    BY <1>2 DEF IInv, TypeOK
  <2> QED
    BY <1>1, <1>2, <2>1, <2>2, <2>3, <2>4, MetaWriteReturnsInv
<1>3. CASE /\ ~IsFull(log) /\ MainErrs
           /\ log' \in {log, Appended(log, TornRecord)}
           /\ MetaWriteReturns(FALSE)
  <2>1. log' \in Log /\ LogShape(log') /\ RecordsAreVouched'
    BY <1>1, <1>3, TearFacts DEF RecordsAreVouched
  <2> QED
    BY <1>1, <1>3, <2>1, MainErrsFacts, MetaWriteReturnsInv
<1>4. CASE MetaWriteReturns(FALSE) /\ UNCHANGED <<log, faults>>
  <2>1. log' \in Log /\ LogShape(log') /\ RecordsAreVouched' /\ faults' \in 0..MaxFaults
    BY <1>1, <1>4 DEF RecordsAreVouched, IInv, TypeOK
  <2> QED
    BY <1>1, <1>4, <2>1, MetaWriteReturnsInv
<1> QED
  BY <1>2, <1>3, <1>4 DEF MetaWrite

-----------------------------------------------------------------------------
(* The copy of the backup slot over the main slot *)

\* Either caller of Flash_CopyRegion takes the failure: the start-up stays in
\* the bootloader, the CONFIRM is over.
LEMMA CopyFailsInv ==
    ASSUME IInv, isr = "idle", Copies, CopyFails,
           UNCHANGED <<backup, log, mgen, deferred, resetDue, isr, ip, silent, stamped,
                       challenge, readSince, starts, cuts>>,
           disturbed' \in BOOLEAN, main' \in Slot, faults' \in 0..MaxFaults
    PROVE  IInv'
<1>1. /\ mgen' \in Nat /\ log' \in Log /\ LogShape(log') /\ RecordsAreVouched'
      /\ pc # "endVerify"
  BY DEF IInv, TypeOK, RecordsAreVouched, Copies
<1>2. CASE then = "resume"
  BY <1>1, <1>2, StartUpInv DEF CopyFails
<1>3. CASE then # "resume"
  BY <1>1, <1>3, ConfirmFailsInv DEF CopyFails
<1> QED
  BY <1>2, <1>3

\* The main loop goes on to another place of the same copy.
LEMMA CopyGoesOn ==
    ASSUME IInv, isr = "idle", Copies, Copies',
           UNCHANGED <<backup, log, upd, deferred, resetDue, then, mrec, mgen, isr, ip,
                       silent, stamped, challenge, readSince, starts, faults, cuts>>,
           disturbed' \in BOOLEAN, main' \in Slot, cp' \in 0..AppPages,
           cp' <= PagesNeeded(mrec.size),
           pc' = "copyWrite" => cp' < PagesNeeded(mrec.size)
    PROVE  IInv'
<1>1. TypeOK'
  <2>1. {resetDue', disturbed', silent', stamped', readSince'} \subseteq BOOLEAN
    BY DEF IInv, TypeOK
  <2> QED
    BY <2>1 DEF IInv, TypeOK, Copies, Received
<1>2. RecordsAreVouched' /\ LogShape(log')
  BY DEF IInv, RecordsAreVouched
<1>3. CopyInv'
  BY DEF IInv, CopyInv, Copies
<1>4. WriteInv' /\ RunInv' /\ InstallInv'
  BY DEF IInv, WriteInv, WritesMeta, Copies, RunInv, InstallInv
<1>5. DeferredInv' /\ ReceiveInv' /\ ChallengeInv'
  BY <1>1, LinkUndisturbed DEF Copies, Confirming
<1> QED
  BY <1>1, <1>2, <1>3, <1>4, <1>5 DEF IInv

\* What an operation that errs leaves of a slot is a slot.
LEMMA AfterErrorFacts ==
    ASSUME NEW region \in Slot, NEW p \in Int, NEW region2, region2 \in AfterError(region, p)
    PROVE  region2 \in Slot
<1>1. TornCell \in Content
  BY DEF Content
<1> QED
  BY <1>1, FillPageFacts DEF AfterError

LEMMA CopyEraseInv ==
    ASSUME IInv, isr = "idle", CopyErase
    PROVE  IInv'
<1>1. /\ Copies /\ cp < PagesNeeded(mrec.size) /\ cp \in 0..AppPages /\ cp \in Int
      /\ main \in Slot /\ Erased \in Content /\ disturbed' \in BOOLEAN
      /\ mrec.size \in Cells
      /\ UNCHANGED <<backup, log, mgen, deferred, resetDue, isr, ip, silent, stamped,
                     challenge, readSince, starts, cuts>>
  <2>1. /\ cp \in 0..AppPages /\ main \in Slot /\ mrec.size \in Cells
        /\ Erased \in Content
    BY DEF IInv, TypeOK, Meta, Content
  <2>2. disturbed' \in BOOLEAN
    BY DEF CopyErase
  <2>3. /\ Copies /\ cp < PagesNeeded(mrec.size)
        /\ UNCHANGED <<backup, log, mgen, deferred, resetDue, isr, ip, silent, stamped,
                       challenge, readSince, starts, cuts>>
    BY DEF CopyErase, Copies, irq, clock, master
  <2> QED
    BY <2>1, <2>2, <2>3
<1>2. CASE /\ main' \in AfterErase(main, FillPage(main, cp, Erased))
           /\ pc' = "copyWrite"
           /\ UNCHANGED <<upd, then, cp, mrec, faults>>
  <2>1. main' \in Slot
    BY <1>1, <1>2, FillPageFacts DEF AfterErase
  <2>2. cp' <= PagesNeeded(mrec.size) /\ cp' < PagesNeeded(mrec.size) /\ cp' \in 0..AppPages
    BY <1>1, <1>2, PagesCover
  <2>3. Copies'
    BY <1>2 DEF Copies
  <2> QED
    BY <1>1, <1>2, <2>1, <2>2, <2>3, CopyGoesOn
<1>3. CASE MainErrs /\ main' \in AfterError(main, cp) /\ CopyFails
  <2>1. main' \in Slot
    BY <1>1, <1>3, AfterErrorFacts
  <2> QED
    BY <1>1, <1>3, <2>1, MainErrsFacts, CopyFailsInv
<1> QED
  BY <1>2, <1>3 DEF CopyErase

LEMMA CopyWriteInv ==
    ASSUME IInv, isr = "idle", CopyWrite
    PROVE  IInv'
<1>1. /\ Copies /\ cp < PagesNeeded(mrec.size) /\ cp \in 0..AppPages /\ cp \in Int
      /\ main \in Slot /\ backup \in Slot /\ disturbed' \in BOOLEAN
      /\ mrec.size \in Cells /\ mrec.size \in Nat
      /\ UNCHANGED <<backup, log, mgen, deferred, resetDue, isr, ip, silent, stamped,
                     challenge, readSince, starts, cuts>>
  <2>1. /\ cp \in 0..AppPages /\ main \in Slot /\ backup \in Slot
        /\ mrec.size \in Cells /\ mrec.size \in Nat
        /\ pc = "copyWrite" => cp < PagesNeeded(mrec.size)
    BY DEF IInv, TypeOK, CopyInv, Meta, Cells
  <2>2. disturbed' \in BOOLEAN
    BY DEF CopyWrite
  <2>3. /\ Copies /\ pc = "copyWrite"
        /\ UNCHANGED <<backup, log, mgen, deferred, resetDue, isr, ip, silent, stamped,
                       challenge, readSince, starts, cuts>>
    BY DEF CopyWrite, Copies, irq, clock, master
  <2> QED
    BY <2>1, <2>2, <2>3
<1>2. CASE /\ main' = WritePage(main, cp, backup, mrec.size)
           /\ cp' = cp + 1 /\ pc' = "copyErase"
           /\ UNCHANGED <<upd, then, mrec, faults>>
  <2>1. \A k \in Cells : backup[k] \in Content
    BY <1>1 DEF Slot
  <2>2. main' \in Slot
    BY <1>1, <1>2, <2>1, WritePageFacts
  <2>3. PagesNeeded(mrec.size) \in 1..AppPages
    BY <1>1, PagesCover
  <2>4. cp' <= PagesNeeded(mrec.size) /\ cp' \in 0..AppPages
    BY <1>1, <1>2, <2>3, ImageAssumption
  <2>5. Copies' /\ pc' # "copyWrite"
    BY <1>2 DEF Copies
  <2> QED
    BY <1>1, <1>2, <2>2, <2>4, <2>5, CopyGoesOn
<1>3. CASE /\ IF Programmable(main, cp, mrec.size) THEN MainErrs ELSE UNCHANGED faults
           /\ main' \in AfterError(main, cp)
           /\ CopyFails
  <2>1. main' \in Slot
    BY <1>1, <1>3, AfterErrorFacts
  <2>2. faults' \in 0..MaxFaults
    BY <1>3, MainErrsFacts DEF IInv, TypeOK
  <2> QED
    BY <1>1, <1>3, <2>1, <2>2, CopyFailsInv
<1> QED
  BY <1>2, <1>3 DEF CopyWrite

\* The record of the installed image is that of the pending one.
LEMMA CopyDoneInv ==
    ASSUME IInv, isr = "idle", CopyDone
    PROVE  IInv'
<1>1. /\ then \in {"resume", "install"} /\ Copies /\ pc = "copyErase"
      /\ HasRecord(log) /\ ReadMeta(log) = mrec /\ mrec.state = COPY_PENDING
      /\ log \in Log /\ LogShape(log) /\ RecordsAreVouched /\ mrec \in Meta
      /\ main \in Slot /\ mgen' \in Nat /\ disturbed' \in BOOLEAN /\ faults' \in 0..MaxFaults
      /\ UNCHANGED <<main, backup, log, mgen, deferred, resetDue, isr, ip, disturbed,
                     silent, stamped, challenge, readSince, starts, faults, cuts>>
  BY DEF IInv, TypeOK, CopyInv, CopyDone, Copies, flash, irq, clock, master, env
<1>2. CASE /\ CallMetaWrite(Installed(mrec), IF then = "resume" THEN "resumed" ELSE "done")
           /\ cp' = 0 /\ upd' = upd
  <2>1. /\ pc' = "metaBegin" /\ mrec' = [mrec EXCEPT !.state = APP_VALID]
        /\ then' = IF then = "resume" THEN "resumed" ELSE "done"
    BY <1>2 DEF CallMetaWrite, Installed
  <2>2. /\ mrec' \in Meta /\ mrec'.state = APP_VALID /\ mrec'.counter = mrec.counter
        /\ mrec.counter \in Nat /\ mrec'.size = mrec.size
        /\ mrec'.version = mrec.version /\ mrec'.digest = mrec.digest
    BY <1>1, <2>1 DEF Meta
  <2>3. Vouched(mrec)
    <3>1. PICK s \in RecordSlots(log) : ReadMeta(log) = log[s].meta
      BY <1>1, ReadMetaFacts
    <3>2. ~IsAdopted(mrec)
      BY <1>1 DEF IsAdopted, COPY_PENDING, APP_VALID
    <3> QED
      BY <1>1, <3>1, <3>2 DEF RecordsAreVouched
  <2>4. Vouched(mrec')
    BY <2>2, <2>3 DEF Vouched
  <2>5. TypeOK'
    <3>1. {resetDue', disturbed', silent', stamped', readSince'} \subseteq BOOLEAN
      BY <1>1 DEF IInv, TypeOK
    <3>2. {cp', ip'} \subseteq 0..AppPages
      BY <1>1, <1>2, ImageAssumption DEF IInv, TypeOK
    <3> QED
      BY <1>1, <1>2, <2>1, <2>2, <3>1, <3>2 DEF IInv, TypeOK, Received
  <2>6. WriteInv'
    BY <1>1, <2>1, <2>2, <2>4 DEF WriteInv, WritesMeta
  <2>7. CopyInv' /\ RunInv' /\ InstallInv'
    BY <1>1, <2>1 DEF CopyInv, Copies, WritesMeta, RunInv, InstallInv
  <2>8. DeferredInv' /\ ReceiveInv' /\ ChallengeInv'
    BY <1>1, <1>2, <2>1, <2>5, LinkUndisturbed DEF Confirming
  <2>9. RecordsAreVouched' /\ LogShape(log')
    BY <1>1 DEF RecordsAreVouched
  <2> QED
    BY <2>5, <2>6, <2>7, <2>8, <2>9 DEF IInv
<1>3. CASE ConfirmFails
  <2>1. log' \in Log /\ LogShape(log') /\ RecordsAreVouched' /\ main' \in Slot
    BY <1>1 DEF RecordsAreVouched
  <2> QED
    BY <1>1, <1>3, <2>1, ConfirmFailsInv
<1> QED
  BY <1>2, <1>3 DEF CopyDone

-----------------------------------------------------------------------------
(* Start-up and the window *)

LEMMA ApplicationIsValidInv ==
    ASSUME IInv, isr = "idle", ApplicationIsValid
    PROVE  IInv'
<1>1. /\ pc = "boot" /\ then = "none" /\ main \in Slot /\ log \in Log /\ LogShape(log)
      /\ UNCHANGED <<main, backup, log, upd, deferred, resetDue, mgen, isr, ip, disturbed,
                     silent, stamped, challenge, readSince, starts, faults, cuts>>
      /\ RecordsAreVouched' /\ LogShape(log') /\ log' \in Log /\ main' \in Slot
      /\ mgen' \in Nat /\ disturbed' \in BOOLEAN /\ faults' \in 0..MaxFaults
  <2>1. pc = "boot" /\ UNCHANGED <<flash, upd, deferred, resetDue, mgen, irq, disturbed,
                                   clock, master, env>>
    BY DEF ApplicationIsValid
  <2> QED
    BY <2>1 DEF IInv, TypeOK, CopyInv, WritesMeta, Copies, RecordsAreVouched, flash, irq,
                clock, master, env
<1>2. CASE CallMetaWrite(Adopted, "adopt") /\ UNCHANGED cp /\ ~HasRecord(log)
  <2>1. pc' = "metaBegin" /\ then' = "adopt" /\ mrec' = Adopted /\ cp' = cp
    BY <1>2 DEF CallMetaWrite
  <2>2. Adopted \in Meta /\ IsAdopted(Adopted) /\ Adopted.state = APP_VALID
        /\ Matches(Adopted)
    <3>1. APP_MAX_SIZE \in Cells
      BY SlotSize DEF Cells
    <3>2. Digest(main, APP_MAX_SIZE) \in Digests
      BY <1>1, <3>1, DigestType
    <3> QED
      BY <3>1, <3>2, ImageAssumption DEF Adopted, Meta, IsAdopted, Matches
  <2>3. TypeOK'
    <3>1. {resetDue', disturbed', silent', stamped', readSince'} \subseteq BOOLEAN
      BY <1>1 DEF IInv, TypeOK
    <3> QED
      BY <1>1, <2>1, <2>2, <3>1 DEF IInv, TypeOK, Received
  <2>4. WriteInv'
    BY <1>1, <1>2, <2>1, <2>2 DEF WriteInv, WritesMeta, Matches
  <2>5. CopyInv' /\ RunInv' /\ InstallInv'
    BY <2>1 DEF CopyInv, Copies, WritesMeta, RunInv, InstallInv
  <2>6. DeferredInv' /\ ReceiveInv' /\ ChallengeInv'
    BY <1>1, <2>1, <2>3, LinkUndisturbed DEF Confirming
  <2> QED
    BY <1>1, <2>3, <2>4, <2>5, <2>6 DEF IInv
<1>3. CASE StartUp(FALSE)
  BY <1>1, <1>3, StartUpInv
<1>4. CASE /\ HasRecord(log)
           /\ Resumable(ReadMeta(log))
           /\ pc' = "copyErase" /\ then' = "resume"
           /\ mrec' = ReadMeta(log) /\ cp' = 0
  <2>1. ReadMeta(log) \in Meta
    BY <1>1, <1>4, ReadMetaFacts
  <2>2. TypeOK'
    <3>1. {resetDue', disturbed', silent', stamped', readSince'} \subseteq BOOLEAN
      BY <1>1 DEF IInv, TypeOK
    <3> QED
      BY <1>1, <1>4, <2>1, <3>1, ImageAssumption DEF IInv, TypeOK, Received
  <2>3. CopyInv'
    <3>1. 0 <= PagesNeeded(ReadMeta(log).size)
      BY <2>1, PagesCover DEF Meta
    <3> QED
      BY <1>1, <1>4, <3>1 DEF CopyInv, Copies, Resumable
  <2>4. WriteInv' /\ RunInv' /\ InstallInv'
    BY <1>4 DEF WriteInv, WritesMeta, RunInv, InstallInv
  <2>5. DeferredInv' /\ ReceiveInv' /\ ChallengeInv'
    BY <1>1, <1>4, <2>2, LinkUndisturbed DEF Confirming
  <2> QED
    BY <1>1, <2>2, <2>3, <2>4, <2>5 DEF IInv
<1>5. CASE /\ HasRecord(log)
           /\ StartUp(ReadMeta(log).state = APP_VALID /\ Matches(ReadMeta(log)))
  <2> DEFINE valid == ReadMeta(log).state = APP_VALID /\ Matches(ReadMeta(log))
  <2>1. valid \in BOOLEAN
    BY DEF Matches
  <2>2. valid => /\ HasRecord(log')
                 /\ ReadMeta(log').state = APP_VALID
                 /\ Digest(main', ReadMeta(log').size) = ReadMeta(log').digest
    BY <1>1, <1>5 DEF Matches
  <2>3. StartUp(valid)
    BY <1>5
  <2> HIDE DEF valid
  <2> QED
    BY <1>1, <2>1, <2>2, <2>3, StartUpInv
<1> QED
  BY <1>2, <1>3, <1>4, <1>5 DEF ApplicationIsValid

\* The steps of the main loop that write nothing and call nothing.
LEMMA IdleStepsInv ==
    ASSUME IInv, isr = "idle",
           WindowBody \/ ListenWindowExpired \/ JumpToApplication \/ ReadTick
             \/ CompareTick \/ Abort
    PROVE  IInv'
<1>1. upd \in Session /\ {silent, stamped} \subseteq BOOLEAN
  BY DEF IInv, TypeOK
<1>2. CASE WindowBody \/ ListenWindowExpired \/ ReadTick
  <2>1. UNCHANGED <<main, backup, log, upd, then, cp, mrec, mgen, deferred, resetDue, isr, ip,
                    challenge, readSince, disturbed, silent, stamped, starts, faults, cuts>>
    BY <1>2 DEF WindowBody, ListenWindowExpired, ReadTick, flash, irq, clock, master, env
  <2>2. \/ pc = "windowBody" /\ pc' \in {"loop", "window"}
        \/ pc = "window" /\ pc' \in {"windowBody", "jump"}
        \/ pc = "loop" /\ pc' = "tick"
    BY <1>2 DEF WindowBody, ListenWindowExpired, ReadTick
  <2> QED
    BY <1>1, <2>1, <2>2, LoopMoves
<1>3. CASE JumpToApplication
  <2>1. UNCHANGED <<main, backup, log, then, cp, mrec, mgen, deferred, resetDue, isr, ip,
                    challenge, readSince, disturbed, silent, stamped, starts, faults, cuts>>
    BY <1>3 DEF JumpToApplication, flash, irq, clock, master, env
  <2>2. /\ pc = "jump" /\ pc' \in {"app", "loop"}
        /\ upd' = Reborn(upd) \/ upd' = upd
    BY <1>3 DEF JumpToApplication
  <2> QED
    BY <1>1, <2>1, <2>2, SessionValues, LoopMoves
<1>4. CASE CompareTick
  <2>1. UNCHANGED <<main, backup, log, upd, then, cp, mrec, mgen, deferred, resetDue, isr, ip,
                    challenge, readSince, disturbed, silent, starts, faults, cuts>>
    BY <1>4 DEF CompareTick, flash, irq, master, env
  <2>2. pc = "tick" /\ pc' \in {"abort", "loop"} /\ stamped' = FALSE
    BY <1>4 DEF CompareTick
  <2>3. silent' \in BOOLEAN
    BY <1>1, <2>1
  <2>4. stamped' \in BOOLEAN
    BY <2>2
  <2>5. {silent', stamped'} \subseteq BOOLEAN
    BY <2>3, <2>4
  <2> QED
    BY <1>1, <2>1, <2>2, <2>5, LoopMoves
<1>5. CASE Abort
  <2>1. UNCHANGED <<main, backup, log, then, cp, mrec, mgen, deferred, resetDue, isr, ip,
                    challenge, readSince, disturbed, silent, stamped, starts, faults, cuts>>
    BY <1>5 DEF Abort, flash, irq, clock, master, env
  <2>2. /\ pc = "abort" /\ pc' = "loop"
        /\ upd' = FailUpdate(upd) \/ upd' = Over(upd, FALSE)
    BY <1>5 DEF Abort
  <2>3. /\ upd' \in Session /\ ~upd'.inProgress /\ upd'.nonce = upd.nonce
        /\ (upd'.nonceValid => upd.nonceValid)
    <3>1. /\ Over(upd, FALSE) \in Session /\ ~Over(upd, FALSE).inProgress
          /\ Over(upd, FALSE).nonce = upd.nonce
          /\ Over(upd, FALSE).nonceValid = upd.nonceValid
      BY <1>1, SessionValues
    <3>2. /\ FailUpdate(upd) \in Session /\ ~FailUpdate(upd).inProgress
          /\ FailUpdate(upd).nonce = upd.nonce /\ ~FailUpdate(upd).nonceValid
      BY <1>1, SessionValues
    <3> QED
      BY <2>2, <3>1, <3>2
  <2> QED
    BY <1>1, <2>1, <2>2, <2>3, LoopMoves
<1> QED
  BY <1>2, <1>3, <1>4, <1>5

-----------------------------------------------------------------------------
(* The interrupt *)

\* What an operation of the interrupt that errs does to the count of faults.
LEMMA IsrErrsFacts ==
    ASSUME IInv, IsrErrs
    PROVE  faults' \in 0..MaxFaults
  BY LinkAssumption DEF IInv, TypeOK, IsrErrs, CanFault

\* A write that the interrupt serves finds no deferred step and no CONFIRM
\* under way.
LEMMA ServedWrites ==
    ASSUME IInv, ServesWrites
    PROVE  /\ isr = "idle" /\ deferred = NoOp /\ ~resetDue /\ deferred.op = "none"
           /\ ~Confirming /\ pc \notin {"endFlush", "endVerify"}
           /\ then \notin {"pending", "install"}
<1>1. isr = "idle" /\ deferred = NoOp /\ ~resetDue
  BY DEF ServesWrites, DeferredBusy
<1>2. deferred.op = "none"
  BY <1>1 DEF NoOp
<1>3. ~Confirming /\ pc \notin {"endFlush", "endVerify"}
  BY <1>2 DEF IInv, DeferredInv
<1> QED
  BY <1>1, <1>2, <1>3 DEF Confirming

\* The interrupt at work excludes a deferred step as well.
LEMMA InterruptExcludes ==
    ASSUME IInv, isr # "idle"
    PROVE  /\ deferred = NoOp /\ ~resetDue /\ deferred.op = "none"
           /\ ~Confirming /\ pc \notin {"endFlush", "endVerify"}
           /\ then \notin {"pending", "install"}
<1>1. deferred = NoOp /\ ~resetDue
  BY DEF IInv, DeferredInv, DeferredBusy
<1>2. deferred.op = "none"
  BY <1>1 DEF NoOp
<1>3. ~Confirming /\ pc \notin {"endFlush", "endVerify"}
  BY <1>2 DEF IInv, DeferredInv
<1> QED
  BY <1>1, <1>2, <1>3 DEF Confirming

\* A step of the interrupt with no deferred step under way: what it owes is
\* the types, the buffer of the session and the nonce.
LEMMA InterruptStep ==
    ASSUME IInv, UNCHANGED <<main, log, pc, then, cp, mrec, mgen, deferred, resetDue>>,
           deferred = NoOp, deferred.op = "none", ~resetDue, ~Confirming,
           pc \notin {"endFlush", "endVerify"}, then \notin {"pending", "install"},
           TypeOK', ReceiveInv', ChallengeInv'
    PROVE  IInv'
<1>1. DeferredInv' /\ InstallInv'
  BY DEF DeferredInv, DeferredBusy, Confirming, InstallInv
<1> QED
  BY <1>1, LoopUndisturbed

\* The tick is written with every write that is taken.
LEMMA StampFacts ==
    ASSUME Stamp
    PROVE  {silent', stamped'} \subseteq BOOLEAN
  BY DEF Stamp

LEMMA HandleStartUpdateInv ==
    ASSUME IInv, NEW i \in Image, HandleStartUpdate(Size[i])
    PROVE  IInv'
<1>1. /\ ServesWrites /\ starts < MaxStarts /\ starts' = starts + 1
      /\ upd' = [upd EXCEPT !.total = Size[i]] /\ isr' = "erase" /\ ip' = 0
      /\ UNCHANGED <<main, backup, log, deferred, resetDue, pc, then, cp, mrec, mgen, disturbed,
                     silent, stamped, challenge, readSince, faults, cuts>>
  BY DEF HandleStartUpdate, flash, thread, clock, master
<1>2. upd \in Session /\ Size[i] \in Cells /\ Size[i] \in 0..APP_MAX_SIZE
  BY ImageTypes, SlotSize DEF IInv, TypeOK, Cells
<1>3. /\ upd' \in Session /\ upd'.total = Size[i] /\ upd'.inProgress = upd.inProgress
      /\ upd'.nonce = upd.nonce /\ upd'.nonceValid = upd.nonceValid
  BY <1>1, <1>2 DEF Session
<1>4. TypeOK'
  <2>1. {resetDue', disturbed', silent', stamped', readSince'} \subseteq BOOLEAN
    BY <1>1 DEF IInv, TypeOK
  <2>2. starts' \in 0..MaxStarts /\ {cp', ip'} \subseteq 0..AppPages
    BY <1>1, LinkAssumption, ImageAssumption DEF IInv, TypeOK
  <2> QED
    BY <1>1, <1>3, <2>1, <2>2 DEF IInv, TypeOK
<1>5. ReceiveInv'
  <2>1. 0 <= PagesNeeded(Size[i])
    BY <1>2, PagesCover
  <2>2. pc' # "endFlush"
    BY <1>1, ServedWrites
  <2> QED
    BY <1>1, <1>2, <1>3, <2>1, <2>2 DEF ReceiveInv, Filling
<1>6. ChallengeInv'
  BY <1>1, <1>3 DEF IInv, ChallengeInv
<1> QED
  BY <1>1, <1>4, <1>5, <1>6, ServedWrites, InterruptStep

LEMMA StartEraseInv ==
    ASSUME IInv, StartErase
    PROVE  IInv'
<1>1. /\ isr = "erase" /\ ip < PagesNeeded(upd.total)
      /\ disturbed' = (disturbed \/ pc \in FlashSteps)
      /\ UNCHANGED <<main, log, deferred, resetDue, pc, then, cp, mrec, mgen, silent, stamped,
                     challenge, readSince, starts, cuts>>
  BY DEF StartErase, thread, clock, master
<1>2. /\ backup \in Slot /\ upd \in Session /\ upd.total \in Cells /\ ip \in 0..AppPages
      /\ Erased \in Content
  BY <1>1 DEF IInv, TypeOK, ReceiveInv, Content
<1>3. PagesNeeded(upd.total) \in 1..AppPages /\ ip \in Int
  BY <1>2, PagesCover
<1>4. {resetDue', disturbed', silent', stamped', readSince'} \subseteq BOOLEAN
  <2>1. disturbed' \in BOOLEAN
    BY <1>1
  <2> QED
    BY <1>1, <2>1 DEF IInv, TypeOK
<1>5. CASE /\ backup' = FillPage(backup, ip, Erased) /\ ip' = ip + 1
           /\ UNCHANGED <<upd, isr, faults>>
  <2>1. backup' \in Slot
    BY <1>2, <1>3, <1>5, FillPageFacts
  <2>2. ip' \in 0..AppPages /\ ip' <= PagesNeeded(upd.total)
    BY <1>1, <1>2, <1>3, <1>5, ImageAssumption
  <2>3. TypeOK'
    BY <1>1, <1>4, <1>5, <2>1, <2>2 DEF IInv, TypeOK
  <2>4. ReceiveInv'
    BY <1>1, <1>2, <1>5, <2>2, InterruptExcludes DEF ReceiveInv, Filling
  <2>5. ChallengeInv'
    BY <1>1, <1>5 DEF IInv, ChallengeInv
  <2> QED
    BY <1>1, <2>3, <2>4, <2>5, InterruptExcludes, InterruptStep
<1>6. CASE /\ IsrErrs /\ backup' \in AfterError(backup, ip) /\ upd' = Fail(upd)
           /\ isr' = "idle" /\ ip' = 0
  <2>1. backup' \in Slot /\ faults' \in 0..MaxFaults
    BY <1>2, <1>3, <1>6, AfterErrorFacts, IsrErrsFacts
  <2>2. /\ upd' \in Session /\ ~upd'.inProgress /\ upd'.nonce = upd.nonce
        /\ upd'.nonceValid = upd.nonceValid
    BY <1>2, <1>6, SessionValues DEF Fail
  <2>3. {cp', ip'} \subseteq 0..AppPages
    BY <1>1, <1>6, ImageAssumption DEF IInv, TypeOK
  <2>4. TypeOK'
    BY <1>1, <1>4, <1>6, <2>1, <2>2, <2>3 DEF IInv, TypeOK
  <2>5. ReceiveInv'
    BY <1>1, <1>6, <2>2, InterruptExcludes DEF ReceiveInv, Filling, Receiving
  <2>6. ChallengeInv'
    BY <1>1, <2>2 DEF IInv, ChallengeInv
  <2> QED
    BY <1>1, <2>4, <2>5, <2>6, InterruptExcludes, InterruptStep
<1> QED
  BY <1>5, <1>6 DEF StartErase

\* A new session has a nonce that nobody has read.
LEMMA StartReceivingInv ==
    ASSUME IInv, StartReceiving
    PROVE  IInv'
<1>1. /\ isr = "erase" /\ isr' = "idle" /\ ip' = 0 /\ readSince' = FALSE
      /\ upd' = [NoSession EXCEPT !.inProgress = TRUE, !.total = upd.total,
                                  !.nonce = upd.nonce + 1, !.nonceValid = TRUE]
      /\ Stamp
      /\ UNCHANGED <<main, backup, log, deferred, resetDue, pc, then, cp, mrec, mgen, disturbed,
                     challenge, starts, faults, cuts>>
  BY DEF StartReceiving, MakeChallenge, flash, thread, env
<1>2. upd.nonce \in Nat /\ upd.total \in 0..APP_MAX_SIZE /\ upd.total \in Nat
  BY SlotSize DEF IInv, TypeOK, Session
<1>3. /\ upd' \in Session /\ upd'.inProgress /\ upd'.total = upd.total /\ upd'.page = 0
      /\ upd'.nonce = upd.nonce + 1 /\ Received(upd') = 0
  <2>1. NoSession \in Session /\ NoSession.page = 0 /\ NoSession.stream = <<>>
    BY SessionValues DEF NoSession
  <2>2. upd.nonce + 1 \in Nat /\ TRUE \in BOOLEAN
    BY <1>2
  <2>3. upd' \in Session
    BY <1>1, <1>2, <2>1, <2>2 DEF Session
  <2>4. /\ upd'.inProgress /\ upd'.total = upd.total /\ upd'.page = 0
        /\ upd'.nonce = upd.nonce + 1 /\ upd'.stream = <<>>
    BY <1>1, <2>1 DEF Session
  <2> QED
    BY <2>3, <2>4 DEF Received
<1>4. TypeOK'
  <2>1. {resetDue', disturbed', silent', stamped', readSince'} \subseteq BOOLEAN
    <3>1. readSince' \in BOOLEAN
      BY <1>1
    <3> QED
      BY <1>1, <3>1, StampFacts DEF IInv, TypeOK
  <2>2. {cp', ip'} \subseteq 0..AppPages
    BY <1>1, ImageAssumption DEF IInv, TypeOK
  <2>3. Received(upd') <= upd'.total
    BY <1>2, <1>3
  <2> QED
    BY <1>1, <1>3, <2>1, <2>2, <2>3 DEF IInv, TypeOK
<1>5. ReceiveInv'
  <2>1. upd'.page * PAGE = 0 /\ (upd'.page + 1) * PAGE = PAGE /\ PAGE \in Nat \ {0}
    BY <1>3, ImageAssumption
  <2>2. pc' # "endFlush"
    BY <1>1, InterruptExcludes
  <2> QED
    BY <1>1, <1>3, <2>1, <2>2 DEF ReceiveInv
<1>6. ChallengeInv'
  <2>1. challenge \in Nat /\ challenge <= upd.nonce
    BY DEF IInv, TypeOK, ChallengeInv
  <2>2. challenge' < upd'.nonce /\ upd'.nonce > 0
    BY <1>1, <1>2, <1>3, <2>1
  <2> QED
    BY <1>1, <1>2, <1>3, <2>1, <2>2 DEF ChallengeInv
<1> QED
  BY <1>1, <1>4, <1>5, <1>6, InterruptExcludes, InterruptStep

\* The digest and the counter of the record are the master's word until the
\* CONFIRM.
LEMMA HandleRecordInv ==
    ASSUME IInv,
           \/ \E i \in Image : HandleDigestExpected(ImageDigest(i))
           \/ HandleDigestExpected(NoImagesDigest)
           \/ \E i \in Image : HandleRecordCounter(RollbackCounter[i])
    PROVE  IInv'
<1>1. /\ ServesWrites /\ Receiving /\ Stamp
      /\ UNCHANGED <<main, backup, log, deferred, resetDue, pc, then, cp, mrec, mgen, isr, ip,
                     disturbed, challenge, readSince, starts, faults, cuts>>
  BY DEF HandleDigestExpected, HandleRecordCounter, flash, thread, irq, master, env
<1>2. upd \in Session
  BY DEF IInv, TypeOK
<1>3. /\ upd' \in Session /\ upd'.total = upd.total /\ upd'.stream = upd.stream
      /\ upd'.page = upd.page /\ upd'.inProgress = upd.inProgress /\ upd'.failed = upd.failed
      /\ upd'.awaiting = upd.awaiting
      /\ upd'.nonce = upd.nonce /\ upd'.nonceValid = upd.nonceValid
  <2>1. CASE \E d \in Digests : HandleDigestExpected(d)
    <3>1. PICK d \in Digests : upd' = [upd EXCEPT !.digest = d]
      BY <2>1 DEF HandleDigestExpected
    <3> QED
      BY <1>2, <3>1 DEF Session
  <2>2. CASE \E n \in Nat : HandleRecordCounter(n)
    <3>1. PICK n \in Nat : upd' = [upd EXCEPT !.counter = n]
      BY <2>2 DEF HandleRecordCounter
    <3> QED
      BY <1>2, <3>1 DEF Session
  <2>3. NoImagesDigest \in Digests
    BY SlotSize DEF NoImagesDigest, Digests, Content
  <2> QED
    BY <2>1, <2>2, <2>3, ImageTypes
<1>4. TypeOK'
  <2>1. {resetDue', disturbed', silent', stamped', readSince'} \subseteq BOOLEAN
    BY <1>1, StampFacts DEF IInv, TypeOK
  <2> QED
    BY <1>1, <1>3, <2>1 DEF IInv, TypeOK, Received
<1>5. ReceiveInv'
  BY <1>1, <1>3 DEF IInv, ReceiveInv, Filling, Receiving, Confirming, Received
<1>6. ChallengeInv'
  BY <1>1, <1>3 DEF IInv, ChallengeInv
<1> QED
  BY <1>1, <1>4, <1>5, <1>6, ServedWrites, InterruptStep

\* The page is flushed within the interrupt that fills it.
LEMMA HandleDataInv ==
    ASSUME IInv, NEW c \in FrameCells, HandleData(c)
    PROVE  IInv'
<1>1. /\ ServesWrites /\ Receiving /\ Stamp /\ isr = "idle"
      /\ UNCHANGED <<main, backup, log, deferred, resetDue, pc, then, cp, mrec, mgen, ip,
                     disturbed, challenge, readSince, starts, faults, cuts>>
  BY DEF HandleData, ServesWrites, flash, thread, master, env
<1>2. {resetDue', disturbed', silent', stamped', readSince'} \subseteq BOOLEAN
  BY <1>1, StampFacts DEF IInv, TypeOK
<1>3. CASE ~HasRoom(upd)
  <2>1. upd' = upd /\ isr' = isr
    BY <1>3 DEF HandleData
  <2>2. TypeOK'
    BY <1>1, <1>2, <2>1 DEF IInv, TypeOK, Received
  <2>3. ReceiveInv' /\ ChallengeInv'
    BY <1>1, <2>1 DEF IInv, ReceiveInv, Filling, Receiving, Confirming, Received, ChallengeInv
  <2> QED
    BY <1>1, <2>2, <2>3, ServedWrites, InterruptStep
<1>4. CASE HasRoom(upd)
  <2>1. /\ upd' = [upd EXCEPT !.stream = Append(upd.stream, c)]
        /\ isr' = IF BufferFill(upd) + 1 = PAGE THEN "flush" ELSE "idle"
    BY <1>4 DEF HandleData
  <2>2. upd.stream \in Seq(Image \cup {Noise}) /\ c \in Image \cup {Noise} /\ upd \in Session
    BY LinkAssumption DEF IInv, TypeOK, Session
  <2>3. /\ upd' \in Session /\ upd'.total = upd.total /\ upd'.page = upd.page
        /\ upd'.inProgress = upd.inProgress /\ upd'.failed = upd.failed
        /\ upd'.awaiting = upd.awaiting
        /\ upd'.nonce = upd.nonce /\ upd'.nonceValid = upd.nonceValid
        /\ Received(upd') = Received(upd) + 1 /\ Received(upd) \in Nat
    <3>1. /\ Append(upd.stream, c) \in Seq(Image \cup {Noise})
          /\ Len(Append(upd.stream, c)) = Len(upd.stream) + 1 /\ Len(upd.stream) \in Nat
      BY <2>2
    <3>2. /\ upd' \in Session /\ upd'.total = upd.total /\ upd'.page = upd.page
          /\ upd'.inProgress = upd.inProgress /\ upd'.failed = upd.failed
          /\ upd'.awaiting = upd.awaiting
          /\ upd'.nonce = upd.nonce /\ upd'.nonceValid = upd.nonceValid
          /\ upd'.stream = Append(upd.stream, c)
      BY <2>1, <2>2, <3>1 DEF Session
    <3> QED
      BY <3>1, <3>2 DEF Received
  <2>4. upd.total \in Nat /\ upd.page \in Nat /\ PAGE \in Nat \ {0}
    BY <2>2, SlotSize, ImageAssumption DEF Session
  <2>5. TypeOK'
    <3>1. Received(upd') <= upd'.total
      BY <1>4, <2>3, <2>4 DEF HasRoom
    <3>2. isr' \in {"idle", "flush"}
      BY <2>1
    <3> QED
      BY <1>1, <1>2, <2>3, <3>1, <3>2 DEF IInv, TypeOK
  <2>6. upd.page * PAGE <= Received(upd) /\ Received(upd) < (upd.page + 1) * PAGE
    <3>1. Filling
      BY <1>1, ServedWrites DEF Filling, IInv
    <3> QED
      BY <1>1, <3>1 DEF IInv, ReceiveInv
  <2>7. /\ upd.page * PAGE < Received(upd) + 1
        /\ BufferFill(upd) + 1 = PAGE => Received(upd) + 1 = (upd.page + 1) * PAGE
        /\ BufferFill(upd) + 1 # PAGE => Received(upd) + 1 < (upd.page + 1) * PAGE
    <3>1. BufferFill(upd) = Received(upd) - upd.page * PAGE
      BY DEF BufferFill, Received
    <3> QED
      BY <2>3, <2>4, <2>6, <3>1, BufferArithmetic
  <2>8. /\ upd'.page * PAGE <= Received(upd') /\ Received(upd') <= (upd'.page + 1) * PAGE
        /\ isr' = "flush" => Received(upd') = (upd'.page + 1) * PAGE
        /\ isr' = "idle" => Received(upd') < (upd'.page + 1) * PAGE
    <3>1. (upd.page + 1) * PAGE \in Nat /\ upd.page * PAGE \in Nat
      BY <2>4, MulLeq
    <3> QED
      BY <2>1, <2>3, <2>4, <2>7, <3>1
  <2>9. ReceiveInv'
    <3>1. Receiving' /\ isr' # "erase"
      BY <1>1, <2>1, <2>3 DEF Receiving
    <3>2. pc' # "endFlush"
      BY <1>1, ServedWrites
    <3> QED
      BY <2>8, <3>1, <3>2 DEF ReceiveInv
  <2>10. ChallengeInv'
    BY <1>1, <2>3 DEF IInv, ChallengeInv
  <2> QED
    BY <1>1, <2>5, <2>9, <2>10, ServedWrites, InterruptStep
<1> QED
  BY <1>3, <1>4

\* What flushing the buffer to its page makes of the slot and of the session.
LEMMA FlushedFacts ==
    ASSUME IInv, upd.inProgress, isr # "erase", upd.page * PAGE < Received(upd),
           NEW upd2, upd2 = [upd EXCEPT !.page = upd.page + 1]
    PROVE  /\ Flushed \in Slot
           /\ upd2 \in Session /\ upd2.page = upd.page + 1 /\ upd2.total = upd.total
           /\ upd2.stream = upd.stream /\ upd2.inProgress = upd.inProgress
           /\ upd2.failed = upd.failed /\ upd2.awaiting = upd.awaiting
           /\ upd2.nonce = upd.nonce /\ upd2.nonceValid = upd.nonceValid
           /\ Received(upd2) = Received(upd)
<1>1. /\ upd \in Session /\ backup \in Slot /\ Received(upd) <= upd.total
      /\ upd.page \in Nat /\ upd.total \in Nat /\ upd.total <= APP_MAX_SIZE
      /\ Received(upd) \in Nat /\ PAGE \in Nat \ {0} /\ AppPages \in Nat
  BY SlotSize, ImageAssumption DEF IInv, TypeOK, Session, Received
<1>2. upd.page + 1 \in 0..AppPages
  <2>1. APP_MAX_SIZE = AppPages * PAGE
    BY ImageAssumption DEF APP_MAX_SIZE
  <2>2. upd.page * PAGE < AppPages * PAGE
    BY <1>1, <2>1, MulLeq
  <2> QED
    BY <1>1, <2>2, MulLess
<1>3. /\ upd2 \in Session /\ upd2.page = upd.page + 1 /\ upd2.total = upd.total
      /\ upd2.stream = upd.stream /\ upd2.inProgress = upd.inProgress
      /\ upd2.failed = upd.failed /\ upd2.awaiting = upd.awaiting
      /\ upd2.nonce = upd.nonce /\ upd2.nonceValid = upd.nonceValid
  BY <1>1, <1>2 DEF Session
<1>4. \A k \in Cells : k <= Received(upd) => upd.stream[k] \in Content
  BY <1>1 DEF Session, Content, Cells, Received
<1>5. Flushed \in Slot
  BY <1>1, <1>4, WritePageFacts DEF Flushed
<1> QED
  BY <1>3, <1>5 DEF Received

LEMMA DataFlushInv ==
    ASSUME IInv, DataFlush
    PROVE  IInv'
<1>1. /\ isr = "flush" /\ isr' = "idle"
      /\ disturbed' = (disturbed \/ pc \in FlashSteps)
      /\ UNCHANGED <<main, log, deferred, resetDue, pc, then, cp, mrec, mgen, ip, silent, stamped,
                     challenge, readSince, starts, cuts>>
  BY DEF DataFlush, thread, clock, master
<1>2. /\ upd \in Session /\ backup \in Slot /\ Receiving
      /\ Received(upd) = (upd.page + 1) * PAGE
      /\ upd.page \in Nat /\ PAGE \in Nat \ {0}
  BY <1>1, ImageAssumption DEF IInv, TypeOK, ReceiveInv, Session
<1>3. {resetDue', disturbed', silent', stamped', readSince'} \subseteq BOOLEAN
  <2>1. disturbed' \in BOOLEAN
    BY <1>1
  <2> QED
    BY <1>1, <2>1 DEF IInv, TypeOK
<1>4. CASE backup' = Flushed /\ upd' = [upd EXCEPT !.page = @ + 1] /\ UNCHANGED faults
  <2>1. upd.inProgress /\ upd.page * PAGE < Received(upd)
    BY <1>2, MulLeq DEF Receiving
  <2>2. /\ backup' \in Slot
        /\ upd' \in Session /\ upd'.page = upd.page + 1 /\ upd'.total = upd.total
        /\ upd'.stream = upd.stream /\ upd'.inProgress = upd.inProgress
        /\ upd'.failed = upd.failed /\ upd'.awaiting = upd.awaiting
        /\ upd'.nonce = upd.nonce /\ upd'.nonceValid = upd.nonceValid
        /\ Received(upd') = Received(upd)
    BY <1>1, <1>4, <2>1, FlushedFacts
  <2>3. TypeOK'
    BY <1>1, <1>3, <1>4, <2>2 DEF IInv, TypeOK
  <2>4. ReceiveInv'
    <3>1. /\ upd'.page * PAGE <= Received(upd') /\ Received(upd') < (upd'.page + 1) * PAGE
          /\ Received(upd') <= (upd'.page + 1) * PAGE
      BY <1>2, <2>2, MulLeq
    <3>2. pc' # "endFlush"
      BY <1>1, InterruptExcludes
    <3> QED
      BY <1>1, <3>1, <3>2 DEF ReceiveInv
  <2>5. ChallengeInv'
    BY <1>1, <2>2 DEF IInv, ChallengeInv
  <2> QED
    BY <1>1, <2>3, <2>4, <2>5, InterruptExcludes, InterruptStep
<1>5. CASE /\ IF Fits THEN IsrErrs ELSE UNCHANGED faults
           /\ backup' \in AfterError(backup, upd.page)
           /\ upd' = Fail(upd)
  <2>1. backup' \in Slot
    BY <1>2, <1>5, AfterErrorFacts
  <2>2. faults' \in 0..MaxFaults
    BY <1>5, IsrErrsFacts DEF IInv, TypeOK
  <2>3. /\ upd' \in Session /\ ~upd'.inProgress /\ upd'.nonce = upd.nonce
        /\ upd'.nonceValid = upd.nonceValid
    BY <1>2, <1>5, SessionValues DEF Fail
  <2>4. TypeOK'
    BY <1>1, <1>3, <2>1, <2>2, <2>3 DEF IInv, TypeOK
  <2>5. ReceiveInv'
    BY <1>1, <2>3, InterruptExcludes DEF ReceiveInv, Filling, Receiving
  <2>6. ChallengeInv'
    BY <1>1, <2>3 DEF IInv, ChallengeInv
  <2> QED
    BY <1>1, <2>4, <2>5, <2>6, InterruptExcludes, InterruptStep
<1> QED
  BY <1>4, <1>5 DEF DataFlush

\* Only the queue changes: what is in it is what the main loop may rely on.
LEMMA QueueInv ==
    ASSUME IInv,
           \/ \E i, j \in Image : \E v \in Declared(j) : QueueEndUpdate(ImageDigest(i), v)
           \/ \E i \in Signed : \E v \in Declared(i) : QueueConfirm(Tag(i, v))
    PROVE  IInv'
<1>1. /\ ServesWrites /\ Stamp
      /\ UNCHANGED <<main, backup, log, upd, resetDue, pc, then, cp, mrec, mgen, isr, ip,
                     disturbed, challenge, readSince, starts, faults, cuts>>
  BY DEF QueueEndUpdate, QueueConfirm, flash, thread, irq, master, env
<1>2. DeferredInv'
  <2>1. CASE \E i, j \in Image : \E v \in Declared(j) : QueueEndUpdate(ImageDigest(i), v)
    <3>1. PICK i \in Image, j \in Image :
             \E v \in Declared(j) : QueueEndUpdate(ImageDigest(i), v)
      BY <2>1
    <3>2. PICK v \in Declared(j) : QueueEndUpdate(ImageDigest(i), v)
      BY <3>1
    <3>3. /\ deferred' = [op |-> "end", crc |-> ImageDigest(i), version |-> v]
          /\ v \in Versions
      BY <3>2, ImageTypes DEF QueueEndUpdate
    <3>4. deferred'.op = "end" /\ deferred'.version \in Versions
      BY <3>3
    <3> QED
      BY <1>1, <3>4, ServedWrites DEF DeferredInv, Confirming
  <2>2. CASE \E i \in Signed : \E v \in Declared(i) : QueueConfirm(Tag(i, v))
    <3>1. PICK i \in Signed : \E v \in Declared(i) : QueueConfirm(Tag(i, v))
      BY <2>2
    <3>2. PICK v \in Declared(i) : QueueConfirm(Tag(i, v))
      BY <3>1
    <3>3. deferred' = [op |-> "confirm", tag |-> Tag(i, v)]
      BY <3>2 DEF QueueConfirm
    <3>4. deferred'.op = "confirm" /\ deferred'.tag = Tag(i, v)
      BY <3>3
    <3>5. /\ deferred'.tag.digest = ImageDigest(i) /\ deferred'.tag.size = Size[i]
          /\ deferred'.tag.version = v /\ deferred'.tag.counter = RollbackCounter[i]
          /\ deferred'.tag.nonce = challenge
      BY <3>4 DEF Tag
    <3>6. challenge \in Nat /\ challenge' = challenge /\ challenge <= challenge
      BY <1>1 DEF IInv, TypeOK
    <3>7. \E j \in Signed :
             /\ deferred'.tag.digest = ImageDigest(j) /\ deferred'.tag.size = Size[j]
             /\ deferred'.tag.version \in Declared(j)
             /\ deferred'.tag.counter = RollbackCounter[j]
             /\ deferred'.tag.nonce \in Nat /\ deferred'.tag.nonce <= challenge'
      BY <3>5, <3>6
    <3> QED
      BY <1>1, <3>4, <3>7, ServedWrites DEF DeferredInv, Confirming
  <2> QED
    BY <2>1, <2>2
<1>3. TypeOK'
  <2>1. {resetDue', disturbed', silent', stamped', readSince'} \subseteq BOOLEAN
    BY <1>1, StampFacts DEF IInv, TypeOK
  <2>2. deferred'.op \in {"end", "confirm"}
    BY DEF QueueEndUpdate, QueueConfirm
  <2> QED
    BY <1>1, <2>1, <2>2 DEF IInv, TypeOK, Received
<1>4. InstallInv' /\ ReceiveInv' /\ ChallengeInv'
  BY <1>1 DEF IInv, InstallInv, ReceiveInv, Filling, Receiving, Confirming, Received,
              ChallengeInv
<1> QED
  BY <1>1, <1>2, <1>3, <1>4, LoopUndisturbed

LEMMA ReadChallengeInv ==
    ASSUME IInv, ReadChallenge
    PROVE  IInv'
<1>1. /\ upd.nonceValid /\ challenge' = upd.nonce /\ readSince' = TRUE
      /\ UNCHANGED <<main, backup, log, upd, deferred, resetDue, pc, then, cp, mrec, mgen, isr, ip,
                     disturbed, silent, stamped, starts, faults, cuts>>
  BY DEF ReadChallenge, flash, thread, irq, clock, env
<1>2. upd.nonce \in Nat /\ challenge \in Nat /\ challenge <= upd.nonce /\ upd.nonce <= upd.nonce
  BY DEF IInv, TypeOK, Session, ChallengeInv
<1>3. TypeOK'
  <2>1. {resetDue', disturbed', silent', stamped', readSince'} \subseteq BOOLEAN
    BY <1>1 DEF IInv, TypeOK
  <2> QED
    BY <1>1, <1>2, <2>1 DEF IInv, TypeOK, Received
<1>4. DeferredInv'
  <2>1. deferred.op = "confirm" =>
          \E i \in Signed :
             /\ deferred.tag.digest = ImageDigest(i) /\ deferred.tag.size = Size[i]
             /\ deferred.tag.version \in Declared(i)
             /\ deferred.tag.counter = RollbackCounter[i]
             /\ deferred.tag.nonce \in Nat /\ deferred.tag.nonce <= upd.nonce
    BY <1>2 DEF IInv, DeferredInv
  <2> QED
    BY <1>1, <2>1 DEF IInv, DeferredInv, DeferredBusy, Confirming
<1>5. InstallInv' /\ ReceiveInv' /\ ChallengeInv'
  BY <1>1, <1>2 DEF IInv, InstallInv, ReceiveInv, Filling, Receiving, Confirming, Received,
                    ChallengeInv
<1> QED
  BY <1>1, <1>3, <1>4, <1>5, LoopUndisturbed

LEMMA TimePassesInv ==
    ASSUME IInv, TimePasses
    PROVE  IInv'
<1>1. /\ silent' = TRUE
      /\ UNCHANGED <<main, backup, log, upd, deferred, resetDue, pc, then, cp, mrec, mgen, isr, ip,
                     disturbed, stamped, challenge, readSince, starts, faults, cuts>>
  BY DEF TimePasses, flash, thread, irq, master, env
<1>2. TypeOK'
  <2>1. {resetDue', disturbed', silent', stamped', readSince'} \subseteq BOOLEAN
    BY <1>1 DEF IInv, TypeOK
  <2> QED
    BY <1>1, <2>1 DEF IInv, TypeOK, Received
<1>3. DeferredInv' /\ InstallInv' /\ ReceiveInv' /\ ChallengeInv'
  BY <1>1 DEF IInv, DeferredInv, DeferredBusy, InstallInv, ReceiveInv, Filling, Receiving,
              Confirming, Received, ChallengeInv
<1> QED
  BY <1>1, <1>2, <1>3, LoopUndisturbed

-----------------------------------------------------------------------------
(* The deferred steps *)

\* HandleEndUpdate finds either a session that receives, with its buffer, or
\* nothing to do.
LEMMA ServeEndInv ==
    ASSUME IInv, isr = "idle", ServeEnd
    PROVE  IInv'
<1>1. /\ pc = "loop" /\ deferred.op = "end" /\ pc' \in {"endFlush", "endVerify", "clear"}
      /\ silent' = FALSE \/ silent' = silent
      /\ UNCHANGED <<main, backup, log, upd, deferred, resetDue, then, cp, mrec, mgen, isr, ip,
                     disturbed, stamped, challenge, readSince, starts, faults, cuts>>
  BY DEF ServeEnd, flash, irq, master, env
<1>2. then = "none" /\ ~resetDue /\ deferred.version \in Versions
  BY <1>1 DEF IInv, CopyInv, WritesMeta, Copies, DeferredInv
<1>3. TypeOK'
  <2>1. silent' \in BOOLEAN
    BY <1>1 DEF IInv, TypeOK
  <2>2. {resetDue', disturbed', silent', stamped', readSince'} \subseteq BOOLEAN
    BY <1>1, <2>1 DEF IInv, TypeOK
  <2> QED
    BY <1>1, <2>2 DEF IInv, TypeOK, Received
<1>4. RecordsAreVouched' /\ LogShape(log')
  BY <1>1 DEF IInv, RecordsAreVouched
<1>5. WriteInv' /\ CopyInv' /\ RunInv' /\ InstallInv'
  BY <1>1, <1>2 DEF WriteInv, WritesMeta, CopyInv, Copies, RunInv, InstallInv
<1>6. DeferredInv' /\ ChallengeInv'
  BY <1>1, <1>2 DEF IInv, DeferredInv, DeferredBusy, Confirming, ChallengeInv
<1>7. ReceiveInv'
  <2>1. CASE Receiving
    <3>1. /\ upd.page * PAGE <= Received(upd) /\ Received(upd) <= (upd.page + 1) * PAGE
          /\ Received(upd) < (upd.page + 1) * PAGE
      BY <1>1, <1>2, <2>1 DEF IInv, ReceiveInv, Filling, Confirming
    <3>2. pc' = "endFlush" => upd.page * PAGE < Received(upd)
      <4>1. Received(upd) \in Nat /\ upd.page * PAGE \in Nat
        BY ImageAssumption, MulLeq DEF IInv, TypeOK, Session, Received
      <4>2. pc' = "endFlush" => Received(upd) - upd.page * PAGE > 0
        BY <1>1, <2>1 DEF ServeEnd, BufferFill, Received
      <4> QED
        BY <4>1, <4>2
    <3>3. UNCHANGED <<upd, isr, ip>> /\ isr = "idle"
      BY <1>1
    <3> QED
      BY <2>1, <3>1, <3>2, <3>3 DEF ReceiveInv, Filling, Receiving, Received
  <2>2. CASE ~Receiving
    <3>1. pc' = "clear"
      BY <2>2 DEF ServeEnd
    <3> QED
      BY <1>1, <2>2, <3>1 DEF ReceiveInv, Filling, Receiving
  <2> QED
    BY <2>1, <2>2
<1> QED
  BY <1>3, <1>4, <1>5, <1>6, <1>7 DEF IInv

\* The last page of a transfer, in the main loop.
LEMMA EndFlushInv ==
    ASSUME IInv, isr = "idle", EndFlush
    PROVE  IInv'
<1>1. /\ pc = "endFlush"
      /\ UNCHANGED <<main, log, deferred, resetDue, then, cp, mrec, mgen, isr, ip, disturbed,
                     silent, stamped, challenge, readSince, starts, cuts>>
  BY DEF EndFlush, irq, clock, master
<1>2. /\ then = "none" /\ deferred.op = "end" /\ ~resetDue
      /\ upd \in Session /\ backup \in Slot /\ Receiving /\ upd.page * PAGE < Received(upd)
      /\ upd.page \in Int
  BY <1>1 DEF IInv, TypeOK, Session, CopyInv, WritesMeta, Copies, DeferredInv, ReceiveInv
<1>3. /\ backup' \in Slot /\ upd' \in Session /\ upd'.nonce = upd.nonce
      /\ upd'.nonceValid = upd.nonceValid /\ faults' \in 0..MaxFaults
      /\ \/ pc' = "endVerify" /\ upd'.inProgress /\ upd'.total = upd.total
            /\ Received(upd') = Received(upd)
         \/ pc' = "clear" /\ ~upd'.inProgress
  <2>1. CASE /\ backup' = Flushed /\ upd' = [upd EXCEPT !.page = @ + 1]
             /\ pc' = "endVerify" /\ UNCHANGED faults
    <3>1. /\ backup' \in Slot /\ upd' \in Session /\ upd'.nonce = upd.nonce
          /\ upd'.nonceValid = upd.nonceValid /\ upd'.inProgress /\ upd'.total = upd.total
          /\ Received(upd') = Received(upd)
      BY <1>2, <2>1, FlushedFacts DEF Receiving
    <3>2. faults' \in 0..MaxFaults
      BY <2>1 DEF IInv, TypeOK
    <3> QED
      BY <2>1, <3>1, <3>2
  <2>2. CASE /\ Fits => CanFault
             /\ faults' = IF Fits THEN faults + 1 ELSE faults
             /\ backup' \in AfterError(backup, upd.page)
             /\ upd' = Fail(upd)
             /\ pc' = "clear"
    <3>1. backup' \in Slot
      BY <1>2, <2>2, AfterErrorFacts
    <3>2. faults' \in 0..MaxFaults
      BY <2>2, LinkAssumption DEF IInv, TypeOK, CanFault
    <3>3. /\ upd' \in Session /\ ~upd'.inProgress /\ upd'.nonce = upd.nonce
          /\ upd'.nonceValid = upd.nonceValid
      BY <1>2, <2>2, SessionValues DEF Fail
    <3> QED
      BY <2>2, <3>1, <3>2, <3>3
  <2> QED
    BY <2>1, <2>2 DEF EndFlush
<1>4. TypeOK'
  <2>1. {resetDue', disturbed', silent', stamped', readSince'} \subseteq BOOLEAN
    BY <1>1 DEF IInv, TypeOK
  <2>2. upd'.inProgress => Received(upd') <= upd'.total
    BY <1>2, <1>3 DEF IInv, TypeOK, Receiving
  <2> QED
    BY <1>1, <1>3, <2>1, <2>2 DEF IInv, TypeOK
<1>5. RecordsAreVouched' /\ LogShape(log')
  BY <1>1 DEF IInv, RecordsAreVouched
<1>6. WriteInv' /\ CopyInv' /\ RunInv' /\ InstallInv'
  BY <1>1, <1>2, <1>3 DEF WriteInv, WritesMeta, CopyInv, Copies, RunInv, InstallInv
<1>7. DeferredInv'
  BY <1>1, <1>2, <1>3 DEF IInv, DeferredInv, DeferredBusy, Confirming
<1>8. ReceiveInv'
  BY <1>1, <1>3 DEF ReceiveInv, Filling, Receiving
<1>9. ChallengeInv'
  BY <1>1, <1>2, <1>3 DEF IInv, ChallengeInv, Receiving
<1> QED
  BY <1>4, <1>5, <1>6, <1>7, <1>8, <1>9 DEF IInv

\* A session that is complete waits for its confirmation, any other is over.
LEMMA EndVerifyInv ==
    ASSUME IInv, isr = "idle", EndVerify
    PROVE  IInv'
<1>1. /\ pc = "endVerify" /\ pc' = "clear"
      /\ silent' = FALSE \/ silent' = silent
      /\ UNCHANGED <<main, backup, log, deferred, resetDue, then, cp, mrec, mgen, isr, ip,
                     disturbed, stamped, challenge, readSince, starts, faults, cuts>>
  BY DEF EndVerify, flash, irq, master, env
<1>2. then = "none" /\ deferred.op = "end" /\ ~resetDue /\ deferred.version \in Versions
      /\ upd \in Session
  BY <1>1 DEF IInv, TypeOK, CopyInv, WritesMeta, Copies, DeferredInv
<1>3. /\ upd' \in Session /\ upd'.nonce = upd.nonce /\ upd'.nonceValid = upd.nonceValid
      /\ \/ /\ upd'.inProgress = upd.inProgress /\ upd'.total = upd.total
            /\ upd'.stream = upd.stream /\ upd'.awaiting
         \/ ~upd'.inProgress
  <2>1. CASE upd' = [upd EXCEPT !.awaiting = TRUE, !.version = deferred.version]
    <3>1. TRUE \in BOOLEAN
      OBVIOUS
    <3>2. upd' \in Session
      BY <1>2, <2>1, <3>1 DEF Session
    <3>3. /\ upd'.nonce = upd.nonce /\ upd'.nonceValid = upd.nonceValid
          /\ upd'.inProgress = upd.inProgress /\ upd'.total = upd.total
          /\ upd'.stream = upd.stream /\ upd'.awaiting
      BY <1>2, <2>1 DEF Session
    <3> QED
      BY <3>2, <3>3
  <2>2. CASE upd' = Fail(upd)
    BY <1>2, <2>2, SessionValues DEF Fail
  <2> QED
    BY <2>1, <2>2 DEF EndVerify
<1>4. TypeOK'
  <2>1. silent' \in BOOLEAN
    BY <1>1 DEF IInv, TypeOK
  <2>2. {resetDue', disturbed', silent', stamped', readSince'} \subseteq BOOLEAN
    BY <1>1, <2>1 DEF IInv, TypeOK
  <2>3. upd'.inProgress /\ isr' # "erase" => Received(upd') <= upd'.total
    BY <1>1, <1>3 DEF IInv, TypeOK, Received
  <2> QED
    BY <1>1, <1>3, <2>2, <2>3 DEF IInv, TypeOK
<1>5. RecordsAreVouched' /\ LogShape(log')
  BY <1>1 DEF IInv, RecordsAreVouched
<1>6. WriteInv' /\ CopyInv' /\ RunInv' /\ InstallInv'
  BY <1>1, <1>2 DEF WriteInv, WritesMeta, CopyInv, Copies, RunInv, InstallInv
<1>7. DeferredInv'
  BY <1>1, <1>2 DEF IInv, DeferredInv, DeferredBusy, Confirming
<1>8. ReceiveInv'
  BY <1>1, <1>3 DEF ReceiveInv, Filling, Receiving
<1>9. ChallengeInv'
  BY <1>1, <1>3 DEF IInv, ChallengeInv
<1> QED
  BY <1>4, <1>5, <1>6, <1>7, <1>8, <1>9 DEF IInv

\* The counter of the newest record is not above the floor.
LEMMA CounterFloorFacts ==
    ASSUME IInv
    PROVE  /\ CounterFloor \in Nat
           /\ HasRecord(log) => ReadMeta(log).counter <= CounterFloor
<1>1. MinCounter \in Nat
  BY ImageAssumption
<1>2. HasRecord(log) => ReadMeta(log).counter \in Nat
  BY ReadMetaFacts DEF IInv, TypeOK, Meta
<1> QED
  BY <1>1, <1>2 DEF CounterFloor

\* A tag that matches was made for the image of the session by a master that
\* verified its record: what it covers can be recorded as pending.
LEMMA ConfirmedIsVouched ==
    ASSUME IInv, deferred.op = "confirm", Confirmed
    PROVE  /\ PendingMeta \in Meta /\ Vouched(PendingMeta)
           /\ PendingMeta.state = COPY_PENDING
           /\ Digest(backup, PendingMeta.size) = PendingMeta.digest
           /\ HasRecord(log) => PendingMeta.counter >= ReadMeta(log).counter
<1>1. PICK i \in Signed :
         /\ deferred.tag.digest = ImageDigest(i) /\ deferred.tag.size = Size[i]
         /\ deferred.tag.version \in Declared(i)
         /\ deferred.tag.counter = RollbackCounter[i]
  BY DEF IInv, DeferredInv
<1>2. deferred.tag = Message(upd)
  BY DEF Confirmed, TagMatches
<1>3. /\ upd.digest = ImageDigest(i) /\ upd.total = Size[i]
      /\ upd.version \in Declared(i) /\ upd.counter = RollbackCounter[i]
  BY <1>1, <1>2 DEF Message
<1>4. i \in Image
  BY ImageAssumption
<1>5. /\ upd.version \in Versions /\ upd.total \in Cells /\ upd.digest \in Digests
      /\ upd.counter \in Nat
  BY <1>3, <1>4, ImageTypes
<1>6. /\ PendingMeta.state = COPY_PENDING /\ PendingMeta.size = upd.total
      /\ PendingMeta.digest = upd.digest /\ PendingMeta.version = upd.version
      /\ PendingMeta.counter = upd.counter
  BY DEF PendingMeta
<1>7. PendingMeta \in Meta
  BY <1>5, ImageAssumption DEF PendingMeta, Meta
<1>8. Vouched(PendingMeta)
  BY <1>3, <1>6 DEF Vouched
<1>9. HasRecord(log) => PendingMeta.counter >= ReadMeta(log).counter
  <2>1. upd.counter >= CounterFloor
    BY DEF Confirmed
  <2>2. HasRecord(log) => ReadMeta(log).counter \in Nat
    BY ReadMetaFacts DEF IInv, TypeOK, Meta
  <2> QED
    BY <1>5, <1>6, <2>1, <2>2, CounterFloorFacts
<1> QED
  BY <1>6, <1>7, <1>8, <1>9 DEF Confirmed

\* A CONFIRM that is accepted records the image as pending before the main
\* slot is touched; any other ends the session for good.
LEMMA ServeConfirmInv ==
    ASSUME IInv, isr = "idle", ServeConfirm
    PROVE  IInv'
<1>1. /\ pc = "loop" /\ deferred.op = "confirm"
      /\ silent' = FALSE \/ silent' = silent
      /\ UNCHANGED <<main, backup, log, deferred, resetDue, cp, mgen, isr, ip, disturbed, stamped,
                     challenge, readSince, starts, faults, cuts>>
  BY DEF ServeConfirm, flash, irq, master, env
<1>2. then = "none" /\ upd \in Session /\ mrec \in Meta
  BY <1>1 DEF IInv, TypeOK, CopyInv, WritesMeta, Copies
<1>3. {resetDue', disturbed', silent', stamped', readSince'} \subseteq BOOLEAN
  <2>1. silent' \in BOOLEAN
    BY <1>1 DEF IInv, TypeOK
  <2> QED
    BY <1>1, <2>1 DEF IInv, TypeOK
<1>4. RecordsAreVouched' /\ LogShape(log')
  BY <1>1 DEF IInv, RecordsAreVouched
<1>5. CASE pc' = "clear" /\ UNCHANGED <<then, mrec>> /\ upd' \in {upd, FailUpdate(upd)}
  <2>1. \/ upd' = upd
        \/ ~upd'.inProgress /\ upd'.nonce = upd.nonce /\ (upd'.nonceValid => upd.nonceValid)
    BY <1>2, <1>5, SessionValues
  <2>2. upd' \in Session
    BY <1>2, <1>5, SessionValues
  <2>3. TypeOK'
    <3>1. upd'.inProgress /\ isr' # "erase" => Received(upd') <= upd'.total
      BY <1>1, <2>1 DEF IInv, TypeOK
    <3> QED
      BY <1>1, <1>2, <1>3, <1>5, <2>2, <3>1 DEF IInv, TypeOK
  <2>4. WriteInv' /\ CopyInv' /\ RunInv' /\ InstallInv'
    BY <1>2, <1>5 DEF WriteInv, WritesMeta, CopyInv, Copies, RunInv, InstallInv
  <2>5. DeferredInv' /\ ReceiveInv' /\ ChallengeInv'
    <3>1. ~Confirming /\ ~Confirming'
      BY <1>2, <1>5 DEF Confirming
    <3> QED
      BY <1>1, <1>5, <2>1, <2>3, <3>1, LinkUndisturbed
  <2> QED
    BY <1>4, <2>3, <2>4, <2>5 DEF IInv
<1>6. CASE /\ Confirmed /\ CallMetaWrite(PendingMeta, "pending")
           /\ upd' = [upd EXCEPT !.awaiting = FALSE, !.nonceValid = FALSE]
  <2>1. pc' = "metaBegin" /\ then' = "pending" /\ mrec' = PendingMeta
    BY <1>6 DEF CallMetaWrite
  <2>2. /\ PendingMeta \in Meta /\ Vouched(PendingMeta) /\ PendingMeta.state = COPY_PENDING
        /\ Digest(backup, PendingMeta.size) = PendingMeta.digest
        /\ HasRecord(log) => PendingMeta.counter >= ReadMeta(log).counter
    BY <1>1, <1>6, ConfirmedIsVouched
  <2>3. /\ upd' \in Session /\ upd'.inProgress = upd.inProgress /\ upd'.nonce = upd.nonce
        /\ ~upd'.nonceValid /\ upd'.total = upd.total /\ upd'.stream = upd.stream
    <3>1. FALSE \in BOOLEAN
      OBVIOUS
    <3> QED
      BY <1>2, <1>6, <3>1 DEF Session
  <2>4. TypeOK'
    <3>1. upd'.inProgress /\ isr' # "erase" => Received(upd') <= upd'.total
      BY <1>1, <2>3 DEF IInv, TypeOK, Received
    <3> QED
      BY <1>1, <1>3, <2>1, <2>2, <2>3, <3>1 DEF IInv, TypeOK
  <2>5. WriteInv'
    BY <1>1, <2>1, <2>2 DEF WriteInv, WritesMeta
  <2>6. CopyInv' /\ RunInv' /\ InstallInv'
    BY <1>1, <2>1, <2>2 DEF CopyInv, Copies, WritesMeta, RunInv, InstallInv
  <2>7. DeferredInv'
    BY <1>1, <2>1 DEF IInv, DeferredInv, DeferredBusy, Confirming
  <2>8. ReceiveInv'
    BY <1>1, <2>1 DEF ReceiveInv, Filling, Confirming
  <2>9. ChallengeInv'
    BY <1>1, <2>3 DEF IInv, ChallengeInv
  <2> QED
    BY <1>4, <2>4, <2>5, <2>6, <2>7, <2>8, <2>9 DEF IInv
<1> QED
  BY <1>5, <1>6 DEF ServeConfirm

LEMMA ClearInv ==
    ASSUME IInv, isr = "idle", Clear
    PROVE  IInv'
<1>1. /\ pc = "clear" /\ pc' = "loop" /\ deferred' = NoOp
      /\ UNCHANGED <<main, backup, log, upd, resetDue, then, cp, mrec, mgen, isr, ip, disturbed,
                     silent, stamped, challenge, readSince, starts, faults, cuts>>
  BY DEF Clear, flash, irq, clock, master, env
<1>2. then = "none" /\ deferred'.op = "none"
  BY <1>1 DEF IInv, CopyInv, WritesMeta, Copies, NoOp
<1>3. TypeOK'
  <2>1. {resetDue', disturbed', silent', stamped', readSince'} \subseteq BOOLEAN
    BY <1>1 DEF IInv, TypeOK
  <2> QED
    BY <1>1, <1>2, <2>1 DEF IInv, TypeOK, Received
<1>4. RecordsAreVouched' /\ LogShape(log')
  BY <1>1 DEF IInv, RecordsAreVouched
<1>5. WriteInv' /\ CopyInv' /\ RunInv' /\ InstallInv'
  BY <1>1, <1>2 DEF WriteInv, WritesMeta, CopyInv, Copies, RunInv, InstallInv
<1>6. DeferredInv'
  BY <1>1, <1>2 DEF DeferredInv, DeferredBusy, Confirming
<1>7. ReceiveInv' /\ ChallengeInv'
  BY <1>1, <1>2 DEF IInv, ReceiveInv, Filling, Receiving, Received, Confirming, ChallengeInv
<1> QED
  BY <1>3, <1>4, <1>5, <1>6, <1>7 DEF IInv

-----------------------------------------------------------------------------
(* Resets, the power *)

\* A reset forgets all but the flash and the number of the session, wherever
\* it comes.
LEMMA RestartInv ==
    ASSUME IInv, Restart, UNCHANGED <<challenge, readSince, starts, faults>>,
           main' \in Slot, backup' \in Slot, log' \in Log, LogShape(log'), RecordsAreVouched',
           cuts' \in 0..MaxCuts
    PROVE  IInv'
<1>1. /\ pc' = "boot" /\ then' = "none" /\ cp' = 0 /\ mrec' = NoMeta /\ mgen' = 0
      /\ upd' = Reborn(upd) /\ deferred' = NoOp /\ resetDue' = FALSE
      /\ isr' = "idle" /\ ip' = 0 /\ disturbed' = FALSE
      /\ silent' = FALSE /\ stamped' = FALSE
  BY DEF Restart
<1>2. /\ upd' \in Session /\ ~upd'.inProgress /\ upd'.nonce = upd.nonce /\ ~upd'.nonceValid
      /\ deferred'.op = "none"
  BY <1>1, SessionValues DEF IInv, TypeOK, NoOp
<1>3. TypeOK'
  <2>1. readSince' \in BOOLEAN
    BY DEF IInv, TypeOK
  <2>2. {resetDue', disturbed', silent', stamped', readSince'} \subseteq BOOLEAN
    BY <1>1, <2>1
  <2>3. {cp', ip'} \subseteq 0..AppPages /\ mrec' \in Meta /\ mgen' \in Nat
    BY <1>1, MetaAtRest, ImageAssumption
  <2> QED
    BY <1>1, <1>2, <2>2, <2>3 DEF IInv, TypeOK
<1>4. WriteInv' /\ CopyInv' /\ RunInv' /\ InstallInv'
  BY <1>1 DEF WriteInv, WritesMeta, CopyInv, Copies, RunInv, InstallInv
<1>5. DeferredInv'
  BY <1>1, <1>2 DEF DeferredInv, DeferredBusy, Confirming
<1>6. ReceiveInv' /\ ChallengeInv'
  BY <1>1, <1>2 DEF IInv, ReceiveInv, Filling, Receiving, ChallengeInv
<1> QED
  BY <1>3, <1>4, <1>5, <1>6 DEF IInv

LEMMA ResetInv ==
    ASSUME IInv, ResetAfterUpdate \/ ResetApplication
    PROVE  IInv'
<1>1. Restart /\ UNCHANGED <<main, backup, log, challenge, readSince, starts, faults, cuts>>
  BY DEF ResetAfterUpdate, ResetApplication, flash, master, env
<1>2. /\ main' \in Slot /\ backup' \in Slot /\ log' \in Log /\ LogShape(log')
      /\ RecordsAreVouched' /\ cuts' \in 0..MaxCuts
  BY <1>1 DEF IInv, TypeOK, RecordsAreVouched
<1> QED
  BY <1>1, <1>2, RestartInv

\* A cut in the middle of any operation, of either thread.
LEMMA PowerCutInv ==
    ASSUME IInv, PowerCut
    PROVE  IInv'
<1>1. /\ Restart /\ CutMain /\ CutBackup /\ CutLog /\ cuts < MaxCuts /\ cuts' = cuts + 1
      /\ UNCHANGED <<challenge, readSince, starts, faults>>
  BY DEF PowerCut, master
<1>2. /\ main \in Slot /\ backup \in Slot /\ log \in Log /\ LogShape(log)
      /\ cp \in Int /\ ip \in Int /\ upd.page \in Int /\ TornCell \in Content
  BY ImageAssumption DEF IInv, TypeOK, Session, Content
<1>3. main' \in Slot /\ backup' \in Slot
  BY <1>1, <1>2, FillPageFacts DEF CutMain, CutBackup
<1>4. log' \in Log /\ LogShape(log') /\ RecordsAreVouched'
  <2>1. CASE log' = log
    BY <1>2, <2>1 DEF IInv, RecordsAreVouched
  <2>2. CASE log' = TornPage
    BY <2>2, EmptyPageFacts DEF RecordsAreVouched
  <2>3. CASE ~IsFull(log) /\ log' = Appended(log, TornRecord)
    BY <1>2, <2>3, TearFacts DEF IInv, RecordsAreVouched
  <2> QED
    BY <1>1, <2>1, <2>2, <2>3 DEF CutLog
<1>5. cuts' \in 0..MaxCuts
  BY <1>1, LinkAssumption DEF IInv, TypeOK
<1> QED
  BY <1>1, <1>3, <1>4, <1>5, RestartInv

-----------------------------------------------------------------------------
(* The inductive invariant *)

LEMMA InitInv == Init => IInv
<1> SUFFICES ASSUME Init PROVE IInv
  OBVIOUS
<1>1. main \in Slot /\ backup \in Slot
  BY DEF Init, Slot, Content
<1>2. log \in Log /\ LogShape(log) /\ RecordSlots(log) = {} /\ ~HasRecord(log)
  BY EmptyPageFacts DEF Init
<1>3. TypeOK
  <2>1. /\ upd \in Session /\ ~upd.inProgress /\ mrec \in Meta
        /\ {cp, ip} \subseteq 0..AppPages /\ mgen \in Nat /\ challenge \in Nat
    BY SessionValues, MetaAtRest, ImageAssumption DEF Init
  <2>2. {resetDue, disturbed, silent, stamped, readSince} \subseteq BOOLEAN
    BY DEF Init
  <2>3. starts \in 0..MaxStarts /\ faults \in 0..MaxFaults /\ cuts \in 0..MaxCuts
    BY LinkAssumption DEF Init
  <2>4. /\ deferred.op = "none" /\ pc = "boot" /\ then = "none" /\ isr = "idle"
    BY DEF Init, NoOp
  <2> QED
    BY <1>1, <1>2, <2>1, <2>2, <2>3, <2>4 DEF TypeOK
<1>4. /\ pc = "boot" /\ then = "none" /\ isr = "idle" /\ deferred = NoOp /\ resetDue = FALSE
      /\ upd.nonce = 0 /\ upd.inProgress = FALSE /\ upd.nonceValid = FALSE
      /\ challenge = 0 /\ readSince = FALSE /\ deferred.op = "none"
  BY DEF Init, NoSession, NoOp
<1>5. WriteInv /\ CopyInv /\ RunInv /\ InstallInv /\ RecordsAreVouched
  BY <1>2, <1>4 DEF WriteInv, WritesMeta, CopyInv, Copies, RunInv, InstallInv, RecordsAreVouched
<1>6. DeferredInv
  BY <1>4 DEF DeferredInv, DeferredBusy, Confirming
<1>7. ReceiveInv /\ ChallengeInv
  BY <1>4 DEF ReceiveInv, Filling, Receiving, ChallengeInv
<1> QED
  BY <1>2, <1>3, <1>5, <1>6, <1>7 DEF IInv

LEMMA MainStepInv == IInv /\ MainStep => IInv'
  BY ApplicationIsValidInv, IdleStepsInv, MetaBeginInv, MetaEraseInv, MetaWriteStepInv,
     CopyEraseInv, CopyWriteInv, CopyDoneInv, ServeEndInv, EndFlushInv, EndVerifyInv,
     ServeConfirmInv, ClearInv, ResetInv DEF MainStep

LEMMA IsrStepInv == IInv /\ IsrStep => IInv'
  BY StartEraseInv, StartReceivingInv, DataFlushInv DEF IsrStep

LEMMA MasterWriteInv == IInv /\ MasterWrite => IInv'
<1> SUFFICES ASSUME IInv, MasterWrite PROVE IInv'
  OBVIOUS
<1>1. CASE \E i \in Image : HandleStartUpdate(Size[i])
  BY <1>1, HandleStartUpdateInv
<1>2. CASE \/ \E i \in Image : HandleDigestExpected(ImageDigest(i))
           \/ HandleDigestExpected(NoImagesDigest)
           \/ \E i \in Image : HandleRecordCounter(RollbackCounter[i])
  BY <1>2, HandleRecordInv
<1>3. CASE \E c \in FrameCells : HandleData(c)
  BY <1>3, HandleDataInv
<1>4. CASE \/ \E i, j \in Image : \E v \in Declared(j) : QueueEndUpdate(ImageDigest(i), v)
           \/ \E i \in Signed : \E v \in Declared(i) : QueueConfirm(Tag(i, v))
  BY <1>4, QueueInv
<1> QED
  BY <1>1, <1>2, <1>3, <1>4 DEF MasterWrite

LEMMA StutterInv == IInv /\ UNCHANGED vars => IInv'
<1> SUFFICES ASSUME IInv, UNCHANGED vars PROVE IInv'
  OBVIOUS
<1>1. UNCHANGED <<main, backup, log, upd, deferred, resetDue, pc, then, cp, mrec, mgen, isr, ip,
                  disturbed, silent, stamped, challenge, readSince, starts, faults, cuts>>
  BY DEF vars, flash, thread, irq, clock, master, env
<1>2. TypeOK'
  <2>1. {resetDue', disturbed', silent', stamped', readSince'} \subseteq BOOLEAN
    BY <1>1 DEF IInv, TypeOK
  <2> QED
    BY <1>1, <2>1 DEF IInv, TypeOK, Received
<1>3. DeferredInv' /\ InstallInv' /\ ReceiveInv' /\ ChallengeInv'
  BY <1>1 DEF IInv, DeferredInv, DeferredBusy, InstallInv, ReceiveInv, Filling, Receiving,
              Confirming, Received, ChallengeInv
<1> QED
  BY <1>1, <1>2, <1>3, LoopUndisturbed

LEMMA NextInv == IInv /\ [Next]_vars => IInv'
  BY MainStepInv, IsrStepInv, MasterWriteInv, ReadChallengeInv, TimePassesInv, ResetInv,
     PowerCutInv, StutterInv DEF Next

\* The inductive invariant holds in every reachable state.
THEOREM Invariance == Spec => []IInv
  BY InitInv, NextInv, PTL DEF Spec

-----------------------------------------------------------------------------
(* What the slave never does *)

\* Metadata_EraseAndWrite only ever writes records of images the master
\* vouched for, or the adopted baseline, whatever the interrupt does meanwhile.
THEOREM Vouching == Spec => []RecordsAreVouched
<1>1. IInv => RecordsAreVouched
  BY DEF IInv
<1> QED
  BY <1>1, Invariance, PTL

\* JumpToApplication enters only what the newest record describes.
THEOREM StartsWhatIsRecorded == Spec => []RunsWhatIsRecorded
<1>1. IInv => RunsWhatIsRecorded
  BY DEF IInv, RunInv, Matches, RunsWhatIsRecorded
<1> QED
  BY <1>1, Invariance, PTL

\* HandleConfirm copies the image it verified: the deferred step keeps the
\* interrupt from the backup slot until it has ended.
THEOREM InstallsVerified == Spec => []InstallCopiesVerified
<1>1. IInv => InstallCopiesVerified
  BY DEF IInv, InstallInv, InstallCopiesVerified
<1> QED
  BY <1>1, Invariance, PTL

-----------------------------------------------------------------------------
(* What a step may never do *)

\* HandleConfirm accepts only a tag made with the nonce of this session, and
\* the master made none with a nonce it had not read within it.
THEOREM OneUsePerSession == Spec => ConfirmedInSession
<1>1. IInv /\ [Next]_vars => [pc = "loop" /\ pc' = "metaBegin" => readSince]_vars
  <2> SUFFICES ASSUME IInv, [Next]_vars, pc = "loop", pc' = "metaBegin"
               PROVE  readSince
    OBVIOUS
  <2>1. Next
    BY DEF vars, thread
  <2>2. ~IsrStep /\ ~ReadChallenge /\ ~TimePasses
    BY DEF IsrStep, StartErase, StartReceiving, DataFlush, ReadChallenge, TimePasses, thread
  <2>3. ~MasterWrite
    BY DEF MasterWrite, HandleStartUpdate, HandleDigestExpected, HandleRecordCounter,
           HandleData, QueueEndUpdate, QueueConfirm, thread
  <2>4. ~ResetApplication /\ ~PowerCut
    BY DEF ResetApplication, PowerCut, Restart
  <2>5. MainStep => ServeConfirm
    BY DEF MainStep, ApplicationIsValid, WindowBody, ListenWindowExpired, JumpToApplication,
           MetaBegin, MetaErase, MetaWrite, CopyErase, CopyWrite, CopyDone,
           ServeEnd, EndFlush, EndVerify, Clear, ResetAfterUpdate, Restart,
           ReadTick, CompareTick, Abort
  <2>6. ServeConfirm
    BY <2>1, <2>2, <2>3, <2>4, <2>5 DEF Next
  <2>7. deferred.op = "confirm" /\ Awaiting /\ Confirmed
    BY <2>6 DEF ServeConfirm
  <2>8. deferred.tag.nonce = upd.nonce
    BY <2>7 DEF Confirmed, TagMatches, Message
  <2>9. deferred.tag.nonce <= challenge
    BY <2>7 DEF IInv, DeferredInv
  <2>10. /\ challenge \in Nat /\ upd.nonce \in Nat /\ challenge <= upd.nonce /\ upd.nonce > 0
         /\ challenge = upd.nonce /\ upd.nonce > 0 => readSince
    BY <2>7 DEF IInv, TypeOK, Session, ChallengeInv, Awaiting
  <2> QED
    BY <2>8, <2>9, <2>10
<1> QED
  BY <1>1, Invariance, PTL DEF Spec, ConfirmedInSession

\* Metadata_EraseAndWrite never writes a lower counter than that of the
\* newest record, not even when the interrupt made its erase vanish.
THEOREM CounterIsMonotonic == Spec => CounterNeverFalls
<1>1. IInv /\ [Next]_vars => [HasRecord(log) /\ HasRecord(log')
                                => ReadMeta(log').counter >= ReadMeta(log).counter]_vars
  <2> SUFFICES ASSUME IInv, [Next]_vars, HasRecord(log), HasRecord(log')
               PROVE  ReadMeta(log').counter >= ReadMeta(log).counter
    OBVIOUS
  <2>1. log \in Log /\ LogShape(log)
    BY DEF IInv, TypeOK
  <2>2. ReadMeta(log).counter \in Nat
    BY <2>1, ReadMetaFacts DEF Meta
  <2>3. CASE log' = log
    BY <2>2, <2>3
  <2>4. CASE MetaErase
    <3>1. log' \in {BlankPage, TornPage, log}
      BY <2>4 DEF MetaErase, AfterErase
    <3>2. log' = log
      BY <3>1, EmptyPageFacts
    <3> QED
      BY <2>3, <3>2
  <2>5. CASE MetaWrite
    <3>1. /\ mrec \in Meta /\ mgen \in Nat
          /\ \A s \in RecordSlots(log) : log[s].gen < mgen
          /\ mrec.counter >= ReadMeta(log).counter
      BY <2>5 DEF IInv, TypeOK, WriteInv, WritesMeta, MetaWrite
    <3> DEFINE r == [gen |-> mgen, meta |-> mrec]
    <3>2. r \in Record /\ r.gen = mgen /\ r.meta = mrec
      BY <3>1 DEF Record
    <3>3. CASE ~IsFull(log) /\ log' = Appended(log, r)
      <4>1. \A s \in RecordSlots(log) : log[s].gen < r.gen
        BY <3>1, <3>2
      <4> HIDE DEF r
      <4>2. ReadMeta(log') = mrec
        BY <2>1, <3>2, <3>3, <4>1, AppendFacts
      <4> QED
        BY <3>1, <4>2
    <3>4. CASE ~IsFull(log) /\ log' = Appended(log, TornRecord)
      BY <2>1, <2>2, <3>4, TearFacts
    <3> QED
      BY <2>3, <2>5, <3>3, <3>4 DEF MetaWrite
  <2>6. CASE PowerCut
    <3>1. CASE log' = TornPage
      BY <3>1, EmptyPageFacts
    <3>2. CASE ~IsFull(log) /\ log' = Appended(log, TornRecord)
      BY <2>1, <2>2, <3>2, TearFacts
    <3> QED
      BY <2>3, <2>6, <3>1, <3>2 DEF PowerCut, CutLog
  <2>7. MainStep => log' = log \/ MetaErase \/ MetaWrite
    BY DEF MainStep, ApplicationIsValid, WindowBody, ListenWindowExpired, JumpToApplication,
           MetaBegin, CopyErase, CopyWrite, CopyDone, ServeEnd, EndFlush, EndVerify,
           ServeConfirm, Clear, ResetAfterUpdate, ReadTick, CompareTick, Abort, flash
  <2>8. MasterWrite \/ IsrStep => log' = log
    BY DEF MasterWrite, HandleStartUpdate, HandleDigestExpected, HandleRecordCounter,
           HandleData, QueueEndUpdate, QueueConfirm, IsrStep, StartErase, StartReceiving,
           DataFlush, flash
  <2>9. ReadChallenge \/ TimePasses \/ ResetApplication => log' = log
    BY DEF ReadChallenge, TimePasses, ResetApplication, flash
  <2>10. UNCHANGED vars => log' = log
    BY DEF vars, flash
  <2> QED
    BY <2>3, <2>4, <2>5, <2>6, <2>7, <2>8, <2>9, <2>10 DEF Next
<1> QED
  BY <1>1, Invariance, PTL DEF Spec, CounterNeverFalls
=============================================================================
