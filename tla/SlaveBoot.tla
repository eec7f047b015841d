------------------------------ MODULE SlaveBoot ------------------------------
(***************************************************************************)
(* The bootloader of the expansion slave (src/F303-slave/boot).            *)
(*                                                                         *)
(* Two threads run: the interrupt of the link, which serves what the       *)
(* master writes, and the main loop, which decides at start-up, copies,    *)
(* and runs the END and CONFIRM steps that the interrupt defers to it.     *)
(* The interrupt preempts the main loop between any two of its steps and   *)
(* runs to its end: pc is the main loop, isr the interrupt, and the main   *)
(* loop stands still while isr # "idle".                                   *)
(*                                                                         *)
(* As in MasterBoot each erase and each program is a step of its own.      *)
(* Both threads use the one flash controller: an operation of the          *)
(* interrupt in the middle of one of the main loop finds it busy, and      *)
(* leaves it locked.                                                       *)
(***************************************************************************)
EXTENDS MetaLog

CONSTANTS
    FrameCells,  \* What the master puts in a data write: a part of an image, or Noise
    MaxStarts,   \* Bound: sessions the master starts
    MaxFaults,   \* Bound: flash operations that report an error of themselves
    MaxCuts      \* Bound: losses of power

ASSUME LinkAssumption ==
    /\ FrameCells \subseteq Image \cup {Noise}
    /\ {MaxStarts, MaxFaults, MaxCuts} \subseteq Nat

VARIABLES
    main, backup, log,  \* Flash: the two slots and the metadata page
    upd,                \* RAM of the session in course
    deferred,           \* deferred_op and deferred_data
    resetDue,           \* An update is installed, the reset follows
    \* The main loop
    pc, then, cp, mrec, mgen,
    \* The interrupt
    isr, ip,
    \* The flash controller was used by the interrupt within the operation
    \* the main loop is making
    disturbed,
    \* Time: ten seconds passed since update_last_activity_tick, and it was
    \* written after the main loop read the tick it compares it with
    silent, stamped,
    \* The master: the nonce it read last, and whether in this session
    challenge, readSince,
    starts, faults, cuts

flash  == <<main, backup, log>>
thread == <<pc, then, cp, mrec, mgen>>
irq    == <<isr, ip>>
clock  == <<silent, stamped>>
master == <<challenge, readSince>>
env    == <<starts, faults, cuts>>
vars   == <<flash, upd, deferred, resetDue, thread, irq, disturbed, clock, master, env>>

NoOp      == [op |-> "none"]
NoDigest  == <<>>
NoCounter == -1

\* The nonce of a session is its number: MakeChallenge never makes one twice
Session == [inProgress : BOOLEAN, failed : BOOLEAN, total : 0..APP_MAX_SIZE,
            stream : Seq(Image \cup {Noise}), page : 0..AppPages,
            digest : Digests \cup {NoDigest}, counter : Nat \cup {NoCounter},
            nonce : Nat, nonceValid : BOOLEAN, awaiting : BOOLEAN, version : Versions]

NoSession == [inProgress |-> FALSE, failed |-> FALSE, total |-> 0, stream |-> <<>>,
              page |-> 0, digest |-> NoDigest, counter |-> NoCounter, nonce |-> 0,
              nonceValid |-> FALSE, awaiting |-> FALSE, version |-> BootVersion]

\* RAM after a reset; the number of the last session stays used up
Reborn(u) == [NoSession EXCEPT !.nonce = u.nonce]

\* A session that is over.  What else it leaves in RAM is read by nobody until
\* the next START sets it
Over(u, failed) == [Reborn(u) EXCEPT !.failed = failed, !.awaiting = u.awaiting,
                                     !.nonceValid = u.nonceValid]

Fail(u) == Over(u, TRUE)

\* FailUpdate: the session can no longer be confirmed either
FailUpdate(u) == [Fail(u) EXCEPT !.awaiting = FALSE, !.nonceValid = FALSE]

Received(u)   == Len(u.stream)
BufferFill(u) == Len(u.stream) - u.page * PAGE

\* Mutant: the step counts as done once its record is written
DeferredBusy_UntilCopy == (deferred # NoOp \/ resetDue) /\ then # "install"

DeferredBusy == deferred # NoOp \/ resetDue

\* The entry conditions of the handlers of a transfer
Receiving == upd.inProgress /\ ~upd.failed /\ ~upd.awaiting
Awaiting  == upd.inProgress /\ ~upd.failed /\ upd.awaiting

-----------------------------------------------------------------------------
(* The flash controller *)

CanFault == faults < MaxFaults

\* Where the main loop is within an operation on flash
FlashSteps == {"copyErase", "copyWrite", "metaErase", "metaWrite"}

\* An operation of the main loop reports an error: by itself, or because the
\* interrupt locked the controller under it
MainErrs ==
    \/ disturbed /\ UNCHANGED faults
    \/ CanFault /\ faults' = faults + 1

\* An operation of the interrupt reports one: by itself, or HAL_BUSY
IsrErrs ==
    \/ pc \in FlashSteps /\ UNCHANGED faults
    \/ CanFault /\ faults' = faults + 1

\* What an operation on page p that errs leaves of the page
AfterError(region, p) == {region, FillPage(region, p, TornCell)}

\* What an erase by the main loop that reports success leaves: the command to
\* a locked controller is lost without an error
AfterErase(region, erased) == {erased} \cup (IF disturbed THEN {region} ELSE {})

-----------------------------------------------------------------------------
(* Metadata_EraseAndWrite: only the main loop calls it *)

CallMetaWrite(m, why) == mrec' = m /\ then' = why /\ pc' = "metaBegin"

\* Mutant: the start-up does not check the main slot against its digest
Matches_Unchecked(m) == TRUE

\* Mutant: the digest is taken over the whole slot, not over the image
Matches_WholeSlot(m) == Digest(main, APP_MAX_SIZE) = m.digest

Matches(m) == Digest(main, m.size) = m.digest

\* The end of ApplicationIsValid: the listening window, or the main loop
StartUp(valid) ==
    /\ pc' = IF valid THEN "windowBody" ELSE "loop"
    /\ then' = "none" /\ mrec' = NoMeta /\ cp' = 0

\* The end of a CONFIRM that failed after it was accepted
ConfirmFails ==
    /\ pc' = "clear" /\ then' = "none" /\ mrec' = NoMeta /\ cp' = 0
    /\ upd' = Fail(upd)

MetaWriteReturns(ok) ==
    /\ mgen' = 0
    /\ \/ then = "adopt" /\ StartUp(ok) /\ UNCHANGED <<upd, resetDue>>
       \/ then = "resumed" /\ StartUp(ok /\ Matches(mrec)) /\ UNCHANGED <<upd, resetDue>>
       \/ /\ then = "pending" /\ ok
          /\ pc' = "copyErase" /\ then' = "install" /\ cp' = 0
          /\ UNCHANGED <<upd, mrec, resetDue>>
       \/ /\ then = "done" /\ ok
          /\ pc' = "clear" /\ then' = "none" /\ mrec' = NoMeta /\ cp' = 0
          /\ resetDue' = TRUE
          /\ UNCHANGED upd
       \/ then \in {"pending", "done"} /\ ~ok /\ ConfirmFails /\ UNCHANGED resetDue

\* Up to the erase of a full page: nothing is written twice
MetaBegin ==
    /\ pc = "metaBegin"
    /\ \/ /\ HasRecord(log) /\ ReadMeta(log) = mrec
          /\ MetaWriteReturns(TRUE)
       \/ /\ HasRecord(log) => ReadMeta(log) # mrec
          /\ mgen' = NextGeneration(log)
          /\ pc' = IF IsFull(log) THEN "metaErase" ELSE "metaWrite"
          /\ UNCHANGED <<upd, resetDue, then, cp, mrec>>
    /\ UNCHANGED <<flash, deferred, irq, disturbed, clock, master, env>>

MetaErase ==
    /\ pc = "metaErase"
    /\ \/ /\ log' \in AfterErase(log, BlankPage)
          /\ pc' = "metaWrite"
          /\ UNCHANGED <<upd, resetDue, then, cp, mrec, mgen, faults>>
       \/ /\ MainErrs
          /\ log' \in {log, TornPage}
          /\ MetaWriteReturns(FALSE)
    /\ disturbed' = FALSE
    /\ UNCHANGED <<main, backup, deferred, irq, clock, master, starts, cuts>>

MetaWrite ==
    /\ pc = "metaWrite"
    /\ \/ /\ ~IsFull(log)
          /\ log' = Appended(log, [gen |-> mgen, meta |-> mrec])
          /\ MetaWriteReturns(TRUE)
          /\ UNCHANGED faults
       \/ /\ ~IsFull(log)
          /\ MainErrs
          /\ log' \in {log, Appended(log, TornRecord)}
          /\ MetaWriteReturns(FALSE)
       \/ /\ IsFull(log)      \* the erase was lost: the slot is not erased
          /\ MetaWriteReturns(FALSE)
          /\ UNCHANGED <<log, faults>>
    /\ disturbed' = FALSE
    /\ UNCHANGED <<main, backup, deferred, irq, clock, master, starts, cuts>>

-----------------------------------------------------------------------------
(* Flash_CopyRegion(MAIN_APP_ADDR, BACKUP_APP_ADDR, mrec.size) *)

CopyFails == IF then = "resume" THEN StartUp(FALSE) /\ UNCHANGED upd ELSE ConfirmFails

CopyErase ==
    /\ pc = "copyErase"
    /\ cp < PagesNeeded(mrec.size)
    /\ \/ /\ main' \in AfterErase(main, FillPage(main, cp, Erased))
          /\ pc' = "copyWrite"
          /\ UNCHANGED <<upd, then, cp, mrec, faults>>
       \/ MainErrs /\ main' \in AfterError(main, cp) /\ CopyFails
    /\ disturbed' = FALSE
    /\ UNCHANGED <<backup, log, deferred, resetDue, mgen, irq, clock, master, starts, cuts>>

CopyWrite ==
    /\ pc = "copyWrite"
    /\ \/ /\ Programmable(main, cp, mrec.size)
          /\ main' = WritePage(main, cp, backup, mrec.size)
          /\ cp' = cp + 1 /\ pc' = "copyErase"
          /\ UNCHANGED <<upd, then, mrec, faults>>
       \/ /\ IF Programmable(main, cp, mrec.size) THEN MainErrs ELSE UNCHANGED faults
          /\ main' \in AfterError(main, cp)
          /\ CopyFails
    /\ disturbed' = FALSE
    /\ UNCHANGED <<backup, log, deferred, resetDue, mgen, irq, clock, master, starts, cuts>>

\* Mutant: the record of the installed image is made anew, without its counter
Installed_Anew(m) == [m EXCEPT !.state = APP_VALID, !.counter = MinCounter]

\* The record of a copy that is done
Installed(m) == [m EXCEPT !.state = APP_VALID]

\* A copy made by a CONFIRM is read back against the digest confirmed
ReadsBack(m) == then = "install" => Matches(m)

CopyDone ==
    /\ pc = "copyErase"
    /\ cp = PagesNeeded(mrec.size)
    /\ IF ReadsBack(mrec)
       THEN /\ CallMetaWrite(Installed(mrec), IF then = "resume" THEN "resumed" ELSE "done")
            /\ cp' = 0
            /\ UNCHANGED upd
       ELSE ConfirmFails
    /\ UNCHANGED <<flash, deferred, resetDue, mgen, irq, disturbed, clock, master, env>>

-----------------------------------------------------------------------------
(* Start-up: the link is served while it runs *)

PlausibleStack == {b \in BOOLEAN : /\ main[1] \in Image => b
                                   /\ main[1] = Erased => ~b}

Adopted == [state |-> APP_VALID, hw |-> THIS_HARDWARE_ID, version |-> BootVersion,
            size |-> APP_MAX_SIZE, digest |-> Digest(main, APP_MAX_SIZE),
            counter |-> MinCounter]

\* Mutant: the pending copy is left for the master to repeat
Resumable_Never(m) == FALSE

\* A pending copy is resumed if the backup slot still holds the image
Resumable(m) == m.state = COPY_PENDING /\ Digest(backup, m.size) = m.digest

ApplicationIsValid ==
    /\ pc = "boot"
    /\ \/ /\ ~HasRecord(log)
          /\ \E plausible \in PlausibleStack :
                IF plausible THEN CallMetaWrite(Adopted, "adopt") /\ UNCHANGED cp
                             ELSE StartUp(FALSE)
       \/ /\ HasRecord(log)
          /\ Resumable(ReadMeta(log))
          /\ pc' = "copyErase" /\ then' = "resume" /\ mrec' = ReadMeta(log) /\ cp' = 0
       \/ /\ HasRecord(log)
          /\ ~Resumable(ReadMeta(log))
          /\ StartUp(ReadMeta(log).state = APP_VALID /\ Matches(ReadMeta(log)))
    /\ UNCHANGED <<flash, upd, deferred, resetDue, mgen, irq, disturbed, clock, master, env>>

\* The body of the window: an update that started takes the main loop over
WindowBody ==
    /\ pc = "windowBody"
    /\ pc' = IF upd.inProgress \/ upd.failed \/ DeferredBusy THEN "loop" ELSE "window"
    /\ UNCHANGED <<flash, upd, deferred, resetDue, then, cp, mrec, mgen, irq, disturbed,
                   clock, master, env>>

\* ListenWindowExpired: the 600 ms may have passed, or not
ListenWindowExpired ==
    /\ pc = "window"
    /\ \/ pc' = "windowBody"
       \/ ~upd.inProgress /\ ~DeferredBusy /\ pc' = "jump"
    /\ UNCHANGED <<flash, upd, deferred, resetDue, then, cp, mrec, mgen, irq, disturbed,
                   clock, master, env>>

JumpToApplication ==
    /\ pc = "jump"
    /\ \/ /\ main[1] # Erased
          /\ pc' = "app"
          /\ upd' = Reborn(upd)
       \/ /\ main[1] \notin Image
          /\ pc' = "loop"
          /\ UNCHANGED upd
    /\ UNCHANGED <<flash, deferred, resetDue, then, cp, mrec, mgen, irq, disturbed, clock,
                   master, env>>

-----------------------------------------------------------------------------
(* The interrupt *)

\* Writes are served while the bootloader runs and no deferred step does
ServesWrites == pc # "app" /\ isr = "idle" /\ ~DeferredBusy

Stamp == silent' = FALSE /\ stamped' = (pc = "tick")

\* A START that declares a size and a hardware id that fit; others change nothing
HandleStartUpdate(size) ==
    /\ ServesWrites
    /\ starts < MaxStarts
    /\ starts' = starts + 1
    /\ upd' = [upd EXCEPT !.total = size]
    /\ isr' = "erase" /\ ip' = 0
    /\ UNCHANGED <<flash, deferred, resetDue, thread, disturbed, clock, master, faults, cuts>>

StartErase ==
    /\ isr = "erase"
    /\ ip < PagesNeeded(upd.total)
    /\ \/ /\ backup' = FillPage(backup, ip, Erased)
          /\ ip' = ip + 1
          /\ UNCHANGED <<upd, isr, faults>>
       \/ /\ IsrErrs
          /\ backup' \in AfterError(backup, ip)
          /\ upd' = Fail(upd)
          /\ isr' = "idle" /\ ip' = 0
    /\ disturbed' = (disturbed \/ pc \in FlashSteps)
    /\ UNCHANGED <<main, log, deferred, resetDue, thread, clock, master, starts, cuts>>

\* Mutant: a session keeps the nonce of the one before
MakeChallenge_Kept(nonce) == IF nonce = 0 THEN 1 ELSE nonce

MakeChallenge(nonce) == nonce + 1

StartReceiving ==
    /\ isr = "erase"
    /\ ip = PagesNeeded(upd.total)
    /\ upd' = [NoSession EXCEPT !.inProgress = TRUE, !.total = upd.total,
                                !.nonce = MakeChallenge(upd.nonce), !.nonceValid = TRUE]
    /\ isr' = "idle" /\ ip' = 0
    /\ readSince' = FALSE
    /\ Stamp
    /\ UNCHANGED <<flash, deferred, resetDue, thread, disturbed, challenge, env>>

\* REG_DIGEST_EXPECTED and REG_RECORD_COUNTER
HandleDigestExpected(digest) ==
    /\ ServesWrites /\ Receiving
    /\ upd' = [upd EXCEPT !.digest = digest]
    /\ Stamp
    /\ UNCHANGED <<flash, deferred, resetDue, thread, irq, disturbed, master, env>>

HandleRecordCounter(counter) ==
    /\ ServesWrites /\ Receiving
    /\ upd' = [upd EXCEPT !.counter = counter]
    /\ Stamp
    /\ UNCHANGED <<flash, deferred, resetDue, thread, irq, disturbed, master, env>>

HasRoom(u) == Received(u) < u.total

\* REG_DATA: the next cell, if the size declared has room for it.  A page
\* that fills is written within the interrupt
HandleData(c) ==
    /\ ServesWrites /\ Receiving
    /\ Stamp
    /\ IF HasRoom(upd)
       THEN /\ upd' = [upd EXCEPT !.stream = Append(@, c)]
            /\ isr' = IF BufferFill(upd) + 1 = PAGE THEN "flush" ELSE "idle"
       ELSE UNCHANGED <<upd, isr>>
    /\ UNCHANGED <<flash, deferred, resetDue, thread, ip, disturbed, master, env>>

\* FlushPageBuffer: the cells of the buffer, the rest of the page left 0xFF
Flushed == WritePage(backup, upd.page, upd.stream, Received(upd))
Fits    == Programmable(backup, upd.page, Received(upd))

DataFlush ==
    /\ isr = "flush"
    /\ \/ /\ Fits
          /\ backup' = Flushed
          /\ upd' = [upd EXCEPT !.page = @ + 1]
          /\ UNCHANGED faults
       \/ /\ IF Fits THEN IsrErrs ELSE UNCHANGED faults
          /\ backup' \in AfterError(backup, upd.page)
          /\ upd' = Fail(upd)
    /\ isr' = "idle"
    /\ disturbed' = (disturbed \/ pc \in FlashSteps)
    /\ UNCHANGED <<main, log, deferred, resetDue, thread, ip, clock, master, starts, cuts>>

QueueEndUpdate(crc, version) ==
    /\ ServesWrites /\ Receiving
    /\ deferred' = [op |-> "end", crc |-> crc, version |-> version]
    /\ Stamp
    /\ UNCHANGED <<flash, upd, resetDue, thread, irq, disturbed, master, env>>

QueueConfirm(tag) ==
    /\ ServesWrites /\ Awaiting
    /\ deferred' = [op |-> "confirm", tag |-> tag]
    /\ Stamp
    /\ UNCHANGED <<flash, upd, resetDue, thread, irq, disturbed, master, env>>

\* The master reads REG_CHALLENGE; the zeros it gets when there is no session
\* to confirm are no use to it
ReadChallenge ==
    /\ pc # "app" /\ isr = "idle"
    /\ upd.nonceValid
    /\ challenge' = upd.nonce
    /\ readSince' = TRUE
    /\ UNCHANGED <<flash, upd, deferred, resetDue, thread, irq, disturbed, clock, env>>

-----------------------------------------------------------------------------
(* ServiceDeferred, in the main loop *)

\* HandleEndUpdate as far as its last page.  Its entry conditions may have
\* changed since the interrupt checked them: the loop may have aborted
ServeEnd ==
    /\ pc = "loop" /\ deferred.op = "end"
    /\ IF Receiving
       THEN /\ pc' = IF BufferFill(upd) > 0 THEN "endFlush" ELSE "endVerify"
            /\ silent' = FALSE
       ELSE pc' = "clear" /\ UNCHANGED silent
    /\ UNCHANGED <<flash, upd, deferred, resetDue, then, cp, mrec, mgen, irq, disturbed,
                   stamped, master, env>>

EndFlush ==
    /\ pc = "endFlush"
    /\ \/ /\ Fits
          /\ backup' = Flushed
          /\ upd' = [upd EXCEPT !.page = @ + 1]
          /\ pc' = "endVerify"
          /\ UNCHANGED faults
       \/ /\ Fits => CanFault
          /\ faults' = IF Fits THEN faults + 1 ELSE faults
          /\ backup' \in AfterError(backup, upd.page)
          /\ upd' = Fail(upd)
          /\ pc' = "clear"
    /\ UNCHANGED <<main, log, deferred, resetDue, then, cp, mrec, mgen, irq, disturbed,
                   clock, master, starts, cuts>>

\* Counter_Floor: the compiled floor or that of the newest record
CounterFloor ==
    IF HasRecord(log) /\ ReadMeta(log).counter > MinCounter
    THEN ReadMeta(log).counter ELSE MinCounter

\* Complete, of the CRC of the end frame and of the digest sent before it,
\* not below the counter floor as far as it is known, not an older version
Verified ==
    /\ Received(upd) = upd.total
    /\ upd.digest # NoDigest
    /\ upd.stream = deferred.crc
    /\ Digest(backup, upd.total) = upd.digest
    /\ upd.counter # NoCounter => upd.counter >= CounterFloor
    /\ HasRecord(log) /\ ReadMeta(log).state = APP_VALID
          => ~Older(deferred.version, ReadMeta(log).version)

\* The session waits for the confirmation, and nothing else is done
EndVerify ==
    /\ pc = "endVerify"
    /\ IF Verified
       THEN /\ upd' = [upd EXCEPT !.awaiting = TRUE, !.version = deferred.version]
            /\ silent' = FALSE
       ELSE upd' = Fail(upd) /\ UNCHANGED silent
    /\ pc' = "clear"
    /\ UNCHANGED <<flash, deferred, resetDue, then, cp, mrec, mgen, irq, disturbed, stamped,
                   master, env>>

\* The message of urtc_slave_confirm.h that the slave builds itself
Message(u) == [nonce |-> u.nonce, digest |-> u.digest, hw |-> THIS_HARDWARE_ID,
               version |-> u.version, size |-> u.total, counter |-> u.counter]

\* Mutant: only the image is compared, not the rest of the message
TagMatches_DigestOnly(tag) == tag.digest = Message(upd).digest

TagMatches(tag) == tag = Message(upd)

Confirmed ==
    /\ Digest(backup, upd.total) = upd.digest
    /\ upd.counter # NoCounter
    /\ TagMatches(deferred.tag)
    /\ upd.counter >= CounterFloor

PendingMeta == [state |-> COPY_PENDING, hw |-> THIS_HARDWARE_ID, version |-> upd.version,
                size |-> upd.total, digest |-> upd.digest, counter |-> upd.counter]

\* HandleConfirm as far as its first flash operation: one use, whatever comes
ServeConfirm ==
    /\ pc = "loop" /\ deferred.op = "confirm"
    /\ IF ~Awaiting
       THEN pc' = "clear" /\ UNCHANGED <<upd, then, mrec, silent>>
       ELSE /\ silent' = FALSE
            /\ IF Confirmed
               THEN /\ CallMetaWrite(PendingMeta, "pending")
                    /\ upd' = [upd EXCEPT !.awaiting = FALSE, !.nonceValid = FALSE]
               ELSE /\ pc' = "clear"
                    /\ upd' = FailUpdate(upd)
                    /\ UNCHANGED <<then, mrec>>
    /\ UNCHANGED <<flash, deferred, resetDue, cp, mgen, irq, disturbed, stamped, master, env>>

\* Cleared last: the interrupt keeps ignoring writes while the step runs
Clear ==
    /\ pc = "clear"
    /\ deferred' = NoOp
    /\ pc' = "loop"
    /\ UNCHANGED <<flash, upd, resetDue, then, cp, mrec, mgen, irq, disturbed, clock, master,
                   env>>

\* RAM and the main loop after a reset
Restart ==
    /\ pc' = "boot" /\ then' = "none" /\ cp' = 0 /\ mrec' = NoMeta /\ mgen' = 0
    /\ upd' = Reborn(upd) /\ deferred' = NoOp /\ resetDue' = FALSE
    /\ isr' = "idle" /\ ip' = 0 /\ disturbed' = FALSE
    /\ silent' = FALSE /\ stamped' = FALSE

ResetAfterUpdate ==
    /\ pc = "loop" /\ resetDue /\ deferred = NoOp
    /\ Restart
    /\ UNCHANGED <<flash, master, env>>

-----------------------------------------------------------------------------
(* The silence of ten seconds, in the main loop *)

\* Mutant: a session that waits for its confirmation waits for ever
AbortApplies_NotAwaiting(u) == u.inProgress /\ ~u.failed /\ ~u.awaiting

AbortApplies(u) == u.inProgress /\ ~u.failed

ReadTick ==
    /\ pc = "loop" /\ AbortApplies(upd)
    /\ pc' = "tick"
    /\ UNCHANGED <<flash, upd, deferred, resetDue, then, cp, mrec, mgen, irq, disturbed,
                   clock, master, env>>

\* HAL_GetTick() - update_last_activity_tick > 10000.  If the interrupt wrote
\* the latter after the tick was read, the difference wraps around
CompareTick ==
    /\ pc = "tick"
    /\ \/ (silent \/ stamped) /\ pc' = "abort"
       \/ ~silent /\ pc' = "loop"
    /\ stamped' = FALSE
    /\ UNCHANGED <<flash, upd, deferred, resetDue, then, cp, mrec, mgen, irq, disturbed,
                   silent, master, env>>

Abort ==
    /\ pc = "abort"
    /\ upd' = IF upd.awaiting THEN FailUpdate(upd)
              ELSE Over(upd, FALSE)
    /\ pc' = "loop"
    /\ UNCHANGED <<flash, deferred, resetDue, then, cp, mrec, mgen, irq, disturbed, clock,
                   master, env>>

\* Ten seconds pass since the last activity of the session.  Nobody can tell
\* before the main loop reads the tick
TimePasses ==
    /\ pc = "loop" /\ isr = "idle" /\ upd.inProgress /\ ~silent
    /\ silent' = TRUE
    /\ UNCHANGED <<flash, upd, deferred, resetDue, thread, irq, disturbed, stamped, master,
                   env>>

-----------------------------------------------------------------------------
(* The application, the power *)

\* The application resets: the master asked for it, or it failed
ResetApplication ==
    /\ pc = "app"
    /\ Restart
    /\ UNCHANGED <<flash, master, env>>

CutMain ==
    \/ main' = main
    \/ /\ \/ pc = "copyErase" /\ cp < PagesNeeded(mrec.size)
          \/ pc = "copyWrite"
       /\ main' = FillPage(main, cp, TornCell)

CutBackup ==
    \/ backup' = backup
    \/ isr = "erase" /\ ip < PagesNeeded(upd.total) /\ backup' = FillPage(backup, ip, TornCell)
    \/ (isr = "flush" \/ pc = "endFlush") /\ backup' = FillPage(backup, upd.page, TornCell)

CutLog ==
    \/ log' = log
    \/ pc = "metaErase" /\ log' = TornPage
    \/ pc = "metaWrite" /\ ~IsFull(log) /\ log' = Appended(log, TornRecord)

PowerCut ==
    /\ cuts < MaxCuts
    /\ cuts' = cuts + 1
    /\ CutMain /\ CutBackup /\ CutLog
    /\ Restart
    /\ UNCHANGED <<master, starts, faults>>

-----------------------------------------------------------------------------
Init ==
    /\ main \in {[k \in Cells |-> Erased]} \cup
                {[k \in Cells |-> IF k <= Size[i] THEN i ELSE Erased] : i \in Image}
    /\ backup = [k \in Cells |-> Erased]
    /\ log = BlankPage
    /\ upd = NoSession /\ deferred = NoOp /\ resetDue = FALSE
    /\ pc = "boot" /\ then = "none" /\ cp = 0 /\ mrec = NoMeta /\ mgen = 0
    /\ isr = "idle" /\ ip = 0 /\ disturbed = FALSE
    /\ silent = FALSE /\ stamped = FALSE
    /\ challenge = 0 /\ readSince = FALSE
    /\ starts = 0 /\ faults = 0 /\ cuts = 0

\* The main loop, which stands still while the interrupt runs
MainStep ==
    /\ isr = "idle"
    /\ \/ ApplicationIsValid \/ WindowBody \/ ListenWindowExpired \/ JumpToApplication
       \/ MetaBegin \/ MetaErase \/ MetaWrite
       \/ CopyErase \/ CopyWrite \/ CopyDone
       \/ ServeEnd \/ EndFlush \/ EndVerify \/ ServeConfirm \/ Clear \/ ResetAfterUpdate
       \/ ReadTick \/ CompareTick \/ Abort

\* The interrupt, once it has entered a handler
IsrStep == StartErase \/ StartReceiving \/ DataFlush

\* A version field a host declares for image i: with its patch, or without
Declared(i) == {Version[i], [Version[i] EXCEPT !.patch = PATCH_UNKNOWN]}

\* A confirmation: the master computes it for an image whose record it
\* verified, with the nonce it read
Tag(i, version) == [nonce |-> challenge, digest |-> ImageDigest(i), hw |-> THIS_HARDWARE_ID,
                    version |-> version, size |-> Size[i], counter |-> RollbackCounter[i]]

\* The digest that chunks of several digests make
NoImagesDigest == [k \in 1..1 |-> Noise]

\* What the master writes: nothing is asked of it but that it confirms only
\* an image whose record it verified
MasterWrite ==
    \/ \E i \in Image : \/ HandleStartUpdate(Size[i])
                         \/ HandleDigestExpected(ImageDigest(i))
                         \/ HandleRecordCounter(RollbackCounter[i])
    \/ HandleDigestExpected(NoImagesDigest)
    \/ \E c \in FrameCells : HandleData(c)
    \/ \E i, j \in Image : \E v \in Declared(j) : QueueEndUpdate(ImageDigest(i), v)
    \/ \E i \in Signed : \E v \in Declared(i) : QueueConfirm(Tag(i, v))

Next ==
    \/ MainStep
    \/ IsrStep
    \/ MasterWrite \/ ReadChallenge
    \/ TimePasses
    \/ ResetApplication
    \/ PowerCut

Spec == Init /\ [][Next]_vars

-----------------------------------------------------------------------------
(* Properties *)

TypeOK ==
    /\ main \in Slot /\ backup \in Slot
    /\ log \in Log
    /\ upd \in Session
    /\ upd.inProgress /\ isr # "erase" => Received(upd) <= upd.total
    /\ deferred.op \in {"none", "end", "confirm"}
    /\ pc \in {"boot", "windowBody", "window", "jump", "app", "loop", "metaBegin", "metaErase",
               "metaWrite", "copyErase", "copyWrite", "endFlush", "endVerify", "clear",
               "tick", "abort"}
    /\ then \in {"none", "adopt", "resume", "resumed", "pending", "install", "done"}
    /\ isr \in {"idle", "erase", "flush"}
    /\ {cp, ip} \subseteq 0..AppPages
    /\ mrec \in Meta /\ mgen \in Nat
    /\ {resetDue, disturbed, silent, stamped, readSince} \subseteq BOOLEAN
    /\ challenge \in Nat
    /\ starts \in 0..MaxStarts /\ faults \in 0..MaxFaults /\ cuts \in 0..MaxCuts

\* The state describes an image a trusted key signed, all of it
Vouched(m) ==
    \E i \in Signed :
        /\ m.size = Size[i] /\ m.digest = ImageDigest(i)
        /\ m.version \in Declared(i) /\ m.counter = RollbackCounter[i]

IsAdopted(m) ==
    /\ m.state = APP_VALID /\ m.size = APP_MAX_SIZE
    /\ m.version = BootVersion /\ m.counter = MinCounter

\* Whatever the interrupt does between the steps of the main loop, each
\* record is about one image the master vouched for, its version, size,
\* digest and counter together, or the baseline of a first start.
RecordsAreVouched ==
    \A s \in RecordSlots(log) : Vouched(log[s].meta) \/ IsAdopted(log[s].meta)

\* The application that runs is the one the newest record describes, although
\* the link is served from before it was validated until it is entered.
RunsWhatIsRecorded ==
    pc = "app" => /\ HasRecord(log)
                  /\ ReadMeta(log).state = APP_VALID
                  /\ Digest(main, ReadMeta(log).size) = ReadMeta(log).digest

\* While a CONFIRM is carried out no write of the master reaches the backup
\* slot: what is copied is what was verified.
InstallCopiesVerified ==
    then = "install" => Digest(backup, mrec.size) = mrec.digest

\* An update is installed only if the master read the nonce of this session:
\* a confirmation meant for an earlier session installs nothing.
ConfirmedInSession ==
    [][pc = "loop" /\ pc' = "metaBegin" => readSince]_vars

\* The rollback counter of the board never falls while its log has a record.
CounterNeverFalls ==
    [][HasRecord(log) /\ HasRecord(log')
         => ReadMeta(log').counter >= ReadMeta(log).counter]_vars

\* A copy resumed at start-up writes only an image that the backup slot still
\* holds whole (slaveboot_protocol.c: "if it does not, the main slot is left
\* alone").
ResumeCopiesVerified ==
    then = "resume" => Digest(backup, mrec.size) = mrec.digest

\* The newest record is of a pending copy whose image the backup slot holds
PendingAndWhole ==
    /\ HasRecord(log) /\ ReadMeta(log).state = COPY_PENDING
    /\ Digest(backup, ReadMeta(log).size) = ReadMeta(log).digest

\* A copy that was recorded is completed however often the power is cut,
\* unless a new session erases the backup slot first.
PendingResolves == PendingAndWhole ~> ~PendingAndWhole

\* Once the master falls silent no session stays open, not even one that
\* waits for a confirmation that never comes.
SessionEnds == <>[][~MasterWrite]_vars => []<>(~upd.inProgress)

\* A board whose main slot holds what the newest record describes enters it,
\* through as many cuts as there are, unless a session comes.
BoardIsReady == /\ HasRecord(log) /\ ReadMeta(log).state = APP_VALID
                /\ Digest(main, ReadMeta(log).size) = ReadMeta(log).digest
                /\ main[1] \in Image
StartsApplication ==
    (pc = "boot" /\ BoardIsReady)
       ~> (pc = "app" \/ upd # Reborn(upd) \/ isr # "idle")

\* The processor runs while it is powered.  The main loop passes through
\* ServiceDeferred again and again, and the 600 ms, the 200 ms and the ten
\* seconds come to an end.  What the master writes, the resets of the
\* application and the cuts are nobody's duty
FairSpec ==
    /\ Spec
    /\ WF_vars(MainStep)
    /\ WF_vars(IsrStep)
    /\ SF_vars(isr = "idle" /\ (ServeEnd \/ ServeConfirm \/ ResetAfterUpdate))
    /\ SF_vars(isr = "idle" /\ ListenWindowExpired /\ pc' = "jump")
    /\ SF_vars(TimePasses)

-----------------------------------------------------------------------------
(***************************************************************************)
(* The inductive invariant behind the safety properties: what the main     *)
(* loop relies on at each place it can stand at, and what keeps the        *)
(* interrupt from taking it away there.                                    *)
(***************************************************************************)

WritesMeta == pc \in {"metaBegin", "metaErase", "metaWrite"}
Copies     == pc \in {"copyErase", "copyWrite"}

\* A CONFIRM that was accepted is being carried out
Confirming == then \in {"pending", "install", "done"}

\* The record to be written is about an image the master vouched for or the
\* adopted baseline, does not lower the counter, and is newer than every
\* record of the log
WriteInv ==
    /\ WritesMeta =>
          /\ then \in {"adopt", "resumed", "pending", "done"}
          /\ mrec.state = IF then = "pending" THEN COPY_PENDING ELSE APP_VALID
          /\ Vouched(mrec) \/ IsAdopted(mrec)
          /\ then = "adopt" => Matches(mrec)
          /\ HasRecord(log) => mrec.counter >= ReadMeta(log).counter
    /\ pc \in {"metaErase", "metaWrite"} =>
          \A s \in RecordSlots(log) : log[s].gen < mgen

\* What is being copied is what the newest record says is pending
CopyInv ==
    /\ Copies =>
          /\ then \in {"resume", "install"}
          /\ HasRecord(log) /\ ReadMeta(log) = mrec /\ mrec.state = COPY_PENDING
          /\ cp <= PagesNeeded(mrec.size)
    /\ pc = "copyWrite" => cp < PagesNeeded(mrec.size)
    /\ then # "none" => WritesMeta \/ Copies

\* From the window on, the application to run is that of the newest record
RunInv ==
    pc \in {"windowBody", "window", "jump", "app"}
       => /\ HasRecord(log)
          /\ ReadMeta(log).state = APP_VALID
          /\ Matches(ReadMeta(log))

\* A tag that was queued is about an image whose record the master verified,
\* with a nonce it read; a deferred step and the interrupt's own exclude each
\* other
DeferredInv ==
    /\ deferred.op = "none" => deferred = NoOp
    /\ deferred.op = "end" => deferred.version \in Versions
    /\ deferred.op = "confirm" =>
          \E i \in Signed :
             /\ deferred.tag.digest = ImageDigest(i) /\ deferred.tag.size = Size[i]
             /\ deferred.tag.version \in Declared(i)
             /\ deferred.tag.counter = RollbackCounter[i]
             /\ deferred.tag.nonce \in Nat /\ deferred.tag.nonce <= challenge
    /\ DeferredBusy => isr = "idle"
    /\ pc \in {"endFlush", "endVerify"} => deferred.op = "end"
    /\ Confirming => deferred.op = "confirm"
    /\ resetDue => deferred.op # "end"

\* What a CONFIRM installs is what the backup slot still holds
InstallInv ==
    then \in {"pending", "install"} => Digest(backup, mrec.size) = mrec.digest

\* The buffer of the session is in use: before the last page of it is flushed
Filling ==
    Receiving /\ isr # "erase" /\ pc # "endVerify" /\ ~Confirming /\ ~resetDue

\* The buffer holds less than a page between two writes, and something when
\* it is flushed
ReceiveInv ==
    /\ isr = "erase" => upd.total \in Cells /\ ip <= PagesNeeded(upd.total)
    /\ Filling => /\ upd.page * PAGE <= Received(upd)
                  /\ Received(upd) <= (upd.page + 1) * PAGE
                  /\ isr = "idle" => Received(upd) < (upd.page + 1) * PAGE
    /\ isr = "flush" => Receiving /\ Received(upd) = (upd.page + 1) * PAGE
    /\ pc = "endFlush" => Receiving /\ upd.page * PAGE < Received(upd)

\* The nonce read last is of no later session, and of this one only if it
\* was read within it
ChallengeInv ==
    /\ challenge <= upd.nonce
    /\ upd.inProgress \/ upd.nonceValid => upd.nonce > 0
    /\ challenge = upd.nonce /\ upd.nonce > 0 => readSince

\* Preserved by every step of either thread, of the master and of the power
IInv ==
    /\ TypeOK
    /\ RecordsAreVouched
    /\ LogShape(log)
    /\ WriteInv
    /\ CopyInv
    /\ RunInv
    /\ DeferredInv
    /\ InstallInv
    /\ ReceiveInv
    /\ ChallengeInv
=============================================================================
