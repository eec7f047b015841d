----------------------------- MODULE MasterBoot -----------------------------
(***************************************************************************)
(* The bootloader of the master (src/F303-master/boot): what it decides at *)
(* start-up, the update it receives over CAN into the backup slot, and the *)
(* copy of the backup slot over the main slot, on flash whose operations   *)
(* can fail and under a power supply that can be cut between and in the    *)
(* middle of any two of them.                                              *)
(*                                                                         *)
(* One thread runs.  pc says where it stands; every erase and every        *)
(* program of a page or of a record is a step of its own, since that is    *)
(* the grain at which power can be lost.  Reads of flash and of RAM made   *)
(* between two flash operations belong to the step that follows them.      *)
(***************************************************************************)
EXTENDS MetaLog

CONSTANTS
    FrameCells,  \* What a host puts in a data frame or a record frame: a part
                 \* of an image, or Noise
    MaxStarts,   \* Bound: updates a host starts
    MaxFaults,   \* Bound: flash operations that report an error
    MaxCuts      \* Bound: losses of power

ASSUME HostAssumption ==
    /\ FrameCells \subseteq Image \cup {Noise}
    /\ {MaxStarts, MaxFaults, MaxCuts} \subseteq Nat

VARIABLES
    \* Flash
    main,         \* The main slot, from which the application runs
    backup,       \* The backup slot, into which an update is received
    log,          \* The metadata page
    \* RAM of the update in course
    upd,
    \* The thread
    pc,
    then,         \* What a flush, a copy or a metadata write was called for
    cp,           \* Page counter of the erase and copy loops
    mrec,         \* The state being written to the log, or being installed
    mgen,         \* The generation of the record being written
    frame,        \* The END_UPDATE frame being served
    appValid,     \* What ApplicationIsValid returned in this start-up
    unsafeOk,     \* Are the downgrade and readback commands honoured?
    sessionWord,  \* The backup register the application leaves a word in
    \* Environment
    starts, faults, cuts,
    \* History: an authorisation was given since the current attempt started
    heard

flash   == <<main, backup, log>>
thread  == <<pc, then, cp, mrec, mgen, frame>>
session == <<appValid, unsafeOk, sessionWord>>
env     == <<starts, faults, cuts>>
vars    == <<main, backup, log, upd, pc, then, cp, mrec, mgen, frame,
             appValid, unsafeOk, sessionWord, starts, faults, cuts, heard>>

NoFrame == [crc |-> <<>>, version |-> BootVersion]
NoRecord == [k \in 1..RecordChunks |-> NoChunk]

\* The variables of an update
Update == [inProgress : BOOLEAN, failed : BOOLEAN, total : 0..APP_MAX_SIZE,
           hw : {THIS_HARDWARE_ID}, stream : Seq(Image \cup {Noise}),
           page : 0..AppPages, downgrade : BOOLEAN,
           record : [1..RecordChunks -> Image \cup {Noise, NoChunk}]]

\* The variables of the update at power on
NoUpdate == [inProgress |-> FALSE, failed |-> FALSE, total |-> 0,
             hw |-> THIS_HARDWARE_ID, stream |-> <<>>, page |-> 0,
             record |-> NoRecord, downgrade |-> FALSE]

\* Mutant: a failed attempt is left open
Fail_StaysOpen(u) == [u EXCEPT !.failed = TRUE]

Fail(u) == [u EXCEPT !.inProgress = FALSE, !.failed = TRUE]

\* update_bytes_received and page_buffer_fill: the stream holds every cell
\* received, of which the first page * PAGE are already in the backup slot
Received(u)   == Len(u.stream)
BufferFill(u) == Len(u.stream) - u.page * PAGE

-----------------------------------------------------------------------------
(* Flash operations that may report an error *)

CanFault == faults < MaxFaults

\* An operation on page p of a slot: it succeeds and leaves `done`, or it
\* reports an error and leaves the page as it was or torn
Succeeds(region, region2, done) == region2 = done /\ UNCHANGED faults
EraseErrs(region, region2, p) ==
    /\ CanFault
    /\ faults' = faults + 1
    /\ region2 \in {region, FillPage(region, p, TornCell)}

\* A program of cells that are not erased always errs
WriteErrs(region, region2, p, fits) ==
    /\ IF fits THEN CanFault /\ faults' = faults + 1 ELSE UNCHANGED faults
    /\ region2 \in {region, FillPage(region, p, TornCell)}

-----------------------------------------------------------------------------
(* Metadata_EraseAndWrite, called to write `m` for the purpose `why` *)

CallMetaWrite(m, why) ==
    /\ mrec' = m
    /\ then' = why
    /\ pc' = "metaBegin"

\* Mutant: the start-up does not check the main slot against its digest
Matches_Unchecked(m) == TRUE

\* ApplicationIsValid past the metadata: does main hold what m says?
Matches(m) == Digest(main, m.size) = m.digest

\* The end of ApplicationIsValid: the session word is read and cleared, and
\* the listening window opens
OpenWindow(valid) ==
    /\ pc' = "window"
    /\ appValid' = valid
    /\ unsafeOk' = (~valid \/ sessionWord)
    /\ sessionWord' = FALSE
    /\ then' = "none" /\ mrec' = NoMeta /\ cp' = 0

\* What the caller does with the result of the write
MetaWriteReturns(ok) ==
    /\ mgen' = 0
    /\ \/ /\ then = "adopt"
          /\ OpenWindow(ok)
          /\ UNCHANGED upd
       \/ /\ then = "resumed"
          /\ OpenWindow(ok /\ Matches(mrec))
          /\ UNCHANGED upd
       \/ /\ then = "pending" /\ ok
          /\ pc' = "copyErase" /\ then' = "install" /\ cp' = 0
          /\ UNCHANGED <<upd, mrec, session>>
       \/ /\ then = "done" /\ ok
          /\ pc' = "boot" /\ then' = "none"     \* NVIC_SystemReset
          /\ upd' = NoUpdate /\ mrec' = NoMeta /\ cp' = 0
          /\ appValid' = FALSE /\ unsafeOk' = FALSE /\ UNCHANGED sessionWord
       \/ /\ then \in {"pending", "done"} /\ ~ok
          /\ pc' = "listen" /\ then' = "none"
          /\ upd' = Fail(upd) /\ mrec' = NoMeta /\ cp' = 0
          /\ UNCHANGED session

\* The log already ends with this state: nothing is written
IsLogged(m) == HasRecord(log) /\ ReadMeta(log) = m

MetaBegin ==
    /\ pc = "metaBegin"
    /\ \/ /\ IsLogged(mrec)
          /\ MetaWriteReturns(TRUE)
       \/ /\ ~IsLogged(mrec)
          /\ mgen' = NextGeneration(log)
          /\ pc' = IF IsFull(log) THEN "metaErase" ELSE "metaWrite"
          /\ UNCHANGED <<upd, then, cp, mrec, session>>
    /\ UNCHANGED <<flash, frame, env, heard>>

MetaErase ==
    /\ pc = "metaErase"
    /\ \/ /\ log' = BlankPage
          /\ pc' = "metaWrite"
          /\ UNCHANGED <<faults, upd, then, cp, mrec, mgen, session>>
       \/ /\ CanFault
          /\ faults' = faults + 1
          /\ log' \in {log, TornPage}
          /\ MetaWriteReturns(FALSE)
    /\ UNCHANGED <<main, backup, frame, starts, cuts, heard>>

MetaWrite ==
    /\ pc = "metaWrite"
    /\ \/ /\ log' = Appended(log, [gen |-> mgen, meta |-> mrec])
          /\ UNCHANGED faults
          /\ MetaWriteReturns(TRUE)
       \/ /\ CanFault
          /\ faults' = faults + 1
          /\ log' \in {log, Appended(log, TornRecord)}
          /\ MetaWriteReturns(FALSE)
    /\ UNCHANGED <<main, backup, frame, starts, cuts, heard>>

-----------------------------------------------------------------------------
(* Flash_CopyRegion(MAIN_APP_ADDR, BACKUP_APP_ADDR, mrec.size) *)

CopyFails ==
    /\ IF then = "resume"
       THEN OpenWindow(FALSE) /\ UNCHANGED upd
       ELSE /\ pc' = "listen" /\ then' = "none" /\ cp' = 0
            /\ upd' = Fail(upd) /\ mrec' = NoMeta
            /\ UNCHANGED session

CopyErase ==
    /\ pc = "copyErase"
    /\ cp < PagesNeeded(mrec.size)
    /\ \/ /\ Succeeds(main, main', FillPage(main, cp, Erased))
          /\ pc' = "copyWrite"
          /\ UNCHANGED <<upd, then, cp, mrec, session>>
       \/ /\ EraseErrs(main, main', cp)
          /\ CopyFails
    /\ UNCHANGED <<backup, log, mgen, frame, starts, cuts, heard>>

CopyWrite ==
    /\ pc = "copyWrite"
    /\ \/ /\ Programmable(main, cp, mrec.size)
          /\ Succeeds(main, main', WritePage(main, cp, backup, mrec.size))
          /\ cp' = cp + 1
          /\ pc' = "copyErase"
          /\ UNCHANGED <<upd, then, mrec, session>>
       \/ /\ WriteErrs(main, main', cp, Programmable(main, cp, mrec.size))
          /\ CopyFails
    /\ UNCHANGED <<backup, log, mgen, frame, starts, cuts, heard>>

\* Every page is copied: the state becomes APP_VALID
CopyDone ==
    /\ pc = "copyErase"
    /\ cp = PagesNeeded(mrec.size)
    /\ CallMetaWrite([mrec EXCEPT !.state = APP_VALID],
                     IF then = "resume" THEN "resumed" ELSE "done")
    /\ cp' = 0
    /\ UNCHANGED <<flash, upd, mgen, frame, session, env, heard>>

-----------------------------------------------------------------------------
(* Start-up *)

\* StackPointerInValidRAM of the first word of the main slot: an image has a
\* plausible one, erased flash has not, any other bytes may or may not
PlausibleStack == {b \in BOOLEAN : /\ main[1] \in Image => b
                                   /\ main[1] = Erased => ~b}

Adopted == [state |-> APP_VALID, hw |-> THIS_HARDWARE_ID, version |-> BootVersion,
            size |-> APP_MAX_SIZE, digest |-> Digest(main, APP_MAX_SIZE),
            counter |-> MinCounter]

\* Mutant: the pending state is left for the next update to deal with
ResumesCopy_Never(m) == FALSE

\* A copy that a cut interrupted is resumed before anything else
ResumesCopy(m) == m.state = COPY_PENDING

\* ApplicationIsValid as far as its first flash operation
ApplicationIsValid ==
    /\ pc = "boot"
    /\ \/ /\ ~HasRecord(log)
          /\ \E plausible \in PlausibleStack :
                IF plausible
                THEN /\ CallMetaWrite(Adopted, "adopt")
                     /\ UNCHANGED <<cp, session>>
                ELSE OpenWindow(FALSE)
       \/ /\ HasRecord(log)
          /\ ReadMeta(log).hw = THIS_HARDWARE_ID
          /\ ResumesCopy(ReadMeta(log))
          /\ pc' = "copyErase" /\ then' = "resume"
          /\ mrec' = ReadMeta(log) /\ cp' = 0
          /\ UNCHANGED session
       \/ /\ HasRecord(log)
          /\ ReadMeta(log).hw = THIS_HARDWARE_ID => ~ResumesCopy(ReadMeta(log))
          /\ OpenWindow(/\ ReadMeta(log).hw = THIS_HARDWARE_ID
                        /\ Matches(ReadMeta(log)))
    /\ UNCHANGED <<flash, upd, mgen, frame, env, heard>>

\* The 600 ms pass with no START_UPDATE.  JumpToApplication checks the stack
\* pointer and the reset vector once more, and returns when they are unusable
WindowExpires ==
    /\ pc = "window"
    /\ \/ ~appValid /\ pc' = "listen"
       \/ appValid /\ main[1] # Erased /\ pc' = "app"
       \/ appValid /\ main[1] \notin Image /\ pc' = "listen"
    /\ UNCHANGED <<flash, upd, then, cp, mrec, mgen, frame, session, env, heard>>

-----------------------------------------------------------------------------
(* Frames of the update *)

\* HandleStartUpdate, in the window or in the listening loop.  The window is
\* left for the loop whatever the handler decides
HandleStartUpdate(size, hw) ==
    /\ pc \in {"window", "listen"}
    /\ IF size \notin Cells \/ hw # THIS_HARDWARE_ID
       THEN /\ pc' = "listen"
            /\ UNCHANGED <<upd, cp, starts>>
       ELSE /\ starts < MaxStarts
            /\ starts' = starts + 1
            /\ upd' = [upd EXCEPT !.total = size, !.hw = hw]
            /\ pc' = "startErase" /\ cp' = 0
    /\ UNCHANGED <<flash, then, mrec, mgen, frame, session, faults, cuts, heard>>

\* Flash_ErasePages(BACKUP_APP_ADDR, pages_needed)
StartErase ==
    /\ pc = "startErase"
    /\ cp < PagesNeeded(upd.total)
    /\ \/ /\ Succeeds(backup, backup', FillPage(backup, cp, Erased))
          /\ cp' = cp + 1
          /\ UNCHANGED <<pc, upd>>
       \/ /\ EraseErrs(backup, backup', cp)
          /\ pc' = "listen" /\ cp' = 0
          /\ upd' = Fail(upd)
    /\ UNCHANGED <<main, log, then, mrec, mgen, frame, session, starts, cuts, heard>>

\* Mutant: the authorisation of the attempt before is not cleared
Fresh_KeepsAuthorization(u) ==
    [inProgress |-> TRUE, failed |-> FALSE, total |-> u.total, hw |-> u.hw,
     stream |-> <<>>, page |-> 0, record |-> NoRecord, downgrade |-> u.downgrade]

\* The rest of HandleStartUpdate: a fresh attempt
Fresh(u) == [inProgress |-> TRUE, failed |-> FALSE, total |-> u.total, hw |-> u.hw,
             stream |-> <<>>, page |-> 0, record |-> NoRecord, downgrade |-> FALSE]

StartReceiving ==
    /\ pc = "startErase"
    /\ cp = PagesNeeded(upd.total)
    /\ upd' = Fresh(upd)
    /\ heard' = FALSE
    /\ pc' = "listen" /\ cp' = 0
    /\ UNCHANGED <<flash, then, mrec, mgen, frame, session, env>>

Receiving == pc = "listen" /\ upd.inProgress /\ ~upd.failed

\* HandleSigChunk: chunk k of the record of image c (or of no image: Noise)
HandleSigChunk(k, c) ==
    /\ Receiving
    /\ upd' = [upd EXCEPT !.record[k] = c]
    /\ UNCHANGED <<flash, thread, session, env, heard>>

Expects(u) == Received(u) < u.total

\* HandleData: the next cell.  A page that fills is written at once
HandleData(c) ==
    /\ Receiving
    /\ Expects(upd)
    /\ upd' = [upd EXCEPT !.stream = Append(@, c)]
    /\ IF BufferFill(upd) + 1 = PAGE
       THEN pc' = "flush" /\ then' = "data"
       ELSE UNCHANGED <<pc, then>>
    /\ UNCHANGED <<flash, cp, mrec, mgen, frame, session, env, heard>>

\* FlushPageBuffer: the cells of the buffer, the rest of the page left 0xFF
FlushPageBuffer ==
    /\ pc = "flush"
    /\ LET fits == Programmable(backup, upd.page, Received(upd)) IN
       \/ /\ fits
          /\ Succeeds(backup, backup',
                      WritePage(backup, upd.page, upd.stream, Received(upd)))
          /\ upd' = [upd EXCEPT !.page = @ + 1]
          /\ pc' = IF then = "data" THEN "listen" ELSE "verify"
          /\ UNCHANGED frame
       \/ /\ WriteErrs(backup, backup', upd.page, fits)
          /\ upd' = Fail(upd)
          /\ pc' = "listen"
          /\ frame' = NoFrame
    /\ then' = "none"
    /\ UNCHANGED <<main, log, cp, mrec, mgen, session, starts, cuts, heard>>

\* HandleEndUpdate as far as its verification: a partial page is written out
HandleEndUpdate(crc, version) ==
    /\ Receiving
    /\ frame' = [crc |-> crc, version |-> version]
    /\ IF BufferFill(upd) > 0
       THEN pc' = "flush" /\ then' = "end"
       ELSE pc' = "verify" /\ UNCHANGED then
    /\ UNCHANGED <<flash, upd, cp, mrec, mgen, session, env, heard>>

\* HandleAuthorizeDowngrade, with its magic payload
HandleAuthorizeDowngrade ==
    /\ pc = "listen"
    /\ unsafeOk
    /\ upd' = [upd EXCEPT !.downgrade = TRUE]
    /\ heard' = TRUE
    /\ UNCHANGED <<flash, thread, session, env>>

\* Mutant: the silence counts only once data has arrived
AbortApplies_AfterData(u) == u.inProgress /\ ~u.failed /\ Received(u) > 0

AbortApplies(u) == u.inProgress /\ ~u.failed

\* Ten seconds without a frame of the update
InactivityAbort ==
    /\ pc = "listen"
    /\ AbortApplies(upd)
    /\ upd' = [upd EXCEPT !.inProgress = FALSE, !.failed = FALSE]
    /\ UNCHANGED <<flash, thread, session, env, heard>>

-----------------------------------------------------------------------------
(* HandleEndUpdate: the verification *)

\* Mutant: the version of the end frame is left out of the signed header
SignedHeader_WithoutVersion(i) == HardwareOf[i] = upd.hw /\ Size[i] = upd.total

\* The header that BuildImageHeader rebuilds from the frames is that of image i
SignedHeader(i) ==
    /\ HardwareOf[i] = upd.hw
    /\ Size[i] = upd.total
    /\ Version[i] = HeaderVersion(frame.version)

\* urtc_auth_decide but for its counter: the record is that of image i, a
\* trusted key signed it, and it covers the header these frames describe and
\* the digest of the backup slot
Authentic(i) ==
    /\ i \in Signed
    /\ \A k \in 1..RecordChunks : upd.record[k] = i
    /\ SignedHeader(i)
    /\ Digest(backup, upd.total) = ImageDigest(i)

\* Mutant: the counter of the installed image is forgotten
CounterFloor_CompiledOnly == MinCounter

\* The counter floor: the compiled minimum or that of the newest record
CounterFloor ==
    IF HasRecord(log) /\ ReadMeta(log).counter > MinCounter
    THEN ReadMeta(log).counter ELSE MinCounter

IsComplete ==
    /\ Received(upd) = upd.total
    /\ \A k \in 1..RecordChunks : upd.record[k] # NoChunk

CrcMatches == upd.stream = frame.crc

\* The anti-rollback rule by version
IsDowngrade ==
    /\ HasRecord(log)
    /\ ReadMeta(log).state = APP_VALID
    /\ Older(frame.version, ReadMeta(log).version)

Pending(i) == [state |-> COPY_PENDING, hw |-> upd.hw, version |-> frame.version,
               size |-> upd.total, digest |-> Digest(backup, upd.total),
               counter |-> RollbackCounter[i]]

Installable(i) ==
    /\ Authentic(i)
    /\ RollbackCounter[i] >= CounterFloor
    /\ IsDowngrade => upd.downgrade

\* Mutant: the copy first, the record once it is done
RecordThenCopy_Swapped(m) == pc' = "copyErase" /\ then' = "install" /\ mrec' = m

\* The state is recorded as pending BEFORE the main slot is touched
RecordThenCopy(m) == CallMetaWrite(m, "pending")

Accept(i) ==
    /\ pc = "verify"
    /\ IsComplete /\ CrcMatches /\ Installable(i)
    /\ upd' = [upd EXCEPT !.downgrade = FALSE]
    /\ RecordThenCopy(Pending(i))
    /\ frame' = NoFrame
    /\ UNCHANGED <<flash, cp, mgen, session, env, heard>>

Reject ==
    /\ pc = "verify"
    /\ ~(IsComplete /\ CrcMatches /\ \E i \in Image : Installable(i))
    /\ upd' = Fail(upd)
    /\ pc' = "listen" /\ frame' = NoFrame
    /\ UNCHANGED <<flash, then, cp, mrec, mgen, session, env, heard>>

-----------------------------------------------------------------------------
(* The application, the power *)

\* A reset of the application; the accepted 0x7F0 leaves the session word
ResetApplication(entry) ==
    /\ pc = "app"
    /\ pc' = "boot"
    /\ sessionWord' = entry
    /\ appValid' = FALSE /\ unsafeOk' = FALSE
    /\ UNCHANGED <<flash, upd, then, cp, mrec, mgen, frame, env, heard>>

\* What a cut leaves of the operation the thread was about to make
CutMain ==
    \/ main' = main
    \/ /\ \/ pc = "copyErase" /\ cp < PagesNeeded(mrec.size)
          \/ pc = "copyWrite"
       /\ main' = FillPage(main, cp, TornCell)

CutBackup ==
    \/ backup' = backup
    \/ /\ pc = "startErase" /\ cp < PagesNeeded(upd.total)
       /\ backup' = FillPage(backup, cp, TornCell)
    \/ /\ pc = "flush"
       /\ backup' = FillPage(backup, upd.page, TornCell)

CutLog ==
    \/ log' = log
    \/ pc = "metaErase" /\ log' = TornPage
    \/ pc = "metaWrite" /\ log' = Appended(log, TornRecord)

\* Cut and restored.  RAM and, with no battery, the session word are lost
PowerCut ==
    /\ cuts < MaxCuts
    /\ cuts' = cuts + 1
    /\ CutMain /\ CutBackup /\ CutLog
    /\ upd' = NoUpdate
    /\ pc' = "boot" /\ then' = "none" /\ cp' = 0 /\ mrec' = NoMeta /\ mgen' = 0
    /\ frame' = NoFrame
    /\ appValid' = FALSE /\ unsafeOk' = FALSE /\ sessionWord' = FALSE
    /\ heard' = FALSE
    /\ UNCHANGED <<starts, faults>>

-----------------------------------------------------------------------------
\* A blank chip, or one whose main slot was programmed over JTAG
Init ==
    /\ main \in {[k \in Cells |-> Erased]} \cup
                {[k \in Cells |-> IF k <= Size[i] THEN i ELSE Erased] : i \in Image}
    /\ backup = [k \in Cells |-> Erased]
    /\ log = BlankPage
    /\ upd = NoUpdate
    /\ pc = "boot" /\ then = "none" /\ cp = 0 /\ mrec = NoMeta /\ mgen = 0
    /\ frame = NoFrame
    /\ appValid = FALSE /\ unsafeOk = FALSE /\ sessionWord = FALSE
    /\ starts = 0 /\ faults = 0 /\ cuts = 0
    /\ heard = FALSE

\* A version field a flasher sends for image i: with its patch, or without
Declared(i) == {Version[i], [Version[i] EXCEPT !.patch = PATCH_UNKNOWN]}

HostFrame ==
    \/ \E n \in {Size[i] : i \in Image} \cup {0}, hw \in HardwareIds :
          HandleStartUpdate(n, hw)
    \/ \E k \in 1..RecordChunks, c \in FrameCells : HandleSigChunk(k, c)
    \/ \E c \in FrameCells : HandleData(c)
    \/ \E i, j \in Image : \E v \in Declared(j) : HandleEndUpdate(ImageDigest(i), v)
    \/ HandleAuthorizeDowngrade

\* Steps the bootloader takes of itself
BootStep ==
    \/ ApplicationIsValid \/ WindowExpires
    \/ MetaBegin \/ MetaErase \/ MetaWrite
    \/ CopyErase \/ CopyWrite \/ CopyDone
    \/ StartErase \/ StartReceiving
    \/ FlushPageBuffer
    \/ \E i \in Image : Accept(i)
    \/ Reject
    \/ InactivityAbort

Next ==
    \/ BootStep
    \/ HostFrame
    \/ \E entry \in BOOLEAN : ResetApplication(entry)
    \/ PowerCut

Spec == Init /\ [][Next]_vars

\* The processor runs while it is powered; the ten seconds and the 600 ms
\* pass.  Frames, resets of the application and cuts are nobody's duty
FairSpec == Spec /\ WF_vars(BootStep)

-----------------------------------------------------------------------------
(* Properties *)

TypeOK ==
    /\ main \in Slot /\ backup \in Slot
    /\ log \in Log
    /\ upd \in Update
    /\ upd.inProgress /\ pc # "startErase" => Received(upd) <= upd.total
    /\ pc \in {"boot", "window", "listen", "app", "metaBegin", "metaErase",
               "metaWrite", "copyErase", "copyWrite", "startErase", "flush", "verify"}
    /\ then \in {"none", "adopt", "resume", "resumed", "pending", "install", "done",
                 "data", "end"}
    /\ cp \in 0..AppPages
    /\ mrec \in Meta /\ mgen \in Nat
    /\ frame.version \in Versions
    /\ {appValid, unsafeOk, sessionWord, heard} \subseteq BOOLEAN
    /\ starts \in 0..MaxStarts /\ faults \in 0..MaxFaults /\ cuts \in 0..MaxCuts

\* The state describes an image a trusted key signed, all of it
Vouched(m) ==
    \E i \in Signed :
        /\ m.hw = HardwareOf[i] /\ m.size = Size[i]
        /\ HeaderVersion(m.version) = Version[i]
        /\ m.digest = ImageDigest(i) /\ m.counter = RollbackCounter[i]

\* The state describes whatever the main slot held when there was no record
IsAdopted(m) ==
    /\ m.state = APP_VALID /\ m.size = APP_MAX_SIZE
    /\ m.version = BootVersion /\ m.counter = MinCounter

\* Whatever mixture of frames, aborted attempts, flash errors and cuts came
\* before, each record of the log is about one signed image - its version,
\* size, digest and counter together - or is the baseline adopted at a first
\* start.
RecordsAreVouched ==
    \A s \in RecordSlots(log) : Vouched(log[s].meta) \/ IsAdopted(log[s].meta)

\* An application that runs is, cell for cell, the one the newest record
\* describes, and no copy over it is pending.
RunsWhatIsRecorded ==
    pc = "app" => /\ HasRecord(log)
                  /\ ReadMeta(log).state = APP_VALID
                  /\ Digest(main, ReadMeta(log).size) = ReadMeta(log).digest

\* The main slot is never touched until a verified image is recorded as
\* pending, and that record is the newest one.
MainChangesOnlyWhenPending ==
    [][main' # main => HasRecord(log) /\ ReadMeta(log).state = COPY_PENDING]_vars

\* The rollback counter of the board never falls while its log has a record;
\* only a log page lost whole brings it back to the compiled minimum.
CounterNeverFalls ==
    [][HasRecord(log) /\ HasRecord(log')
         => ReadMeta(log').counter >= ReadMeta(log).counter]_vars

\* An image that declares an older version passes only if the host authorised
\* the downgrade in the same attempt: an authorisation given to an attempt
\* that failed, was aborted or was restarted is gone.
DowngradeWasAuthorized ==
    [][pc = "verify" /\ pc' = "metaBegin" /\ IsDowngrade => heard]_vars

\* No page and no slot of the log is programmed before it was erased: what
\* START_UPDATE erases covers every page the buffer will flush, each once.
WritesOnlyErased ==
    /\ pc = "flush" => Programmable(backup, upd.page, Received(upd))
    /\ pc = "copyWrite" => Programmable(main, cp, mrec.size)
    /\ pc = "metaWrite" => ~IsFull(log)

\* If a copy is pending in this log, this slot holds the image to copy, whole
Intact(lg, region) ==
    HasRecord(lg) /\ ReadMeta(lg).state = COPY_PENDING
       => Digest(region, ReadMeta(lg).size) = ReadMeta(lg).digest

\* The image that a pending copy is to be resumed from is lost in one way
\* alone: a flash operation has failed before, so that the bootloader listens
\* with the copy still pending, and a host then starts another update, which
\* erases it.  No cut, no other error, no data of an update does it, and on
\* flash that never failed START_UPDATE finds no copy pending.
BackupLostOnlyToStart ==
    [][Intact(log, backup) /\ ~Intact(log', backup')
          => pc = "startErase" /\ faults > 0]_vars

\* The comment on a copy that fails (bootloader_protocol.c:968-971): "metadata
\* still says META_STATE_COPY_PENDING, backup is still fully intact, and the
\* next boot ... resumes the copy from it".  Not kept: see the one above.
BackupIntactWhilePending == Intact(log, backup)

\* The main slot holds the whole of image i
Holds(i) == Digest(main, Size[i]) = ImageDigest(i)

\* The abstract state: a pending copy commits the board to its image; with
\* no copy pending the board is committed to what the main slot holds whole
ImageIn(P(_)) == IF \E i \in Image : P(i) THEN CHOOSE i \in Image : P(i) ELSE NoChunk
IsPending(i)  == ReadMeta(log).digest = ImageDigest(i)
CommittedImage ==
    IF HasRecord(log) /\ ReadMeta(log).state = COPY_PENDING
    THEN ImageIn(IsPending) ELSE ImageIn(Holds)

Promise == INSTANCE AtomicInstall WITH
              committed <- CommittedImage,
              running   <- IF pc = "app" THEN CommittedImage ELSE NoChunk,
              NoImage   <- NoChunk

\* On flash without errors an update is atomic: whenever the power is cut, the
\* board comes back to the whole old image or to the whole new one, and never
\* goes back once the new one is recorded.
UpdateIsAtomic == Promise!Spec

\* A copy that was recorded is completed, however often the power is cut.
PendingCompletes ==
    (HasRecord(log) /\ ReadMeta(log).state = COPY_PENDING)
       ~> (HasRecord(log) /\ ReadMeta(log).state = APP_VALID)

\* Once the host falls silent no attempt stays open: the bootloader never
\* waits for the rest of a transfer for ever.
AttemptEnds == <>[][~HostFrame]_vars => []<>(~upd.inProgress)

-----------------------------------------------------------------------------
(***************************************************************************)
(* The inductive invariants behind the safety properties: for each place   *)
(* the thread can stand at, what it relies on there.                       *)
(***************************************************************************)

WritesMeta == pc \in {"metaBegin", "metaErase", "metaWrite"}
Copies     == pc \in {"copyErase", "copyWrite"}

\* The record to be written is newer than every record of the log, is about
\* a signed image or the adopted baseline, and does not lower the counter
MetaWriteInv ==
    /\ WritesMeta =>
          /\ then \in {"adopt", "resumed", "pending", "done"}
          /\ mrec.state = IF then = "pending" THEN COPY_PENDING ELSE APP_VALID
          /\ Vouched(mrec) \/ IsAdopted(mrec)
          /\ then = "adopt" => Matches(mrec)
          /\ HasRecord(log) => mrec.counter >= ReadMeta(log).counter
    /\ pc \in {"metaErase", "metaWrite"} =>
          \A s \in RecordSlots(log) : log[s].gen < mgen
    /\ pc = "metaWrite" => ~IsFull(log)

\* What is being copied is what the newest record says is pending
CopyInv ==
    /\ Copies =>
          /\ then \in {"resume", "install"}
          /\ HasRecord(log) /\ ReadMeta(log) = mrec /\ mrec.state = COPY_PENDING
          /\ cp <= PagesNeeded(mrec.size)
    /\ pc = "copyWrite" => /\ cp < PagesNeeded(mrec.size)
                           /\ Programmable(main, cp, mrec.size)

\* An application about to run is the one of the newest record
RunInv ==
    pc = "app" \/ (pc = "window" /\ appValid)
       => /\ HasRecord(log)
          /\ ReadMeta(log).state = APP_VALID
          /\ Matches(ReadMeta(log))

\* The cells of the backup slot, up to n, of page p and of those after it
ErasedFrom(p, n) ==
    \A k \in Cells : (k - 1) \div PAGE >= p /\ k <= n => backup[k] = Erased

ErasedBefore(p) == \A k \in Cells : (k - 1) \div PAGE < p => backup[k] = Erased

\* The buffer holds less than a page between two frames, something when it
\* is flushed, and what it will be flushed to is erased
ReceiveInv ==
    /\ (pc \in {"boot", "window", "app"} \/ then \in {"adopt", "resume", "resumed"})
          => ~upd.inProgress
    /\ pc \in {"flush", "verify"} => upd.inProgress
    /\ pc = "flush" => then \in {"data", "end"}
    /\ pc \in {"boot", "window", "app", "listen", "verify", "startErase"}
          => then = "none"
    /\ pc = "startErase" => /\ upd.total \in Cells
                            /\ cp <= PagesNeeded(upd.total)
                            /\ ErasedBefore(cp)
    /\ pc \in {"listen", "flush"} /\ upd.inProgress =>
          /\ upd.page * PAGE <= Received(upd)
          /\ Received(upd) <= (upd.page + 1) * PAGE
          /\ ErasedFrom(upd.page, upd.total)
    /\ pc = "listen" /\ upd.inProgress => Received(upd) < (upd.page + 1) * PAGE
    /\ pc = "flush" => upd.page * PAGE < Received(upd)
    /\ pc = "flush" /\ then = "data" => Received(upd) = (upd.page + 1) * PAGE

AuthorizationInv == upd.downgrade => heard

\* Together with TypeOK and RecordsAreVouched, preserved by every step
IInv ==
    /\ TypeOK
    /\ RecordsAreVouched
    /\ LogShape(log)
    /\ MetaWriteInv
    /\ CopyInv
    /\ RunInv
    /\ ReceiveInv
    /\ AuthorizationInv

-----------------------------------------------------------------------------
(* What holds beyond that until the flash first errs: the way from a       *)
(* record of a pending copy to that of the installed image.                *)

IsPendingCopy(lg) == HasRecord(lg) /\ ReadMeta(lg).state = COPY_PENDING

\* The main slot holds nothing, or the whole of an image
MainIsWhole == main[1] = Erased \/ \E i \in Image : Holds(i)

\* The record of an image, and the slot that holds it
IsOf(m, i)        == m.size = Size[i] /\ m.digest = ImageDigest(i)
InSlot(m, region) == Digest(region, m.size) = m.digest

\* Nothing but the copy is done while one is pending, and the copy leads to
\* a main slot that holds what is pending
PendingInv ==
    /\ IsPendingCopy(log) =>
          /\ pc = "boot" \/ Copies \/ (WritesMeta /\ then \in {"resumed", "done"})
          /\ InSlot(ReadMeta(log), backup)
          /\ ReadMeta(log).hw = THIS_HARDWARE_ID
    /\ ~IsPendingCopy(log) => MainIsWhole
    /\ WritesMeta /\ then = "pending" =>
          InSlot(mrec, backup) /\ mrec.hw = THIS_HARDWARE_ID
    /\ WritesMeta /\ then \in {"resumed", "done"} =>
          /\ InSlot(mrec, main)
          /\ \E i \in Signed : IsOf(mrec, i)
          /\ IsPendingCopy(log) => ReadMeta(log).digest = mrec.digest
    /\ Copies => \A k \in Cells : (k - 1) \div PAGE < cp /\ k <= mrec.size
                                    => main[k] = backup[k]

AtomicInv == faults = 0 => PendingInv

\* What is about to be recorded as pending is in the backup slot, errors or not
RecordedSlotInv == WritesMeta /\ then = "pending" => InSlot(mrec, backup)
=============================================================================
