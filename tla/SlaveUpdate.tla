---------------------------- MODULE SlaveUpdate ----------------------------
(***************************************************************************)
(* The update of the slave from end to end: a host on the CAN bus, the     *)
(* bridge of the master application (firmware_can_slavebridge.c) with its  *)
(* attestation (firmware_slave_attest.c), and the bootloader of SlaveBoot. *)
(*                                                                         *)
(* SlaveBoot assumes of the master that it confirms only an image whose    *)
(* record it verified.  Here the master is the code that has to keep that  *)
(* promise: over a bus that loses and repeats frames, a link whose writes  *)
(* fail while the slave erases, and a host that gives up and starts again. *)
(*                                                                         *)
(* The bridge runs in the receive interrupt of the CAN, one frame at a     *)
(* time.  The slave runs on between any two of its I2C transactions.       *)
(***************************************************************************)
EXTENDS SlaveBoot

CONSTANTS
    Attempts,        \* What the host may send: the data of an image, the record of another
    DigestChunks,    \* Frames that make one digest (4)
    Tries,           \* Times ConfirmToSlave asks for the status (100)
    TickMayPreempt,  \* Whether the SysTick may preempt the CAN interrupt, and may not
    MaxAttempts,     \* Bound: times the host starts an update
    MaxLosses        \* Bound: frames lost or repeated, transactions that fail, resets

ASSUME BridgeAssumption ==
    /\ Attempts \subseteq Image \X Image
    /\ {DigestChunks, Tries} \subseteq Nat \ {0}
    /\ TickMayPreempt \subseteq BOOLEAN
    /\ {MaxAttempts, MaxLosses} \subseteq Nat
    /\ MaxAttempts <= MaxStarts
    /\ Image # {} /\ Image \subseteq FrameCells

VARIABLES
    host,          \* The attempt the host is making
    digestChunks,  \* digest_chunk_buf, as far as digest_chunks_received
    att,           \* The attestation (the static variables of firmware_slave_attest.c)
    br,            \* The handler the bridge is in, with its local variables
    attempts, losses

bridge  == <<digestChunks, att, br>>
updVars == <<host, bridge, attempts, losses>>

Unknown == -1   \* The floor of a slave that did not answer

NoRecord == [k \in 1..RecordChunks |-> NoChunk]

NoAttest == [active |-> FALSE, relayOk |-> FALSE, size |-> 0, hashed |-> <<>>,
             record |-> NoRecord, floor |-> Unknown]

Idle == [pc |-> "idle", vouched |-> FALSE, version |-> BootVersion, tries |-> 0, nonce |-> 0]

-----------------------------------------------------------------------------
(* The link: one I2C transaction of the master with the slave *)

CanLose == losses < MaxLosses
Lose    == CanLose /\ losses' = losses + 1

\* A write that the bridge sees succeed (ok) or fail.  A slave that is in its
\* interrupt stretches the clock for longer than the master waits.  Any other
\* slave acknowledges; it carries the write out if it is in a state to accept
\* it, and drops it if not.  A write that failed may have been carried out
Write(accepts, Handle, ok) ==
    \/ /\ isr = "idle" /\ ok
       /\ IF accepts THEN Handle ELSE UNCHANGED vars
       /\ UNCHANGED losses
    \/ /\ isr # "idle" /\ ~ok
       /\ UNCHANGED <<vars, losses>>
    \/ /\ isr = "idle" /\ ~ok
       /\ Lose
       /\ (accepts /\ Handle) \/ UNCHANGED vars

ReadFails == IF isr # "idle" THEN UNCHANGED losses ELSE Lose

Answers == isr = "idle" /\ UNCHANGED losses

\* The application of the slave answers what it has not with one byte
AppAnswers == {0} \cup {RollbackCounter[i] : i \in Image}

-----------------------------------------------------------------------------
(* START_UPDATE *)

\* Mutant: the chunks of an attempt that was given up stay in the buffer
StartDigest_Kept == digestChunks

StartDigest == <<>>

\* An attempt with the data of image i and the record and version of image j;
\* the floor is read first, the slave does not answer while it erases
StartFrame(i, j) ==
    /\ br.pc = "idle"
    /\ attempts < MaxAttempts
    /\ attempts' = attempts + 1
    /\ \/ /\ Lose
          /\ host' = [data |-> i, rec |-> j, next |-> 2, clean |-> FALSE]
          /\ UNCHANGED bridge
       \/ /\ digestChunks' = StartDigest
          /\ br' = [br EXCEPT !.pc = "start"]
          /\ \/ /\ Answers
                /\ host' = [data |-> i, rec |-> j, next |-> 2, clean |-> pc # "app"]
                /\ \E f \in IF pc = "app" THEN AppAnswers ELSE {CounterFloor} :
                      att' = [att EXCEPT !.floor = f]
             \/ /\ ReadFails
                /\ host' = [data |-> i, rec |-> j, next |-> 2, clean |-> FALSE]
                /\ att' = [att EXCEPT !.floor = Unknown]
    /\ UNCHANGED vars

\* SlaveAttest_Start
Attested(i) == [NoAttest EXCEPT !.active = TRUE, !.relayOk = TRUE, !.size = Size[i],
                                !.floor = att.floor]

\* The master follows the update whether the slave heard the START or not
StartRelay ==
    /\ br.pc = "start"
    /\ \E ok \in BOOLEAN :
          /\ Write(ServesWrites, HandleStartUpdate(Size[host.data]), ok)
          /\ host' = [host EXCEPT !.clean = @ /\ ok]
    /\ att' = Attested(host.data)
    /\ br' = Idle
    /\ UNCHANGED <<digestChunks, attempts>>

-----------------------------------------------------------------------------
(* The frames that follow: record, digest, data, END, in this order *)

FirstDigest == 2 + RecordChunks
FirstData   == FirstDigest + DigestChunks
EndFrame    == FirstData + Size[host.data]

Arrives(frames) == br.pc = "idle" /\ host.next \in frames
Passed(clean) == host' = [host EXCEPT !.next = @ + 1, !.clean = @ /\ clean]

RecordChunk ==
    /\ Arrives(2..(FirstDigest - 1))
    /\ att' = IF att.active THEN [att EXCEPT !.record[host.next - 1] = host.rec] ELSE att
    /\ Passed(TRUE)
    /\ UNCHANGED <<vars, digestChunks, br, attempts, losses>>

\* The digest that chunks make: that of an image, if each is in its place
DigestOf(chunks) ==
    IF \E i \in Image : \A k \in 1..DigestChunks : chunks[k] = <<i, k>>
    THEN ImageDigest(chunks[1][1])
    ELSE NoImagesDigest

DigestChunk ==
    /\ Arrives(FirstDigest..(FirstData - 1))
    /\ LET chunk  == <<host.data, host.next - FirstDigest + 1>>
           chunks == Append(digestChunks, chunk)
       IN  IF Len(chunks) < DigestChunks
           THEN digestChunks' = chunks /\ Passed(TRUE) /\ UNCHANGED <<vars, losses>>
           ELSE /\ digestChunks' = <<>>
                /\ \E ok \in BOOLEAN :
                      /\ Write(ServesWrites /\ Receiving,
                               HandleDigestExpected(DigestOf(chunks)), ok)
                      /\ Passed(ok)
    /\ UNCHANGED <<att, br, attempts>>

\* SlaveAttest_Data: what exceeds the declared size is not hashed
Hashed(ok) ==
    IF ~att.active THEN att
    ELSE [att EXCEPT !.relayOk = @ /\ ok,
                     !.hashed = IF Len(@) < att.size THEN Append(@, host.data) ELSE @]

Data ==
    /\ Arrives(FirstData..(EndFrame - 1))
    /\ \E ok \in BOOLEAN :
          /\ Write(ServesWrites /\ Receiving, HandleData(host.data), ok)
          /\ att' = Hashed(ok)
          /\ Passed(ok)
    /\ UNCHANGED <<digestChunks, br, attempts>>

-----------------------------------------------------------------------------
(* END_UPDATE *)

\* urtc_auth_decide with the header build_header makes: the record is that of
\* a signed image, of this size, version, CRC and digest, not below the floor
Authentic(crc, version) ==
    \E i \in Signed :
        /\ \A k \in 1..RecordChunks : att.record[k] = i
        /\ att.size = Size[i] /\ HeaderVersion(version) = Version[i]
        /\ crc = ImageDigest(i) /\ att.hashed = ImageDigest(i)
        /\ RollbackCounter[i] >= att.floor

\* SlaveAttest_Verify
Verify(crc, version) ==
    /\ att.active /\ att.relayOk
    /\ Len(att.hashed) = att.size
    /\ \A k \in 1..RecordChunks : att.record[k] # NoChunk
    /\ att.floor # Unknown
    /\ Authentic(crc, version)

\* Over: what the attestation and the handler leave is read by nobody before
\* the next START
Return == br' = Idle /\ att' = NoAttest

EndArrives ==
    /\ Arrives({EndFrame})
    /\ \E v \in Declared(host.rec) :
          LET vouched == Verify(ImageDigest(host.data), v)
          IN  br' = [br EXCEPT !.pc = IF vouched THEN "counter" ELSE "end",
                               !.vouched = vouched, !.version = v]
    /\ att' = [att EXCEPT !.active = FALSE]
    /\ Passed(TRUE)
    /\ UNCHANGED <<vars, digestChunks, attempts, losses>>

\* Mutant: the counter confirmed is the one the slave reported
Counter_Floor == att.floor

\* SlaveAttest_Counter: that of the record verified
Counter == RollbackCounter[att.record[1]]

\* A counter that could not be delivered means no vouching
RelayCounter ==
    /\ br.pc = "counter"
    /\ \E ok \in BOOLEAN :
          /\ Write(ServesWrites /\ Receiving, HandleRecordCounter(Counter), ok)
          /\ br' = [br EXCEPT !.pc = "end", !.vouched = ok]
          /\ host' = [host EXCEPT !.clean = @ /\ ok]
    /\ UNCHANGED <<digestChunks, att, attempts>>

\* END goes to the slave whether the master vouches or not
RelayEnd ==
    /\ br.pc = "end"
    /\ \E ok \in BOOLEAN :
          Write(ServesWrites /\ Receiving,
                QueueEndUpdate(ImageDigest(host.data), br.version), ok)
    /\ IF br.vouched THEN br' = [br EXCEPT !.pc = "poll"] /\ UNCHANGED att
                     ELSE Return
    /\ UNCHANGED <<host, digestChunks, attempts>>

-----------------------------------------------------------------------------
(* ConfirmToSlave *)

\* The status of the slave is STATUS_AWAIT_CONFIRM
SlaveAwaits == pc # "app" /\ Awaiting /\ deferred.op # "confirm"

Poll ==
    /\ br.pc = "poll"
    /\ br.tries < Tries
    /\ \/ Answers /\ br' = [br EXCEPT !.pc = IF SlaveAwaits THEN "nonce" ELSE "delay"]
       \/ ReadFails /\ br' = [br EXCEPT !.pc = "delay"]
    /\ UNCHANGED <<vars, host, digestChunks, att, attempts>>

\* HAL_Delay(10) in the interrupt ends only if the SysTick preempts it
Delay ==
    /\ br.pc = "delay"
    /\ TRUE \in TickMayPreempt
    /\ br' = [br EXCEPT !.pc = "poll", !.tries = @ + 1]
    /\ UNCHANGED <<vars, host, digestChunks, att, attempts, losses>>

GiveUp ==
    /\ br.pc = "poll"
    /\ br.tries = Tries
    /\ Return
    /\ UNCHANGED <<vars, host, digestChunks, attempts, losses>>

\* The nonce of the session of the slave, or zeros if it has none
ReadNonce ==
    /\ br.pc = "nonce"
    /\ \/ /\ Answers
          /\ IF pc # "app" /\ upd.nonceValid
             THEN ReadChallenge /\ br' = [br EXCEPT !.pc = "tag", !.nonce = upd.nonce]
             ELSE UNCHANGED vars /\ br' = [br EXCEPT !.pc = "tag"]
          /\ UNCHANGED att
       \/ ReadFails /\ Return /\ UNCHANGED vars
    /\ UNCHANGED <<host, digestChunks, attempts>>

\* SlaveAttest_Tag
Confirmation ==
    [nonce |-> br.nonce, digest |-> att.hashed, hw |-> THIS_HARDWARE_ID,
     version |-> br.version, size |-> att.size, counter |-> Counter]

WriteConfirm ==
    /\ br.pc = "tag"
    /\ \E ok \in BOOLEAN : Write(ServesWrites /\ Awaiting, QueueConfirm(Confirmation), ok)
    /\ Return
    /\ UNCHANGED <<host, digestChunks, attempts>>

-----------------------------------------------------------------------------
(* The bus, the resets of the master *)

LoseFrame ==
    /\ br.pc = "idle"
    /\ host.next \in 2..EndFrame
    /\ Lose
    /\ Passed(FALSE)
    /\ UNCHANGED <<vars, bridge, attempts>>

\* The frame sent last arrives once more
RepeatFrame ==
    /\ br.pc = "idle"
    /\ host.next > 2
    /\ Lose
    /\ host' = [host EXCEPT !.next = @ - 1, !.clean = FALSE]
    /\ UNCHANGED <<vars, bridge, attempts>>

RestartMaster ==
    /\ Return
    /\ digestChunks' = <<>>
    /\ host' = [host EXCEPT !.clean = FALSE]
    /\ UNCHANGED <<vars, attempts>>

MasterReset == Lose /\ RestartMaster

\* The independent watchdog ends a delay that nothing else does
WatchdogReset ==
    /\ br.pc = "delay"
    /\ FALSE \in TickMayPreempt
    /\ RestartMaster
    /\ UNCHANGED losses

-----------------------------------------------------------------------------
UpdateInit ==
    /\ Init
    /\ host = [data |-> CHOOSE i \in Image : TRUE, rec |-> CHOOSE i \in Image : TRUE,
               next |-> 0, clean |-> FALSE]
    /\ digestChunks = <<>> /\ att = NoAttest /\ br = Idle
    /\ attempts = 0 /\ losses = 0

\* Handle_CAN_SlaveBridge
BridgeStep ==
    \/ \E t \in Attempts : StartFrame(t[1], t[2])
    \/ StartRelay \/ RecordChunk \/ DigestChunk \/ Data
    \/ EndArrives \/ RelayCounter \/ RelayEnd
    \/ Poll \/ Delay \/ GiveUp \/ ReadNonce \/ WriteConfirm

SlaveStep ==
    /\ MainStep \/ IsrStep \/ TimePasses \/ ResetApplication \/ PowerCut
    /\ UNCHANGED updVars

UpdateNext ==
    \/ BridgeStep
    \/ LoseFrame \/ RepeatFrame \/ MasterReset \/ WatchdogReset
    \/ SlaveStep

UpdateSpec == UpdateInit /\ [][UpdateNext]_<<vars, updVars>>

-----------------------------------------------------------------------------
(* Properties *)

BridgePlaces == {"idle", "start", "counter", "end", "poll", "delay", "nonce", "tag"}

UpdateTypeOK ==
    /\ host \in [data : Image, rec : Image, next : Nat, clean : BOOLEAN]
    /\ host.next <= EndFrame + 1
    /\ digestChunks \in Seq(Image \X Nat) /\ Len(digestChunks) < DigestChunks
    /\ att \in [active : BOOLEAN, relayOk : BOOLEAN, size : Nat, hashed : Seq(Image),
                 record : [1..RecordChunks -> Image \cup {NoChunk}], floor : Nat \cup {Unknown}]
    /\ Len(att.hashed) <= att.size
    /\ br \in [pc : BridgePlaces, vouched : BOOLEAN, version : Versions, tries : 0..Tries,
                nonce : Nat]
    /\ attempts \in 0..MaxAttempts /\ losses \in 0..MaxLosses

\* Whatever is lost, repeated or given up on the way, the master writes to the
\* slave what the specification of the slave assumes of it: a confirmation is
\* of a signed image whose record it verified, with the nonce it read.
BridgeKeepsPromise == Spec

\* An attempt on which nothing was lost, of a signed image not below the floor,
\* is vouched for at its END, and the slave, if the session is still open,
\* holds the whole image, its digest and its counter: nothing of the attempts
\* before it is left in the master or in the slave.
CleanAttemptArrivesWhole ==
    /\ br.pc = "end" /\ host.clean
    /\ host.data = host.rec /\ host.data \in Signed
    /\ HeaderVersion(br.version) = Version[host.data]
    /\ RollbackCounter[host.data] >= att.floor
    =>
    /\ br.vouched
    /\ ServesWrites /\ Receiving =>
          /\ upd.stream = ImageDigest(host.data)
          /\ upd.digest = ImageDigest(host.data)
          /\ upd.counter = RollbackCounter[host.data]

\* The master stops waiting for the slave only because the slave awaits the
\* confirmation or because a second has passed (firmware_can_slavebridge.c:
\* "waits (one second at most) until the slave reports that it is waiting").
WaitsForSlave ==
    [][br.pc \in {"poll", "delay"} /\ br'.pc \notin {"poll", "delay"}
          => br'.pc = "nonce" \/ br.tries = Tries]_<<vars, updVars>>

-----------------------------------------------------------------------------
(***************************************************************************)
(* The inductive invariant, on top of IInv of SlaveBoot: what a session of *)
(* the slave can still become, what the bridge knows of the record at each *)
(* place of its handler, and how far master and slave have come with an    *)
(* attempt on which nothing was lost.                                      *)
(***************************************************************************)

\* A session has its nonce until a CONFIRM uses it up, and one whose deferred
\* step is over accepts nothing more
SessionInv ==
    /\ pc = "app" => ~upd.inProgress /\ isr = "idle"
    /\ upd.inProgress => upd.nonceValid \/ Confirming \/ resetDue
    /\ Confirming \/ resetDue => ~upd.awaiting
    /\ deferred.op = "confirm" => ~Receiving \/ Confirming \/ resetDue
    /\ pc = "clear" => deferred.op # "none" /\ (resetDue \/ ~Receiving)

\* The record is that of a signed image, and so are the data hashed and the
\* version declared
RecordVerified ==
    \E i \in Signed :
        /\ \A k \in 1..RecordChunks : att.record[k] = i
        /\ att.size = Size[i] /\ att.hashed = ImageDigest(i)
        /\ br.version \in Declared(i)

\* No session of the slave can come to await a confirmation without a START
NoneAwaited == ~upd.inProgress \/ Confirming \/ resetDue

BridgeInv ==
    /\ br.pc \in {"idle", "start"} => ~br.vouched
    /\ br.pc \notin {"idle", "start"} => host.next = EndFrame + 1
    /\ br.pc \in {"counter", "poll", "delay", "nonce", "tag"} => br.vouched
    /\ br.vouched => RecordVerified
    /\ br.pc = "delay" => br.tries < Tries
    /\ br.pc \in {"counter", "end"} => br.version \in Declared(host.rec)
    /\ br.pc = "tag" => isr # "erase" /\ (br.nonce = challenge \/ NoneAwaited)

\* The n first elements are of the image the host sends
Filled(s, n) == Len(s) = n /\ \A k \in 1..n : s[k] = host.data

\* Data frames of the attempt that have passed
Sent ==
    IF host.next <= FirstData THEN 0
    ELSE IF host.next <= EndFrame THEN host.next - FirstData ELSE Size[host.data]

\* What the attestation and the buffer of the digest hold of the attempt
AttestKeepsUp ==
    /\ att.relayOk /\ att.size = Size[host.data]
    /\ att.floor # Unknown
    /\ \A k \in 1..RecordChunks : k <= host.next - 2 => att.record[k] = host.rec
    /\ Filled(att.hashed, Sent)

DigestKeepsUp ==
    /\ Len(digestChunks) = IF host.next \in FirstDigest..(FirstData - 1)
                              THEN host.next - FirstDigest ELSE 0
    /\ \A k \in 1..Len(digestChunks) : digestChunks[k] = <<host.data, k>>

\* The session of the slave is over, whatever it is still busy with
Stale == isr # "erase" /\ (~Receiving \/ DeferredBusy)

\* It erases for the attempt; the first write that succeeds finds it done
Starting == isr = "erase" /\ upd.total = Size[host.data] /\ host.next < FirstData

\* It receives a session
Accepting == isr # "erase" /\ Receiving /\ ~DeferredBusy

\* It receives the attempt and has all that was sent
InSession ==
    /\ Accepting
    /\ upd.total = Size[host.data]
    /\ Filled(upd.stream, Sent)
    /\ upd.digest = IF host.next < FirstData THEN NoDigest ELSE ImageDigest(host.data)

\* The attempt is one the master has to vouch for
Eligible ==
    /\ host.data = host.rec /\ host.data \in Signed
    /\ HeaderVersion(br.version) = Version[host.data]
    /\ RollbackCounter[host.data] >= att.floor

CleanInv ==
    host.clean =>
    /\ br.pc = "start" => host.next = 2 /\ att.floor # Unknown /\ digestChunks = <<>>
    /\ br.pc = "idle" /\ host.next <= EndFrame =>
          /\ host.next >= 2
          /\ att.active /\ AttestKeepsUp /\ DigestKeepsUp
          /\ Stale \/ Starting \/ InSession
    /\ br.pc = "counter" => AttestKeepsUp /\ (Stale \/ InSession)
    /\ br.pc = "end" /\ Eligible =>
          /\ br.vouched
          /\ Stale \/ (InSession /\ upd.counter = RollbackCounter[host.data])

UpdateInv ==
    /\ IInv
    /\ UpdateTypeOK
    /\ SessionInv
    /\ BridgeInv
    /\ CleanInv
=============================================================================
