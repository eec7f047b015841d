-------------------------- MODULE SlaveUpdate_proof --------------------------
(***************************************************************************)
(* Proofs about SlaveUpdate: the bridge of the master keeps the promise on *)
(* which SlaveBoot rests (UpdateSpec implements Spec), and an attempt on   *)
(* which nothing was lost arrives whole.  UpdateInv of SlaveUpdate is      *)
(* inductive.  Each of its steps is first shown to be a step of SlaveBoot, *)
(* of which IInv is then known to be preserved.                            *)
(***************************************************************************)
EXTENDS SlaveUpdate, SlaveBoot_proof

-----------------------------------------------------------------------------
(* What the slave does with its session between two frames *)

\* A step of the slave starts no session by itself, carries on the one it is
\* erasing for or gives it up, and takes nothing from one it receives unless
\* it ends it.
SlaveMoves ==
    /\ challenge' = challenge
    /\ isr' = "erase" => isr = "erase" /\ upd'.total = upd.total
    /\ Stale => Stale'
    /\ isr = "erase" =>
          \/ isr' = "erase" \/ Stale'
          \/ /\ Accepting' /\ upd'.total = upd.total
             /\ upd'.stream = <<>> /\ upd'.digest = NoDigest
    /\ Accepting =>
          \/ Stale'
          \/ /\ Accepting' /\ upd'.total = upd.total /\ upd'.stream = upd.stream
             /\ upd'.digest = upd.digest /\ upd'.counter = upd.counter
    /\ isr # "erase" /\ NoneAwaited => NoneAwaited'

\* What IInv says of the deferred step and of the session.
LEMMA SessionFacts ==
    ASSUME IInv
    PROVE  /\ upd \in Session
           /\ isr \in {"idle", "erase", "flush"}
           /\ deferred.op = "none" => deferred = NoOp
           /\ DeferredBusy => isr = "idle"
           /\ pc \in {"endFlush", "endVerify"} => deferred.op = "end"
           /\ Confirming => deferred.op = "confirm"
           /\ resetDue => deferred.op # "end"
           /\ Confirming => pc \in {"metaBegin", "metaErase", "metaWrite", "copyErase",
                                    "copyWrite"}
           /\ NoOp.op = "none"
<1>1. /\ upd \in Session /\ isr \in {"idle", "erase", "flush"}
      /\ deferred.op = "none" => deferred = NoOp
      /\ DeferredBusy => isr = "idle"
      /\ pc \in {"endFlush", "endVerify"} => deferred.op = "end"
      /\ Confirming => deferred.op = "confirm"
      /\ resetDue => deferred.op # "end"
  BY DEF IInv, TypeOK, DeferredInv
<1>2. Confirming => pc \in {"metaBegin", "metaErase", "metaWrite", "copyErase", "copyWrite"}
  BY DEF IInv, CopyInv, Confirming, WritesMeta, Copies
<1> QED
  BY <1>1, <1>2 DEF NoOp

\* A step that leaves the session and the deferred step alone.
LEMMA SessionStays ==
    ASSUME IInv, SessionInv, UNCHANGED <<upd, deferred, isr, challenge>>,
           pc' = "app" => pc = "app", pc' # "clear", Confirming' <=> Confirming,
           resetDue' = resetDue
    PROVE  SessionInv' /\ SlaveMoves
<1>1. SessionInv'
  BY DEF SessionInv, Receiving
<1>2. SlaveMoves
  BY DEF SlaveMoves, Stale, Accepting, Receiving, DeferredBusy, NoneAwaited
<1> QED
  BY <1>1, <1>2

\* A step that ends the session.
LEMMA SessionEnded ==
    ASSUME IInv, SessionInv, ~upd'.inProgress, isr' = "idle", challenge' = challenge,
           deferred' = deferred \/ pc' # "clear",
           pc' = "clear" => deferred'.op # "none",
           Confirming' \/ resetDue' => ~upd'.awaiting
    PROVE  SessionInv' /\ SlaveMoves
<1>1. SessionInv'
  BY DEF SessionInv, Receiving
<1>2. SlaveMoves
  BY DEF SlaveMoves, Stale, Accepting, Receiving, DeferredBusy, NoneAwaited
<1> QED
  BY <1>1, <1>2

LEMMA StartUpMoves ==
    ASSUME IInv, SessionInv, ApplicationIsValid \/ WindowBody \/ ListenWindowExpired
                              \/ ReadTick \/ CompareTick
    PROVE  SessionInv' /\ SlaveMoves
<1>1. /\ UNCHANGED <<upd, deferred, isr, challenge, resetDue>>
      /\ pc \in {"boot", "windowBody", "window", "loop", "tick"}
      /\ pc' \notin {"app", "clear"}
  BY DEF ApplicationIsValid, WindowBody, ListenWindowExpired, ReadTick, CompareTick, StartUp,
         CallMetaWrite, irq, master
<1>2. then = "none"
  BY <1>1 DEF IInv, CopyInv, WritesMeta, Copies
<1>3. then' \in {"none", "adopt", "resume"}
  BY <1>2 DEF ApplicationIsValid, WindowBody, ListenWindowExpired, ReadTick, CompareTick,
              StartUp, CallMetaWrite
<1> QED
  BY <1>1, <1>2, <1>3, SessionStays DEF Confirming

LEMMA JumpMoves ==
    ASSUME IInv, SessionInv, JumpToApplication, isr = "idle"
    PROVE  SessionInv' /\ SlaveMoves
<1>1. UNCHANGED <<deferred, isr, challenge, resetDue, then>> /\ Confirming' = Confirming
  BY DEF JumpToApplication, irq, master, Confirming
<1>2. CASE pc' = "app" /\ upd' = Reborn(upd)
  <2>1. ~upd'.inProgress /\ upd'.awaiting = FALSE
    BY <1>2, SessionFacts, SessionValues DEF Reborn, NoSession, Session
  <2> QED
    BY <1>1, <1>2, <2>1, SessionEnded
<1>3. CASE pc' = "loop" /\ UNCHANGED upd
  BY <1>1, <1>3, SessionStays
<1> QED
  BY <1>2, <1>3 DEF JumpToApplication

\* The end of a metadata write.
LEMMA MetaWriteReturnsMoves ==
    ASSUME IInv, SessionInv, NEW ok \in BOOLEAN, MetaWriteReturns(ok), WritesMeta,
           UNCHANGED <<deferred, isr, challenge>>, isr = "idle"
    PROVE  SessionInv' /\ SlaveMoves
<1>1. upd \in Session /\ (Confirming => deferred.op = "confirm" /\ ~upd.awaiting)
  BY SessionFacts DEF SessionInv
<1>2. CASE then \in {"adopt", "resumed"}
  <2>1. UNCHANGED <<upd, resetDue>> /\ then' = "none" /\ pc' \in {"windowBody", "loop"}
    BY <1>2 DEF MetaWriteReturns, StartUp, ConfirmFails
  <2> QED
    BY <1>2, <2>1, SessionStays DEF Confirming
<1>3. CASE then = "pending" /\ ok
  <2>1. UNCHANGED <<upd, resetDue>> /\ then' = "install" /\ pc' = "copyErase"
    BY <1>3 DEF MetaWriteReturns
  <2> QED
    BY <1>3, <2>1, SessionStays DEF Confirming
<1>4. CASE then \in {"pending", "done"} /\ ~ok
  <2>1. upd' = Fail(upd) /\ UNCHANGED resetDue /\ pc' = "clear"
    BY <1>4 DEF MetaWriteReturns, ConfirmFails
  <2>2. ~upd'.inProgress /\ upd'.awaiting = upd.awaiting
    BY <1>1, <2>1, SessionValues DEF Fail, Over, Reborn, NoSession
  <2> QED
    BY <1>1, <1>4, <2>1, <2>2, SessionEnded DEF Confirming
<1>5. CASE then = "done" /\ ok
  <2>1. UNCHANGED upd /\ resetDue' /\ pc' = "clear" /\ then' = "none"
    BY <1>5 DEF MetaWriteReturns
  <2>2. deferred.op = "confirm" /\ ~upd.awaiting
    BY <1>1, <1>5 DEF Confirming
  <2>3. SessionInv'
    BY <1>5, <2>1, <2>2 DEF SessionInv, Confirming, Receiving
  <2>4. DeferredBusy /\ DeferredBusy'
    BY <2>1, <2>2, SessionFacts DEF DeferredBusy
  <2>5. SlaveMoves
    BY <2>1, <2>4 DEF SlaveMoves, Stale, Accepting, Receiving, NoneAwaited
  <2> QED
    BY <2>3, <2>5
<1> QED
  BY <1>2, <1>3, <1>4, <1>5 DEF IInv, WriteInv

LEMMA MetaMoves ==
    ASSUME IInv, SessionInv, MetaBegin \/ MetaErase \/ MetaWrite, isr = "idle"
    PROVE  SessionInv' /\ SlaveMoves
<1>1. WritesMeta /\ UNCHANGED <<deferred, isr, challenge>>
  BY DEF MetaBegin, MetaErase, MetaWrite, WritesMeta, irq, master
<1>2. CASE \E ok \in BOOLEAN : MetaWriteReturns(ok)
  BY <1>1, <1>2, MetaWriteReturnsMoves
<1>3. CASE ~\E ok \in BOOLEAN : MetaWriteReturns(ok)
  <2>1. UNCHANGED <<upd, resetDue, then>> /\ pc' \in {"metaErase", "metaWrite"}
    BY <1>3 DEF MetaBegin, MetaErase, MetaWrite
  <2> QED
    BY <1>1, <2>1, SessionStays DEF Confirming
<1> QED
  BY <1>2, <1>3

LEMMA CopyMoves ==
    ASSUME IInv, SessionInv, CopyErase \/ CopyWrite \/ CopyDone, isr = "idle"
    PROVE  SessionInv' /\ SlaveMoves
<1>1. /\ UNCHANGED <<deferred, isr, challenge, resetDue>> /\ Copies
      /\ then \in {"resume", "install"}
  BY DEF CopyErase, CopyWrite, CopyDone, Copies, irq, master, IInv, CopyInv
<1>2. upd \in Session /\ (Confirming => deferred.op = "confirm" /\ ~upd.awaiting)
  BY SessionFacts DEF SessionInv
<1>3. CASE upd' = upd /\ then' = then /\ pc' \in {"copyErase", "copyWrite"}
  BY <1>1, <1>3, SessionStays DEF Confirming
<1>4. CASE StartUp(FALSE) /\ UNCHANGED upd /\ then = "resume"
  BY <1>1, <1>4, SessionStays DEF StartUp, Confirming
<1>5. CASE ConfirmFails /\ then = "install"
  <2>1. upd' = Fail(upd) /\ pc' = "clear"
    BY <1>5 DEF ConfirmFails
  <2>2. ~upd'.inProgress /\ upd'.awaiting = upd.awaiting
    BY <1>2, <2>1, SessionValues DEF Fail, Over, Reborn, NoSession
  <2>3. deferred.op = "confirm" /\ ~upd.awaiting
    BY <1>2, <1>5 DEF Confirming
  <2> QED
    BY <1>1, <2>1, <2>2, <2>3, SessionEnded
<1>6. CASE /\ UNCHANGED upd /\ pc' = "metaBegin"
           /\ then' = IF then = "resume" THEN "resumed" ELSE "done"
  BY <1>1, <1>6, SessionStays DEF Confirming
<1>7. ConfirmFails /\ CopyDone => then = "install"
  BY <1>1 DEF CopyDone, ReadsBack, ConfirmFails, CallMetaWrite
<1> QED
  BY <1>1, <1>3, <1>4, <1>5, <1>6, <1>7
  DEF CopyErase, CopyWrite, CopyDone, CopyFails, CallMetaWrite, ReadsBack

LEMMA ServeEndMoves ==
    ASSUME IInv, SessionInv, ServeEnd, isr = "idle"
    PROVE  SessionInv' /\ SlaveMoves
<1>1. /\ UNCHANGED <<upd, deferred, isr, challenge, resetDue, then>> /\ deferred.op = "end"
      /\ Confirming' = Confirming
  BY DEF ServeEnd, irq, master, Confirming
<1>2. CASE pc' # "clear"
  <2>1. pc' # "app"
    BY <1>2 DEF ServeEnd
  <2> QED
    BY <1>1, <1>2, <2>1, SessionStays
<1>3. CASE pc' = "clear"
  <2>1. ~Receiving
    BY <1>3 DEF ServeEnd
  <2>2. SessionInv'
    BY <1>1, <1>3, <2>1 DEF SessionInv, Receiving
  <2>3. SlaveMoves
    BY <1>1 DEF SlaveMoves, Stale, Accepting, Receiving, DeferredBusy, NoneAwaited
  <2> QED
    BY <2>2, <2>3
<1> QED
  BY <1>2, <1>3

LEMMA EndFlushMoves ==
    ASSUME IInv, SessionInv, EndFlush, isr = "idle"
    PROVE  SessionInv' /\ SlaveMoves
<1>1. /\ UNCHANGED <<deferred, isr, challenge, resetDue, then>> /\ deferred.op = "end"
      /\ Confirming' = Confirming /\ upd \in Session /\ ~Confirming /\ ~resetDue
  BY SessionFacts DEF EndFlush, irq, master, Confirming
<1>2. CASE upd' = [upd EXCEPT !.page = @ + 1] /\ pc' = "endVerify"
  <2>1. /\ upd'.inProgress = upd.inProgress /\ upd'.failed = upd.failed
        /\ upd'.awaiting = upd.awaiting /\ upd'.nonceValid = upd.nonceValid
        /\ upd'.total = upd.total /\ upd'.stream = upd.stream
        /\ upd'.digest = upd.digest /\ upd'.counter = upd.counter
    BY <1>1, <1>2 DEF Session
  <2>2. SessionInv'
    BY <1>1, <1>2, <2>1 DEF SessionInv, Receiving
  <2>3. SlaveMoves
    BY <1>1, <2>1 DEF SlaveMoves, Stale, Accepting, Receiving, DeferredBusy, NoneAwaited
  <2> QED
    BY <2>2, <2>3
<1>3. CASE upd' = Fail(upd)
  <2>1. ~upd'.inProgress
    BY <1>1, <1>3, SessionValues DEF Fail
  <2> QED
    BY <1>1, <2>1, SessionEnded
<1> QED
  BY <1>2, <1>3 DEF EndFlush

LEMMA EndVerifyMoves ==
    ASSUME IInv, SessionInv, EndVerify, isr = "idle"
    PROVE  SessionInv' /\ SlaveMoves
<1>1. /\ UNCHANGED <<deferred, isr, challenge, resetDue, then>> /\ deferred.op = "end"
      /\ Confirming' = Confirming /\ upd \in Session /\ ~Confirming /\ ~resetDue
      /\ pc' = "clear"
  BY SessionFacts DEF EndVerify, irq, master, Confirming
<1>2. CASE upd' = [upd EXCEPT !.awaiting = TRUE, !.version = deferred.version]
  <2>1. /\ upd'.inProgress = upd.inProgress /\ upd'.awaiting
        /\ upd'.nonceValid = upd.nonceValid
    BY <1>1, <1>2 DEF Session
  <2>2. SessionInv'
    BY <1>1, <1>2, <2>1 DEF SessionInv, Receiving
  <2>3. SlaveMoves
    BY <1>1, <2>1 DEF SlaveMoves, Stale, Accepting, Receiving, DeferredBusy, NoneAwaited
  <2> QED
    BY <2>2, <2>3
<1>3. CASE upd' = Fail(upd)
  <2>1. ~upd'.inProgress
    BY <1>1, <1>3, SessionValues DEF Fail
  <2> QED
    BY <1>1, <2>1, SessionEnded
<1> QED
  BY <1>2, <1>3 DEF EndVerify

LEMMA ServeConfirmMoves ==
    ASSUME IInv, SessionInv, ServeConfirm, isr = "idle"
    PROVE  SessionInv' /\ SlaveMoves
<1>1. /\ UNCHANGED <<deferred, isr, challenge, resetDue>> /\ deferred.op = "confirm"
      /\ upd \in Session /\ ~Confirming /\ pc = "loop"
  BY SessionFacts DEF ServeConfirm, irq, master
<1>2. DeferredBusy /\ DeferredBusy'
  BY <1>1, SessionFacts DEF DeferredBusy
<1>3. CASE pc' = "clear" /\ UNCHANGED <<upd, then>> /\ ~Awaiting
  <2>1. ~Confirming'
    BY <1>1, <1>3 DEF Confirming
  <2>2. SessionInv'
    BY <1>1, <1>3, <2>1 DEF SessionInv, Receiving
  <2>3. SlaveMoves
    BY <1>1, <1>2, <1>3, <2>1 DEF SlaveMoves, Stale, Accepting, Receiving, NoneAwaited
  <2> QED
    BY <2>2, <2>3
<1>4. CASE /\ Awaiting /\ pc' = "metaBegin" /\ then' = "pending"
           /\ upd' = [upd EXCEPT !.awaiting = FALSE, !.nonceValid = FALSE]
  <2>1. Confirming' /\ upd'.awaiting = FALSE
    BY <1>1, <1>4 DEF Confirming, Session
  <2>2. SessionInv'
    BY <1>1, <1>4, <2>1 DEF SessionInv, Receiving
  <2>3. SlaveMoves
    BY <1>1, <1>2, <2>1 DEF SlaveMoves, Stale, Accepting, Receiving, NoneAwaited
  <2> QED
    BY <2>2, <2>3
<1>5. CASE pc' = "clear" /\ upd' = FailUpdate(upd) /\ then' = then
  <2>1. ~upd'.inProgress /\ upd'.awaiting = FALSE
    BY <1>1, <1>5, SessionValues DEF FailUpdate, Fail, Over, Reborn, NoSession
  <2> QED
    BY <1>1, <1>5, <2>1, SessionEnded
<1> QED
  BY <1>3, <1>4, <1>5 DEF ServeConfirm, CallMetaWrite

LEMMA ClearMoves ==
    ASSUME IInv, SessionInv, Clear, isr = "idle"
    PROVE  SessionInv' /\ SlaveMoves
<1>1. /\ UNCHANGED <<upd, isr, challenge, resetDue, then>> /\ pc = "clear" /\ pc' = "loop"
      /\ deferred' = NoOp /\ deferred'.op = "none" /\ ~Confirming /\ ~Confirming'
      /\ deferred # NoOp /\ (resetDue \/ ~Receiving)
  BY SessionFacts DEF Clear, irq, master, Confirming, SessionInv
<1>2. SessionInv'
  BY <1>1 DEF SessionInv, Receiving
<1>3. SlaveMoves
  BY <1>1 DEF SlaveMoves, Stale, Accepting, Receiving, DeferredBusy, NoneAwaited
<1> QED
  BY <1>2, <1>3

LEMMA AbortMoves ==
    ASSUME IInv, SessionInv, Abort, isr = "idle"
    PROVE  SessionInv' /\ SlaveMoves
<1>1. /\ UNCHANGED <<deferred, isr, challenge, resetDue, then>> /\ pc' = "loop"
      /\ Confirming' = Confirming /\ upd \in Session
  BY SessionFacts DEF Abort, irq, master, Confirming
<1>2. ~upd'.inProgress /\ upd'.awaiting = FALSE
  <2>1. CASE upd.awaiting
    BY <1>1, <2>1, SessionValues DEF Abort, FailUpdate, Fail, Over, Reborn, NoSession
  <2>2. CASE ~upd.awaiting
    BY <1>1, <2>2, SessionValues DEF Abort, Over, Reborn, NoSession, Session
  <2> QED
    BY <2>1, <2>2
<1> QED
  BY <1>1, <1>2, SessionEnded

LEMMA RestartMoves ==
    ASSUME IInv, SessionInv, ResetAfterUpdate \/ ResetApplication \/ PowerCut
    PROVE  SessionInv' /\ SlaveMoves
<1>1. upd \in Session /\ Restart /\ challenge' = challenge
  BY SessionFacts DEF ResetAfterUpdate, ResetApplication, PowerCut, master
<1>2. ~upd'.inProgress /\ isr' = "idle" /\ pc' = "boot" /\ ~Confirming' /\ ~resetDue'
  BY <1>1, SessionValues DEF Restart, Confirming
<1> QED
  BY <1>1, <1>2, SessionEnded

LEMMA StartEraseMoves ==
    ASSUME IInv, SessionInv, StartErase
    PROVE  SessionInv' /\ SlaveMoves
<1>1. /\ UNCHANGED <<deferred, challenge, resetDue, pc, then>> /\ isr = "erase"
      /\ Confirming' = Confirming /\ upd \in Session /\ deferred = NoOp
      /\ ~Confirming /\ ~resetDue /\ pc # "app" /\ pc # "clear"
  BY SessionFacts, InterruptExcludes DEF StartErase, thread, master, Confirming, SessionInv
<1>2. CASE UNCHANGED <<upd, isr>>
  BY <1>1, <1>2, SessionStays
<1>3. CASE upd' = Fail(upd) /\ isr' = "idle"
  <2>1. ~upd'.inProgress
    BY <1>1, <1>3, SessionValues DEF Fail
  <2> QED
    BY <1>1, <1>3, <2>1, SessionEnded
<1> QED
  BY <1>2, <1>3 DEF StartErase

LEMMA StartReceivingMoves ==
    ASSUME IInv, SessionInv, StartReceiving
    PROVE  SessionInv' /\ SlaveMoves
<1>1. /\ UNCHANGED <<deferred, challenge, resetDue, pc, then>> /\ isr = "erase" /\ isr' = "idle"
      /\ deferred = NoOp /\ deferred.op = "none" /\ ~Confirming /\ ~Confirming' /\ ~resetDue
      /\ pc # "app" /\ pc # "clear"
  BY InterruptExcludes DEF StartReceiving, thread, Confirming, SessionInv
<1>2. /\ upd'.inProgress = TRUE /\ upd'.failed = FALSE /\ upd'.awaiting = FALSE
      /\ upd'.nonceValid = TRUE /\ upd'.total = upd.total /\ upd'.stream = <<>>
      /\ upd'.digest = NoDigest
  BY DEF StartReceiving, NoSession
<1>3. SessionInv'
  BY <1>1, <1>2 DEF SessionInv, Receiving
<1>4. SlaveMoves
  BY <1>1, <1>2 DEF SlaveMoves, Stale, Accepting, Receiving, DeferredBusy, NoneAwaited
<1> QED
  BY <1>3, <1>4

LEMMA DataFlushMoves ==
    ASSUME IInv, SessionInv, DataFlush
    PROVE  SessionInv' /\ SlaveMoves
<1>1. /\ UNCHANGED <<deferred, challenge, resetDue, pc, then>> /\ isr = "flush" /\ isr' = "idle"
      /\ Confirming' = Confirming /\ upd \in Session /\ deferred = NoOp /\ deferred.op = "none"
      /\ ~Confirming /\ ~resetDue /\ pc # "app" /\ pc # "clear"
  BY SessionFacts, InterruptExcludes DEF DataFlush, thread, master, Confirming, SessionInv
<1>2. CASE upd' = [upd EXCEPT !.page = @ + 1]
  <2>1. /\ upd'.inProgress = upd.inProgress /\ upd'.failed = upd.failed
        /\ upd'.awaiting = upd.awaiting /\ upd'.nonceValid = upd.nonceValid
        /\ upd'.total = upd.total /\ upd'.stream = upd.stream
        /\ upd'.digest = upd.digest /\ upd'.counter = upd.counter
    BY <1>1, <1>2 DEF Session
  <2>2. SessionInv'
    BY <1>1, <2>1 DEF SessionInv, Receiving
  <2>3. SlaveMoves
    BY <1>1, <2>1 DEF SlaveMoves, Stale, Accepting, Receiving, DeferredBusy, NoneAwaited
  <2> QED
    BY <2>2, <2>3
<1>3. CASE upd' = Fail(upd)
  <2>1. ~upd'.inProgress
    BY <1>1, <1>3, SessionValues DEF Fail
  <2> QED
    BY <1>1, <2>1, SessionEnded
<1> QED
  BY <1>2, <1>3 DEF DataFlush

LEMMA TimePassesMoves ==
    ASSUME IInv, SessionInv, TimePasses
    PROVE  SessionInv' /\ SlaveMoves
<1>1. /\ UNCHANGED <<upd, deferred, isr, challenge, resetDue, pc, then>> /\ pc = "loop"
      /\ Confirming' = Confirming
  BY DEF TimePasses, thread, irq, master, Confirming
<1> QED
  BY <1>1, SessionStays

\* Whatever the slave does by itself between two frames of the master.
LEMMA SlaveStepMoves ==
    ASSUME IInv, SessionInv, SlaveStep
    PROVE  SessionInv' /\ SlaveMoves
<1>1. CASE MainStep
  BY <1>1, StartUpMoves, JumpMoves, MetaMoves, CopyMoves, ServeEndMoves, EndFlushMoves,
     EndVerifyMoves, ServeConfirmMoves, ClearMoves, AbortMoves, RestartMoves DEF MainStep
<1>2. CASE IsrStep
  BY <1>2, StartEraseMoves, StartReceivingMoves, DataFlushMoves DEF IsrStep
<1>3. CASE TimePasses \/ ResetApplication \/ PowerCut
  BY <1>3, TimePassesMoves, RestartMoves
<1> QED
  BY <1>1, <1>2, <1>3 DEF SlaveStep

-----------------------------------------------------------------------------
(* What a frame of the master does to the session *)

LEMMA StartUpdateSession ==
    ASSUME IInv, SessionInv, NEW i \in Image, HandleStartUpdate(Size[i])
    PROVE  /\ SessionInv' /\ isr' = "erase" /\ upd'.total = Size[i]
           /\ challenge' = challenge
<1>1. /\ UNCHANGED <<deferred, challenge, resetDue, pc, then>> /\ ServesWrites
      /\ isr' = "erase" /\ upd' = [upd EXCEPT !.total = Size[i]]
      /\ Confirming' = Confirming /\ upd \in Session
  BY SessionFacts DEF HandleStartUpdate, thread, master, Confirming
<1>2. /\ upd'.inProgress = upd.inProgress /\ upd'.failed = upd.failed
      /\ upd'.awaiting = upd.awaiting /\ upd'.nonceValid = upd.nonceValid
      /\ upd'.total = Size[i]
  BY <1>1 DEF Session
<1>3. SessionInv'
  BY <1>1, <1>2 DEF SessionInv, Receiving, ServesWrites
<1> QED
  BY <1>1, <1>2, <1>3

\* A write that is taken in a session that receives, other than its END.
LEMMA TransferSession ==
    ASSUME IInv, SessionInv,
           \/ \E d \in Digests : HandleDigestExpected(d)
           \/ \E n \in Nat : HandleRecordCounter(n)
           \/ \E c \in FrameCells : HandleData(c)
    PROVE  /\ SessionInv' /\ isr' # "erase" /\ Receiving' /\ ~DeferredBusy'
           /\ challenge' = challenge /\ upd'.total = upd.total
<1>1. /\ UNCHANGED <<deferred, challenge, resetDue, pc, then>> /\ ServesWrites /\ Receiving
      /\ Confirming' = Confirming /\ upd \in Session
      /\ isr = "idle" /\ isr' \in {"idle", "flush"}
  <2>1. CASE \E d \in Digests : HandleDigestExpected(d)
    BY <2>1, SessionFacts DEF HandleDigestExpected, thread, irq, master, Confirming, ServesWrites
  <2>2. CASE \E n \in Nat : HandleRecordCounter(n)
    BY <2>2, SessionFacts DEF HandleRecordCounter, thread, irq, master, Confirming, ServesWrites
  <2>3. CASE \E c \in FrameCells : HandleData(c)
    BY <2>3, SessionFacts DEF HandleData, thread, master, Confirming, ServesWrites
  <2> QED
    BY <2>1, <2>2, <2>3
<1>2. /\ upd'.inProgress = upd.inProgress /\ upd'.failed = upd.failed
      /\ upd'.awaiting = upd.awaiting /\ upd'.nonceValid = upd.nonceValid
      /\ upd'.total = upd.total
  <2>1. CASE \E d \in Digests : HandleDigestExpected(d)
    <3>1. PICK d \in Digests : upd' = [upd EXCEPT !.digest = d]
      BY <2>1 DEF HandleDigestExpected
    <3> QED
      BY <1>1, <3>1 DEF Session
  <2>2. CASE \E n \in Nat : HandleRecordCounter(n)
    <3>1. PICK n \in Nat : upd' = [upd EXCEPT !.counter = n]
      BY <2>2 DEF HandleRecordCounter
    <3> QED
      BY <1>1, <3>1 DEF Session
  <2>3. CASE \E c \in FrameCells : HandleData(c)
    <3>1. PICK c \in FrameCells :
             upd' = upd \/ upd' = [upd EXCEPT !.stream = Append(upd.stream, c)]
      BY <2>3 DEF HandleData
    <3> QED
      BY <1>1, <3>1 DEF Session
  <2> QED
    BY <2>1, <2>2, <2>3
<1>3. SessionInv'
  BY <1>1, <1>2 DEF SessionInv, Receiving, ServesWrites
<1> QED
  BY <1>1, <1>2, <1>3 DEF Receiving, ServesWrites, DeferredBusy

LEMMA QueueSession ==
    ASSUME IInv, SessionInv,
           \/ \E d, v : QueueEndUpdate(d, v)
           \/ \E t : QueueConfirm(t)
    PROVE  SessionInv' /\ isr' = isr /\ challenge' = challenge /\ upd' = upd
<1>1. /\ UNCHANGED <<upd, challenge, resetDue, pc, then, isr>> /\ ServesWrites
      /\ Confirming' = Confirming
      /\ deferred'.op = "end" \/ (deferred'.op = "confirm" /\ Awaiting)
  BY DEF QueueEndUpdate, QueueConfirm, thread, irq, master, Confirming
<1>2. pc # "clear" /\ ~Confirming
  BY <1>1, ServedWrites DEF SessionInv
<1> QED
  BY <1>1, <1>2 DEF SessionInv, Receiving, Awaiting

-----------------------------------------------------------------------------
(* The bridge writes what SlaveBoot assumes of the master *)

LEMMA HostFacts ==
    ASSUME UpdateTypeOK
    PROVE  /\ host \in [data : Image, rec : Image, next : Nat, clean : BOOLEAN]
           /\ host.data \in Image /\ host.rec \in Image /\ host.next \in Nat
           /\ host.clean \in BOOLEAN
           /\ Size[host.data] \in Nat /\ Size[host.data] >= 1
           /\ FirstDigest \in Nat /\ FirstData \in Nat /\ EndFrame \in Nat
           /\ FirstDigest = 2 + RecordChunks /\ RecordChunks \in Nat /\ RecordChunks >= 1
           /\ FirstData = FirstDigest + DigestChunks
           /\ DigestChunks \in Nat /\ DigestChunks >= 1
           /\ EndFrame = FirstData + Size[host.data]
<1>1. /\ host \in [data : Image, rec : Image, next : Nat, clean : BOOLEAN]
      /\ host.data \in Image /\ host.rec \in Image /\ host.next \in Nat
  BY DEF UpdateTypeOK
<1>2. host.clean \in BOOLEAN
  BY <1>1
<1>3. Size[host.data] \in Nat /\ Size[host.data] >= 1
  BY <1>1, SlotSize, ImageAssumption DEF Cells
<1>4. /\ RecordChunks \in Nat /\ RecordChunks >= 1
      /\ DigestChunks \in Nat /\ DigestChunks >= 1
  BY ImageAssumption, BridgeAssumption
<1> QED
  BY <1>1, <1>2, <1>3, <1>4 DEF FirstDigest, FirstData, EndFrame

LEMMA BridgeFacts ==
    ASSUME UpdateTypeOK
    PROVE  /\ digestChunks \in Seq(Image \X Nat)
           /\ Len(digestChunks) \in Nat /\ Len(digestChunks) < DigestChunks
           /\ att \in [active : BOOLEAN, relayOk : BOOLEAN, size : Nat, hashed : Seq(Image),
                       record : [1..RecordChunks -> Image \cup {NoChunk}],
                       floor : Nat \cup {Unknown}]
           /\ att.active \in BOOLEAN /\ att.relayOk \in BOOLEAN /\ att.size \in Nat
           /\ att.hashed \in Seq(Image) /\ Len(att.hashed) \in Nat
           /\ Len(att.hashed) <= att.size
           /\ att.record \in [1..RecordChunks -> Image \cup {NoChunk}]
           /\ att.floor \in Nat \cup {Unknown} /\ Unknown \in Int /\ Unknown < 0
           /\ br \in [pc : BridgePlaces, vouched : BOOLEAN, version : Versions,
                      tries : 0..Tries, nonce : Nat]
           /\ br.vouched \in BOOLEAN /\ br.version \in Versions /\ br.tries \in 0..Tries
           /\ br.nonce \in Nat /\ br.pc \in BridgePlaces
<1>1. /\ digestChunks \in Seq(Image \X Nat) /\ Len(digestChunks) < DigestChunks
      /\ att \in [active : BOOLEAN, relayOk : BOOLEAN, size : Nat, hashed : Seq(Image),
                  record : [1..RecordChunks -> Image \cup {NoChunk}],
                  floor : Nat \cup {Unknown}]
      /\ Len(att.hashed) <= att.size
      /\ br \in [pc : BridgePlaces, vouched : BOOLEAN, version : Versions,
                 tries : 0..Tries, nonce : Nat]
  BY DEF UpdateTypeOK
<1>2. Len(digestChunks) \in Nat
  BY <1>1
<1>3. att.active \in BOOLEAN /\ att.relayOk \in BOOLEAN
  BY <1>1
<1>4. /\ att.size \in Nat /\ att.hashed \in Seq(Image)
      /\ att.record \in [1..RecordChunks -> Image \cup {NoChunk}]
      /\ att.floor \in Nat \cup {Unknown}
  BY <1>1
<1>5. br.vouched \in BOOLEAN
  BY <1>1
<1>6. /\ br.version \in Versions /\ br.tries \in 0..Tries /\ br.nonce \in Nat
      /\ br.pc \in BridgePlaces
  BY <1>1
<1>7. Unknown \in Int /\ Unknown < 0
  BY DEF Unknown
<1>8. Len(att.hashed) \in Nat
  BY <1>4
<1> QED
  BY <1>1, <1>2, <1>3, <1>4, <1>5, <1>6, <1>7, <1>8

\* What a whole digest of the host is: that of an image, or of none.
LEMMA DigestFacts ==
    ASSUME NEW chunks \in Seq(Image \X Nat), Len(chunks) = DigestChunks
    PROVE  /\ DigestOf(chunks) \in Digests
           /\ \/ \E i \in Image : DigestOf(chunks) = ImageDigest(i)
              \/ DigestOf(chunks) = NoImagesDigest
           /\ \A i \in Image : (\A k \in 1..DigestChunks : chunks[k] = <<i, k>>)
                                  => DigestOf(chunks) = ImageDigest(i)
<1>1. 1 \in 1..Len(chunks) /\ 1 \in 1..DigestChunks
  BY BridgeAssumption
<1>2. chunks[1] \in Image \X Nat
  BY <1>1
<1>3. chunks[1][1] \in Image
  BY <1>2
<1>4. NoImagesDigest \in Digests
  <2>1. NoImagesDigest \in [1..1 -> Content] /\ 1 \in Cells
    BY SlotSize DEF NoImagesDigest, Content
  <2> QED
    BY <2>1 DEF Digests
<1>5. \A i \in Image : ImageDigest(i) \in Digests
  BY ImageTypes
<1>6. ASSUME NEW i \in Image, \A k \in 1..DigestChunks : chunks[k] = <<i, k>>
      PROVE  DigestOf(chunks) = ImageDigest(i)
  <2>1. chunks[1][1] = i
    BY <1>1, <1>6
  <2> QED
    BY <1>6, <2>1 DEF DigestOf
<1> QED
  BY <1>3, <1>4, <1>5, <1>6 DEF DigestOf

\* A record that was verified is that of one signed image.
LEMMA VerifiedFacts ==
    ASSUME RecordVerified
    PROVE  \E i \in Signed :
              /\ i \in Image /\ att.record[1] = i /\ Counter = RollbackCounter[i]
              /\ att.size = Size[i] /\ att.hashed = ImageDigest(i)
              /\ br.version \in Declared(i)
<1>1. 1 \in 1..RecordChunks
  BY ImageAssumption
<1> QED
  BY <1>1, ImageAssumption DEF RecordVerified, Counter

\* What the slave can take for granted of its master.
Promised == MasterWrite \/ ReadChallenge \/ UNCHANGED vars

LEMMA StartRelayPromised ==
    ASSUME UpdateTypeOK, StartRelay
    PROVE  Promised
<1>1. PICK ok \in BOOLEAN : Write(ServesWrites, HandleStartUpdate(Size[host.data]), ok)
  BY DEF StartRelay
<1> QED
  BY <1>1, HostFacts DEF Write, Promised, MasterWrite

LEMMA DigestChunkPromised ==
    ASSUME UpdateTypeOK, DigestChunk
    PROVE  Promised
<1> DEFINE chunks == Append(digestChunks, <<host.data, host.next - FirstDigest + 1>>)
<1>1. host.next - FirstDigest + 1 \in Nat
  BY HostFacts DEF DigestChunk, Arrives
<1>2. chunks \in Seq(Image \X Nat) /\ Len(chunks) = Len(digestChunks) + 1
  BY <1>1, HostFacts, BridgeFacts
<1> HIDE DEF chunks
<1>3. CASE Len(chunks) < DigestChunks
  BY <1>3 DEF DigestChunk, Promised, chunks
<1>4. CASE ~(Len(chunks) < DigestChunks)
  <2>1. Len(chunks) = DigestChunks
    BY <1>2, <1>4, BridgeFacts, HostFacts
  <2>2. PICK ok \in BOOLEAN : Write(ServesWrites /\ Receiving,
                                    HandleDigestExpected(DigestOf(chunks)), ok)
    BY <1>4 DEF DigestChunk, chunks
  <2> QED
    BY <1>2, <2>1, <2>2, DigestFacts DEF Write, Promised, MasterWrite
<1> QED
  BY <1>3, <1>4

LEMMA DataPromised ==
    ASSUME UpdateTypeOK, Data
    PROVE  Promised
<1>1. PICK ok \in BOOLEAN : Write(ServesWrites /\ Receiving, HandleData(host.data), ok)
  BY DEF Data
<1>2. host.data \in FrameCells
  BY HostFacts, BridgeAssumption
<1> QED
  BY <1>1, <1>2 DEF Write, Promised, MasterWrite

LEMMA RelayCounterPromised ==
    ASSUME UpdateTypeOK, BridgeInv, RelayCounter
    PROVE  Promised
<1>1. PICK i \in Image : Counter = RollbackCounter[i]
  BY VerifiedFacts DEF BridgeInv, RelayCounter
<1>2. PICK ok \in BOOLEAN : Write(ServesWrites /\ Receiving, HandleRecordCounter(Counter), ok)
  BY DEF RelayCounter
<1> QED
  BY <1>1, <1>2 DEF Write, Promised, MasterWrite

LEMMA RelayEndPromised ==
    ASSUME UpdateTypeOK, BridgeInv, RelayEnd
    PROVE  Promised
<1>1. PICK ok \in BOOLEAN : Write(ServesWrites /\ Receiving,
                                  QueueEndUpdate(ImageDigest(host.data), br.version), ok)
  BY DEF RelayEnd
<1>2. br.version \in Declared(host.rec)
  BY DEF BridgeInv, RelayEnd
<1> QED
  BY <1>1, <1>2, HostFacts DEF Write, Promised, MasterWrite

LEMMA ReadNoncePromised ==
    ASSUME ReadNonce
    PROVE  Promised
  BY DEF ReadNonce, Promised

\* The tag is that of an image whose record was verified, with the nonce
\* read, whenever the slave would take it.
LEMMA WriteConfirmPromised ==
    ASSUME SessionInv, BridgeInv, WriteConfirm
    PROVE  Promised
<1>1. PICK ok \in BOOLEAN : Write(ServesWrites /\ Awaiting, QueueConfirm(Confirmation), ok)
  BY DEF WriteConfirm
<1>2. CASE UNCHANGED vars
  BY <1>2 DEF Promised
<1>3. CASE ~UNCHANGED vars
  <2>1. Awaiting /\ QueueConfirm(Confirmation)
    BY <1>1, <1>3 DEF Write
  <2>2. br.nonce = challenge
    BY <2>1 DEF BridgeInv, WriteConfirm, NoneAwaited, SessionInv, Awaiting
  <2>3. PICK i \in Signed : /\ Counter = RollbackCounter[i] /\ att.size = Size[i]
                            /\ att.hashed = ImageDigest(i) /\ br.version \in Declared(i)
    BY VerifiedFacts DEF BridgeInv, WriteConfirm
  <2>4. Confirmation = Tag(i, br.version)
    BY <2>2, <2>3 DEF Confirmation, Tag
  <2> QED
    BY <2>1, <2>3, <2>4 DEF Promised, MasterWrite
<1> QED
  BY <1>2, <1>3

\* The bridge writes nothing else, and the bus and the resets of the master
\* nothing at all.
LEMMA MasterStepPromised ==
    ASSUME UpdateTypeOK, SessionInv, BridgeInv,
           BridgeStep \/ LoseFrame \/ RepeatFrame \/ MasterReset \/ WatchdogReset
    PROVE  Promised
<1>1. CASE BridgeStep
  <2>1. \/ UNCHANGED vars \/ StartRelay \/ DigestChunk \/ Data \/ RelayCounter \/ RelayEnd
        \/ ReadNonce \/ WriteConfirm
    BY <1>1 DEF BridgeStep, StartFrame, RecordChunk, EndArrives, Poll, Delay, GiveUp
  <2> QED
    BY <2>1, StartRelayPromised, DigestChunkPromised, DataPromised, RelayCounterPromised,
       RelayEndPromised, ReadNoncePromised, WriteConfirmPromised DEF Promised
<1>2. CASE LoseFrame \/ RepeatFrame \/ MasterReset \/ WatchdogReset
  BY <1>2 DEF LoseFrame, RepeatFrame, MasterReset, WatchdogReset, RestartMaster, Promised
<1> QED
  BY <1>1, <1>2

\* Every step of the bridge, of the bus and of the slave is a step of SlaveBoot.
LEMMA StepIsPromised ==
    ASSUME UpdateTypeOK, SessionInv, BridgeInv, UpdateNext
    PROVE  [Next]_vars
<1>1. CASE SlaveStep
  BY <1>1 DEF SlaveStep, Next
<1> QED
  BY <1>1, MasterStepPromised DEF UpdateNext, Promised, Next

-----------------------------------------------------------------------------
(* The types, and what the bridge knows at each place, are preserved *)

LEMMA LoseFacts ==
    ASSUME UpdateTypeOK, Lose
    PROVE  losses' \in 0..MaxLosses
  BY BridgeAssumption DEF UpdateTypeOK, Lose, CanLose

\* A frame of the attempt passes.
LEMMA PassedFacts ==
    ASSUME UpdateTypeOK, NEW c \in BOOLEAN, Passed(c), host.next <= EndFrame
    PROVE  /\ host' \in [data : Image, rec : Image, next : Nat, clean : BOOLEAN]
           /\ host'.data = host.data /\ host'.rec = host.rec
           /\ host'.next = host.next + 1 /\ host'.next <= EndFrame' + 1
           /\ host'.clean = (host.clean /\ c)
           /\ EndFrame' = EndFrame
<1>1. host.clean \in BOOLEAN /\ (host.clean /\ c) \in BOOLEAN
  BY HostFacts
<1>2. /\ host' \in [data : Image, rec : Image, next : Nat, clean : BOOLEAN]
      /\ host'.data = host.data /\ host'.rec = host.rec
      /\ host'.next = host.next + 1 /\ host'.clean = (host.clean /\ c)
  <2> DEFINE b == host.clean /\ c
  <2>1. host' = [host EXCEPT !.next = host.next + 1, !.clean = b]
    BY DEF Passed
  <2>2. b \in BOOLEAN
    BY <1>1
  <2> HIDE DEF b
  <2>3. /\ host \in [data : Image, rec : Image, next : Nat, clean : BOOLEAN]
        /\ host.next + 1 \in Nat
    BY HostFacts
  <2>4. /\ host' \in [data : Image, rec : Image, next : Nat, clean : BOOLEAN]
        /\ host'.data = host.data /\ host'.rec = host.rec
        /\ host'.next = host.next + 1 /\ host'.clean = b
    BY <2>1, <2>2, <2>3
  <2> QED
    BY <2>4 DEF b
<1>3. EndFrame' = EndFrame
  BY <1>2 DEF EndFrame, FirstData, FirstDigest
<1> QED
  BY <1>2, <1>3, HostFacts

\* Between two attempts, and while frames arrive, the bridge owes nothing.
LEMMA BridgeAtRest ==
    ASSUME br'.pc \in {"idle", "start"}, ~br'.vouched
    PROVE  BridgeInv'
  BY DEF BridgeInv

LEMMA IdleFacts ==
    /\ Idle \in [pc : BridgePlaces, vouched : BOOLEAN, version : Versions, tries : 0..Tries,
                 nonce : Nat]
    /\ Idle.pc = "idle" /\ ~Idle.vouched
    /\ NoAttest \in [active : BOOLEAN, relayOk : BOOLEAN, size : Nat, hashed : Seq(Image),
                     record : [1..RecordChunks -> Image \cup {NoChunk}],
                     floor : Nat \cup {Unknown}]
    /\ NoAttest.size = 0 /\ Len(NoAttest.hashed) = 0
<1>1. 0 \in 0..Tries
  BY BridgeAssumption
<1>2. NoRecord \in [1..RecordChunks -> Image \cup {NoChunk}] /\ <<>> \in Seq(Image)
  BY DEF NoRecord
<1> QED
  BY <1>1, <1>2, ImageAssumption DEF Idle, NoAttest, BridgePlaces

LEMMA BufferFacts ==
    ASSUME NEW d \in Seq(Image \X Nat), NEW e, e = d \/ e = <<>>, Len(d) < DigestChunks
    PROVE  e \in Seq(Image \X Nat) /\ Len(e) < DigestChunks
<1>1. DigestChunks \in Nat /\ DigestChunks >= 1
  BY BridgeAssumption
<1>2. CASE e = <<>>
  <2>1. <<>> \in Seq(Image \X Nat) /\ Len(<<>>) = 0
    OBVIOUS
  <2>2. 0 < DigestChunks
    BY <1>1
  <2> QED
    BY <1>2, <2>1, <2>2
<1> QED
  BY <1>2

\* The handler returns: what it leaves is read by nobody.
LEMMA ReturnInv ==
    ASSUME UpdateTypeOK, Return, UNCHANGED attempts, losses' \in 0..MaxLosses,
           host' \in [data : Image, rec : Image, next : Nat, clean : BOOLEAN],
           host'.next = host.next, host'.data = host.data,
           digestChunks' = digestChunks \/ digestChunks' = <<>>
    PROVE  UpdateTypeOK' /\ BridgeInv'
<1>1. EndFrame' = EndFrame /\ EndFrame \in Nat
  BY HostFacts DEF EndFrame, FirstData, FirstDigest
<1>2. digestChunks' \in Seq(Image \X Nat) /\ Len(digestChunks') < DigestChunks
  BY BufferFacts, BridgeFacts
<1>3. att' = NoAttest /\ br' = Idle
  BY DEF Return
<1>4. UpdateTypeOK'
  BY <1>1, <1>2, <1>3, IdleFacts DEF UpdateTypeOK
<1>5. BridgeInv'
  BY <1>3, IdleFacts, BridgeAtRest
<1> QED
  BY <1>4, <1>5

LEMMA StartFrameInv ==
    ASSUME IInv, UpdateTypeOK, BridgeInv, NEW i \in Image, NEW j \in Image, StartFrame(i, j)
    PROVE  UpdateTypeOK' /\ BridgeInv'
<1>1. br.pc = "idle" /\ ~br.vouched
  BY DEF StartFrame, BridgeInv
<1>2. /\ host' \in [data : Image, rec : Image, next : Nat, clean : BOOLEAN]
      /\ host'.data = i /\ host'.next = 2
  <2>1. \E b \in BOOLEAN : host' = [data |-> i, rec |-> j, next |-> 2, clean |-> b]
    <3>1. (pc # "app") \in BOOLEAN
      OBVIOUS
    <3> QED
      BY <3>1 DEF StartFrame
  <2> QED
    BY <2>1
<1>3. EndFrame' = FirstData + Size[i] /\ EndFrame' \in Nat /\ 2 <= EndFrame'
  <2>1. Size[i] \in Nat
    BY ImageAssumption, SlotSize DEF Cells
  <2> QED
    BY <1>2, <2>1, HostFacts DEF EndFrame, FirstData, FirstDigest
<1>4. attempts' \in 0..MaxAttempts /\ losses' \in 0..MaxLosses
  <2>1. attempts' \in 0..MaxAttempts
    BY BridgeAssumption DEF StartFrame, UpdateTypeOK
  <2>2. losses' \in 0..MaxLosses
    BY LoseFacts DEF StartFrame, Answers, ReadFails, UpdateTypeOK
  <2> QED
    BY <2>1, <2>2
<1>5. digestChunks' = digestChunks \/ digestChunks' = <<>>
  BY DEF StartFrame, bridge, StartDigest
<1>6. digestChunks' \in Seq(Image \X Nat) /\ Len(digestChunks') < DigestChunks
  BY <1>5, BufferFacts, BridgeFacts
<1>7. /\ att' \in [active : BOOLEAN, relayOk : BOOLEAN, size : Nat, hashed : Seq(Image),
                   record : [1..RecordChunks -> Image \cup {NoChunk}],
                   floor : Nat \cup {Unknown}]
      /\ Len(att'.hashed) <= att'.size
  <2>1. CounterFloor \in Nat /\ AppAnswers \subseteq Nat
    BY CounterFloorFacts, ImageAssumption DEF AppAnswers
  <2>2. \/ att' = att
        \/ \E f \in Nat \cup {Unknown} : att' = [att EXCEPT !.floor = f]
    BY <2>1 DEF StartFrame, bridge
  <2> QED
    BY <2>2, BridgeFacts
<1>8. br' \in [pc : BridgePlaces, vouched : BOOLEAN, version : Versions, tries : 0..Tries,
               nonce : Nat] /\ br'.pc \in {"idle", "start"} /\ br'.vouched = br.vouched
  <2>1. br' = br \/ br' = [br EXCEPT !.pc = "start"]
    BY DEF StartFrame, bridge
  <2>2. "start" \in BridgePlaces
    BY DEF BridgePlaces
  <2> QED
    BY <1>1, <2>1, <2>2, BridgeFacts
<1>9. UpdateTypeOK'
  BY <1>2, <1>3, <1>4, <1>6, <1>7, <1>8 DEF UpdateTypeOK
<1>10. BridgeInv'
  BY <1>1, <1>8, BridgeAtRest
<1> QED
  BY <1>9, <1>10

\* A write of the bridge costs a loss, or none.
LEMMA WriteLosses ==
    ASSUME UpdateTypeOK, Lose \/ UNCHANGED losses
    PROVE  losses' \in 0..MaxLosses
  BY LoseFacts DEF UpdateTypeOK

LEMMA StartRelayInv ==
    ASSUME UpdateTypeOK, BridgeInv, StartRelay
    PROVE  UpdateTypeOK' /\ BridgeInv'
<1>1. /\ losses' \in 0..MaxLosses
  BY WriteLosses DEF StartRelay, Write
<1>2. /\ host' \in [data : Image, rec : Image, next : Nat, clean : BOOLEAN]
      /\ host'.data = host.data /\ host'.next = host.next
  <2>1. \E b \in BOOLEAN : host' = [host EXCEPT !.clean = b]
    <3>1. PICK ok \in BOOLEAN : host' = [host EXCEPT !.clean = @ /\ ok]
      BY DEF StartRelay
    <3>2. host.clean \in BOOLEAN /\ (host.clean /\ ok) \in BOOLEAN
      BY HostFacts
    <3> QED
      BY <3>1, <3>2
  <2> QED
    BY <2>1, HostFacts
<1>3. EndFrame' = EndFrame /\ EndFrame \in Nat /\ host.next <= EndFrame + 1
  BY <1>2, HostFacts DEF EndFrame, FirstData, FirstDigest, UpdateTypeOK
<1>4. /\ att' \in [active : BOOLEAN, relayOk : BOOLEAN, size : Nat, hashed : Seq(Image),
                   record : [1..RecordChunks -> Image \cup {NoChunk}],
                   floor : Nat \cup {Unknown}]
      /\ Len(att'.hashed) <= att'.size
  <2>1. att' = [NoAttest EXCEPT !.active = TRUE, !.relayOk = TRUE, !.size = Size[host.data],
                                !.floor = att.floor]
    BY DEF StartRelay, Attested
  <2>2. Size[host.data] \in Nat /\ att.floor \in Nat \cup {Unknown}
    BY HostFacts, BridgeFacts
  <2>3. /\ att' \in [active : BOOLEAN, relayOk : BOOLEAN, size : Nat, hashed : Seq(Image),
                     record : [1..RecordChunks -> Image \cup {NoChunk}],
                     floor : Nat \cup {Unknown}]
        /\ att'.hashed = NoAttest.hashed /\ att'.size = Size[host.data]
    BY <2>1, <2>2, IdleFacts
  <2> QED
    BY <2>2, <2>3, IdleFacts
<1>5. br' = Idle /\ UNCHANGED <<digestChunks, attempts>>
  BY DEF StartRelay
<1>6. UpdateTypeOK'
  BY <1>1, <1>2, <1>3, <1>4, <1>5, IdleFacts DEF UpdateTypeOK
<1>7. BridgeInv'
  BY <1>5, IdleFacts, BridgeAtRest
<1> QED
  BY <1>6, <1>7

\* A frame that the bridge handles between START and END.
LEMMA TransferInv ==
    ASSUME UpdateTypeOK, BridgeInv, br.pc = "idle", UNCHANGED <<br, attempts>>,
           host.next <= EndFrame, \E c \in BOOLEAN : Passed(c),
           losses' \in 0..MaxLosses,
           digestChunks' \in Seq(Image \X Nat), Len(digestChunks') < DigestChunks,
           att' \in [active : BOOLEAN, relayOk : BOOLEAN, size : Nat, hashed : Seq(Image),
                     record : [1..RecordChunks -> Image \cup {NoChunk}],
                     floor : Nat \cup {Unknown}],
           Len(att'.hashed) <= att'.size
    PROVE  UpdateTypeOK' /\ BridgeInv'
<1>1. /\ host' \in [data : Image, rec : Image, next : Nat, clean : BOOLEAN]
      /\ host'.next <= EndFrame' + 1
  BY PassedFacts
<1>2. UpdateTypeOK'
  BY <1>1 DEF UpdateTypeOK
<1>3. BridgeInv'
  BY BridgeAtRest DEF BridgeInv
<1> QED
  BY <1>2, <1>3

LEMMA RecordChunkInv ==
    ASSUME UpdateTypeOK, BridgeInv, RecordChunk
    PROVE  UpdateTypeOK' /\ BridgeInv'
<1>1. /\ br.pc = "idle" /\ UNCHANGED <<br, attempts>> /\ Passed(TRUE)
      /\ UNCHANGED <<digestChunks, losses>> /\ host.next \in 2..(FirstDigest - 1)
  BY DEF RecordChunk, Arrives
<1>2. host.next <= EndFrame /\ host.next - 1 \in 1..RecordChunks
  BY <1>1, HostFacts
<1>3. /\ att' \in [active : BOOLEAN, relayOk : BOOLEAN, size : Nat, hashed : Seq(Image),
                   record : [1..RecordChunks -> Image \cup {NoChunk}],
                   floor : Nat \cup {Unknown}]
      /\ Len(att'.hashed) <= att'.size
  <2>1. CASE att' = att
    BY <2>1, BridgeFacts
  <2>2. CASE att' = [att EXCEPT !.record[host.next - 1] = host.rec]
    <3> DEFINE r == [att.record EXCEPT ![host.next - 1] = host.rec]
    <3>1. r \in [1..RecordChunks -> Image \cup {NoChunk}]
      BY <1>2, HostFacts, BridgeFacts
    <3>2. att' = [att EXCEPT !.record = r]
      BY <2>2
    <3> HIDE DEF r
    <3> QED
      BY <3>1, <3>2, BridgeFacts
  <2> QED
    BY <2>1, <2>2 DEF RecordChunk
<1>4. losses' \in 0..MaxLosses
  BY <1>1 DEF UpdateTypeOK
<1> QED
  BY <1>1, <1>2, <1>3, <1>4, BridgeFacts, TransferInv

LEMMA DigestChunkInv ==
    ASSUME UpdateTypeOK, BridgeInv, DigestChunk
    PROVE  UpdateTypeOK' /\ BridgeInv'
<1> DEFINE chunks == Append(digestChunks, <<host.data, host.next - FirstDigest + 1>>)
<1>1. /\ br.pc = "idle" /\ UNCHANGED <<br, att, attempts>>
      /\ host.next \in FirstDigest..(FirstData - 1)
  BY DEF DigestChunk, Arrives
<1>2. host.next <= EndFrame /\ host.next - FirstDigest + 1 \in Nat
  BY <1>1, HostFacts
<1>3. chunks \in Seq(Image \X Nat)
  BY <1>2, HostFacts, BridgeFacts
<1> HIDE DEF chunks
<1>4. /\ \/ digestChunks' = chunks /\ Len(chunks) < DigestChunks
         \/ digestChunks' = <<>>
      /\ \E c \in BOOLEAN : Passed(c)
  BY DEF DigestChunk, chunks
<1>5. losses' \in 0..MaxLosses
  <2>1. Lose \/ UNCHANGED losses
    BY DEF DigestChunk, Write
  <2> QED
    BY <2>1, WriteLosses
<1>6. digestChunks' \in Seq(Image \X Nat) /\ Len(digestChunks') < DigestChunks
  BY <1>3, <1>4, BufferFacts, BridgeFacts
<1> QED
  BY <1>1, <1>2, <1>4, <1>5, <1>6, BridgeFacts, TransferInv

\* The hash takes one more cell, as far as the size declared.
LEMMA HashedFacts ==
    ASSUME UpdateTypeOK, NEW ok \in BOOLEAN, att' = Hashed(ok)
    PROVE  /\ att' \in [active : BOOLEAN, relayOk : BOOLEAN, size : Nat, hashed : Seq(Image),
                        record : [1..RecordChunks -> Image \cup {NoChunk}],
                        floor : Nat \cup {Unknown}]
           /\ Len(att'.hashed) <= att'.size
           /\ att.active =>
                 /\ att'.active /\ att'.relayOk = (att.relayOk /\ ok)
                 /\ att'.size = att.size /\ att'.record = att.record /\ att'.floor = att.floor
                 /\ att'.hashed = IF Len(att.hashed) < att.size
                                    THEN Append(att.hashed, host.data) ELSE att.hashed
<1> DEFINE h == IF Len(att.hashed) < att.size THEN Append(att.hashed, host.data)
                                              ELSE att.hashed
           r == att.relayOk /\ ok
<1>1. h \in Seq(Image) /\ Len(h) <= att.size
  BY HostFacts, BridgeFacts
<1>2. r \in BOOLEAN
  BY BridgeFacts
<1>3. att' = IF ~att.active THEN att ELSE [att EXCEPT !.relayOk = r, !.hashed = h]
  BY DEF Hashed
<1>4. CASE ~att.active
  BY <1>3, <1>4, BridgeFacts
<1>5. CASE att.active
  <2> HIDE DEF h, r
  <2>1. /\ att' \in [active : BOOLEAN, relayOk : BOOLEAN, size : Nat, hashed : Seq(Image),
                     record : [1..RecordChunks -> Image \cup {NoChunk}],
                     floor : Nat \cup {Unknown}]
        /\ att'.active = att.active /\ att'.relayOk = r /\ att'.size = att.size
        /\ att'.record = att.record /\ att'.floor = att.floor /\ att'.hashed = h
    BY <1>1, <1>2, <1>3, <1>5, BridgeFacts
  <2> QED
    BY <1>1, <1>5, <2>1 DEF h, r
<1> QED
  BY <1>4, <1>5

LEMMA DataInv ==
    ASSUME UpdateTypeOK, BridgeInv, Data
    PROVE  UpdateTypeOK' /\ BridgeInv'
<1>1. /\ br.pc = "idle" /\ UNCHANGED <<br, digestChunks, attempts>>
      /\ host.next \in FirstData..(EndFrame - 1)
  BY DEF Data, Arrives
<1>2. host.next <= EndFrame
  BY <1>1, HostFacts
<1>3. PICK ok \in BOOLEAN : att' = Hashed(ok) /\ Passed(ok)
  BY DEF Data
<1>4. losses' \in 0..MaxLosses
  <2>1. Lose \/ UNCHANGED losses
    BY DEF Data, Write
  <2> QED
    BY <2>1, WriteLosses
<1>5. digestChunks' \in Seq(Image \X Nat) /\ Len(digestChunks') < DigestChunks
  BY <1>1, BridgeFacts
<1> QED
  BY <1>1, <1>2, <1>3, <1>4, <1>5, HashedFacts, TransferInv

\* A version field that the signature of an image covers is one a host may
\* declare for it: an unknown patch is signed as patch 0.
LEMMA SignedVersion ==
    ASSUME NEW i \in Image, NEW j \in Image, NEW v \in Declared(j),
           HeaderVersion(v) = Version[i]
    PROVE  v \in Declared(i)
<1>1. v \in Versions /\ Version[i] \in Versions
  BY ImageTypes, ImageAssumption
<1>2. CASE v.patch = PATCH_UNKNOWN
  <2>1. Version[i] = [v EXCEPT !.patch = 0]
    BY <1>2 DEF HeaderVersion
  <2>2. v = [Version[i] EXCEPT !.patch = PATCH_UNKNOWN]
    BY <1>1, <1>2, <2>1 DEF Versions
  <2> QED
    BY <2>2 DEF Declared
<1>3. CASE v.patch # PATCH_UNKNOWN
  BY <1>3 DEF HeaderVersion, Declared
<1> QED
  BY <1>2, <1>3

\* The record is verified for the version the host declared.
LEMMA VerifiesRecord ==
    ASSUME UpdateTypeOK, NEW crc, NEW v \in Declared(host.rec), Verify(crc, v)
    PROVE  \E i \in Signed :
              /\ \A k \in 1..RecordChunks : att.record[k] = i
              /\ att.size = Size[i] /\ att.hashed = ImageDigest(i)
              /\ v \in Declared(i)
<1>1. PICK i \in Signed :
         /\ \A k \in 1..RecordChunks : att.record[k] = i
         /\ att.size = Size[i] /\ HeaderVersion(v) = Version[i]
         /\ att.hashed = ImageDigest(i)
  BY DEF Verify, Authentic
<1>2. i \in Image /\ host.rec \in Image
  BY HostFacts, ImageAssumption
<1>3. v \in Declared(i)
  BY <1>1, <1>2, SignedVersion
<1> QED
  BY <1>1, <1>3

LEMMA EndArrivesInv ==
    ASSUME UpdateTypeOK, BridgeInv, EndArrives
    PROVE  UpdateTypeOK' /\ BridgeInv'
<1>1. /\ br.pc = "idle" /\ host.next = EndFrame /\ Passed(TRUE)
      /\ att' = [att EXCEPT !.active = FALSE]
      /\ UNCHANGED <<digestChunks, attempts, losses>>
  BY DEF EndArrives, Arrives
<1>2. PICK v \in Declared(host.rec) :
         br' = [br EXCEPT !.pc = IF Verify(ImageDigest(host.data), v) THEN "counter" ELSE "end",
                          !.vouched = Verify(ImageDigest(host.data), v), !.version = v]
  BY DEF EndArrives
<1> DEFINE vouched == Verify(ImageDigest(host.data), v)
<1>3. vouched \in BOOLEAN
  BY BridgeFacts DEF Verify, Authentic
<1>4. v \in Versions
  BY HostFacts, ImageTypes
<1>5. /\ br' \in [pc : BridgePlaces, vouched : BOOLEAN, version : Versions, tries : 0..Tries,
                  nonce : Nat]
      /\ br'.pc = IF vouched THEN "counter" ELSE "end"
      /\ br'.vouched = vouched /\ br'.version = v
  <2> HIDE DEF vouched
  <2>1. br' = [br EXCEPT !.pc = IF vouched THEN "counter" ELSE "end",
                         !.vouched = vouched, !.version = v]
    BY <1>2 DEF vouched
  <2>2. {"counter", "end"} \subseteq BridgePlaces
    BY DEF BridgePlaces
  <2>3. br \in [pc : BridgePlaces, vouched : BOOLEAN, version : Versions, tries : 0..Tries,
                nonce : Nat]
    BY BridgeFacts
  <2> QED
    BY <1>3, <1>4, <2>1, <2>2, <2>3
<1>6. /\ att' \in [active : BOOLEAN, relayOk : BOOLEAN, size : Nat, hashed : Seq(Image),
                   record : [1..RecordChunks -> Image \cup {NoChunk}],
                   floor : Nat \cup {Unknown}]
      /\ att'.hashed = att.hashed /\ att'.size = att.size /\ att'.record = att.record
  BY <1>1, BridgeFacts
<1>7. /\ host' \in [data : Image, rec : Image, next : Nat, clean : BOOLEAN]
      /\ host'.next <= EndFrame' + 1 /\ host'.rec = host.rec
  <2>1. host.next <= EndFrame
    BY <1>1, HostFacts
  <2>2. PICK c \in BOOLEAN : Passed(c)
    BY <1>1, Zenon
  <2> QED
    BY <2>1, <2>2, PassedFacts
<1>8. UpdateTypeOK'
  BY <1>1, <1>5, <1>6, <1>7, BridgeFacts DEF UpdateTypeOK
<1>9. vouched => RecordVerified'
  <2>1. SUFFICES ASSUME vouched PROVE RecordVerified'
    OBVIOUS
  <2>2. PICK i \in Signed :
           /\ \A k \in 1..RecordChunks : att.record[k] = i
           /\ att.size = Size[i] /\ att.hashed = ImageDigest(i)
           /\ v \in Declared(i)
    BY <2>1, VerifiesRecord
  <2> QED
    BY <1>5, <1>6, <2>2 DEF RecordVerified
<1>10. BridgeInv'
  <2> HIDE DEF vouched
  <2>1. host'.next = EndFrame' + 1
    <3>1. host.next <= EndFrame
      BY <1>1, HostFacts
    <3>2. PICK c \in BOOLEAN : Passed(c)
      BY <1>1, Zenon
    <3> QED
      BY <1>1, <3>1, <3>2, PassedFacts
  <2> QED
    BY <1>5, <1>7, <1>9, <2>1 DEF BridgeInv
<1> QED
  BY <1>8, <1>10

\* The handler goes on with the record it verified.
LEMMA GoesOnInv ==
    ASSUME UpdateTypeOK, BridgeInv, br.vouched, UNCHANGED <<att, digestChunks, attempts>>,
           losses' \in 0..MaxLosses,
           host' \in [data : Image, rec : Image, next : Nat, clean : BOOLEAN],
           host'.next = host.next, host'.data = host.data, host'.rec = host.rec,
           br' \in [pc : BridgePlaces, vouched : BOOLEAN, version : Versions, tries : 0..Tries,
                    nonce : Nat],
           br'.version = br.version, br'.pc \in {"end", "poll", "delay", "nonce", "tag"},
           br'.pc = "end" \/ br'.vouched, br'.pc = "end" => br.pc = "counter",
           br'.pc = "delay" => br'.tries < Tries,
           br'.pc = "tag" => isr' # "erase" /\ (br'.nonce = challenge' \/ NoneAwaited')
    PROVE  UpdateTypeOK' /\ BridgeInv'
<1>1. EndFrame' = EndFrame /\ EndFrame \in Nat /\ host.next <= EndFrame + 1
  BY HostFacts DEF EndFrame, FirstData, FirstDigest, UpdateTypeOK
<1>2. UpdateTypeOK'
  BY <1>1 DEF UpdateTypeOK
<1>3. RecordVerified'
  BY DEF BridgeInv, RecordVerified
<1>4. BridgeInv'
  BY <1>1, <1>3 DEF BridgeInv
<1> QED
  BY <1>2, <1>4

LEMMA RelayCounterInv ==
    ASSUME UpdateTypeOK, BridgeInv, RelayCounter
    PROVE  UpdateTypeOK' /\ BridgeInv'
<1>1. PICK ok \in BOOLEAN :
         /\ br' = [br EXCEPT !.pc = "end", !.vouched = ok]
         /\ host' = [host EXCEPT !.clean = @ /\ ok]
  BY DEF RelayCounter
<1>2. br.pc = "counter" /\ br.vouched /\ UNCHANGED <<digestChunks, att, attempts>>
  BY DEF RelayCounter, BridgeInv
<1>3. losses' \in 0..MaxLosses
  BY WriteLosses DEF RelayCounter, Write
<1>4. /\ host' \in [data : Image, rec : Image, next : Nat, clean : BOOLEAN]
      /\ host'.next = host.next /\ host'.data = host.data /\ host'.rec = host.rec
  <2>1. (host.clean /\ ok) \in BOOLEAN
    BY HostFacts
  <2> QED
    BY <1>1, <2>1, HostFacts
<1>5. /\ br' \in [pc : BridgePlaces, vouched : BOOLEAN, version : Versions, tries : 0..Tries,
                  nonce : Nat]
      /\ br'.pc = "end" /\ br'.version = br.version
  <2>1. "end" \in BridgePlaces
    BY DEF BridgePlaces
  <2> QED
    BY <1>1, <2>1, BridgeFacts
<1> QED
  BY <1>2, <1>3, <1>4, <1>5, GoesOnInv

LEMMA RelayEndInv ==
    ASSUME UpdateTypeOK, BridgeInv, RelayEnd
    PROVE  UpdateTypeOK' /\ BridgeInv'
<1>1. losses' \in 0..MaxLosses /\ UNCHANGED <<host, digestChunks, attempts>>
  BY WriteLosses DEF RelayEnd, Write
<1>2. CASE br.vouched
  <2>1. br' = [br EXCEPT !.pc = "poll"] /\ UNCHANGED att
    BY <1>2 DEF RelayEnd
  <2>2. "poll" \in BridgePlaces
    BY DEF BridgePlaces
  <2>3. /\ br' \in [pc : BridgePlaces, vouched : BOOLEAN, version : Versions, tries : 0..Tries,
                    nonce : Nat]
        /\ br'.pc = "poll" /\ br'.version = br.version /\ br'.vouched = br.vouched
    BY <2>1, <2>2, BridgeFacts
  <2> QED
    BY <1>1, <1>2, <2>1, <2>3, HostFacts, GoesOnInv
<1>3. CASE ~br.vouched
  BY <1>1, <1>3, HostFacts, ReturnInv DEF RelayEnd
<1> QED
  BY <1>2, <1>3

LEMMA PollInv ==
    ASSUME UpdateTypeOK, BridgeInv, Poll \/ Delay \/ GiveUp
    PROVE  UpdateTypeOK' /\ BridgeInv'
<1>1. losses' \in 0..MaxLosses /\ UNCHANGED <<host, digestChunks, attempts>>
  BY WriteLosses DEF Poll, Delay, GiveUp, Answers, ReadFails
<1>2. br.vouched
  BY DEF Poll, Delay, GiveUp, BridgeInv
<1>3. CASE GiveUp
  BY <1>1, <1>3, HostFacts, ReturnInv DEF GiveUp
<1>4. CASE Poll \/ Delay
  <2>1. {"nonce", "delay", "poll"} \subseteq BridgePlaces
    BY DEF BridgePlaces
  <2>2. /\ br' \in [pc : BridgePlaces, vouched : BOOLEAN, version : Versions, tries : 0..Tries,
                    nonce : Nat]
        /\ br'.pc \in {"poll", "delay", "nonce"}
        /\ br'.version = br.version /\ br'.vouched = br.vouched
        /\ br'.pc = "delay" => br'.tries < Tries
    <3>1. CASE Poll
      <4>1. br.tries < Tries /\ \E p \in {"nonce", "delay"} : br' = [br EXCEPT !.pc = p]
        BY <3>1 DEF Poll
      <4> QED
        BY <2>1, <4>1, BridgeFacts
    <3>2. CASE Delay
      <4>1. br' = [br EXCEPT !.pc = "poll", !.tries = br.tries + 1] /\ br.tries + 1 \in 0..Tries
        BY <3>2, BridgeFacts, BridgeAssumption DEF Delay, BridgeInv
      <4> QED
        BY <2>1, <4>1, BridgeFacts
    <3> QED
      BY <1>4, <3>1, <3>2
  <2>3. att' = att
    BY <1>4 DEF Poll, Delay
  <2> QED
    BY <1>1, <1>2, <2>2, <2>3, HostFacts, GoesOnInv
<1> QED
  BY <1>3, <1>4

LEMMA ReadNonceInv ==
    ASSUME IInv, UpdateTypeOK, SessionInv, BridgeInv, ReadNonce
    PROVE  UpdateTypeOK' /\ BridgeInv'
<1>1. losses' \in 0..MaxLosses /\ UNCHANGED <<host, digestChunks, attempts>>
  BY WriteLosses DEF ReadNonce, Answers, ReadFails
<1>2. br.pc = "nonce" /\ br.vouched
  BY DEF ReadNonce, BridgeInv
<1>3. CASE Return
  BY <1>1, <1>3, HostFacts, ReturnInv
<1>4. CASE ~Return
  <2>1. isr = "idle" /\ UNCHANGED att
    BY <1>4 DEF ReadNonce, Answers
  <2>2. /\ br' \in [pc : BridgePlaces, vouched : BOOLEAN, version : Versions, tries : 0..Tries,
                    nonce : Nat]
        /\ br'.pc = "tag" /\ br'.version = br.version /\ br'.vouched = br.vouched
        /\ isr' = "idle"
        /\ br'.nonce = challenge' \/ NoneAwaited'
    <3>1. "tag" \in BridgePlaces /\ upd.nonce \in Nat
      BY SessionFacts DEF BridgePlaces, Session
    <3>2. CASE pc # "app" /\ upd.nonceValid
      <4>1. br' = [br EXCEPT !.pc = "tag", !.nonce = upd.nonce] /\ ReadChallenge
        BY <1>4, <3>2 DEF ReadNonce
      <4>2. challenge' = upd.nonce /\ isr' = isr
        BY <4>1 DEF ReadChallenge, irq
      <4> QED
        BY <2>1, <3>1, <4>1, <4>2, BridgeFacts
    <3>3. CASE ~(pc # "app" /\ upd.nonceValid)
      <4>1. br' = [br EXCEPT !.pc = "tag"] /\ UNCHANGED vars
        BY <1>4, <3>3 DEF ReadNonce
      <4>2. isr' = isr /\ NoneAwaited' = NoneAwaited
        BY <4>1 DEF vars, irq, thread, NoneAwaited, Confirming
      <4>3. NoneAwaited
        BY <3>3 DEF SessionInv, NoneAwaited
      <4> QED
        BY <2>1, <3>1, <4>1, <4>2, <4>3, BridgeFacts
    <3> QED
      BY <3>2, <3>3
  <2> QED
    BY <1>1, <1>2, <2>1, <2>2, HostFacts, GoesOnInv
<1> QED
  BY <1>3, <1>4

LEMMA WriteConfirmInv ==
    ASSUME UpdateTypeOK, BridgeInv, WriteConfirm
    PROVE  UpdateTypeOK' /\ BridgeInv'
<1>1. losses' \in 0..MaxLosses
  BY WriteLosses DEF WriteConfirm, Write
<1> QED
  BY <1>1, HostFacts, ReturnInv DEF WriteConfirm

LEMMA BusInv ==
    ASSUME UpdateTypeOK, BridgeInv, LoseFrame \/ RepeatFrame
    PROVE  UpdateTypeOK' /\ BridgeInv'
<1>1. /\ br.pc = "idle" /\ UNCHANGED <<digestChunks, att, br, attempts>>
      /\ losses' \in 0..MaxLosses
  BY LoseFacts DEF LoseFrame, RepeatFrame, bridge
<1>2. /\ host' \in [data : Image, rec : Image, next : Nat, clean : BOOLEAN]
      /\ host'.next <= EndFrame' + 1
  <2>1. CASE LoseFrame
    <3>1. host.next <= EndFrame
      BY <2>1, HostFacts DEF LoseFrame
    <3>2. PICK c \in BOOLEAN : Passed(c)
      BY <2>1, Zenon DEF LoseFrame
    <3> QED
      BY <3>1, <3>2, PassedFacts
  <2>2. CASE RepeatFrame
    <3>1. host.next > 2 /\ host' = [host EXCEPT !.next = host.next - 1, !.clean = FALSE]
      BY <2>2 DEF RepeatFrame
    <3>2. /\ host \in [data : Image, rec : Image, next : Nat, clean : BOOLEAN]
          /\ host.next - 1 \in Nat
      BY <3>1, HostFacts
    <3>3. /\ host' \in [data : Image, rec : Image, next : Nat, clean : BOOLEAN]
          /\ host'.data = host.data /\ host'.next = host.next - 1
      BY <3>1, <3>2
    <3>4. EndFrame' = EndFrame /\ host.next <= EndFrame + 1
      BY <3>3 DEF EndFrame, FirstData, FirstDigest, UpdateTypeOK
    <3> QED
      BY <3>3, <3>4, HostFacts
  <2> QED
    BY <2>1, <2>2
<1>3. UpdateTypeOK'
  BY <1>1, <1>2 DEF UpdateTypeOK
<1>4. BridgeInv'
  BY <1>1, BridgeAtRest DEF BridgeInv
<1> QED
  BY <1>3, <1>4

LEMMA RestartMasterInv ==
    ASSUME UpdateTypeOK, BridgeInv, MasterReset \/ WatchdogReset
    PROVE  UpdateTypeOK' /\ BridgeInv'
<1>1. losses' \in 0..MaxLosses
  BY WriteLosses DEF MasterReset, WatchdogReset
<1>2. RestartMaster
  BY DEF MasterReset, WatchdogReset
<1>3. host' \in [data : Image, rec : Image, next : Nat, clean : BOOLEAN]
      /\ host'.next = host.next /\ host'.data = host.data
  BY <1>2, HostFacts DEF RestartMaster
<1> QED
  BY <1>1, <1>2, <1>3, ReturnInv DEF RestartMaster

LEMMA SlaveStepInv ==
    ASSUME UpdateTypeOK, BridgeInv, SlaveMoves, UNCHANGED updVars
    PROVE  UpdateTypeOK' /\ BridgeInv'
<1>1. UNCHANGED <<host, digestChunks, att, br, attempts, losses>>
  BY DEF updVars, bridge
<1>2. UpdateTypeOK'
  BY <1>1 DEF UpdateTypeOK, EndFrame, FirstData, FirstDigest
<1>3. RecordVerified' = RecordVerified
  BY <1>1 DEF RecordVerified
<1>4. EndFrame' = EndFrame
  BY <1>1 DEF EndFrame, FirstData, FirstDigest
<1>5. BridgeInv'
  BY <1>1, <1>3, <1>4 DEF BridgeInv, SlaveMoves
<1> QED
  BY <1>2, <1>5

\* What the master does, or the bus, keeps the types and what the bridge knows.
LEMMA MasterStepInv ==
    ASSUME IInv, UpdateTypeOK, SessionInv, BridgeInv, UpdateNext
    PROVE  UpdateTypeOK' /\ BridgeInv'
<1>1. CASE BridgeStep
  <2>1. CASE \E t \in Attempts : StartFrame(t[1], t[2])
    <3>1. PICK t \in Attempts : StartFrame(t[1], t[2])
      BY <2>1
    <3>2. t[1] \in Image /\ t[2] \in Image
      BY BridgeAssumption
    <3> QED
      BY <3>1, <3>2, StartFrameInv
  <2> QED
    BY <1>1, <2>1, StartRelayInv, RecordChunkInv, DigestChunkInv, DataInv, EndArrivesInv,
       RelayCounterInv, RelayEndInv, PollInv, ReadNonceInv, WriteConfirmInv DEF BridgeStep
<1>2. CASE LoseFrame \/ RepeatFrame \/ MasterReset \/ WatchdogReset
  BY <1>2, BusInv, RestartMasterInv
<1>3. CASE SlaveStep
  BY <1>3, SlaveStepMoves, SlaveStepInv DEF SlaveStep
<1> QED
  BY <1>1, <1>2, <1>3 DEF UpdateNext

\* What is taken of the master leaves a session that SessionInv describes.
LEMMA SessionNext ==
    ASSUME IInv, SessionInv, Promised
    PROVE  SessionInv'
<1>1. CASE UNCHANGED vars
  BY <1>1 DEF vars, thread, irq, SessionInv, Receiving, Confirming
<1>2. CASE ReadChallenge
  BY <1>2 DEF ReadChallenge, thread, irq, SessionInv, Receiving, Confirming
<1>3. CASE MasterWrite
  <2>1. CASE \E i \in Image : HandleStartUpdate(Size[i])
    BY <2>1, StartUpdateSession
  <2>2. CASE \/ \E i \in Image : HandleDigestExpected(ImageDigest(i))
             \/ HandleDigestExpected(NoImagesDigest)
    <3>1. NoImagesDigest \in Digests
      <4>1. NoImagesDigest \in [1..1 -> Content] /\ 1 \in Cells
        BY SlotSize DEF NoImagesDigest, Content
      <4> QED
        BY <4>1 DEF Digests
    <3>2. \E d \in Digests : HandleDigestExpected(d)
      BY <2>2, <3>1, ImageTypes
    <3> QED
      BY <3>2, TransferSession
  <2>3. CASE \E i \in Image : HandleRecordCounter(RollbackCounter[i])
    <3>1. \E n \in Nat : HandleRecordCounter(n)
      BY <2>3, ImageTypes
    <3> QED
      BY <3>1, TransferSession
  <2>4. CASE \E c \in FrameCells : HandleData(c)
    BY <2>4, TransferSession
  <2>5. CASE \/ \E i, j \in Image : \E v \in Declared(j) : QueueEndUpdate(ImageDigest(i), v)
             \/ \E i \in Signed : \E v \in Declared(i) : QueueConfirm(Tag(i, v))
    BY <2>5, QueueSession
  <2> QED
    BY <1>3, <2>1, <2>2, <2>3, <2>4, <2>5 DEF MasterWrite
<1> QED
  BY <1>1, <1>2, <1>3 DEF Promised

-----------------------------------------------------------------------------
(* An attempt on which nothing was lost *)

\* A slave that has given the session up takes no frame of the transfer.
LEMMA StaleRefuses ==
    ASSUME Stale
    PROVE  ~(ServesWrites /\ Receiving)
  BY DEF Stale, ServesWrites

\* One that receives takes each of them that finds it out of its interrupt.
LEMMA SessionServes ==
    ASSUME SessionInv, Accepting, isr = "idle"
    PROVE  ServesWrites /\ Receiving
  BY DEF SessionInv, Accepting, ServesWrites, Receiving

LEMMA SentFacts ==
    ASSUME UpdateTypeOK
    PROVE  /\ Sent \in 0..Size[host.data]
           /\ host.next <= FirstData => Sent = 0
           /\ host.next \in FirstData..EndFrame => Sent = host.next - FirstData
           /\ host.next >= EndFrame => Sent = Size[host.data]
  BY HostFacts DEF Sent

LEMMA FilledOn ==
    ASSUME NEW S, NEW s \in Seq(S), NEW n \in Nat, Filled(s, n), NEW x \in S, x = host.data
    PROVE  Filled(Append(s, x), n + 1)
  BY DEF Filled

LEMMA FilledImage ==
    ASSUME UpdateTypeOK, NEW S, NEW s \in Seq(S), Filled(s, Size[host.data])
    PROVE  s = ImageDigest(host.data)
<1>1. Len(s) = Size[host.data] /\ s = [k \in 1..Len(s) |-> s[k]]
  BY DEF Filled
<1> QED
  BY <1>1 DEF Filled, ImageDigest

\* While the slave runs, it carries the attempt on or gives it up.
LEMMA SlaveStepClean ==
    ASSUME UpdateTypeOK, CleanInv, SlaveMoves, UNCHANGED updVars
    PROVE  CleanInv'
<1>1. UNCHANGED <<host, digestChunks, att, br, attempts, losses>>
  BY DEF updVars, bridge
<1>2. /\ EndFrame' = EndFrame /\ Eligible' = Eligible
      /\ AttestKeepsUp' = AttestKeepsUp /\ DigestKeepsUp' = DigestKeepsUp
  BY <1>1 DEF EndFrame, FirstData, FirstDigest, Eligible, AttestKeepsUp, DigestKeepsUp,
              Filled, Sent
<1>3. Starting => Starting' \/ Stale' \/ InSession'
  <2>1. SUFFICES ASSUME Starting PROVE Starting' \/ Stale' \/ InSession'
    OBVIOUS
  <2>2. isr = "erase" /\ upd.total = Size[host.data] /\ host.next < FirstData
    BY <2>1 DEF Starting
  <2>3. CASE isr' = "erase"
    BY <1>1, <2>2, <2>3 DEF SlaveMoves, Starting, FirstData, FirstDigest
  <2>4. CASE /\ Accepting' /\ upd'.total = upd.total
             /\ upd'.stream = <<>> /\ upd'.digest = NoDigest
    <3>1. Sent' = 0 /\ host'.next < FirstData'
      <4>1. Sent = 0
        BY <2>2, HostFacts, SentFacts
      <4>2. Sent' = Sent
        BY <1>1 DEF Sent, EndFrame, FirstData, FirstDigest
      <4> QED
        BY <1>1, <2>2, <4>1, <4>2 DEF FirstData, FirstDigest
    <3>2. Filled(<<>>, 0)'
      BY DEF Filled
    <3> QED
      BY <1>1, <2>2, <2>4, <3>1, <3>2 DEF InSession
  <2> QED
    BY <2>2, <2>3, <2>4 DEF SlaveMoves
<1>4. InSession => Stale' \/ (InSession' /\ upd'.counter = upd.counter)
  <2>1. Sent' = Sent /\ FirstData' = FirstData
    BY <1>1 DEF Sent, EndFrame, FirstData, FirstDigest
  <2> QED
    BY <1>1, <2>1 DEF SlaveMoves, InSession, Filled
<1>5. Stale => Stale'
  BY DEF SlaveMoves
<1> QED
  BY <1>1, <1>2, <1>3, <1>4, <1>5 DEF CleanInv

LEMMA StartFrameClean ==
    ASSUME IInv, UpdateTypeOK, NEW i \in Image, NEW j \in Image, StartFrame(i, j)
    PROVE  CleanInv'
<1> SUFFICES ASSUME host'.clean PROVE CleanInv'
  BY DEF CleanInv
<1> DEFINE served == pc # "app"
<1>1. host' # [data |-> i, rec |-> j, next |-> 2, clean |-> FALSE]
  OBVIOUS
<1>2. /\ host' = [data |-> i, rec |-> j, next |-> 2, clean |-> served]
      /\ digestChunks' = <<>> /\ br' = [br EXCEPT !.pc = "start"]
      /\ \E f \in IF pc = "app" THEN AppAnswers ELSE {CounterFloor} :
            att' = [att EXCEPT !.floor = f]
  BY <1>1 DEF StartFrame, StartDigest
<1>3. host'.clean = served /\ host'.next = 2
  BY <1>2
<1>4. att' = [att EXCEPT !.floor = CounterFloor]
  BY <1>2, <1>3
<1>5. br'.pc = "start" /\ att'.floor = CounterFloor
  BY <1>2, <1>4, BridgeFacts
<1>6. CounterFloor \in Nat
  BY CounterFloorFacts
<1>7. att'.floor # Unknown
  BY <1>5, <1>6, BridgeFacts
<1> QED
  BY <1>2, <1>3, <1>5, <1>7 DEF CleanInv

LEMMA StartRelayClean ==
    ASSUME IInv, UpdateTypeOK, SessionInv, CleanInv, StartRelay
    PROVE  CleanInv'
<1> SUFFICES ASSUME host'.clean PROVE CleanInv'
  BY DEF CleanInv
<1>1. PICK ok \in BOOLEAN : /\ Write(ServesWrites, HandleStartUpdate(Size[host.data]), ok)
                            /\ host' = [host EXCEPT !.clean = host.clean /\ ok]
  BY DEF StartRelay
<1>2. /\ host.clean /\ ok
      /\ host'.data = host.data /\ host'.rec = host.rec /\ host'.next = host.next
  BY <1>1, HostFacts
<1>3. /\ br.pc = "start" /\ br' = Idle /\ br'.pc = "idle" /\ att' = Attested(host.data)
      /\ digestChunks' = digestChunks
  BY IdleFacts DEF StartRelay
<1>4. host.next = 2 /\ att.floor # Unknown /\ digestChunks = <<>>
  BY <1>2, <1>3 DEF CleanInv
<1>5. /\ EndFrame' = EndFrame /\ FirstData' = FirstData /\ FirstDigest' = FirstDigest
  BY <1>2 DEF EndFrame, FirstData, FirstDigest
<1>6. /\ host'.next < FirstDigest /\ host'.next < FirstData /\ host'.next <= EndFrame
  BY <1>2, <1>4, HostFacts
<1>7. Sent' = 0
  <2>1. host'.next <= FirstData'
    BY <1>2, <1>4, <1>5, <1>6, HostFacts
  <2> QED
    BY <2>1 DEF Sent
<1>8. /\ att'.active /\ att'.relayOk /\ att'.size = Size[host.data]
      /\ att'.floor = att.floor /\ att'.hashed = <<>>
  BY <1>3 DEF Attested, NoAttest
<1>9. AttestKeepsUp'
  <2>1. Filled(<<>>, 0)'
    BY DEF Filled
  <2>2. \A k \in 1..RecordChunks : ~(k <= host'.next - 2)
    BY <1>2, <1>4, HostFacts
  <2> QED
    BY <1>2, <1>4, <1>7, <1>8, <2>1, <2>2 DEF AttestKeepsUp, Unknown
<1>10. DigestKeepsUp'
  <2>1. host'.next \notin FirstDigest..(FirstData - 1)
    BY <1>2, <1>6, HostFacts
  <2>2. Len(digestChunks') = 0
    BY <1>3, <1>4
  <2> QED
    BY <1>5, <2>1, <2>2 DEF DigestKeepsUp
<1>11. Stale' \/ Starting'
  <2>1. isr = "idle"
    BY <1>1, <1>2 DEF Write
  <2>2. CASE ServesWrites
    <3>1. HandleStartUpdate(Size[host.data])
      BY <1>1, <1>2, <2>1, <2>2 DEF Write
    <3>2. isr' = "erase" /\ upd'.total = Size[host.data]
      BY <3>1, HostFacts, StartUpdateSession
    <3> QED
      BY <1>2, <1>5, <1>6, <3>2 DEF Starting
  <2>3. CASE ~ServesWrites
    <3>1. UNCHANGED vars
      BY <1>1, <1>2, <2>3 DEF Write
    <3>2. Stale
      BY <2>1, <2>3 DEF ServesWrites, Stale, SessionInv, Receiving
    <3> QED
      BY <3>1, <3>2 DEF vars, irq, Stale, Receiving, DeferredBusy
  <2> QED
    BY <2>2, <2>3
<1> QED
  BY <1>2, <1>3, <1>4, <1>8, <1>9, <1>10, <1>11 DEF CleanInv

\* Where a clean attempt stands while its frames arrive.
LEMMA CleanFacts ==
    ASSUME UpdateTypeOK, CleanInv, host.clean, br.pc = "idle", host.next <= EndFrame
    PROVE  /\ host.next >= 2
           /\ att.active /\ AttestKeepsUp /\ DigestKeepsUp
           /\ Stale \/ Starting \/ InSession
  BY DEF CleanInv

LEMMA RecordChunkClean ==
    ASSUME UpdateTypeOK, CleanInv, RecordChunk
    PROVE  CleanInv'
<1> SUFFICES ASSUME host'.clean PROVE CleanInv'
  BY DEF CleanInv
<1>1. /\ br.pc = "idle" /\ host.next \in 2..(FirstDigest - 1) /\ Passed(TRUE)
      /\ UNCHANGED <<vars, digestChunks, br, attempts, losses>>
  BY DEF RecordChunk, Arrives
<1>2. host.next <= EndFrame /\ host.next - 1 \in 1..RecordChunks /\ host.next + 1 <= FirstDigest
  BY <1>1, HostFacts
<1>3. /\ host'.data = host.data /\ host'.rec = host.rec /\ host'.next = host.next + 1
      /\ host.clean
  BY <1>1, HostFacts DEF Passed
<1>4. host.next >= 2 /\ att.active /\ AttestKeepsUp /\ DigestKeepsUp
      /\ (Stale \/ Starting \/ InSession)
  BY <1>1, <1>2, <1>3, CleanFacts
<1>5. att' = [att EXCEPT !.record[host.next - 1] = host.rec]
  BY <1>4 DEF RecordChunk
<1>6. /\ att'.active = att.active /\ att'.relayOk = att.relayOk /\ att'.size = att.size
      /\ att'.hashed = att.hashed /\ att'.floor = att.floor
      /\ att'.record = [att.record EXCEPT ![host.next - 1] = host.rec]
  BY <1>5, BridgeFacts
<1>7. /\ EndFrame' = EndFrame /\ FirstData' = FirstData /\ FirstDigest' = FirstDigest
  BY <1>3 DEF EndFrame, FirstData, FirstDigest
<1>8. host.next < FirstData /\ host'.next < FirstData /\ host'.next <= EndFrame
  BY <1>2, <1>3, HostFacts
<1>9. Sent = 0 /\ Sent' = 0
  <2>1. host.next <= FirstData /\ host'.next <= FirstData'
    BY <1>3, <1>7, <1>8, HostFacts
  <2> QED
    BY <2>1 DEF Sent
<1>10. AttestKeepsUp'
  <2>1. ASSUME NEW k \in 1..RecordChunks, k <= host'.next - 2
        PROVE  att'.record[k] = host'.rec
    <3>1. k = host.next - 1 \/ k <= host.next - 2
      BY <1>3, <2>1, HostFacts
    <3> QED
      BY <1>2, <1>3, <1>4, <1>6, <3>1, BridgeFacts DEF AttestKeepsUp
  <2>2. Filled(att.hashed, Sent)'
    BY <1>3, <1>4, <1>6, <1>9 DEF AttestKeepsUp, Filled
  <2> QED
    BY <1>3, <1>4, <1>6, <2>1, <2>2 DEF AttestKeepsUp, Unknown
<1>11. DigestKeepsUp'
  <2>1. Len(digestChunks) = 0
    BY <1>1, <1>4, HostFacts DEF DigestKeepsUp
  <2>2. host'.next \in FirstDigest..(FirstData - 1) => host'.next - FirstDigest = 0
    BY <1>2, <1>3, HostFacts
  <2> QED
    BY <1>1, <1>3, <1>7, <2>1, <2>2 DEF DigestKeepsUp
<1>12. Stale' \/ Starting' \/ InSession'
  <2>1. UNCHANGED <<upd, deferred, resetDue, isr>>
    BY <1>1 DEF vars, irq
  <2>2. Stale => Stale'
    BY <2>1 DEF Stale, Receiving, DeferredBusy
  <2>3. Starting => Starting'
    BY <1>3, <1>7, <1>8, <2>1 DEF Starting
  <2>4. InSession => InSession'
    BY <1>3, <1>7, <1>8, <1>9, <2>1
    DEF InSession, Accepting, Receiving, DeferredBusy, Filled
  <2> QED
    BY <1>4, <2>2, <2>3, <2>4
<1>13. br'.pc = "idle" /\ host'.next >= 2
  BY <1>1, <1>3, HostFacts
<1> QED
  BY <1>4, <1>6, <1>10, <1>11, <1>12, <1>13 DEF CleanInv

\* Nothing changes in a slave that takes nothing.
LEMMA SessionUntouched ==
    ASSUME UNCHANGED vars
    PROVE  /\ UNCHANGED <<upd, deferred, resetDue, isr, pc>>
           /\ Stale' = Stale /\ Accepting' = Accepting
  BY DEF vars, irq, thread, Stale, Accepting, Receiving, DeferredBusy

LEMMA DigestChunkClean ==
    ASSUME IInv, UpdateTypeOK, SessionInv, CleanInv, DigestChunk
    PROVE  CleanInv'
<1> SUFFICES ASSUME host'.clean PROVE CleanInv'
  BY DEF CleanInv
<1> DEFINE chunk  == <<host.data, host.next - FirstDigest + 1>>
           chunks == Append(digestChunks, chunk)
<1>1. /\ br.pc = "idle" /\ host.next \in FirstDigest..(FirstData - 1)
      /\ UNCHANGED <<att, br, attempts>>
  BY DEF DigestChunk, Arrives
<1>2. host.next <= EndFrame /\ host.next < FirstData /\ host.next >= FirstDigest
  BY <1>1, HostFacts
<1>3. PICK ok \in BOOLEAN :
         /\ Passed(ok)
         /\ \/ digestChunks' = chunks /\ Len(chunks) < DigestChunks /\ ok /\ UNCHANGED vars
            \/ /\ digestChunks' = <<>> /\ ~(Len(chunks) < DigestChunks)
               /\ Write(ServesWrites /\ Receiving,
                        HandleDigestExpected(DigestOf(chunks)), ok)
  BY DEF DigestChunk
<1>4. /\ host'.data = host.data /\ host'.rec = host.rec /\ host'.next = host.next + 1
      /\ host.clean /\ ok
  BY <1>2, <1>3, PassedFacts
<1>5. host.next >= 2 /\ att.active /\ AttestKeepsUp /\ DigestKeepsUp
      /\ (Stale \/ Starting \/ InSession)
  BY <1>1, <1>2, <1>4, CleanFacts
<1>6. /\ EndFrame' = EndFrame /\ FirstData' = FirstData /\ FirstDigest' = FirstDigest
  BY <1>4 DEF EndFrame, FirstData, FirstDigest
<1>7. /\ Len(digestChunks) = host.next - FirstDigest
      /\ \A k \in 1..Len(digestChunks) : digestChunks[k] = <<host.data, k>>
  BY <1>1, <1>5 DEF DigestKeepsUp
<1>8. /\ chunks \in Seq(Image \X Nat) /\ Len(chunks) = Len(digestChunks) + 1
      /\ \A k \in 1..Len(chunks) : chunks[k] = <<host.data, k>>
  <2>1. chunk \in Image \X Nat
    BY <1>2, HostFacts
  <2> HIDE DEF chunk
  <2>2. /\ chunks \in Seq(Image \X Nat) /\ Len(chunks) = Len(digestChunks) + 1
        /\ chunks[Len(digestChunks) + 1] = chunk
        /\ \A k \in 1..Len(digestChunks) : chunks[k] = digestChunks[k]
    BY <2>1, BridgeFacts
  <2>3. chunk = <<host.data, Len(digestChunks) + 1>>
    BY <1>7 DEF chunk
  <2>4. Len(digestChunks) \in Nat
    BY BridgeFacts
  <2> HIDE DEF chunks
  <2>5. ASSUME NEW k \in 1..Len(chunks) PROVE chunks[k] = <<host.data, k>>
    <3>1. k = Len(digestChunks) + 1 \/ k \in 1..Len(digestChunks)
      BY <2>2, <2>4
    <3> QED
      BY <1>7, <2>2, <2>3, <3>1
  <2> QED
    BY <2>2, <2>5
<1> HIDE DEF chunks, chunk
<1>9. Len(chunks) = host.next - FirstDigest + 1
  <2>1. Len(digestChunks) = host.next - FirstDigest /\ Len(chunks) = Len(digestChunks) + 1
    BY <1>7, <1>8
  <2> QED
    BY <2>1
<1>10. host'.next <= FirstData /\ host'.next <= EndFrame /\ host'.next >= 2
  BY <1>2, <1>4, <1>5, HostFacts
<1>11. Sent = 0 /\ Sent' = 0
  <2>1. host.next <= FirstData /\ host'.next <= FirstData'
    BY <1>2, <1>6, <1>10, HostFacts
  <2> QED
    BY <2>1 DEF Sent
<1>12. AttestKeepsUp'
  <2>1. \A k \in 1..RecordChunks : k <= host.next - 2
    BY <1>2, HostFacts
  <2>2. Filled(att.hashed, Sent)'
    BY <1>1, <1>4, <1>5, <1>11 DEF AttestKeepsUp, Filled
  <2> QED
    BY <1>1, <1>4, <1>5, <2>1, <2>2 DEF AttestKeepsUp, Unknown
<1>13. Starting => ~(isr = "idle")
  BY DEF Starting
<1>14. CASE Len(chunks) < DigestChunks
  <2>1. digestChunks' = chunks /\ UNCHANGED vars
    BY <1>3, <1>14
  <2>2. host'.next < FirstData
    BY <1>4, <1>14, <1>9, HostFacts
  <2>3. DigestKeepsUp'
    <3>1. host'.next \in FirstDigest..(FirstData - 1)
      BY <1>2, <1>4, <2>2, HostFacts
    <3>2. Len(chunks) = host'.next - FirstDigest
      BY <1>4, <1>9, HostFacts
    <3> QED
      BY <1>4, <1>6, <1>8, <2>1, <3>1, <3>2 DEF DigestKeepsUp
  <2>4. Stale' \/ Starting' \/ InSession'
    <3>1. UNCHANGED <<upd, isr>> /\ Stale' = Stale /\ Accepting' = Accepting
      BY <2>1, SessionUntouched
    <3>2. Starting => Starting'
      BY <1>4, <1>6, <2>2, <3>1 DEF Starting
    <3>3. InSession => InSession'
      BY <1>2, <1>4, <1>6, <1>11, <2>2, <3>1 DEF InSession, Filled
    <3> QED
      BY <1>5, <3>1, <3>2, <3>3
  <2> QED
    BY <1>1, <1>5, <1>10, <1>12, <2>3, <2>4 DEF CleanInv
<1>15. CASE ~(Len(chunks) < DigestChunks)
  <2>1. /\ digestChunks' = <<>>
        /\ Write(ServesWrites /\ Receiving, HandleDigestExpected(DigestOf(chunks)), ok)
    BY <1>3, <1>15
  <2>2. Len(chunks) = DigestChunks
    BY <1>2, <1>15, <1>9, HostFacts
  <2>3. host'.next = FirstData
    BY <1>4, <1>9, <2>2, HostFacts
  <2>4. DigestKeepsUp'
    <3>1. host'.next \notin FirstDigest..(FirstData - 1)
      BY <2>3, HostFacts
    <3> QED
      BY <1>6, <2>1, <3>1 DEF DigestKeepsUp
  <2>5. isr = "idle"
    BY <1>4, <2>1 DEF Write
  <2>6. CASE Stale
    <3>1. UNCHANGED vars
      BY <1>4, <2>1, <2>6, StaleRefuses DEF Write
    <3> QED
      BY <1>1, <1>5, <1>10, <1>12, <2>4, <2>6, <3>1, SessionUntouched DEF CleanInv
  <2>7. CASE InSession
    <3>1. ServesWrites /\ Receiving
      BY <2>5, <2>7, SessionServes DEF InSession
    <3>2. HandleDigestExpected(DigestOf(chunks))
      BY <1>4, <2>1, <2>5, <3>1 DEF Write
    <3>3. DigestOf(chunks) = ImageDigest(host.data) /\ DigestOf(chunks) \in Digests
      <4>1. host.data \in Image
        BY HostFacts
      <4> QED
        BY <1>8, <2>2, <4>1, DigestFacts
    <3>4. Accepting' /\ upd'.total = upd.total
      BY <3>2, <3>3, TransferSession DEF Accepting
    <3>5. upd'.stream = upd.stream /\ upd'.digest = ImageDigest(host.data)
      BY <3>2, <3>3, SessionFacts DEF HandleDigestExpected, Session
    <3>6. ~(host'.next < FirstData)
      BY <2>3, HostFacts
    <3>7. InSession'
      BY <1>4, <1>6, <1>11, <2>7, <3>4, <3>5, <3>6 DEF InSession, Filled, ImageDigest
    <3> QED
      BY <1>1, <1>5, <1>10, <1>12, <2>4, <3>7 DEF CleanInv
  <2> QED
    BY <1>5, <1>13, <2>5, <2>6, <2>7
<1> QED
  BY <1>14, <1>15

LEMMA DataClean ==
    ASSUME IInv, UpdateTypeOK, SessionInv, CleanInv, Data
    PROVE  CleanInv'
<1> SUFFICES ASSUME host'.clean PROVE CleanInv'
  BY DEF CleanInv
<1>1. /\ br.pc = "idle" /\ host.next \in FirstData..(EndFrame - 1)
      /\ UNCHANGED <<digestChunks, br, attempts>>
  BY DEF Data, Arrives
<1>2. /\ host.next <= EndFrame /\ host.next >= FirstData /\ host.next < EndFrame
      /\ host.next \in FirstData..EndFrame
  BY <1>1, HostFacts
<1>3. PICK ok \in BOOLEAN :
         /\ Write(ServesWrites /\ Receiving, HandleData(host.data), ok)
         /\ att' = Hashed(ok) /\ Passed(ok)
  BY DEF Data
<1>4. /\ host'.data = host.data /\ host'.rec = host.rec /\ host'.next = host.next + 1
      /\ host.clean /\ ok
  BY <1>2, <1>3, PassedFacts
<1>5. host.next >= 2 /\ att.active /\ AttestKeepsUp /\ DigestKeepsUp
      /\ (Stale \/ Starting \/ InSession)
  BY <1>1, <1>2, <1>4, CleanFacts
<1>6. /\ EndFrame' = EndFrame /\ FirstData' = FirstData /\ FirstDigest' = FirstDigest
  BY <1>4 DEF EndFrame, FirstData, FirstDigest
<1>7. host'.next <= EndFrame /\ host'.next >= 2 /\ ~(host'.next <= FirstData)
      /\ ~(host'.next < FirstData) /\ host'.next - FirstData = host.next - FirstData + 1
  BY <1>2, <1>4, <1>5, HostFacts
<1>8. Sent = host.next - FirstData /\ Sent \in Nat /\ Sent < Size[host.data]
      /\ Sent' = Sent + 1
  <2>1. Sent = host.next - FirstData
    BY <1>2, SentFacts
  <2>2. Sent' = host'.next - FirstData
    BY <1>6, <1>7 DEF Sent
  <2> QED
    BY <1>2, <1>7, <2>1, <2>2, HostFacts
<1>9. AttestKeepsUp'
  <2>1. /\ att'.relayOk = (att.relayOk /\ ok)
        /\ att'.size = att.size /\ att'.record = att.record /\ att'.floor = att.floor
        /\ att'.hashed = IF Len(att.hashed) < att.size
                           THEN Append(att.hashed, host.data) ELSE att.hashed
    BY <1>3, <1>5, HashedFacts
  <2>2. Filled(att.hashed, Sent) /\ Len(att.hashed) < att.size /\ att.relayOk
    <3>1. Filled(att.hashed, Sent) /\ att.size = Size[host.data] /\ att.relayOk
      BY <1>5 DEF AttestKeepsUp
    <3> QED
      BY <1>8, <3>1 DEF Filled
  <2>3. Filled(Append(att.hashed, host.data), Sent + 1)
    BY <1>8, <2>2, BridgeFacts, HostFacts, FilledOn
  <2>4. att'.hashed = Append(att.hashed, host.data)
    BY <2>1, <2>2
  <2>5. Filled(att.hashed, Sent)'
    BY <1>4, <1>8, <2>3, <2>4 DEF Filled
  <2>6. \A k \in 1..RecordChunks : k <= host.next - 2
    BY <1>2, HostFacts
  <2> QED
    BY <1>4, <1>5, <2>1, <2>2, <2>5, <2>6 DEF AttestKeepsUp, Unknown
<1>10. DigestKeepsUp'
  <2>1. /\ host.next \notin FirstDigest..(FirstData - 1)
        /\ host'.next \notin FirstDigest..(FirstData - 1)
    BY <1>2, <1>7, HostFacts
  <2>2. Len(digestChunks) = 0
    BY <1>5, <2>1 DEF DigestKeepsUp
  <2> QED
    BY <1>1, <1>6, <2>1, <2>2 DEF DigestKeepsUp
<1>11. att'.active /\ br'.pc = "idle"
  BY <1>1, <1>3, <1>5, HashedFacts
<1>12. isr = "idle"
  BY <1>3, <1>4 DEF Write
<1>13. CASE Stale
  <2>1. UNCHANGED vars
    BY <1>3, <1>4, <1>13, StaleRefuses DEF Write
  <2> QED
    BY <1>7, <1>9, <1>10, <1>11, <1>13, <2>1, SessionUntouched DEF CleanInv
<1>14. CASE InSession
  <2>1. ServesWrites /\ Receiving
    BY <1>12, <1>14, SessionServes DEF InSession
  <2>2. HandleData(host.data)
    BY <1>3, <1>4, <1>12, <2>1 DEF Write
  <2>3. host.data \in FrameCells /\ host.data \in Image \cup {Noise} /\ upd \in Session
    BY HostFacts, BridgeAssumption, SessionFacts
  <2>4. Accepting' /\ upd'.total = upd.total
    BY <2>2, <2>3, TransferSession DEF Accepting
  <2>5. upd.stream \in Seq(Image \cup {Noise}) /\ Filled(upd.stream, Sent)
        /\ upd.total = Size[host.data] /\ upd.digest = ImageDigest(host.data)
    BY <1>2, <1>14, <2>3, HostFacts DEF Session, InSession
  <2>6. HasRoom(upd)
    BY <1>8, <2>5 DEF HasRoom, Received, Filled
  <2>7. upd'.stream = Append(upd.stream, host.data) /\ upd'.digest = upd.digest
    BY <2>2, <2>3, <2>6 DEF HandleData, Session
  <2>8. Filled(Append(upd.stream, host.data), Sent + 1)
    BY <1>8, <2>3, <2>5, FilledOn
  <2>9. InSession'
    <3>1. Filled(upd.stream, Sent)'
      BY <1>4, <1>8, <2>7, <2>8 DEF Filled
    <3> QED
      BY <1>4, <1>6, <1>7, <2>4, <2>5, <2>7, <3>1 DEF InSession, ImageDigest
  <2> QED
    BY <1>7, <1>9, <1>10, <1>11, <2>9 DEF CleanInv
<1>15. ~Starting
  BY <1>12 DEF Starting
<1> QED
  BY <1>5, <1>13, <1>14, <1>15

\* Of an attempt that kept up until its END the master verifies the record.
LEMMA EligibleVerifies ==
    ASSUME UpdateTypeOK, att.active, AttestKeepsUp, host.next = EndFrame,
           host.data = host.rec, host.data \in Signed, RollbackCounter[host.data] >= att.floor,
           NEW v, HeaderVersion(v) = Version[host.data]
    PROVE  Verify(ImageDigest(host.data), v)
<1>1. host.next >= EndFrame /\ \A k \in 1..RecordChunks : k <= host.next - 2
  BY HostFacts
<1>2. /\ att.relayOk /\ att.size = Size[host.data] /\ att.floor # Unknown
      /\ \A k \in 1..RecordChunks : att.record[k] = host.rec
      /\ Filled(att.hashed, Size[host.data])
  BY <1>1, SentFacts DEF AttestKeepsUp
<1>3. att.hashed = ImageDigest(host.data)
  BY <1>2, BridgeFacts, FilledImage
<1>4. Len(att.hashed) = att.size
  BY <1>2 DEF Filled
<1>5. host.rec # NoChunk
  BY HostFacts, ImageAssumption
<1> QED
  BY <1>2, <1>3, <1>4, <1>5 DEF Verify, Authentic

LEMMA EndArrivesClean ==
    ASSUME UpdateTypeOK, CleanInv, EndArrives
    PROVE  CleanInv'
<1> SUFFICES ASSUME host'.clean PROVE CleanInv'
  BY DEF CleanInv
<1>1. /\ br.pc = "idle" /\ host.next = EndFrame /\ Passed(TRUE)
      /\ att' = [att EXCEPT !.active = FALSE] /\ UNCHANGED vars
  BY DEF EndArrives, Arrives
<1>2. host.next <= EndFrame /\ host.next >= EndFrame /\ ~(host.next < FirstData)
  BY <1>1, HostFacts
<1>3. /\ host'.data = host.data /\ host'.rec = host.rec /\ host'.next = host.next + 1
      /\ host.clean
  BY <1>1, <1>2, PassedFacts
<1>4. att.active /\ AttestKeepsUp /\ (Stale \/ Starting \/ InSession)
  BY <1>1, <1>2, <1>3, CleanFacts
<1>5. /\ EndFrame' = EndFrame /\ FirstData' = FirstData /\ FirstDigest' = FirstDigest
  BY <1>3 DEF EndFrame, FirstData, FirstDigest
<1>6. /\ att'.relayOk = att.relayOk /\ att'.size = att.size /\ att'.hashed = att.hashed
      /\ att'.record = att.record /\ att'.floor = att.floor
  BY <1>1, BridgeFacts
<1>7. Sent = Size[host.data] /\ Sent' = Sent
  <2>1. ~(host'.next <= FirstData) /\ ~(host'.next <= EndFrame)
    BY <1>2, <1>3, HostFacts
  <2>2. Sent' = Size[host.data]
    BY <1>3, <1>5, <2>1 DEF Sent
  <2> QED
    BY <1>2, <2>2, SentFacts
<1>8. AttestKeepsUp'
  <2>1. \A k \in 1..RecordChunks : k <= host.next - 2
    BY <1>2, HostFacts
  <2>2. Filled(att.hashed, Sent)'
    BY <1>3, <1>4, <1>6, <1>7 DEF AttestKeepsUp, Filled
  <2> QED
    BY <1>3, <1>4, <1>6, <2>1, <2>2 DEF AttestKeepsUp, Unknown
<1>9. Stale' \/ InSession'
  <2>1. UNCHANGED <<upd, isr>> /\ Stale' = Stale /\ Accepting' = Accepting
    BY <1>1, SessionUntouched
  <2>2. InSession => InSession'
    <3>1. ~(host'.next < FirstData)
      BY <1>2, <1>3, HostFacts
    <3> QED
      BY <1>2, <1>3, <1>5, <1>7, <2>1, <3>1 DEF InSession, Filled, ImageDigest
  <2> QED
    BY <1>2, <1>4, <2>1, <2>2 DEF Starting
<1>10. PICK v \in Declared(host.rec) :
         br' = [br EXCEPT !.pc = IF Verify(ImageDigest(host.data), v) THEN "counter" ELSE "end",
                          !.vouched = Verify(ImageDigest(host.data), v), !.version = v]
  BY DEF EndArrives
<1> DEFINE vouched == Verify(ImageDigest(host.data), v)
<1>11. br'.pc = (IF vouched THEN "counter" ELSE "end") /\ br'.version = v
  <2> HIDE DEF vouched
  <2>1. br' = [br EXCEPT !.pc = IF vouched THEN "counter" ELSE "end",
                         !.vouched = vouched, !.version = v]
    BY <1>10 DEF vouched
  <2> QED
    BY <2>1, BridgeFacts
<1>12. Eligible' => vouched
  <2>1. SUFFICES ASSUME Eligible' PROVE vouched
    OBVIOUS
  <2>2. /\ host.data = host.rec /\ host.data \in Signed /\ HeaderVersion(v) = Version[host.data]
        /\ RollbackCounter[host.data] >= att.floor
    BY <1>3, <1>6, <1>11, <2>1 DEF Eligible, HeaderVersion
  <2> QED
    BY <1>1, <1>4, <2>2, EligibleVerifies
<1> HIDE DEF vouched
<1> QED
  BY <1>8, <1>9, <1>11, <1>12 DEF CleanInv

LEMMA RelayCounterClean ==
    ASSUME IInv, UpdateTypeOK, SessionInv, BridgeInv, CleanInv, RelayCounter
    PROVE  CleanInv'
<1> SUFFICES ASSUME host'.clean PROVE CleanInv'
  BY DEF CleanInv
<1>1. PICK ok \in BOOLEAN :
         /\ Write(ServesWrites /\ Receiving, HandleRecordCounter(Counter), ok)
         /\ br' = [br EXCEPT !.pc = "end", !.vouched = ok]
         /\ host' = [host EXCEPT !.clean = host.clean /\ ok]
  BY DEF RelayCounter
<1>2. br.pc = "counter" /\ br.vouched /\ host.next = EndFrame + 1 /\ UNCHANGED att
  BY DEF RelayCounter, BridgeInv
<1>3. /\ host'.data = host.data /\ host'.rec = host.rec /\ host'.next = host.next
      /\ host.clean /\ ok
  BY <1>1, HostFacts
<1>4. br'.pc = "end" /\ br'.vouched
  BY <1>1, <1>3, BridgeFacts
<1>5. AttestKeepsUp /\ (Stale \/ InSession)
  BY <1>2, <1>3 DEF CleanInv
<1>6. /\ EndFrame' = EndFrame /\ FirstData' = FirstData /\ Sent' = Sent
  BY <1>3 DEF EndFrame, FirstData, FirstDigest, Sent
<1>7. isr = "idle"
  BY <1>1, <1>3 DEF Write
<1>8. CASE Stale
  <2>1. UNCHANGED vars
    BY <1>1, <1>3, <1>8, StaleRefuses DEF Write
  <2> QED
    BY <1>4, <1>8, <2>1, SessionUntouched DEF CleanInv
<1>9. CASE InSession
  <2>1. ServesWrites /\ Receiving
    BY <1>7, <1>9, SessionServes DEF InSession
  <2>2. HandleRecordCounter(Counter)
    BY <1>1, <1>3, <1>7, <2>1 DEF Write
  <2>3. Counter = RollbackCounter[host.rec] /\ Counter \in Nat
    <3>1. 1 \in 1..RecordChunks /\ 1 <= host.next - 2
      BY <1>2, HostFacts
    <3>2. att.record[1] = host.rec
      BY <1>5, <3>1 DEF AttestKeepsUp
    <3> QED
      BY <3>2, HostFacts, ImageTypes DEF Counter
  <2>4. Accepting' /\ upd'.total = upd.total
    BY <2>2, <2>3, TransferSession DEF Accepting
  <2>5. upd'.stream = upd.stream /\ upd'.digest = upd.digest /\ upd'.counter = Counter
    BY <2>2, SessionFacts DEF HandleRecordCounter, Session
  <2>6. InSession'
    BY <1>3, <1>6, <1>9, <2>4, <2>5 DEF InSession, Filled, ImageDigest
  <2>7. Eligible' => upd'.counter = RollbackCounter[host'.data]
    BY <1>3, <2>3, <2>5 DEF Eligible
  <2> QED
    BY <1>4, <2>6, <2>7 DEF CleanInv
<1> QED
  BY <1>5, <1>8, <1>9

\* After its END nothing more is asked of an attempt.
LEMMA OverClean ==
    ASSUME UpdateTypeOK, BridgeInv, br.pc \in {"end", "poll", "delay", "nonce", "tag"},
           host' = host, br'.pc \in {"idle", "poll", "delay", "nonce", "tag"}
    PROVE  CleanInv'
<1>1. host.next = EndFrame + 1 /\ EndFrame' = EndFrame
  BY DEF BridgeInv, EndFrame, FirstData, FirstDigest
<1>2. ~(host'.next <= EndFrame')
  BY <1>1, HostFacts
<1> QED
  BY <1>2 DEF CleanInv

LEMMA ConfirmClean ==
    ASSUME UpdateTypeOK, BridgeInv,
           RelayEnd \/ Poll \/ Delay \/ GiveUp \/ ReadNonce \/ WriteConfirm
    PROVE  CleanInv'
<1>1. br.pc \in {"end", "poll", "delay", "nonce", "tag"} /\ host' = host
  BY DEF RelayEnd, Poll, Delay, GiveUp, ReadNonce, WriteConfirm
<1>2. \/ br' = Idle
      \/ br'.pc \in {"poll", "delay", "nonce", "tag"}
  <2>1. \/ br' = Idle \/ br' = [br EXCEPT !.pc = "poll"]
        \/ br' = [br EXCEPT !.pc = "poll", !.tries = @ + 1]
        \/ br' = [br EXCEPT !.pc = "nonce"] \/ br' = [br EXCEPT !.pc = "delay"]
        \/ br' = [br EXCEPT !.pc = "tag", !.nonce = upd.nonce]
        \/ br' = [br EXCEPT !.pc = "tag"]
    BY DEF RelayEnd, Poll, Delay, GiveUp, ReadNonce, WriteConfirm, Return
  <2> QED
    BY <2>1, BridgeFacts
<1> QED
  BY <1>1, <1>2, IdleFacts, OverClean

\* What is lost, repeated or restarted is not clean.
LEMMA BusClean ==
    ASSUME UpdateTypeOK, LoseFrame \/ RepeatFrame \/ MasterReset \/ WatchdogReset
    PROVE  CleanInv'
<1>1. ~host'.clean
  BY HostFacts DEF LoseFrame, RepeatFrame, MasterReset, WatchdogReset, RestartMaster, Passed
<1> QED
  BY <1>1 DEF CleanInv

LEMMA CleanNext ==
    ASSUME IInv, UpdateTypeOK, SessionInv, BridgeInv, CleanInv, UpdateNext
    PROVE  CleanInv'
<1>1. CASE BridgeStep
  <2>1. CASE \E t \in Attempts : StartFrame(t[1], t[2])
    <3>1. PICK t \in Attempts : StartFrame(t[1], t[2])
      BY <2>1
    <3>2. t[1] \in Image /\ t[2] \in Image
      BY BridgeAssumption
    <3> QED
      BY <3>1, <3>2, StartFrameClean
  <2> QED
    BY <1>1, <2>1, StartRelayClean, RecordChunkClean, DigestChunkClean, DataClean,
       EndArrivesClean, RelayCounterClean, ConfirmClean DEF BridgeStep
<1>2. CASE LoseFrame \/ RepeatFrame \/ MasterReset \/ WatchdogReset
  BY <1>2, BusClean
<1>3. CASE SlaveStep
  BY <1>3, SlaveStepMoves, SlaveStepClean DEF SlaveStep
<1> QED
  BY <1>1, <1>2, <1>3 DEF UpdateNext

-----------------------------------------------------------------------------
(* The invariant of the update from end to end *)

LEMMA UpdateInitInv ==
    ASSUME UpdateInit
    PROVE  UpdateInv
<1>1. IInv
  BY InitInv DEF UpdateInit
<1>2. /\ host.data \in Image /\ host.rec \in Image /\ host.next = 0 /\ host.clean = FALSE
      /\ host \in [data : Image, rec : Image, next : Nat, clean : BOOLEAN]
  <2>1. (CHOOSE i \in Image : TRUE) \in Image
    BY BridgeAssumption
  <2> QED
    BY <2>1 DEF UpdateInit
<1>3. UpdateTypeOK
  <2>1. Size[host.data] \in Nat /\ RecordChunks \in Nat /\ DigestChunks \in Nat
    BY <1>2, SlotSize, ImageAssumption, BridgeAssumption DEF Cells
  <2>2. host.next <= EndFrame + 1
    BY <1>2, <2>1 DEF EndFrame, FirstData, FirstDigest
  <2>3. Len(<<>>) < DigestChunks /\ <<>> \in Seq(Image \X Nat)
    BY BridgeAssumption
  <2>4. 0 \in 0..MaxAttempts /\ 0 \in 0..MaxLosses
    BY BridgeAssumption
  <2> QED
    BY <1>2, <2>2, <2>3, <2>4, IdleFacts DEF UpdateInit, UpdateTypeOK
<1>4. SessionInv
  BY DEF UpdateInit, Init, SessionInv, NoSession, NoOp, Confirming, Receiving
<1>5. BridgeInv
  BY IdleFacts DEF UpdateInit, BridgeInv
<1>6. CleanInv
  BY <1>2 DEF CleanInv
<1> QED
  BY <1>1, <1>3, <1>4, <1>5, <1>6 DEF UpdateInv

\* Preservation and refinement go together: that a step is one of SlaveBoot
\* follows from what the bridge knows, and IInv is preserved because it is.
LEMMA UpdateNextInv ==
    UpdateInv /\ [UpdateNext]_<<vars, updVars>> => UpdateInv' /\ [Next]_vars
<1> SUFFICES ASSUME UpdateInv, [UpdateNext]_<<vars, updVars>>
             PROVE  UpdateInv' /\ [Next]_vars
  OBVIOUS
<1>1. IInv /\ UpdateTypeOK /\ SessionInv /\ BridgeInv /\ CleanInv
  BY DEF UpdateInv
<1>2. CASE UpdateNext
  <2>1. [Next]_vars
    BY <1>1, <1>2, StepIsPromised
  <2>2. IInv'
    BY <1>1, <2>1, NextInv
  <2>3. UpdateTypeOK' /\ BridgeInv'
    BY <1>1, <1>2, MasterStepInv
  <2>4. SessionInv'
    BY <1>1, <1>2, SlaveStepMoves, MasterStepPromised, SessionNext DEF UpdateNext
  <2>5. CleanInv'
    BY <1>1, <1>2, CleanNext
  <2> QED
    BY <2>1, <2>2, <2>3, <2>4, <2>5 DEF UpdateInv
<1>3. CASE UNCHANGED <<vars, updVars>>
  <2>1. UNCHANGED vars /\ UNCHANGED updVars
    BY <1>3
  <2>2. IInv'
    BY <1>1, <2>1, NextInv
  <2>3. SessionInv'
    BY <1>1, <2>1, SessionNext DEF Promised
  <2>4. SlaveMoves
    BY <1>1, <2>1, SessionUntouched
    DEF SlaveMoves, vars, irq, thread, master, NoneAwaited, Confirming
  <2>5. UpdateTypeOK' /\ BridgeInv' /\ CleanInv'
    BY <1>1, <2>1, <2>4, SlaveStepInv, SlaveStepClean
  <2> QED
    BY <2>1, <2>2, <2>3, <2>5 DEF UpdateInv
<1> QED
  BY <1>2, <1>3

\* The invariant of the update from end to end holds in every state that the
\* host, the bus, the bridge and the slave reach together.
THEOREM UpdateInvariance == UpdateSpec => []UpdateInv
<1>1. UpdateInit => UpdateInv
  BY UpdateInitInv
<1> QED
  BY <1>1, UpdateNextInv, PTL DEF UpdateSpec

\* The bridge writes to the slave only what the specification of the slave
\* assumes of it: every behaviour of the update is one of SlaveBoot, whatever
\* the bus loses or repeats, so all that is proved of SlaveBoot holds under it.
THEOREM PromiseKept == UpdateSpec => BridgeKeepsPromise
<1>1. UpdateInit => Init /\ UpdateInv
  BY UpdateInitInv DEF UpdateInit
<1> QED
  BY <1>1, UpdateNextInv, PTL DEF UpdateSpec, Spec, BridgeKeepsPromise

\* With it, whatever the host, the bus and the link do: the records of the
\* slave are of images the master verified, and its application is the one
\* its newest record describes.
THEOREM UpdatesAreVouched == UpdateSpec => [](RecordsAreVouched /\ RunsWhatIsRecorded)
<1>1. Spec => []RecordsAreVouched
  BY Vouching
<1>2. Spec => []RunsWhatIsRecorded
  BY StartsWhatIsRecorded
<1> QED
  BY <1>1, <1>2, PromiseKept, PTL DEF BridgeKeepsPromise

\* Handle_CAN_SlaveBridge vouches at its END for an attempt on which nothing
\* was lost, and a session that is still open holds the whole image, its
\* digest and its counter.
THEOREM CleanAttempts == UpdateSpec => []CleanAttemptArrivesWhole
<1>1. UpdateInv => CleanAttemptArrivesWhole
  <2> SUFFICES ASSUME UpdateInv, br.pc = "end", host.clean, Eligible
               PROVE  /\ br.vouched
                      /\ ServesWrites /\ Receiving =>
                            /\ upd.stream = ImageDigest(host.data)
                            /\ upd.digest = ImageDigest(host.data)
                            /\ upd.counter = RollbackCounter[host.data]
    BY DEF CleanAttemptArrivesWhole, Eligible
  <2>1. /\ br.vouched
        /\ Stale \/ (InSession /\ upd.counter = RollbackCounter[host.data])
    BY DEF UpdateInv, CleanInv
  <2>2. ASSUME ServesWrites, Receiving
        PROVE  /\ upd.stream = ImageDigest(host.data)
               /\ upd.digest = ImageDigest(host.data)
               /\ upd.counter = RollbackCounter[host.data]
    <3>1. InSession /\ upd.counter = RollbackCounter[host.data]
      BY <2>1, <2>2, StaleRefuses
    <3>2. UpdateTypeOK /\ IInv /\ host.next = EndFrame + 1
      BY DEF UpdateInv, BridgeInv
    <3>3. host.next >= EndFrame /\ ~(host.next < FirstData)
      BY <3>2, HostFacts
    <3>4. /\ upd.digest = ImageDigest(host.data)
          /\ Filled(upd.stream, Size[host.data])
      BY <3>1, <3>2, <3>3, SentFacts DEF InSession
    <3>5. upd.stream \in Seq(Image \cup {Noise})
      BY <3>2, SessionFacts DEF Session
    <3> QED
      BY <3>1, <3>2, <3>4, <3>5, FilledImage
  <2> QED
    BY <2>1, <2>2
<1> QED
  BY <1>1, UpdateInvariance, PTL
=============================================================================
