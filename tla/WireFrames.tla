---------------------------- MODULE WireFrames -----------------------------
(* What a message is cut into, and put together from: the version fields,   *)
(* the answers of the slave bridge, the writes on the link bus, the         *)
(* readback of the installed image; and the bit timing of the CAN.          *)
EXTENDS Integers, Sequences, SequencesExt

CONSTANTS
    StaleAfter,                         \* Age at which a half write is dropped
    PageSize, AppMaxSize, ThisHardware  \* Of the readback

-----------------------------------------------------------------------------
(* The optional patch number in the version fields (urtc_version_wire.h):   *)
(* packed into the high byte of the minor field on the bus, and added after *)
(* the answers that older boards already give.                              *)

URTC_PATCH_MAX == 127
URTC_PATCH_UNKNOWN == 255
URTC_PATCH_FLAG == 128
MARKER == 225       \* what the extension of a slave's answer starts with

MinorPack(minor, patch) ==
    IF patch > URTC_PATCH_MAX THEN minor ELSE (URTC_PATCH_FLAG + patch) * 256 + minor
MinorOf(field) == field % 256
PatchOf(field) ==
    LET hi == (field \div 256) % 256
    IN  IF hi >= URTC_PATCH_FLAG THEN hi - URTC_PATCH_FLAG ELSE URTC_PATCH_UNKNOWN

PatchFrame(side, patch, flags) == <<side, patch, flags>>
SlaveExtension(patch, bootMinor, bootPatch) == <<MARKER, patch, bootMinor, bootPatch>>

(* The tenth byte of the slave's version: 0 is "not sent". *)
SlavePatch(byte) == IF byte \in 1..URTC_PATCH_MAX THEN byte ELSE URTC_PATCH_UNKNOWN

(* 0x218: two bytes as ever, or five with an extension that is one. *)
VersionPart2(legacy, ext) ==
    IF ext = <<>> \/ Head(ext) # MARKER THEN legacy ELSE legacy \o Tail(ext)

(* ------------------------------------- the answers of the slave bridge *)
(* A failed transaction is answered by silence, never by a made-up byte.    *)
StatusAnswer(read, byte) == IF read THEN <<<<byte>>>> ELSE <<>>

(* 0x217 and 0x218: the ten bytes of the bootloader, then the extension,    *)
(* whose first byte is read on its own before the rest is trusted.          *)
VersionAnswer(read, version, marker, ext) ==
    IF ~read THEN <<>>
    ELSE <<SubSeq(version, 1, 8),
           VersionPart2(SubSeq(version, 9, 10),
                        IF marker = MARKER /\ ext # <<>> THEN ext ELSE <<>>)>>

ReadAllowed(rules, reg, len) == len # 0 /\ \E r \in rules : r.reg = reg /\ len <= r.len
(* 0x221: the answer holds eight bytes; those of a version that do not fit  *)
(* travel in 0x222, when the slave has a patch to tell.                     *)
RegisterAnswer(rules, reg, len, read, bytes, isVersion) ==
    LET shown == IF len > 8 THEN 8 ELSE len
        first == SubSeq(bytes, 1, shown)
    IN  CASE ~ReadAllowed(rules, reg, len) \/ ~read -> <<>>
          [] isVersion /\ SlavePatch(bytes[10]) # URTC_PATCH_UNKNOWN ->
                <<first, <<reg, SlavePatch(bytes[10]), bytes[9]>>>>
          [] OTHER -> <<first>>

-----------------------------------------------------------------------------
(* The reassembly of register writes on the link bus                        *)
(* (slave_write_assembler.h).  A write is its register and its payload, and *)
(* may arrive in pieces; a piece is the sequence of its bytes.  Off by      *)
(* default in the build.                                                    *)

SWA_BUFFER_SIZE == 8

(* swa_expected_len: the whole write of a register, 0 for one that varies. *)
ExpectedLen(reg) ==
    CASE reg = "bootloader" -> 5
      [] reg = "ads"        -> 3
      [] reg \in {"configure", "pulse"} -> 4
      [] reg = "stop"       -> 2
      [] OTHER              -> 0

Empty == [held |-> <<>>, at |-> 0, stale |-> 0, overflow |-> 0, done |-> <<>>]

Stale(a, now) == a.held # <<>> /\ now - a.at > StaleAfter
(* swa_expire, which the main loop may also call. *)
Expire(a, now) == IF Stale(a, now) THEN [a EXCEPT !.held = <<>>, !.stale = @ + 1] ELSE a

Dropped(a)       == [a EXCEPT !.held = <<>>, !.overflow = @ + 1]
Completed(a, w)  == [a EXCEPT !.held = <<>>, !.done = Append(@, w)]

(* swa_feed *)
Feed(a, piece, now) ==
    LET fresh == Expire(a, now)
        write == fresh.held \o piece
        want  == ExpectedLen(Head(write))
    IN  CASE piece = <<>> -> a
          [] Len(write) > SWA_BUFFER_SIZE -> Dropped(fresh)
          [] want = 0 \/ Len(write) = want -> [Completed(fresh, write) EXCEPT !.at = now]
          [] Len(write) > want -> [Dropped(fresh) EXCEPT !.at = now]
          [] OTHER -> [fresh EXCEPT !.held = write, !.at = now]

-----------------------------------------------------------------------------
(* The readback of the installed image over CAN (bootloader_protocol.c):    *)
(* the size, then the pages in frames of eight bytes, each page once the    *)
(* one before is acknowledged.                                              *)

LOCAL Least(a, b) == IF a < b THEN a ELSE b

(* The same guard as at start-up: a torn record may hold any size. *)
TotalSize(meta) ==
    IF /\ meta.state = "valid" /\ meta.hardware = ThisHardware
       /\ meta.size \in 1..AppMaxSize
    THEN meta.size ELSE 0

Pages(size) == (size + PageSize - 1) \div PageSize
PageLen(size, p) == Least(PageSize, size - (p - 1) * PageSize)

(* A frame is where its bytes start and how many they are. *)
PageFrames(size, p) ==
    [i \in 1..((PageLen(size, p) + 7) \div 8) |->
        [at |-> (p - 1) * PageSize + (i - 1) * 8,
         dlc |-> Least(8, PageLen(size, p) - (i - 1) * 8)]]
SizeFrame(size) == [size |-> size, dlc |-> 4]

(* WaitForReadbackPageAck: of the frames that arrive in the window, the     *)
(* first acknowledgement of this page ends the wait and all others are      *)
(* read and dropped.                                                        *)
Acked(frames, p) == \E i \in DOMAIN frames : frames[i] = p

(* HandleReadbackStart: heard[p] is what arrives after page p is sent.      *)
PagesSent(size, heard) ==
    IF \A p \in 1..Pages(size) : Acked(heard[p], p) THEN Pages(size)
    ELSE CHOOSE p \in 1..Pages(size) :
            ~Acked(heard[p], p) /\ \A q \in 1..(p - 1) : Acked(heard[q], q)
FramesSent(inUpdate, meta, heard) ==
    LET size == TotalSize(meta)
    IN  CASE inUpdate -> <<>>
          [] ~inUpdate /\ size = 0 -> <<SizeFrame(0)>>
          [] OTHER -> <<SizeFrame(size)>> \o
                FlattenSeq([p \in 1..PagesSent(size, heard) |-> PageFrames(size, p)])

-----------------------------------------------------------------------------
(* The bit timing of the CAN (can_bit_timing.h): the setting that gives a   *)
(* rate from a clock, the error of the oscillator that the setting bears,   *)
(* and the verdict on the clock in use.  Parts are per thousand or per      *)
(* million.                                                                 *)

LOCAL Most(a, b)  == IF a < b THEN b ELSE a
LOCAL Apart(a, b) == Most(a, b) - Least(a, b)

TotalTq(bt) == 1 + bt.bs1 + bt.bs2
Rate(pclk, bt) == pclk \div (bt.prescaler * TotalTq(bt))
SamplePermille(bt) == (1000 * (1 + bt.bs1)) \div TotalTq(bt)

(* The second segment that puts the sample point nearest, in the register. *)
Bs2For(tq, sample) == Least(8, Most(1, (tq * (1000 - sample) + 500) \div 1000))

(* One candidate for every number of quanta that divides the clock. *)
Settings(pclk, bitrate, sample) ==
    {[prescaler |-> pclk \div (bitrate * tq), bs1 |-> tq - 1 - Bs2For(tq, sample),
      bs2 |-> Bs2For(tq, sample)] :
        tq \in {t \in 8..25 : /\ pclk % (bitrate * t) = 0
                              /\ pclk \div (bitrate * t) \in 1..1024
                              /\ t - 1 - Bs2For(t, sample) \in 1..16}}

(* The nearest sample point, and the most quanta among those. *)
Better(a, b, sample) ==
    LET da == Apart(SamplePermille(a), sample)
        db == Apart(SamplePermille(b), sample)
    IN  da < db \/ (da = db /\ TotalTq(a) >= TotalTq(b))

Jump(wanted, bs2) == Least(Least(4, Most(1, wanted)), bs2)

(* urtc_can_bt_compute *)
Compute(pclk, bitrate, sample, sjw) ==
    LET found == Settings(pclk, bitrate, sample)
        best  == CHOOSE a \in found : \A b \in found : Better(a, b, sample)
    IN  CASE pclk = 0 \/ bitrate = 0 \/ sample \notin 500..900 -> [error |-> "args"]
          [] found = {} -> [error |-> "no fit"]
          [] OTHER -> [error |-> "none", prescaler |-> best.prescaler, bs1 |-> best.bs1,
                       bs2 |-> best.bs2, sjw |-> Jump(sjw, best.bs2)]

(* What MX_CAN_Init puts in force on the 32 MHz of the bus. *)
StandardTiming == [prescaler |-> 4, bs1 |-> 13, bs2 |-> 2, sjw |-> 2]
InForce(fromConfig, bitrate, sample, sjw) ==
    LET bt == Compute(32000000, bitrate, sample, sjw)
    IN  IF fromConfig /\ bt.error = "none"
        THEN [prescaler |-> bt.prescaler, bs1 |-> bt.bs1, bs2 |-> bt.bs2, sjw |-> bt.sjw]
        ELSE StandardTiming

(* The two conditions of the CAN specification. *)
TolerancePpm(bt) ==
    Least((bt.sjw * 1000000) \div (20 * TotalTq(bt)),
          (Least(bt.bs1, bt.bs2) * 1000000) \div (2 * (13 * TotalTq(bt) - bt.bs2)))

(* Off the rate by a millionth or more. *)
OffRate(pclk, bitrate, bt) ==
    Apart(Rate(pclk, bt), bitrate) >= (bitrate + 999999) \div 1000000

(* urtc_can_bt_diag *)
Diag(pclk, bitrate, bt, clockPpm) ==
    CASE pclk = 0 \/ bitrate = 0 \/ bt.prescaler = 0   -> "bad args"
      [] OffRate(pclk, bitrate, bt)                    -> "fail"
      [] clockPpm > TolerancePpm(bt)                   -> "fail"
      [] clockPpm > TolerancePpm(bt) \div 2            -> "marginal"
      [] OTHER                                         -> "ok"

(* Two nodes at the edge of their own clocks drift apart by the sum. *)
CLOCK_HSI_PPM == 10000
CLOCK_HSE_PPM == 50

(* The crystals a build accepts: the multiplier must give 64 MHz. *)
HseAccepted(hz) == 64000000 % hz = 0 /\ 64000000 \div hz \in 2..16
=============================================================================
