----------------------------- MODULE UnitChecks -----------------------------
(* The arithmetic of the repository against reference definitions, and the *)
(* drivers of the expansion bus and of the thermal cameras, over bounded   *)
(* inputs: every assumption is evaluated at the start of the run that      *)
(* extends this module.                                                    *)
EXTENDS Integers, Sequences, FiniteSets, Folds, SequencesExt, TLC

LOCAL Size(n) == IF n < 0 THEN 0 - n ELSE n
LOCAL Scenarios(S, n) == [1..n -> S]

-----------------------------------------------------------------------------
(* can_bit_timing.h; of the other operators of WireFrames below, the      *)
(* readback has pages of 16 bytes                                          *)
Wire == INSTANCE WireFrames
          WITH StaleAfter <- 2, PageSize <- 16, AppMaxSize <- 48, ThisHardware <- "here"

Clocks == {8000000, 25000000, 32000000, 36000000, 64000000}
Rates == {125000, 250000, 500000, 800000, 1000000}
Samples == {500, 700, 750, 800, 875, 900}

(* A setting that is found gives the rate exactly, fits the registers, and *)
(* no other setting of as many quanta samples nearer.                      *)
ASSUME CanSettingIsExact ==
    \A pclk \in Clocks, rate \in Rates, sample \in Samples, sjw \in 0..5 :
        LET bt == Wire!Compute(pclk, rate, sample, sjw)
        IN  bt.error = "none" =>
                /\ bt.prescaler * Wire!TotalTq(bt) * rate = pclk
                /\ bt.bs1 \in 1..16 /\ bt.bs2 \in 1..8 /\ bt.sjw \in 1..4 /\ bt.sjw <= bt.bs2
                /\ Wire!Diag(pclk, rate, bt, 0) = "ok"
                /\ \A b \in {n \in 1..8 : Wire!TotalTq(bt) - 1 - n \in 1..16} :
                     Size(1000 * (Wire!TotalTq(bt) - bt.bs2) - sample * Wire!TotalTq(bt))
                       <= Size(1000 * (Wire!TotalTq(bt) - b) - sample * Wire!TotalTq(bt))

(* The default configuration is the setting the boards have always had;    *)
(* with it, the internal oscillator is outside the tolerance of the        *)
(* specification, and a crystal is well inside.                            *)
ASSUME CanStandardTiming ==
    /\ Wire!InForce(TRUE, 500000, 875, 2) = Wire!StandardTiming
    /\ Wire!InForce(TRUE, 300000, 875, 2) = Wire!StandardTiming
    /\ Wire!Diag(32000000, 500000, Wire!StandardTiming, Wire!CLOCK_HSI_PPM) = "fail"
    /\ Wire!Diag(32000000, 500000, Wire!StandardTiming, Wire!CLOCK_HSE_PPM) = "ok"

(* A sample point that needs more of the first segment than the register   *)
(* holds is refused, although a setting of this rate exists.               *)
ASSUME CanRefusesLongSegment ==
    Wire!Compute(25000000, 1000000, 875, 1).error = "no fit"

-----------------------------------------------------------------------------
(* hsi_trim.c: an oscillator off by e thousandths, whose error a step of   *)
(* the trim moves by three thousandths; one tick in 1000 is a thousandth.  *)
(* Seconds are of 4, with a tick that turns over at 32.                    *)
Health == INSTANCE BoardHealth
            WITH MinSamples <- 2, Second <- 4, Turn <- 32, MaxSeconds <- 9, MaxFaults <- 3,
                 Hold <- 5, Functioning <- 2

OffBy(t, e) == e + 3 * (t.trim - t.initial)
Sample(t, e, jitter) == Health!TrimUpdate(t, 1000, 1000 + OffBy(t, e) + jitter)
Windows(e, initial, n) ==
    FoldLeft(LAMBDA t, i : Sample(Sample(t, e, 0), e, 0), Health!TrimInit(initial),
             [i \in 1..n |-> i])

(* Within its excursion the trim brings the error inside the deadband and  *)
(* then leaves it: the step is not wider than the band on both sides.      *)
ASSUME HsiSettles ==
    \A e \in (0 - 19)..19 :
        LET t == Windows(e, 16, 7)
        IN  /\ Size(OffBy(t, e)) <= 1
            /\ Windows(e, 16, 8).trim = t.trim

(* However the samples scatter, the trim stays in the register and within  *)
(* six steps of where it began, and moves one step per window at most.     *)
ASSUME HsiIsBounded ==
    \A initial \in {0, 3, 16, 31, 40}, e \in {0 - 40, 0 - 4, 5, 40}, s \in Scenarios({0 - 5, 0, 5}, 4) :
        LET run == [k \in 0..4 |-> FoldLeft(LAMBDA t, j : Sample(t, e, j), Windows(e, initial, 6),
                                            SubSeq(s, 1, k))]
        IN  \A k \in 0..4 :
                /\ run[k].trim \in 0..31 /\ Size(run[k].trim - run[k].initial) <= 6
                /\ k > 0 => Size(run[k].trim - run[k - 1].trim) <= 1

-----------------------------------------------------------------------------
(* health_profile.c *)

(* The temperature is the nearest whole degree on the line through the two *)
(* factory points, on both sides of the first.                             *)
ASSUME HealthTemperatureIsNearest ==
    \A cal30 \in {900, 1000}, span \in {1, 7, 80, 333}, scaled \in 800..1300 :
        LET t == Health!OnLine(scaled, cal30, cal30 + span)
        IN  2 * Size(span * (t - 30) - 80 * (scaled - cal30)) <= span + 1

(* A temperature that is not there, or does not fit, reads 0 and every     *)
(* other byte is one temperature; every field fits its byte.               *)
ASSUME HealthBytesAreExact ==
    /\ \A t, u \in (0 - 130)..230 :
         /\ Health!TempByte(t) \in 0..255
         /\ Health!TempByte(t) = Health!TempByte(u) => t = u \/ Health!TempByte(t) = 0
    /\ \A ms \in {0, 999, 1000, 16777215} :
         \A i \in 1..8 : Health!EncodeInfo(1, 2, 3, 4, 5, ms)[i] \in 0..255
    /\ \A raw \in {0, 1, 1500, 4095}, cal \in {0, 1, 1540, 65535} : Health!VddaMv(raw, cal) \in 0..65535

-----------------------------------------------------------------------------
(* motion_profile.c, with a fixed point of 6 bits *)
Motion == INSTANCE MotionProfile WITH One <- 64

Moves == {Motion!Plan(n, c, v, a, p) : n \in {1, 2, 3, 8, 9, 20}, c \in {1, 3, 10}, v \in {0, 2, 12},
                                       a \in {1, 3}, p \in Motion!Profiles}

(* A move is as slow at its end as at its beginning, rises to its middle,  *)
(* stays between the start and the peak speed and never stands still.      *)
ASSUME MotionIsSymmetric ==
    \A m \in Moves : \A i \in 0..(m.steps - 1) :
        /\ Motion!SpeedAt(m, i) \in m.start..m.peak /\ m.start > 0
        /\ Motion!SpeedAt(m, i) = Motion!SpeedAt(m, m.steps - 1 - i)
        /\ i + 1 <= (m.steps - 1) \div 2 => Motion!SpeedAt(m, i) <= Motion!SpeedAt(m, i + 1)
        /\ Motion!IntervalUs(m, i) >= 1000000 \div Motion!MP_MAX_SPS

(* A trapezoid gains no more speed in a step than the acceleration allows, *)
(* and reaches the speed of its peak where its ramp ends.                  *)
ASSUME MotionAccelerationBounded ==
    \A m \in {n \in Moves : n.profile = "trapezoid"} : \A i \in 0..((m.steps - 1) \div 2 - 1) :
        LET v == Motion!SpeedAt(m, i)
            w == Motion!SpeedAt(m, i + 1)
        IN  w > v => w * w <= (v + 1) * (v + 1) + 2 * m.accel

-----------------------------------------------------------------------------
(* pid_control.c and the PID part of firmware_features.c *)
Pid == INSTANCE HeaterPid WITH Discarded <- 1, Measured <- 1, MaxTime <- 7, Hysteresis <- 1, MinTarget <- 5

(* However long the output is saturated, the integral holds no more than   *)
(* one range of the output and the output stays inside its own.            *)
ASSUME PidDoesNotWindUp ==
    \A integral \in (0 - 10)..10, kp, ki \in 0..2, error \in (0 - 6)..6, d \in (0 - 3)..3 :
        LET step == Pid!PidUpdate(integral, kp, ki, error, d, 0, 10)
        IN  /\ step.out \in 0..10 /\ step.integral \in (0 - 10)..10
            /\ step.out = 10 /\ kp * error + integral + d > 10 => step.integral <= integral

Pass(m)   == [kind |-> "pass", m |-> m]
Host(k)   == [kind |-> k, m |-> 0]
PidEvents == {Host("gains"), Host("tune"), Host("stop"), Host("off"), Pass(3), Pass(5), Pass(8)}
PidStep(h, e) ==
    CASE e.kind = "gains" -> Pid!SetGains(h)
      [] e.kind = "tune"  -> Pid!StartTune(h, 5, TRUE, FALSE)
      [] e.kind = "stop"  -> Pid!StopTune(h)
      [] e.kind = "off"   -> Pid!Heater(h, 5, 0, FALSE, TRUE, TRUE)
      [] OTHER            -> Pid!Heater(h, e.m, 5, FALSE, e.m < 5, TRUE)
PidAfter(s) == FoldLeft(PidStep, Pid!PidInit, <<Host("tune")>> \o s)

(* What the host is told agrees with what is running, whatever comes in    *)
(* whatever order; the output is off with the target; gains that were      *)
(* found come from swings wider than the hysteresis.                       *)
ASSUME PidStateIsTrue ==
    \A s \in Scenarios(PidEvents, 4) :
        LET h == PidAfter(s)
        IN  /\ h.state = "autotuning" <=> h.tune.state = "running"
            /\ s[4] = Host("off") => ~h.on

(* A tune ends, with gains or without, no later than its time.             *)
ASSUME PidTuneEnds ==
    \A s \in Scenarios({Pass(3), Pass(5), Pass(8)}, 8) :
        LET h == PidAfter(s)
        IN  h.tune.state # "running" /\ h.state \in {"done", "failed"}
ASSUME PidTuneMayEndWell ==
    \E s \in Scenarios({Pass(3), Pass(8)}, 7) : PidAfter(s).gains = "tuned"

-----------------------------------------------------------------------------
(* thermal_stats.c *)
ThermalStep(x, p) ==
    LET now == (x.now + p.after) % 32
        a   == Health!Accumulate(x.stats, x.clock, now, p.on)
    IN  [now |-> now, stats |-> a.stats, clock |-> a.clock,
         lit |-> IF x.clock.started /\ x.clock.on THEN x.lit + p.after ELSE x.lit]
ThermalAfter(s) ==
    FoldLeft(ThermalStep, [now |-> 29, stats |-> Health!Blank, clock |-> Health!Stopped, lit |-> 0], s)

(* The seconds counted are those the output was on, across the turn of the *)
(* tick and however they are cut into passes, up to the limit.             *)
ASSUME ThermalSecondsAreExact ==
    \A s \in Scenarios([after : {1, 3, 11}, on : BOOLEAN], 5) :
        LET x == ThermalAfter(s)
        IN  x.stats.seconds = (IF x.lit \div 4 > 9 THEN 9 ELSE x.lit \div 4)
ASSUME ThermalFaultsSaturate ==
    \A s \in Scenarios(0..2, 5) :
        FoldLeft(Health!RecordFault, Health!Blank, s).faults
            = LET n == Cardinality({i \in 1..5 : s[i] # 0}) IN IF n > 3 THEN 3 ELSE n

-----------------------------------------------------------------------------
(* firmware_led.c: a tick that turns over at 32, a window of 5 and one of 2 *)
LampStep(x, e) ==
    LET now == (x.now + 1) % 32
        l   == CASE e = "host"  -> Health!HostColour(x.lamp, "violet", now)
                 [] e = "frame" -> Health!FrameHeard(x.lamp, now)
                 [] OTHER -> x.lamp
    IN  [now |-> now, lamp |-> Health!AutoColour(l, now, e = "error"),
         since |-> IF e = "host" THEN 0 ELSE IF e = "error" THEN 99 ELSE x.since + 1]
LampAfter(s) == FoldLeft(LampStep, [now |-> 28, lamp |-> Health!LampInit, since |-> 99], s)

(* The lamp is red under an error; it shows the colour of the host for its *)
(* whole window and not after it, and not once an error has come between.  *)
ASSUME LampKeepsPrecedence ==
    \A s \in Scenarios({"host", "frame", "error", "quiet"}, 7) :
        LET x == LampAfter(s)
        IN  /\ x.lamp.colour = "red" <=> s[7] = "error"
            /\ x.lamp.colour = "violet" <=> x.since < 5
            /\ x.lamp.send \/ x.lamp.colour = "green"

-----------------------------------------------------------------------------
(* slave_write_assembler.h *)
(* Writes cut into pieces: a piece names the write each byte is of. *)
Bytes(w, from, to) == [i \in 1..(to - from + 1) |-> IF from + i = 2 THEN w ELSE "payload"]
SwaPieces == {Bytes("bootloader", 1, 5), Bytes("bootloader", 1, 3), Bytes("bootloader", 4, 5),
              Bytes("stop", 1, 2), Bytes("stop", 1, 1), Bytes("status", 1, 1)}
SwaStep(x, p) ==
    [now |-> x.now + p.after, asm |-> Wire!Feed(x.asm, p.bytes, x.now + p.after)]
SwaAfter(s) == FoldLeft(SwaStep, [now |-> 0, asm |-> Wire!Empty], s)

(* A write is taken whole or not at all, nothing half of a write outlives  *)
(* its time, and entering the bootloader takes all its bytes.              *)
ASSUME SwaTakesWholeWrites ==
    \A s \in Scenarios([after : {1, 3}, bytes : SwaPieces], 3) :
        LET x == SwaAfter(s)
        IN  /\ \A i \in 1..Len(x.asm.done) :
                 LET w == x.asm.done[i]
                 IN  Wire!ExpectedLen(Head(w)) \in {0, Len(w)}
            /\ Len(x.asm.held) <= Wire!SWA_BUFFER_SIZE
            /\ Wire!Expire(x.asm, x.now + 3).held = <<>>
            /\ s[3].after = 3 => Len(x.asm.held) <= Len(s[3].bytes)

(* Before its time is over, a half write takes in whatever comes next: a   *)
(* read of another register completes it.                                  *)
ASSUME SwaMixesYoungPieces ==
    SwaAfter(<<[after |-> 1, bytes |-> Bytes("stop", 1, 1)],
               [after |-> 1, bytes |-> Bytes("status", 1, 1)]>>).asm.done = <<<<"stop", "status">>>>

-----------------------------------------------------------------------------
(* urtc_version_wire.h and the answers of firmware_can_slavebridge.c *)

(* What is packed is read back; a patch that does not fit is unknown, and  *)
(* the field is then the one that a board without patches sends.           *)
ASSUME WireMinorFieldRoundTrip ==
    \A minor \in {0, 1, 127, 128, 255}, patch \in 0..255 :
        LET f == Wire!MinorPack(minor, patch)
        IN  /\ f \in 0..65535 /\ Wire!MinorOf(f) = minor
            /\ Wire!PatchOf(f) = IF patch <= 127 THEN patch ELSE 255
            /\ patch > 127 => f = minor

(* An answer begins as it did before the extension, for every slave.       *)
ASSUME WireAnswersAreCompatible ==
    LET version == [i \in 1..10 |-> i]
    IN  \A read \in BOOLEAN, marker \in {0, 225}, ext \in {<<>>, Wire!SlaveExtension(7, 2, 9), <<3, 1, 1, 1>>} :
          LET a == Wire!VersionAnswer(read, version, marker, ext)
          IN  /\ a = <<>> <=> ~read
              /\ read => /\ a[1] = SubSeq(version, 1, 8) /\ SubSeq(a[2], 1, 2) = <<9, 10>>
                         /\ Len(a[2]) = IF marker = 225 /\ Len(ext) = 4 /\ Head(ext) = 225 THEN 5 ELSE 2

(* Only the registers of the closed list are read, never more bytes than   *)
(* they have, and the bytes told are those of the register.                *)
ASSUME WireReadsAreClosed ==
    LET rules == {[reg |-> 0, len |-> 1], [reg |-> 1, len |-> 10], [reg |-> 18, len |-> 32]}
        bytes == [i \in 1..32 |-> i]
    IN  \A reg \in {0, 1, 2, 18}, len \in {0, 1, 2, 8, 10, 32, 33} :
          LET a == Wire!RegisterAnswer(rules, reg, len, TRUE, bytes, reg = 1)
          IN  /\ a # <<>> <=> \E r \in rules : r.reg = reg /\ len \in 1..r.len
              /\ a # <<>> => /\ Len(a[1]) <= 8 /\ Len(a[1]) <= len
                             /\ \A i \in 1..Len(a[1]) : a[1][i] = bytes[i]

-----------------------------------------------------------------------------
(* The readback of bootloader_protocol.c *)

Meta(size) == [state |-> "valid", hardware |-> "here", size |-> size]
Tail2(f) == SubSeq(f, 2, Len(f))
Arrivals == {<<>>, <<1>>, <<2>>, <<3>>, <<7, 1>>, <<1, 2, 3>>}
(* A host that acknowledges every page is sent every byte once and in      *)
(* order, up to the size it was told; one that misses an acknowledgement   *)
(* is sent that page and no more.                                          *)
ASSUME ReadbackIsWhole ==
    \A size \in 1..48, heard \in [1..3 -> Arrivals] :
        LET f == Tail2(Wire!FramesSent(FALSE, Meta(size), heard))
            sent == FoldLeft(LAMBDA n, x : IF n = x.at THEN n + x.dlc ELSE 0 - 99, 0, f)
        IN  /\ \A i \in 1..Len(f) : f[i].dlc \in 1..8
            /\ sent = LET p == Wire!PagesSent(size, heard) IN IF p * 16 < size THEN p * 16 ELSE size

(* A size that no image has is never read out. *)
ASSUME ReadbackRefusesTornSize ==
    \A size \in {0, 49, 99999} : Wire!FramesSent(FALSE, Meta(size), <<>>) = <<Wire!SizeFrame(0)>>

(* The last frame of a page may be of four bytes, as the size frame is: a  *)
(* host cannot tell them apart by their length alone.                      *)
ASSUME ReadbackLastFrameMayBeShort ==
    LET f == Wire!FramesSent(FALSE, Meta(20), [p \in 1..3 |-> <<p>>]) IN f[Len(f)].dlc = f[1].dlc

-----------------------------------------------------------------------------
(* firmware_expansion_i2c.c: every bus of eight tokens *)
Bus == INSTANCE ExpansionBus

Buses(n) == [1..n -> Bus!Token]
Tokens(log, token) == Cardinality({n \in DOMAIN log : log[n] = token})
(* From the last START on. *)
SinceStart(log) == LET s == {n \in DOMAIN log : log[n] = "start"}
             IN  (CHOOSE n \in s : \A m \in s : m <= n) .. Len(log)
Clean(t, bus, from) == \A n \in from : ~bus[n].late /\ (t.log[n] = "write" => bus[n].ack)

(* What the slave is told to have taken or given was acknowledged byte by   *)
(* byte on a clock that rose, after the last START at least; a transaction  *)
(* ends with its one STOP, and after a byte that was not acknowledged       *)
(* nothing but that STOP follows.                                           *)
ASSUME BusToldIsTrue ==
    \A bus \in Buses(7) :
        LET w == Bus!SlaveWriteRegister(2, bus)
            r == Bus!SlaveReadRegister(1, bus)
        IN  /\ Bus!SlaveTold(w) => Clean(w, bus, DOMAIN w.log)
            /\ Bus!SlaveTold(r) => Clean(r, bus, SinceStart(r.log)) /\ Tokens(r.log, "read") = 1
            /\ \A t \in {w, r} :
                 /\ t.log[Len(t.log)] = "stop" /\ Tokens(t.log, "stop") = 1
                 /\ \A n \in DOMAIN t.log :
                      t.log[n] = "write" /\ ~bus[n].ack => t.log[n + 1] = "stop"

(* The repeated START forgets a clock that was late while the register was  *)
(* chosen: the read is told good, of a register that may be another one.    *)
ASSUME BusForgetsLatePointer ==
    \E bus \in Buses(7) :
        LET r == Bus!SlaveReadRegister(1, bus)
        IN  Bus!SlaveTold(r) /\ \E n \in 1..3 : bus[n].late

(* With both lines held low every byte looks acknowledged: the registers of *)
(* the slave see the late clock, a camera and the converter do not.         *)
ASSUME BusHeldLow ==
    LET low == [n \in 1..20 |-> [ack |-> TRUE, late |-> TRUE]]
    IN  /\ ~Bus!SlaveTold(Bus!SlaveReadRegister(4, low))
        /\ ~Bus!SlaveTold(Bus!SlaveReadRegisterWithParam(4, low))
        /\ Bus!CameraTold(Bus!CameraRead(2, low)) /\ Bus!CheckedWrite(low, low, TRUE) = "done"
        /\ Bus!AdsResult(7, low) = 7
(* A bus where nothing answers fails every transaction. *)
ASSUME BusDead ==
    /\ \A t \in {Bus!CameraRead(3, <<>>), Bus!CameraWrite(<<>>), Bus!CameraGeneralReset(<<>>),
                 Bus!CommandWrite(4, <<>>)} : ~Bus!CameraTold(t)
    /\ Bus!AdsResult(7, <<>>) = 0 /\ Bus!SlaveAdsResult(7, <<>>) = 0
    /\ Bus!WordsRead(3, <<>>) = 0 /\ ~Bus!ReadTold(3, <<>>) /\ ~Bus!SlaveWriteTold(<<>>)

(* A configuration that did not reach the converter reaches it with the     *)
(* next conversion that is started, on either board.                        *)
ASSUME AdsConfigurationIsRepeated ==
    LET ads == [last |-> "reset", holds |-> "reset"]
    IN  \A bus \in Buses(6) :
          /\ Bus!AdsTriggered(Bus!AdsConfigured(ads, "c", <<>>), bus).holds
               = IF Bus!AdsWritten(bus).ack THEN "c" ELSE "reset"
          /\ Bus!SlaveAdsTriggered(Bus!SlaveAdsConfigured(ads, "c", <<FALSE>>), <<bus[1].ack>>).holds
               = IF bus[1].ack THEN "c" ELSE "reset"

(* On the slave a read that is not told good has brought the words in front *)
(* of the failure, and a write that is read back needs all three transfers. *)
ASSUME WordsBeforeFailure ==
    \A ok \in [1..5 -> BOOLEAN] :
        /\ Bus!ReadTold(4, ok) <=> \A n \in 1..5 : ok[n]
        /\ ok[1] /\ ok[2] /\ ~ok[3] => Bus!WordsRead(4, ok) = 1
        /\ Bus!SlaveCheckedWrite(ok, TRUE) = "done" <=> ok[1] /\ ok[2] /\ ok[3]

-----------------------------------------------------------------------------
(* The cameras: a picture of four lines, three looks at the status *)
Frames == INSTANCE CameraFrame WITH Lines <- 4, MaxPolls <- 3

Before == [lines |-> [l \in 0..3 |-> "before"], aux |-> "before", ctrl |-> "chess", page |-> 0]
Sequences == {<<"page0">>, <<"wait", "page1">>, <<"wait", "wait", "wait", "page0">>, <<"wait", "nack">>, <<>>}
Reads == [polls : Sequences, clear : {"ok", "nack", "differs"}, got : {0, 3, 4},
          lines : [0..3 -> {"now", Frames!Bad}], aux : {"now"}, auxRead : {"ok", "nack"},
          bad : {{}, {0}, {7}, {23, 51}, {44}}, ctrl : {"ok", "nack"}, mode : {"chess", "interleaved"}]

(* A frame that is told good is of the sub-page of the status that was read *)
(* and none of its lines is marked or of an earlier capture; every failure  *)
(* on the way is told, a sensor that is never ready among them.             *)
ASSUME FrameToldIsWhole ==
    \A bus \in Reads :
        LET r == Frames!GetFrameData(Before, bus)
        IN  /\ r.error = "ok" =>
                 /\ \A l \in 0..3 : l % 2 = r.frame.page => r.frame.lines[l] = "now"
                 /\ r.frame.ctrl = bus.mode
                 /\ bus.got = 4 /\ bus.auxRead = "ok" /\ bus.ctrl = "ok" /\ bus.clear # "nack"
                 /\ r.frame.page = IF bus.polls = <<"page0">> THEN 0 ELSE 1
            /\ r.error = "timeout" <=> Len(bus.polls) > 3
            /\ r.frame.aux = "now" => 0 \notin bus.bad /\ 44 \notin bus.bad
(* Ambient words that are marked are not told: the frame is good, with the  *)
(* ambient words of an earlier one.                                         *)
ASSUME FrameMayHoldOldAmbient ==
    \E bus \in Reads : LET r == Frames!GetFrameData(Before, bus)
                       IN  r.error = "ok" /\ r.frame.aux = "before"

Reads41 == [polls : Sequences, clear : {"ok", "nack"}, got : {0, 3, 4},
            pages : [0..1 -> [0..3 -> {"now", Frames!Bad}]], aux : {"now"}, auxRead : {"ok"},
            bad : {{}, {0}, {44}}, ctrl : {"ok", "nack"}, mode : {"chess"}]
ASSUME Frame41ToldIsWhole ==
    \A bus \in Reads41 :
        LET r == Frames!GetFrameData41(Before, bus)
        IN  r.error = "ok" => \A l \in 0..3 : r.frame.lines[l] = bus.pages[r.frame.page][l]
                                              /\ r.frame.lines[l] = "now"

(* Two captures, one of each sub-page, bring the temperature of every pixel *)
(* and none of a line that was marked, when the sub-pages are lines.        *)
ASSUME CapturesCoverThePicture ==
    LET all == (0..3) \X (0..3)
        none == [p \in all |-> "before"]
    IN  /\ \A mode \in {"chess", "interleaved"} :
             /\ Frames!Computed(mode, 0, 4) \cup Frames!Computed(mode, 1, 4) = all
             /\ Cardinality(Frames!Computed(mode, 0, 4)) = 8
        /\ \A bus \in {b \in Reads : b.mode = "interleaved"} :
             LET r == Frames!GetFrameData(Before, bus)
                 c == Frames!Capture(Before, none, "ok", r, Frames!Computed("interleaved", r.frame.page, 4))
             IN  /\ c.status = "ready" <=> r.error = "ok"
                 /\ \A p \in all : c.temps[p] = IF c.status = "ready" /\ p[1] % 2 = r.frame.page
                                                THEN "now" ELSE "before"
ASSUME TriggerTold ==
    \A bus \in [before : {"ok", "nack"}, write : {"ok", "differs"}, reset : {"ok", "nack"},
                after : {"ok", "nack"}, bit : BOOLEAN] :
        Frames!TriggerMeasurement(bus) = "ok" <=>
            bus = [before |-> "ok", write |-> "ok", reset |-> "ok", after |-> "ok", bit |-> FALSE]

Frame42 == [aux |-> "before", raw |-> "before", temps |-> "before"]
Bus42 == [aux : {"ok", "nack"}, raw : {"ok", "nack"}, temps : {"ok", "nack"}, of : {"now"},
          flags : {"ok", "nack"}, ready : BOOLEAN, touch : {"ok", "nack"}, start : {"ok", "nack"}]
(* A stepped camera is told ready with all three parts of one capture, and  *)
(* a query answers busy only while the sensor says that it is not ready.    *)
ASSUME SteppedToldIsWhole ==
    \A bus \in Bus42 :
        LET s == Frames!Status42("busy", Frame42, bus)
        IN  /\ s.status = "ready" => s.frame = [aux |-> "now", raw |-> "now", temps |-> "now"]
            /\ s.status = "busy" <=> bus.flags = "ok" /\ ~bus.ready
(* A flag that the read did not clear is taken as cleared: the camera is    *)
(* started, and the next query would read the picture from before.          *)
ASSUME SteppedFlagMayStay == \E bus \in Bus42 : Frames!Started42(bus) /\ bus.ready
ASSUME SteppedConfigured ==
    LET fresh == [mode |-> "continuous", format |-> "normalized"]
        works(r, w) == [read |-> r, write |-> w]
    IN  \A r, w, r2, w2 \in {"ok", "nack"} :
          LET c == Frames!Init42(fresh, works(r, w), works(r2, w2))
          IN  /\ c.format = "temperature" => c.mode = "step"
              /\ c.mode = "step" <=> r = "ok" /\ w = "ok"

-----------------------------------------------------------------------------
(* The calibration of the MLX90640, on pictures of four columns *)
Cam40 == INSTANCE Camera90640 WITH Columns <- 4, MaxBad <- 2
Cam41 == INSTANCE Camera90641 WITH FirstCoded <- 16

Field(n, lo, w) == (n % 2 ^ w) * 2 ^ lo
Words(changed) == [n \in 0..831 |-> IF n \in DOMAIN changed THEN changed[n] ELSE 0]

(* A field of w bits holds what was packed in it, whatever lies around it. *)
ASSUME FieldsRoundTrip ==
    \A w \in {3, 4, 5, 6, 8, 9, 10, 11} : \A n \in (0 - 2 ^ (w - 1)) .. (2 ^ (w - 1) - 1) :
        \A lo \in {0, 1, 16 - w} :
            Cam40!SignedBits(65535 - Field(2 ^ w - 1, lo, w) + Field(n, lo, w), lo, w) = n

(* The offset of a pixel is the sum of its reference, row, column and own   *)
(* part, each with its own scale, and of no other pixel's.                  *)
ASSUME OffsetIsSummed ==
    \A row, column \in {0 - 8, 0 - 1, 7}, own \in {0 - 32, 31}, p \in {0, 6, 11} :
        LET r  == p \div 4
            c  == p % 4
            ee == Words(16 :> (3 * 256 + 2 * 16 + 1) @@ 17 :> Field(0 - 300, 0, 16)
                        @@ 18 :> Field(row, 4 * r, 4) @@ 24 :> Field(column, 4 * c, 4)
                        @@ (64 + p) :> Field(own, 10, 6))
        IN  \A q \in 0..11 :
              Cam40!Offset(ee, q) = (IF q \div 4 = r THEN 8 * row ELSE 0)
                                    + (IF q % 4 = c THEN 4 * column ELSE 0)
                                    + (IF q = p THEN 2 * own ELSE 0) - 300

(* Pixels share their coefficients by fours, a quarter of the picture each. *)
ASSUME SplitIsEven ==
    \A s \in 0..3 : Cardinality({p \in 0..15 : Cam40!Split(p) = s}) = 4

(* The tables keep a byte: a coefficient below 127 is kept with an error of *)
(* half a step, and the largest uses half of the byte at least.             *)
Tables == [0..1 -> {0 - 128, 0 - 127, 0 - 3, 0, 1, 5, 64, 101, 126, 127, 255, 511}]
Exact(v, n, s, k) == Cam40!Magnitude(v * 2 ^ s - n * 2 ^ k) * 2 <= 2 ^ s
ASSUME CoefficientsFitTheirByte ==
    \A t \in Tables, s \in {8, 10} :
        LET kept == Cam40!Kept(t, s, 634)
        IN  /\ \A p \in 0..1 : kept.values[p] \in (0 - 128) .. 127
            /\ kept.scale # 64 => /\ Cam40!Largest(kept.values) >= 63
                                  /\ \A p \in 0..1 : Exact(kept.values[p], t[p], s, kept.scale)
(* The MLX90641 doubles up to 64 where the MLX90640 stops at 63.4: a largest *)
(* coefficient of 255 over a power of two is rounded to 128, one too many.  *)
ASSUME Coefficients41MayNotFit ==
    LET fits(t) == \A p \in 0..1 : Cam41!Kept(t, 8, 640).values[p] \in (0 - 128) .. 127
    IN  \A t \in Tables : fits(t) <=> Cam41!Largest(t) \notin {255, 511}

(* The calibration that is packed is read back, on both cameras. *)
ASSUME CalibrationReadBack ==
    LET ee40 == Words(51 :> (200 * 256 + 255) @@ 60 :> (255 * 256 + 128) @@ 63 :> (4096 + 2 * 256 + 3 * 16 + 4)
                      @@ 54 :> 65535 @@ 56 :> (32 + 1) @@ 52 :> 32768 @@ 58 :> (64512 + 512) @@ 10 :> 2048
                      @@ 50 :> (32 * 1024 + 511) @@ 53 :> 32)
        ee41 == Words(39 :> 2047 @@ 40 :> 2047 @@ 41 :> 31 @@ 36 :> 1 @@ 37 :> 2 @@ 16 :> 32 @@ 17 :> 2047
                      @@ 64 :> 1024 @@ 640 :> 3 @@ 21 :> 2047 @@ 22 :> 257 @@ 448 :> 2016 @@ 51 :> 767)
    IN  /\ Cam40!Vdd(ee40) = [k |-> 32 * (0 - 56), at25 |-> 0 - 8224]
        /\ Cam40!Ptat(ee40).kv = 0 - 32 /\ Cam40!Ptat(ee40).kt = 511
        /\ Cam40!Tgc(ee40) = 0 - 128 /\ Cam40!KsTa(ee40) = 0 - 1
        /\ Cam40!KsTo(ee40).ct = <<0 - 40, 0, 30, 50>> /\ Cam40!KsTo(ee40).scale = 12
        /\ Cam40!Kta(ee40, 0..3).values = [p \in 0..3 |-> IF p % 2 = 0 THEN 0 - 64 ELSE 0]
        /\ Cam40!Kv(ee40, 0..3).values = [p \in 0..3 |-> IF p % 2 = 0 THEN 0 - 64 ELSE 0]
        /\ Cam40!ReferencePixels(ee40).offsets = <<0 - 512, 0 - 513>>
        /\ Cam40!Calibrated(ee40) = [mode |-> "interleaved", il |-> <<0 - 32, 0, 0>>]
        /\ Cam41!Vdd(ee41) = [k |-> 0 - 32, at25 |-> 0] /\ Cam41!Ptat(ee41).at25 = 0 - 1
        /\ Cam41!Gain(ee41) = 34 /\ Cam41!Tgc(ee41) = 255 /\ Cam41!Resolution(ee41) = 1
        /\ Cam41!Offset(ee41, 0, 0) = 0 - 2080 /\ Cam41!Offset(ee41, 1, 0) = 0 - 26
        /\ Cam41!Kta(ee41, 0..1).values = 0 :> (0 - 96) @@ 1 :> (0 - 32)

(* A camera is accepted when it has no more bad pixels than allowed and no  *)
(* two of them touch; the lists of them never outgrow their arrays.         *)
ASSUME BadPixelsCounted ==
    \A words \in [0..7 -> {0, 1, 2}] :
        LET bad == {p \in 0..7 : words[p] # 2}
        IN  /\ Cam40!DeviatingPixels(words) = "ok" <=>
                 Cardinality(bad) <= 2
                 /\ ~\E p, q \in bad : p # q /\ Cam40!CheckAdjacentPixels(p, q)
            /\ Cardinality(Cam40!Broken(words)) <= 3 /\ Cardinality(Cam40!Outliers(words)) <= 3
ASSUME BrokenPixel41 ==
    \A pixels \in [0..3 -> {<<0, 0, 0, 0>>, <<0, 0, 0, 1>>}] :
        LET b == Cam41!BrokenPixel(pixels)
        IN  /\ b.error = "ok" <=> Cardinality(Cam41!Broken(pixels)) <= 1
            /\ b.pixel = 65535 <=> Cam41!Broken(pixels) = {}

(* The ranges of temperature follow each other. *)
ASSUME RangesFollow ==
    \A t \in {0 - 50, 0 - 10, 0, 29, 30, 49, 50, 99} :
        LET n == Frames!RangeOf(<<0 - 40, 0, 30, 50>>, t)
        IN  n = IF t < 0 THEN 0 ELSE IF t < 30 THEN 1 ELSE IF t < 50 THEN 2 ELSE 3

-----------------------------------------------------------------------------
(* The Hamming code of the MLX90641 *)
DataWords == {{}, 0..10, {0}, {3, 7}, {1, 2, 5, 10}, {4, 6, 8, 9, 10}}
Coded(data) == data \cup CHOOSE c \in SUBSET (11..15) : Cam41!Check(data \cup c) = 0
Decoded(word) == Cam41!HammingDecode([n \in {16} |-> word])

(* A word comes back when one bit of it is lost, and two are never taken    *)
(* for one.                                                                 *)
ASSUME HammingCorrectsOne ==
    \A d \in DataWords :
        /\ Decoded(Coded(d)) = [words |-> [n \in {16} |-> d], error |-> "ok"]
        /\ \A b \in 0..15 :
             LET one == Cam41!Flipped(Coded(d), b)
             IN  /\ Decoded(one) = [words |-> [n \in {16} |-> d], error |-> "corrected"]
                 /\ \A c \in 0..15 \ {b} : Decoded(Cam41!Flipped(one, c)).error = "uncorrectable"

(* A dump that was corrected is told as an error, and the start-up takes no *)
(* calibration from it: one lost bit costs what two cost.                   *)
ASSUME CorrectedIsNotUsed ==
    LET ee == Words(10 :> 64)
        dump == [n \in {16} |-> Cam41!Flipped(Coded({0}), 5)]
    IN  Cam41!Extracts("ok", ee) /\ ~Cam41!Extracts(Cam41!DumpEE("ok", dump).error, ee)
=============================================================================
