---------------------------- MODULE BoardHealth ----------------------------
(* What the board watches of itself: the health frame, the lifetime         *)
(* counters of the heater, the trim of its oscillator; and the colour of    *)
(* its status lamp.                                                         *)
EXTENDS Integers, Sequences

CONSTANTS
    Second, Turn,            \* A second, and where the tick turns over
    MaxSeconds, MaxFaults,   \* Where the lifetime counters saturate
    Hold, Functioning,       \* The lamp's windows of the host and of the bus
    MinSamples               \* Measurements averaged before a trim, 16 in the code

LOCAL Least(a, b) == IF a < b THEN a ELSE b
LOCAL Most(a, b)  == IF a < b THEN b ELSE a
(* Division of C: towards zero. *)
LOCAL Quotient(n, d) == IF n < 0 THEN 0 - ((0 - n) \div d) ELSE n \div d

-----------------------------------------------------------------------------
(* The health frame (health_profile.c): the readings and the bytes that     *)
(* carry them, where a reading that is not there must not look like one     *)
(* that is.                                                                 *)

VDDA_NA == 0
TEMP_NA == 0 - 128

CountBusOff(n) == Least(255, n + 1)
LoopMax(longest, pass) == Most(longest, Least(255, pass))

(* The supply, from a reference whose reading at 3300 mV is known. *)
VddaMv(raw, cal) ==
    IF raw = 0 \/ cal = 0 THEN VDDA_NA
    ELSE Least(65535, (3300 * cal + raw \div 2) \div raw)

(* The reading that the sensor would give at 3300 mV. *)
Scaled(raw, vdda) == (raw * vdda + 1650) \div 3300

(* The line through the readings at 30 and 110 degrees, rounded. *)
OnLine(scaled, cal30, cal110) ==
    LET span == cal110 - cal30
        up   == (scaled - cal30) * 80
    IN  30 + Quotient(IF scaled < cal30 THEN up - span \div 2 ELSE up + span \div 2, span)

McuTempC(raw, vdda, cal30, cal110) ==
    IF vdda = VDDA_NA \/ cal110 <= cal30 THEN TEMP_NA
    ELSE LET t == OnLine(Scaled(raw, vdda), cal30, cal110)
         IN  IF t \in (0 - 127)..32767 THEN t ELSE TEMP_NA

TempByte(t) == IF t = TEMP_NA \/ t \notin (0 - 39)..215 THEN 0 ELSE t + 40

(* Health_Encode *)
Encode(h) ==
    <<h.tec, h.rec, h.busOff, h.trim, h.loop, TempByte(h.temp), h.vdda \div 256, h.vdda % 256>>

UptimeSeconds(ms) == Least(16777215, ms \div 1000)
(* Health_EncodeInfo *)
EncodeInfo(protocol, cause, minor, patch, build, ms) ==
    LET s == UptimeSeconds(ms)
    IN  <<protocol, cause, minor, patch, build, s \div 65536, (s \div 256) % 256, s % 256>>

(* What Features_Service does with one pass of the main loop: nothing with  *)
(* both switches off, and a frame every period with the health switch on,  *)
(* which starts the longest pass afresh.                                   *)
HealthServed(h, on, autotrim, busOff, now, period) ==
    LET longest == LoopMax(h.loop, now - h.last)
        counted == IF busOff /\ ~h.seen THEN CountBusOff(h.count) ELSE h.count
        due     == now - h.sent >= period
    IN  CASE ~on /\ ~autotrim -> h
          [] ~on -> [h EXCEPT !.loop = longest, !.last = now]
          [] OTHER -> [h EXCEPT !.loop = IF due THEN 0 ELSE longest, !.last = now,
                                !.count = counted, !.seen = busOff,
                                !.sent = IF due THEN now ELSE @,
                                !.frames = IF due THEN Append(@, <<longest, counted>>) ELSE @]

-----------------------------------------------------------------------------
(* The lifetime counters of the heater (thermal_stats.c).  The time since   *)
(* the last pass is credited to the state that the output held during it,   *)
(* whole seconds at a time; the tick is taken modulo Turn.                  *)

Blank == [faults |-> 0, seconds |-> 0, last |-> 0]
Stopped == [started |-> FALSE, at |-> 0, rest |-> 0, on |-> FALSE]

(* ThermalStats_AccumulateHeater on the record s and the clock c. *)
Accumulate(s, c, now, on) ==
    LET rest == c.rest + ((now - c.at) % Turn)
        seen == [c EXCEPT !.started = TRUE, !.at = now, !.on = on]
    IN  IF ~c.started \/ ~c.on THEN [stats |-> s, clock |-> seen]
        ELSE [stats |-> [s EXCEPT !.seconds = Least(MaxSeconds, @ + rest \div Second)],
              clock |-> [seen EXCEPT !.rest = rest % Second]]

(* ThermalStats_RecordFault *)
RecordFault(s, code) ==
    IF code = 0 THEN s ELSE [s EXCEPT !.faults = Least(MaxFaults, @ + 1), !.last = code]

(* ThermalStats_Encode: the fields of the answer 0x1AB. *)
Encoded(s, persisted) ==
    <<s.faults \div 256, s.faults % 256, s.seconds \div 65536, s.seconds % 65536, s.last,
      IF persisted THEN 1 ELSE 0>>

-----------------------------------------------------------------------------
(* The trim of the internal oscillator against the bit time of the bus      *)
(* (hsi_trim.c): an average over a window, one step at a time, inside a     *)
(* bounded excursion.                                                       *)

HSI_TRIM_MIN == 0
HSI_TRIM_MAX == 31
HSI_TRIM_DEFAULT == 16
MaxExcursion == 6
PpmPerStep == 3000    \* what one step is taken to move
DeadbandPpm == 1500
MaxSpreadPpm == 6000

LOCAL Size(n)     == Most(n, 0 - n)

EmptyWindow == [samples |-> 0, sum |-> 0, low |-> 0, high |-> 0]
TrimInit(initial) ==
    LET start == IF initial > HSI_TRIM_MAX THEN HSI_TRIM_DEFAULT ELSE initial
    IN  [trim |-> start, initial |-> start, window |-> EmptyWindow]

ErrorPpm(expected, measured) ==
    IF expected = 0 THEN 0 ELSE Quotient((measured - expected) * 1000000, expected)

Sampled(w, ppm) ==
    [samples |-> w.samples + 1, sum |-> w.sum + ppm,
     low  |-> IF w.samples = 0 THEN ppm ELSE Least(w.low, ppm),
     high |-> IF w.samples = 0 THEN ppm ELSE Most(w.high, ppm)]

Mean(w) == Quotient(w.sum, w.samples)
Decides(w) == w.high - w.low <= MaxSpreadPpm /\ Size(Mean(w)) > DeadbandPpm

(* A fast oscillator (a positive error) needs a lower trim. *)
OneStep(t, w) ==
    LET next == IF Mean(w) > 0 THEN t.trim - 1 ELSE t.trim + 1
    IN  IF /\ next \in HSI_TRIM_MIN..HSI_TRIM_MAX
           /\ next - t.initial \in (0 - MaxExcursion)..MaxExcursion
        THEN next ELSE t.trim

(* HsiTrim_Update: the value is written to the hardware when it changed. *)
TrimUpdate(t, expected, measured) ==
    LET w == Sampled(t.window, ErrorPpm(expected, measured))
    IN  CASE expected = 0           -> t
          [] w.samples < MinSamples -> [t EXCEPT !.window = w]
          [] OTHER -> [t EXCEPT !.window = EmptyWindow,
                                !.trim = IF Decides(w) THEN OneStep(t, w) ELSE @]

-----------------------------------------------------------------------------
(* The status lamp (firmware_led.c): red under an error, the colour of the  *)
(* host while its window lasts, blue while frames arrive, green otherwise.  *)
(* Ticks are taken modulo Turn and compared as signed numbers.              *)

LampInit == [colour |-> "green", held |-> FALSE, until |-> 0, heard |-> 0, send |-> FALSE]

Before(a, b) == (a - b) % Turn >= Turn \div 2

(* 0x100 holds its colour for a while; every frame is heard. *)
HostColour(l, colour, now) ==
    [l EXCEPT !.colour = colour, !.held = TRUE, !.until = (now + Hold) % Turn,
              !.heard = now, !.send = TRUE]
FrameHeard(l, now) == [l EXCEPT !.heard = now]

Coloured(l, c) == [l EXCEPT !.colour = c, !.send = @ \/ c # l.colour]

(* Update_StatusLED_AutoColor, in every pass of the main loop. *)
AutoColour(l, now, error) ==
    CASE error -> [Coloured(l, "red") EXCEPT !.held = FALSE]
      [] ~error /\ l.held /\ Before(now, l.until) -> l
      [] OTHER -> [Coloured(l, IF (now - l.heard) % Turn < Functioning THEN "blue" ELSE "green")
                     EXCEPT !.held = FALSE]

(* Update_StatusLED_SPI_DMA sends nothing while a transfer is under way. *)
Transmitted(l, busy) == IF busy THEN l ELSE [l EXCEPT !.send = FALSE]
=============================================================================
