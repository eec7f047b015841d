----------------------------- MODULE HeaterPid -----------------------------
(* The heater under the PID feature: the controller with its anti-windup,   *)
(* the relay autotune, and the commands of the host.  Gains are left out    *)
(* except for whether the tuned ones are inside the limits; time advances   *)
(* by one unit per control period.                                          *)
EXTENDS Integers

CONSTANTS Discarded, Measured,   \* oscillations dropped and averaged: 1 and 4
          MaxTime,               \* the longest tune
          Hysteresis, MinTarget

LOCAL Least(a, b) == IF a < b THEN a ELSE b
LOCAL Most(a, b)  == IF a < b THEN b ELSE a
LOCAL Clamp(v, lo, hi) == Most(lo, Least(hi, v))

(* Pid_Update, given the term of the filtered derivative: the integral does *)
(* not grow while the output is saturated and the error pushes outwards.    *)
PidUpdate(integral, kp, ki, error, dTerm, lo, hi) ==
    LET raw     == kp * error + integral + dTerm
        outward == (raw > hi /\ error > 0) \/ (raw < lo /\ error < 0)
    IN  [out |-> Clamp(raw, lo, hi),
         integral |-> IF outward THEN integral ELSE Clamp(integral + ki * error, lo - hi, hi - lo)]

(* -------------------------------------------------- the relay autotune *)
NoTune == [state |-> "idle", setpoint |-> 0, elapsed |-> 0, high |-> TRUE, top |-> 0 - 1000,
           bottom |-> 1000, crossed |-> 0, cycles |-> 0, started |-> FALSE,
           swing |-> 0, period |-> 0]
TuneStart(setpoint) == [NoTune EXCEPT !.state = "running", !.setpoint = setpoint]
TuneAbort(t) == IF t.state = "running" THEN [t EXCEPT !.state = "idle"] ELSE t

(* Swings are summed whole: twice the amplitude. *)
Counted(t) ==
    LET kept == t.started /\ t.cycles >= Discarded
    IN  [t EXCEPT !.swing = IF kept THEN @ + t.top - t.bottom ELSE @,
                  !.period = IF kept THEN @ + t.elapsed - t.crossed ELSE @,
                  !.cycles = IF t.started THEN @ + 1 ELSE @]
Finished(t) == [t EXCEPT !.state = IF t.swing > 0 /\ t.period > 0 THEN "done" ELSE "failed"]

(* A rising crossing closes one oscillation and opens the next. *)
RisingCross(t, m) ==
    LET c == Counted([t EXCEPT !.high = TRUE])
    IN  IF c.cycles >= Discarded + Measured /\ t.started THEN Finished(c)
        ELSE [c EXCEPT !.started = TRUE, !.crossed = t.elapsed, !.top = m, !.bottom = m]

TuneUpdate(t, m) ==
    LET seen == [t EXCEPT !.elapsed = @ + 1, !.top = Most(@, m), !.bottom = Least(@, m)]
    IN  CASE t.state # "running" -> t
          [] t.elapsed + 1 > MaxTime -> [t EXCEPT !.elapsed = @ + 1, !.state = "failed"]
          [] t.high /\ m > t.setpoint + Hysteresis -> [seen EXCEPT !.high = FALSE]
          [] ~t.high /\ m < t.setpoint - Hysteresis -> RisingCross(seen, m)
          [] OTHER -> seen

(* ------------------------------------------------ the feature of the head *)
PidInit == [tune |-> NoTune, state |-> "running", gains |-> "host", on |-> FALSE]

(* 0x1B9: the gains of the host, and the start and end of a tune. *)
SetGains(h) == [h EXCEPT !.gains = "host", !.tune = TuneAbort(@), !.state = "running"]
StartTune(h, target, isHeater, error) ==
    IF isHeater /\ ~error /\ target \in MinTarget..445
    THEN [h EXCEPT !.tune = TuneStart(target), !.state = "autotuning"] ELSE h
StopTune(h) ==
    IF h.tune.state = "running"
    THEN [h EXCEPT !.tune = TuneAbort(@), !.state = "running"] ELSE h

(* The end of a tune: the gains found replace those in force when sane. *)
Settled(h, t, sane) ==
    CASE t.state = "done" /\ sane -> [h EXCEPT !.tune = NoTune, !.state = "done", !.gains = "tuned"]
      [] t.state = "failed" \/ (t.state = "done" /\ ~sane) ->
            [h EXCEPT !.tune = NoTune, !.state = "failed"]
      [] OTHER -> [h EXCEPT !.tune = t]

(* ThermalPid_Heater: duty is what the controller asks for while nothing is *)
(* being tuned.                                                             *)
Heater(h, m, target, error, duty, sane) ==
    LET t == TuneUpdate(h.tune, m)
        stays == h.tune.state = "running"
    IN  CASE stays /\ (target = 0 \/ error) -> [StopTune(h) EXCEPT !.on = FALSE]
          [] stays  -> [Settled(h, t, sane) EXCEPT !.on = t.state = "running" /\ t.high]
          [] OTHER  -> [h EXCEPT !.on = target # 0 /\ duty]
=============================================================================
