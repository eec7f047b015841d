---------------------------- MODULE Application ----------------------------
(***************************************************************************)
(* The main loop of a tool head (STM32F303CC_main.c): the splash screen,   *)
(* then the control block of every 20 ms with the thermal control and the  *)
(* watchdogs, telemetry and the strobe; with the interrupts of             *)
(* AppHandlers between any two steps.  The IWDG resets a head whose loop   *)
(* takes longer than LoopMax; nothing else is assumed of its speed.        *)
(***************************************************************************)
EXTENDS AppHandlers, Sequences

\* The order of the calls in a round of the splash and of the loop
Stages == IF booting THEN <<"pwm", "stall", "heater", "sense", "delay">>
          ELSE <<"sense", "pwm", "stall", "heater", "weld", "telemetry", "strobe", "top">>

\* A profile forgotten in the guard of the watchdogs
Applies_NoHotAir(stage) ==
    CASE stage \in {"sense", "heater"} -> tool \in HeaterTools
      [] stage = "pwm"       -> tool \in PwmTools \ {"HOTAIR_REWORK"}
      [] stage \in {"stall", "telemetry"} -> tool = "3D_PRINTER"
      [] stage = "weld"      -> tool \in WelderTools
      [] stage = "strobe"    -> tool = "AOI_INSPECTION"
      [] OTHER               -> TRUE

\* The calls that do not return at once for this profile
Applies(stage) ==
    CASE stage = "sense"     -> tool \in HeaterTools
      [] stage = "pwm"       -> tool \in PwmTools
      [] stage = "stall"     -> tool = "3D_PRINTER"
      [] stage = "heater"    -> tool \in HeaterTools
      [] stage = "weld"      -> tool \in WelderTools
      [] stage = "telemetry" -> tool = "3D_PRINTER"
      [] stage = "strobe"    -> tool = "AOI_INSPECTION"
      [] OTHER               -> TRUE

FirstFrom(n) ==
    LET later == {i \in n..Len(Stages) : Applies(Stages[i])}
    IN Stages[CHOOSE i \in later : \A j \in later : i <= j]

After(stage) == FirstFrom((CHOOSE i \in DOMAIN Stages : Stages[i] = stage) + 1)

\* The main loop is interrupted, not run, while TIM3 is served
At(stage) == pc = stage /\ motor.isr = "idle"

outputs == <<pwm, heat, t12, guard, fan, motor, weld, strobe>>

-----------------------------------------------------------------------------
(* The loop *)

\* The IWDG is refreshed; the control block runs once in a tick, and a round in between does nothing else
Round ==
    /\ At("top") /\ due
    /\ alive' = 0 /\ due' = FALSE /\ pc' = FirstFrom(1)
    /\ UNCHANGED <<board, splash, screen, err, seen, outputs, ghosts>>

\* HAL_Delay at the end of a round of the splash
Delay ==
    /\ At("delay")
    /\ splash' = splash - 1 /\ pc' = "top"
    /\ UNCHANGED <<board, due, alive, screen, err, seen, outputs, ghosts>>

Step(next) == /\ pc' = next
              /\ UNCHANGED <<board, splash, due, alive>>

-----------------------------------------------------------------------------
(* Control_SolderingIron_PID, Control_3D_Hotend_PID *)

\* The reading, and the two refusals: an ADC that fails or an open sensor, and a target too high
Sense(reading, valid) ==
    /\ At("sense")
    /\ LET fails == ~valid \/ heat.target > MaxTarget
           temp  == IF valid THEN reading ELSE heat.temp
       IN /\ err' = (err \/ fails)
          /\ heat' = [heat EXCEPT !.temp = temp,
                                  !.target = IF @ > MaxTarget THEN 0 ELSE @]
          /\ t12' = (t12 /\ tool \notin T12Tools /\ ~err')
          /\ cold' = IF temp = heat.temp THEN cold ELSE 0
          /\ Step(IF err' THEN After("sense") ELSE "decide")
    /\ UNCHANGED <<screen, seen, pwm, guard, fan, motor, weld, strobe, errAge, calm, still, moved>>

\* The heater has been off for long and the temperature rises
Runaway == ~heat.on /\ heat.armed /\ heat.off > OffLimit /\ heat.temp > heat.base + OffRise

OffTimer(h) ==
    IF h.on THEN [h EXCEPT !.armed = FALSE, !.off = 0, !.base = 0]
    ELSE IF h.armed THEN h
    ELSE [h EXCEPT !.armed = TRUE, !.off = 0, !.base = h.temp]

\* Off or on outside the band, and as it was inside; ThermalPid_Heater may give any duty for a target
HeaterOn ==
    IF board.pid THEN IF heat.target = 0 THEN {FALSE} ELSE BOOLEAN
    ELSE IF heat.temp + Band < heat.target THEN {TRUE}
    ELSE IF heat.temp > heat.target + Band THEN {FALSE} ELSE {heat.on}

Decide ==
    /\ At("decide")
    /\ IF Runaway
       THEN err' = TRUE /\ t12' = FALSE /\ Step(After("sense")) /\ UNCHANGED <<heat, cold>>
       ELSE /\ \E on \in HeaterOn : /\ heat' = [OffTimer(heat) EXCEPT !.on = on]
                                    /\ cold' = IF on THEN cold ELSE 0
            /\ Step("check")
            /\ UNCHANGED <<err, t12>>
    /\ UNCHANGED <<screen, seen, pwm, guard, fan, motor, weld, strobe, errAge, calm, still, moved>>

\* ThermalGuard_Check and ThermalGuard_Apply
Check ==
    /\ At("check")
    /\ LET checked == Checked(guard, heat.on, heat.temp, heat.target)
           fault == checked[2] # "ok"
       IN /\ guard' = checked[1]
          /\ err' = (err \/ fault)
          /\ t12' = (t12 /\ ~fault)
          /\ heat' = IF fault THEN [heat EXCEPT !.target = 0, !.on = FALSE] ELSE heat
          /\ cold' = IF fault THEN 0 ELSE cold
          /\ Step(IF fault THEN After("sense") ELSE "drive")
    /\ UNCHANGED <<screen, seen, pwm, fan, motor, weld, strobe, errAge, calm, still, moved>>

Drive ==
    /\ At("drive")
    /\ t12' = heat.on
    /\ Step(After("sense"))
    /\ UNCHANGED <<screen, err, seen, pwm, heat, guard, fan, motor, weld, strobe, ghosts>>

-----------------------------------------------------------------------------
(* Watchdog_Safety_Laser, _Drill, _UVCuring, _LayerFan, _HotAirBlower *)

\* clock - stamp, as ages; the clock may have been read before a frame set the
\* stamp, and then the unsigned difference is huge
Exceeds(stamp, clock, limit) == stamp < clock \/ stamp - clock > limit

PwmRead ==
    /\ At("pwm")
    /\ seen' = 0
    /\ Step(IF pwm.cmd THEN "pwmCompare" ELSE After("pwm"))
    /\ UNCHANGED <<screen, err, outputs, ghosts>>

PwmCompare ==
    /\ At("pwmCompare")
    /\ seen' = 0
    /\ Step(IF Exceeds(pwm.kick, seen, Limit) THEN "pwmZero" ELSE After("pwm"))
    /\ UNCHANGED <<screen, err, outputs, ghosts>>

\* Three writes, with frames between them
PwmTrip ==
    /\ \/ /\ At("pwmZero") /\ Step("pwmCut")
          /\ pwm' = [pwm EXCEPT !.cmd = FALSE, !.kick = 0] /\ UNCHANGED err
       \/ /\ At("pwmCut") /\ Step("pwmLatch")
          /\ pwm' = [pwm EXCEPT !.out = FALSE, !.pin = FALSE] /\ UNCHANGED err
       \/ /\ At("pwmLatch") /\ Step(After("pwm"))
          /\ err' = TRUE /\ UNCHANGED pwm
    /\ UNCHANGED <<screen, seen, heat, t12, guard, fan, motor, weld, strobe, ghosts>>

\* Watchdog_Safety_HotendFan
Stalled == fan.cmd /\ ~fan.rpm /\ fan.stall > StallLimit

Stall ==
    /\ At("stall")
    /\ err' = (err \/ Stalled)
    /\ fan' = [fan EXCEPT !.stall = IF fan.cmd /\ ~fan.rpm THEN @ ELSE 0]
    /\ Step(After("stall"))
    /\ UNCHANGED <<screen, seen, pwm, heat, t12, guard, motor, weld, strobe, ghosts>>

\* Watchdog_Safety_SolderIron, Watchdog_Safety_HotendHeater
HeaterRead ==
    /\ At("heater")
    /\ seen' = 0
    /\ Step(IF heat.target > 0 THEN "heaterCompare" ELSE After("heater"))
    /\ UNCHANGED <<screen, err, outputs, ghosts>>

HeaterCompare ==
    /\ At("heaterCompare")
    /\ seen' = 0
    /\ Step(IF Exceeds(heat.kick, seen, ShortLimit) THEN "heaterZero" ELSE After("heater"))
    /\ UNCHANGED <<screen, err, outputs, ghosts>>

HeaterTrip ==
    /\ \/ /\ At("heaterZero") /\ Step("heaterLatch")
          /\ heat' = [heat EXCEPT !.target = 0, !.kick = 0] /\ cold' = ColdWith(0)
          /\ UNCHANGED err
       \/ /\ At("heaterLatch") /\ Step(After("heater"))
          /\ err' = TRUE /\ UNCHANGED <<heat, cold>>
    /\ UNCHANGED <<screen, seen, pwm, t12, guard, fan, motor, weld, strobe, errAge, calm, still, moved>>

-----------------------------------------------------------------------------
(* WeldPulse_Tick, Telemetry_HotendFan, the strobe *)

PulseOver == weld.active /\ weld.age >= weld.ms

WeldTick ==
    /\ \/ /\ At("weld")
          /\ t12' = (t12 /\ ~PulseOver)
          /\ Step(IF PulseOver THEN "weldOff" ELSE After("weld"))
          /\ UNCHANGED weld
       \/ /\ At("weldOff")
          /\ weld' = [weld EXCEPT !.active = FALSE, !.age = 0, !.ms = 0]
          /\ Step(After("weld"))
          /\ UNCHANGED t12
    /\ UNCHANGED <<screen, err, seen, pwm, heat, guard, fan, motor, strobe, ghosts>>

\* The pulses of one window of 150 ms
Counted == [fan EXCEPT !.rpm = fan.pulses, !.pulses = FALSE]

Telemetry ==
    /\ At("telemetry")
    /\ IF screen >= ScreenPeriod
       THEN screen' = 0 /\ fan' = Counted
       ELSE UNCHANGED <<screen, fan>>
    /\ Step(After("telemetry"))
    /\ UNCHANGED <<err, seen, pwm, heat, t12, guard, motor, weld, strobe, ghosts>>

\* 1 to 500 ms
SafePeriod(period) == IF period < 1 THEN 1 ELSE Capped(period, PeriodCeiling)

StrobeStart ==
    /\ At("strobe")
    /\ strobe' = IF strobe.flag
                 THEN [strobe EXCEPT !.flag = FALSE, !.ring = TRUE, !.active = TRUE,
                                     !.left = SafePeriod(strobe.period), !.lit = 0]
                 ELSE strobe
    /\ Step("strobeEnd")
    /\ UNCHANGED <<screen, err, seen, pwm, heat, t12, guard, fan, motor, weld, ghosts>>

\* The end is the sign of a difference
StrobeOver == strobe.active /\ strobe.left <= 0

StrobeEnd ==
    /\ At("strobeEnd")
    /\ strobe' = IF StrobeOver
                 THEN [strobe EXCEPT !.active = FALSE, !.ring = FALSE, !.left = 0, !.lit = 0]
                 ELSE strobe
    /\ Step(After("strobe"))
    /\ UNCHANGED <<screen, err, seen, pwm, heat, t12, guard, fan, motor, weld, ghosts>>

-----------------------------------------------------------------------------
(* Time *)

Aged(n, counts, cap) == IF counts THEN Capped(n + 1, cap) ELSE 0

\* Nobody looks at the stamps of a fan that is never turned on
HasFan == "hotendFan" \in board.uses

\* TIM3 has many periods in a tick: it has run in a fault
CutIsDone == err => motor = CutMotor /\ pwm = CutPwm

Tick ==
    /\ motor.isr = "idle" /\ CutIsDone
    /\ alive < LoopMax
    /\ alive' = alive + 1 /\ due' = TRUE
    /\ seen' = IF pc \in {"pwmCompare", "heaterCompare"} THEN Capped(seen + 1, LoopMax) ELSE 0
    /\ pwm' = [pwm EXCEPT !.kick = Aged(@, pwm.cmd, KickMax)]
    /\ heat' = [heat EXCEPT !.kick = Aged(@, heat.target > 0, HeatMax),
                            !.off = Aged(@, heat.armed, OffLimit + 1)]
    /\ guard' = Aging(guard)
    /\ fan' = [fan EXCEPT !.stall = Aged(@, HasFan, StallLimit + 1)]
    /\ screen' = Aged(screen, HasFan, ScreenPeriod)
    /\ weld' = [weld EXCEPT !.age = Aged(@, weld.active, WeldMax)]
    /\ strobe' = [strobe EXCEPT !.left = IF strobe.active /\ @ > -StrobeMax THEN @ - 1 ELSE @,
                                !.lit = Aged(@, strobe.active, StrobeMax)]
    /\ errAge' = Aged(errAge, err, ErrMax)
    /\ calm' = IF calm = 0 THEN 0 ELSE Capped(calm + 1, ErrMax + 1)
    /\ cold' = Aged(cold, heat.on, ColdMax)
    /\ still' = Aged(still, fan.cmd, StillMax)
    /\ UNCHANGED <<board, splash, pc, err, t12, motor, moved>>

\* The loop has not refreshed the IWDG in time
WatchdogReset == alive = LoopMax /\ motor.isr = "idle" /\ Restart

MainStep ==
    \/ Round \/ Delay
    \/ (\E reading \in board.temps, valid \in BOOLEAN : Sense(reading, valid)) \/ Decide \/ Check \/ Drive
    \/ PwmRead \/ PwmCompare \/ PwmTrip \/ Stall
    \/ HeaterRead \/ HeaterCompare \/ HeaterTrip
    \/ WeldTick \/ Telemetry \/ StrobeStart \/ StrobeEnd

Next == MainStep \/ Interrupt \/ Tick \/ WatchdogReset

Spec == Init /\ [][Next]_vars

-----------------------------------------------------------------------------
(* Properties *)

\* Nothing outlasts what was asked for: power on TIM1 and a set point the limit
\* of their watchdog, a weld pulse and a flash their clamped duration, by more
\* than the two rounds the main loop may take to notice; whatever frames come
\* in between, during the splash and at a reset too.
OutputsAreBounded ==
    /\ pwm.cmd /\ pwm.out => pwm.kick <= Limit + Rounds(2)
    /\ tool \in HeaterTools /\ heat.target > 0 => heat.kick <= ShortLimit + Rounds(2)
    /\ tool \in WelderTools /\ t12 => weld.age <= PulseCeiling + Rounds(2)
    /\ strobe.active => strobe.lit <= PeriodCeiling + Rounds(2)

\* A fault stops what moves, burns and heats within two rounds.
ErrorQuiets ==
    errAge > Rounds(2) =>
      /\ ~pwm.out /\ motor.steps = 0 /\ ~motor.driver
      /\ tool \in HeaterTools => ~t12
      /\ tool = "LASER_ENGRAVER" => ~pwm.pin

\* Under a fault that stays nothing starts again: what is off stays off.
NothingStartsUnderError ==
    [][err /\ err' => /\ pwm'.out => pwm.out
                      /\ t12' => t12
                      /\ motor'.steps <= motor.steps /\ (motor'.driver => motor.driver)]_vars

\* Within the band around zero a heater with no target stays as it is: one
\* that is on does, until a reading above the band has been decided on
Deciding  == {"decide", "check", "drive"}
StaysAsIs == ~board.pid /\ (heat.temp <= Band \/ pc \in Deciding)

\* After a SAFE_STOP with no command behind it, the outputs go off and stay off.
\* Two do not: the driver of the expansion board of a crimping head, and a heater
\* that was on, as long as its reading is within the band around zero.
SafeStopHolds ==
    calm > 1 + Rounds(2) =>
      /\ ~pwm.out /\ ~fan.out
      /\ motor.driver => tool = "CRIMPING_ACTUATOR"
      /\ t12 => tool \in HeaterTools /\ StaysAsIs

\* "heaters off, motion stopped, outputs released" (firmware_multinode_platform.c:11-12),
\* on every head: not kept by the two above.
OutputsReleased ==
    calm > 1 + Rounds(2) => ~pwm.out /\ ~t12 /\ ~fan.out /\ ~motor.driver

\* The longest the guard needs to tell a sensor that is silent: two windows of the
\* heating, for the first may have begun with a lower reading, or the hold
GuardDelay == IF 2 * WatchPeriod < HoldPeriod THEN HoldPeriod ELSE 2 * WatchPeriod

\* A sensor that stays silent is found out: a reading that does not change, far
\* below the target of a heater that every decision leaves on, while it heats up
\* and while it holds; a fan of the hotend that is commanded on and does not
\* turn, which is looked at only after the splash.
SilentSensorCaught ==
    /\ ~err /\ heat.temp + HoldHysteresis < heat.target => cold <= GuardDelay + Rounds(4)
    /\ still > StallLimit + 1 + 2 * ScreenPeriod + Rounds(SplashRounds + 6) => err

\* The motor never makes more steps than the last move asked for, however the
\* move and the step interrupt cross.
NoStepBeyondCommand == ~moved.stop => moved.made <= moved.asked

\* "steps==0 is a stop request": at most the pulse in progress is finished.
StopStops == moved.stop => moved.made <= 1

-----------------------------------------------------------------------------
(* The inductive invariant behind the properties: what is true of a round  *)
(* before, and what after, the step that looks at an output.               *)

Sensing  == {"sense", "decide", "check", "drive"}
PwmWatch == {"pwm", "pwmCompare", "pwmZero", "pwmCut", "pwmLatch"}
HeaterWatch == {"heater", "heaterCompare", "heaterZero", "heaterLatch"}

\* The main loop is at a step that its profile has, and of this kind of round
PlaceInv ==
    /\ pc \in Sensing \cup HeaterWatch => tool \in HeaterTools
    /\ pc \in PwmWatch => tool \in PwmTools
    /\ pc \in {"stall", "telemetry"} => tool = "3D_PRINTER"
    /\ pc \in {"weld", "weldOff"} => tool \in WelderTools /\ ~booting
    /\ pc \in {"strobe", "strobeEnd"} => tool = "AOI_INSPECTION" /\ ~booting
    /\ pc = "telemetry" => ~booting
    /\ pc = "delay" => booting

\* A step is still to come in this round
SenseAhead  == IF booting THEN pc \in PwmWatch \cup {"stall"} \cup HeaterWatch \cup {"sense"}
               ELSE pc = "sense"
DriveAhead  == SenseAhead \/ pc \in {"decide", "check", "drive"}
PwmAhead    == pc \in {"pwm", "pwmCompare", "pwmZero"} \/ (~booting /\ pc \in Sensing)
HeaterAhead == \/ pc \in PwmWatch \cup {"stall", "heater", "heaterCompare", "heaterZero"}
               \/ ~booting /\ pc \in Sensing
WeldAhead   == pc \notin {"top", "delay", "telemetry", "strobe", "strobeEnd", "weldOff"}
StrobeAhead == pc \notin {"top", "delay"}

\* A quantity that ages by a tick at most, and that a step of each round
\* brings under `limit`
Within(age, limit, ahead) == age <= limit + alive + IF ahead THEN LoopMax ELSE 0

PwmInv ==
    /\ pwm.cmd => tool \in PwmTools /\ Within(pwm.kick, Limit, PwmAhead)
    /\ pc \in {"pwmCompare", "heaterCompare"} => seen <= alive

HeatInv ==
    tool \in HeaterTools /\ heat.target > 0 => Within(heat.kick, ShortLimit, HeaterAhead)

WeldInv ==
    /\ weld.active => ~booting /\ tool \in WelderTools
    /\ pc = "weldOff" => weld.active
    /\ tool \in WelderTools /\ t12 =>
          weld.active /\ pc # "weldOff" /\ Within(weld.age, PulseCeiling, WeldAhead)

StrobeInv ==
    strobe.active => /\ ~booting /\ tool = "AOI_INSPECTION"
                     /\ strobe.lit <= PeriodCeiling - strobe.left
                     /\ Within(strobe.lit, PeriodCeiling, StrobeAhead)

\* A fault comes up between two runs of the step interrupt, which then only
\* cuts; the heater goes off at the next reading
FaultInv ==
    /\ err => motor.isr = "idle"
    /\ pc \in {"decide", "check", "drive"} => ~err
    /\ ~err => errAge = 0
    /\ errAge > 0 => motor.steps = 0 /\ ~motor.driver /\ ~pwm.out /\ ~pwm.pin
    /\ tool \in HeaterTools /\ t12 /\ err => Within(errAge, 0, SenseAhead)

\* The pulses made and those to come are those asked for, but for the one in
\* progress
StepInv ==
    ~moved.stop =>
        /\ moved.made <= moved.asked
        /\ motor.steps > 0 =>
              moved.made <= moved.asked - motor.steps
                              + IF motor.pin \/ motor.isr = "count" THEN 1 ELSE 0
        /\ motor.isr \in {"rise", "fall", "count"} => motor.steps > 0

\* A SAFE_STOP clears what it can; a heater decided on before it goes off with
\* the decision of the next round, unless it reads within the band around zero
CalmInv ==
    /\ calm > 0 => /\ board.multi /\ heat.target = 0 /\ ~pwm.out /\ ~fan.out
                   /\ tool # "CRIMPING_ACTUATOR" => ~motor.driver
                   /\ t12 => /\ tool \in HeaterTools
                             /\ Within(calm, 1, DriveAhead) \/ StaysAsIs
    /\ calm > 0 /\ pc \in {"check", "drive"} /\ heat.on =>
         Within(calm, 1, FALSE) \/ (~board.pid /\ heat.temp <= Band)

AppInv ==
    /\ TypeOK
    /\ PlaceInv
    /\ PwmInv
    /\ HeatInv
    /\ WeldInv
    /\ StrobeInv
    /\ FaultInv
    /\ StepInv
    /\ CalmInv

-----------------------------------------------------------------------------
(* The same for a sensor that stays silent: `slack` is the time that the   *)
(* step which looks at it may be late, two rounds at the most.             *)

CheckAhead     == SenseAhead \/ pc \in {"decide", "check"}
StallAhead     == pc \in PwmWatch \cup {"stall"} \/ (~booting /\ pc \in Sensing)
TelemetryAhead == pc # "top"

Slack(ahead) == alive + IF ahead THEN LoopMax ELSE 0

\* The guard watches the heating, or times how long the reading stays low;
\* otherwise it has not looked since the reading, the target or the heater
\* changed
Watches(g, temp, target) ==
    g.target = target /\ ~g.reached /\ g.watching /\ FarBelow(g, temp)
Times(g, target) == g.target = target /\ g.reached /\ g.sagging

\* How old the silence may have been when the window began: a second window
\* begins when the first has seen the reading rise
Begun(g, temp) == IF temp < g.base + WatchMinRise THEN WatchPeriod + Rounds(2) ELSE 0

SilenceIsTimed(g, temp, target, age, slack) ==
    /\ Watches(g, temp, target) =>
         /\ g.watch < WatchPeriod => age <= Begun(g, temp) + g.watch
         /\ age <= Begun(g, temp) + WatchPeriod + slack
    /\ Times(g, target) =>
         /\ g.sag < HoldPeriod => age <= Rounds(2) + g.sag
         /\ age <= Rounds(2) + HoldPeriod + slack
    /\ ~Watches(g, temp, target) /\ ~Times(g, target) => age <= slack

ColdInv ==
    /\ IF heat.on THEN tool \in HeaterTools ELSE cold = 0
    /\ ~err /\ heat.temp + HoldHysteresis < heat.target =>
         SilenceIsTimed(guard, heat.temp, heat.target, cold, Slack(CheckAhead))

\* The silence of a fan when its last pulse is counted, and when a window
\* without a pulse is over
LastCounted  == ScreenPeriod + Rounds(SplashRounds + 2)
SilenceKnown == LastCounted + ScreenPeriod + Rounds(2)

\* The pulses are still to be counted; they were, and the next window is not
\* over; or the stall is timed
StillnessIsTimed(f, window, round, age, slack, stallSlack) ==
    /\ f.pulses =>
         /\ window < ScreenPeriod => age <= window
         /\ age <= ScreenPeriod + Rounds(SplashRounds - round) + slack
    /\ f.rpm /\ ~f.pulses =>
         /\ window < ScreenPeriod => age <= LastCounted + window
         /\ age <= LastCounted + ScreenPeriod + slack
    /\ ~f.rpm =>
         /\ f.stall <= StallLimit => age <= SilenceKnown + f.stall
         /\ age <= SilenceKnown + StallLimit + 1 + stallSlack

FanInv ==
    /\ fan.cmd => HasFan /\ tool = "3D_PRINTER"
    /\ ~fan.cmd => still = 0
    /\ booting => ~fan.rpm
    /\ ~err /\ fan.cmd =>
         StillnessIsTimed(fan, screen, splash, still, Slack(TelemetryAhead), Slack(StallAhead))

SensorInv == ColdInv /\ FanInv
=============================================================================
