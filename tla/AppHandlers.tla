---------------------------- MODULE AppHandlers ----------------------------
(***************************************************************************)
(* What the interrupts do.  The receive interrupt of the CAN (priority 1)  *)
(* runs between any two steps of the main loop and of the step interrupt   *)
(* (TIM3, priority 2), and is a step itself; a frame that no handler       *)
(* accepts changes nothing and is not a step.                              *)
(***************************************************************************)
EXTENDS AppState

\* A dispatcher that lets the tools' frames through in a fault
Accepts_InError(handler, command) ==
    /\ handler \in RouteForTool(tool)
    /\ command \in board.uses

\* The gates of HAL_CAN_RxFifo0MsgPendingCallback before a tool's handler
Accepts(handler, command) ==
    /\ ~err
    /\ handler \in RouteForTool(tool)
    /\ command \in board.uses

\* What no handler changes
rest == <<env, err, seen, guard, errAge>>

Kicked(on) == [pwm EXCEPT !.cmd = on, !.kick = 0, !.out = on]
Aimed(target) == [heat EXCEPT !.target = target, !.kick = 0]
ColdWith(target) == IF target = heat.target THEN cold ELSE 0

\* Handle_CAN_Laser: the interlock follows the enable byte, the power needs both
Laser(on, enable) ==
    /\ Accepts("Laser", "laser") /\ ~booting
    /\ pwm' = [Kicked(on) EXCEPT !.out = on /\ enable, !.pin = enable]
    /\ calm' = 0
    /\ UNCHANGED <<rest, heat, t12, fan, motor, weld, strobe, cold, still, moved>>

\* Handle_CAN_Drill: the brake is released while there is a speed
Drill(on) ==
    /\ Accepts("Drill", "drill") /\ ~booting
    /\ pwm' = [Kicked(on) EXCEPT !.pin = on]
    /\ calm' = 0
    /\ UNCHANGED <<rest, heat, t12, fan, motor, weld, strobe, cold, still, moved>>

UVCuring(on) ==
    /\ Accepts("UVCuring", "uv") /\ ~booting
    /\ pwm' = Kicked(on)
    /\ calm' = 0
    /\ UNCHANGED <<rest, heat, t12, fan, motor, weld, strobe, cold, still, moved>>

HotAirRework(target, on) ==
    /\ Accepts("HotAirRework", "air") /\ ~booting
    /\ pwm' = Kicked(on) /\ heat' = Aimed(target) /\ cold' = ColdWith(target)
    /\ calm' = 0
    /\ UNCHANGED <<rest, t12, fan, motor, weld, strobe, still, moved>>

\* Handle_CAN_SolderingIron; the set point is taken during the splash too
SolderingIron(target) ==
    /\ Accepts("SolderingIron", "heat")
    /\ heat' = Aimed(target) /\ cold' = ColdWith(target)
    /\ calm' = 0
    /\ UNCHANGED <<rest, pwm, t12, fan, motor, weld, strobe, still, moved>>

Electromagnet(on) ==
    /\ Accepts("Electromagnet", "magnet") /\ ~booting
    /\ t12' = on
    /\ calm' = 0
    /\ UNCHANGED <<rest, pwm, heat, fan, motor, weld, strobe, cold, still, moved>>

-----------------------------------------------------------------------------
(* The step motor *)

\* A move, or a stop: under disabled interrupts, so in one step.  A change of
\* direction clears steps_remaining first, and either branch writes it again
Commanded(steps) ==
    IF steps > 0
    THEN [motor EXCEPT !.steps = steps, !.high = FALSE, !.pin = FALSE, !.driver = TRUE]
    ELSE [motor EXCEPT !.steps = 0]

MoveAsked(steps) == [asked |-> steps, made |-> 0, stop |-> steps = 0]

\* Handle_CAN_MotionTools and Handle_CAN_CrimpingActuator
Motion(steps) ==
    /\ \/ Accepts("MotionTools", "move")
       \/ Accepts("CrimpingActuator", "move")
    /\ ~booting
    /\ motor' = Commanded(steps)
    /\ moved' = MoveAsked(steps)
    /\ calm' = 0
    /\ UNCHANGED <<rest, pwm, heat, t12, fan, weld, strobe, cold, still>>

\* Handle_CAN_3DPrinter, 0x170: the target at any time, the extruder after the splash
PrinterThermalMotion(target, steps) ==
    /\ Accepts("3DPrinter", "extrude")
    /\ heat' = Aimed(target) /\ cold' = ColdWith(target)
    /\ motor' = IF booting THEN motor ELSE Commanded(steps)
    /\ moved' = IF booting THEN moved ELSE MoveAsked(steps)
    /\ calm' = 0
    /\ UNCHANGED <<rest, pwm, t12, fan, weld, strobe, still>>

\* 0x173, 0x178: the two fans, at any time
PrinterLayerFan(on) ==
    /\ Accepts("3DPrinter", "layerFan")
    /\ pwm' = Kicked(on)
    /\ calm' = 0
    /\ UNCHANGED <<rest, heat, t12, fan, motor, weld, strobe, cold, still, moved>>

PrinterHotendFan(on) ==
    /\ Accepts("3DPrinter", "hotendFan")
    /\ fan' = [fan EXCEPT !.cmd = on, !.out = on]
    /\ still' = IF on THEN still ELSE 0
    /\ calm' = 0
    /\ UNCHANGED <<rest, pwm, heat, t12, motor, weld, strobe, cold, moved>>

\* A fault that cuts the driver alone
CutPwm_Runs == pwm

\* HAL_TIM_PeriodElapsedCallback in a fault: every period cuts again
CutMotor == [motor EXCEPT !.steps = 0, !.driver = FALSE]
CutPwm == [pwm EXCEPT !.out = FALSE, !.pin = FALSE]

StepError ==
    /\ motor.isr = "idle" /\ err
    /\ motor' = CutMotor /\ pwm' = CutPwm
    /\ UNCHANGED <<rest, heat, t12, fan, weld, strobe, calm, cold, still, moved>>

\* Without a fault it begins half a pulse
StepBegin ==
    /\ motor.isr = "idle" /\ ~err /\ motor.steps > 0
    /\ motor' = [motor EXCEPT !.isr = IF motor.high THEN "fall" ELSE "rise"]
    /\ UNCHANGED <<rest, pwm, heat, t12, fan, weld, strobe, calm, cold, still, moved>>

\* Its next instruction: the driver counts a step at each rising edge
StepRise ==
    /\ motor.isr = "rise"
    /\ motor' = [motor EXCEPT !.pin = TRUE, !.isr = "raised"]
    /\ moved' = IF motor.pin \/ ~motor.driver THEN moved
                ELSE [moved EXCEPT !.made = Capped(@ + 1, Modulus + 1)]
    /\ UNCHANGED <<rest, pwm, heat, t12, fan, weld, strobe, calm, cold, still>>

\* The decrement cut in two by the receive interrupt would write back the old count
StepCounted_Stale(m) == [m EXCEPT !.steps = @, !.isr = "zero"]

StepCounted(m) == [m EXCEPT !.steps = (@ + Modulus - 1) % Modulus, !.isr = "zero"]

\* Interrupts may come between any two of these
StepRest ==
    /\ motor' =
         CASE motor.isr = "raised" -> [motor EXCEPT !.high = TRUE, !.isr = "idle"]
           [] motor.isr = "fall"   -> [motor EXCEPT !.pin = FALSE, !.high = FALSE, !.isr = "count"]
           [] motor.isr = "count"  -> StepCounted(motor)
           [] motor.isr = "zero"   -> [motor EXCEPT !.isr = IF motor.steps = 0 /\ ReleasesDriver(tool)
                                                            THEN "cut" ELSE "idle"]
           [] motor.isr = "cut"    -> [motor EXCEPT !.driver = FALSE, !.isr = "idle"]
           [] OTHER                -> motor
    /\ motor.isr \in {"raised", "fall", "count", "zero", "cut"}
    /\ UNCHANGED <<rest, pwm, heat, t12, fan, weld, strobe, calm, cold, still, moved>>

-----------------------------------------------------------------------------
(* Pulses, the strobe and what stops everything *)

\* urtc_weld_clamp_ms
ClampPulse(ms) == Capped(ms, PulseCeiling)

\* Handle_CAN_WeldPulse; the electrodes of the spot welder may not touch
WeldPulse(ms) ==
    /\ Accepts("WeldPulse", "weld") /\ ~booting
    /\ ~weld.active
    /\ weld' = [active |-> TRUE, age |-> 0, ms |-> ClampPulse(ms)]
    /\ t12' = TRUE
    /\ calm' = 0
    /\ UNCHANGED <<rest, pwm, heat, fan, motor, strobe, cold, still, moved>>

\* Handle_CAN_AOI: one flash, lit, dark
AOI(aoiMode, period) ==
    /\ Accepts("AOI", "strobe")
    /\ strobe' = [strobe EXCEPT !.period = period,
                                !.flag = IF aoiMode = "strobe" THEN TRUE ELSE @,
                                !.ring = IF aoiMode = "strobe" THEN @ ELSE aoiMode = "lit"]
    /\ calm' = 0
    /\ UNCHANGED <<rest, pwm, heat, t12, fan, motor, weld, cold, still, moved>>

\* A safe state that leaves the set point of the heater
SafeState_KeepsTarget ==
    /\ pwm' = [pwm EXCEPT !.out = FALSE, !.pin = FALSE]
    /\ t12' = FALSE
    /\ fan' = [fan EXCEPT !.out = FALSE]
    /\ motor' = [motor EXCEPT !.steps = 0, !.driver = FALSE]
    /\ UNCHANGED heat

\* MultiNode_PlatformSafeState, on a SAFE_STOP or a clash of addresses.  The
\* driver of the expansion board is not among what it stops, and the commands
\* of the drill, the lamp and the fans stay
SafeState ==
    /\ pwm' = [pwm EXCEPT !.out = FALSE, !.pin = FALSE,
                          !.cmd = IF tool = "LASER_ENGRAVER" THEN FALSE ELSE @,
                          !.kick = IF tool = "LASER_ENGRAVER" THEN 0 ELSE @]
    /\ heat' = [heat EXCEPT !.target = 0, !.kick = 0]
    /\ t12' = FALSE
    /\ fan' = [fan EXCEPT !.out = FALSE]
    /\ motor' = [motor EXCEPT !.steps = 0,
                              !.driver = IF tool = "CRIMPING_ACTUATOR" THEN @ ELSE FALSE]

SafeStop ==
    /\ board.multi
    /\ SafeState
    /\ calm' = 1 /\ cold' = ColdWith(0)
    /\ moved' = MoveAsked(0)
    /\ UNCHANGED <<rest, weld, strobe, still>>

\* 0x7F0, before every gate
EnterBootloader == "bootloader" \in board.uses /\ Restart

\* HAL_GPIO_EXTI_Callback: a pulse of the tachometer of a fan that turns
FanPulse ==
    /\ fan.out
    /\ fan' = [fan EXCEPT !.pulses = TRUE]
    /\ still' = 0
    /\ UNCHANGED <<rest, pwm, heat, t12, motor, weld, strobe, calm, cold, moved>>

Frame ==
    \/ \E on, enable \in BOOLEAN : Laser(on, enable)
    \/ \E on \in BOOLEAN : Drill(on) \/ UVCuring(on) \/ Electromagnet(on)
                            \/ PrinterLayerFan(on) \/ PrinterHotendFan(on)
    \/ \E target \in board.targets : SolderingIron(target) \/ \E on \in BOOLEAN : HotAirRework(target, on)
    \/ \E steps \in Moves : Motion(steps) \/ \E target \in board.targets : PrinterThermalMotion(target, steps)
    \/ \E ms \in Pulses : WeldPulse(ms)
    \/ \E aoiMode \in {"strobe", "lit", "dark"}, period \in Periods : AOI(aoiMode, period)
    \/ SafeStop
    \/ EnterBootloader

Interrupt == Frame \/ StepError \/ StepBegin \/ StepRise \/ StepRest \/ FanPulse
=============================================================================
