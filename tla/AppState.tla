------------------------------ MODULE AppState ------------------------------
(***************************************************************************)
(* The state of the application of a tool head: what the variables of      *)
(* STM32F303CC_main.c and the statics of the control functions hold.       *)
(*                                                                         *)
(* A stamp of HAL_GetTick() is kept as its age in ticks.  A tick stands    *)
(* for many periods of TIM3 and for at least one of the control block.     *)
(***************************************************************************)
EXTENDS ThermalGuard, Integers, FiniteSets

-----------------------------------------------------------------------------
(* The profiles: ToolMode_t of firmware_common.h, the handlers that a frame *)
(* of each is given to (firmware_can_dispatch_routing.c), and which of the  *)
(* shared outputs each has at start-up (firmware_init_gpio.c).              *)

\* The groups of ToolMode_t that the code tells apart.  VACUUM_PICKUP and
\* SCAN_PROBE take no command of their own; CONFORMAL_COATING and
\* PRESSFIT_INSERTER only identify themselves.
DispenserTools == {"PASTE_DISPENSER", "LIQUID_DISPENSER", "SCREWDRIVER", "SMT_PICKPLACE"}
HoldingTools   == {"GRIPPER_GIMBAL", "GRIPPER_NEMA", "VACUUM_GRIPPER_LG", "3D_PRINTER"}
WelderTools    == {"SPOT_WELDER", "ULTRASONIC_WELDER"}
SilentTools    == {"VACUUM_PICKUP", "SCAN_PROBE", "CONFORMAL_COATING", "PRESSFIT_INSERTER", "INVALID"}

DedicatedRoute ==
    [DRILL |-> "Drill", AOI_INSPECTION |-> "AOI", LASER_ENGRAVER |-> "Laser",
     ELECTROMAGNET |-> "Electromagnet", UV_CURING |-> "UVCuring",
     HOTAIR_REWORK |-> "HotAirRework", CRIMPING_ACTUATOR |-> "CrimpingActuator",
     PASTE_JETTING |-> "PasteJetting", FLYING_PROBE |-> "FlyingProbe",
     THERMAL_INSPECTION |-> "ThermalInspection"]

Tools == DispenserTools \cup HoldingTools \cup WelderTools \cup SilentTools
           \cup DOMAIN DedicatedRoute \cup {"SOLDERING_IRON"}

\* CanDispatch_RouteForTool: the handlers that see a frame
RouteForTool(tool) ==
    CASE tool = "SOLDERING_IRON"                             -> {"SolderingIron", "MotionTools"}
      [] tool = "3D_PRINTER"                                 -> {"3DPrinter"}
      [] tool \in DispenserTools \cup (HoldingTools \ {"3D_PRINTER"}) -> {"MotionTools"}
      [] tool \in WelderTools                                -> {"WeldPulse"}
      [] tool \in DOMAIN DedicatedRoute                      -> {DedicatedRoute[tool]}
      [] OTHER                                               -> {}

\* The tools whose TIM1 channel drives something, and their watchdog on it
ShortPwmTools == {"LASER_ENGRAVER", "DRILL", "UV_CURING"}
LongPwmTools  == {"3D_PRINTER", "HOTAIR_REWORK"}
PwmTools      == ShortPwmTools \cup LongPwmTools

\* The tools with a heater on the T12 pin
T12Tools    == {"SOLDERING_IRON", "HOTAIR_REWORK"}
HeaterTools == T12Tools \cup {"3D_PRINTER"}

\* The tools whose driver is cut once a move is over: nothing is held
ReleasesDriver(tool) == tool \notin HoldingTools

-----------------------------------------------------------------------------

CONSTANTS
    Boards,        \* The heads looked at: profile, what the host sends, readings
    ShortLimit,    \* Ticks in the 250 ms of the watchdogs of what burns or cuts
    LongLimit,     \* Ticks in the 1000 ms of the watchdogs of what blows air
    LoopMax,       \* Ticks in the 800 ms of the IWDG
    SplashRounds,  \* Rounds of the splash screen
    StallLimit,    \* Ticks in the 3 s of the stall detector
    ScreenPeriod,  \* Ticks in the 150 ms of the telemetry block
    OffLimit,      \* Ticks in the 3 s of the detector of a heater that does not switch off
    OffRise,       \* Its 5 degrees
    Band,          \* The 2 degrees around the target
    MaxTarget,     \* The highest target that is not refused
    PulseCeiling, PeriodCeiling,      \* The 2000 ms of a weld pulse, the 500 ms of a strobe
    Modulus,       \* Bound: the 2^32 at which steps_remaining wraps
    Moves, Pulses, Periods            \* What the host asks for

\* What a host may be sending to a head
Commands == {"laser", "drill", "uv", "air", "heat", "magnet", "move", "extrude", "layerFan",
             "hotendFan", "weld", "strobe", "bootloader"}

ASSUME AppAssumption ==
    /\ Boards \subseteq [tool : Tools, multi : BOOLEAN, pid : BOOLEAN,
                         uses : SUBSET Commands, temps : SUBSET Nat, targets : SUBSET Nat]
    /\ {OffLimit, OffRise, Band, MaxTarget, SplashRounds, PulseCeiling} \subseteq Nat
    /\ {ShortLimit, LongLimit, LoopMax, StallLimit, ScreenPeriod, PeriodCeiling} \subseteq Nat \ {0}
    /\ Modulus \in Nat \ {0} /\ Moves \subseteq 0..(Modulus - 2)
    /\ Pulses \subseteq Nat /\ Periods \subseteq Nat

VARIABLES
    board,   \* Which head this is
    splash,  \* Rounds of the splash screen left; boot_sequence_active while there are
    pc,      \* Where the main loop is
    due,     \* 20 ms have passed since the control block
    alive,   \* Ticks since the IWDG was refreshed
    err,     \* system_error_flag
    seen,    \* The age of the HAL_GetTick() a watchdog has read
    pwm,     \* TIM1 channel 1: command, age of its last kick, compare, PB6 or the brake
    heat,    \* target_temperature, its kick; the reading; the heater flag and its off timer
    t12,     \* The T12 pin: heater, magnet or weld pulse
    guard,   \* t12_guard or hotend_guard
    fan,     \* The fan of the hotend: TIM2, pulses, rpm, age of stall_start_tick
    screen,  \* Ticks since the telemetry block
    motor,   \* steps_remaining, the STEP pin, the driver, where the step interrupt is
    weld,    \* weld_pulse_active, its start and duration
    strobe,  \* The flag of the strobe, its end, the ring
    \* For the properties: ticks under an error; since a SAFE_STOP with no command
    \* after it; with the same reading far below the same target; without a pulse
    \* of the fan; the steps the last command asked for, and those made since
    errAge, calm, cold, still, moved

env    == <<board, splash, pc, due, alive, screen>>
ghosts == <<errAge, calm, cold, still, moved>>
vars   == <<env, err, seen, pwm, heat, t12, guard, fan, motor, weld, strobe, ghosts>>

tool    == board.tool
booting == splash > 0
Limit   == IF tool \in ShortPwmTools THEN ShortLimit ELSE LongLimit

\* The most a round of the main loop, or the rest of one, may take
Rounds(n) == n * LoopMax

KickMax   == Limit + Rounds(3)
HeatMax   == ShortLimit + Rounds(5)
ErrMax    == Rounds(3)
ColdMax   == 2 * WatchPeriod + HoldPeriod + Rounds(5)
StillMax  == StallLimit + 2 + 2 * ScreenPeriod + Rounds(SplashRounds + 6)
WeldMax   == PulseCeiling + Rounds(3)
StrobeMax == PeriodCeiling + Rounds(3)

Temps == board.temps \cup board.targets \cup {0}

\* What the variables hold
Places == {"top", "sense", "decide", "check", "drive", "delay",
           "pwm", "pwmCompare", "pwmZero", "pwmCut", "pwmLatch", "stall",
           "heater", "heaterCompare", "heaterZero", "heaterLatch",
           "weld", "weldOff", "telemetry", "strobe", "strobeEnd"}
PwmState    == [cmd : BOOLEAN, kick : 0..KickMax, out : BOOLEAN, pin : BOOLEAN]
HeatState   == [target : Temps, kick : 0..HeatMax, temp : Temps, on : BOOLEAN,
                armed : BOOLEAN, off : 0..(OffLimit + 1), base : Temps]
FanState    == [cmd : BOOLEAN, out : BOOLEAN, pulses : BOOLEAN, rpm : BOOLEAN,
                stall : 0..(StallLimit + 1)]
MotorState  == [steps : 0..(Modulus - 1), high : BOOLEAN, pin : BOOLEAN, driver : BOOLEAN,
                isr : {"idle", "rise", "raised", "fall", "count", "zero", "cut"}]
WeldState   == [active : BOOLEAN, age : 0..WeldMax, ms : 0..PulseCeiling]
StrobeState == [flag : BOOLEAN, active : BOOLEAN, ring : BOOLEAN, lit : 0..StrobeMax,
                left : (-StrobeMax)..PeriodCeiling, period : Periods \cup {0}]
MoveState   == [asked : Moves \cup {0}, made : 0..(Modulus + 1), stop : BOOLEAN]

TypeOK ==
    /\ board \in Boards
    /\ splash \in 0..SplashRounds /\ alive \in 0..LoopMax /\ screen \in 0..ScreenPeriod
    /\ due \in BOOLEAN /\ err \in BOOLEAN /\ t12 \in BOOLEAN
    /\ pc \in Places
    /\ seen \in 0..LoopMax
    /\ pwm \in PwmState
    /\ heat \in HeatState
    /\ guard \in Guard(Temps)
    /\ fan \in FanState
    /\ motor \in MotorState
    /\ weld \in WeldState
    /\ strobe \in StrobeState
    /\ moved \in MoveState
    /\ errAge \in 0..ErrMax /\ calm \in 0..(ErrMax + 1)
    /\ cold \in 0..ColdMax /\ still \in 0..StillMax

\* The outputs MX_GPIO_Init_Early and MX_GPIO_Post_Init leave, and the variables of a reset
Initial(b) ==
    [splash |-> SplashRounds,
     pwm    |-> [cmd |-> FALSE, kick |-> 0, out |-> FALSE, pin |-> FALSE],
     heat   |-> [target |-> 0, kick |-> 0, temp |-> 0, on |-> FALSE,
                 armed |-> FALSE, off |-> 0, base |-> 0],
     fan    |-> [cmd |-> FALSE, out |-> FALSE, pulses |-> FALSE, rpm |-> FALSE, stall |-> 0],
     motor  |-> [steps |-> 0, high |-> FALSE, pin |-> FALSE,
                 driver |-> FALSE, isr |-> "idle"],
     weld   |-> [active |-> FALSE, age |-> 0, ms |-> 0],
     strobe |-> [flag |-> FALSE, active |-> FALSE, left |-> 0, period |-> 0,
                 ring |-> FALSE, lit |-> 0],
     moved  |-> [asked |-> 0, made |-> 0, stop |-> TRUE]]

Init ==
    /\ board \in Boards
    /\ splash = Initial(board).splash /\ pc = "top" /\ due = TRUE /\ alive = 0
    /\ err = FALSE /\ seen = 0 /\ t12 = FALSE
    /\ pwm = Initial(board).pwm /\ heat = Initial(board).heat
    /\ guard = GuardReset /\ fan = Initial(board).fan /\ screen = 0
    /\ motor = Initial(board).motor /\ weld = Initial(board).weld
    /\ strobe = Initial(board).strobe
    /\ errAge = 0 /\ calm = 0 /\ cold = 0 /\ still = 0
    /\ moved = Initial(board).moved

\* Any reset: the IWDG, the bootloader's command, the power
Restart ==
    /\ board' = board
    /\ splash' = Initial(board).splash /\ pc' = "top" /\ due' = TRUE /\ alive' = 0
    /\ err' = FALSE /\ seen' = 0 /\ t12' = FALSE
    /\ pwm' = Initial(board).pwm /\ heat' = Initial(board).heat
    /\ guard' = GuardReset /\ fan' = Initial(board).fan /\ screen' = 0
    /\ motor' = Initial(board).motor /\ weld' = Initial(board).weld
    /\ strobe' = Initial(board).strobe
    /\ errAge' = 0 /\ calm' = 0 /\ cold' = 0 /\ still' = 0
    /\ moved' = Initial(board).moved
=============================================================================
