------------------------------ MODULE SlaveApp ------------------------------
(***************************************************************************)
(* The application of the expansion slave: outputs that run for a number   *)
(* of milliseconds (slave_pwm.c), thermal cameras read in the main loop    *)
(* (slave_i2c_sensors.c) and the link, whose interrupt serves the          *)
(* registers the master writes and reads (slave_i2c_link.c).               *)
(*                                                                         *)
(* The main loop is cut where the interrupt can come between two accesses  *)
(* to what they share; the interrupt is one step, and so is a call of the  *)
(* HAL.  Time passes in the delay of the loop and while a camera is read.  *)
(***************************************************************************)
EXTENDS Integers

CONSTANTS
    Channel,          \* outputs of the timer, numbered from 0
    Period,           \* periods the timer can be given
    Duration,         \* lengths of a pulse in ms; 0 runs until a stop
    Byte,             \* a counter of one byte holds 0 .. Byte - 1
    Deferred,         \* cameras that the main loop reads (90640, 90641)
    Direct,           \* cameras that the interrupt reads (90642)
    NoSensor,         \* MLX_VARIANT_NONE
    SilentLimit,      \* ms without a message before the outputs are stopped
    WatchdogLimit,    \* ms without a refresh before the watchdog resets
    Uses              \* what a master does: the registers it uses, the cameras it chooses

ASSUME SlaveAppAssumption ==
    /\ Channel \subseteq Nat /\ \E last \in Channel : Channel = 0 .. last
    /\ \E p \in Period : \A q \in Period : p <= q
    /\ Byte \in Nat \ {0} /\ Duration \subseteq 0 .. Byte - 1
    /\ {SilentLimit, WatchdogLimit} \subseteq Nat \ {0}
    /\ NoSensor \notin Deferred \cup Direct /\ Deferred \cap Direct = {}
    /\ \A u \in Uses : u.cameras \subseteq Deferred \cup Direct \cup {NoSensor}

Sensor == Deferred \cup Direct
AgeMax == SilentLimit + WatchdogLimit + 2     \* bound: silence is counted up to here

VARIABLES
    uses,      \* what this master does with the slave
    pwm,       \* per channel: driven, channel_active, pulse_remaining_ms
    period,    \* the period of the timer, one for all channels
    mlx,       \* variant, the two requests, status and frame per camera
    loop,      \* where the main loop is, with its channel and the value it loaded
    silence,   \* ms since the last message
    age        \* ms since the watchdog was refreshed

vars == <<uses, pwm, period, mlx, loop, silence, age>>

At(p) == loop.at = p
Places == {"refresh", "service", "init", "requested", "choose", "trigger", "reading", "ready",
           "count", "load", "store", "zero", "halt", "clear", "idle", "silent", "compare",
           "delay", "bootloader"}

TypeOK ==
    /\ uses \in Uses
    /\ pwm \in [Channel -> [on : BOOLEAN, active : BOOLEAN, left : 0 .. Byte - 1]]
    /\ period \in Period
    /\ mlx \in [variant : Sensor \cup {NoSensor}, init : BOOLEAN, capture : BOOLEAN,
                status : [Sensor -> {"idle", "busy", "ready", "error"}],
                frame : [Sensor -> {"none", "partial", "whole"}]]
    /\ loop \in [at : Places, ch : Channel, loaded : 0 .. Byte - 1, all : BOOLEAN,
                 cam : Sensor \cup {NoSensor}, late : BOOLEAN]
    /\ silence \in 0 .. AgeMax /\ age \in 0 .. WatchdogLimit

Idle == [on |-> FALSE, active |-> FALSE, left |-> 0]
PowerUp(p) ==
    [pwm |-> [c \in Channel |-> Idle], period |-> p,
     mlx |-> [variant |-> NoSensor, init |-> FALSE, capture |-> FALSE,
              status |-> [s \in Sensor |-> "idle"], frame |-> [s \in Sensor |-> "none"]],
     loop |-> [at |-> "refresh", ch |-> 0, loaded |-> 0, all |-> FALSE,
               cam |-> NoSensor, late |-> FALSE]]
FirstPeriod == CHOOSE p \in Period : \A q \in Period : p <= q

Init ==
    LET up == PowerUp(FirstPeriod)
    IN  /\ uses \in Uses
        /\ pwm = up.pwm /\ period = up.period /\ mlx = up.mlx /\ loop = up.loop
        /\ silence = 0 /\ age = 0

(* A reset: everything in RAM is lost and the outputs go off. *)
Reset(place) ==
    LET up == PowerUp(FirstPeriod)
    IN  /\ pwm' = up.pwm /\ period' = up.period /\ mlx' = up.mlx
        /\ loop' = [up.loop EXCEPT !.at = place]
        /\ silence' = 0 /\ age' = 0 /\ UNCHANGED uses

-----------------------------------------------------------------------------
(* The outputs *)

Stop(c) == pwm' = [pwm EXCEPT ![c] = Idle]
PWM_StopAll == pwm' = [c \in Channel |-> Idle]

(* One period for all channels: refused while another one is active. *)
PWM_Configure(c, p) ==
    IF \E o \in Channel \ {c} : pwm[o].active THEN UNCHANGED period ELSE period' = p

PWM_Pulse(c, d) == pwm' = [pwm EXCEPT ![c] = [on |-> TRUE, active |-> TRUE, left |-> d]]

-----------------------------------------------------------------------------
(* The cameras, as the interrupt sees them *)

MLX_TriggerCapture ==
    \/ /\ mlx.variant \in Deferred
       /\ mlx' = [mlx EXCEPT !.status[mlx.variant] = "busy", !.capture = TRUE]
    \/ /\ mlx.variant \in Direct
       /\ \E s \in {"busy", "error"} : mlx' = [mlx EXCEPT !.status[mlx.variant] = s]
    \/ mlx.variant = NoSensor /\ UNCHANGED mlx

(* A camera of the second kind is read by whoever asks for its status. *)
MLX90642_DoGetCaptureStatus(v) ==
    \/ mlx.status[v] # "busy" /\ UNCHANGED mlx
    \/ mlx.status[v] = "busy" /\ UNCHANGED mlx                     \* not ready yet
    \/ /\ mlx.status[v] = "busy"                                   \* ready, and read whole
       /\ mlx' = [mlx EXCEPT !.status[v] = "ready", !.frame[v] = "whole"]
    \/ /\ mlx.status[v] = "busy"                                   \* the camera does not answer
       /\ \E f \in {mlx.frame[v], "partial"} :
             mlx' = [mlx EXCEPT !.status[v] = "error", !.frame[v] = f]

MLX_GetCaptureStatus ==
    IF mlx.variant \in Direct THEN MLX90642_DoGetCaptureStatus(mlx.variant) ELSE UNCHANGED mlx

-----------------------------------------------------------------------------
(* What the master sends: the frames of the tools and of the bridge.  A    *)
(* write may be cut short on the bus; what is left of it is too short for  *)
(* its register and only shows that the master is alive.                   *)

PasteJetting == {"configure", "pulse"}
FlyingProbe == {"adc"}
ThermalInspection == {"capture", "status"}
URTC_SLAVE_RULES == PasteJetting \cup FlyingProbe \cup ThermalInspection \cup {"variant", "stop"}
Bridged == URTC_SLAVE_RULES \cup {"bootloader"}

Heard ==
    /\ ~At("bootloader")
    /\ silence' = 0
    /\ loop' = [loop EXCEPT !.late = @ \/ At("compare")]
    /\ UNCHANGED <<uses, age>>

Write(r) == r \in uses.registers \cap Bridged /\ Heard

Configure ==
    /\ Write("configure") /\ \E c \in Channel, p \in Period : PWM_Configure(c, p)
    /\ UNCHANGED <<pwm, mlx>>
Pulse ==
    /\ Write("pulse") /\ \E c \in Channel, d \in Duration : PWM_Pulse(c, d)
    /\ UNCHANGED <<period, mlx>>
StopOne ==
    /\ Write("stop") /\ \E c \in Channel : Stop(c)
    /\ UNCHANGED <<period, mlx>>
SetVariant ==
    /\ Write("variant")
    /\ \E v \in uses.cameras : mlx' = [mlx EXCEPT !.variant = v, !.init = TRUE]
    /\ UNCHANGED <<pwm, period>>
Capture == Write("capture") /\ MLX_TriggerCapture /\ UNCHANGED <<pwm, period>>
Status == Write("status") /\ MLX_GetCaptureStatus /\ UNCHANGED <<pwm, period>>
(* The converter keeps its own state; a cut write changes nothing either. *)
NothingKept == (\E r \in uses.registers : Write(r)) /\ UNCHANGED <<pwm, period, mlx>>
EnterBootloader == /\ "bootloader" \in uses.registers \cap Bridged /\ ~At("bootloader")
                   /\ Reset("bootloader")

Interrupt == \/ Configure \/ Pulse \/ StopOne \/ SetVariant \/ Capture \/ Status
             \/ NothingKept \/ EnterBootloader

-----------------------------------------------------------------------------
(* The main loop *)

Go(p) == loop' = [loop EXCEPT !.at = p]
Still == UNCHANGED <<uses, period, silence, age>>

Refresh == At("refresh") /\ age' = 0 /\ Go("service") /\ UNCHANGED <<uses, pwm, period, mlx, silence>>

(* MLX_ServiceCapture: the camera just chosen is initialised, then a       *)
(* requested capture is made with the camera chosen by then.               *)
Service ==
    /\ At("service") /\ Still /\ UNCHANGED pwm
    /\ IF mlx.init THEN mlx' = [mlx EXCEPT !.init = FALSE] /\ Go("init")
                   ELSE UNCHANGED mlx /\ Go("requested")
Initialised == At("init") /\ Go("requested") /\ Still /\ UNCHANGED <<pwm, mlx>>

FirstOutput == [loop EXCEPT !.at = "count", !.ch = 0, !.all = FALSE, !.cam = NoSensor]

Requested ==
    /\ At("requested") /\ Still /\ UNCHANGED pwm
    /\ IF mlx.capture THEN mlx' = [mlx EXCEPT !.capture = FALSE] /\ Go("choose")
                      ELSE UNCHANGED mlx /\ loop' = FirstOutput

Begun_StatusLeft(v) == UNCHANGED mlx
Begun(v) == mlx' = [mlx EXCEPT !.status[v] = "busy"]

Choose ==
    /\ At("choose") /\ Still /\ UNCHANGED pwm
    /\ \/ /\ mlx.variant \in Deferred /\ Begun(mlx.variant)
          /\ loop' = [loop EXCEPT !.at = "trigger", !.cam = mlx.variant]
       \/ mlx.variant \notin Deferred /\ UNCHANGED mlx /\ loop' = FirstOutput

CaptureFails ==
    /\ At("trigger") \/ At("reading")
    /\ mlx' = [mlx EXCEPT !.status[loop.cam] = "error"] /\ loop' = FirstOutput
    /\ Still /\ UNCHANGED pwm
Trigger ==
    /\ At("trigger") /\ mlx' = [mlx EXCEPT !.frame[loop.cam] = "partial"]
    /\ Go("reading") /\ Still /\ UNCHANGED pwm
Read ==
    /\ At("reading") /\ mlx' = [mlx EXCEPT !.frame[loop.cam] = "whole"]
    /\ Go("ready") /\ Still /\ UNCHANGED pwm
Ready_Clears ==
    /\ At("ready") /\ mlx' = [mlx EXCEPT !.status[loop.cam] = "ready", !.capture = FALSE]
    /\ loop' = FirstOutput /\ Still /\ UNCHANGED pwm
Ready ==
    /\ At("ready") /\ mlx' = [mlx EXCEPT !.status[loop.cam] = "ready"]
    /\ loop' = FirstOutput /\ Still /\ UNCHANGED pwm

(* PWM_Tick and PWM_StopAll go through the channels in order. *)
NextOutput ==
    loop' = IF loop.ch + 1 \in Channel
            THEN [loop EXCEPT !.at = IF loop.all THEN "halt" ELSE "count", !.ch = @ + 1]
            ELSE [loop EXCEPT !.at = IF loop.all THEN "delay" ELSE "silent", !.ch = 0,
                              !.all = FALSE]

Count ==
    /\ At("count") /\ Still /\ UNCHANGED <<pwm, mlx>>
    /\ IF pwm[loop.ch].left > 0 THEN Go("load") ELSE NextOutput
Load ==
    /\ At("load") /\ loop' = [loop EXCEPT !.at = "store", !.loaded = pwm[loop.ch].left]
    /\ Still /\ UNCHANGED <<pwm, mlx>>
Store ==
    /\ At("store") /\ pwm' = [pwm EXCEPT ![loop.ch].left = (loop.loaded + Byte - 1) % Byte]
    /\ loop' = [loop EXCEPT !.at = "zero", !.loaded = 0] /\ Still /\ UNCHANGED mlx
Zero ==
    /\ At("zero") /\ Still /\ UNCHANGED <<pwm, mlx>>
    /\ IF pwm[loop.ch].left = 0 THEN Go("halt") ELSE NextOutput

(* PWM_Stop: the output, the count and the mark, one after the other. *)
Halt_OnlyMarked ==
    /\ At("halt") /\ Still /\ UNCHANGED mlx
    /\ IF pwm[loop.ch].active
       THEN pwm' = [pwm EXCEPT ![loop.ch].on = FALSE] /\ Go("clear")
       ELSE UNCHANGED pwm /\ NextOutput
Halt ==
    /\ At("halt") /\ pwm' = [pwm EXCEPT ![loop.ch].on = FALSE]
    /\ Go("clear") /\ Still /\ UNCHANGED mlx
Clear ==
    /\ At("clear") /\ pwm' = [pwm EXCEPT ![loop.ch].left = 0]
    /\ Go("idle") /\ Still /\ UNCHANGED mlx
Unmark ==
    /\ At("idle") /\ pwm' = [pwm EXCEPT ![loop.ch].active = FALSE]
    /\ NextOutput /\ Still /\ UNCHANGED mlx

(* The tick is read before the tick of the last message.  A message served *)
(* between the two may be newer than the tick: the difference wraps around *)
(* and the outputs are stopped as after a long silence.                    *)
Silent == At("silent") /\ loop' = [loop EXCEPT !.at = "compare", !.late = FALSE]
          /\ Still /\ UNCHANGED <<pwm, mlx>>
Compare ==
    /\ At("compare") /\ Still /\ UNCHANGED <<pwm, mlx>>
    /\ \/ /\ silence > SilentLimit \/ loop.late
          /\ loop' = [loop EXCEPT !.at = "halt", !.ch = 0, !.all = TRUE, !.late = FALSE]
       \/ /\ silence <= SilentLimit
          /\ loop' = [loop EXCEPT !.at = "delay", !.late = FALSE]

Older == silence' = IF silence < AgeMax THEN silence + 1 ELSE silence

(* A millisecond: in the delay of the loop, or while a camera is at work. *)
Delay == At("delay") /\ age < WatchdogLimit /\ age' = age + 1 /\ Older /\ Go("refresh")
         /\ UNCHANGED <<uses, pwm, period, mlx>>
Elapse == /\ At("init") \/ At("reading")
          /\ age < WatchdogLimit /\ age' = age + 1 /\ Older
          /\ UNCHANGED <<uses, pwm, period, mlx, loop>>
Watchdog == age = WatchdogLimit /\ ~At("bootloader") /\ ~At("refresh") /\ Reset("refresh")
Restart == At("bootloader") /\ Reset("refresh")

MainStep ==
    \/ Refresh \/ Service \/ Initialised \/ Requested \/ Choose \/ CaptureFails \/ Trigger
    \/ Read \/ Ready \/ Count \/ Load \/ Store \/ Zero \/ Halt \/ Clear \/ Unmark
    \/ Silent \/ Compare \/ Delay \/ Elapse \/ Watchdog \/ Restart

Next == Interrupt \/ MainStep
Spec == Init /\ [][Next]_vars
(* The main loop runs whatever the link does. *)
FairSpec == Spec /\ WF_vars(MainStep)

-----------------------------------------------------------------------------
(* A camera that says it is ready holds a frame that was read to its end,  *)
(* which of a 90640 is one sub-page of its sensor: the master reads        *)
(* its chunks without any other check, while captures it asked for twice   *)
(* and changes of camera run in the main loop.                             *)
ReadyMeansWhole == \A s \in Sensor : mlx.status[s] = "ready" => mlx.frame[s] = "whole"

(* A link that falls silent stops every output, the endless ones and those *)
(* whose mark was lost included, within the limit and one round of the     *)
(* loop, which a capture makes as long as the watchdog allows.             *)
SilenceStops == silence > SilentLimit + WatchdogLimit + 1 => \A c \in Channel : ~pwm[c].on

(* A capture the slave has taken on is made: one asked for while another   *)
(* runs is made after it, unless the master turns to another camera or the *)
(* slave is reset, which forgets the camera.                               *)
RequestServed ==
    \A s \in Deferred :
        (mlx.capture /\ mlx.variant = s)
            ~> ((At("trigger") /\ loop.cam = s) \/ mlx.variant # s)

-----------------------------------------------------------------------------
(* The inductive invariant behind the first two *)

(* A capture of the main loop is of a camera it reads, whose status it     *)
(* took away before it touched the frame.                                  *)
CameraInv ==
    /\ ReadyMeansWhole
    /\ loop.at \in {"trigger", "reading", "ready"} => loop.cam \in Deferred
    /\ loop.at \in {"trigger", "reading"} => mlx.status[loop.cam] # "ready"
    /\ At("ready") => mlx.frame[loop.cam] = "whole"

(* The outputs are off if no message came for longer than the limit. *)
OffBeyond(limit) == silence > limit => \A c \in Channel : ~pwm[c].on

(* The silence is looked at once per round: since then it grew by the      *)
(* delay and by as much as the watchdog was not refreshed.  The stop of    *)
(* all outputs has gone through the channels before the one it is at.      *)
SilenceInv ==
    /\ loop.all => loop.at \in {"halt", "clear", "idle"}
    /\ CASE At("refresh") -> OffBeyond(SilentLimit + 1)
         [] At("delay")   -> OffBeyond(SilentLimit)
         [] At("bootloader") -> OffBeyond(0)
         [] OTHER -> OffBeyond(SilentLimit + 1 + age)
    /\ loop.all /\ silence > SilentLimit =>
          \A c \in Channel :
             c < loop.ch \/ (c = loop.ch /\ ~At("halt")) => ~pwm[c].on

SlaveAppInv == TypeOK /\ CameraInv /\ SilenceInv
=============================================================================
