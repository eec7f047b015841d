--------------------------- MODULE SlaveApp_proof ---------------------------
(***************************************************************************)
(* Proofs about the board of an expansion: every output of the slave stops *)
(* when its link falls silent, and what a camera says is ready is whole,   *)
(* wherever the camera is wired.                                           *)
(***************************************************************************)
EXTENDS MCSlaveApp, TLAPS

-----------------------------------------------------------------------------
(* The slave *)

LEMMA Sizes ==
    /\ SilentLimit \in Nat /\ WatchdogLimit \in Nat /\ AgeMax \in Nat
    /\ AgeMax = SilentLimit + WatchdogLimit + 2
    /\ Byte \in Nat /\ Byte > 0 /\ 0 \in 0..(Byte - 1)
  BY SlaveAppAssumption DEF AgeMax

\* The channels are numbered without a gap.
LEMMA Channels ==
    /\ 0 \in Channel /\ Channel \subseteq Nat
    /\ \A c \in Channel : \A d \in Channel : d + 1 \notin Channel => c <= d
    /\ \A c \in Channel : c >= 0
<1>1. PICK last \in Channel : Channel = 0..last
  BY SlaveAppAssumption
<1>2. last \in Nat
  BY SlaveAppAssumption
<1> QED
  BY <1>1, <1>2

LEMMA FirstPeriodIs == FirstPeriod \in Period
  BY SlaveAppAssumption DEF FirstPeriod

Pwm  == [Channel -> [on : BOOLEAN, active : BOOLEAN, left : 0..(Byte - 1)]]
Mlx  == [variant : Sensor \cup {NoSensor}, init : BOOLEAN, capture : BOOLEAN,
         status : [Sensor -> {"idle", "busy", "ready", "error"}],
         frame : [Sensor -> {"none", "partial", "whole"}]]
Loop == [at : Places, ch : Channel, loaded : 0..(Byte - 1), all : BOOLEAN,
         cam : Sensor \cup {NoSensor}, late : BOOLEAN]

LEMMA TypeFacts ==
    ASSUME TypeOK
    PROVE  /\ uses \in Uses /\ pwm \in Pwm /\ period \in Period /\ mlx \in Mlx
           /\ loop \in Loop /\ silence \in 0..AgeMax /\ age \in 0..WatchdogLimit
  BY DEF TypeOK, Pwm, Mlx, Loop

LEMMA TypeConclusion ==
    ASSUME uses' \in Uses, pwm' \in Pwm, period' \in Period, mlx' \in Mlx,
           loop' \in Loop, silence' \in 0..AgeMax, age' \in 0..WatchdogLimit
    PROVE  TypeOK'
  BY DEF TypeOK, Pwm, Mlx, Loop

\* A start or a reset leaves the outputs off and the cameras unused.
LEMMA PowerUpIs ==
    ASSUME NEW p \in Period
    PROVE  /\ PowerUp(p).pwm \in Pwm /\ \A c \in Channel : ~PowerUp(p).pwm[c].on
           /\ PowerUp(p).period \in Period
           /\ PowerUp(p).mlx \in Mlx
           /\ \A s \in Sensor : PowerUp(p).mlx.status[s] # "ready"
           /\ PowerUp(p).loop \in Loop /\ ~PowerUp(p).loop.all
           /\ PowerUp(p).loop.at = "refresh"
<1>1. PowerUp(p).pwm = [c \in Channel |-> Idle] /\ Idle \in [on : BOOLEAN, active : BOOLEAN, left : 0..(Byte - 1)]
  BY Sizes DEF PowerUp, Idle
<1>2. Idle.on = FALSE
  BY DEF Idle
<1> QED
  BY <1>1, <1>2, Channels, Sizes DEF PowerUp, Pwm, Mlx, Loop, Places

LEMMA InitSlaveApp == Init => SlaveAppInv
<1> SUFFICES ASSUME Init PROVE SlaveAppInv
  OBVIOUS
<1> DEFINE up == PowerUp(FirstPeriod)
<1>1. /\ uses \in Uses /\ pwm = up.pwm /\ period = up.period /\ mlx = up.mlx /\ loop = up.loop
      /\ silence = 0 /\ age = 0
  BY DEF Init
<1>2. /\ up.pwm \in Pwm /\ \A c \in Channel : ~up.pwm[c].on
      /\ up.period \in Period /\ up.mlx \in Mlx /\ \A s \in Sensor : up.mlx.status[s] # "ready"
      /\ up.loop \in Loop /\ ~up.loop.all /\ up.loop.at = "refresh"
  BY PowerUpIs, FirstPeriodIs
<1> HIDE DEF up
<1>3. TypeOK
  BY <1>1, <1>2, Sizes DEF TypeOK, Pwm, Mlx, Loop
<1>4. CameraInv
  BY <1>1, <1>2 DEF CameraInv, ReadyMeansWhole, At
<1>5. SilenceInv
  BY <1>1, <1>2 DEF SilenceInv, OffBeyond, At
<1> QED
  BY <1>3, <1>4, <1>5 DEF SlaveAppInv

\* Any reset, into the application or into the bootloader.
LEMMA ResetKeeps ==
    ASSUME SlaveAppInv, NEW place \in {"refresh", "bootloader"}, Reset(place)
    PROVE  SlaveAppInv'
<1> DEFINE up == PowerUp(FirstPeriod)
<1>1. /\ uses' = uses /\ pwm' = up.pwm /\ period' = up.period /\ mlx' = up.mlx
      /\ loop' = [up.loop EXCEPT !.at = place] /\ silence' = 0 /\ age' = 0
  BY DEF Reset
<1>2. /\ up.pwm \in Pwm /\ \A c \in Channel : ~up.pwm[c].on
      /\ up.period \in Period /\ up.mlx \in Mlx /\ \A s \in Sensor : up.mlx.status[s] # "ready"
      /\ up.loop \in Loop /\ ~up.loop.all
  BY PowerUpIs, FirstPeriodIs
<1> HIDE DEF up
<1>3. loop' \in Loop /\ loop'.at = place /\ ~loop'.all
  BY <1>1, <1>2 DEF Loop, Places
<1>4. TypeOK'
  BY <1>1, <1>2, <1>3, Sizes, TypeFacts, TypeConclusion DEF SlaveAppInv
<1>5. CameraInv'
  BY <1>1, <1>2, <1>3 DEF CameraInv, ReadyMeansWhole, At
<1>6. SilenceInv'
  BY <1>1, <1>2, <1>3 DEF SilenceInv, OffBeyond, At
<1> QED
  BY <1>4, <1>5, <1>6 DEF SlaveAppInv

-----------------------------------------------------------------------------
(* The link *)

\* A message says that the master is alive; the loop stays where it is.
LEMMA HeardIs ==
    ASSUME SlaveAppInv, Heard
    PROVE  /\ loop' \in Loop /\ silence' \in 0..AgeMax /\ age' \in 0..WatchdogLimit
           /\ loop'.at = loop.at /\ loop'.cam = loop.cam /\ loop'.ch = loop.ch
           /\ uses' \in Uses /\ SilenceInv'
<1>1. loop \in Loop /\ age \in 0..WatchdogLimit /\ uses \in Uses
  BY TypeFacts DEF SlaveAppInv
<1>2. /\ silence' = 0 /\ age' = age /\ uses' = uses /\ loop.at # "bootloader"
      /\ loop' = [loop EXCEPT !.late = loop.late \/ loop.at = "compare"]
  BY DEF Heard, At
<1>3. (loop.late \/ loop.at = "compare") \in BOOLEAN
  BY <1>1 DEF Loop
<1>4. /\ loop' \in Loop /\ loop'.at = loop.at /\ loop'.cam = loop.cam /\ loop'.ch = loop.ch
      /\ loop'.all = loop.all
  BY <1>1, <1>2, <1>3 DEF Loop
<1>5. SilenceInv'
  BY <1>1, <1>2, <1>4, Sizes DEF SlaveAppInv, SilenceInv, OffBeyond, At
<1> QED
  BY <1>1, <1>2, <1>4, <1>5, Sizes

LEMMA InterruptKeeps == ASSUME SlaveAppInv, Interrupt PROVE SlaveAppInv'
<1>1. /\ loop \in Loop /\ pwm \in Pwm /\ period \in Period /\ mlx \in Mlx /\ uses \in Uses
      /\ CameraInv
  BY TypeFacts DEF SlaveAppInv
<1>2. CASE EnterBootloader
  BY <1>2, ResetKeeps DEF EnterBootloader
<1>3. ASSUME Heard, pwm' \in Pwm, period' \in Period, mlx' \in Mlx, CameraInv'
      PROVE  SlaveAppInv'
  BY <1>3, HeardIs, TypeConclusion DEF SlaveAppInv
<1>4. ASSUME Heard, mlx' = mlx PROVE CameraInv'
  BY <1>1, <1>4, HeardIs DEF CameraInv, ReadyMeansWhole, At
<1>5. CASE Configure
  <2>1. PICK c \in Channel, p \in Period : PWM_Configure(c, p)
    BY <1>5 DEF Configure
  <2>2. Heard /\ pwm' = pwm /\ mlx' = mlx /\ period' \in Period
    BY <1>1, <1>5, <2>1 DEF Configure, PWM_Configure, Write
  <2> QED
    BY <1>1, <1>3, <1>4, <2>2
<1>6. CASE Pulse
  <2>1. PICK c \in Channel, d \in Duration : PWM_Pulse(c, d)
    BY <1>6 DEF Pulse
  <2>2. d \in 0..(Byte - 1)
    BY SlaveAppAssumption
  <2>3. Heard /\ period' = period /\ mlx' = mlx /\ pwm' \in Pwm
    BY <1>1, <1>6, <2>1, <2>2 DEF Pulse, PWM_Pulse, Write, Pwm
  <2> QED
    BY <1>1, <1>3, <1>4, <2>3
<1>7. CASE StopOne
  <2>1. PICK c \in Channel : Stop(c)
    BY <1>7 DEF StopOne
  <2>2. Idle \in [on : BOOLEAN, active : BOOLEAN, left : 0..(Byte - 1)]
    BY Sizes DEF Idle
  <2>3. Heard /\ period' = period /\ mlx' = mlx /\ pwm' \in Pwm
    BY <1>1, <1>7, <2>1, <2>2 DEF StopOne, Stop, Write, Pwm
  <2> QED
    BY <1>1, <1>3, <1>4, <2>3
<1>8. CASE SetVariant
  <2>1. PICK v \in uses.cameras : mlx' = [mlx EXCEPT !.variant = v, !.init = TRUE]
    BY <1>8 DEF SetVariant
  <2>2. v \in Sensor \cup {NoSensor}
    BY <1>1, SlaveAppAssumption DEF Sensor
  <2>3. /\ Heard /\ period' = period /\ pwm' = pwm /\ mlx' \in Mlx
        /\ mlx'.status = mlx.status /\ mlx'.frame = mlx.frame
    BY <1>1, <1>8, <2>1, <2>2 DEF SetVariant, Write, Mlx
  <2>4. CameraInv'
    BY <1>1, <2>3, HeardIs DEF CameraInv, ReadyMeansWhole, At
  <2> QED
    BY <1>1, <1>3, <2>3, <2>4
<1>9. CASE Capture
  <2>1. Heard /\ period' = period /\ pwm' = pwm /\ MLX_TriggerCapture
    BY <1>9 DEF Capture, Write
  <2>2. CASE mlx' = mlx
    BY <1>1, <1>3, <1>4, <2>1, <2>2
  <2>3. ASSUME NEW s \in {"busy", "error"}, NEW b \in BOOLEAN, mlx.variant \in Sensor,
               mlx' = [mlx EXCEPT !.status[mlx.variant] = s, !.capture = b]
        PROVE  SlaveAppInv'
    <3>1. /\ mlx' \in Mlx /\ mlx'.frame = mlx.frame
          /\ mlx'.status = [mlx.status EXCEPT ![mlx.variant] = s]
      BY <1>1, <2>3 DEF Mlx
    <3>2. \A t \in Sensor : mlx'.status[t] = "ready" => mlx.status[t] = "ready"
      BY <1>1, <2>3, <3>1 DEF Mlx
    <3>3. Deferred \subseteq Sensor
      BY DEF Sensor
    <3>4. CameraInv'
      BY <1>1, <2>1, <3>1, <3>2, <3>3, HeardIs DEF CameraInv, ReadyMeansWhole, At
    <3> QED
      BY <1>1, <1>3, <2>1, <3>1, <3>4
  <2>4. CASE /\ mlx.variant \in Deferred
             /\ mlx' = [mlx EXCEPT !.status[mlx.variant] = "busy", !.capture = TRUE]
    BY <2>3, <2>4 DEF Sensor
  <2>5. ASSUME mlx.variant \in Direct, NEW s \in {"busy", "error"},
               mlx' = [mlx EXCEPT !.status[mlx.variant] = s]
        PROVE  SlaveAppInv'
    <3>1. mlx' = [mlx EXCEPT !.status[mlx.variant] = s, !.capture = mlx.capture]
          /\ mlx.capture \in BOOLEAN
      BY <1>1, <2>5 DEF Mlx
    <3> QED
      BY <2>3, <2>5, <3>1 DEF Sensor
  <2> QED
    BY <2>1, <2>2, <2>4, <2>5 DEF MLX_TriggerCapture
<1>10. CASE Status
  <2>1. Heard /\ period' = period /\ pwm' = pwm /\ MLX_GetCaptureStatus
    BY <1>10 DEF Status, Write
  <2>2. CASE mlx' = mlx
    BY <1>1, <1>3, <1>4, <2>1, <2>2
  <2>3. ASSUME mlx.variant \in Direct, mlx.status[mlx.variant] = "busy",
               NEW t \in {"ready", "error"}, NEW f \in {"none", "partial", "whole"},
               t = "ready" => f = "whole",
               mlx' = [mlx EXCEPT !.status[mlx.variant] = t, !.frame[mlx.variant] = f]
        PROVE  SlaveAppInv'
    <3>0. mlx.variant \in Sensor /\ mlx.variant \notin Deferred /\ Deferred \subseteq Sensor
      BY <2>3, SlaveAppAssumption DEF Sensor
    <3>1. /\ mlx' \in Mlx
          /\ mlx'.status = [mlx.status EXCEPT ![mlx.variant] = t]
          /\ mlx'.frame = [mlx.frame EXCEPT ![mlx.variant] = f]
      BY <1>1, <2>3, <3>0 DEF Mlx
    <3>2. \A u \in Sensor : u # mlx.variant =>
             mlx'.status[u] = mlx.status[u] /\ mlx'.frame[u] = mlx.frame[u]
      BY <1>1, <3>0, <3>1 DEF Mlx
    <3>3. mlx'.status[mlx.variant] = t /\ mlx'.frame[mlx.variant] = f
      BY <1>1, <3>0, <3>1 DEF Mlx
    <3>4. CameraInv'
      BY <1>1, <2>1, <2>3, <3>0, <3>2, <3>3, HeardIs DEF CameraInv, ReadyMeansWhole, At
    <3> QED
      BY <1>1, <1>3, <2>1, <3>1, <3>4
  <2>4. CASE mlx' = [mlx EXCEPT !.status[mlx.variant] = "ready", !.frame[mlx.variant] = "whole"]
             /\ mlx.variant \in Direct /\ mlx.status[mlx.variant] = "busy"
    BY <2>3, <2>4
  <2>5. ASSUME NEW f \in {mlx.frame[mlx.variant], "partial"}, mlx.variant \in Direct,
               mlx.status[mlx.variant] = "busy",
               mlx' = [mlx EXCEPT !.status[mlx.variant] = "error", !.frame[mlx.variant] = f]
        PROVE  SlaveAppInv'
    <3>1. f \in {"none", "partial", "whole"}
      BY <1>1, <2>5 DEF Mlx, Sensor
    <3> QED
      BY <2>3, <2>5, <3>1
  <2> QED
    BY <2>1, <2>2, <2>4, <2>5 DEF MLX_GetCaptureStatus, MLX90642_DoGetCaptureStatus
<1>11. CASE NothingKept
  BY <1>1, <1>3, <1>4, <1>11 DEF NothingKept, Write
<1> QED
  BY <1>2, <1>5, <1>6, <1>7, <1>8, <1>9, <1>10, <1>11 DEF Interrupt

-----------------------------------------------------------------------------
(* The main loop *)

\* The loop goes on to another channel, or is done with them.
LEMMA NextOutputIs ==
    ASSUME loop \in Loop, NextOutput
    PROVE  /\ loop' \in Loop
           /\ \/ /\ loop'.at = (IF loop.all THEN "halt" ELSE "count")
                 /\ loop'.all = loop.all /\ loop'.ch = loop.ch + 1
              \/ /\ loop'.at = (IF loop.all THEN "delay" ELSE "silent")
                 /\ ~loop'.all /\ \A c \in Channel : c <= loop.ch
<1>1. loop.ch \in Channel
  BY DEF Loop
<1>2. CASE loop.ch + 1 \in Channel
  BY <1>2 DEF NextOutput, Loop, Places
<1>3. CASE loop.ch + 1 \notin Channel
  <2>1. \A c \in Channel : c <= loop.ch
    BY <1>1, <1>3, Channels
  <2> QED
    BY <1>3, <2>1, Channels DEF NextOutput, Loop, Places
<1> QED
  BY <1>2, <1>3

\* A step of the cameras leaves the outputs alone.
LEMMA CameraStep ==
    ASSUME SlaveAppInv, Still, UNCHANGED pwm, mlx' \in Mlx, loop' \in Loop,
           loop.at \in {"service", "init", "requested", "choose", "trigger", "reading", "ready"},
           loop'.at \in Places \ {"refresh", "delay", "bootloader"}, ~loop'.all
    PROVE  TypeOK' /\ SilenceInv'
<1>1. TypeOK'
  BY TypeFacts, TypeConclusion DEF SlaveAppInv, Still
<1> QED
  BY <1>1 DEF SlaveAppInv, SilenceInv, OffBeyond, At, Still

\* A step that leaves the cameras alone.
LEMMA OutputStep ==
    ASSUME SlaveAppInv, UNCHANGED mlx,
           loop'.at \in Places \ {"trigger", "reading", "ready"}
    PROVE  CameraInv'
  BY DEF SlaveAppInv, CameraInv, ReadyMeansWhole, At

LEMMA CamerasKeep ==
    ASSUME SlaveAppInv,
           Service \/ Initialised \/ Requested \/ Choose \/ CaptureFails \/ Trigger \/ Read \/ Ready
    PROVE  SlaveAppInv'
<1>1. loop \in Loop /\ mlx \in Mlx /\ CameraInv /\ SilenceInv
  BY TypeFacts DEF SlaveAppInv
<1>2. FirstOutput \in Loop /\ FirstOutput.at = "count" /\ ~FirstOutput.all
  BY <1>1, Channels DEF FirstOutput, Loop, Places
<1>3. ~At("halt") /\ ~At("clear") /\ ~At("idle") => ~loop.all
  BY <1>1 DEF SilenceInv, At
<1>4. ASSUME NEW p \in Places, Go(p)
      PROVE  loop' \in Loop /\ loop'.at = p /\ loop'.cam = loop.cam /\ loop'.all = loop.all
  BY <1>1, <1>4 DEF Go, Loop
<1>5. CASE Service
  <2>1. \/ mlx' = [mlx EXCEPT !.init = FALSE] /\ Go("init")
        \/ mlx' = mlx /\ Go("requested")
    BY <1>5 DEF Service
  <2>2. mlx' \in Mlx /\ mlx'.status = mlx.status /\ mlx'.frame = mlx.frame
    BY <1>1, <2>1 DEF Mlx
  <2>3. loop' \in Loop /\ loop'.at \in {"init", "requested"} /\ ~loop'.all
    BY <1>3, <1>4, <1>5, <2>1 DEF Service, At, Places
  <2>4. TypeOK' /\ SilenceInv'
    BY <1>5, <2>2, <2>3, CameraStep DEF Service, At, Places
  <2>5. CameraInv'
    BY <1>1, <2>2, <2>3 DEF CameraInv, ReadyMeansWhole, At
  <2> QED
    BY <2>4, <2>5 DEF SlaveAppInv
<1>6. CASE Initialised
  <2>1. loop' \in Loop /\ loop'.at = "requested" /\ ~loop'.all
    BY <1>3, <1>4, <1>6 DEF Initialised, At, Places
  <2>2. TypeOK' /\ SilenceInv'
    BY <1>1, <1>6, <2>1, CameraStep DEF Initialised, At, Places
  <2>3. CameraInv'
    BY <1>6, <2>1, OutputStep DEF Initialised, Places
  <2> QED
    BY <2>2, <2>3 DEF SlaveAppInv
<1>7. CASE Requested
  <2>1. \/ mlx' = [mlx EXCEPT !.capture = FALSE] /\ Go("choose")
        \/ mlx' = mlx /\ loop' = FirstOutput
    BY <1>7 DEF Requested
  <2>2. mlx' \in Mlx /\ mlx'.status = mlx.status /\ mlx'.frame = mlx.frame
    BY <1>1, <2>1 DEF Mlx
  <2>3. loop' \in Loop /\ loop'.at \in {"choose", "count"} /\ ~loop'.all
    BY <1>2, <1>3, <1>4, <1>7, <2>1 DEF Requested, At, Places
  <2>4. TypeOK' /\ SilenceInv'
    BY <1>7, <2>2, <2>3, CameraStep DEF Requested, At, Places
  <2>5. CameraInv'
    BY <1>1, <2>2, <2>3 DEF CameraInv, ReadyMeansWhole, At
  <2> QED
    BY <2>4, <2>5 DEF SlaveAppInv
<1>8. CASE Choose
  <2>1. CASE /\ mlx.variant \in Deferred /\ Begun(mlx.variant)
             /\ loop' = [loop EXCEPT !.at = "trigger", !.cam = mlx.variant]
    <3>1. mlx.variant \in Sensor
      BY <2>1 DEF Sensor
    <3>2. /\ mlx' \in Mlx /\ mlx'.frame = mlx.frame
          /\ mlx'.status = [mlx.status EXCEPT ![mlx.variant] = "busy"]
      BY <1>1, <2>1, <3>1 DEF Begun, Mlx
    <3>3. loop' \in Loop /\ loop'.at = "trigger" /\ loop'.cam = mlx.variant /\ ~loop'.all
      BY <1>1, <1>3, <1>8, <2>1, <3>1 DEF Choose, At, Loop, Places
    <3>4. TypeOK' /\ SilenceInv'
      BY <1>8, <3>2, <3>3, CameraStep DEF Choose, At, Places
    <3>5. mlx'.status[mlx.variant] = "busy" /\ \A t \in Sensor : mlx'.status[t] \in {mlx.status[t], "busy"}
      BY <1>1, <3>1, <3>2 DEF Mlx
    <3>6. CameraInv'
      BY <1>1, <2>1, <3>2, <3>3, <3>5 DEF CameraInv, ReadyMeansWhole, At
    <3> QED
      BY <3>4, <3>6 DEF SlaveAppInv
  <2>2. CASE mlx' = mlx /\ loop' = FirstOutput
    <3>1. TypeOK' /\ SilenceInv'
      BY <1>1, <1>2, <1>8, <2>2, CameraStep DEF Choose, At, Places
    <3>2. CameraInv'
      BY <1>2, <2>2, OutputStep DEF Places
    <3> QED
      BY <3>1, <3>2 DEF SlaveAppInv
  <2> QED
    BY <1>8, <2>1, <2>2 DEF Choose
<1>9. CASE CaptureFails
  <2>1. loop.cam \in Sensor /\ loop.cam \in Deferred
    BY <1>1, <1>9 DEF CaptureFails, CameraInv, Sensor, At
  <2>2. /\ mlx' \in Mlx /\ mlx'.frame = mlx.frame
        /\ mlx'.status = [mlx.status EXCEPT ![loop.cam] = "error"]
    BY <1>1, <1>9, <2>1 DEF CaptureFails, Mlx
  <2>3. \A t \in Sensor : mlx'.status[t] \in {mlx.status[t], "error"}
    BY <1>1, <2>1, <2>2 DEF Mlx
  <2>4. TypeOK' /\ SilenceInv'
    BY <1>2, <1>9, <2>2, CameraStep DEF CaptureFails, At, Places
  <2>5. CameraInv'
    BY <1>1, <1>2, <1>9, <2>2, <2>3 DEF CaptureFails, CameraInv, ReadyMeansWhole, At
  <2> QED
    BY <2>4, <2>5 DEF SlaveAppInv
<1>10. CASE Trigger \/ Read
  <2>1. loop.cam \in Sensor /\ loop.cam \in Deferred /\ mlx.status[loop.cam] # "ready"
    BY <1>1, <1>10 DEF Trigger, Read, CameraInv, Sensor, At
  <2>2. PICK f \in {"partial", "whole"} : mlx' = [mlx EXCEPT !.frame[loop.cam] = f]
          /\ (Trigger \/ f = "whole")
    BY <1>10 DEF Trigger, Read
  <2>3. /\ mlx' \in Mlx /\ mlx'.status = mlx.status
        /\ mlx'.frame = [mlx.frame EXCEPT ![loop.cam] = f]
    BY <1>1, <2>1, <2>2 DEF Mlx
  <2>4. mlx'.frame[loop.cam] = f /\ \A t \in Sensor : t # loop.cam => mlx'.frame[t] = mlx.frame[t]
    BY <1>1, <2>1, <2>3 DEF Mlx
  <2>5. /\ loop' \in Loop /\ loop'.cam = loop.cam /\ ~loop'.all
        /\ loop'.at = IF Trigger THEN "reading" ELSE "ready"
    BY <1>3, <1>4, <1>10 DEF Trigger, Read, At, Places
  <2>6. TypeOK' /\ SilenceInv'
    BY <1>10, <2>3, <2>5, CameraStep DEF Trigger, Read, At, Places
  <2>7. CameraInv'
    BY <1>1, <2>1, <2>2, <2>3, <2>4, <2>5 DEF CameraInv, ReadyMeansWhole, At
  <2> QED
    BY <2>6, <2>7 DEF SlaveAppInv
<1>11. CASE Ready
  <2>1. loop.cam \in Sensor /\ mlx.frame[loop.cam] = "whole"
    BY <1>1, <1>11 DEF Ready, CameraInv, Sensor, At
  <2>2. /\ mlx' \in Mlx /\ mlx'.frame = mlx.frame
        /\ mlx'.status = [mlx.status EXCEPT ![loop.cam] = "ready"]
    BY <1>1, <1>11, <2>1 DEF Ready, Mlx
  <2>3. \A t \in Sensor : t # loop.cam => mlx'.status[t] = mlx.status[t]
    BY <1>1, <2>1, <2>2 DEF Mlx
  <2>4. TypeOK' /\ SilenceInv'
    BY <1>2, <1>11, <2>2, CameraStep DEF Ready, At, Places
  <2>5. CameraInv'
    BY <1>1, <1>2, <1>11, <2>1, <2>2, <2>3 DEF Ready, CameraInv, ReadyMeansWhole, At
  <2> QED
    BY <2>4, <2>5 DEF SlaveAppInv
<1> QED
  BY <1>5, <1>6, <1>7, <1>8, <1>9, <1>10, <1>11

\* The counting of the pulses, and the stop of one output or of all.
LEMMA OutputsKeep ==
    ASSUME SlaveAppInv, Count \/ Load \/ Store \/ Zero \/ Halt \/ Clear \/ Unmark
    PROVE  SlaveAppInv'
<1>1. /\ loop \in Loop /\ pwm \in Pwm /\ loop.ch \in Channel
      /\ silence' = silence /\ age' = age /\ mlx' = mlx /\ uses' = uses /\ period' = period
      /\ SilenceInv
  BY TypeFacts DEF SlaveAppInv, Loop, Count, Load, Store, Zero, Halt, Clear, Unmark, Still
<1>2. OffBeyond(SilentLimit + 1 + age)
  BY <1>1 DEF SilenceInv, Count, Load, Store, Zero, Halt, Clear, Unmark, At
\* The outputs that are off stay off
<1>3. ASSUME pwm' \in Pwm, loop' \in Loop,
             \A c \in Channel : pwm'[c].on => pwm[c].on,
             loop'.at \in {"count", "load", "store", "zero", "halt", "clear", "idle", "silent", "delay"},
             loop'.all => loop'.at \in {"halt", "clear", "idle"},
             loop'.all \/ loop'.at = "delay" => loop.all,
             loop'.all => \A c \in Channel :
                c < loop'.ch \/ (c = loop'.ch /\ loop'.at # "halt") =>
                  ~pwm'[c].on \/ c < loop.ch \/ (c = loop.ch /\ loop.at # "halt"),
             loop'.at = "delay" => \A c \in Channel : c <= loop.ch /\ loop.at # "halt"
      PROVE  SlaveAppInv'
  <2>1. TypeOK'
    BY <1>1, <1>3, TypeFacts, TypeConclusion DEF SlaveAppInv
  <2>2. CameraInv'
    BY <1>1, <1>3, OutputStep DEF Places
  <2>3. OffBeyond(SilentLimit + 1 + age)'
    BY <1>1, <1>2, <1>3 DEF OffBeyond
  <2>4. loop'.at = "delay" => OffBeyond(SilentLimit)'
    <3> SUFFICES ASSUME loop'.at = "delay", silence > SilentLimit, NEW c \in Channel
                 PROVE  ~pwm'[c].on
      BY <1>1 DEF OffBeyond
    <3>1. loop.all /\ c <= loop.ch /\ loop.at # "halt"
      BY <1>3
    <3>2. c < loop.ch \/ c = loop.ch
      <4>1. c \in Nat /\ loop.ch \in Nat
        BY <1>1, Channels
      <4> QED
        BY <3>1, <4>1
    <3> QED
      BY <1>1, <1>3, <3>1, <3>2 DEF SilenceInv, At
  <2>5. loop'.all /\ silence' > SilentLimit =>
          \A c \in Channel :
             c < loop'.ch \/ (c = loop'.ch /\ loop'.at # "halt") => ~pwm'[c].on
    BY <1>1, <1>3 DEF SilenceInv, At
  <2>6. SilenceInv'
    BY <1>3, <2>3, <2>4, <2>5 DEF SilenceInv, At
  <2> QED
    BY <2>1, <2>2, <2>6 DEF SlaveAppInv
<1>4. loop.ch \in Nat /\ \A c \in Channel : c \in Nat
  BY <1>1, Channels
<1>5. ASSUME NEW p \in Places, Go(p)
      PROVE  /\ loop' \in Loop /\ loop'.at = p /\ loop'.all = loop.all /\ loop'.ch = loop.ch
  BY <1>1, <1>5 DEF Go, Loop
<1>6. ~At("halt") /\ ~At("clear") /\ ~At("idle") => ~loop.all
  BY <1>1 DEF SilenceInv, At
<1>7. CASE Count \/ Zero
  <2>1. ~loop.all /\ pwm' = pwm
    BY <1>6, <1>7 DEF Count, Zero, At
  <2>2. (\E p \in {"load", "halt"} : Go(p)) \/ NextOutput
    BY <1>7 DEF Count, Zero
  <2>3. CASE NextOutput
    <3>1. loop' \in Loop /\ loop'.at \in {"count", "silent"} /\ ~loop'.all
      BY <1>1, <2>1, <2>3, NextOutputIs
    <3> QED
      BY <1>1, <1>3, <2>1, <3>1
  <2>4. ASSUME NEW p \in {"load", "halt"}, Go(p) PROVE SlaveAppInv'
    <3>1. loop' \in Loop /\ loop'.at = p /\ ~loop'.all
      BY <1>5, <2>1, <2>4 DEF Places
    <3> QED
      BY <1>1, <1>3, <2>1, <3>1
  <2> QED
    BY <2>2, <2>3, <2>4
<1>8. CASE Load
  <2>1. pwm[loop.ch].left \in 0..(Byte - 1)
    BY <1>1 DEF Pwm
  <2>2. loop' \in Loop /\ loop'.at = "store" /\ ~loop'.all /\ pwm' = pwm
    BY <1>1, <1>6, <1>8, <2>1 DEF Load, At, Loop, Places
  <2> QED
    BY <1>1, <1>3, <2>2
<1>9. CASE Store
  <2>1. (loop.loaded + Byte - 1) % Byte \in 0..(Byte - 1)
    BY <1>1, Sizes DEF Loop
  <2>2. loop' \in Loop /\ loop'.at = "zero" /\ ~loop'.all
    BY <1>1, <1>6, <1>9, Sizes DEF Store, At, Loop, Places
  <2>3. pwm' = [pwm EXCEPT ![loop.ch].left = (loop.loaded + Byte - 1) % Byte]
    BY <1>9 DEF Store
  <2>4. pwm' \in Pwm /\ \A c \in Channel : pwm'[c].on = pwm[c].on
    BY <1>1, <2>1, <2>3 DEF Pwm
  <2> QED
    BY <1>3, <2>2, <2>4
<1>10. CASE Halt
  <2>1. pwm' \in Pwm /\ ~pwm'[loop.ch].on /\ \A c \in Channel : c # loop.ch => pwm'[c] = pwm[c]
    BY <1>1, <1>10 DEF Halt, Pwm
  <2>2. loop' \in Loop /\ loop'.at = "clear" /\ loop'.all = loop.all /\ loop'.ch = loop.ch
    BY <1>5, <1>10 DEF Halt, Places
  <2> QED
    BY <1>3, <1>4, <2>1, <2>2
<1>11. CASE Clear
  <2>1. pwm' \in Pwm /\ \A c \in Channel : pwm'[c].on = pwm[c].on
    BY <1>1, <1>11, Sizes DEF Clear, Pwm
  <2>2. loop' \in Loop /\ loop'.at = "idle" /\ loop'.all = loop.all /\ loop'.ch = loop.ch
    BY <1>5, <1>11 DEF Clear, Places
  <2> QED
    BY <1>3, <1>4, <1>11, <2>1, <2>2 DEF Clear, At
<1>12. CASE Unmark
  <2>1. pwm' \in Pwm /\ \A c \in Channel : pwm'[c].on = pwm[c].on
    BY <1>1, <1>12 DEF Unmark, Pwm
  <2>2. /\ loop' \in Loop
        /\ \/ /\ loop'.at = (IF loop.all THEN "halt" ELSE "count")
              /\ loop'.all = loop.all /\ loop'.ch = loop.ch + 1
           \/ /\ loop'.at = (IF loop.all THEN "delay" ELSE "silent")
              /\ ~loop'.all /\ \A c \in Channel : c <= loop.ch
    BY <1>1, <1>12, NextOutputIs DEF Unmark
  <2>3. loop.at = "idle"
    BY <1>12 DEF Unmark, At
  <2>4. loop.all \in BOOLEAN
    BY <1>1 DEF Loop
  <2>5. CASE loop.all
    <3>1. CASE loop'.at = "halt" /\ loop'.all = loop.all /\ loop'.ch = loop.ch + 1
      <4>1. \A c \in Channel : c < loop'.ch => c < loop.ch \/ c = loop.ch
        BY <1>4, <3>1
      <4> QED
        BY <1>3, <1>4, <2>1, <2>2, <2>3, <2>5, <3>1, <4>1
    <3>2. CASE loop'.at = "delay" /\ ~loop'.all /\ \A c \in Channel : c <= loop.ch
      BY <1>3, <2>1, <2>2, <2>3, <2>5, <3>2
    <3> QED
      BY <2>2, <2>5, <3>1, <3>2
  <2>6. CASE ~loop.all
    <3>1. loop'.at \in {"count", "silent"} /\ ~loop'.all
      BY <2>2, <2>6
    <3> QED
      BY <1>3, <2>1, <2>2, <3>1
  <2> QED
    BY <2>4, <2>5, <2>6
<1> QED
  BY <1>7, <1>8, <1>9, <1>10, <1>11, <1>12

\* The look at the silence, the clock and the watchdog.
LEMMA ClockKeeps ==
    ASSUME SlaveAppInv, Refresh \/ Silent \/ Compare \/ Delay \/ Elapse
    PROVE  SlaveAppInv'
<1>1. /\ loop \in Loop /\ pwm \in Pwm /\ silence \in 0..AgeMax /\ age \in 0..WatchdogLimit
      /\ mlx \in Mlx /\ uses \in Uses /\ period \in Period
      /\ SilenceInv /\ CameraInv
  BY TypeFacts DEF SlaveAppInv
<1>2. ~loop.all
  BY <1>1 DEF SilenceInv, Refresh, Silent, Compare, Delay, Elapse, At
<1>3. mlx' = mlx /\ pwm' = pwm /\ uses' = uses /\ period' = period
  BY DEF Refresh, Silent, Compare, Delay, Elapse, Still
<1>4. ASSUME silence' \in 0..AgeMax, age' \in 0..WatchdogLimit, loop' \in Loop, SilenceInv',
             loop'.at \in Places \ {"trigger", "reading", "ready"} \/ loop' = loop
      PROVE  SlaveAppInv'
  <2>1. TypeOK'
    BY <1>1, <1>3, <1>4, TypeConclusion
  <2>2. CameraInv'
    BY <1>1, <1>3, <1>4, OutputStep DEF CameraInv, ReadyMeansWhole, At
  <2> QED
    BY <1>4, <2>1, <2>2 DEF SlaveAppInv
<1>5. CASE Refresh
  <2>1. loop' \in Loop /\ loop'.at = "service" /\ ~loop'.all /\ age' = 0 /\ silence' = silence
    BY <1>1, <1>2, <1>5 DEF Refresh, Go, Loop, Places
  <2>2. OffBeyond(SilentLimit + 1)
    BY <1>1, <1>5 DEF Refresh, SilenceInv, At
  <2>3. SilenceInv'
    BY <1>3, <2>1, <2>2, Sizes DEF SilenceInv, OffBeyond, At
  <2> QED
    BY <1>1, <1>4, <2>1, <2>3, Sizes DEF Places
<1>6. CASE Silent
  <2>1. loop' \in Loop /\ loop'.at = "compare" /\ ~loop'.all /\ age' = age /\ silence' = silence
    BY <1>1, <1>2, <1>6 DEF Silent, Still, Loop, Places
  <2>2. SilenceInv'
    BY <1>1, <1>3, <1>6, <2>1 DEF Silent, SilenceInv, OffBeyond, At
  <2> QED
    BY <1>1, <1>4, <2>1, <2>2 DEF Places
<1>7. CASE Compare
  <2>1. age' = age /\ silence' = silence /\ loop.at = "compare"
    BY <1>7 DEF Compare, Still, At
  <2>2. OffBeyond(SilentLimit + 1 + age)
    BY <1>1, <2>1 DEF SilenceInv, At
  <2>3. CASE loop' = [loop EXCEPT !.at = "halt", !.ch = 0, !.all = TRUE, !.late = FALSE]
    <3>1. loop' \in Loop /\ loop'.at = "halt" /\ loop'.all /\ loop'.ch = 0
      BY <1>1, <2>3, Channels DEF Loop, Places
    <3>2. SilenceInv'
      BY <1>3, <2>1, <2>2, <3>1, Channels DEF SilenceInv, OffBeyond, At
    <3> QED
      BY <1>1, <1>4, <2>1, <3>1, <3>2 DEF Places
  <2>4. CASE silence <= SilentLimit /\ loop' = [loop EXCEPT !.at = "delay", !.late = FALSE]
    <3>1. loop' \in Loop /\ loop'.at = "delay" /\ ~loop'.all
      BY <1>1, <1>2, <2>4 DEF Loop, Places
    <3>2. SilenceInv'
      BY <1>1, <2>1, <2>4, <3>1, Sizes DEF SilenceInv, OffBeyond, At
    <3> QED
      BY <1>1, <1>4, <2>1, <3>1, <3>2 DEF Places
  <2> QED
    BY <1>7, <2>3, <2>4 DEF Compare
<1>8. CASE Delay \/ Elapse
  <2>1. /\ age < WatchdogLimit /\ age' = age + 1
        /\ silence' = IF silence < AgeMax THEN silence + 1 ELSE silence
    BY <1>8 DEF Delay, Elapse, Older
  <2>2. silence' \in 0..AgeMax /\ age' \in 0..WatchdogLimit /\ silence' <= silence + 1
    BY <1>1, <2>1, Sizes
  <2>3. CASE Delay
    <3>1. loop' \in Loop /\ loop'.at = "refresh" /\ ~loop'.all
      BY <1>1, <1>2, <2>3 DEF Delay, Go, Loop, Places
    <3>2. OffBeyond(SilentLimit)
      BY <1>1, <2>3 DEF Delay, SilenceInv, At
    <3>3. OffBeyond(SilentLimit + 1)'
      BY <1>1, <1>3, <2>2, <3>2, Sizes DEF OffBeyond
    <3>4. SilenceInv'
      BY <3>1, <3>3 DEF SilenceInv, At
    <3> QED
      BY <1>4, <2>2, <3>1, <3>4 DEF Places
  <2>4. CASE Elapse
    <3>1. loop' = loop /\ loop.at \in {"init", "reading"}
      BY <2>4 DEF Elapse, At
    <3>2. OffBeyond(SilentLimit + 1 + age)
      BY <1>1, <3>1 DEF SilenceInv, At
    <3>3. OffBeyond(SilentLimit + 1 + age)'
      BY <1>1, <1>3, <2>1, <2>2, <3>2, Sizes DEF OffBeyond
    <3>4. SilenceInv'
      BY <1>2, <3>1, <3>3 DEF SilenceInv, At
    <3> QED
      BY <1>1, <1>4, <2>2, <3>1, <3>4
  <2> QED
    BY <1>8, <2>3, <2>4
<1> QED
  BY <1>5, <1>6, <1>7, <1>8

LEMMA SlaveAppInvKept == SlaveAppInv /\ [Next]_vars => SlaveAppInv'
<1> SUFFICES ASSUME SlaveAppInv, [Next]_vars PROVE SlaveAppInv'
  OBVIOUS
<1>1. CASE Interrupt
  BY <1>1, InterruptKeeps
<1>2. CASE Service \/ Initialised \/ Requested \/ Choose \/ CaptureFails \/ Trigger \/ Read \/ Ready
  BY <1>2, CamerasKeep
<1>3. CASE Count \/ Load \/ Store \/ Zero \/ Halt \/ Clear \/ Unmark
  BY <1>3, OutputsKeep
<1>4. CASE Refresh \/ Silent \/ Compare \/ Delay \/ Elapse
  BY <1>4, ClockKeeps
<1>5. CASE Watchdog \/ Restart
  BY <1>5, ResetKeeps DEF Watchdog, Restart
<1>6. CASE UNCHANGED vars
  BY <1>6 DEF vars, SlaveAppInv, TypeOK, CameraInv, ReadyMeansWhole, SilenceInv, OffBeyond, At
<1> QED
  BY <1>1, <1>2, <1>3, <1>4, <1>5, <1>6 DEF Next, MainStep

\* What the main loop and the link keep between them, for any number of
\* channels and any lengths of a pulse.
THEOREM SlaveAppInvariance == Spec => []SlaveAppInv
  BY InitSlaveApp, SlaveAppInvKept, PTL DEF Spec

\* A link that falls silent stops every output of the slave, the endless ones
\* included, within the limit and one round of the main loop.
THEOREM OutputsStop == Spec => []SilenceStops
<1>1. SlaveAppInv => SilenceStops
  <2> SUFFICES ASSUME SlaveAppInv, silence > SilentLimit + WatchdogLimit + 1
               PROVE  \A c \in Channel : ~pwm[c].on
    BY DEF SilenceStops
  <2>1. silence \in Nat /\ age \in Nat /\ age <= WatchdogLimit
    BY TypeFacts, Sizes DEF SlaveAppInv
  <2>2. /\ silence > SilentLimit + 1 /\ silence > SilentLimit /\ silence > 0
        /\ silence > SilentLimit + 1 + age
    BY <2>1, Sizes
  <2> QED
    BY <2>2 DEF SlaveAppInv, SilenceInv, OffBeyond
<1> QED
  BY <1>1, SlaveAppInvariance, PTL

-----------------------------------------------------------------------------
(* The camera on the head itself *)

LEMMA CameraFacts ==
    /\ Interleaved \subseteq Blocking /\ Blocking \subseteq Camera /\ Stepped \subseteq Camera
    /\ NoCamera \notin Camera /\ MaxTriggers \in Nat /\ \A c \in Stepped : c \notin Blocking
    /\ Torn = -1 /\ Torn \notin 0..MaxTriggers /\ 0 \in 0..MaxTriggers
    /\ \A n \in 0..MaxTriggers : n \in Torn..MaxTriggers
    /\ Torn \in Torn..MaxTriggers
  BY DirectCameraAssumption DEF Camera, Torn

LEMMA Halves ==
    ASSUME NEW c
    PROVE  /\ Half = {0, 1}
           /\ \A part \in Brought(c) : part \subseteq Half /\ part # {}
           /\ \E part \in Brought(c) : TRUE
  BY DEF Half, Brought

Raws  == [Camera -> Torn..MaxTriggers]
Temps == [Camera -> [Half -> Torn..MaxTriggers]]
Asked == [Camera -> 0..MaxTriggers]
Told  == [of : Camera \cup {NoCamera}, trigger : 0..MaxTriggers]

LEMMA InitCapture == CameraInit => CaptureInv
<1> SUFFICES ASSUME CameraInit PROVE CaptureInv
  OBVIOUS
<1>1. Nothing \in Told /\ Nothing.of = NoCamera
  BY CameraFacts DEF Nothing, Told
<1>2. /\ raw = [c \in Camera |-> 0] /\ temps = [c \in Camera |-> [h \in Half |-> 0]]
      /\ asked = [c \in Camera |-> 0] /\ told = Nothing /\ pending = NoCamera /\ stage = "idle"
      /\ status = [c \in Camera |-> "idle"] /\ variant \in Camera \cup {NoCamera}
  BY DEF CameraInit
<1>3. CameraTypeOK
  BY <1>1, <1>2, CameraFacts DEF CameraTypeOK, Told
<1> QED
  BY <1>1, <1>2, <1>3, CameraFacts DEF CaptureInv

LEMMA CameraTypes ==
    ASSUME CaptureInv
    PROVE  /\ variant \in Camera \cup {NoCamera} /\ pending \in Camera \cup {NoCamera}
           /\ status \in [Camera -> {"idle", "busy", "ready", "error"}]
           /\ raw \in Raws /\ temps \in Temps /\ asked \in Asked /\ told \in Told
           /\ \A c \in Camera : asked[c] \in 0..MaxTriggers /\ asked[c] # Torn
  BY CameraFacts DEF CaptureInv, CameraTypeOK, Raws, Temps, Asked, Told

\* The frames of the host, and a reset.
LEMMA HostKeeps ==
    ASSUME CaptureInv, SetCamera \/ AskCapture \/ QueryReady \/ QueryReads \/ HeadReset
    PROVE  CaptureInv'
<1>1. Nothing \in Told /\ Nothing.of = NoCamera
  BY CameraFacts DEF Nothing, Told
<1>2. CASE SetCamera
  <2>1. CameraTypeOK'
    BY <1>1, <1>2 DEF SetCamera, CaptureInv, CameraTypeOK, Told
  <2> QED
    BY <1>1, <1>2, <2>1 DEF SetCamera, CaptureInv, Fresh
<1>3. CASE AskCapture
  <2>1. /\ variant \in Camera /\ pending = NoCamera /\ pending' = variant /\ stage = "idle"
        /\ asked' = [asked EXCEPT ![variant] = @ + 1] /\ told' = Nothing
        /\ asked[variant] < MaxTriggers
        /\ UNCHANGED <<variant, stage, status, raw, temps>>
    BY <1>3 DEF AskCapture, CaptureInv, CameraTypeOK
  <2>2. asked' \in Asked /\ \A c \in Camera : c # variant => asked'[c] = asked[c]
    BY <2>1, CameraTypes, CameraFacts DEF Asked
  <2>3. CameraTypeOK'
    BY <1>1, <2>1, <2>2 DEF CaptureInv, CameraTypeOK, Told, Asked
  <2>4. \A c \in Camera : c # variant /\ status[c] = "ready" => Fresh(c)'
    BY <2>1, <2>2, CameraFacts DEF CaptureInv, Fresh
  <2> QED
    BY <1>1, <2>1, <2>3, <2>4, CameraFacts DEF CaptureInv
<1>4. CASE QueryReady
  <2>1. /\ variant \in Camera /\ pending = NoCamera /\ status[variant] = "ready"
        /\ told' = [of |-> variant, trigger |-> asked[variant]]
        /\ UNCHANGED <<variant, pending, stage, status, raw, temps, asked>>
    BY <1>4, CameraTypes DEF QueryReady, Answer
  <2>2. told' \in Told
    BY <2>1, CameraTypes DEF Told
  <2>3. CameraTypeOK'
    BY <2>1, <2>2 DEF CaptureInv, CameraTypeOK, Told
  <2> QED
    BY <2>1, <2>3 DEF CaptureInv, Fresh
<1>5. CASE QueryReads
  <2>1. /\ pending = NoCamera /\ variant \in Stepped /\ variant \in Camera
        /\ status[variant] = "busy" /\ stage = "idle"
        /\ UNCHANGED <<variant, pending, stage, asked>>
    BY <1>5, CameraFacts DEF QueryReads, CaptureInv
  <2>2. told.of = NoCamera
    BY <2>1 DEF CaptureInv
  <2>3. asked[variant] \in 0..MaxTriggers /\ asked[variant] # Torn /\ asked[variant] \in Torn..MaxTriggers
    BY <2>1, CameraTypes, CameraFacts
  <2>4. CASE /\ raw' = [raw EXCEPT ![variant] = asked[variant]]
             /\ temps' = [temps EXCEPT ![variant] = [h \in Half |-> asked[variant]]]
             /\ status' = [status EXCEPT ![variant] = "ready"]
             /\ told' = [of |-> variant, trigger |-> asked[variant]]
    <3>1. /\ raw' \in Raws /\ temps' \in Temps /\ told' \in Told
          /\ status' \in [Camera -> {"idle", "busy", "ready", "error"}]
      BY <2>1, <2>3, <2>4, CameraTypes DEF Raws, Temps, Told
    <3>2. CameraTypeOK'
      BY <2>1, <3>1 DEF CaptureInv, CameraTypeOK, Raws, Temps, Told
    <3>3. /\ raw'[variant] = asked[variant] /\ status'[variant] = "ready"
          /\ \A h \in Half : temps'[variant][h] = asked[variant]
      BY <2>1, <2>4, CameraTypes DEF Raws, Temps
    <3>4. \A c \in Camera : c # variant =>
             raw'[c] = raw[c] /\ temps'[c] = temps[c] /\ status'[c] = status[c]
      BY <2>1, <2>4, CameraTypes DEF Raws, Temps
    <3>5. Fresh(variant)'
      BY <2>1, <3>3, Halves DEF Fresh
    <3>6. \A c \in Camera : status'[c] = "ready" => Fresh(c)'
      BY <2>1, <3>4, <3>5, CameraFacts DEF CaptureInv, Fresh
    <3>7. \A c \in Camera, h \in Half : temps'[c][h] # Torn
      BY <2>1, <2>3, <3>3, <3>4 DEF CaptureInv
    <3> QED
      BY <2>1, <2>4, <3>2, <3>3, <3>6, <3>7 DEF CaptureInv
  <2>5. CASE /\ raw' = [raw EXCEPT ![variant] = Torn]
             /\ status' = [status EXCEPT ![variant] = "error"]
             /\ UNCHANGED <<temps, told>>
    <3>1. /\ raw' \in Raws
          /\ status' \in [Camera -> {"idle", "busy", "ready", "error"}]
      BY <2>1, <2>5, CameraTypes, CameraFacts DEF Raws
    <3>2. CameraTypeOK'
      BY <2>1, <2>5, <3>1 DEF CaptureInv, CameraTypeOK, Raws
    <3>3. status'[variant] = "error" /\ \A c \in Camera : c # variant =>
             raw'[c] = raw[c] /\ status'[c] = status[c]
      BY <2>1, <2>5, CameraTypes DEF Raws
    <3>4. \A c \in Camera : status'[c] = "ready" => Fresh(c)'
      BY <2>1, <2>5, <3>3, CameraFacts DEF CaptureInv, Fresh
    <3> QED
      BY <2>1, <2>2, <2>5, <3>2, <3>4 DEF CaptureInv
  <2> QED
    BY <1>5, <2>4, <2>5 DEF QueryReads
<1>6. CASE HeadReset
  <2>1. /\ raw' = [c \in Camera |-> 0] /\ temps' = [c \in Camera |-> [h \in Half |-> 0]]
        /\ asked' = asked /\ told' = Nothing /\ pending' = NoCamera /\ stage' = "idle"
        /\ status' = [c \in Camera |-> "idle"] /\ variant' \in Camera \cup {NoCamera}
    BY <1>6 DEF HeadReset
  <2>2. CameraTypeOK'
    BY <1>1, <2>1, CameraFacts DEF CaptureInv, CameraTypeOK, Told
  <2> QED
    BY <1>1, <2>1, <2>2, CameraFacts DEF CaptureInv
<1> QED
  BY <1>2, <1>3, <1>4, <1>5, <1>6

\* The main loop: a capture asked for, in its stages.
LEMMA CaptureKeeps ==
    ASSUME CaptureInv,
           \/ ServeCapture \/ CaptureFailed \/ SteppedStarted \/ BeginRead \/ EndRead
           \/ BeginCompute \/ EndCompute \/ CaptureOver
    PROVE  CaptureInv'
<1>1. /\ pending \in Camera /\ variant' = variant /\ asked' = asked /\ told' = told
      /\ told.of = NoCamera
  BY CameraTypes, CameraFacts DEF CaptureInv, ServeCapture, CaptureFailed, SteppedStarted, BeginRead, EndRead,
         BeginCompute, EndCompute, CaptureOver
<1>2. /\ status \in [Camera -> {"idle", "busy", "ready", "error"}]
      /\ raw \in Raws /\ temps \in Temps /\ asked \in Asked
      /\ asked[pending] \in 0..MaxTriggers /\ asked[pending] # Torn
      /\ asked[pending] \in Torn..MaxTriggers
  BY <1>1, CameraTypes, CameraFacts
\* Only the camera that is captured is touched
<1>3. ASSUME NEW s \in {"idle", "busy", "ready", "error"}, NEW r \in Torn..MaxTriggers,
             NEW t \in [Half -> Torn..MaxTriggers],
             status' = [status EXCEPT ![pending] = s], raw' = [raw EXCEPT ![pending] = r],
             temps' = [temps EXCEPT ![pending] = t], pending' = pending,
             stage' \in {"begun", "reading", "read", "computing", "over"},
             stage' \in {"reading", "read", "computing"} => pending \in Blocking,
             stage' # "over" => s # "ready",
             stage' \in {"read", "computing"} => r = asked[pending],
             stage' # "computing" => \A h \in Half : t[h] # Torn,
             stage' = "computing" => \E part \in Brought(pending) : \A h \in part : t[h] = Torn,
             stage' = "over" /\ s = "ready" =>
                /\ r = asked[pending]
                /\ \E part \in Brought(pending) : \A h \in part : t[h] = asked[pending]
      PROVE  CaptureInv'
  <2>1. /\ status' \in [Camera -> {"idle", "busy", "ready", "error"}]
        /\ raw' \in Raws /\ temps' \in Temps
    BY <1>2, <1>3 DEF Raws, Temps
  <2>2. status'[pending] = s /\ raw'[pending] = r /\ temps'[pending] = t
    BY <1>1, <1>2, <1>3 DEF Raws, Temps
  <2>3. \A c \in Camera : c # pending =>
           status'[c] = status[c] /\ raw'[c] = raw[c] /\ temps'[c] = temps[c]
    BY <1>2, <1>3 DEF Raws, Temps
  <2>4. CameraTypeOK'
    BY <1>1, <1>3, <2>1 DEF CaptureInv, CameraTypeOK, Raws, Temps
  <2>5. \A c \in Camera, h \in Half : temps'[c][h] = Torn => stage' = "computing" /\ pending' = c
    BY <1>3, <2>2, <2>3 DEF CaptureInv
  <2>6. \A c \in Camera :
          status'[c] = "ready" /\ (pending' # c \/ stage' = "over") => Fresh(c)'
    <3> SUFFICES ASSUME NEW c \in Camera, status'[c] = "ready", pending # c \/ stage' = "over"
                 PROVE  Fresh(c)'
      BY <1>3
    <3>1. CASE c = pending
      BY <1>1, <1>3, <2>2, <3>1 DEF Fresh
    <3>2. CASE c # pending
      BY <1>1, <2>3, <3>2 DEF CaptureInv, Fresh
    <3> QED
      BY <3>1, <3>2
  <2> QED
    BY <1>1, <1>3, <2>2, <2>4, <2>5, <2>6, CameraFacts DEF CaptureInv
<1>4. /\ status = [status EXCEPT ![pending] = status[pending]]
      /\ raw = [raw EXCEPT ![pending] = raw[pending]]
      /\ temps = [temps EXCEPT ![pending] = temps[pending]]
      /\ status[pending] \in {"idle", "busy", "ready", "error"}
      /\ raw[pending] \in Torn..MaxTriggers /\ temps[pending] \in [Half -> Torn..MaxTriggers]
  BY <1>1, <1>2 DEF Raws, Temps
<1>5. stage # "computing" => \A h \in Half : temps[pending][h] # Torn
  BY <1>1 DEF CaptureInv
<1>6. CASE ServeCapture
  BY <1>3, <1>4, <1>5, <1>6 DEF ServeCapture
<1>7. CASE CaptureFailed
  BY <1>3, <1>4, <1>5, <1>7 DEF CaptureFailed
<1>8. CASE SteppedStarted
  BY <1>3, <1>4, <1>5, <1>8 DEF SteppedStarted, CaptureInv
<1>9. CASE BeginRead
  BY <1>3, <1>4, <1>5, <1>9, CameraFacts DEF BeginRead, CaptureInv
<1>10. CASE EndRead
  BY <1>2, <1>3, <1>4, <1>5, <1>10 DEF EndRead, CaptureInv
<1>11. CASE BeginCompute
  <2>1. PICK part \in Brought(pending) :
          temps' = [temps EXCEPT ![pending] =
                      [h \in Half |-> IF h \in part THEN Torn ELSE temps[pending][h]]]
    BY <1>2, <1>11 DEF BeginCompute
  <2> DEFINE t == [h \in Half |-> IF h \in part THEN Torn ELSE temps[pending][h]]
  <2>2. t \in [Half -> Torn..MaxTriggers]
    BY <1>4, CameraFacts
  <2>3. \A h \in part : t[h] = Torn
    BY Halves
  <2>4. /\ temps' = [temps EXCEPT ![pending] = t] /\ stage' = "computing" /\ stage = "read"
        /\ status' = [status EXCEPT ![pending] = status[pending]]
        /\ raw' = [raw EXCEPT ![pending] = raw[pending]] /\ pending' = pending
    BY <1>4, <1>11, <2>1 DEF BeginCompute
  <2>5. pending \in Blocking /\ status[pending] # "ready" /\ raw[pending] = asked[pending]
    BY <2>4 DEF CaptureInv
  <2> HIDE DEF t
  <2> QED
    BY <1>3, <1>4, <2>2, <2>3, <2>4, <2>5
<1>12. CASE EndCompute
  <2> DEFINE t == [h \in Half |-> IF temps[pending][h] = Torn THEN raw[pending] ELSE temps[pending][h]]
  <2>1. /\ temps' = [temps EXCEPT ![pending] = t] /\ stage' = "over" /\ stage = "computing"
        /\ status' = [status EXCEPT ![pending] = "ready"]
        /\ raw' = [raw EXCEPT ![pending] = raw[pending]] /\ pending' = pending
    BY <1>4, <1>12 DEF EndCompute
  <2>2. raw[pending] = asked[pending]
    BY <2>1 DEF CaptureInv
  <2>3. t \in [Half -> Torn..MaxTriggers] /\ \A h \in Half : t[h] # Torn
    BY <1>2, <1>4, <2>2
  <2>4. PICK part \in Brought(pending) : \A h \in part : temps[pending][h] = Torn
    BY <2>1 DEF CaptureInv
  <2>5. \A h \in part : t[h] = asked[pending]
    BY <2>2, <2>4, Halves
  <2> HIDE DEF t
  <2> QED
    BY <1>3, <1>4, <2>1, <2>2, <2>3, <2>5
<1>13. CASE CaptureOver
  <2>1. /\ stage = "over" /\ stage' = "idle" /\ pending' = NoCamera
        /\ UNCHANGED <<status, raw, temps>>
    BY <1>13 DEF CaptureOver
  <2>2. CameraTypeOK'
    BY <1>1, <2>1 DEF CaptureInv, CameraTypeOK
  <2>3. \A c \in Camera : status[c] = "ready" => Fresh(c)'
    BY <1>1, <2>1 DEF CaptureInv, Fresh
  <2>4. \A c \in Camera, h \in Half : temps'[c][h] # Torn
    BY <2>1 DEF CaptureInv
  <2> QED
    BY <1>1, <2>1, <2>2, <2>3, <2>4 DEF CaptureInv
<1> QED
  BY <1>6, <1>7, <1>8, <1>9, <1>10, <1>11, <1>12, <1>13

LEMMA CaptureInvKept == CaptureInv /\ [CameraNext]_cameraVars => CaptureInv'
<1>1. CaptureInv /\ UNCHANGED cameraVars => CaptureInv'
  BY DEF cameraVars, CaptureInv, CameraTypeOK, Fresh
<1> QED
  BY <1>1, HostKeeps, CaptureKeeps DEF CameraNext

-----------------------------------------------------------------------------
(* Either board *)

\* The two invariants hold on either board, whose steps leave each other alone.
LEMMA BoardInvariance == BoardSpec => [](SlaveAppInv /\ CaptureInv)
<1> DEFINE all == <<vars, cameraVars, board>>
<1>1. BoardInit => SlaveAppInv /\ CaptureInv
  BY InitSlaveApp, InitCapture DEF BoardInit
<1>2. SlaveAppInv /\ CaptureInv /\ [SlaveNext \/ DirectNext]_all => SlaveAppInv' /\ CaptureInv'
  BY SlaveAppInvKept, CaptureInvKept DEF SlaveNext, DirectNext
<1> QED
  BY <1>1, <1>2, PTL DEF BoardSpec

\* What the host is told is ready is one frame, read to its end, and on the
\* head that of the last trigger, for any cameras and numbers of captures
\* (MLX_ServiceCapture, ThermalInspection_Service and their interrupts).
THEOREM FramesAreWhole == BoardSpec => []ReadyIsOneFrame
<1>1. SlaveAppInv /\ CaptureInv => ReadyIsOneFrame
  <2> SUFFICES ASSUME SlaveAppInv, CaptureInv, told.of # NoCamera
               PROVE  DirectReadyIsFresh
    BY DEF SlaveAppInv, CameraInv, ReadyIsOneFrame, DirectReadyIsFresh
  <2>1. /\ told.of = variant /\ told.trigger = asked[variant]
        /\ pending = NoCamera /\ status[variant] = "ready" /\ variant \in Camera
        /\ stage = "idle"
    BY CameraTypes, CameraFacts DEF CaptureInv
  <2>2. Fresh(variant) /\ \A h \in Half : temps[variant][h] # Torn
    BY <2>1, CameraFacts DEF CaptureInv
  <2> QED
    BY <2>1, <2>2 DEF DirectReadyIsFresh, Fresh
<1> QED
  BY <1>1, BoardInvariance, PTL

=============================================================================
