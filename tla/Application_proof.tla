------------------------- MODULE Application_proof -------------------------
(***************************************************************************)
(* Proofs of the safety properties of Application: AppInv is inductive,    *)
(* for every set of heads, and the limits on the outputs, the silence      *)
(* under a fault and after a SAFE_STOP, and the count of the steps follow  *)
(* from it; with SensorInv, so does what catches a silent sensor.          *)
(***************************************************************************)
EXTENDS Application, TLAPS

-----------------------------------------------------------------------------
(* The order of the calls, for each profile *)

\* The calls that stages can be; the first that applies is the one that runs.
LEMMA FirstIs ==
    ASSUME NEW n \in Nat, NEW m \in n..Len(Stages), Applies(Stages[m]),
           \A j \in n..(m - 1) : ~Applies(Stages[j])
    PROVE  FirstFrom(n) = Stages[m]
<1> DEFINE later == {i \in n..Len(Stages) : Applies(Stages[i])}
<1>0. Len(Stages) \in Nat
  BY DEF Stages
<1>1. m \in later /\ \A j \in later : m <= j
  BY <1>0
<1>2. (CHOOSE i \in later : \A j \in later : i <= j) = m
  <2>1. \A i \in later : (\A j \in later : i <= j) => i = m
    BY <1>0, <1>1
  <2> HIDE DEF later
  <2> QED
    BY <1>1, <2>1
<1> QED
  BY <1>2 DEF FirstFrom

\* No two calls of a round have one name.
LEMMA AfterIs ==
    ASSUME NEW k \in DOMAIN Stages
    PROVE  After(Stages[k]) = FirstFrom(k + 1)
<1>1. \A i \in DOMAIN Stages : Stages[i] = Stages[k] => i = k
  <2>1. CASE booting
    <3>1. Stages = <<"pwm", "stall", "heater", "sense", "delay">>
      BY <2>1 DEF Stages
    <3> QED
      BY <3>1
  <2>2. CASE ~booting
    <3>1. Stages = <<"sense", "pwm", "stall", "heater", "weld", "telemetry", "strobe", "top">>
      BY <2>2 DEF Stages
    <3> QED
      BY <3>1
  <2> QED
    BY <2>1, <2>2
<1>2. (CHOOSE i \in DOMAIN Stages : Stages[i] = Stages[k]) = k
  BY <1>1
<1> QED
  BY <1>2 DEF After

LEMMA ToolFacts ==
    /\ PwmTools = {"LASER_ENGRAVER", "DRILL", "UV_CURING", "3D_PRINTER", "HOTAIR_REWORK"}
    /\ HeaterTools = {"SOLDERING_IRON", "HOTAIR_REWORK", "3D_PRINTER"}
    /\ WelderTools = {"SPOT_WELDER", "ULTRASONIC_WELDER"}
  BY DEF PwmTools, ShortPwmTools, LongPwmTools, HeaterTools, T12Tools, WelderTools

LEMMA AppliesFacts ==
    /\ Applies("sense") <=> tool \in HeaterTools
    /\ Applies("pwm") <=> tool \in PwmTools
    /\ Applies("stall") <=> tool = "3D_PRINTER"
    /\ Applies("heater") <=> tool \in HeaterTools
    /\ Applies("weld") <=> tool \in WelderTools
    /\ Applies("telemetry") <=> tool = "3D_PRINTER"
    /\ Applies("strobe") <=> tool = "AOI_INSPECTION"
    /\ Applies("delay") /\ Applies("top")
  BY DEF Applies

\* A round of the splash screen.
LEMMA SplashRound ==
    ASSUME booting
    PROVE  /\ FirstFrom(1) = IF tool \in PwmTools THEN "pwm"
                             ELSE IF tool \in HeaterTools THEN "heater" ELSE "delay"
           /\ tool \in PwmTools => After("pwm") = IF tool = "3D_PRINTER" THEN "stall"
                             ELSE IF tool \in HeaterTools THEN "heater" ELSE "delay"
           /\ tool = "3D_PRINTER" => After("stall") = "heater"
           /\ tool \in HeaterTools => After("heater") = "sense"
           /\ After("sense") = "delay"
<1>1. Stages = <<"pwm", "stall", "heater", "sense", "delay">>
  BY DEF Stages
<1>2. /\ Len(Stages) = 5 /\ DOMAIN Stages = 1..5
      /\ Stages[1] = "pwm" /\ Stages[2] = "stall" /\ Stages[3] = "heater"
      /\ Stages[4] = "sense" /\ Stages[5] = "delay"
  BY <1>1
<1>3. /\ After("pwm") = FirstFrom(2) /\ After("stall") = FirstFrom(3)
      /\ After("heater") = FirstFrom(4) /\ After("sense") = FirstFrom(5)
  BY <1>2, AfterIs
<1>4. ASSUME NEW n \in 1..5, NEW m \in n..5, Applies(Stages[m]),
             \A j \in n..(m - 1) : ~Applies(Stages[j])
      PROVE  FirstFrom(n) = Stages[m]
  BY <1>2, <1>4, FirstIs
<1>5. FirstFrom(5) = "delay"
  BY <1>2, <1>4, AppliesFacts
<1>6. tool \in HeaterTools => FirstFrom(4) = "sense" /\ FirstFrom(3) = "heater"
  BY <1>2, <1>4, AppliesFacts
<1>7. tool \notin HeaterTools => FirstFrom(2) = "delay" /\ (tool \notin PwmTools => FirstFrom(1) = "delay")
  BY <1>2, <1>4, AppliesFacts, ToolFacts
<1>8. tool \in HeaterTools => FirstFrom(2) = IF tool = "3D_PRINTER" THEN "stall" ELSE "heater"
  BY <1>2, <1>4, AppliesFacts
<1>9. tool \in PwmTools => FirstFrom(1) = "pwm"
  BY <1>2, <1>4, AppliesFacts
<1>10. tool \notin PwmTools /\ tool \in HeaterTools => FirstFrom(1) = "heater"
  BY <1>2, <1>4, AppliesFacts, ToolFacts
<1> QED
  BY <1>3, <1>5, <1>6, <1>7, <1>8, <1>9, <1>10, ToolFacts

\* A round of the loop.
LEMMA LoopRound ==
    ASSUME ~booting
    PROVE  /\ FirstFrom(1) = IF tool \in HeaterTools THEN "sense"
                             ELSE IF tool \in PwmTools THEN "pwm"
                             ELSE IF tool \in WelderTools THEN "weld"
                             ELSE IF tool = "AOI_INSPECTION" THEN "strobe" ELSE "top"
           /\ tool \in HeaterTools => After("sense") = IF tool \in PwmTools THEN "pwm" ELSE "heater"
           /\ tool \in PwmTools => After("pwm") = IF tool = "3D_PRINTER" THEN "stall"
                             ELSE IF tool \in HeaterTools THEN "heater" ELSE "top"
           /\ tool = "3D_PRINTER" => After("stall") = "heater"
           /\ tool \in HeaterTools => After("heater") = IF tool = "3D_PRINTER" THEN "telemetry"
                                                        ELSE "top"
           /\ tool \in WelderTools => After("weld") = "top"
           /\ tool = "3D_PRINTER" => After("telemetry") = "top"
           /\ After("strobe") = "top"
<1>1. Stages = <<"sense", "pwm", "stall", "heater", "weld", "telemetry", "strobe", "top">>
  BY DEF Stages
<1>2. /\ Len(Stages) = 8 /\ DOMAIN Stages = 1..8
      /\ Stages[1] = "sense" /\ Stages[2] = "pwm" /\ Stages[3] = "stall"
      /\ Stages[4] = "heater" /\ Stages[5] = "weld" /\ Stages[6] = "telemetry"
      /\ Stages[7] = "strobe" /\ Stages[8] = "top"
  BY <1>1
<1>3. /\ After("sense") = FirstFrom(2) /\ After("pwm") = FirstFrom(3)
      /\ After("stall") = FirstFrom(4) /\ After("heater") = FirstFrom(5)
      /\ After("weld") = FirstFrom(6) /\ After("telemetry") = FirstFrom(7)
      /\ After("strobe") = FirstFrom(8)
  BY <1>2, AfterIs
<1>4. ASSUME NEW n \in 1..8, NEW m \in n..8, Applies(Stages[m]),
             \A j \in n..(m - 1) : ~Applies(Stages[j])
      PROVE  FirstFrom(n) = Stages[m]
  BY <1>2, <1>4, FirstIs
<1>5. FirstFrom(8) = "top"
  BY <1>2, <1>4, AppliesFacts
<1>6. tool # "AOI_INSPECTION" => FirstFrom(7) = "top"
  BY <1>2, <1>4, AppliesFacts
<1>7. /\ tool \in WelderTools => FirstFrom(6) = "top" /\ FirstFrom(1) = "weld"
      /\ tool = "AOI_INSPECTION" => FirstFrom(1) = "strobe"
  BY <1>2, <1>4, AppliesFacts, ToolFacts
<1>8. /\ tool = "3D_PRINTER" => FirstFrom(5) = "telemetry"
      /\ tool \in HeaterTools /\ tool # "3D_PRINTER" => FirstFrom(5) = "top"
  BY <1>2, <1>4, AppliesFacts, ToolFacts
<1>9. /\ tool \in HeaterTools => FirstFrom(4) = "heater" /\ FirstFrom(1) = "sense"
      /\ tool \in HeaterTools /\ tool \in PwmTools => FirstFrom(2) = "pwm"
      /\ tool \in HeaterTools /\ tool \notin PwmTools => FirstFrom(2) = "heater"
  BY <1>2, <1>4, AppliesFacts, ToolFacts
<1>10. /\ tool = "3D_PRINTER" => FirstFrom(3) = "stall"
       /\ tool \in HeaterTools /\ tool # "3D_PRINTER" => FirstFrom(3) = "heater"
  BY <1>2, <1>4, AppliesFacts, ToolFacts
<1>11. tool \in PwmTools /\ tool \notin HeaterTools => FirstFrom(3) = "top" /\ FirstFrom(1) = "pwm"
  BY <1>2, <1>4, AppliesFacts, ToolFacts
<1>12. tool \notin HeaterTools \cup PwmTools \cup WelderTools \cup {"AOI_INSPECTION"}
          => FirstFrom(1) = "top"
  BY <1>2, <1>4, AppliesFacts, ToolFacts
<1> QED
  BY <1>3, <1>5, <1>6, <1>7, <1>8, <1>9, <1>10, <1>11, <1>12, ToolFacts

-----------------------------------------------------------------------------
(* Types *)

LEMMA CappedFacts ==
    ASSUME NEW n \in Nat, NEW cap \in Nat
    PROVE  /\ Capped(n, cap) \in 0..cap
           /\ Capped(n, cap) <= n /\ Capped(n, cap) \in Nat
  BY DEF Capped

LEMMA AgedFacts ==
    ASSUME NEW n \in Nat, NEW cap \in Nat, NEW counts
    PROVE  /\ Aged(n, counts, cap) \in 0..cap
           /\ Aged(n, counts, cap) <= n + 1 /\ Aged(n, counts, cap) \in Nat
           /\ ~counts => Aged(n, counts, cap) = 0
  BY CappedFacts DEF Aged

LEMMA ConstantFacts ==
    /\ LoopMax \in Nat \ {0} /\ Limit \in Nat \ {0} /\ ShortLimit \in Nat \ {0}
    /\ StallLimit \in Nat \ {0} /\ ScreenPeriod \in Nat \ {0} /\ PeriodCeiling \in Nat \ {0}
    /\ PulseCeiling \in Nat /\ SplashRounds \in Nat /\ OffLimit \in Nat /\ Band \in Nat
    /\ WatchPeriod \in Nat \ {0} /\ HoldPeriod \in Nat \ {0}
    /\ Modulus \in Nat \ {0} /\ Moves \subseteq 0..(Modulus - 2)
    /\ {KickMax, HeatMax, ErrMax, ColdMax, StillMax, WeldMax, StrobeMax} \subseteq Nat
    /\ \A n \in Nat : Rounds(n) = n * LoopMax
<1>1. /\ LoopMax \in Nat \ {0} /\ Limit \in Nat \ {0} /\ ShortLimit \in Nat \ {0}
      /\ StallLimit \in Nat \ {0} /\ ScreenPeriod \in Nat \ {0} /\ PeriodCeiling \in Nat \ {0}
      /\ PulseCeiling \in Nat /\ SplashRounds \in Nat /\ OffLimit \in Nat /\ Band \in Nat
      /\ WatchPeriod \in Nat \ {0} /\ HoldPeriod \in Nat \ {0}
      /\ Modulus \in Nat \ {0} /\ Moves \subseteq 0..(Modulus - 2)
  BY AppAssumption, GuardAssumption DEF Limit
<1>2. Rounds(3) \in Nat /\ Rounds(5) \in Nat /\ Rounds(SplashRounds + 6) \in Nat
  BY <1>1 DEF Rounds
<1>3. /\ KickMax \in Nat /\ HeatMax \in Nat /\ ErrMax \in Nat /\ ColdMax \in Nat
      /\ StillMax \in Nat /\ WeldMax \in Nat /\ StrobeMax \in Nat
  BY <1>1, <1>2 DEF KickMax, HeatMax, ErrMax, ColdMax, StillMax, WeldMax, StrobeMax
<1> QED
  BY <1>1, <1>3 DEF Rounds

LEMMA BoardFacts ==
    ASSUME TypeOK
    PROVE  /\ board \in Boards /\ tool \in Tools /\ board.temps \subseteq Nat
           /\ board.targets \subseteq Nat /\ Temps \subseteq Nat /\ 0 \in Temps
           /\ board.temps \subseteq Temps /\ board.targets \subseteq Temps
<1>1. board \in Boards
  BY DEF TypeOK
<1>2. /\ tool \in Tools /\ board.temps \subseteq Nat /\ board.targets \subseteq Nat
  BY <1>1, AppAssumption DEF tool
<1> QED
  BY <1>1, <1>2 DEF Temps

LEMMA InitialFacts ==
    ASSUME NEW b
    PROVE  /\ Initial(b).splash \in 0..SplashRounds
           /\ Initial(b).pwm \in PwmState /\ Initial(b).heat \in HeatState
           /\ Initial(b).fan \in FanState /\ Initial(b).motor \in MotorState
           /\ Initial(b).weld \in WeldState /\ Initial(b).strobe \in StrobeState
           /\ Initial(b).moved \in MoveState /\ GuardReset \in Guard(Temps)
<1>1. 0 \in Temps
  BY DEF Temps
<1> QED
  BY <1>1, ConstantFacts DEF Initial, GuardReset, Guard, PwmState, HeatState, FanState,
       MotorState, WeldState, StrobeState, MoveState

LEMMA InitTypes == Init => TypeOK
<1> SUFFICES ASSUME Init PROVE TypeOK
  OBVIOUS
<1>1. /\ 0 \in 0..LoopMax /\ 0 \in 0..ScreenPeriod /\ 0 \in 0..ErrMax
      /\ 0 \in 0..(ErrMax + 1) /\ 0 \in 0..ColdMax /\ 0 \in 0..StillMax
  BY ConstantFacts
<1>2. "top" \in Places
  BY DEF Places
<1>3. /\ splash \in 0..SplashRounds /\ pwm \in PwmState /\ heat \in HeatState /\ fan \in FanState
      /\ motor \in MotorState /\ weld \in WeldState /\ strobe \in StrobeState
      /\ moved \in MoveState /\ guard \in Guard(Temps)
  BY InitialFacts DEF Init
<1>4. due \in BOOLEAN /\ err \in BOOLEAN /\ t12 \in BOOLEAN
  BY DEF Init
<1> QED
  BY <1>1, <1>2, <1>3, <1>4 DEF Init, TypeOK

LEMMA RestartTypes ==
    ASSUME TypeOK, Restart
    PROVE  TypeOK'
<1>1. Temps' = Temps
  BY DEF Restart, Temps
<1>2. HeatState' = HeatState /\ PwmState' = PwmState
  BY <1>1 DEF Restart, HeatState, PwmState, KickMax, Limit, tool, HeatMax
<1>3. /\ 0 \in 0..LoopMax /\ 0 \in 0..ScreenPeriod /\ 0 \in 0..ErrMax
      /\ 0 \in 0..(ErrMax + 1) /\ 0 \in 0..ColdMax /\ 0 \in 0..StillMax
  BY ConstantFacts
<1>4. "top" \in Places /\ board' \in Boards
  BY DEF Places, Restart, TypeOK
<1>5. /\ splash' \in 0..SplashRounds /\ pwm' \in PwmState' /\ heat' \in HeatState'
      /\ fan' \in FanState /\ motor' \in MotorState /\ weld' \in WeldState
      /\ strobe' \in StrobeState /\ moved' \in MoveState /\ guard' \in Guard(Temps')
  BY <1>1, <1>2, InitialFacts DEF Restart
<1>6. due' \in BOOLEAN /\ err' \in BOOLEAN /\ t12' \in BOOLEAN
  BY DEF Restart
<1> QED
  BY <1>3, <1>4, <1>5, <1>6 DEF Restart, TypeOK

\* The interrupts and the steps of the loop change one or two outputs each.
LEMMA HandlerTypes ==
    ASSUME TypeOK
    PROVE  /\ \A on, enable, pin \in BOOLEAN :
                 /\ Kicked(on) \in PwmState /\ [Kicked(on) EXCEPT !.pin = pin] \in PwmState
                 /\ [Kicked(on) EXCEPT !.out = enable, !.pin = pin] \in PwmState
           /\ \A target \in board.targets \cup {0} : Aimed(target) \in HeatState
           /\ \A steps \in Moves \cup {0} : /\ Commanded(steps) \in MotorState
                                            /\ MoveAsked(steps) \in MoveState
           /\ CutMotor \in MotorState /\ CutPwm \in PwmState
<1>1. pwm \in PwmState /\ heat \in HeatState /\ motor \in MotorState
  BY DEF TypeOK
<1>2. \A target \in board.targets \cup {0} : target \in Temps
  BY BoardFacts
<1>3. \A steps \in Moves \cup {0} : steps \in 0..(Modulus - 1) /\ steps \in Moves \cup {0}
  BY ConstantFacts
<1>4. 0 \in 0..KickMax /\ 0 \in 0..HeatMax /\ 0 \in 0..(Modulus - 1) /\ 0 \in 0..(Modulus + 1)
  BY ConstantFacts
<1>5. /\ \A on, enable, pin \in BOOLEAN :
           /\ Kicked(on) \in PwmState /\ [Kicked(on) EXCEPT !.pin = pin] \in PwmState
           /\ [Kicked(on) EXCEPT !.out = enable, !.pin = pin] \in PwmState
      /\ CutPwm \in PwmState
  BY <1>1, <1>4 DEF Kicked, PwmState, CutPwm
<1>6. \A target \in board.targets \cup {0} : Aimed(target) \in HeatState
  BY <1>1, <1>2, <1>4 DEF Aimed, HeatState
<1>7. /\ \A steps \in Moves \cup {0} : Commanded(steps) \in MotorState
      /\ CutMotor \in MotorState
  BY <1>1, <1>3, <1>4 DEF Commanded, MotorState, CutMotor
<1>8. \A steps \in Moves \cup {0} : MoveAsked(steps) \in MoveState
  BY <1>3, <1>4 DEF MoveAsked, MoveState
<1> QED
  BY <1>5, <1>6, <1>7, <1>8

\* The types depend on nothing but the head.
LEMMA SameHead ==
    ASSUME UNCHANGED board
    PROVE  /\ PwmState' = PwmState /\ HeatState' = HeatState /\ Temps' = Temps
           /\ Guard(Temps)' = Guard(Temps) /\ tool' = tool
<1>1. Temps' = Temps /\ tool' = tool
  BY DEF Temps, tool
<1>2. Limit' = Limit
  BY <1>1 DEF Limit
<1> QED
  BY <1>1, <1>2 DEF PwmState, HeatState, KickMax

\* A handler changes outputs, and calm, cold, still and moved with them.
LEMMA HandlerPreservesTypes ==
    ASSUME TypeOK, UNCHANGED rest, pwm' \in PwmState, heat' \in HeatState, t12' \in BOOLEAN,
           fan' \in FanState, motor' \in MotorState, weld' \in WeldState,
           strobe' \in StrobeState, moved' \in MoveState,
           calm' \in {calm, 0, 1}, cold' \in {cold, 0}, still' \in {still, 0}
    PROVE  TypeOK'
<1>1. UNCHANGED <<board, splash, pc, due, alive, screen, err, seen, guard, errAge>>
  BY DEF rest, env
<1>2. /\ board \in Boards /\ splash \in 0..SplashRounds /\ alive \in 0..LoopMax
      /\ screen \in 0..ScreenPeriod /\ due \in BOOLEAN /\ pc \in Places /\ seen \in 0..LoopMax
      /\ guard \in Guard(Temps) /\ errAge \in 0..ErrMax
  BY DEF TypeOK
<1>3. err \in BOOLEAN
  BY DEF TypeOK
<1>4. calm' \in 0..(ErrMax + 1) /\ cold' \in 0..ColdMax /\ still' \in 0..StillMax
  <2>1. ErrMax \in Nat \ {0}
    BY ConstantFacts DEF ErrMax
  <2> QED
    BY <2>1, ConstantFacts DEF TypeOK
<1> QED
  BY <1>1, <1>2, <1>3, <1>4, SameHead DEF TypeOK

LEMMA FrameTypes ==
    ASSUME TypeOK, Frame
    PROVE  TypeOK'
<1>0. /\ pwm \in PwmState /\ heat \in HeatState /\ fan \in FanState /\ motor \in MotorState
      /\ weld \in WeldState /\ strobe \in StrobeState /\ moved \in MoveState
  BY DEF TypeOK
<1>1. t12 \in BOOLEAN
  BY DEF TypeOK
<1>2. \A target : ColdWith(target) \in {cold, 0}
  BY DEF ColdWith
<1>3. ASSUME NEW on \in BOOLEAN, NEW enable \in BOOLEAN, Laser(on, enable)
      PROVE  TypeOK'
  <2>1. pwm' \in PwmState
    BY <1>3, HandlerTypes DEF Laser
  <2> QED
    BY <1>0, <1>1, <1>3, <2>1, HandlerPreservesTypes DEF Laser
<1>4. ASSUME NEW on \in BOOLEAN,
             Drill(on) \/ UVCuring(on) \/ Electromagnet(on) \/ PrinterLayerFan(on)
      PROVE  TypeOK'
  <2>1. pwm' \in PwmState
    BY <1>0, <1>4, HandlerTypes DEF Drill, UVCuring, Electromagnet, PrinterLayerFan
  <2>2. t12' \in BOOLEAN
    BY <1>1, <1>4 DEF Drill, UVCuring, Electromagnet, PrinterLayerFan
  <2> QED
    BY <1>0, <1>4, <2>1, <2>2, HandlerPreservesTypes
    DEF Drill, UVCuring, Electromagnet, PrinterLayerFan
<1>5. ASSUME NEW on \in BOOLEAN, PrinterHotendFan(on)
      PROVE  TypeOK'
  <2>1. fan' \in FanState
    BY <1>0, <1>5 DEF PrinterHotendFan, FanState
  <2> QED
    BY <1>0, <1>1, <1>5, <2>1, HandlerPreservesTypes DEF PrinterHotendFan
<1>6. ASSUME NEW target \in board.targets, SolderingIron(target)
      PROVE  TypeOK'
  BY <1>0, <1>1, <1>2, <1>6, HandlerTypes, HandlerPreservesTypes DEF SolderingIron
<1>7. ASSUME NEW target \in board.targets, NEW on \in BOOLEAN, HotAirRework(target, on)
      PROVE  TypeOK'
  <2>1. pwm' \in PwmState /\ heat' \in HeatState
    BY <1>7, HandlerTypes DEF HotAirRework
  <2> QED
    BY <1>0, <1>1, <1>2, <1>7, <2>1, HandlerPreservesTypes DEF HotAirRework
<1>8. ASSUME NEW steps \in Moves, Motion(steps)
      PROVE  TypeOK'
  BY <1>0, <1>1, <1>8, HandlerTypes, HandlerPreservesTypes DEF Motion
<1>9. ASSUME NEW steps \in Moves, NEW target \in board.targets,
             PrinterThermalMotion(target, steps)
      PROVE  TypeOK'
  <2>1. heat' \in HeatState /\ motor' \in MotorState /\ moved' \in MoveState
    BY <1>0, <1>9, HandlerTypes DEF PrinterThermalMotion
  <2> QED
    BY <1>0, <1>1, <1>2, <1>9, <2>1, HandlerPreservesTypes DEF PrinterThermalMotion
<1>10. ASSUME NEW ms \in Pulses, WeldPulse(ms)
       PROVE  TypeOK'
  <2>1. ClampPulse(ms) \in 0..PulseCeiling /\ 0 \in 0..WeldMax
    <3>1. ms \in Nat /\ PulseCeiling \in Nat /\ WeldMax \in Nat
      BY ConstantFacts, AppAssumption
    <3> QED
      BY <3>1, CappedFacts DEF ClampPulse
  <2>2. weld' \in WeldState
    BY <1>10, <2>1 DEF WeldPulse, WeldState
  <2> QED
    BY <1>0, <1>10, <2>2, HandlerPreservesTypes DEF WeldPulse
<1>11. ASSUME NEW aoiMode \in {"strobe", "lit", "dark"}, NEW period \in Periods,
              AOI(aoiMode, period)
       PROVE  TypeOK'
  <2>1. strobe' \in StrobeState
    BY <1>0, <1>11 DEF AOI, StrobeState
  <2> QED
    BY <1>0, <1>1, <1>11, <2>1, HandlerPreservesTypes DEF AOI
<1>12. CASE SafeStop
  <2>1. 0 \in 0..KickMax /\ 0 \in 0..HeatMax /\ 0 \in Temps /\ 0 \in 0..(Modulus - 1)
    BY ConstantFacts, BoardFacts
  <2>2. pwm' \in PwmState
    BY <1>0, <1>12, <2>1 DEF SafeStop, SafeState, PwmState
  <2>3. heat' \in HeatState
    BY <1>0, <1>12, <2>1 DEF SafeStop, SafeState, HeatState
  <2>4. fan' \in FanState
    BY <1>0, <1>12 DEF SafeStop, SafeState, FanState
  <2>5. motor' \in MotorState
    BY <1>0, <1>12, <2>1 DEF SafeStop, SafeState, MotorState
  <2>6. moved' \in MoveState
    BY <1>12, HandlerTypes DEF SafeStop
  <2>7. t12' \in BOOLEAN /\ calm' = 1 /\ cold' = ColdWith(0)
    BY <1>12 DEF SafeStop, SafeState
  <2> QED
    BY <1>0, <1>2, <1>12, <2>2, <2>3, <2>4, <2>5, <2>6, <2>7, HandlerPreservesTypes
    DEF SafeStop
<1>13. CASE EnterBootloader
  BY <1>13, RestartTypes DEF EnterBootloader
<1> QED
  BY <1>3, <1>4, <1>5, <1>6, <1>7, <1>8, <1>9, <1>10, <1>11, <1>12, <1>13 DEF Frame

LEMMA InterruptTypes ==
    ASSUME TypeOK, Interrupt
    PROVE  TypeOK'
<1>0. /\ pwm \in PwmState /\ heat \in HeatState /\ fan \in FanState /\ motor \in MotorState
      /\ weld \in WeldState /\ strobe \in StrobeState /\ moved \in MoveState
  BY DEF TypeOK
<1>1. t12 \in BOOLEAN
  BY DEF TypeOK
<1>2. CASE StepError
  BY <1>0, <1>1, <1>2, HandlerTypes, HandlerPreservesTypes DEF StepError
<1>3. CASE StepBegin
  <2>1. motor' \in MotorState
    BY <1>0, <1>3 DEF StepBegin, MotorState
  <2> QED
    BY <1>0, <1>1, <1>3, <2>1, HandlerPreservesTypes DEF StepBegin
<1>4. CASE StepRise
  <2>1. motor' \in MotorState
    BY <1>0, <1>4 DEF StepRise, MotorState
  <2>2. Capped(moved.made + 1, Modulus + 1) \in 0..(Modulus + 1)
    <3>1. moved.made + 1 \in Nat /\ Modulus + 1 \in Nat
      BY <1>0, ConstantFacts DEF MoveState
    <3> QED
      BY <3>1, CappedFacts
  <2>3. moved' \in MoveState
    BY <1>0, <1>4, <2>2 DEF StepRise, MoveState
  <2> QED
    BY <1>0, <1>1, <1>4, <2>1, <2>3, HandlerPreservesTypes DEF StepRise
<1>5. CASE StepRest
  <2>1. (motor.steps + Modulus - 1) % Modulus \in 0..(Modulus - 1)
    BY <1>0, ConstantFacts DEF MotorState
  <2>2. StepCounted(motor) \in MotorState
    BY <1>0, <2>1 DEF StepCounted, MotorState
  <2>3. motor' \in MotorState
    BY <1>0, <1>5, <2>2 DEF StepRest, MotorState
  <2> QED
    BY <1>0, <1>1, <1>5, <2>3, HandlerPreservesTypes DEF StepRest
<1>6. CASE FanPulse
  <2>1. fan' \in FanState
    BY <1>0, <1>6 DEF FanPulse, FanState
  <2> QED
    BY <1>0, <1>1, <1>6, <2>1, HandlerPreservesTypes DEF FanPulse
<1> QED
  BY <1>2, <1>3, <1>4, <1>5, <1>6, FrameTypes DEF Interrupt

-----------------------------------------------------------------------------
(* How the main loop passes through a round *)

\* A place inside a call is reached from the one before it alone.
Inner ==
    /\ pc' = "decide" => pc = "sense"
    /\ pc' = "check" => pc = "decide"
    /\ pc' = "drive" => pc = "check"
    /\ pc' = "pwmCompare" => pc = "pwm"
    /\ pc' = "heaterCompare" => pc = "heater"
    /\ pc' = "weldOff" => pc = "weld"

\* A step that does not begin a round leaves every call ahead that is not its
\* own.
Onward ==
    /\ UNCHANGED <<board, alive>>
    /\ pc' \in Places
    /\ PlaceInv'
    /\ Inner
    /\ tool \in HeaterTools /\ SenseAhead /\ pc # "sense" => SenseAhead'
    /\ tool \in HeaterTools /\ DriveAhead /\ pc \notin {"sense", "decide", "check", "drive"}
          => DriveAhead'
    /\ PwmAhead /\ tool \in PwmTools /\ pc \notin {"pwm", "pwmCompare", "pwmZero"} => PwmAhead'
    /\ HeaterAhead /\ tool \in HeaterTools
          /\ pc \notin {"heater", "heaterCompare", "heaterZero"} => HeaterAhead'
    /\ WeldAhead /\ tool \in WelderTools /\ ~booting /\ pc # "weld" => WeldAhead'
    /\ StrobeAhead /\ tool = "AOI_INSPECTION" /\ ~booting /\ pc # "strobeEnd" => StrobeAhead'
    /\ StallAhead /\ tool = "3D_PRINTER" /\ pc # "stall" => StallAhead'
    /\ tool = "3D_PRINTER" /\ pc' = "top" => pc \in {"telemetry", "delay"}

\* The first step of a round has every call of the profile ahead.
LEMMA RoundBegins ==
    ASSUME TypeOK, PlaceInv, Round
    PROVE  /\ UNCHANGED <<board, splash>> /\ alive' = 0 /\ pc = "top" /\ pc' \in Places
           /\ PlaceInv' /\ Inner
           /\ tool \in HeaterTools => SenseAhead' /\ DriveAhead' /\ HeaterAhead'
           /\ tool \in PwmTools => PwmAhead'
           /\ tool \in WelderTools /\ ~booting => WeldAhead'
           /\ tool = "AOI_INSPECTION" /\ ~booting => StrobeAhead'
           /\ tool = "3D_PRINTER" => StallAhead' /\ pc' # "top"
<1>1. /\ UNCHANGED <<board, splash>> /\ alive' = 0 /\ pc = "top" /\ pc' = FirstFrom(1)
      /\ tool' = tool /\ booting' = booting
  BY DEF Round, At, tool, booting
<1>2. CASE booting
  <2>1. pc' = IF tool \in PwmTools THEN "pwm"
              ELSE IF tool \in HeaterTools THEN "heater" ELSE "delay"
    BY <1>1, <1>2, SplashRound
  <2> QED
    BY <1>1, <1>2, <2>1, ToolFacts
    DEF Inner, PlaceInv, Sensing, PwmWatch, HeaterWatch, SenseAhead, DriveAhead, PwmAhead, HeaterAhead,
        WeldAhead, StrobeAhead, StallAhead, Places
<1>3. CASE ~booting
  <2>1. pc' = IF tool \in HeaterTools THEN "sense"
              ELSE IF tool \in PwmTools THEN "pwm"
              ELSE IF tool \in WelderTools THEN "weld"
              ELSE IF tool = "AOI_INSPECTION" THEN "strobe" ELSE "top"
    BY <1>1, <1>3, LoopRound
  <2> QED
    BY <1>1, <1>3, <2>1, ToolFacts
    DEF Inner, PlaceInv, Sensing, PwmWatch, HeaterWatch, SenseAhead, DriveAhead, PwmAhead, HeaterAhead,
        WeldAhead, StrobeAhead, StallAhead, Places
<1> QED
  BY <1>2, <1>3

\* From one place to the next of the same call, or past the call.
LEMMA StepGoesOnward ==
    ASSUME TypeOK, PlaceInv, NEW next, Step(next),
           \/ pc \in Sensing /\ next = After("sense")
           \/ pc = "sense" /\ next = "decide"
           \/ pc = "decide" /\ next = "check"
           \/ pc = "check" /\ next = "drive"
           \/ pc \in {"pwm", "pwmCompare", "pwmLatch"} /\ next = After("pwm")
           \/ pc = "pwm" /\ next = "pwmCompare"
           \/ pc = "pwmCompare" /\ next = "pwmZero"
           \/ pc = "pwmZero" /\ next = "pwmCut"
           \/ pc = "pwmCut" /\ next = "pwmLatch"
           \/ pc = "stall" /\ next = After("stall")
           \/ pc \in {"heater", "heaterCompare", "heaterLatch"} /\ next = After("heater")
           \/ pc = "heater" /\ next = "heaterCompare"
           \/ pc = "heaterCompare" /\ next = "heaterZero"
           \/ pc = "heaterZero" /\ next = "heaterLatch"
           \/ pc \in {"weld", "weldOff"} /\ next = After("weld")
           \/ pc = "weld" /\ next = "weldOff"
           \/ pc = "telemetry" /\ next = After("telemetry")
           \/ pc = "strobe" /\ next = "strobeEnd"
           \/ pc = "strobeEnd" /\ next = After("strobe")
    PROVE  Onward
<1>1. /\ UNCHANGED <<board, splash, alive>> /\ pc' = next /\ tool' = tool /\ booting' = booting
  BY DEF Step, tool, booting
<1>2. CASE booting
  <2>1. /\ tool \in PwmTools => After("pwm") = IF tool = "3D_PRINTER" THEN "stall"
                             ELSE IF tool \in HeaterTools THEN "heater" ELSE "delay"
        /\ tool = "3D_PRINTER" => After("stall") = "heater"
        /\ tool \in HeaterTools => After("heater") = "sense"
        /\ After("sense") = "delay"
    BY <1>2, SplashRound
  <2> QED
    BY <1>1, <1>2, <2>1, ToolFacts
    DEF Onward, Inner, PlaceInv, Sensing, PwmWatch, HeaterWatch, SenseAhead, DriveAhead, PwmAhead,
        HeaterAhead, WeldAhead, StrobeAhead, StallAhead, Places
<1>3. CASE ~booting
  <2>1. /\ tool \in HeaterTools => After("sense") = IF tool \in PwmTools THEN "pwm" ELSE "heater"
        /\ tool \in PwmTools => After("pwm") = IF tool = "3D_PRINTER" THEN "stall"
                             ELSE IF tool \in HeaterTools THEN "heater" ELSE "top"
        /\ tool = "3D_PRINTER" => After("stall") = "heater"
        /\ tool \in HeaterTools => After("heater") = IF tool = "3D_PRINTER" THEN "telemetry"
                                                     ELSE "top"
        /\ tool \in WelderTools => After("weld") = "top"
        /\ tool = "3D_PRINTER" => After("telemetry") = "top"
        /\ After("strobe") = "top"
    BY <1>3, LoopRound
  <2> QED
    BY <1>1, <1>3, <2>1, ToolFacts
    DEF Onward, Inner, PlaceInv, Sensing, PwmWatch, HeaterWatch, SenseAhead, DriveAhead, PwmAhead,
        HeaterAhead, WeldAhead, StrobeAhead, StallAhead, Places
<1> QED
  BY <1>2, <1>3

LEMMA MainGoesOnward ==
    ASSUME TypeOK, PlaceInv, MainStep, ~Round
    PROVE  Onward
<1>1. CASE Delay
  <2>1. pc = "delay" /\ pc' = "top" /\ UNCHANGED <<board, alive>> /\ tool' = tool
    BY <1>1 DEF Delay, At, tool
  <2> QED
    BY <2>1 DEF Onward, Inner, PlaceInv, Sensing, PwmWatch, HeaterWatch, SenseAhead, DriveAhead,
                PwmAhead, HeaterAhead, WeldAhead, StrobeAhead, StallAhead, Places
<1>2. CASE \E reading \in board.temps, valid \in BOOLEAN : Sense(reading, valid)
  BY <1>2, StepGoesOnward DEF Sense, At, Sensing
<1>3. CASE Decide \/ Check \/ Drive
  <2>1. CASE Decide
    <3>1. pc = "decide" /\ pc' \in {After("sense"), "check"} /\ Step(pc')
      BY <2>1 DEF Decide, At, Step
    <3> QED
      BY <3>1, StepGoesOnward DEF Sensing
  <2>2. CASE Check
    <3>1. pc = "check" /\ pc' \in {After("sense"), "drive"} /\ Step(pc')
      BY <2>2 DEF Check, At, Step
    <3> QED
      BY <3>1, StepGoesOnward DEF Sensing
  <2>3. CASE Drive
    BY <2>3, StepGoesOnward DEF Drive, At, Sensing
  <2> QED
    BY <1>3, <2>1, <2>2, <2>3
<1>4. CASE PwmRead \/ PwmCompare \/ PwmTrip
  <2>1. CASE PwmRead
    BY <2>1, StepGoesOnward DEF PwmRead, At
  <2>2. CASE PwmCompare
    BY <2>2, StepGoesOnward DEF PwmCompare, At
  <2>3. CASE PwmTrip
    BY <2>3, StepGoesOnward DEF PwmTrip, At
  <2> QED
    BY <1>4, <2>1, <2>2, <2>3
<1>5. CASE HeaterRead \/ HeaterCompare \/ HeaterTrip
  <2>1. CASE HeaterRead
    BY <2>1, StepGoesOnward DEF HeaterRead, At
  <2>2. CASE HeaterCompare
    BY <2>2, StepGoesOnward DEF HeaterCompare, At
  <2>3. CASE HeaterTrip
    BY <2>3, StepGoesOnward DEF HeaterTrip, At
  <2> QED
    BY <1>5, <2>1, <2>2, <2>3
<1>6. CASE Stall \/ WeldTick \/ Telemetry \/ StrobeStart \/ StrobeEnd
  BY <1>6, StepGoesOnward DEF Stall, WeldTick, Telemetry, StrobeStart, StrobeEnd, At
<1> QED
  BY <1>1, <1>2, <1>3, <1>4, <1>5, <1>6 DEF MainStep

-----------------------------------------------------------------------------
(* Types, continued: the main loop, and time *)

LEMMA TypesFrom ==
    ASSUME TypeOK, UNCHANGED board, splash' \in 0..SplashRounds, alive' \in 0..LoopMax,
           screen' \in 0..ScreenPeriod, due' \in BOOLEAN, err' \in BOOLEAN, t12' \in BOOLEAN,
           pc' \in Places, seen' \in 0..LoopMax, pwm' \in PwmState, heat' \in HeatState,
           guard' \in Guard(Temps), fan' \in FanState, motor' \in MotorState,
           weld' \in WeldState, strobe' \in StrobeState, moved' \in MoveState,
           errAge' \in 0..ErrMax, calm' \in 0..(ErrMax + 1), cold' \in 0..ColdMax,
           still' \in 0..StillMax
    PROVE  TypeOK'
  BY SameHead DEF TypeOK

\* What a step of a round leaves alone.
LEMMA StepTypes ==
    ASSUME TypeOK, Onward, splash' \in 0..SplashRounds, due' \in BOOLEAN, seen' \in {seen, 0},
           screen' \in {screen, 0}, err' \in BOOLEAN, t12' \in BOOLEAN,
           pwm' \in PwmState, heat' \in HeatState, guard' \in Guard(Temps), fan' \in FanState,
           weld' \in WeldState, strobe' \in StrobeState, cold' \in {cold, 0},
           UNCHANGED <<motor, moved, errAge, calm, still>>
    PROVE  TypeOK'
<1>1. /\ board' = board /\ alive' = alive /\ pc' \in Places
  BY DEF Onward
<1>2. /\ alive \in 0..LoopMax /\ seen' \in 0..LoopMax /\ screen' \in 0..ScreenPeriod
      /\ motor \in MotorState /\ moved \in MoveState /\ errAge \in 0..ErrMax
      /\ calm \in 0..(ErrMax + 1) /\ cold' \in 0..ColdMax /\ still \in 0..StillMax
  BY ConstantFacts DEF TypeOK
<1> QED
  BY <1>1, <1>2, TypesFrom

\* What ThermalGuard_Check makes of the guard is a guard.
LEMMA CheckedTypes ==
    ASSUME NEW T, 0 \in T, NEW g \in Guard(T), NEW on \in BOOLEAN, NEW current \in T,
           NEW target \in T
    PROVE  /\ Retargeted(g, target) \in Guard(T)
           /\ Checked(g, on, current, target)[1] \in Guard(T)
<1>0. 0 \in 0..WatchPeriod /\ 0 \in 0..HoldPeriod
  BY ConstantFacts
<1>1. \A h \in Guard(T) : Unwatched(h) \in Guard(T)
  BY <1>0 DEF Unwatched, Guard
<1>2. Retargeted(g, target) \in Guard(T)
  BY <1>0 DEF Retargeted, GuardReset, Guard
<1>3. \A h \in Guard(T) : Reaching(h, current) \in Guard(T)
  <2> SUFFICES ASSUME NEW h \in Guard(T) PROVE Reaching(h, current) \in Guard(T)
    OBVIOUS
  <2>1. Unwatched(h) \in Guard(T)
    BY <1>1
  <2>2. [Unwatched(h) EXCEPT !.reached = TRUE] \in Guard(T)
    BY <2>1 DEF Guard
  <2> QED
    BY <2>2 DEF Reaching
<1>4. \A h \in Guard(T) : Watching(h, on, current) \in Guard(T)
  <2> SUFFICES ASSUME NEW h \in Guard(T) PROVE Watching(h, on, current) \in Guard(T)
    OBVIOUS
  <2>1. [h EXCEPT !.watching = TRUE, !.watch = 0, !.base = current] \in Guard(T)
    BY <1>0 DEF Guard
  <2> QED
    BY <1>1, <2>1 DEF Watching
<1>5. \A h \in Guard(T) : Holding(h, on, current) \in Guard(T)
  <2> SUFFICES ASSUME NEW h \in Guard(T) PROVE Holding(h, on, current) \in Guard(T)
    OBVIOUS
  <2>1. /\ [h EXCEPT !.sagging = FALSE, !.sag = 0] \in Guard(T)
        /\ [h EXCEPT !.sagging = TRUE] \in Guard(T)
    BY <1>0 DEF Guard
  <2>2. h.reached \in BOOLEAN
    BY DEF Guard
  <2> QED
    BY <2>1, <2>2 DEF Holding
<1> DEFINE r == Reaching(Retargeted(g, target), current)
           w == Watching(r, on, current)
<1>6. r \in Guard(T) /\ w \in Guard(T) /\ Holding(w, on, current) \in Guard(T)
  BY <1>2, <1>3, <1>4, <1>5
<1>7. Checked(g, on, current, target)[1] \in {g, Retargeted(g, target), r, w, Holding(w, on, current)}
  BY DEF Checked
<1> QED
  BY <1>2, <1>6, <1>7

LEMMA AgingTypes ==
    ASSUME NEW T, NEW g \in Guard(T)
    PROVE  Aging(g) \in Guard(T)
<1>1. /\ 0 \in 0..WatchPeriod /\ 0 \in 0..HoldPeriod /\ WatchPeriod \in Nat /\ HoldPeriod \in Nat
      /\ g.watch + 1 \in Nat /\ g.sag + 1 \in Nat
  BY ConstantFacts DEF Guard
<1>2. Capped(g.watch + 1, WatchPeriod) \in 0..WatchPeriod /\ Capped(g.sag + 1, HoldPeriod) \in 0..HoldPeriod
  BY <1>1, CappedFacts
<1> QED
  BY <1>1, <1>2 DEF Aging, Guard

LEMMA SenseTypes ==
    ASSUME TypeOK, Onward, NEW reading \in board.temps, NEW valid \in BOOLEAN,
           Sense(reading, valid)
    PROVE  TypeOK'
<1>0. /\ pwm \in PwmState /\ heat \in HeatState /\ guard \in Guard(Temps) /\ fan \in FanState
      /\ weld \in WeldState /\ strobe \in StrobeState /\ splash \in 0..SplashRounds
  BY DEF TypeOK
<1>1. due \in BOOLEAN
  BY DEF TypeOK
<1>2. err' \in BOOLEAN /\ t12' \in BOOLEAN
  BY DEF Sense, TypeOK
<1>3. reading \in Temps /\ 0 \in Temps /\ heat.temp \in Temps /\ heat.target \in Temps
  BY <1>0, BoardFacts DEF HeatState
<1>4. heat' \in HeatState
  BY <1>0, <1>3 DEF Sense, HeatState
<1>5. cold' \in {cold, 0} /\ UNCHANGED <<splash, due, seen, screen, pwm, guard, fan, weld, strobe>>
      /\ UNCHANGED <<motor, moved, errAge, calm, still>>
  BY DEF Sense, Step
<1> QED
  BY <1>0, <1>1, <1>2, <1>4, <1>5, StepTypes

LEMMA DecideTypes ==
    ASSUME TypeOK, Onward, Decide
    PROVE  TypeOK'
<1>0. /\ pwm \in PwmState /\ heat \in HeatState /\ guard \in Guard(Temps) /\ fan \in FanState
      /\ weld \in WeldState /\ strobe \in StrobeState /\ splash \in 0..SplashRounds
  BY DEF TypeOK
<1>1. due \in BOOLEAN
  BY DEF TypeOK
<1>2. err' \in BOOLEAN /\ t12' \in BOOLEAN
  BY DEF Decide, TypeOK
<1>3. /\ 0 \in Temps /\ heat.temp \in Temps /\ 0 \in 0..(OffLimit + 1)
  BY <1>0, BoardFacts, ConstantFacts DEF HeatState
<1>4. OffTimer(heat) \in HeatState
  BY <1>0, <1>3 DEF OffTimer, HeatState
<1>5. HeaterOn \subseteq BOOLEAN
  BY <1>0 DEF HeaterOn, HeatState
<1>6. \A on \in BOOLEAN : [OffTimer(heat) EXCEPT !.on = on] \in HeatState
  BY <1>4 DEF HeatState
<1>7. heat' \in HeatState
  BY <1>0, <1>5, <1>6 DEF Decide
<1>8. cold' \in {cold, 0} /\ UNCHANGED <<splash, due, seen, screen, pwm, guard, fan, weld, strobe>>
      /\ UNCHANGED <<motor, moved, errAge, calm, still>>
  BY DEF Decide, Step
<1> QED
  BY <1>0, <1>1, <1>2, <1>7, <1>8, StepTypes

LEMMA CheckTypes ==
    ASSUME TypeOK, Onward, Check
    PROVE  TypeOK'
<1>0. /\ pwm \in PwmState /\ heat \in HeatState /\ guard \in Guard(Temps) /\ fan \in FanState
      /\ weld \in WeldState /\ strobe \in StrobeState /\ splash \in 0..SplashRounds
  BY DEF TypeOK
<1>1. due \in BOOLEAN
  BY DEF TypeOK
<1>2. err' \in BOOLEAN /\ t12' \in BOOLEAN
  BY DEF Check, TypeOK
<1>3. 0 \in Temps /\ heat.temp \in Temps /\ heat.target \in Temps /\ heat.on \in BOOLEAN
  BY <1>0, BoardFacts DEF HeatState
<1>4. guard' \in Guard(Temps)
  BY <1>0, <1>3, CheckedTypes DEF Check
<1>5. heat' \in HeatState
  BY <1>0, <1>3 DEF Check, HeatState
<1>6. cold' \in {cold, 0} /\ UNCHANGED <<splash, due, seen, screen, pwm, fan, weld, strobe>>
      /\ UNCHANGED <<motor, moved, errAge, calm, still>>
  BY DEF Check, Step
<1> QED
  BY <1>0, <1>1, <1>2, <1>4, <1>5, <1>6, StepTypes

LEMMA WatchTypes ==
    ASSUME TypeOK, Onward,
           \/ Drive \/ PwmRead \/ PwmCompare \/ PwmTrip \/ Stall
           \/ HeaterRead \/ HeaterCompare \/ HeaterTrip
    PROVE  TypeOK'
<1>0. /\ pwm \in PwmState /\ heat \in HeatState /\ guard \in Guard(Temps) /\ fan \in FanState
      /\ weld \in WeldState /\ strobe \in StrobeState /\ splash \in 0..SplashRounds
  BY DEF TypeOK
<1>1. due \in BOOLEAN
  BY DEF TypeOK
<1>2. err \in BOOLEAN
  BY DEF TypeOK
<1>3. t12 \in BOOLEAN
  BY DEF TypeOK
<1>4. heat.on \in BOOLEAN /\ 0 \in Temps /\ 0 \in 0..HeatMax /\ 0 \in 0..KickMax
      /\ 0 \in 0..(StallLimit + 1)
  BY <1>0, BoardFacts, ConstantFacts DEF HeatState
<1>5. CASE Drive
  BY <1>0, <1>1, <1>2, <1>4, <1>5, StepTypes DEF Drive, Step, ghosts
<1>6. CASE PwmRead \/ PwmCompare \/ HeaterRead \/ HeaterCompare
  <2>1. UNCHANGED <<board, splash, due, alive, screen, err, pwm, heat, t12, guard, fan, motor, weld,
                    strobe, errAge, calm, cold, still, moved>> /\ seen' = 0
    BY <1>6 DEF PwmRead, PwmCompare, HeaterRead, HeaterCompare, Step, outputs, ghosts
  <2> QED
    BY <1>0, <1>1, <1>2, <1>3, <2>1, StepTypes
<1>7. CASE PwmTrip
  <2>1. pwm' \in PwmState
    BY <1>0, <1>4, <1>7 DEF PwmTrip, PwmState
  <2>2. err' \in BOOLEAN
    BY <1>2, <1>7 DEF PwmTrip
  <2>3. UNCHANGED <<splash, due, seen, screen, heat, t12, guard, fan, motor, weld,
                    strobe, errAge, calm, cold, still, moved>>
    BY <1>7 DEF PwmTrip, Step, ghosts
  <2> QED
    BY <1>0, <1>1, <1>3, <2>1, <2>2, <2>3, StepTypes
<1>8. CASE Stall
  <2>1. fan' \in FanState
    BY <1>0, <1>4, <1>8 DEF Stall, FanState
  <2>2. err' \in BOOLEAN
    BY <1>2, <1>8 DEF Stall
  <2>3. UNCHANGED <<splash, due, seen, screen, pwm, heat, t12, guard, motor, weld,
                    strobe, errAge, calm, cold, still, moved>>
    BY <1>8 DEF Stall, Step, ghosts
  <2> QED
    BY <1>0, <1>1, <1>3, <2>1, <2>2, <2>3, StepTypes
<1>9. CASE HeaterTrip
  <2>1. heat' \in HeatState
    BY <1>0, <1>4, <1>9 DEF HeaterTrip, HeatState
  <2>2. err' \in BOOLEAN
    BY <1>2, <1>9 DEF HeaterTrip
  <2>3. cold' \in {cold, 0} /\ UNCHANGED <<splash, due, seen, screen, pwm, t12, guard, fan, motor,
                    weld, strobe, errAge, calm, still, moved>>
    BY <1>9 DEF HeaterTrip, Step, ColdWith
  <2> QED
    BY <1>0, <1>1, <1>3, <2>1, <2>2, <2>3, StepTypes
<1> QED
  BY <1>5, <1>6, <1>7, <1>8, <1>9

LEMMA SafePeriodFacts ==
    ASSUME NEW period \in Nat
    PROVE  SafePeriod(period) \in 1..PeriodCeiling
  BY ConstantFacts, CappedFacts DEF SafePeriod, Capped

LEMMA PulseTypes ==
    ASSUME TypeOK, Onward, WeldTick \/ Telemetry \/ StrobeStart \/ StrobeEnd
    PROVE  TypeOK'
<1>0. /\ pwm \in PwmState /\ heat \in HeatState /\ guard \in Guard(Temps) /\ fan \in FanState
      /\ weld \in WeldState /\ strobe \in StrobeState /\ splash \in 0..SplashRounds
  BY DEF TypeOK
<1>1. due \in BOOLEAN
  BY DEF TypeOK
<1>2. err \in BOOLEAN
  BY DEF TypeOK
<1>3. t12 \in BOOLEAN
  BY DEF TypeOK
<1>4. CASE WeldTick
  <2>1. weld' \in WeldState
    <3>1. 0 \in 0..WeldMax /\ 0 \in 0..PulseCeiling
      BY ConstantFacts
    <3> QED
      BY <1>0, <1>4, <3>1 DEF WeldTick, WeldState
  <2>2. t12' \in BOOLEAN
    BY <1>3, <1>4 DEF WeldTick
  <2>3. UNCHANGED <<splash, due, seen, screen, err, pwm, heat, guard, fan, motor, strobe,
                    errAge, calm, cold, still, moved>>
    BY <1>4 DEF WeldTick, Step, ghosts
  <2> QED
    BY <1>0, <1>1, <1>2, <2>1, <2>2, <2>3, StepTypes
<1>5. CASE Telemetry
  <2>1. fan' \in FanState
    BY <1>0, <1>5 DEF Telemetry, Counted, FanState
  <2>2. screen' \in {screen, 0} /\ UNCHANGED <<splash, due, seen, err, pwm, heat, t12, guard,
                    motor, weld, strobe, errAge, calm, cold, still, moved>>
    BY <1>5 DEF Telemetry, Step, ghosts
  <2> QED
    BY <1>0, <1>1, <1>2, <1>3, <2>1, <2>2, StepTypes
<1>6. CASE StrobeStart \/ StrobeEnd
  <2>1. strobe.period \in Nat
    <3>1. strobe.period \in Periods \cup {0}
      BY <1>0 DEF StrobeState
    <3>2. Periods \subseteq Nat
      BY AppAssumption
    <3>3. 0 \in Nat
      OBVIOUS
    <3> QED
      BY <3>1, <3>2, <3>3, Zenon
  <2>2. /\ SafePeriod(strobe.period) \in (-StrobeMax)..PeriodCeiling
        /\ 0 \in (-StrobeMax)..PeriodCeiling /\ 0 \in 0..StrobeMax
    BY <2>1, SafePeriodFacts, ConstantFacts
  <2>3. strobe' \in StrobeState
    BY <1>0, <1>6, <2>2 DEF StrobeStart, StrobeEnd, StrobeState
  <2>4. UNCHANGED <<splash, due, seen, screen, err, pwm, heat, t12, guard, fan, motor, weld,
                    errAge, calm, cold, still, moved>>
    BY <1>6 DEF StrobeStart, StrobeEnd, Step, ghosts
  <2> QED
    BY <1>0, <1>1, <1>2, <1>3, <2>3, <2>4, StepTypes
<1> QED
  BY <1>4, <1>5, <1>6

LEMMA RoundTypes ==
    ASSUME TypeOK, PlaceInv, Round
    PROVE  TypeOK'
<1>1. board' = board /\ alive' = 0 /\ pc' \in Places /\ 0 \in 0..LoopMax
  BY RoundBegins, ConstantFacts
<1>2. err \in BOOLEAN
  BY DEF TypeOK
<1>3. t12 \in BOOLEAN
  BY DEF TypeOK
<1>4. due' \in BOOLEAN /\ UNCHANGED <<splash, screen, err, seen, pwm, heat, t12, guard, fan, motor,
               weld, strobe, errAge, calm, cold, still, moved>>
  BY DEF Round, outputs, ghosts
<1>5. /\ splash \in 0..SplashRounds /\ screen \in 0..ScreenPeriod /\ seen \in 0..LoopMax
      /\ pwm \in PwmState /\ heat \in HeatState /\ guard \in Guard(Temps) /\ fan \in FanState
      /\ motor \in MotorState /\ weld \in WeldState /\ strobe \in StrobeState
      /\ moved \in MoveState /\ errAge \in 0..ErrMax /\ calm \in 0..(ErrMax + 1)
      /\ cold \in 0..ColdMax /\ still \in 0..StillMax
  BY DEF TypeOK
<1> QED
  BY <1>1, <1>2, <1>3, <1>4, <1>5, TypesFrom

LEMMA MainTypes ==
    ASSUME TypeOK, PlaceInv, MainStep
    PROVE  TypeOK'
<1>1. CASE Round
  BY <1>1, RoundTypes
<1>2. CASE ~Round
  <2>1. Onward
    BY <1>2, MainGoesOnward
  <2>2. CASE Delay
    <3>1. splash' \in 0..SplashRounds
      BY <2>2, ConstantFacts DEF Delay, TypeOK, PlaceInv, booting, At
    <3>2. due \in BOOLEAN
      BY DEF TypeOK
    <3>3. err \in BOOLEAN
      BY DEF TypeOK
    <3>4. t12 \in BOOLEAN
      BY DEF TypeOK
    <3>5. /\ pwm \in PwmState /\ heat \in HeatState /\ guard \in Guard(Temps) /\ fan \in FanState
          /\ weld \in WeldState /\ strobe \in StrobeState
      BY DEF TypeOK
    <3>6. UNCHANGED <<due, seen, screen, err, pwm, heat, t12, guard, fan, motor, weld, strobe,
                    errAge, calm, cold, still, moved>>
      BY <2>2 DEF Delay, outputs, ghosts
    <3> QED
      BY <2>1, <3>1, <3>2, <3>3, <3>4, <3>5, <3>6, StepTypes
  <2> QED
    BY <1>2, <2>1, <2>2, SenseTypes, DecideTypes, CheckTypes, WatchTypes, PulseTypes DEF MainStep
<1> QED
  BY <1>1, <1>2

\* A tick makes everything a tick older, up to its bound.
LEMMA TickTypes ==
    ASSUME TypeOK, Tick
    PROVE  TypeOK'
<1>1. /\ pwm \in PwmState /\ heat \in HeatState /\ guard \in Guard(Temps) /\ fan \in FanState
      /\ weld \in WeldState /\ strobe \in StrobeState /\ splash \in 0..SplashRounds
      /\ motor \in MotorState /\ moved \in MoveState /\ pc \in Places /\ board \in Boards
      /\ seen \in Nat /\ screen \in Nat /\ errAge \in Nat /\ calm \in Nat /\ cold \in Nat
      /\ still \in Nat /\ alive \in 0..LoopMax
  BY ConstantFacts DEF TypeOK
<1>2. err \in BOOLEAN
  BY DEF TypeOK
<1>3. t12 \in BOOLEAN
  BY DEF TypeOK
<1>4. /\ KickMax \in Nat /\ HeatMax \in Nat /\ ErrMax \in Nat /\ ErrMax + 1 \in Nat
      /\ ColdMax \in Nat /\ StillMax \in Nat /\ WeldMax \in Nat /\ StrobeMax \in Nat
      /\ LoopMax \in Nat /\ StallLimit + 1 \in Nat /\ OffLimit + 1 \in Nat /\ ScreenPeriod \in Nat
  BY ConstantFacts
<1>5. \A n \in Nat, cap \in Nat : \A counts \in BOOLEAN : Aged(n, counts, cap) \in 0..cap
  BY AgedFacts
<1>6. pwm' \in PwmState
  <2>1. pwm.kick \in Nat /\ pwm.cmd \in BOOLEAN
    BY <1>1, <1>4 DEF PwmState
  <2>2. Aged(pwm.kick, pwm.cmd, KickMax) \in 0..KickMax
    BY <1>4, <2>1, AgedFacts
  <2> QED
    BY <1>1, <2>2 DEF Tick, PwmState
<1>7. heat' \in HeatState
  <2>1. heat.kick \in Nat /\ heat.off \in Nat
    BY <1>1, <1>4 DEF HeatState
  <2>2. Aged(heat.kick, heat.target > 0, HeatMax) \in 0..HeatMax
    BY <1>4, <2>1, AgedFacts
  <2>3. Aged(heat.off, heat.armed, OffLimit + 1) \in 0..(OffLimit + 1)
    BY <1>4, <2>1, AgedFacts
  <2>4. heat' = [heat EXCEPT !.kick = Aged(heat.kick, heat.target > 0, HeatMax),
                             !.off = Aged(heat.off, heat.armed, OffLimit + 1)]
    BY DEF Tick
  <2> QED
    BY <1>1, <2>2, <2>3, <2>4 DEF HeatState
<1>8. guard' \in Guard(Temps)
  BY <1>1, AgingTypes DEF Tick
<1>9. fan' \in FanState
  <2>1. fan.stall \in Nat
    BY <1>1, <1>4 DEF FanState
  <2>2. Aged(fan.stall, HasFan, StallLimit + 1) \in 0..(StallLimit + 1)
    BY <1>4, <2>1, AgedFacts
  <2> QED
    BY <1>1, <2>2 DEF Tick, FanState
<1>10. weld' \in WeldState
  <2>1. weld.age \in Nat
    BY <1>1, <1>4 DEF WeldState
  <2>2. Aged(weld.age, weld.active, WeldMax) \in 0..WeldMax
    BY <1>4, <2>1, AgedFacts
  <2> QED
    BY <1>1, <2>2 DEF Tick, WeldState
<1>11. strobe' \in StrobeState
  <2>1. strobe.lit \in Nat /\ strobe.left \in (-StrobeMax)..PeriodCeiling
    BY <1>1, <1>4 DEF StrobeState
  <2>2. Aged(strobe.lit, strobe.active, StrobeMax) \in 0..StrobeMax
    BY <1>4, <2>1, AgedFacts
  <2>3. (IF strobe.active /\ strobe.left > -StrobeMax THEN strobe.left - 1 ELSE strobe.left)
           \in (-StrobeMax)..PeriodCeiling
    BY <1>4, <2>1, ConstantFacts
  <2> QED
    BY <1>1, <2>2, <2>3 DEF Tick, StrobeState
<1>12. /\ errAge' \in 0..ErrMax /\ cold' \in 0..ColdMax /\ still' \in 0..StillMax
       /\ screen' \in 0..ScreenPeriod
  BY <1>1, <1>4, AgedFacts DEF Tick
<1>13. calm' \in 0..(ErrMax + 1)
  <2>1. calm + 1 \in Nat /\ 0 \in 0..(ErrMax + 1)
    BY <1>1, <1>4
  <2>2. Capped(calm + 1, ErrMax + 1) \in 0..(ErrMax + 1)
    BY <1>4, <2>1, CappedFacts
  <2>3. calm' \in {0, Capped(calm + 1, ErrMax + 1)}
    BY DEF Tick
  <2> QED
    BY <2>1, <2>2, <2>3
<1>14. seen' \in 0..LoopMax
  <2>1. seen + 1 \in Nat /\ 0 \in 0..LoopMax
    BY <1>1, <1>4
  <2>2. Capped(seen + 1, LoopMax) \in 0..LoopMax
    BY <1>4, <2>1, CappedFacts
  <2>3. seen' \in {0, Capped(seen + 1, LoopMax)}
    BY DEF Tick
  <2> QED
    BY <2>1, <2>2, <2>3
<1>15. /\ alive' \in 0..LoopMax /\ due' \in BOOLEAN
       /\ UNCHANGED <<board, splash, pc, err, t12, motor, moved>>
  BY <1>1, <1>4 DEF Tick
<1> QED
  BY <1>1, <1>2, <1>3, <1>6, <1>7, <1>8, <1>9, <1>10, <1>11, <1>12, <1>13, <1>14, <1>15, TypesFrom

LEMMA ResetTypes ==
    ASSUME TypeOK, WatchdogReset
    PROVE  TypeOK'
  BY RestartTypes DEF WatchdogReset

LEMMA NextTypes ==
    ASSUME TypeOK, PlaceInv, Next
    PROVE  TypeOK'
  BY MainTypes, InterruptTypes, TickTypes, ResetTypes DEF Next

-----------------------------------------------------------------------------
(* Where the main loop is *)

\* Every step either begins a round, goes on in one, resets the head, or is
\* not one of the main loop.
LEMMA NextKinds ==
    ASSUME TypeOK, PlaceInv, Next
    PROVE  \/ MainStep /\ Round
           \/ MainStep /\ ~Round /\ Onward
           \/ Interrupt /\ UNCHANGED <<board, splash, pc, alive, err>>
           \/ Tick /\ UNCHANGED <<board, splash, pc, err>> /\ alive' = alive + 1
           \/ Restart
<1>1. CASE MainStep
  BY <1>1, MainGoesOnward
<1>2. CASE Interrupt
  <2>1. Frame /\ ~EnterBootloader => UNCHANGED rest
    BY DEF Frame, Laser, Drill, UVCuring, Electromagnet, PrinterLayerFan, PrinterHotendFan,
           SolderingIron, HotAirRework, Motion, PrinterThermalMotion, WeldPulse, AOI, SafeStop
  <2>2. EnterBootloader => Restart
    BY DEF EnterBootloader
  <2>3. StepError \/ StepBegin \/ StepRise \/ StepRest \/ FanPulse => UNCHANGED rest
    BY DEF StepError, StepBegin, StepRise, StepRest, FanPulse
  <2>4. UNCHANGED rest => UNCHANGED <<board, splash, pc, alive, err>>
    BY DEF rest, env
  <2> QED
    BY <1>2, <2>1, <2>2, <2>3, <2>4 DEF Interrupt, Frame
<1>3. CASE Tick
  BY <1>3 DEF Tick
<1>4. CASE WatchdogReset
  BY <1>4 DEF WatchdogReset
<1> QED
  BY <1>1, <1>2, <1>3, <1>4 DEF Next

LEMMA PlaceKept ==
    ASSUME TypeOK, PlaceInv, Next
    PROVE  PlaceInv'
<1>1. CASE MainStep /\ Round
  BY <1>1, RoundBegins
<1>2. CASE Onward
  BY <1>2 DEF Onward
<1>3. CASE UNCHANGED <<board, splash, pc, err>>
  BY <1>3 DEF PlaceInv, tool, booting
<1>4. CASE Restart
  BY <1>4 DEF Restart, PlaceInv, Sensing, HeaterWatch, PwmWatch
<1> QED
  BY <1>1, <1>2, <1>3, <1>4, NextKinds

-----------------------------------------------------------------------------
(* What the steps of the main loop leave alone *)

LEMMA MainUntouched ==
    ASSUME MainStep
    PROVE  /\ UNCHANGED <<motor, errAge, calm, moved>>
           /\ PwmTrip \/ UNCHANGED pwm
           /\ pc = "pwm" => PwmRead
           /\ pc = "pwmCompare" => PwmCompare
           /\ pc \in {"pwmZero", "pwmCut", "pwmLatch"} => PwmTrip
           /\ HeaterTrip \/ pc \in {"sense", "decide", "check"} \/ UNCHANGED heat
           /\ pc = "heater" => HeaterRead
           /\ pc = "heaterCompare" => HeaterCompare
           /\ pc \in {"heaterZero", "heaterLatch"} => HeaterTrip
           /\ pc = "sense" => \E reading \in board.temps, valid \in BOOLEAN : Sense(reading, valid)
           /\ pc = "decide" => Decide
           /\ pc = "check" => Check
           /\ pc = "drive" => Drive
           /\ pc \in {"weld", "weldOff"} => WeldTick
           /\ pc \in {"weld", "weldOff"} \cup Sensing \/ UNCHANGED t12
           /\ pc = "weldOff" \/ UNCHANGED weld
           /\ pc = "strobe" => StrobeStart
           /\ pc = "strobeEnd" => StrobeEnd
           /\ pc \in {"strobe", "strobeEnd"} \/ UNCHANGED strobe
           /\ pc = "delay" \/ UNCHANGED splash
           /\ fan'.out = fan.out \/ pc \in {"stall", "telemetry"}
<1>1. CASE Round \/ Delay
  BY <1>1 DEF Round, Delay, At, outputs, ghosts
<1>2. CASE \E reading \in board.temps, valid \in BOOLEAN : Sense(reading, valid)
  BY <1>2 DEF Sense, At, Step, Sensing
<1>3. CASE Decide \/ Check \/ Drive
  BY <1>3 DEF Decide, Check, Drive, At, Step, Sensing, ghosts
<1>4. CASE PwmRead \/ PwmCompare \/ PwmTrip
  BY <1>4 DEF PwmRead, PwmCompare, PwmTrip, At, Step, outputs, ghosts
<1>5. CASE HeaterRead \/ HeaterCompare \/ HeaterTrip
  BY <1>5 DEF HeaterRead, HeaterCompare, HeaterTrip, At, Step, outputs, ghosts
<1>6. CASE Stall \/ WeldTick \/ Telemetry
  BY <1>6 DEF Stall, WeldTick, Telemetry, At, Step, ghosts
<1>7. CASE StrobeStart \/ StrobeEnd
  BY <1>7 DEF StrobeStart, StrobeEnd, At, Step, ghosts
<1> QED
  BY <1>1, <1>2, <1>3, <1>4, <1>5, <1>6, <1>7 DEF MainStep

\* Whose frames a handler is given.
LEMMA RouteFacts ==
    ASSUME tool \in Tools
    PROVE  /\ "Laser" \in RouteForTool(tool) => tool = "LASER_ENGRAVER"
           /\ "Drill" \in RouteForTool(tool) => tool = "DRILL"
           /\ "UVCuring" \in RouteForTool(tool) => tool = "UV_CURING"
           /\ "HotAirRework" \in RouteForTool(tool) => tool = "HOTAIR_REWORK"
           /\ "SolderingIron" \in RouteForTool(tool) => tool = "SOLDERING_IRON"
           /\ "Electromagnet" \in RouteForTool(tool) => tool = "ELECTROMAGNET"
           /\ "3DPrinter" \in RouteForTool(tool) => tool = "3D_PRINTER"
           /\ "WeldPulse" \in RouteForTool(tool) => tool \in WelderTools
           /\ "AOI" \in RouteForTool(tool) => tool = "AOI_INSPECTION"
<1>1. tool \in DOMAIN DedicatedRoute =>
        /\ DedicatedRoute[tool] = "Laser" => tool = "LASER_ENGRAVER"
        /\ DedicatedRoute[tool] = "Drill" => tool = "DRILL"
        /\ DedicatedRoute[tool] = "UVCuring" => tool = "UV_CURING"
        /\ DedicatedRoute[tool] = "HotAirRework" => tool = "HOTAIR_REWORK"
        /\ DedicatedRoute[tool] = "Electromagnet" => tool = "ELECTROMAGNET"
        /\ DedicatedRoute[tool] = "AOI" => tool = "AOI_INSPECTION"
        /\ DedicatedRoute[tool] \notin {"SolderingIron", "3DPrinter", "WeldPulse"}
  BY DEF DedicatedRoute
<1>2. \/ RouteForTool(tool) \in {{"MotionTools"}, {}}
      \/ RouteForTool(tool) = {"SolderingIron", "MotionTools"} /\ tool = "SOLDERING_IRON"
      \/ RouteForTool(tool) = {"3DPrinter"} /\ tool = "3D_PRINTER"
      \/ RouteForTool(tool) = {"WeldPulse"} /\ tool \in WelderTools
      \/ RouteForTool(tool) = {DedicatedRoute[tool]} /\ tool \in DOMAIN DedicatedRoute
  BY DEF RouteForTool
<1> QED
  BY <1>1, <1>2

\* What an interrupt does to the outputs.
Effects ==
    /\ UNCHANGED <<board, splash, pc, alive, err, seen, errAge>>
    /\ err => (pwm'.out => pwm.out) /\ (t12' => t12)
    /\ \/ pwm'.cmd = pwm.cmd /\ pwm'.kick = pwm.kick
       \/ ~pwm'.cmd
       \/ tool \in PwmTools /\ pwm'.kick = 0
    /\ (heat'.target = heat.target /\ heat'.kick = heat.kick) \/ heat'.kick = 0
    /\ heat'.temp = heat.temp /\ heat'.on = heat.on
    /\ \/ weld' = weld /\ (tool \in WelderTools => (t12' => t12))
       \/ /\ ~weld.active /\ weld'.active /\ weld'.age = 0
          /\ tool \in WelderTools /\ ~booting
    /\ strobe'.active = strobe.active /\ strobe'.left = strobe.left /\ strobe'.lit = strobe.lit
    /\ (t12' => t12) \/ tool \notin HeaterTools
    /\ \/ calm' = 0
       \/ calm' = 1 /\ SafeStop
       \/ /\ calm' = calm /\ heat' = heat /\ t12' = t12
          /\ (pwm'.out => pwm.out) /\ (fan'.out => fan.out)

LEMMA InterruptEffects ==
    ASSUME TypeOK, Interrupt
    PROVE  Restart \/ Effects
<1>0. tool \in Tools
  BY BoardFacts
<1>1. UNCHANGED rest => UNCHANGED <<board, splash, pc, alive, err, seen, errAge>>
  BY DEF rest, env
<1>2. pwm \in PwmState /\ heat \in HeatState /\ fan \in FanState /\ strobe \in StrobeState
  BY DEF TypeOK
<1>3. ASSUME NEW on \in BOOLEAN, NEW enable \in BOOLEAN, Laser(on, enable)
      PROVE  Effects
  <2>1. pwm'.kick = 0 /\ tool \in PwmTools
    BY <1>0, <1>2, <1>3, RouteFacts, ToolFacts DEF Laser, Accepts, Kicked, PwmState
  <2> QED
    BY <1>1, <1>3, <2>1 DEF Laser, Accepts, Effects
<1>4. ASSUME NEW on \in BOOLEAN, Drill(on) \/ UVCuring(on) \/ PrinterLayerFan(on)
      PROVE  Effects
  <2>1. pwm'.kick = 0 /\ tool \in PwmTools
    BY <1>0, <1>2, <1>4, RouteFacts, ToolFacts
    DEF Drill, UVCuring, PrinterLayerFan, Accepts, Kicked, PwmState
  <2> QED
    BY <1>1, <1>4, <2>1 DEF Drill, UVCuring, PrinterLayerFan, Accepts, Effects
<1>5. ASSUME NEW on \in BOOLEAN, Electromagnet(on) \/ PrinterHotendFan(on)
      PROVE  Effects
  <2>1. Electromagnet(on) => tool \notin WelderTools /\ tool \notin HeaterTools
    BY <1>0, RouteFacts, ToolFacts DEF Electromagnet, Accepts
  <2> QED
    BY <1>1, <1>5, <2>1 DEF Electromagnet, PrinterHotendFan, Accepts, Effects
<1>6. ASSUME NEW target \in board.targets, SolderingIron(target)
      PROVE  Effects
  <2>1. heat'.kick = 0 /\ heat'.temp = heat.temp /\ heat'.on = heat.on
    BY <1>2, <1>6 DEF SolderingIron, Aimed, HeatState
  <2> QED
    BY <1>1, <1>6, <2>1 DEF SolderingIron, Accepts, Effects
<1>7. ASSUME NEW target \in board.targets, NEW on \in BOOLEAN, HotAirRework(target, on)
      PROVE  Effects
  <2>1. heat'.kick = 0 /\ heat'.temp = heat.temp /\ heat'.on = heat.on
    BY <1>2, <1>7 DEF HotAirRework, Aimed, HeatState
  <2>2. pwm'.kick = 0 /\ tool \in PwmTools
    BY <1>0, <1>2, <1>7, RouteFacts, ToolFacts DEF HotAirRework, Accepts, Kicked, PwmState
  <2> QED
    BY <1>1, <1>7, <2>1, <2>2 DEF HotAirRework, Accepts, Effects
<1>8. ASSUME NEW steps \in Moves, Motion(steps)
      PROVE  Effects
  BY <1>1, <1>8 DEF Motion, Accepts, Effects
<1>9. ASSUME NEW steps \in Moves, NEW target \in board.targets,
             PrinterThermalMotion(target, steps)
      PROVE  Effects
  <2>1. heat'.kick = 0 /\ heat'.temp = heat.temp /\ heat'.on = heat.on
    BY <1>2, <1>9 DEF PrinterThermalMotion, Aimed, HeatState
  <2> QED
    BY <1>1, <1>9, <2>1 DEF PrinterThermalMotion, Accepts, Effects
<1>10. ASSUME NEW ms \in Pulses, WeldPulse(ms)
       PROVE  Effects
  <2>1. tool \in WelderTools /\ tool \notin HeaterTools
    BY <1>0, <1>10, RouteFacts, ToolFacts DEF WeldPulse, Accepts
  <2> QED
    BY <1>1, <1>10, <2>1 DEF WeldPulse, Accepts, Effects
<1>11. ASSUME NEW aoiMode \in {"strobe", "lit", "dark"}, NEW period \in Periods,
              AOI(aoiMode, period)
       PROVE  Effects
  <2>1. strobe'.active = strobe.active /\ strobe'.left = strobe.left /\ strobe'.lit = strobe.lit
    BY <1>2, <1>11 DEF AOI, StrobeState
  <2> QED
    BY <1>1, <1>11, <2>1 DEF AOI, Accepts, Effects
<1>12. CASE SafeStop
  <2>1. /\ ~pwm'.out
        /\ (pwm'.cmd = pwm.cmd /\ pwm'.kick = pwm.kick) \/ ~pwm'.cmd
    BY <1>2, <1>12 DEF SafeStop, SafeState, PwmState
  <2>2. heat'.kick = 0 /\ heat'.temp = heat.temp /\ heat'.on = heat.on
    BY <1>2, <1>12 DEF SafeStop, SafeState, HeatState
  <2>3. UNCHANGED <<rest, weld, strobe>> /\ ~t12' /\ calm' = 1
    BY <1>12 DEF SafeStop, SafeState
  <2> QED
    BY <1>1, <1>12, <2>1, <2>2, <2>3 DEF Effects
<1>13. CASE StepError
  <2>1. ~pwm'.out /\ pwm'.cmd = pwm.cmd /\ pwm'.kick = pwm.kick
    BY <1>2, <1>13 DEF StepError, CutPwm, PwmState
  <2> QED
    BY <1>1, <1>13, <2>1 DEF StepError, Effects
<1>14. CASE StepBegin \/ StepRise \/ StepRest
  BY <1>1, <1>14 DEF StepBegin, StepRise, StepRest, Effects
<1>15. CASE FanPulse
  BY <1>1, <1>15 DEF FanPulse, Effects
<1>16. EnterBootloader => Restart
  BY DEF EnterBootloader
<1> QED
  BY <1>3, <1>4, <1>5, <1>6, <1>7, <1>8, <1>9, <1>10, <1>11, <1>12, <1>13, <1>14, <1>15, <1>16
  DEF Interrupt, Frame

LEMMA WatchNumbers ==
    ASSUME TypeOK
    PROVE  /\ pwm.kick \in Nat /\ heat.kick \in Nat /\ weld.age \in Nat /\ strobe.lit \in Nat
           /\ errAge \in Nat /\ calm \in Nat /\ seen \in Nat
           /\ alive \in Nat /\ alive <= LoopMax /\ LoopMax \in Nat \ {0}
           /\ Limit \in Nat /\ ShortLimit \in Nat /\ PulseCeiling \in Nat
<1>1. /\ pwm \in PwmState /\ heat \in HeatState /\ weld \in WeldState /\ strobe \in StrobeState
  BY DEF TypeOK
<1>2. pwm.kick \in Nat
  BY <1>1, ConstantFacts DEF PwmState
<1>3. heat.kick \in Nat
  BY <1>1, ConstantFacts DEF HeatState
<1>4. weld.age \in Nat
  BY <1>1, ConstantFacts DEF WeldState
<1>5. strobe.lit \in Nat
  BY <1>1, ConstantFacts DEF StrobeState
<1> QED
  BY <1>2, <1>3, <1>4, <1>5, ConstantFacts DEF TypeOK

\* What a tick does to the ages.
LEMMA TickEffects ==
    ASSUME TypeOK, Tick
    PROVE  /\ UNCHANGED <<board, splash, pc, err, t12, motor, moved>> /\ alive' = alive + 1
           /\ pwm'.cmd = pwm.cmd /\ pwm'.out = pwm.out /\ pwm'.pin = pwm.pin
           /\ pwm'.kick <= pwm.kick + 1
           /\ heat'.target = heat.target /\ heat'.kick <= heat.kick + 1
           /\ heat'.temp = heat.temp /\ heat'.on = heat.on
           /\ weld'.active = weld.active /\ weld'.age <= weld.age + 1
           /\ strobe'.active = strobe.active /\ strobe'.lit <= strobe.lit + 1
           /\ \/ strobe.left > -StrobeMax /\ strobe'.left <= strobe.left - 1
              \/ ~strobe.active
              \/ strobe'.left = -StrobeMax
           /\ seen' <= seen + 1
           /\ errAge' <= errAge + 1 /\ (~err => errAge' = 0)
           /\ calm' <= calm + 1 /\ (calm = 0 => calm' = 0)
           /\ fan'.out = fan.out
           /\ pwm'.kick \in Nat /\ heat'.kick \in Nat /\ weld'.age \in Nat /\ strobe'.lit \in Nat
           /\ seen' \in Nat /\ errAge' \in Nat /\ calm' \in Nat
<1>0. /\ pwm \in PwmState /\ heat \in HeatState /\ fan \in FanState /\ weld \in WeldState
      /\ strobe \in StrobeState
  BY DEF TypeOK
<1>1. /\ KickMax \in Nat /\ HeatMax \in Nat /\ ErrMax \in Nat /\ ErrMax + 1 \in Nat
      /\ WeldMax \in Nat /\ StrobeMax \in Nat /\ LoopMax \in Nat
      /\ seen \in Nat /\ errAge \in Nat /\ calm \in Nat /\ calm + 1 \in Nat /\ seen + 1 \in Nat
  BY ConstantFacts DEF TypeOK
<1>2. /\ pwm.kick \in Nat /\ heat.kick \in Nat /\ weld.age \in Nat /\ strobe.lit \in Nat
  BY WatchNumbers
<1>3. /\ pwm'.cmd = pwm.cmd /\ pwm'.out = pwm.out /\ pwm'.pin = pwm.pin
      /\ pwm'.kick <= pwm.kick + 1 /\ pwm'.kick \in Nat
  <2>1. /\ Aged(pwm.kick, pwm.cmd, KickMax) <= pwm.kick + 1
        /\ Aged(pwm.kick, pwm.cmd, KickMax) \in Nat
    BY <1>1, <1>2, AgedFacts
  <2> QED
    BY <1>0, <2>1 DEF Tick, PwmState
<1>4. /\ heat'.target = heat.target /\ heat'.kick <= heat.kick + 1
      /\ heat'.temp = heat.temp /\ heat'.on = heat.on /\ heat'.kick \in Nat
  <2>1. /\ Aged(heat.kick, heat.target > 0, HeatMax) <= heat.kick + 1
        /\ Aged(heat.kick, heat.target > 0, HeatMax) \in Nat
    BY <1>1, <1>2, AgedFacts
  <2> QED
    BY <1>0, <2>1 DEF Tick, HeatState
<1>5. weld'.active = weld.active /\ weld'.age <= weld.age + 1 /\ weld'.age \in Nat
  <2>1. /\ Aged(weld.age, weld.active, WeldMax) <= weld.age + 1
        /\ Aged(weld.age, weld.active, WeldMax) \in Nat
    BY <1>1, <1>2, AgedFacts
  <2> QED
    BY <1>0, <2>1 DEF Tick, WeldState
<1>6. strobe'.active = strobe.active /\ strobe'.lit <= strobe.lit + 1 /\ strobe'.lit \in Nat
  <2>1. /\ Aged(strobe.lit, strobe.active, StrobeMax) <= strobe.lit + 1
        /\ Aged(strobe.lit, strobe.active, StrobeMax) \in Nat
    BY <1>1, <1>2, AgedFacts
  <2> QED
    BY <1>0, <2>1 DEF Tick, StrobeState
<1>7. \/ strobe.left > -StrobeMax /\ strobe'.left <= strobe.left - 1
      \/ ~strobe.active
      \/ strobe'.left = -StrobeMax
  <2>1. strobe.left \in (-StrobeMax)..PeriodCeiling
    BY <1>0 DEF StrobeState
  <2>2. strobe'.left = IF strobe.active /\ strobe.left > -StrobeMax
                       THEN strobe.left - 1 ELSE strobe.left
    BY <1>0 DEF Tick, StrobeState
  <2> QED
    BY <1>1, <2>1, <2>2, ConstantFacts
<1>8. errAge' <= errAge + 1 /\ (~err => errAge' = 0) /\ errAge' \in Nat
  BY <1>1, AgedFacts DEF Tick
<1>9. /\ seen' <= seen + 1 /\ calm' <= calm + 1 /\ (calm = 0 => calm' = 0)
      /\ seen' \in Nat /\ calm' \in Nat
  <2>1. /\ Capped(seen + 1, LoopMax) <= seen + 1 /\ Capped(calm + 1, ErrMax + 1) <= calm + 1
        /\ Capped(seen + 1, LoopMax) \in Nat /\ Capped(calm + 1, ErrMax + 1) \in Nat
    BY <1>1, CappedFacts
  <2>2. seen' \in {0, Capped(seen + 1, LoopMax)}
    BY DEF Tick
  <2>3. calm' = IF calm = 0 THEN 0 ELSE Capped(calm + 1, ErrMax + 1)
    BY DEF Tick
  <2> QED
    BY <1>1, <2>1, <2>2, <2>3
<1>10. UNCHANGED <<board, splash, pc, err, t12, motor, moved>> /\ alive' = alive + 1
       /\ fan'.out = fan.out
  BY <1>0 DEF Tick, FanState
<1> QED
  BY <1>3, <1>4, <1>5, <1>6, <1>7, <1>8, <1>9, <1>10

-----------------------------------------------------------------------------
(* What TIM1 drives, and the set point of a heater *)

\* A step of the main loop that is not the watchdog's leaves the command and
\* its age alone.
LEMMA PwmOfMain ==
    ASSUME TypeOK, PlaceInv, PwmInv, MainStep, ~Round, Onward
    PROVE  PwmInv'
<1>0. UNCHANGED <<board, alive>> /\ tool' = tool /\ Limit' = Limit /\ Inner /\ PlaceInv'
      /\ (PwmAhead /\ tool \in PwmTools /\ pc \notin {"pwm", "pwmCompare", "pwmZero"} => PwmAhead')
  BY DEF Onward, tool, Limit
<1>1. CASE PwmRead
  <2>1. /\ pc = "pwm" /\ seen' = 0 /\ pwm' = pwm
        /\ pwm.cmd => pc' = "pwmCompare"
    BY <1>1 DEF PwmRead, At, Step, outputs
  <2>2. PwmAhead /\ (pwm.cmd => PwmAhead')
    BY <2>1 DEF PwmAhead
  <2> QED
    BY <1>0, <2>1, <2>2, WatchNumbers DEF PwmInv, Within
<1>2. CASE PwmCompare
  <2>1. /\ pc = "pwmCompare" /\ seen' = 0 /\ pwm' = pwm
        /\ pwm.kick <= seen + Limit \/ pc' = "pwmZero"
    BY <1>2, WatchNumbers DEF PwmCompare, Exceeds, At, Step, outputs
  <2>2. PwmAhead /\ (pc' = "pwmZero" => PwmAhead')
    BY <2>1 DEF PwmAhead
  <2> QED
    BY <1>0, <2>1, <2>2, WatchNumbers DEF PwmInv, Within
<1>3. CASE PwmTrip
  <2>1. /\ pc \in {"pwmZero", "pwmCut", "pwmLatch"} /\ pc' \notin {"pwmCompare", "heaterCompare"}
        /\ pwm'.cmd => pwm.cmd /\ pwm'.kick = pwm.kick /\ pc # "pwmZero"
    <3>1. pwm \in PwmState
      BY DEF TypeOK
    <3> QED
      BY <1>0, <1>3, <3>1 DEF PwmTrip, At, Inner, PwmState
  <2> QED
    BY <1>0, <2>1, WatchNumbers DEF PwmInv, Within, PwmAhead
<1>4. CASE ~(PwmRead \/ PwmCompare \/ PwmTrip)
  <2>1. pwm' = pwm /\ pc \notin {"pwm", "pwmCompare", "pwmZero"}
    BY <1>4, MainUntouched
  <2>2. pc' \notin {"pwmCompare"} /\ (pc' = "heaterCompare" => seen' = 0)
    <3>1. pc' = "heaterCompare" => HeaterRead
      BY <1>0, MainUntouched DEF Inner
    <3> QED
      BY <1>0, <2>1, <3>1 DEF Inner, HeaterRead
  <2> QED
    BY <1>0, <2>1, <2>2, WatchNumbers DEF PwmInv, Within
<1> QED
  BY <1>1, <1>2, <1>3, <1>4

LEMMA PwmKept ==
    ASSUME TypeOK, PlaceInv, PwmInv, Next
    PROVE  PwmInv'
<1>1. CASE MainStep /\ Round
  <2>1. /\ UNCHANGED board /\ alive' = 0 /\ pc = "top" /\ (tool \in PwmTools => PwmAhead')
        /\ tool' = tool /\ Limit' = Limit /\ Inner
    BY <1>1, RoundBegins DEF tool, Limit
  <2>2. pwm' = pwm /\ ~PwmAhead
    BY <1>1, <2>1 DEF Round, outputs, PwmAhead, Sensing
  <2> QED
    BY <2>1, <2>2, WatchNumbers DEF PwmInv, Within, Inner
<1>2. CASE MainStep /\ ~Round /\ Onward
  BY <1>2, PwmOfMain
<1>3. CASE Effects
  <2>1. tool' = tool /\ Limit' = Limit /\ PwmAhead' = PwmAhead
    BY <1>3 DEF Effects, tool, Limit, PwmAhead, booting
  <2> QED
    BY <1>3, <2>1, WatchNumbers DEF Effects, PwmInv, Within
<1>4. CASE Tick
  <2>1. tool' = tool /\ Limit' = Limit /\ PwmAhead' = PwmAhead
    BY <1>4, TickEffects DEF tool, Limit, PwmAhead, booting
  <2> QED
    BY <1>4, <2>1, TickEffects, WatchNumbers DEF PwmInv, Within
<1>5. CASE Restart
  BY <1>5 DEF Restart, Initial, PwmInv
<1> QED
  BY <1>1, <1>2, <1>3, <1>4, <1>5, NextKinds, InterruptEffects

LEMMA HeatOfMain ==
    ASSUME TypeOK, PlaceInv, PwmInv, HeatInv, MainStep, ~Round, Onward
    PROVE  HeatInv'
<1>0. UNCHANGED <<board, alive>> /\ tool' = tool /\ Inner
      /\ (HeaterAhead /\ tool \in HeaterTools
             /\ pc \notin {"heater", "heaterCompare", "heaterZero"} => HeaterAhead')
  BY DEF Onward, tool
<1>1. CASE HeaterRead
  <2>1. /\ pc = "heater" /\ heat' = heat /\ (heat.target > 0 => pc' = "heaterCompare")
    BY <1>1 DEF HeaterRead, At, Step, outputs
  <2>2. HeaterAhead /\ (heat.target > 0 => HeaterAhead')
    BY <2>1 DEF HeaterAhead
  <2> QED
    BY <1>0, <2>1, <2>2, WatchNumbers DEF HeatInv, Within
<1>2. CASE HeaterCompare
  <2>1. /\ pc = "heaterCompare" /\ heat' = heat
        /\ heat.kick <= seen + ShortLimit \/ pc' = "heaterZero"
    BY <1>2, WatchNumbers DEF HeaterCompare, Exceeds, At, Step, outputs
  <2>2. HeaterAhead /\ (pc' = "heaterZero" => HeaterAhead')
    BY <2>1 DEF HeaterAhead
  <2> QED
    BY <1>0, <2>1, <2>2, WatchNumbers DEF HeatInv, PwmInv, Within
<1>3. CASE HeaterTrip
  <2>1. heat \in HeatState
    BY DEF TypeOK
  <2>2. heat'.target = 0 \/ (pc = "heaterLatch" /\ heat' = heat)
    <3>1. CASE pc = "heaterZero"
      <4>1. heat' = [heat EXCEPT !.target = 0, !.kick = 0]
        BY <1>3, <3>1 DEF HeaterTrip, At
      <4>2. [heat EXCEPT !.target = 0, !.kick = 0].target = 0
        BY <2>1 DEF HeatState
      <4> QED
        BY <4>1, <4>2
    <3>2. CASE pc = "heaterLatch"
      BY <1>3, <3>2 DEF HeaterTrip, At
    <3> QED
      BY <1>3, <3>1, <3>2 DEF HeaterTrip, At
  <2>3. pc = "heaterLatch" => ~HeaterAhead
    BY DEF HeaterAhead, PwmWatch, Sensing
  <2> QED
    BY <1>0, <2>2, <2>3, WatchNumbers DEF HeatInv, Within
<1>4. CASE ~(HeaterRead \/ HeaterCompare \/ HeaterTrip)
  <2>1. pc \notin {"heater", "heaterCompare", "heaterZero"}
    BY <1>4, MainUntouched
  <2>2. heat'.target \in {heat.target, 0} /\ heat'.kick = heat.kick
    <3>1. heat \in HeatState
      BY DEF TypeOK
    <3>2. CASE \E reading \in board.temps, valid \in BOOLEAN : Sense(reading, valid)
      BY <3>1, <3>2 DEF Sense, HeatState
    <3>3. CASE Decide
      <4>1. 0 \in Temps /\ heat.temp \in Temps /\ 0 \in 0..(OffLimit + 1)
        BY <3>1, BoardFacts, ConstantFacts DEF HeatState
      <4>2. /\ OffTimer(heat).target = heat.target /\ OffTimer(heat).kick = heat.kick
            /\ OffTimer(heat) \in HeatState
        BY <3>1, <4>1 DEF OffTimer, HeatState
      <4>3. ASSUME NEW on PROVE /\ [OffTimer(heat) EXCEPT !.on = on].target = heat.target
                                /\ [OffTimer(heat) EXCEPT !.on = on].kick = heat.kick
        BY <4>2 DEF HeatState
      <4> QED
        BY <3>3, <4>3 DEF Decide
    <3>4. CASE Check
      BY <3>1, <3>4 DEF Check, HeatState
    <3> QED
      BY <1>4, <3>2, <3>3, <3>4, MainUntouched
  <2> QED
    BY <1>0, <2>1, <2>2, WatchNumbers DEF HeatInv, Within
<1> QED
  BY <1>1, <1>2, <1>3, <1>4

LEMMA HeatKept ==
    ASSUME TypeOK, PlaceInv, PwmInv, HeatInv, Next
    PROVE  HeatInv'
<1>0. heat.target \in Nat
  <2>1. heat \in HeatState
    BY DEF TypeOK
  <2> QED
    BY <2>1, BoardFacts DEF HeatState
<1>1. CASE MainStep /\ Round
  <2>1. /\ UNCHANGED board /\ alive' = 0 /\ pc = "top" /\ (tool \in HeaterTools => HeaterAhead')
        /\ tool' = tool
    BY <1>1, RoundBegins DEF tool
  <2>2. heat' = heat /\ ~HeaterAhead
    BY <1>1, <2>1 DEF Round, outputs, HeaterAhead, Sensing, PwmWatch
  <2> QED
    BY <2>1, <2>2, WatchNumbers DEF HeatInv, Within
<1>2. CASE MainStep /\ ~Round /\ Onward
  BY <1>2, HeatOfMain
<1>3. CASE Effects
  <2>1. tool' = tool /\ HeaterAhead' = HeaterAhead
    BY <1>3 DEF Effects, tool, HeaterAhead, booting
  <2> QED
    BY <1>3, <2>1, WatchNumbers DEF Effects, HeatInv, Within
<1>4. CASE Tick
  <2>1. tool' = tool /\ HeaterAhead' = HeaterAhead
    BY <1>4, TickEffects DEF tool, HeaterAhead, booting
  <2> QED
    BY <1>4, <2>1, TickEffects, WatchNumbers DEF HeatInv, Within
<1>5. CASE Restart
  BY <1>5 DEF Restart, Initial, HeatInv
<1> QED
  BY <1>1, <1>2, <1>3, <1>4, <1>5, NextKinds, InterruptEffects

-----------------------------------------------------------------------------
(* A pulse of a welder, and a flash *)

LEMMA WeldOfMain ==
    ASSUME TypeOK, PlaceInv, WeldInv, MainStep, ~Round, Onward
    PROVE  WeldInv'
<1>0. UNCHANGED <<board, alive>> /\ tool' = tool /\ Inner
      /\ (WeldAhead /\ tool \in WelderTools /\ ~booting /\ pc # "weld" => WeldAhead')
  BY DEF Onward, tool
<1>1. weld \in WeldState
  BY DEF TypeOK
<1>2. pc # "delay" => booting' = booting
  BY MainUntouched DEF booting
<1>3. pc = "delay" => booting
  BY DEF PlaceInv
<1>4. CASE pc = "weld"
  <2>1. WeldTick
    BY <1>4, MainUntouched
  <2>2. tool \in WelderTools /\ ~booting /\ After("weld") = "top"
    BY <1>4, LoopRound DEF PlaceInv
  <2>3. weld' = weld /\ t12' = (t12 /\ ~PulseOver) /\ (~PulseOver => pc' = "top")
    BY <1>4, <2>1, <2>2 DEF WeldTick, At, Step
  <2>4. CASE PulseOver
    <3>1. weld'.active /\ ~t12'
      BY <2>3, <2>4 DEF PulseOver
    <3>2. ~booting' /\ tool' \in WelderTools
      BY <1>0, <1>2, <1>4, <2>2
    <3> QED
      BY <3>1, <3>2 DEF WeldInv
  <2>5. CASE ~PulseOver
    <3>1. t12' => weld.active /\ weld.age <= PulseCeiling
      <4>1. weld.ms \in 0..PulseCeiling
        BY <1>1 DEF WeldState
      <4> QED
        <5>1. t12' => weld.active
          BY <2>2, <2>3 DEF WeldInv
        <5>2. weld.active => ~(weld.age >= weld.ms)
          BY <2>5 DEF PulseOver
        <5> QED
          BY <4>1, <5>1, <5>2, WatchNumbers
    <3> QED
      BY <1>0, <1>2, <1>4, <2>2, <2>3, <2>5, <3>1, WatchNumbers DEF WeldInv, Within
  <2> QED
    BY <2>4, <2>5
<1>5. CASE pc = "weldOff"
  <2>1. WeldTick
    BY <1>5, MainUntouched
  <2>2. ~weld'.active /\ t12' = t12 /\ pc' # "weldOff" /\ tool \in WelderTools
    BY <1>0, <1>1, <1>5, <2>1 DEF WeldTick, At, WeldState, Inner, PlaceInv
  <2> QED
    BY <1>0, <1>5, <2>2 DEF WeldInv
<1>6. CASE pc \notin {"weld", "weldOff"}
  <2>1. weld' = weld /\ pc' # "weldOff" /\ (tool \in WelderTools => t12' = t12)
    BY <1>0, <1>6, MainUntouched, ToolFacts DEF Inner, PlaceInv
  <2> QED
    BY <1>0, <1>2, <1>3, <1>6, <2>1, WatchNumbers DEF WeldInv, Within
<1> QED
  BY <1>4, <1>5, <1>6

LEMMA WeldKept ==
    ASSUME TypeOK, PlaceInv, WeldInv, Next
    PROVE  WeldInv'
<1>1. CASE MainStep /\ Round
  <2>1. /\ UNCHANGED board /\ alive' = 0 /\ pc = "top" /\ tool' = tool /\ booting' = booting
        /\ tool \in WelderTools /\ ~booting => WeldAhead'
        /\ pc' # "weldOff"
    BY <1>1, RoundBegins DEF tool, booting, Inner
  <2>2. weld' = weld /\ t12' = t12 /\ ~WeldAhead
    BY <1>1, <2>1 DEF Round, outputs, WeldAhead
  <2> QED
    BY <2>1, <2>2, WatchNumbers DEF WeldInv, Within
<1>2. CASE MainStep /\ ~Round /\ Onward
  BY <1>2, WeldOfMain
<1>3. CASE Effects
  <2>1. tool' = tool /\ booting' = booting /\ WeldAhead' = WeldAhead /\ UNCHANGED <<pc, alive>>
    BY <1>3 DEF Effects, tool, WeldAhead, booting
  <2>2. CASE weld' = weld /\ (tool \in WelderTools => (t12' => t12))
    BY <2>1, <2>2 DEF WeldInv, Within
  <2>3. CASE /\ ~weld.active /\ weld'.active /\ weld'.age = 0
             /\ tool \in WelderTools /\ ~booting
    BY <2>1, <2>3, WatchNumbers DEF WeldInv, Within
  <2> QED
    BY <1>3, <2>2, <2>3 DEF Effects
<1>4. CASE Tick
  <2>1. tool' = tool /\ WeldAhead' = WeldAhead /\ booting' = booting
    BY <1>4, TickEffects DEF tool, WeldAhead, booting
  <2> QED
    BY <1>4, <2>1, TickEffects, WatchNumbers DEF WeldInv, Within
<1>5. CASE Restart
  BY <1>5 DEF Restart, Initial, WeldInv
<1> QED
  BY <1>1, <1>2, <1>3, <1>4, <1>5, NextKinds, InterruptEffects

LEMMA StrobeOfMain ==
    ASSUME TypeOK, PlaceInv, StrobeInv, MainStep, ~Round, Onward
    PROVE  StrobeInv'
<1>0. UNCHANGED <<board, alive>> /\ tool' = tool
      /\ (StrobeAhead /\ tool = "AOI_INSPECTION" /\ ~booting /\ pc # "strobeEnd" => StrobeAhead')
  BY DEF Onward, tool
<1>1. strobe \in StrobeState
  BY DEF TypeOK
<1>2. strobe.left \in Int /\ strobe.period \in Nat /\ PeriodCeiling \in Nat
  <2>1. strobe.period \in Periods \cup {0} /\ strobe.left \in (-StrobeMax)..PeriodCeiling
    BY <1>1 DEF StrobeState
  <2>2. Periods \cup {0} \subseteq Nat
    <3>1. Periods \subseteq Nat
      BY AppAssumption
    <3> QED
      BY <3>1
  <2>3. strobe.period \in Nat
    BY <2>1, <2>2
  <2> QED
    BY <2>1, <2>3, ConstantFacts
<1>3. pc # "delay" => booting' = booting
  BY MainUntouched DEF booting
<1>4. pc = "delay" => booting
  BY DEF PlaceInv
<1>5. CASE pc = "strobe"
  <2>1. StrobeStart /\ tool = "AOI_INSPECTION" /\ ~booting
    BY <1>5, MainUntouched DEF PlaceInv
  <2>2. pc' = "strobeEnd" /\ StrobeAhead' /\ StrobeAhead
    BY <1>5, <2>1 DEF StrobeStart, Step, StrobeAhead
  <2>3. CASE strobe' = strobe
    BY <1>0, <1>3, <1>5, <2>1, <2>2, <2>3 DEF StrobeInv, Within
  <2>4. CASE strobe.flag
    <3>1. strobe'.lit = 0 /\ strobe'.left = SafePeriod(strobe.period)
      BY <1>1, <2>1, <2>4 DEF StrobeStart, StrobeState
    <3>2. SafePeriod(strobe.period) \in 1..PeriodCeiling
      BY <1>2, SafePeriodFacts
    <3> QED
      BY <1>0, <1>2, <1>3, <1>5, <2>1, <2>2, <3>1, <3>2, WatchNumbers DEF StrobeInv, Within
  <2> QED
    BY <2>1, <2>3, <2>4 DEF StrobeStart
<1>6. CASE pc = "strobeEnd"
  <2>1. StrobeEnd /\ tool = "AOI_INSPECTION" /\ ~booting
    BY <1>6, MainUntouched DEF PlaceInv
  <2>2. CASE StrobeOver
    <3>1. ~strobe'.active
      BY <1>1, <2>1, <2>2 DEF StrobeEnd, StrobeState
    <3> QED
      BY <3>1 DEF StrobeInv
  <2>3. CASE ~StrobeOver
    <3>1. strobe' = strobe
      BY <2>1, <2>3 DEF StrobeEnd
    <3> QED
      BY <1>0, <1>2, <1>3, <1>6, <2>1, <2>3, <3>1, WatchNumbers DEF StrobeInv, StrobeOver, Within
  <2> QED
    BY <2>2, <2>3
<1>7. CASE pc \notin {"strobe", "strobeEnd"}
  <2>1. strobe' = strobe
    BY <1>7, MainUntouched
  <2> QED
    BY <1>0, <1>2, <1>3, <1>4, <1>7, <2>1, WatchNumbers DEF StrobeInv, Within
<1> QED
  BY <1>5, <1>6, <1>7

LEMMA StrobeKept ==
    ASSUME TypeOK, PlaceInv, StrobeInv, Next
    PROVE  StrobeInv'
<1>0. /\ strobe.left \in Int /\ PeriodCeiling \in Nat /\ StrobeMax = PeriodCeiling + 3 * LoopMax
  <2>1. strobe.left \in (-StrobeMax)..PeriodCeiling
    BY DEF TypeOK, StrobeState
  <2> QED
    BY <2>1, ConstantFacts DEF StrobeMax
<1>1. CASE MainStep /\ Round
  <2>1. /\ UNCHANGED board /\ alive' = 0 /\ pc = "top" /\ tool' = tool /\ booting' = booting
        /\ tool = "AOI_INSPECTION" /\ ~booting => StrobeAhead'
    BY <1>1, RoundBegins DEF tool, booting
  <2>2. strobe' = strobe /\ ~StrobeAhead
    BY <1>1, <2>1 DEF Round, outputs, StrobeAhead
  <2> QED
    BY <1>0, <2>1, <2>2, WatchNumbers DEF StrobeInv, Within
<1>2. CASE MainStep /\ ~Round /\ Onward
  BY <1>2, StrobeOfMain
<1>3. CASE Effects
  <2>1. tool' = tool /\ booting' = booting /\ StrobeAhead' = StrobeAhead
    BY <1>3 DEF Effects, tool, StrobeAhead, booting
  <2> QED
    BY <1>3, <2>1 DEF Effects, StrobeInv, Within
<1>4. CASE Tick
  <2>1. tool' = tool /\ StrobeAhead' = StrobeAhead /\ booting' = booting
    BY <1>4, TickEffects DEF tool, StrobeAhead, booting
  <2>2. strobe'.left \in (-StrobeMax)..PeriodCeiling /\ strobe'.lit \in 0..StrobeMax
    <3>1. strobe' \in StrobeState
      BY <1>4, TickTypes DEF TypeOK, StrobeState
    <3> QED
      BY <3>1 DEF StrobeState
  <2>3. strobe.active => strobe'.lit <= PeriodCeiling - strobe'.left
    BY <1>0, <1>4, <2>2, TickEffects, WatchNumbers, ConstantFacts DEF StrobeInv
  <2> QED
    <3>1. /\ strobe'.active = strobe.active /\ strobe'.lit <= strobe.lit + 1
          /\ strobe'.lit \in Nat /\ alive' = alive + 1
      BY <1>4, TickEffects
    <3> QED
      BY <1>0, <2>1, <2>3, <3>1, WatchNumbers DEF StrobeInv, Within
<1>5. CASE Restart
  BY <1>5 DEF Restart, Initial, StrobeInv
<1> QED
  BY <1>1, <1>2, <1>3, <1>4, <1>5, NextKinds, InterruptEffects

-----------------------------------------------------------------------------
(* A fault *)

\* A step of the main loop may report a fault; it turns nothing on in one.
LEMMA MainFaults ==
    ASSUME TypeOK, PlaceInv, FaultInv, MainStep, Inner
    PROVE  /\ motor.isr = "idle" /\ (err => err')
           /\ (pwm'.out => pwm.out) /\ (pwm'.pin => pwm.pin)
           /\ pc' \in {"decide", "check", "drive"} => ~err'
           /\ tool \in HeaterTools /\ t12' /\ err' => t12 /\ pc \notin Sensing
<1>0. pwm \in PwmState
  BY DEF TypeOK
<1>1. err \in BOOLEAN /\ t12 \in BOOLEAN
  BY DEF TypeOK
<1>2. motor.isr = "idle"
  BY DEF MainStep, Round, Delay, Sense, Decide, Check, Drive, PwmRead, PwmCompare, PwmTrip,
         Stall, HeaterRead, HeaterCompare, HeaterTrip, WeldTick, Telemetry, StrobeStart, StrobeEnd, At
<1>3. /\ pwm'.out => pwm.out
      /\ pwm'.pin => pwm.pin
  BY <1>0, MainUntouched DEF PwmTrip, PwmState
<1>4. CASE pc = "sense"
  <2>1. PICK reading \in board.temps, valid \in BOOLEAN : Sense(reading, valid)
    BY <1>4, MainUntouched
  <2>2. (err => err') /\ (err' => ~t12')
    BY <2>1 DEF Sense
  <2>3. pc' # "check" /\ pc' # "drive"
    BY <1>4 DEF Inner
  <2>4. err' => pc' # "decide"
    <3>1. After("sense") # "decide"
      BY <1>4, SplashRound, LoopRound DEF PlaceInv, Sensing
    <3> QED
      BY <2>1, <3>1 DEF Sense, Step
  <2> QED
    BY <1>2, <1>3, <2>2, <2>3, <2>4
<1>5. CASE pc = "decide"
  <2>1. Decide /\ ~err
    BY <1>5, MainUntouched DEF FaultInv
  <2>2. err' => ~t12' /\ pc' = After("sense")
    BY <2>1 DEF Decide, Step
  <2>3. After("sense") # "check" /\ pc' # "decide" /\ pc' # "drive"
    BY <1>5, SplashRound, LoopRound DEF PlaceInv, Sensing, Inner
  <2> QED
    BY <1>2, <1>3, <2>1, <2>2, <2>3
<1>6. CASE pc = "check"
  <2>1. Check /\ ~err
    BY <1>6, MainUntouched DEF FaultInv
  <2>2. err' => ~t12' /\ pc' = After("sense")
    BY <2>1 DEF Check, Step
  <2>3. After("sense") # "drive" /\ pc' # "decide" /\ pc' # "check"
    BY <1>6, SplashRound, LoopRound DEF PlaceInv, Sensing, Inner
  <2> QED
    BY <1>2, <1>3, <2>1, <2>2, <2>3
<1>7. CASE pc = "drive"
  <2>1. Drive /\ ~err /\ ~err'
    BY <1>7, MainUntouched DEF FaultInv, Drive
  <2> QED
    BY <1>2, <1>3, <2>1
<1>8. CASE pc \notin Sensing
  <2>1. pc' \notin {"decide", "check", "drive"}
    BY <1>8 DEF Inner, Sensing
  <2>2. tool \in HeaterTools => t12' = t12
    BY <1>8, MainUntouched, ToolFacts DEF PlaceInv
  <2>3. err => err'
    BY <1>8 DEF MainStep, Round, Delay, Sense, Decide, Check, Drive, PwmRead, PwmCompare, PwmTrip,
         Stall, HeaterRead, HeaterCompare, HeaterTrip, WeldTick, Telemetry, StrobeStart, StrobeEnd,
         At, Sensing
  <2> QED
    BY <1>2, <1>3, <1>8, <2>1, <2>2, <2>3
<1> QED
  BY <1>4, <1>5, <1>6, <1>7, <1>8 DEF Sensing

\* An interrupt in a fault, which never comes within the step interrupt.
LEMMA InterruptUnderError ==
    ASSUME TypeOK, FaultInv, Interrupt, err
    PROVE  \/ Restart
           \/ /\ err' /\ motor'.isr = motor.isr /\ motor'.steps \in {motor.steps, 0}
              /\ motor'.driver => motor.driver
              /\ pwm'.out => pwm.out
              /\ pwm'.pin => pwm.pin
              /\ t12' => t12
<1>0. pwm \in PwmState /\ motor \in MotorState /\ motor.isr = "idle"
  BY DEF TypeOK, FaultInv
<1>1. UNCHANGED rest => err'
  BY DEF rest
<1>2. CASE SafeStop
  <2>1. ~pwm'.out /\ ~pwm'.pin
    BY <1>0, <1>2 DEF SafeStop, SafeState, PwmState
  <2>2. motor'.isr = motor.isr /\ motor'.steps = 0 /\ (motor'.driver => motor.driver)
    BY <1>0, <1>2 DEF SafeStop, SafeState, MotorState
  <2>3. ~t12' /\ UNCHANGED rest
    BY <1>2 DEF SafeStop, SafeState
  <2> QED
    BY <1>1, <2>1, <2>2, <2>3
<1>3. CASE StepError
  <2>1. ~pwm'.out /\ ~pwm'.pin
    BY <1>0, <1>3 DEF StepError, CutPwm, PwmState
  <2>2. motor'.isr = motor.isr /\ motor'.steps = 0 /\ (motor'.driver => motor.driver)
    BY <1>0, <1>3 DEF StepError, CutMotor, MotorState
  <2> QED
    BY <1>1, <1>3, <2>1, <2>2 DEF StepError
<1>4. ~StepBegin /\ ~StepRise /\ ~StepRest
  BY <1>0 DEF StepBegin, StepRise, StepRest
<1>5. CASE FanPulse
  BY <1>1, <1>5 DEF FanPulse
<1>6. CASE Frame /\ ~SafeStop
  BY <1>6 DEF Frame, Laser, Drill, UVCuring, Electromagnet, PrinterLayerFan, PrinterHotendFan,
         SolderingIron, HotAirRework, Motion, PrinterThermalMotion, WeldPulse, AOI, EnterBootloader,
         Accepts
<1> QED
  BY <1>2, <1>3, <1>4, <1>5, <1>6 DEF Interrupt

LEMMA FaultKept ==
    ASSUME TypeOK, PlaceInv, FaultInv, Next
    PROVE  FaultInv'
<1>0. pwm \in PwmState /\ motor \in MotorState
  BY DEF TypeOK
<1>1. CASE MainStep
  <2>1. Inner
    BY <1>1, RoundBegins, MainGoesOnward DEF Onward
  <2>2. tool' = tool /\ UNCHANGED <<motor, errAge>>
    BY <1>1, RoundBegins, MainGoesOnward, MainUntouched DEF Onward, tool
  <2>3. errAge' > 0 => motor'.steps = 0 /\ ~motor'.driver /\ ~pwm'.out /\ ~pwm'.pin
    BY <1>1, <2>1, <2>2, MainFaults DEF FaultInv
  <2>4. ASSUME tool \in HeaterTools, t12', err'
        PROVE  Within(errAge, 0, SenseAhead)'
    <3>1. t12 /\ pc \notin Sensing
      BY <1>1, <2>1, <2>4, MainFaults
    <3>2. errAge <= alive + IF SenseAhead THEN LoopMax ELSE 0
      BY <2>4, <3>1, WatchNumbers DEF FaultInv, Within
    <3>3. CASE Round
      <4>1. pc = "top" /\ alive' = 0 /\ SenseAhead'
        BY <2>4, <3>3, RoundBegins
      <4>2. ~SenseAhead
        BY <4>1 DEF SenseAhead, PwmWatch, HeaterWatch
      <4> QED
        BY <2>2, <3>2, <4>1, <4>2, WatchNumbers DEF Within
    <3>4. CASE ~Round
      <4>1. alive' = alive /\ (SenseAhead => SenseAhead')
        BY <1>1, <2>4, <3>1, <3>4, MainGoesOnward DEF Onward, Sensing
      <4> QED
        BY <2>2, <3>2, <4>1, WatchNumbers DEF Within
    <3> QED
      BY <3>3, <3>4
  <2>5. ~err' => errAge' = 0
    BY <1>1, <2>1, <2>2, MainFaults DEF FaultInv
  <2>6. motor'.isr = "idle" /\ (pc' \in {"decide", "check", "drive"} => ~err')
    BY <1>1, <2>1, <2>2, MainFaults
  <2> QED
    BY <2>2, <2>3, <2>4, <2>5, <2>6 DEF FaultInv
<1>2. CASE Interrupt /\ Effects
  <2>1. tool' = tool /\ SenseAhead' = SenseAhead /\ UNCHANGED <<pc, err, errAge, alive>>
    BY <1>2 DEF Effects, tool, SenseAhead, booting
  <2>2. CASE ~err
    BY <2>1, <2>2 DEF FaultInv
  <2>3. CASE err
    <3>1. CASE Restart
      BY <2>1, <2>3, <3>1 DEF Restart
    <3>2. CASE ~Restart
      <4>1. /\ motor'.isr = motor.isr /\ motor'.steps \in {motor.steps, 0}
            /\ motor'.driver => motor.driver
            /\ pwm'.out => pwm.out
            /\ pwm'.pin => pwm.pin
            /\ t12' => t12
        BY <1>2, <2>3, <3>2, InterruptUnderError
      <4> QED
        BY <2>1, <2>3, <4>1 DEF FaultInv, Within
    <3> QED
      BY <3>1, <3>2
  <2> QED
    BY <2>2, <2>3
<1>3. CASE Tick
  <2>1. tool' = tool /\ SenseAhead' = SenseAhead /\ UNCHANGED <<pc, err, t12, motor>>
        /\ alive' = alive + 1 /\ errAge' <= errAge + 1 /\ (~err => errAge' = 0) /\ errAge' \in Nat
        /\ pwm'.out = pwm.out /\ pwm'.pin = pwm.pin
    BY <1>3, TickEffects DEF tool, SenseAhead, booting
  <2>2. err => motor = CutMotor /\ pwm = CutPwm
    BY <1>3 DEF Tick, CutIsDone
  <2>3. err => motor.steps = 0 /\ ~motor.driver
    BY <1>0, <2>2 DEF CutMotor, MotorState
  <2>4. err => ~pwm.out /\ ~pwm.pin
    BY <1>0, <2>2 DEF CutPwm, PwmState
  <2>5. ASSUME tool \in HeaterTools, t12, err
        PROVE  Within(errAge, 0, SenseAhead)'
    BY <2>1, <2>5, WatchNumbers DEF FaultInv, Within
  <2> QED
    BY <2>1, <2>3, <2>4, <2>5 DEF FaultInv
<1>4. CASE Restart
  BY <1>4 DEF Restart, Initial, FaultInv
<1> QED
  BY <1>1, <1>2, <1>3, <1>4, InterruptEffects DEF Next, WatchdogReset

-----------------------------------------------------------------------------
(* The steps of the motor *)

\* What a move asks for is not yet begun.
LEMMA MoveBegins ==
    ASSUME TypeOK, NEW steps \in Moves, motor' = Commanded(steps), moved' = MoveAsked(steps)
    PROVE  StepInv'
<1>0. motor \in MotorState
  BY DEF TypeOK
<1>1. steps \in Nat
  BY ConstantFacts
<1>2. CASE steps > 0
  <2>1. motor'.steps = steps
    BY <1>0, <1>2 DEF Commanded, MotorState
  <2>2. moved'.made = 0 /\ moved'.asked = steps
    BY DEF MoveAsked
  <2> QED
    BY <1>1, <1>2, <2>1, <2>2 DEF StepInv
<1>3. CASE steps = 0
  BY <1>3 DEF MoveAsked, StepInv
<1> QED
  BY <1>1, <1>2, <1>3

LEMMA StepKept ==
    ASSUME TypeOK, PlaceInv, StepInv, Next
    PROVE  StepInv'
<1>0. motor \in MotorState /\ moved \in MoveState
  BY DEF TypeOK
<1>1. /\ motor.steps \in 0..(Modulus - 1) /\ moved.made \in Nat /\ moved.asked \in Nat
      /\ Modulus \in Nat \ {0}
  <2>1. moved.asked \in Moves \cup {0} /\ moved.made \in 0..(Modulus + 1)
    BY <1>0 DEF MoveState
  <2>2. moved.asked \in Nat
    <3>1. Moves \cup {0} \subseteq Nat
      BY ConstantFacts
    <3> QED
      BY <2>1, <3>1
  <2> QED
    BY <1>0, <2>1, <2>2, ConstantFacts DEF MotorState
<1>2. CASE UNCHANGED <<motor, moved>>
  BY <1>2 DEF StepInv
<1>3. CASE MainStep \/ Tick
  BY <1>2, <1>3, MainUntouched, TickEffects
<1>4. CASE Restart
  BY <1>4 DEF Restart, Initial, StepInv
<1>5. CASE SafeStop
  BY <1>5 DEF SafeStop, MoveAsked, StepInv
<1>6. CASE Frame /\ ~SafeStop
  <2>1. ASSUME NEW steps \in Moves, Motion(steps)
        PROVE  StepInv'
    BY <2>1, MoveBegins DEF Motion
  <2>2. ASSUME NEW steps \in Moves, NEW target \in board.targets,
               PrinterThermalMotion(target, steps)
        PROVE  StepInv'
    BY <1>2, <2>2, MoveBegins DEF PrinterThermalMotion
  <2>3. CASE \/ \E on, enable \in BOOLEAN : Laser(on, enable)
             \/ \E on \in BOOLEAN : \/ Drill(on) \/ UVCuring(on) \/ Electromagnet(on)
                                    \/ PrinterLayerFan(on) \/ PrinterHotendFan(on)
             \/ \E target \in board.targets :
                   SolderingIron(target) \/ \E on \in BOOLEAN : HotAirRework(target, on)
             \/ \E ms \in Pulses : WeldPulse(ms)
             \/ \E aoiMode \in {"strobe", "lit", "dark"}, period \in Periods : AOI(aoiMode, period)
    BY <1>2, <2>3 DEF Laser, Drill, UVCuring, Electromagnet, PrinterLayerFan, PrinterHotendFan,
         SolderingIron, HotAirRework, WeldPulse, AOI
  <2>4. CASE EnterBootloader
    BY <1>4, <2>4 DEF EnterBootloader
  <2> QED
    BY <1>6, <2>1, <2>2, <2>3, <2>4 DEF Frame
<1>7. CASE StepError
  <2>1. motor'.steps = 0 /\ motor'.isr = "idle" /\ moved' = moved
    BY <1>0, <1>7 DEF StepError, CutMotor, MotorState
  <2> QED
    BY <2>1 DEF StepInv
<1>8. CASE StepBegin
  <2>1. /\ motor'.steps = motor.steps /\ motor.steps > 0 /\ motor'.pin = motor.pin
        /\ moved' = moved /\ motor.isr = "idle"
    BY <1>0, <1>8 DEF StepBegin, MotorState
  <2> QED
    BY <1>1, <2>1 DEF StepInv
<1>9. CASE StepRise
  <2>1. /\ motor'.steps = motor.steps /\ motor'.pin /\ motor'.isr = "raised" /\ motor.isr = "rise"
    BY <1>0, <1>9 DEF StepRise, MotorState
  <2>2. CASE moved' = moved
    <3>1. ~moved.stop => moved.made <= moved.asked - motor.steps + 1
      BY <1>1, <2>1 DEF StepInv
    <3> QED
      BY <1>1, <2>1, <2>2, <3>1 DEF StepInv
  <2>3. CASE ~motor.pin /\ moved' = [moved EXCEPT !.made = Capped(@ + 1, Modulus + 1)]
    <3>1. Capped(moved.made + 1, Modulus + 1) \in Nat
          /\ Capped(moved.made + 1, Modulus + 1) <= moved.made + 1
      <4>1. moved.made + 1 \in Nat /\ Modulus + 1 \in Nat
        BY <1>1
      <4> QED
        BY <4>1, CappedFacts
    <3>2. moved'.stop = moved.stop /\ moved'.asked = moved.asked /\ moved'.made <= moved.made + 1
          /\ moved'.made \in Nat
      BY <1>0, <2>3, <3>1 DEF MoveState
    <3>3. ~moved.stop => motor.steps > 0 /\ moved.made <= moved.asked - motor.steps
      BY <1>1, <2>1, <2>3 DEF StepInv
    <3> QED
      BY <1>1, <2>1, <3>2, <3>3 DEF StepInv
  <2> QED
    BY <1>9, <2>2, <2>3 DEF StepRise
<1>10. CASE StepRest
  <2>0. moved' = moved
    BY <1>10 DEF StepRest
  <2>1. CASE motor.isr = "raised"
    <3>1. motor' = [motor EXCEPT !.high = TRUE, !.isr = "idle"]
      BY <1>10, <2>1 DEF StepRest
    <3>2. motor'.steps = motor.steps /\ motor'.pin = motor.pin /\ motor'.isr = "idle"
      BY <1>0, <3>1 DEF MotorState
    <3> QED
      BY <1>1, <2>0, <2>1, <3>2 DEF StepInv
  <2>2. CASE motor.isr = "fall"
    <3>1. motor' = [motor EXCEPT !.pin = FALSE, !.high = FALSE, !.isr = "count"]
      BY <1>10, <2>2 DEF StepRest
    <3>2. motor'.steps = motor.steps /\ motor'.isr = "count"
      BY <1>0, <3>1 DEF MotorState
    <3>3. ~moved.stop => motor.steps > 0 /\ moved.made <= moved.asked
                         /\ moved.made <= moved.asked - motor.steps + 1
      BY <1>1, <2>2 DEF StepInv
    <3> QED
      BY <1>1, <2>0, <3>2, <3>3 DEF StepInv
  <2>3. CASE motor.isr = "count"
    <3>1. motor' = StepCounted(motor)
      BY <1>10, <2>3 DEF StepRest
    <3>2. motor'.steps = (motor.steps + Modulus - 1) % Modulus /\ motor'.isr = "zero"
          /\ motor'.pin = motor.pin
      BY <1>0, <3>1 DEF StepCounted, MotorState
    <3>3. motor.steps > 0 => motor'.steps = motor.steps - 1
      BY <1>1, <3>2
    <3>4. ~moved.stop => motor.steps > 0 /\ moved.made <= moved.asked
                         /\ moved.made <= moved.asked - motor.steps + 1
      BY <1>1, <2>3 DEF StepInv
    <3> QED
      BY <1>1, <2>0, <3>2, <3>3, <3>4 DEF StepInv
  <2>4. CASE motor.isr \in {"zero", "cut"}
    <3>1. motor'.steps = motor.steps /\ motor'.pin = motor.pin /\ motor'.isr \in {"idle", "cut"}
      BY <1>0, <1>10, <2>4 DEF StepRest, MotorState
    <3> QED
      BY <1>1, <2>0, <2>4, <3>1 DEF StepInv
  <2> QED
    BY <1>10, <2>1, <2>2, <2>3, <2>4 DEF StepRest
<1>11. CASE FanPulse
  BY <1>2, <1>11 DEF FanPulse
<1> QED
  BY <1>3, <1>4, <1>5, <1>6, <1>7, <1>8, <1>9, <1>10, <1>11 DEF Next, Interrupt, WatchdogReset

-----------------------------------------------------------------------------
(* A SAFE_STOP *)

\* After a SAFE_STOP the outputs that are off stay off, and a heater that is on
\* goes off in the next round, at the latest.
LEMMA CalmOfMain ==
    ASSUME TypeOK, PlaceInv, FaultInv, CalmInv, MainStep, ~Round, Onward
    PROVE  CalmInv'
<1>0. /\ UNCHANGED <<board, alive, calm, motor>> /\ tool' = tool /\ Inner
      /\ tool \in HeaterTools /\ DriveAhead /\ pc \notin {"sense", "decide", "check", "drive"}
            => DriveAhead'
  BY MainUntouched DEF Onward, tool
<1>1. pwm \in PwmState /\ heat \in HeatState /\ fan \in FanState
  BY DEF TypeOK
<1>2. (pwm'.out => pwm.out) /\ (fan'.out => fan.out)
  <2>1. pwm'.out => pwm.out
    BY <1>0, MainFaults
  <2>2. Stall \/ Telemetry => (fan'.out => fan.out)
    BY <1>1 DEF Stall, Telemetry, Counted, FanState
  <2>3. pc \in {"stall", "telemetry"} => Stall \/ Telemetry
    BY DEF MainStep, Round, Delay, Sense, Decide, Check, Drive, PwmRead, PwmCompare, PwmTrip,
         HeaterRead, HeaterCompare, HeaterTrip, WeldTick, StrobeStart, StrobeEnd, At
  <2> QED
    BY <2>1, <2>2, <2>3, MainUntouched
<1>3. calm \in Nat /\ alive \in Nat /\ LoopMax \in Nat
  BY WatchNumbers
<1>4. ASSUME heat.target = 0 => heat'.target = 0,
             calm > 0 /\ t12' => tool \in HeaterTools /\ (Within(calm, 1, DriveAhead) \/ StaysAsIs)',
             calm > 0 /\ pc' \in {"check", "drive"} /\ heat'.on =>
               Within(calm, 1, FALSE)' \/ (~board.pid /\ heat'.temp <= Band)
      PROVE  CalmInv'
  BY <1>0, <1>2, <1>4 DEF CalmInv
<1>5. CASE pc = "sense"
  <2>1. PICK reading \in board.temps, valid \in BOOLEAN : Sense(reading, valid)
    BY <1>5, MainUntouched
  <2>2. tool \in HeaterTools /\ After("sense") \notin {"decide", "check", "drive"}
    BY <1>5, SplashRound, LoopRound DEF PlaceInv, Sensing
  <2>3. heat' = [heat EXCEPT !.temp = IF valid THEN reading ELSE heat.temp,
                             !.target = IF @ > MaxTarget THEN 0 ELSE @]
    BY <2>1 DEF Sense
  <2>4. heat'.target \in {heat.target, 0} /\ (valid => heat'.temp = reading)
    BY <1>1, <2>3 DEF HeatState
  <2>5. /\ err' => ~t12'
        /\ t12' => t12
        /\ ~err' => valid /\ pc' = "decide"
        /\ err' => pc' = After("sense")
    BY <2>1 DEF Sense, Step
  <2>6. calm > 0 /\ t12' => (Within(calm, 1, DriveAhead) \/ StaysAsIs)'
    <3>1. DriveAhead /\ (pc' = "decide" => DriveAhead')
      BY <1>5 DEF DriveAhead, SenseAhead
    <3>2. calm > 0 /\ t12' => (Within(calm, 1, DriveAhead) \/ StaysAsIs) /\ pc' = "decide"
      BY <2>5 DEF CalmInv
    <3>3. Within(calm, 1, DriveAhead) /\ pc' = "decide" => Within(calm, 1, DriveAhead)'
      BY <1>0, <3>1 DEF Within
    <3>4. StaysAsIs /\ pc' = "decide" => StaysAsIs'
      BY <1>0 DEF StaysAsIs, Deciding
    <3> QED
      BY <3>2, <3>3, <3>4
  <2>8. pc' \notin {"check", "drive"}
    BY <1>0, <1>5 DEF Inner
  <2> QED
    BY <1>4, <2>2, <2>4, <2>6, <2>8
<1>6. CASE pc = "decide"
  <2>1. Decide /\ tool \in HeaterTools /\ After("sense") \notin {"decide", "check", "drive"}
    BY <1>5, <1>6, MainUntouched, SplashRound, LoopRound DEF PlaceInv, Sensing
  <2>2. heat.temp \in Nat
    BY <1>1, BoardFacts DEF HeatState
  <2>3. CASE Runaway
    <3>1. ~t12' /\ pc' = After("sense") /\ heat' = heat
      BY <2>1, <2>3 DEF Decide, Step
    <3> QED
      BY <1>4, <2>1, <3>1
  <2>4. CASE ~Runaway
    <3>1. PICK on \in HeaterOn : heat' = [OffTimer(heat) EXCEPT !.on = on]
      BY <2>1, <2>4 DEF Decide
    <3>2. pc' = "check" /\ t12' = t12
      BY <2>1, <2>4 DEF Decide, Step
    <3>3. heat'.target = heat.target /\ heat'.temp = heat.temp /\ heat'.on = on
      <4>1. 0 \in Temps /\ heat.temp \in Temps /\ 0 \in 0..(OffLimit + 1)
        BY <1>1, BoardFacts, ConstantFacts DEF HeatState
      <4>2. /\ OffTimer(heat).target = heat.target /\ OffTimer(heat).temp = heat.temp
            /\ OffTimer(heat) \in HeatState
        BY <1>1, <4>1 DEF OffTimer, HeatState
      <4> QED
        BY <3>1, <4>2 DEF HeatState
    \* No target: the heater stays on within the band only
    <3>4. calm > 0 /\ on => ~board.pid /\ heat.temp <= Band
      <4>1. SUFFICES ASSUME calm > 0, on PROVE ~board.pid /\ heat.temp <= Band
        OBVIOUS
      <4>2. heat.target = 0
        BY <4>1 DEF CalmInv
      <4>3. ~board.pid
        BY <3>1, <4>1, <4>2 DEF HeaterOn
      <4>4. ~(heat.temp + Band < 0)
        BY <2>2, ConstantFacts
      <4>5. ~(heat.temp > 0 + Band)
        BY <3>1, <4>1, <4>2, <4>3, <4>4 DEF HeaterOn
      <4> QED
        BY <2>2, <4>3, <4>5, ConstantFacts
    <3>5. calm > 0 /\ t12' => (Within(calm, 1, DriveAhead) \/ StaysAsIs)'
      <4>1. DriveAhead /\ DriveAhead'
        BY <1>6, <3>2 DEF DriveAhead
      <4>2. Within(calm, 1, DriveAhead) => Within(calm, 1, DriveAhead)'
        BY <1>0, <4>1 DEF Within
      <4>3. StaysAsIs => StaysAsIs'
        BY <1>0, <3>2 DEF StaysAsIs, Deciding
      <4> QED
        BY <3>2, <4>2, <4>3 DEF CalmInv
    <3> QED
      BY <1>4, <2>1, <3>3, <3>4, <3>5
  <2> QED
    BY <2>3, <2>4
<1>7. CASE pc = "check"
  <2>1. Check /\ tool \in HeaterTools /\ After("sense") \notin {"decide", "check", "drive"}
    BY <1>7, MainUntouched, SplashRound, LoopRound DEF PlaceInv, Sensing
  <2>3. \/ ~t12' /\ heat' = [heat EXCEPT !.target = 0, !.on = FALSE] /\ pc' = After("sense")
        \/ t12' = t12 /\ heat' = heat /\ pc' = "drive"
    <3>1. t12 \in BOOLEAN
      BY DEF TypeOK
    <3> DEFINE fault == Checked(guard, heat.on, heat.temp, heat.target)[2] # "ok"
    <3>2. /\ t12' = (t12 /\ ~fault)
          /\ heat' = IF fault THEN [heat EXCEPT !.target = 0, !.on = FALSE] ELSE heat
          /\ pc' = IF fault THEN After("sense") ELSE "drive"
      BY <2>1 DEF Check, Step
    <3> HIDE DEF fault
    <3> QED
      BY <3>1, <3>2
  <2>4. CASE ~t12' /\ heat' = [heat EXCEPT !.target = 0, !.on = FALSE] /\ pc' = After("sense")
    <3>1. heat'.target = 0
      BY <1>1, <2>4 DEF HeatState
    <3> QED
      BY <1>4, <2>1, <2>4, <3>1
  <2>5. CASE t12' = t12 /\ heat' = heat /\ pc' = "drive"
    <3>1. DriveAhead /\ DriveAhead'
      BY <1>7, <2>5 DEF DriveAhead
    <3>2. Within(calm, 1, DriveAhead) => Within(calm, 1, DriveAhead)'
      BY <1>0, <3>1 DEF Within
    <3>3. StaysAsIs => StaysAsIs'
      BY <1>0, <2>5 DEF StaysAsIs, Deciding
    <3>4. Within(calm, 1, FALSE) => Within(calm, 1, FALSE)'
      BY <1>0 DEF Within
    <3>5. calm > 0 /\ t12' => (Within(calm, 1, DriveAhead) \/ StaysAsIs)'
      BY <2>5, <3>2, <3>3 DEF CalmInv
    <3>6. calm > 0 /\ heat'.on => Within(calm, 1, FALSE)' \/ (~board.pid /\ heat'.temp <= Band)
      BY <1>7, <2>5, <3>4 DEF CalmInv
    <3> QED
      BY <1>4, <2>1, <2>5, <3>5, <3>6
  <2> QED
    BY <2>3, <2>4, <2>5
<1>8. CASE pc = "drive"
  <2>1. Drive /\ tool \in HeaterTools /\ After("sense") \notin {"decide", "check", "drive"}
    BY <1>8, MainUntouched, SplashRound, LoopRound DEF PlaceInv, Sensing
  <2>2. t12' = heat.on /\ heat' = heat /\ pc' = After("sense")
    BY <2>1 DEF Drive, Step
  <2>3. calm > 0 /\ t12' => Within(calm, 1, FALSE) \/ (~board.pid /\ heat.temp <= Band)
    BY <1>8, <2>2 DEF CalmInv
  <2>4. calm > 0 /\ t12' => (Within(calm, 1, DriveAhead) \/ StaysAsIs)'
    <3>1. Within(calm, 1, FALSE) => Within(calm, 1, DriveAhead)'
      BY <1>0, <1>3 DEF Within
    <3>2. ~board.pid /\ heat.temp <= Band => StaysAsIs'
      BY <1>0, <2>2 DEF StaysAsIs
    <3> QED
      BY <2>3, <3>1, <3>2
  <2> QED
    BY <1>4, <2>1, <2>2, <2>4
<1>9. CASE pc \notin Sensing
  <2>1. pc' \notin {"decide", "check", "drive"}
    BY <1>0, <1>9 DEF Inner, Sensing
  <2>2. heat.target = 0 => heat'.target = 0
    <3>1. HeaterTrip => heat'.target \in {heat.target, 0}
      BY <1>1 DEF HeaterTrip, HeatState
    <3> QED
      BY <1>9, <3>1, MainUntouched DEF Sensing
  <2>3. t12' => t12
    BY <1>9, MainUntouched DEF WeldTick
  <2>4. calm > 0 /\ t12' => tool \in HeaterTools /\ (Within(calm, 1, DriveAhead) \/ StaysAsIs)'
    <3>1. calm > 0 /\ t12' => tool \in HeaterTools /\ (Within(calm, 1, DriveAhead) \/ StaysAsIs)
      BY <2>3 DEF CalmInv
    <3>2. tool \in HeaterTools /\ DriveAhead => DriveAhead'
      BY <1>0, <1>9 DEF Sensing
    <3>3. tool \in HeaterTools /\ Within(calm, 1, DriveAhead) => Within(calm, 1, DriveAhead)'
      BY <1>0, <1>3, <3>2 DEF Within
    <3>4. heat'.temp = heat.temp
      <4>1. HeaterTrip => heat'.temp = heat.temp
        BY <1>1 DEF HeaterTrip, HeatState
      <4> QED
        BY <1>9, <4>1, MainUntouched DEF Sensing
    <3>5. StaysAsIs => StaysAsIs'
      BY <1>0, <1>9, <3>4 DEF StaysAsIs, Deciding, Sensing
    <3> QED
      BY <3>1, <3>3, <3>5
  <2> QED
    BY <1>4, <2>1, <2>2, <2>4
<1> QED
  BY <1>5, <1>6, <1>7, <1>8, <1>9 DEF Sensing

LEMMA CalmKept ==
    ASSUME TypeOK, PlaceInv, FaultInv, CalmInv, Next
    PROVE  CalmInv'
<1>0. pwm \in PwmState /\ heat \in HeatState /\ fan \in FanState /\ motor \in MotorState
  BY DEF TypeOK
<1>1. CASE MainStep /\ Round
  <2>1. /\ UNCHANGED board /\ alive' = 0 /\ pc = "top" /\ tool' = tool /\ Inner
        /\ tool \in HeaterTools => DriveAhead'
    BY <1>1, RoundBegins DEF tool
  <2>2. /\ UNCHANGED <<pwm, heat, t12, fan, motor, calm>> /\ ~DriveAhead
        /\ pc' \notin {"decide", "check", "drive"}
    BY <1>1, <2>1 DEF Round, outputs, ghosts, DriveAhead, SenseAhead, PwmWatch, HeaterWatch, Inner
  <2>3. calm > 0 /\ t12 => tool \in HeaterTools /\ (Within(calm, 1, DriveAhead) \/ StaysAsIs)'
    <3>1. tool \in HeaterTools /\ Within(calm, 1, DriveAhead) => Within(calm, 1, DriveAhead)'
      BY <2>1, <2>2, WatchNumbers DEF Within
    <3>2. StaysAsIs => StaysAsIs'
      BY <2>1, <2>2 DEF StaysAsIs, Deciding
    <3> QED
      BY <3>1, <3>2 DEF CalmInv
  <2> QED
    BY <2>1, <2>2, <2>3 DEF CalmInv
<1>2. CASE MainStep /\ ~Round /\ Onward
  BY <1>2, CalmOfMain
<1>3. CASE Interrupt /\ Effects
  <2>1. /\ UNCHANGED <<board, pc, alive>> /\ tool' = tool /\ DriveAhead' = DriveAhead
        /\ heat'.temp = heat.temp /\ heat'.on = heat.on
        /\ (t12' => t12) \/ tool \notin HeaterTools
    BY <1>3 DEF Effects, tool, DriveAhead, SenseAhead, booting
  <2>2. StaysAsIs' = StaysAsIs
    BY <2>1 DEF StaysAsIs, Deciding
  <2>3. CASE calm' = 0
    BY <2>3 DEF CalmInv
  <2>4. CASE calm' = 1 /\ SafeStop
    <3>1. board.multi /\ ~t12'
      BY <2>4 DEF SafeStop, SafeState
    <3>2. heat'.target = 0
      BY <1>0, <2>4 DEF SafeStop, SafeState, HeatState
    <3>3. ~pwm'.out
      BY <1>0, <2>4 DEF SafeStop, SafeState, PwmState
    <3>4. ~fan'.out
      BY <1>0, <2>4 DEF SafeStop, SafeState, FanState
    <3>5. tool # "CRIMPING_ACTUATOR" => ~motor'.driver
      BY <1>0, <2>4 DEF SafeStop, SafeState, MotorState
    <3>6. Within(calm, 1, FALSE)'
      BY <2>1, <2>4, WatchNumbers DEF Within
    <3> QED
      BY <2>1, <2>2, <2>4, <3>1, <3>2, <3>3, <3>4, <3>5, <3>6 DEF CalmInv
  <2>5. CASE /\ calm' = calm /\ heat' = heat /\ t12' = t12
             /\ (pwm'.out => pwm.out) /\ (fan'.out => fan.out)
    <3>1. CASE calm = 0
      BY <2>3, <2>5, <3>1
    <3>2. CASE calm # 0
      <4>1. motor'.driver => motor.driver
        <5>1. \/ SafeStop \/ Restart \/ StepError \/ StepBegin \/ StepRise \/ StepRest
              \/ UNCHANGED motor
          BY <1>3, <2>5, <3>2
          DEF Interrupt, Frame, Laser, Drill, UVCuring, Electromagnet, PrinterLayerFan,
              PrinterHotendFan, SolderingIron, HotAirRework, Motion, PrinterThermalMotion,
              WeldPulse, AOI, EnterBootloader, FanPulse
        <5>2. SafeStop => (motor'.driver => motor.driver)
          BY <1>0 DEF SafeStop, SafeState, MotorState
        <5>3. Restart => ~motor'.driver
          BY DEF Restart, Initial
        <5>4. StepError \/ StepBegin \/ StepRise => (motor'.driver => motor.driver)
          BY <1>0 DEF StepError, CutMotor, StepBegin, StepRise, MotorState
        <5>5. StepRest => (motor'.driver => motor.driver)
          BY <1>0 DEF StepRest, StepCounted, MotorState
        <5> QED
          BY <5>1, <5>2, <5>3, <5>4, <5>5
      <4> QED
        BY <2>1, <2>2, <2>5, <4>1 DEF CalmInv, Within
    <3> QED
      BY <3>1, <3>2
  <2> QED
    BY <1>3, <2>3, <2>4, <2>5 DEF Effects
<1>4. CASE Tick
  <2>1. /\ UNCHANGED <<board, pc, t12, motor>> /\ tool' = tool /\ DriveAhead' = DriveAhead
        /\ alive' = alive + 1 /\ calm' <= calm + 1 /\ (calm = 0 => calm' = 0) /\ calm' \in Nat
        /\ pwm'.out = pwm.out /\ fan'.out = fan.out
        /\ heat'.target = heat.target /\ heat'.temp = heat.temp /\ heat'.on = heat.on
    BY <1>4, TickEffects DEF tool, DriveAhead, SenseAhead, booting
  <2>2. calm' > 0 => calm > 0
    BY <2>1, WatchNumbers
  <2>3. Within(calm, 1, DriveAhead) => Within(calm, 1, DriveAhead)'
    BY <2>1, WatchNumbers DEF Within
  <2>4. Within(calm, 1, FALSE) => Within(calm, 1, FALSE)'
    BY <2>1, WatchNumbers DEF Within
  <2>5. StaysAsIs' = StaysAsIs
    BY <2>1 DEF StaysAsIs, Deciding
  <2> QED
    BY <2>1, <2>2, <2>3, <2>4, <2>5 DEF CalmInv
<1>5. CASE Restart
  BY <1>5 DEF Restart, Initial, CalmInv
<1> QED
  BY <1>1, <1>2, <1>3, <1>4, <1>5, NextKinds, InterruptEffects

-----------------------------------------------------------------------------
(* The invariant, and what follows from it *)

LEMMA InitAppInv == Init => AppInv
<1> SUFFICES ASSUME Init PROVE AppInv
  OBVIOUS
<1>1. PlaceInv
  BY DEF Init, PlaceInv, Sensing, HeaterWatch, PwmWatch
<1>2. PwmInv /\ HeatInv /\ WeldInv /\ StrobeInv
  BY DEF Init, Initial, PwmInv, HeatInv, WeldInv, StrobeInv
<1>3. FaultInv /\ StepInv /\ CalmInv
  BY DEF Init, Initial, FaultInv, StepInv, CalmInv
<1> QED
  BY <1>1, <1>2, <1>3, InitTypes DEF AppInv

LEMMA AppInvKept == AppInv /\ [Next]_vars => AppInv'
<1> SUFFICES ASSUME AppInv, [Next]_vars PROVE AppInv'
  OBVIOUS
<1>1. CASE Next
  <2>1. TypeOK' /\ PlaceInv'
    BY <1>1, NextTypes, PlaceKept DEF AppInv
  <2>2. PwmInv' /\ HeatInv' /\ WeldInv' /\ StrobeInv'
    BY <1>1, PwmKept, HeatKept, WeldKept, StrobeKept DEF AppInv
  <2>3. FaultInv' /\ StepInv'
    BY <1>1, FaultKept, StepKept DEF AppInv
  <2>4. CalmInv'
    BY <1>1, CalmKept DEF AppInv
  <2> QED
    BY <2>1, <2>2, <2>3, <2>4 DEF AppInv
<1>2. CASE UNCHANGED vars
  BY <1>2 DEF vars, env, ghosts, AppInv, TypeOK, PlaceInv, PwmInv, HeatInv, WeldInv, StrobeInv,
       FaultInv, StepInv, CalmInv, StaysAsIs, Deciding, Within, PwmAhead, HeaterAhead, WeldAhead,
       StrobeAhead, SenseAhead, DriveAhead, tool, booting, Limit, Temps, PwmState, HeatState,
       KickMax
<1> QED
  BY <1>1, <1>2

\* The invariant of AppInv holds of every head, whatever its limits and whatever
\* the host sends (the main loop, its interrupts and its resets).
THEOREM AppInvariance == Spec => []AppInv
  BY InitAppInv, AppInvKept, PTL DEF Spec

\* Nothing outlasts what was asked for, for every limit: the watchdogs, the
\* weld pulse and the strobe end what they time within two rounds.
THEOREM OutputsBounded == Spec => []OutputsAreBounded
<1>1. AppInv => OutputsAreBounded
  <2> SUFFICES ASSUME AppInv PROVE OutputsAreBounded
    OBVIOUS
  <2>1. TypeOK
    BY DEF AppInv
  <2>2. Rounds(2) = LoopMax + LoopMax
    BY ConstantFacts
  <2>3. pwm.cmd => pwm.kick <= Limit + Rounds(2)
    BY <2>1, <2>2, WatchNumbers DEF AppInv, PwmInv, Within
  <2>4. tool \in HeaterTools /\ heat.target > 0 => heat.kick <= ShortLimit + Rounds(2)
    BY <2>1, <2>2, WatchNumbers DEF AppInv, HeatInv, Within
  <2>5. tool \in WelderTools /\ t12 => weld.age <= PulseCeiling + Rounds(2)
    BY <2>1, <2>2, WatchNumbers DEF AppInv, WeldInv, Within
  <2>6. strobe.active => strobe.lit <= PeriodCeiling + Rounds(2)
    BY <2>1, <2>2, WatchNumbers, ConstantFacts DEF AppInv, StrobeInv, Within
  <2> QED
    BY <2>3, <2>4, <2>5, <2>6 DEF OutputsAreBounded
<1> QED
  BY <1>1, AppInvariance, PTL

\* A fault stops what moves, burns and heats within two rounds (the step
\* interrupt cuts in every period, the heater goes off with the next reading).
THEOREM FaultQuiets == Spec => []ErrorQuiets
<1>1. AppInv => ErrorQuiets
  <2> SUFFICES ASSUME AppInv, errAge > Rounds(2)
               PROVE  /\ ~pwm.out /\ motor.steps = 0 /\ ~motor.driver /\ ~pwm.pin
                      /\ tool \in HeaterTools => ~t12
    BY DEF ErrorQuiets
  <2>1. TypeOK /\ FaultInv
    BY DEF AppInv
  <2>2. Rounds(2) = LoopMax + LoopMax
    BY ConstantFacts
  <2>3. errAge > 0 /\ err
    <3>1. err \in BOOLEAN
      BY <2>1 DEF TypeOK
    <3> QED
      BY <2>1, <2>2, <3>1, WatchNumbers DEF FaultInv
  <2>4. tool \in HeaterTools => ~t12
    BY <2>1, <2>2, <2>3, WatchNumbers DEF FaultInv, Within
  <2> QED
    BY <2>1, <2>3, <2>4 DEF FaultInv
<1> QED
  BY <1>1, AppInvariance, PTL

\* Under a fault that stays nothing starts again, whatever frame, interrupt or
\* step of the main loop comes (the gate on system_error_flag and the cut of
\* the step interrupt).
THEOREM NothingStarts == Spec => NothingStartsUnderError
<1> DEFINE Quiet ==
      err /\ err' => /\ pwm'.out => pwm.out
                     /\ t12' => t12
                     /\ motor'.steps <= motor.steps /\ (motor'.driver => motor.driver)
<1>1. AppInv /\ [Next]_vars => Quiet
  <2> SUFFICES ASSUME AppInv, [Next]_vars, err, err' PROVE Quiet
    OBVIOUS
  <2>1. TypeOK /\ FaultInv /\ PlaceInv /\ motor.steps \in Nat
    <3>1. motor \in MotorState
      BY DEF AppInv, TypeOK
    <3>2. motor.steps \in Nat
      BY <3>1, ConstantFacts DEF MotorState
    <3> QED
      BY <3>2 DEF AppInv
  <2>2. CASE MainStep
    <3>1. Inner
      BY <2>1, <2>2, RoundBegins, MainGoesOnward DEF Onward
    <3>2. pwm'.out => pwm.out
      BY <2>1, <2>2, <3>1, MainFaults
    <3>3. t12' => t12
      <4>1. CASE pc \in Sensing
        BY <2>1, <2>2, <3>1, <4>1, MainFaults DEF PlaceInv
      <4>2. CASE pc \notin Sensing
        BY <2>2, <4>2, MainUntouched DEF WeldTick
      <4> QED
        BY <4>1, <4>2
    <3> QED
      BY <2>1, <2>2, <3>2, <3>3, MainUntouched
  <2>3. CASE Interrupt
    <3>1. ~Restart
      BY DEF Restart
    <3>2. /\ motor'.steps \in {motor.steps, 0} /\ (motor'.driver => motor.driver)
          /\ (pwm'.out => pwm.out) /\ (t12' => t12)
      BY <2>1, <2>3, <3>1, InterruptUnderError
    <3> QED
      BY <2>1, <3>2
  <2>4. CASE Tick
    BY <2>1, <2>4, TickEffects
  <2>5. CASE WatchdogReset
    BY <2>5 DEF WatchdogReset, Restart
  <2>6. CASE UNCHANGED vars
    BY <2>1, <2>6 DEF vars
  <2> QED
    BY <2>2, <2>3, <2>4, <2>5, <2>6 DEF Next
<1>2. AppInv /\ [Next]_vars => [Quiet]_vars
  BY <1>1
<1> QED
  BY <1>2, AppInvariance, PTL DEF Spec, NothingStartsUnderError

\* The motor never makes more steps than the last move asked for, for every
\* number of steps and however the frames cross the step interrupt.
THEOREM StepsAreAsked == Spec => []NoStepBeyondCommand
<1>1. AppInv => NoStepBeyondCommand
  BY DEF AppInv, StepInv, NoStepBeyondCommand
<1> QED
  BY <1>1, AppInvariance, PTL

\* After a SAFE_STOP the outputs go off and stay off, on every head: but for the
\* driver of a crimping head on an expansion, which MultiNode_PlatformSafeState
\* does not cut, and for a heater that is on and read within the band around
\* zero, which stays on while it is.
THEOREM StopHolds == Spec => []SafeStopHolds
<1>1. AppInv => SafeStopHolds
  <2> SUFFICES ASSUME AppInv, calm > 1 + Rounds(2)
               PROVE  /\ ~pwm.out /\ ~fan.out
                      /\ motor.driver => tool = "CRIMPING_ACTUATOR"
                      /\ t12 => tool \in HeaterTools /\ StaysAsIs
    BY DEF SafeStopHolds
  <2>1. CalmInv
    BY DEF AppInv
  <2>2. Rounds(2) = LoopMax + LoopMax /\ TypeOK
    BY ConstantFacts DEF AppInv
  <2>3. calm > 0 /\ ~Within(calm, 1, DriveAhead)
    BY <2>2, WatchNumbers DEF Within
  <2> QED
    BY <2>1, <2>3 DEF CalmInv
<1> QED
  BY <1>1, AppInvariance, PTL

-----------------------------------------------------------------------------
(* A sensor that stays silent: what the guard and the stall detector time *)

\* The times that the guard and the detector are given.
LEMMA SensorConstants ==
    /\ WatchPeriod \in Nat \ {0} /\ HoldPeriod \in Nat \ {0} /\ WatchMinRise \in Nat \ {0}
    /\ WatchBand \in Nat /\ HoldHysteresis \in Nat /\ MaxTemp \in Nat
    /\ StallLimit \in Nat \ {0} /\ ScreenPeriod \in Nat \ {0} /\ LoopMax \in Nat \ {0}
    /\ Rounds(2) = LoopMax + LoopMax /\ Rounds(2) \in Nat
    /\ Rounds(4) = Rounds(2) + Rounds(2)
    /\ LastCounted \in Nat /\ SilenceKnown = LastCounted + ScreenPeriod + Rounds(2)
    /\ SilenceKnown \in Nat
<1>1. /\ WatchPeriod \in Nat \ {0} /\ HoldPeriod \in Nat \ {0} /\ WatchMinRise \in Nat \ {0}
      /\ WatchBand \in Nat /\ HoldHysteresis \in Nat /\ MaxTemp \in Nat
      /\ StallLimit \in Nat \ {0} /\ ScreenPeriod \in Nat \ {0} /\ LoopMax \in Nat \ {0}
      /\ SplashRounds \in Nat
  BY AppAssumption, GuardAssumption
<1>2. Rounds(2) = LoopMax + LoopMax /\ Rounds(2) \in Nat /\ Rounds(4) = Rounds(2) + Rounds(2)
  BY <1>1 DEF Rounds
<1>3. Rounds(SplashRounds + 2) \in Nat
  BY <1>1 DEF Rounds
<1>4. LastCounted \in Nat
  BY <1>1, <1>3 DEF LastCounted
<1> QED
  BY <1>1, <1>2, <1>4 DEF SilenceKnown

\* The rounds of the splash, one by one.
LEMMA SplashTime ==
    ASSUME NEW n \in 0..SplashRounds
    PROVE  /\ Rounds(SplashRounds - n) \in Nat
           /\ Rounds(SplashRounds - n) <= Rounds(SplashRounds)
           /\ n > 0 => Rounds(SplashRounds - (n - 1)) = Rounds(SplashRounds - n) + LoopMax
           /\ Rounds(SplashRounds + 2) = Rounds(SplashRounds) + Rounds(2)
           /\ Rounds(SplashRounds + 6) = Rounds(SplashRounds + 2) + Rounds(4)
           /\ Rounds(SplashRounds) \in Nat
<1>1. SplashRounds \in Nat /\ LoopMax \in Nat /\ n \in Nat /\ n <= SplashRounds
  BY AppAssumption
<1>2. PICK m \in Nat : m = SplashRounds - n /\ SplashRounds = m + n
  BY <1>1
<1>3. /\ \A k \in Nat : k * LoopMax \in Nat
      /\ \A k, l \in Nat : (k + l) * LoopMax = k * LoopMax + l * LoopMax
  BY <1>1
<1>4. /\ SplashRounds * LoopMax = m * LoopMax + n * LoopMax /\ n * LoopMax \in Nat
      /\ m * LoopMax \in Nat
  BY <1>1, <1>2, <1>3
<1>5. n > 0 => SplashRounds - (n - 1) = m + 1 /\ (m + 1) * LoopMax = m * LoopMax + LoopMax
  BY <1>1, <1>2, <1>3
<1>6. /\ (SplashRounds + 2) * LoopMax = SplashRounds * LoopMax + 2 * LoopMax
      /\ (SplashRounds + 6) * LoopMax = (SplashRounds + 2) * LoopMax + 4 * LoopMax
      /\ SplashRounds * LoopMax \in Nat
  BY <1>1, <1>3
<1> QED
  BY <1>2, <1>4, <1>5, <1>6 DEF Rounds

\* A silence that has just begun is timed by whatever stands.
LEMMA SilenceBegins ==
    ASSUME NEW T, T \subseteq Nat, NEW g \in Guard(T), NEW temp, NEW target, NEW slack \in Nat
    PROVE  SilenceIsTimed(g, temp, target, 0, slack)
<1>1. g.watch \in Nat /\ g.sag \in Nat
  BY SensorConstants DEF Guard
<1>2. Begun(g, temp) \in Nat
  BY SensorConstants DEF Begun
<1> QED
  BY <1>1, <1>2, SensorConstants DEF SilenceIsTimed

\* What is timed stays timed while the slack does not shrink.
LEMMA SilenceWaits ==
    ASSUME NEW T, T \subseteq Nat, NEW g \in Guard(T), NEW temp, NEW target, NEW age \in Nat,
           NEW slack \in Nat, NEW later \in Nat, slack <= later,
           SilenceIsTimed(g, temp, target, age, slack)
    PROVE  SilenceIsTimed(g, temp, target, age, later)
<1>1. Begun(g, temp) \in Nat
  BY SensorConstants DEF Begun
<1> QED
  BY <1>1, SensorConstants DEF SilenceIsTimed

\* A tick makes the silence, its window and the slack a tick older.
LEMMA SilenceAges ==
    ASSUME NEW T, T \subseteq Nat, NEW g \in Guard(T), NEW temp, NEW target, NEW age \in Nat,
           NEW slack \in Nat, SilenceIsTimed(g, temp, target, age, slack),
           NEW older \in Nat, older <= age + 1
    PROVE  SilenceIsTimed(Aging(g), temp, target, older, slack + 1)
<1>1. g.watch \in 0..WatchPeriod /\ g.sag \in 0..HoldPeriod
  BY DEF Guard
<1>2. /\ Aging(g).target = g.target /\ Aging(g).reached = g.reached /\ Aging(g).base = g.base
      /\ Aging(g).watching = g.watching /\ Aging(g).sagging = g.sagging
      /\ Aging(g).watch = IF g.watching THEN Capped(g.watch + 1, WatchPeriod) ELSE 0
      /\ Aging(g).sag = IF g.sagging THEN Capped(g.sag + 1, HoldPeriod) ELSE 0
  BY DEF Aging, Guard
<1>3. /\ Begun(Aging(g), temp) = Begun(g, temp) /\ Begun(g, temp) \in Nat
      /\ Watches(Aging(g), temp, target) <=> Watches(g, temp, target)
      /\ Times(Aging(g), target) <=> Times(g, target)
  BY <1>2, SensorConstants DEF Begun, Watches, Times, FarBelow
<1>4. Watches(g, temp, target) => g.watching
  BY DEF Watches
<1>5. Times(g, target) => g.sagging
  BY DEF Times
<1>6. ASSUME Watches(g, temp, target)
      PROVE  /\ Aging(g).watch < WatchPeriod => older <= Begun(g, temp) + Aging(g).watch
             /\ older <= Begun(g, temp) + WatchPeriod + slack + 1
  <2>1. Aging(g).watch = Capped(g.watch + 1, WatchPeriod)
    BY <1>2, <1>4, <1>6
  <2>2. Aging(g).watch < WatchPeriod => Aging(g).watch = g.watch + 1 /\ g.watch < WatchPeriod
    BY <1>1, <2>1, SensorConstants DEF Capped
  <2>3. /\ g.watch < WatchPeriod => age <= Begun(g, temp) + g.watch
        /\ age <= Begun(g, temp) + WatchPeriod + slack
    BY <1>6 DEF SilenceIsTimed
  <2> QED
    BY <1>1, <1>3, <2>2, <2>3, SensorConstants
<1>7. ASSUME Times(g, target)
      PROVE  /\ Aging(g).sag < HoldPeriod => older <= Rounds(2) + Aging(g).sag
             /\ older <= Rounds(2) + HoldPeriod + slack + 1
  <2>1. Aging(g).sag = Capped(g.sag + 1, HoldPeriod)
    BY <1>2, <1>5, <1>7
  <2>2. Aging(g).sag < HoldPeriod => Aging(g).sag = g.sag + 1 /\ g.sag < HoldPeriod
    BY <1>1, <2>1, SensorConstants DEF Capped
  <2>3. /\ g.sag < HoldPeriod => age <= Rounds(2) + g.sag
        /\ age <= Rounds(2) + HoldPeriod + slack
    BY <1>7 DEF SilenceIsTimed
  <2> QED
    BY <1>1, <2>2, <2>3, SensorConstants
<1>8. ~Watches(g, temp, target) /\ ~Times(g, target) => older <= slack + 1
  BY DEF SilenceIsTimed
<1> QED
  BY <1>3, <1>6, <1>7, <1>8, SensorConstants DEF SilenceIsTimed

\* A silence that is timed is shorter than the guard needs and two rounds twice.
LEMMA SilenceIsBounded ==
    ASSUME NEW T, T \subseteq Nat, NEW g \in Guard(T), NEW temp, NEW target, NEW age \in Nat,
           NEW slack \in Nat, slack <= Rounds(2), SilenceIsTimed(g, temp, target, age, slack)
    PROVE  age <= GuardDelay + Rounds(4)
<1>1. /\ Begun(g, temp) \in Nat /\ Begun(g, temp) <= WatchPeriod + Rounds(2)
  BY SensorConstants DEF Begun
<1>2. GuardDelay >= 2 * WatchPeriod /\ GuardDelay >= HoldPeriod /\ GuardDelay \in Nat
  BY SensorConstants DEF GuardDelay
<1>3. CASE Watches(g, temp, target)
  BY <1>1, <1>2, <1>3, SensorConstants DEF SilenceIsTimed
<1>4. CASE Times(g, target)
  BY <1>2, <1>4, SensorConstants DEF SilenceIsTimed
<1>5. CASE ~Watches(g, temp, target) /\ ~Times(g, target)
  BY <1>2, <1>5, SensorConstants DEF SilenceIsTimed
<1> QED
  BY <1>3, <1>4, <1>5

LEMMA GuardFacts ==
    ASSUME NEW T, NEW g \in Guard(T)
    PROVE  /\ g.watch \in 0..WatchPeriod /\ g.sag \in 0..HoldPeriod /\ g.base \in T /\ g.target \in T
           /\ g.watch \in Nat /\ g.sag \in Nat
           /\ g.watching \in BOOLEAN /\ g.reached \in BOOLEAN /\ g.sagging \in BOOLEAN
<1>1. /\ g.watch \in 0..WatchPeriod /\ g.sag \in 0..HoldPeriod /\ g.base \in T /\ g.target \in T
      /\ g.watching \in BOOLEAN /\ g.reached \in BOOLEAN /\ g.sagging \in BOOLEAN
  BY DEF Guard
<1> QED
  BY <1>1, SensorConstants

\* ThermalGuard_Check has looked at a heater that is on: it times the silence
\* from then on, or has reported it.
LEMMA SilenceChecked ==
    ASSUME NEW T, T \subseteq Nat, NEW g \in Guard(T), NEW temp \in T, NEW target \in T,
           0 \in T, temp + HoldHysteresis < target,
           NEW age \in Nat, NEW slack \in Nat, slack <= Rounds(2),
           SilenceIsTimed(g, temp, target, age, slack),
           Checked(g, TRUE, temp, target)[2] = "ok"
    PROVE  SilenceIsTimed(Checked(g, TRUE, temp, target)[1], temp, target, age, 0)
<1> DEFINE t == Retargeted(g, target)
           r == Reaching(t, temp)
           w == Watching(r, TRUE, temp)
           h == Holding(w, TRUE, temp)
           c == Checked(g, TRUE, temp, target)
<1>0. /\ temp \in Nat /\ target \in Nat /\ target # 0
      /\ g.watch \in 0..WatchPeriod /\ g.sag \in 0..HoldPeriod /\ g.base \in Nat /\ g.target \in Nat
      /\ g.watching \in BOOLEAN /\ g.reached \in BOOLEAN /\ g.sagging \in BOOLEAN
  <2>1. g.base \in T /\ g.target \in T
    BY GuardFacts
  <2>2. temp \in Nat /\ target \in Nat /\ target # 0
    BY SensorConstants
  <2> QED
    BY <2>1, <2>2, GuardFacts
<1>1. t \in Guard(T)
  BY CheckedTypes
<1>2. /\ t.target = target /\ t.watch \in Nat /\ t.sag \in Nat /\ t.base \in Nat
      /\ t.reached \in BOOLEAN
      /\ g.target = target => t = g
      /\ g.target # target => ~t.reached /\ ~t.watching /\ t.sag = 0
  <2>1. t.watch \in Nat /\ t.sag \in Nat /\ t.base \in T /\ t.reached \in BOOLEAN
    BY <1>1, GuardFacts
  <2>2. g.target # target => /\ t.target = target /\ ~t.reached /\ ~t.watching /\ t.sag = 0
    BY DEF Retargeted, GuardReset
  <2>3. g.target = target => t = g /\ t.target = target
    BY DEF Retargeted
  <2>4. t.base \in Nat
    BY <2>1
  <2> QED
    BY <2>1, <2>2, <2>3, <2>4
<1>10. c[2] = "ok"
  OBVIOUS
<1>3. /\ ~NoRise(r, TRUE, temp) /\ ~Dropped(w, TRUE, temp)
      /\ c = <<h, "ok">>
  <2>1. CASE temp > MaxTemp
    <3>1. c = <<g, "maxTemp">>
      BY <1>0, <2>1, SensorConstants DEF Checked
    <3> HIDE DEF c, h, w, r, t
    <3> QED
      BY <1>10, <3>1
  <2>2. CASE temp <= MaxTemp
    <3>1. c =
            IF NoRise(r, TRUE, temp) THEN <<r, "noRise">>
            ELSE IF Dropped(w, TRUE, temp) THEN <<w, "dropped">> ELSE <<h, "ok">>
      BY <1>0, <2>2, SensorConstants DEF Checked
    <3> HIDE DEF c, h, w, r, t
    <3> QED
      BY <1>10, <3>1
  <2>3. temp > MaxTemp \/ temp <= MaxTemp
    BY <1>0, SensorConstants
  <2> QED
    BY <2>1, <2>2, <2>3
<1>8. r = Reaching(t, temp) /\ w = Watching(r, TRUE, temp) /\ h = Holding(w, TRUE, temp)
  OBVIOUS
<1>9. 0 \in 0..WatchPeriod
  BY SensorConstants
<1> HIDE DEF t, r, w, h, c
<1>11. c[1] = h
  BY <1>3
<1> SUFFICES SilenceIsTimed(h, temp, target, age, 0)
  BY <1>11 DEF c
<1>4. ASSUME NEW s \in Guard(T), s.target = target, s.reached, ~Dropped(s, TRUE, temp),
             Times(g, target) => s.sag = g.sag /\ s.sagging,
             ~Watches(g, temp, target)
      PROVE  SilenceIsTimed(Holding(s, TRUE, temp), temp, target, age, 0)
  <2> DEFINE k == Holding(s, TRUE, temp)
  <2>1. k = [s EXCEPT !.sagging = TRUE]
    BY <1>0, <1>4, SensorConstants DEF Holding, Sagging
  <2>2. k.target = target /\ k.reached /\ k.sagging /\ k.sag = s.sag
    BY <1>4, <2>1 DEF Guard
  <2>3. ~Watches(k, temp, target) /\ Times(k, target)
    BY <2>2 DEF Watches, Times
  <2>4. s.sag \in 0..HoldPeriod
    BY DEF Guard
  <2>5. age <= Rounds(2) + s.sag
    <3>1. CASE Times(g, target)
      <4>1. s.sag = g.sag /\ s.sagging
        BY <1>4, <3>1
      <4>2. g.sag < HoldPeriod
        BY <1>0, <1>4, <4>1, SensorConstants DEF Dropped, Sagging
      <4> QED
        BY <3>1, <4>1, <4>2 DEF SilenceIsTimed
    <3>2. CASE ~Times(g, target)
      BY <1>4, <2>4, <3>2, SensorConstants DEF SilenceIsTimed
    <3> QED
      BY <3>1, <3>2
  <2> HIDE DEF k
  <2>6. SilenceIsTimed(k, temp, target, age, 0)
    BY <2>2, <2>3, <2>4, <2>5, SensorConstants DEF SilenceIsTimed
  <2> QED
    BY <2>6 DEF k
<1>5. CASE ~FarBelow(t, temp)
  <2> DEFINE s == [Unwatched(t) EXCEPT !.reached = TRUE]
  <2>1. r = s
    BY <1>8, <1>5 DEF Reaching
  <2>2. /\ s \in Guard(T) /\ s.target = target /\ s.reached /\ s.sag = t.sag
        /\ s.sagging = t.sagging
    BY <1>1, <1>2, <1>9 DEF Unwatched, Guard
  <2>3. w = s
    BY <1>8, <2>1, <2>2 DEF Watching
  <2>4. ~Watches(g, temp, target)
    BY <1>2, <1>5 DEF Watches
  <2>5. Times(g, target) => s.sag = g.sag /\ s.sagging
    BY <1>2, <2>2 DEF Times
  <2>6. SilenceIsTimed(Holding(s, TRUE, temp), temp, target, age, 0)
    BY <1>3, <1>4, <2>2, <2>3, <2>4, <2>5
  <2> QED
    BY <1>8, <2>3, <2>6
<1>6. CASE FarBelow(t, temp) /\ t.reached
  <2>1. r = t /\ w = t
    BY <1>8, <1>6 DEF Reaching, Watching
  <2>2. g.target = target /\ t = g
    BY <1>2, <1>6
  <2>3. ~Watches(g, temp, target) /\ (Times(g, target) => t.sag = g.sag /\ t.sagging)
    BY <1>6, <2>2 DEF Watches, Times
  <2>4. SilenceIsTimed(Holding(t, TRUE, temp), temp, target, age, 0)
    BY <1>1, <1>2, <1>3, <1>4, <1>6, <2>1, <2>3
  <2> QED
    BY <1>8, <2>1, <2>4
<1>7. CASE FarBelow(t, temp) /\ ~t.reached
  <2>1. r = t
    BY <1>8, <1>7 DEF Reaching
  <2>2. ~Times(g, target)
    BY <1>2, <1>7 DEF Times
  <2>3. CASE t.watching /\ t.watch < WatchPeriod
    <3>1. w = t /\ g.target = target /\ t = g
      BY <1>8, <1>2, <1>7, <2>1, <2>3 DEF Watching
    <3>2. h = g
      BY <1>8, <1>7, <3>1 DEF Holding
    <3>3. Watches(g, temp, target) /\ g.watch < WatchPeriod
      BY <1>7, <2>3, <3>1 DEF Watches
    <3>4. Begun(g, temp) \in Nat
      BY SensorConstants DEF Begun
    <3>5. SilenceIsTimed(g, temp, target, age, 0)
      BY <1>0, <2>2, <3>3, <3>4, SensorConstants DEF SilenceIsTimed
    <3> QED
      BY <3>2, <3>5
  <2>4. CASE ~(t.watching /\ t.watch < WatchPeriod)
    <3> DEFINE s == [t EXCEPT !.watching = TRUE, !.watch = 0, !.base = temp]
    <3>1. w = s
      BY <1>8, <1>7, <2>1, <2>4 DEF Watching
    <3>2. /\ s.target = target /\ ~s.reached /\ s.watching /\ s.watch = 0 /\ s.base = temp
      BY <1>1, <1>2, <1>7 DEF Guard
    <3>3. h = s
      BY <1>8, <3>1, <3>2 DEF Holding
    <3>4. Begun(s, temp) = WatchPeriod + Rounds(2)
      BY <1>0, <3>2, SensorConstants DEF Begun
    <3>5. ~Times(s, target)
      BY <3>2 DEF Times
    <3>6. age <= WatchPeriod + Rounds(2)
      <4>1. CASE Watches(g, temp, target)
        <5>1. t = g /\ g.watching
          BY <1>2, <4>1 DEF Watches
        <5>2. g.watch >= WatchPeriod
          BY <1>0, <2>4, <5>1, SensorConstants
        <5>3. ~(temp < g.base + WatchMinRise)
          BY <1>3, <1>7, <2>1, <5>1, <5>2 DEF NoRise
        <5>4. Begun(g, temp) = 0
          BY <5>3 DEF Begun
        <5> QED
          BY <4>1, <5>4, SensorConstants DEF SilenceIsTimed
      <4>2. CASE ~Watches(g, temp, target)
        BY <2>2, <4>2, SensorConstants DEF SilenceIsTimed
      <4> QED
        BY <4>1, <4>2
    <3> HIDE DEF s
    <3>7. SilenceIsTimed(s, temp, target, age, 0)
      <4>1. FarBelow(s, temp)
        BY <1>2, <1>7, <3>2 DEF FarBelow
      <4>2. Watches(s, temp, target)
        BY <3>2, <4>1 DEF Watches
      <4> QED
        BY <3>2, <3>4, <3>5, <3>6, <4>2, SensorConstants DEF SilenceIsTimed
    <3> QED
      BY <3>3, <3>7
  <2> QED
    BY <2>3, <2>4
<1> QED
  BY <1>5, <1>6, <1>7

LEMMA SensorNumbers ==
    ASSUME TypeOK
    PROVE  /\ cold \in Nat /\ still \in Nat /\ alive \in Nat /\ alive <= LoopMax
           /\ screen \in 0..ScreenPeriod /\ splash \in 0..SplashRounds
           /\ guard \in Guard(Temps) /\ Temps \subseteq Nat /\ 0 \in Temps
           /\ heat.temp \in Temps /\ heat.target \in Temps /\ heat.on \in BOOLEAN
           /\ fan \in FanState
<1>1. /\ cold \in 0..ColdMax /\ still \in 0..StillMax /\ alive \in 0..LoopMax
      /\ screen \in 0..ScreenPeriod /\ splash \in 0..SplashRounds
      /\ guard \in Guard(Temps) /\ heat \in HeatState /\ fan \in FanState
  BY DEF TypeOK
<1>2. heat.temp \in Temps /\ heat.target \in Temps /\ heat.on \in BOOLEAN
  BY <1>1 DEF HeatState
<1>3. cold \in Nat /\ still \in Nat /\ alive \in Nat /\ alive <= LoopMax
  BY <1>1, ConstantFacts
<1> QED
  BY <1>1, <1>2, <1>3, BoardFacts

LEMMA SlackFacts ==
    ASSUME TypeOK
    PROVE  /\ Slack(CheckAhead) \in Nat /\ Slack(CheckAhead) <= Rounds(2)
           /\ Slack(StallAhead) \in Nat /\ Slack(StallAhead) <= Rounds(2)
           /\ Slack(TelemetryAhead) \in Nat /\ Slack(TelemetryAhead) <= Rounds(2)
<1>1. alive \in Nat /\ alive <= LoopMax
  BY SensorNumbers
<1>2. /\ Slack(CheckAhead) \in {alive, alive + LoopMax}
      /\ Slack(StallAhead) \in {alive, alive + LoopMax}
      /\ Slack(TelemetryAhead) \in {alive, alive + LoopMax}
  BY <1>1, SensorConstants DEF Slack
<1> QED
  BY <1>1, <1>2, SensorConstants

\* What the steps of the main loop do to the sensors.
LEMMA MainSensors ==
    ASSUME MainStep
    PROVE  /\ still' = still /\ (err => err')
           /\ pc = "check" \/ guard' = guard
           /\ pc \in {"sense", "decide", "check", "heaterZero"} \/ (cold' = cold /\ heat' = heat)
           /\ pc \in {"stall", "telemetry"} \/ fan' = fan
           /\ pc = "telemetry" \/ screen' = screen
           /\ pc = "stall" => Stall
           /\ pc = "telemetry" => Telemetry
           /\ pc = "delay" => Delay
           /\ pc = "top" => Round
<1>1. CASE Round \/ Delay
  BY <1>1 DEF Round, Delay, At, outputs, ghosts
<1>2. CASE \E reading \in board.temps, valid \in BOOLEAN : Sense(reading, valid)
  BY <1>2 DEF Sense, At, Step
<1>3. CASE Decide \/ Check \/ Drive
  <2>1. CASE Decide
    BY <2>1 DEF Decide, At, Step
  <2>2. CASE Check
    BY <2>2 DEF Check, At, Step
  <2>3. CASE Drive
    BY <2>3 DEF Drive, At, Step, ghosts
  <2> QED
    BY <1>3, <2>1, <2>2, <2>3
<1>4. CASE PwmRead \/ PwmCompare \/ PwmTrip
  BY <1>4 DEF PwmRead, PwmCompare, PwmTrip, At, Step, outputs, ghosts
<1>5. CASE HeaterRead \/ HeaterCompare \/ HeaterTrip
  BY <1>5 DEF HeaterRead, HeaterCompare, HeaterTrip, At, Step, outputs, ghosts
<1>6. CASE Stall \/ WeldTick \/ Telemetry
  <2>1. CASE Stall
    BY <2>1 DEF Stall, At, Step, ghosts
  <2>2. CASE WeldTick
    BY <2>2 DEF WeldTick, At, Step, ghosts
  <2>3. CASE Telemetry
    BY <2>3 DEF Telemetry, At, Step, ghosts
  <2> QED
    BY <1>6, <2>1, <2>2, <2>3
<1>7. CASE StrobeStart \/ StrobeEnd
  BY <1>7 DEF StrobeStart, StrobeEnd, At, Step, ghosts
<1> QED
  BY <1>1, <1>2, <1>3, <1>4, <1>5, <1>6, <1>7 DEF MainStep

-----------------------------------------------------------------------------
(* The silence of the sensor of a heater *)

\* No silence, nothing to be timed.
LEMMA ColdBegins ==
    ASSUME TypeOK', cold' = 0, heat'.on => tool' \in HeaterTools
    PROVE  ColdInv'
<1>1. /\ guard' \in Guard(Temps') /\ Temps' \subseteq Nat
  <2>1. (/\ guard \in Guard(Temps) /\ Temps \subseteq Nat)'
    BY SensorNumbers, PTL
  <2>2. Guard(Temps)' = Guard(Temps')
    BY DEF Guard
  <2> QED
    BY <2>1, <2>2
<1>3. (Slack(CheckAhead) \in Nat)'
  BY SlackFacts, PTL
<1>4. SilenceIsTimed(guard', heat'.temp, heat'.target, 0, Slack(CheckAhead)')
  BY <1>1, <1>3, SilenceBegins
<1> QED
  BY <1>4 DEF ColdInv

\* Nothing happened to what is timed, and the step that looks is no later.
LEMMA ColdStays ==
    ASSUME TypeOK, TypeOK', ColdInv, UNCHANGED board, guard' = guard, cold' = cold, err => err',
           heat'.temp = heat.temp, heat'.target = heat.target, heat'.on = heat.on,
           Slack(CheckAhead) <= Slack(CheckAhead)'
    PROVE  ColdInv'
<1>1. (Slack(CheckAhead) \in Nat)'
  BY SlackFacts, PTL
<1>2. tool' = tool
  BY DEF tool
<1>3. ASSUME ~err', heat'.temp + HoldHysteresis < heat'.target
      PROVE  SilenceIsTimed(guard', heat'.temp, heat'.target, cold', Slack(CheckAhead)')
  <2>1. SilenceIsTimed(guard, heat.temp, heat.target, cold, Slack(CheckAhead))
    BY <1>3 DEF ColdInv
  <2>2. SilenceIsTimed(guard, heat.temp, heat.target, cold, Slack(CheckAhead)')
    BY <1>1, <2>1, SensorNumbers, SlackFacts, SilenceWaits
  <2> QED
    BY <2>2
<1>4. IF heat'.on THEN tool' \in HeaterTools ELSE cold' = 0
  BY <1>2 DEF ColdInv
<1> QED
  BY <1>3, <1>4 DEF ColdInv

\* In an error nothing is asked of the guard.
LEMMA ColdInError ==
    ASSUME TypeOK, ColdInv, UNCHANGED board, err', cold' \in {cold, 0}, heat'.on = heat.on
    PROVE  ColdInv'
  BY DEF ColdInv, tool

LEMMA ColdOfMain ==
    ASSUME TypeOK, TypeOK', PlaceInv, ColdInv, MainStep, ~Round, Onward
    PROVE  ColdInv'
<1>0. /\ UNCHANGED <<board, alive>> /\ tool' = tool /\ Inner
      /\ tool \in HeaterTools /\ SenseAhead /\ pc # "sense" => SenseAhead'
  BY DEF Onward, tool
<1>1. /\ guard \in Guard(Temps) /\ Temps \subseteq Nat /\ 0 \in Temps /\ cold \in Nat
      /\ heat.temp \in Temps /\ heat.target \in Temps /\ heat.on \in BOOLEAN
      /\ alive \in Nat /\ heat \in HeatState /\ LoopMax \in Nat
  BY SensorNumbers, SensorConstants DEF TypeOK
<1>2. CheckAhead' \/ ~CheckAhead => Slack(CheckAhead) <= Slack(CheckAhead)'
  BY <1>0, <1>1 DEF Slack
<1>8. heat.target \in Nat /\ heat.temp \in Nat /\ MaxTarget \in Nat
  BY <1>1, AppAssumption
<1>3. CASE pc = "sense"
  <2>1. PICK reading \in board.temps, valid \in BOOLEAN : Sense(reading, valid)
    BY <1>3, MainUntouched
  <2>2. tool \in HeaterTools
    BY <1>3 DEF PlaceInv, Sensing
  <2> DEFINE temp == IF valid THEN reading ELSE heat.temp
  <2>3. /\ heat'.temp = temp /\ heat'.on = heat.on /\ guard' = guard
        /\ cold' = IF temp = heat.temp THEN cold ELSE 0
        /\ heat.target <= MaxTarget => heat'.target = heat.target
        /\ err' <=> (err \/ ~valid \/ heat.target > MaxTarget)
        /\ ~err' => pc' = "decide"
    <3>1. heat' = [heat EXCEPT !.temp = temp, !.target = IF heat.target > MaxTarget THEN 0 ELSE heat.target]
      BY <2>1 DEF Sense
    <3>2. /\ guard' = guard /\ cold' = IF temp = heat.temp THEN cold ELSE 0
          /\ err' <=> (err \/ ~valid \/ heat.target > MaxTarget)
          /\ ~err' => pc' = "decide"
      BY <2>1 DEF Sense, Step
    <3>3. /\ heat'.temp = temp /\ heat'.on = heat.on
          /\ heat'.target = IF heat.target > MaxTarget THEN 0 ELSE heat.target
      BY <1>1, <3>1 DEF HeatState
    <3>4. heat.target <= MaxTarget => ~(heat.target > MaxTarget)
      BY <1>1, <1>8
    <3> HIDE DEF temp
    <3> QED
      BY <3>2, <3>3, <3>4
  <2>4. CASE temp # heat.temp
    BY <1>0, <2>2, <2>3, <2>4, ColdBegins
  <2>5. CASE err'
    BY <1>0, <2>3, <2>5, ColdInError
  <2>6. CASE temp = heat.temp /\ ~err'
    <3>1. heat'.target = heat.target
      BY <1>8, <2>3, <2>6
    <3>2. CheckAhead'
      BY <2>3, <2>6 DEF CheckAhead
    <3> QED
      BY <1>0, <1>2, <2>3, <2>6, <3>1, <3>2, ColdStays
  <2> QED
    BY <2>4, <2>5, <2>6
<1>4. CASE pc = "decide"
  <2>1. Decide /\ tool \in HeaterTools
    BY <1>4, MainUntouched DEF PlaceInv, Sensing
  <2>2. CASE Runaway
    <3>1. err' /\ heat' = heat /\ cold' = cold
      BY <2>1, <2>2 DEF Decide
    <3> QED
      BY <1>0, <3>1, ColdInError
  <2>3. CASE ~Runaway
    <3>1. PICK on \in HeaterOn : /\ heat' = [OffTimer(heat) EXCEPT !.on = on]
                                 /\ cold' = IF on THEN cold ELSE 0
      BY <2>1, <2>3 DEF Decide
    <3>2. /\ OffTimer(heat) \in HeatState /\ OffTimer(heat).temp = heat.temp
          /\ OffTimer(heat).target = heat.target
      <4>1. 0 \in 0..(OffLimit + 1)
        BY ConstantFacts
      <4> QED
        BY <1>1, <4>1 DEF OffTimer, HeatState
    <3>3. heat'.temp = heat.temp /\ heat'.target = heat.target /\ heat'.on = on
      BY <3>1, <3>2 DEF HeatState
    <3>4. pc' = "check" /\ guard' = guard /\ err' = err
      BY <2>1, <2>3 DEF Decide, Step
    <3>5. on \in BOOLEAN
      BY <1>1 DEF HeaterOn
    <3>6. CASE cold' = 0
      BY <1>0, <2>1, <3>6, ColdBegins
    <3>7. CASE cold' # 0
      <4>1. on /\ cold' = cold /\ heat.on
        BY <1>1, <3>1, <3>7 DEF ColdInv
      <4>2. CheckAhead'
        BY <3>4 DEF CheckAhead
      <4>3. heat'.on = heat.on
        BY <1>1, <3>3, <3>5, <4>1
      <4> QED
        BY <1>0, <1>2, <3>3, <3>4, <4>1, <4>2, <4>3, ColdStays
    <3> QED
      BY <3>6, <3>7
  <2> QED
    BY <2>2, <2>3
<1>5. CASE pc = "check"
  <2> DEFINE checked == Checked(guard, heat.on, heat.temp, heat.target)
  <2>1. Check /\ tool \in HeaterTools
    BY <1>5, MainUntouched DEF PlaceInv, Sensing
  <2>2. /\ guard' = checked[1]
        /\ err' <=> (err \/ checked[2] # "ok")
        /\ heat' = IF checked[2] # "ok" THEN [heat EXCEPT !.target = 0, !.on = FALSE] ELSE heat
        /\ cold' = IF checked[2] # "ok" THEN 0 ELSE cold
    BY <2>1 DEF Check
  <2> HIDE DEF checked
  <2>3. CASE cold' = 0
    BY <1>0, <2>1, <2>3, ColdBegins
  <2>4. CASE cold' # 0
    <3>1. checked[2] = "ok" /\ heat' = heat /\ cold' = cold /\ heat.on
      BY <2>2, <2>4 DEF ColdInv
    <3>2. ASSUME ~err', heat.temp + HoldHysteresis < heat.target
          PROVE  SilenceIsTimed(guard', heat.temp, heat.target, cold, Slack(CheckAhead)')
      <4>1. SilenceIsTimed(guard, heat.temp, heat.target, cold, Slack(CheckAhead))
        BY <2>2, <3>2 DEF ColdInv
      <4>2. heat.on = TRUE
        BY <1>1, <3>1
      <4>3. checked = Checked(guard, TRUE, heat.temp, heat.target)
        BY <4>2, Zenon DEF checked
      <4>4. Checked(guard, TRUE, heat.temp, heat.target)[2] = "ok"
        BY <3>1, <4>3, Zenon
      <4>5. SilenceIsTimed(Checked(guard, TRUE, heat.temp, heat.target)[1], heat.temp, heat.target, cold, 0)
        BY <1>1, <3>2, <4>1, <4>4, SilenceChecked, SlackFacts
      <4>6. SilenceIsTimed(guard', heat.temp, heat.target, cold, 0)
        BY <2>2, <4>3, <4>5, Zenon
      <4>7. (guard \in Guard(Temps))'
        BY SensorNumbers, PTL
      <4>9. (Slack(CheckAhead) \in Nat)'
        BY SlackFacts, PTL
      <4>8. guard' \in Guard(Temps)
        BY <1>0, <4>7, SameHead
      <4>10. 0 <= Slack(CheckAhead)' /\ 0 \in Nat
        BY <4>9
      <4> QED
        BY <1>1, <4>6, <4>8, <4>9, <4>10, SilenceWaits
    <3> QED
      BY <1>0, <2>1, <3>1, <3>2 DEF ColdInv
  <2> QED
    BY <2>3, <2>4
<1>6. CASE pc = "heaterZero"
  <2>1. HeaterTrip /\ guard' = guard
    BY <1>6, MainUntouched, MainSensors
  <2>2. /\ heat'.target = 0 /\ heat'.on = heat.on /\ heat'.temp = heat.temp
        /\ cold' \in {cold, 0} /\ err' = err
    BY <1>1, <1>6, <2>1 DEF HeaterTrip, At, HeatState, ColdWith
  <2>3. ~(heat'.temp + HoldHysteresis < heat'.target)
    BY <1>8, <2>2, SensorConstants
  <2> QED
    BY <1>0, <2>2, <2>3 DEF ColdInv
<1>7. CASE pc \notin {"sense", "decide", "check", "heaterZero"}
  <2>1. cold' = cold /\ heat' = heat /\ guard' = guard /\ (err => err')
    BY <1>7, MainSensors
  <2>2. CASE cold = 0
    BY <1>0, <2>1, <2>2, ColdBegins DEF ColdInv
  <2>3. CASE cold # 0
    <3>1. tool \in HeaterTools
      BY <2>3 DEF ColdInv
    <3>2. CheckAhead => CheckAhead'
      BY <1>0, <1>7, <3>1 DEF CheckAhead
    <3> QED
      BY <1>0, <1>2, <2>1, <3>2, ColdStays
  <2> QED
    BY <2>2, <2>3
<1> QED
  BY <1>3, <1>4, <1>5, <1>6, <1>7

\* What an interrupt does to the sensors.
SensorEffects ==
    /\ guard' = guard /\ screen' = screen
    /\ cold' = IF heat'.target = heat.target THEN cold ELSE 0
    /\ fan'.rpm = fan.rpm /\ fan'.stall = fan.stall
    /\ \/ fan'.cmd = fan.cmd /\ fan'.pulses = fan.pulses /\ still' = still
       \/ fan'.cmd = fan.cmd /\ still' = 0
       \/ ~fan'.cmd /\ still' = 0
       \/ fan'.cmd /\ fan'.pulses = fan.pulses /\ still' = still /\ HasFan /\ tool = "3D_PRINTER"

LEMMA InterruptSensors ==
    ASSUME TypeOK, Interrupt
    PROVE  Restart \/ SensorEffects
<1>0. tool \in Tools
  BY BoardFacts
<1>1. UNCHANGED rest => guard' = guard /\ screen' = screen
  BY DEF rest, env
<1>2. heat \in HeatState /\ fan \in FanState
  BY DEF TypeOK
<1>3. ASSUME NEW on \in BOOLEAN, NEW enable \in BOOLEAN,
             Laser(on, enable)
      PROVE  SensorEffects
  BY <1>1, <1>3 DEF Laser, SensorEffects
<1>4. ASSUME NEW on \in BOOLEAN, PrinterHotendFan(on)
      PROVE  SensorEffects
  <2>1. tool = "3D_PRINTER" /\ HasFan
    BY <1>0, <1>4, RouteFacts DEF PrinterHotendFan, Accepts, HasFan
  <2>2. fan'.rpm = fan.rpm /\ fan'.stall = fan.stall /\ fan'.pulses = fan.pulses /\ fan'.cmd = on
    BY <1>2, <1>4 DEF PrinterHotendFan, FanState
  <2>3. still' = (IF on THEN still ELSE 0) /\ heat' = heat /\ cold' = cold /\ UNCHANGED rest
    BY <1>4 DEF PrinterHotendFan
  <2>4. CASE on
    <3>1. fan'.cmd /\ still' = still
      BY <2>2, <2>3, <2>4
    <3> QED
      BY <1>1, <2>1, <2>2, <2>3, <3>1 DEF SensorEffects
  <2>5. CASE ~on
    BY <1>1, <2>2, <2>3, <2>5 DEF SensorEffects
  <2> QED
    BY <2>4, <2>5
<1>5. ASSUME NEW target \in board.targets, NEW steps \in Moves,
             PrinterThermalMotion(target, steps)
      PROVE  SensorEffects
  <2>1. heat'.target = target /\ cold' = ColdWith(target) /\ fan' = fan /\ still' = still
        /\ UNCHANGED rest
    BY <1>2, <1>5 DEF PrinterThermalMotion, Aimed, HeatState
  <2> QED
    BY <1>1, <2>1 DEF SensorEffects, ColdWith
<1>6. ASSUME NEW steps \in Moves, Motion(steps)
      PROVE  SensorEffects
  BY <1>1, <1>6 DEF Motion, SensorEffects
<1>7. ASSUME NEW ms \in Pulses, WeldPulse(ms)
      PROVE  SensorEffects
  BY <1>1, <1>7 DEF WeldPulse, SensorEffects
<1>8. ASSUME NEW aoiMode \in {"strobe", "lit", "dark"}, NEW period \in Periods,
             AOI(aoiMode, period)
      PROVE  SensorEffects
  BY <1>1, <1>8 DEF AOI, SensorEffects
<1>9. CASE SafeStop
  <2>1. heat'.target = 0 /\ cold' = ColdWith(0) /\ still' = still /\ UNCHANGED rest
    BY <1>2, <1>9 DEF SafeStop, SafeState, HeatState
  <2>2. fan'.rpm = fan.rpm /\ fan'.stall = fan.stall /\ fan'.pulses = fan.pulses /\ fan'.cmd = fan.cmd
    BY <1>2, <1>9 DEF SafeStop, SafeState, FanState
  <2> QED
    BY <1>1, <2>1, <2>2 DEF SensorEffects, ColdWith
<1>10. CASE StepError \/ StepBegin \/ StepRise \/ StepRest
  BY <1>1, <1>10 DEF StepError, StepBegin, StepRise, StepRest, SensorEffects
<1>11. CASE FanPulse
  <2>1. fan'.rpm = fan.rpm /\ fan'.stall = fan.stall /\ fan'.cmd = fan.cmd
    BY <1>2, <1>11 DEF FanPulse, FanState
  <2> QED
    BY <1>1, <1>11, <2>1 DEF FanPulse, SensorEffects
<1>12. EnterBootloader => Restart
  BY DEF EnterBootloader
<1>13. ASSUME NEW on \in BOOLEAN,
              Drill(on) \/ UVCuring(on) \/ Electromagnet(on) \/ PrinterLayerFan(on)
       PROVE  SensorEffects
  BY <1>1, <1>13 DEF Drill, UVCuring, PrinterLayerFan, Electromagnet, SensorEffects
<1>14. ASSUME NEW target \in board.targets, SolderingIron(target) \/ \E on \in BOOLEAN : HotAirRework(target, on)
       PROVE  SensorEffects
  <2>1. heat'.target = target /\ cold' = ColdWith(target) /\ fan' = fan /\ still' = still
        /\ UNCHANGED rest
    BY <1>2, <1>14 DEF SolderingIron, HotAirRework, Aimed, HeatState
  <2> QED
    BY <1>1, <2>1 DEF SensorEffects, ColdWith
<1> QED
  BY <1>3, <1>4, <1>5, <1>6, <1>7, <1>8, <1>9, <1>10, <1>11, <1>12, <1>13, <1>14 DEF Interrupt, Frame

LEMMA TickSensors ==
    ASSUME TypeOK, Tick
    PROVE  /\ guard' = Aging(guard) /\ cold' <= cold + 1 /\ still' <= still + 1
           /\ cold' \in Nat /\ still' \in Nat
           /\ ~heat.on => cold' = 0
           /\ ~fan.cmd => still' = 0
           /\ screen' = Aged(screen, HasFan, ScreenPeriod)
           /\ fan'.stall = Aged(fan.stall, HasFan, StallLimit + 1)
           /\ fan'.cmd = fan.cmd /\ fan'.pulses = fan.pulses /\ fan'.rpm = fan.rpm
           /\ Slack(CheckAhead)' = Slack(CheckAhead) + 1
           /\ Slack(StallAhead)' = Slack(StallAhead) + 1
           /\ Slack(TelemetryAhead)' = Slack(TelemetryAhead) + 1
<1>1. fan \in FanState /\ cold \in Nat /\ still \in Nat /\ ColdMax \in Nat /\ StillMax \in Nat
      /\ alive \in Nat /\ LoopMax \in Nat
  BY SensorNumbers, ConstantFacts
<1>2. /\ cold' <= cold + 1 /\ cold' \in Nat /\ (~heat.on => cold' = 0)
      /\ still' <= still + 1 /\ still' \in Nat /\ (~fan.cmd => still' = 0)
  BY <1>1, AgedFacts DEF Tick
<1>3. /\ guard' = Aging(guard) /\ screen' = Aged(screen, HasFan, ScreenPeriod)
      /\ fan' = [fan EXCEPT !.stall = Aged(fan.stall, HasFan, StallLimit + 1)]
      /\ UNCHANGED <<splash, pc>> /\ alive' = alive + 1
  BY DEF Tick
<1>4. /\ fan'.stall = Aged(fan.stall, HasFan, StallLimit + 1)
      /\ fan'.cmd = fan.cmd /\ fan'.pulses = fan.pulses /\ fan'.rpm = fan.rpm
  BY <1>1, <1>3 DEF FanState
<1>5. CheckAhead' = CheckAhead /\ StallAhead' = StallAhead /\ TelemetryAhead' = TelemetryAhead
  BY <1>3 DEF CheckAhead, SenseAhead, StallAhead, TelemetryAhead, booting
<1>6. /\ Slack(CheckAhead)' = Slack(CheckAhead) + 1
      /\ Slack(StallAhead)' = Slack(StallAhead) + 1
      /\ Slack(TelemetryAhead)' = Slack(TelemetryAhead) + 1
  BY <1>1, <1>3, <1>5 DEF Slack
<1> QED
  BY <1>2, <1>3, <1>4, <1>6

LEMMA ColdKept ==
    ASSUME TypeOK, TypeOK', PlaceInv, ColdInv, Next
    PROVE  ColdInv'
<1>1. cold \in Nat /\ alive \in Nat /\ alive <= LoopMax /\ LoopMax \in Nat
      /\ guard \in Guard(Temps) /\ Temps \subseteq Nat
  BY SensorNumbers, SensorConstants
<1>2. CASE MainStep /\ Round
  <2>1. /\ UNCHANGED <<board, heat, guard, cold, err>> /\ pc = "top" /\ alive' = 0 /\ tool' = tool
        /\ tool \in HeaterTools => SenseAhead'
    BY <1>2, RoundBegins DEF Round, outputs, ghosts, tool
  <2>2. CASE tool \in HeaterTools
    <3>1. ~CheckAhead /\ CheckAhead'
      BY <2>1, <2>2 DEF CheckAhead, SenseAhead, PwmWatch, HeaterWatch
    <3>2. Slack(CheckAhead) <= Slack(CheckAhead)'
      BY <1>1, <2>1, <3>1 DEF Slack
    <3> QED
      BY <2>1, <3>2, ColdStays
  <2>3. CASE tool \notin HeaterTools
    BY <2>1, <2>3, ColdBegins DEF ColdInv
  <2> QED
    BY <2>2, <2>3
<1>3. CASE MainStep /\ ~Round /\ Onward
  BY <1>3, ColdOfMain
<1>4. CASE Effects /\ SensorEffects
  <2>1. /\ UNCHANGED <<board, splash, pc, alive, err, guard>> /\ tool' = tool
        /\ heat'.temp = heat.temp /\ heat'.on = heat.on
        /\ cold' = IF heat'.target = heat.target THEN cold ELSE 0
    BY <1>4 DEF Effects, SensorEffects, tool
  <2>2. CheckAhead' = CheckAhead
    BY <2>1 DEF CheckAhead, SenseAhead, booting
  <2>3. Slack(CheckAhead)' = Slack(CheckAhead) /\ Slack(CheckAhead) \in Nat
    BY <2>1, <2>2, SlackFacts DEF Slack
  <2>4. CASE heat'.target = heat.target
    BY <2>1, <2>3, <2>4, ColdStays
  <2>5. CASE heat'.target # heat.target
    BY <2>1, <2>5, ColdBegins DEF ColdInv
  <2> QED
    BY <2>4, <2>5
<1>5. CASE Tick
  <2>1. /\ UNCHANGED <<board, err>> /\ tool' = tool
        /\ heat'.temp = heat.temp /\ heat'.on = heat.on /\ heat'.target = heat.target
    BY <1>5, TickEffects DEF tool
  <2>2. /\ guard' = Aging(guard) /\ cold' <= cold + 1 /\ cold' \in Nat
        /\ ~heat.on => cold' = 0
        /\ Slack(CheckAhead)' = Slack(CheckAhead) + 1
    BY <1>5, TickSensors
  <2>3. ASSUME ~err', heat'.temp + HoldHysteresis < heat'.target
        PROVE  SilenceIsTimed(guard', heat'.temp, heat'.target, cold', Slack(CheckAhead)')
    <3>1. SilenceIsTimed(guard, heat.temp, heat.target, cold, Slack(CheckAhead))
      BY <2>1, <2>3 DEF ColdInv
    <3>2. SilenceIsTimed(Aging(guard), heat.temp, heat.target, cold', Slack(CheckAhead) + 1)
      BY <1>1, <2>2, <3>1, SlackFacts, SilenceAges
    <3> QED
      BY <2>1, <2>2, <3>2
  <2> QED
    BY <2>1, <2>2, <2>3 DEF ColdInv
<1>6. CASE Restart
  <2>1. cold' = 0 /\ ~heat'.on
    BY <1>6 DEF Restart, Initial
  <2> QED
    BY <2>1, ColdBegins
<1> QED
  BY <1>2, <1>3, <1>4, <1>5, <1>6, NextKinds, InterruptEffects, InterruptSensors

-----------------------------------------------------------------------------
(* The silence of the fan of the hotend *)

\* The times of the fan, with the rounds of the splash that are over.
LEMMA FanConstants ==
    ASSUME NEW round \in 0..SplashRounds
    PROVE  /\ Rounds(SplashRounds - round) \in Nat
           /\ ScreenPeriod + Rounds(SplashRounds - round) + Rounds(2) <= LastCounted
           /\ round > 0 => Rounds(SplashRounds - (round - 1)) = Rounds(SplashRounds - round) + LoopMax
           /\ SilenceKnown + StallLimit + 1 + Rounds(2) =
                StallLimit + 1 + 2 * ScreenPeriod + Rounds(SplashRounds + 6)
<1>1. LastCounted = ScreenPeriod + Rounds(SplashRounds) + Rounds(2)
  BY SplashTime, SensorConstants DEF LastCounted
<1>2. Rounds(SplashRounds + 6) = Rounds(SplashRounds) + Rounds(2) + Rounds(2) + Rounds(2)
  BY SplashTime, SensorConstants
<1> QED
  BY <1>1, <1>2, SplashTime, SensorConstants

LEMMA FanFacts ==
    ASSUME NEW f \in FanState
    PROVE  /\ f.stall \in Nat /\ f.stall <= StallLimit + 1
           /\ f.cmd \in BOOLEAN /\ f.pulses \in BOOLEAN /\ f.rpm \in BOOLEAN
<1>1. /\ f.stall \in 0..(StallLimit + 1)
      /\ f.cmd \in BOOLEAN /\ f.pulses \in BOOLEAN /\ f.rpm \in BOOLEAN
  BY DEF FanState
<1> QED
  BY <1>1, SensorConstants

\* A silence that has just begun is timed by whatever stands.
LEMMA StillnessBegins ==
    ASSUME NEW f \in FanState, NEW window \in 0..ScreenPeriod, NEW round \in 0..SplashRounds,
           NEW slack \in Nat, NEW stallSlack \in Nat
    PROVE  StillnessIsTimed(f, window, round, 0, slack, stallSlack)
<1>1. f.stall \in Nat /\ window \in Nat
  BY FanFacts, SensorConstants
<1> QED
  BY <1>1, FanConstants, SensorConstants DEF StillnessIsTimed

\* What is timed stays timed while no slack shrinks; before the end of a window
\* it does whatever the slack.
LEMMA StillnessWaits ==
    ASSUME NEW f \in FanState, NEW window \in 0..ScreenPeriod, NEW round \in 0..SplashRounds,
           NEW age \in Nat, NEW slack \in Nat, NEW stallSlack \in Nat,
           NEW later \in Nat, NEW stallLater \in Nat,
           window < ScreenPeriod \/ slack <= later, stallSlack <= stallLater,
           StillnessIsTimed(f, window, round, age, slack, stallSlack)
    PROVE  StillnessIsTimed(f, window, round, age, later, stallLater)
<1>1. f.stall \in Nat /\ window \in Nat /\ window <= ScreenPeriod
  BY FanFacts, SensorConstants
<1> QED
  BY <1>1, FanConstants, SensorConstants DEF StillnessIsTimed

\* A tick makes everything a tick older.
LEMMA StillnessAges ==
    ASSUME NEW f \in FanState, NEW g \in FanState, NEW window \in 0..ScreenPeriod,
           NEW round \in 0..SplashRounds, NEW age \in Nat, NEW slack \in Nat, NEW stallSlack \in Nat,
           NEW older \in Nat, older <= age + 1,
           g.pulses = f.pulses, g.rpm = f.rpm, g.stall = Capped(f.stall + 1, StallLimit + 1),
           StillnessIsTimed(f, window, round, age, slack, stallSlack)
    PROVE  StillnessIsTimed(g, Capped(window + 1, ScreenPeriod), round, older, slack + 1, stallSlack + 1)
<1>1. f.stall \in Nat /\ window \in Nat /\ window <= ScreenPeriod /\ f.stall <= StallLimit + 1
  BY FanFacts, SensorConstants
<1> DEFINE next == Capped(window + 1, ScreenPeriod)
           rest_ == Rounds(SplashRounds - round)
<1>2. next \in Nat /\ (next < ScreenPeriod => next = window + 1 /\ window < ScreenPeriod)
  BY <1>1, SensorConstants DEF Capped
<1>3. g.stall \in Nat /\ (g.stall <= StallLimit => g.stall = f.stall + 1 /\ f.stall <= StallLimit)
  BY <1>1, SensorConstants DEF Capped
<1>4. rest_ \in Nat
  BY FanConstants
<1> HIDE DEF next, rest_
<1>5. ASSUME g.pulses
      PROVE  /\ next < ScreenPeriod => older <= next
             /\ older <= ScreenPeriod + rest_ + (slack + 1)
  <2>1. /\ window < ScreenPeriod => age <= window
        /\ age <= ScreenPeriod + rest_ + slack
    BY <1>5 DEF StillnessIsTimed, rest_
  <2> QED
    BY <1>1, <1>2, <1>4, <2>1, SensorConstants
<1>6. ASSUME g.rpm, ~g.pulses
      PROVE  /\ next < ScreenPeriod => older <= LastCounted + next
             /\ older <= LastCounted + ScreenPeriod + (slack + 1)
  <2>1. /\ window < ScreenPeriod => age <= LastCounted + window
        /\ age <= LastCounted + ScreenPeriod + slack
    BY <1>6 DEF StillnessIsTimed
  <2> QED
    BY <1>1, <1>2, <2>1, SensorConstants
<1>7. ASSUME ~g.rpm
      PROVE  /\ g.stall <= StallLimit => older <= SilenceKnown + g.stall
             /\ older <= SilenceKnown + StallLimit + 1 + (stallSlack + 1)
  <2>1. /\ f.stall <= StallLimit => age <= SilenceKnown + f.stall
        /\ age <= SilenceKnown + StallLimit + 1 + stallSlack
    BY <1>7 DEF StillnessIsTimed
  <2> QED
    BY <1>1, <1>3, <2>1, SensorConstants
<1> QED
  BY <1>5, <1>6, <1>7 DEF StillnessIsTimed, next, rest_

\* The end of a round of the splash.
LEMMA StillnessInSplash ==
    ASSUME NEW f \in FanState, NEW window \in 0..ScreenPeriod, NEW round \in 1..SplashRounds,
           NEW age \in Nat, NEW slack \in Nat, NEW stallSlack \in Nat, ~f.rpm,
           StillnessIsTimed(f, window, round, age, slack + LoopMax, stallSlack)
    PROVE  StillnessIsTimed(f, window, round - 1, age, slack, stallSlack)
<1>1. round \in 0..SplashRounds /\ round > 0
  OBVIOUS
<1>2. Rounds(SplashRounds - (round - 1)) = Rounds(SplashRounds - round) + LoopMax
      /\ Rounds(SplashRounds - round) \in Nat
  BY <1>1, FanConstants
<1> QED
  BY <1>2, SensorConstants DEF StillnessIsTimed

\* The pulses of a window are counted.
LEMMA StillnessCounted ==
    ASSUME NEW f \in FanState, NEW g \in FanState, NEW window \in 0..ScreenPeriod,
           NEW round \in 0..SplashRounds, NEW age \in Nat, NEW slack \in Nat, slack <= Rounds(2),
           NEW stallSlack \in Nat, NEW later \in Nat,
           g.rpm = f.pulses, ~g.pulses, g.stall = f.stall,
           StillnessIsTimed(f, window, round, age, slack, stallSlack)
    PROVE  StillnessIsTimed(g, 0, round, age, later, stallSlack)
<1>1. f.stall \in Nat
  BY FanFacts
<1>2. CASE f.pulses
  <2>1. age <= ScreenPeriod + Rounds(SplashRounds - round) + slack
    BY <1>2 DEF StillnessIsTimed
  <2>2. age <= LastCounted
    BY <2>1, FanConstants, SensorConstants
  <2> QED
    BY <1>2, <2>2, SensorConstants DEF StillnessIsTimed
<1>3. CASE ~f.pulses /\ f.rpm
  <2>1. age <= LastCounted + ScreenPeriod + slack
    BY <1>3 DEF StillnessIsTimed
  <2>2. age <= SilenceKnown
    BY <2>1, SensorConstants
  <2> QED
    BY <1>1, <1>3, <2>2, SensorConstants DEF StillnessIsTimed
<1>4. CASE ~f.pulses /\ ~f.rpm
  BY <1>4 DEF StillnessIsTimed
<1> QED
  BY <1>2, <1>3, <1>4

\* The stall detector has looked.
LEMMA StallLooked ==
    ASSUME NEW f \in FanState, NEW g \in FanState, NEW window \in 0..ScreenPeriod,
           NEW round \in 0..SplashRounds, NEW age \in Nat, NEW slack \in Nat,
           NEW stallSlack \in Nat, NEW later \in Nat, NEW stallLater \in Nat, slack <= later,
           g.rpm = f.rpm, g.pulses = f.pulses, f.rpm \/ (g.stall = f.stall /\ f.stall <= StallLimit),
           StillnessIsTimed(f, window, round, age, slack, stallSlack)
    PROVE  StillnessIsTimed(g, window, round, age, later, stallLater)
<1>1. f.stall \in Nat /\ Rounds(SplashRounds - round) \in Nat
  BY FanFacts, FanConstants
<1>2. f.rpm \in BOOLEAN
  BY FanFacts
<1>3. CASE f.rpm
  BY <1>1, <1>3, SensorConstants DEF StillnessIsTimed
<1>4. CASE ~f.rpm
  BY <1>1, <1>4, SensorConstants DEF StillnessIsTimed
<1> QED
  BY <1>3, <1>4

\* What is timed is over before the detector has reported it.
LEMMA StillnessIsBounded ==
    ASSUME NEW f \in FanState, NEW window \in 0..ScreenPeriod, NEW round \in 0..SplashRounds,
           NEW age \in Nat, NEW slack \in Nat, NEW stallSlack \in Nat,
           slack <= Rounds(2), stallSlack <= Rounds(2),
           StillnessIsTimed(f, window, round, age, slack, stallSlack)
    PROVE  age <= StallLimit + 1 + 2 * ScreenPeriod + Rounds(SplashRounds + 6)
<1>1. /\ Rounds(SplashRounds - round) \in Nat
      /\ ScreenPeriod + Rounds(SplashRounds - round) + Rounds(2) <= LastCounted
      /\ SilenceKnown + StallLimit + 1 + Rounds(2) =
           StallLimit + 1 + 2 * ScreenPeriod + Rounds(SplashRounds + 6)
  BY FanConstants
<1>2. f.pulses => age <= ScreenPeriod + Rounds(SplashRounds - round) + slack
  BY DEF StillnessIsTimed
<1>3. f.rpm /\ ~f.pulses => age <= LastCounted + ScreenPeriod + slack
  BY DEF StillnessIsTimed
<1>4. ~f.rpm => age <= SilenceKnown + StallLimit + 1 + stallSlack
  BY DEF StillnessIsTimed
<1>5. f.pulses \/ (f.rpm /\ ~f.pulses) \/ ~f.rpm
  BY FanFacts
<1>6. age <= SilenceKnown + StallLimit + 1 + Rounds(2)
  BY <1>1, <1>2, <1>3, <1>4, <1>5, SensorConstants
<1> QED
  BY <1>1, <1>6

\* The slack of the fan's detector and of its counting, a step later.
LEMMA LaterSlacks ==
    ASSUME TypeOK'
    PROVE  Slack(StallAhead)' \in Nat /\ Slack(TelemetryAhead)' \in Nat
<1>1. (Slack(StallAhead) \in Nat)'
  BY SlackFacts, PTL
<1>2. (Slack(TelemetryAhead) \in Nat)'
  BY SlackFacts, PTL
<1> QED
  BY <1>1, <1>2

LEMMA FanOfMain ==
    ASSUME TypeOK, TypeOK', PlaceInv, FanInv, MainStep, ~Round, Onward
    PROVE  FanInv'
<1>0. /\ UNCHANGED <<board, alive>> /\ tool' = tool /\ HasFan' = HasFan
      /\ StallAhead /\ tool = "3D_PRINTER" /\ pc # "stall" => StallAhead'
      /\ tool = "3D_PRINTER" /\ pc' = "top" => pc \in {"telemetry", "delay"}
  BY DEF Onward, tool, HasFan
<1>1. /\ fan \in FanState /\ still \in Nat /\ alive \in Nat /\ LoopMax \in Nat
      /\ screen \in 0..ScreenPeriod /\ splash \in 0..SplashRounds /\ still' = still
      /\ err => err'
  BY SensorNumbers, SensorConstants, MainSensors
<1>2. (fan \in FanState)'
  BY SensorNumbers, PTL
<1>3. /\ fan.cmd => HasFan /\ tool = "3D_PRINTER"
      /\ ~fan.cmd => still = 0
      /\ booting => ~fan.rpm
      /\ ~err /\ fan.cmd =>
           StillnessIsTimed(fan, screen, splash, still, Slack(TelemetryAhead), Slack(StallAhead))
  BY DEF FanInv
<1>4. StallAhead' \/ ~StallAhead => Slack(StallAhead) <= Slack(StallAhead)'
  BY <1>0, <1>1 DEF Slack
<1>5. CASE pc = "delay"
  <2>1. /\ UNCHANGED <<fan, screen, still, err>> /\ splash' = splash - 1 /\ pc' = "top"
    BY <1>5, MainSensors DEF Delay, outputs, ghosts
  <2>2. booting /\ splash \in 1..SplashRounds
    BY <1>1, <1>5, AppAssumption DEF PlaceInv, booting
  <2>3. /\ Slack(TelemetryAhead) = Slack(TelemetryAhead)' + LoopMax
        /\ Slack(StallAhead)' = Slack(StallAhead)
    BY <1>0, <1>1, <1>5, <2>1, <2>2 DEF Slack, TelemetryAhead, StallAhead, PwmWatch, Sensing, booting
  <2>4. ASSUME ~err', fan'.cmd
        PROVE  StillnessIsTimed(fan', screen', splash', still', Slack(TelemetryAhead)', Slack(StallAhead)')
    <3>1. StillnessIsTimed(fan, screen, splash, still, Slack(TelemetryAhead)' + LoopMax, Slack(StallAhead)')
      BY <1>3, <2>1, <2>3, <2>4
    <3>2. StillnessIsTimed(fan, screen, splash - 1, still, Slack(TelemetryAhead)', Slack(StallAhead)')
      BY <1>1, <1>3, <2>2, <3>1, LaterSlacks, StillnessInSplash
    <3> QED
      BY <2>1, <3>2
  <2>5. /\ fan'.cmd => HasFan' /\ tool' = "3D_PRINTER"
        /\ ~fan'.cmd => still' = 0
        /\ ~fan'.rpm
    BY <1>0, <1>3, <2>1, <2>2
  <2> QED
    BY <2>4, <2>5 DEF FanInv
<1>6. CASE pc = "stall"
  <2>1. /\ Stall /\ UNCHANGED <<screen, still, splash>> /\ tool = "3D_PRINTER"
    BY <1>6, MainSensors, MainUntouched DEF PlaceInv
  <2>2. /\ err' <=> (err \/ Stalled)
        /\ fan' = [fan EXCEPT !.stall = IF fan.cmd /\ ~fan.rpm THEN fan.stall ELSE 0]
    BY <2>1 DEF Stall
  <2>3. /\ fan'.cmd = fan.cmd /\ fan'.rpm = fan.rpm /\ fan'.pulses = fan.pulses
        /\ fan'.stall = IF fan.cmd /\ ~fan.rpm THEN fan.stall ELSE 0
    BY <1>1, <2>2 DEF FanState
  <2>4. booting' = booting
    BY <2>1 DEF booting
  <2>5. Slack(TelemetryAhead) <= Slack(TelemetryAhead)'
    BY <1>0, <1>1, <1>6, <2>1 DEF Slack, TelemetryAhead
  <2>6. ASSUME ~err', fan'.cmd
        PROVE  StillnessIsTimed(fan', screen', splash', still', Slack(TelemetryAhead)', Slack(StallAhead)')
    <3>1. StillnessIsTimed(fan, screen, splash, still, Slack(TelemetryAhead), Slack(StallAhead))
      BY <1>1, <1>3, <2>3, <2>6
    <3>2. fan.rpm \/ (fan'.stall = fan.stall /\ fan.stall <= StallLimit)
      <4>1. fan.rpm \/ ~(fan.stall > StallLimit)
        BY <2>2, <2>3, <2>6 DEF Stalled
      <4> QED
        BY <1>1, <2>3, <2>6, <4>1, FanFacts, SensorConstants
    <3>3. StillnessIsTimed(fan', screen, splash, still, Slack(TelemetryAhead)', Slack(StallAhead)')
      BY <1>1, <1>2, <2>3, <2>5, <3>1, <3>2, SlackFacts, LaterSlacks, StallLooked
    <3> QED
      BY <2>1, <3>3
  <2> QED
    BY <1>0, <1>3, <2>1, <2>3, <2>4, <2>6 DEF FanInv
<1>7. CASE pc = "telemetry"
  <2>1. /\ Telemetry /\ UNCHANGED <<still, splash>> /\ tool = "3D_PRINTER" /\ ~booting
    BY <1>7, MainSensors, MainUntouched DEF PlaceInv
  <2>2. /\ err' = err /\ booting' = booting
        /\ IF screen >= ScreenPeriod THEN screen' = 0 /\ fan' = Counted ELSE UNCHANGED <<screen, fan>>
    BY <2>1 DEF Telemetry, booting
  <2>3. ~StallAhead /\ Slack(StallAhead) <= Slack(StallAhead)'
    BY <1>4, <1>7 DEF StallAhead, PwmWatch, Sensing
  <2>4. CASE screen >= ScreenPeriod
    <3>1. /\ fan'.cmd = fan.cmd /\ fan'.rpm = fan.pulses /\ ~fan'.pulses /\ fan'.stall = fan.stall
      BY <1>1, <2>2, <2>4 DEF Counted, FanState
    <3>2. ASSUME ~err', fan'.cmd
          PROVE  StillnessIsTimed(fan', screen', splash', still', Slack(TelemetryAhead)', Slack(StallAhead)')
      <4>1. StillnessIsTimed(fan, screen, splash, still, Slack(TelemetryAhead), Slack(StallAhead))
        BY <1>3, <2>2, <3>1, <3>2
      <4>2. StillnessIsTimed(fan', 0, splash, still, Slack(TelemetryAhead)', Slack(StallAhead))
        BY <1>1, <1>2, <3>1, <4>1, SlackFacts, LaterSlacks, StillnessCounted
      <4>3. 0 \in 0..ScreenPeriod
        BY SensorConstants
      <4>4. Slack(TelemetryAhead)' <= Slack(TelemetryAhead)'
        BY LaterSlacks
      <4>5. StillnessIsTimed(fan', 0, splash, still, Slack(TelemetryAhead)', Slack(StallAhead)')
        BY <1>1, <1>2, <2>3, <4>2, <4>3, <4>4, SlackFacts, LaterSlacks, StillnessWaits
      <4> QED
        BY <2>1, <2>2, <2>4, <4>5
    <3> QED
      BY <1>0, <1>3, <2>1, <2>2, <3>1, <3>2 DEF FanInv
  <2>5. CASE ~(screen >= ScreenPeriod)
    <3>1. fan' = fan /\ screen' = screen /\ screen < ScreenPeriod
      BY <1>1, <2>2, <2>5, SensorConstants
    <3>2. ASSUME ~err', fan'.cmd
          PROVE  StillnessIsTimed(fan', screen', splash', still', Slack(TelemetryAhead)', Slack(StallAhead)')
      <4>1. StillnessIsTimed(fan, screen, splash, still, Slack(TelemetryAhead), Slack(StallAhead))
        BY <1>3, <2>2, <3>1, <3>2
      <4>2. StillnessIsTimed(fan, screen, splash, still, Slack(TelemetryAhead)', Slack(StallAhead)')
        BY <1>1, <2>3, <3>1, <4>1, SlackFacts, LaterSlacks, StillnessWaits
      <4> QED
        BY <2>1, <3>1, <4>2
    <3> QED
      BY <1>0, <1>3, <2>1, <2>2, <3>1, <3>2 DEF FanInv
  <2> QED
    BY <2>4, <2>5
<1>8. CASE pc \notin {"delay", "stall", "telemetry"}
  <2>1. UNCHANGED <<fan, screen, still, splash>> /\ booting' = booting
    BY <1>8, MainSensors, MainUntouched DEF booting
  <2>2. ASSUME ~err', fan'.cmd
        PROVE  StillnessIsTimed(fan', screen', splash', still', Slack(TelemetryAhead)', Slack(StallAhead)')
    <3>1. StillnessIsTimed(fan, screen, splash, still, Slack(TelemetryAhead), Slack(StallAhead))
          /\ tool = "3D_PRINTER"
      BY <1>1, <1>3, <2>1, <2>2
    <3>2. TelemetryAhead' /\ (StallAhead => StallAhead')
      BY <1>0, <1>8, <3>1 DEF TelemetryAhead
    <3>3. Slack(TelemetryAhead) <= Slack(TelemetryAhead)' /\ Slack(StallAhead) <= Slack(StallAhead)'
      BY <1>0, <1>1, <1>4, <3>2 DEF Slack
    <3>4. StillnessIsTimed(fan, screen, splash, still, Slack(TelemetryAhead)', Slack(StallAhead)')
      BY <1>1, <3>1, <3>3, SlackFacts, LaterSlacks, StillnessWaits
    <3> QED
      BY <2>1, <3>4
  <2> QED
    BY <1>0, <1>3, <2>1, <2>2 DEF FanInv
<1> QED
  BY <1>5, <1>6, <1>7, <1>8

LEMMA FanKept ==
    ASSUME TypeOK, TypeOK', PlaceInv, FanInv, Next
    PROVE  FanInv'
<1>1. /\ fan \in FanState /\ still \in Nat /\ alive \in Nat /\ alive <= LoopMax /\ LoopMax \in Nat
      /\ screen \in 0..ScreenPeriod /\ splash \in 0..SplashRounds
  BY SensorNumbers, SensorConstants
<1>2. (fan \in FanState)'
  BY SensorNumbers, PTL
<1>3. /\ fan.cmd => HasFan /\ tool = "3D_PRINTER"
      /\ ~fan.cmd => still = 0
      /\ booting => ~fan.rpm
      /\ ~err /\ fan.cmd =>
           StillnessIsTimed(fan, screen, splash, still, Slack(TelemetryAhead), Slack(StallAhead))
  BY DEF FanInv
<1>4. CASE MainStep /\ Round
  <2>1. /\ UNCHANGED <<board, splash, fan, screen, still, err>> /\ pc = "top" /\ alive' = 0
        /\ tool' = tool /\ booting' = booting /\ HasFan' = HasFan
        /\ tool = "3D_PRINTER" => StallAhead' /\ pc' # "top"
    BY <1>4, RoundBegins DEF Round, outputs, ghosts, tool, booting, HasFan
  <2>2. ASSUME ~err', fan'.cmd
        PROVE  StillnessIsTimed(fan', screen', splash', still', Slack(TelemetryAhead)', Slack(StallAhead)')
    <3>1. StillnessIsTimed(fan, screen, splash, still, Slack(TelemetryAhead), Slack(StallAhead))
          /\ tool = "3D_PRINTER"
      BY <1>3, <2>1, <2>2
    <3>2. /\ ~TelemetryAhead /\ ~StallAhead /\ TelemetryAhead' /\ StallAhead'
      BY <2>1, <3>1 DEF TelemetryAhead, StallAhead, PwmWatch, Sensing
    <3>3. Slack(TelemetryAhead) <= Slack(TelemetryAhead)' /\ Slack(StallAhead) <= Slack(StallAhead)'
      BY <1>1, <2>1, <3>2 DEF Slack
    <3>4. StillnessIsTimed(fan, screen, splash, still, Slack(TelemetryAhead)', Slack(StallAhead)')
      BY <1>1, <3>1, <3>3, SlackFacts, LaterSlacks, StillnessWaits
    <3> QED
      BY <2>1, <3>4
  <2> QED
    BY <1>3, <2>1, <2>2 DEF FanInv
<1>5. CASE MainStep /\ ~Round /\ Onward
  BY <1>5, FanOfMain
<1>6. CASE Effects /\ SensorEffects
  <2>1. /\ UNCHANGED <<board, splash, pc, alive, err, screen>>
        /\ tool' = tool /\ booting' = booting /\ HasFan' = HasFan
    BY <1>6 DEF Effects, SensorEffects, tool, booting, HasFan
  <2>2. /\ fan'.rpm = fan.rpm /\ fan'.stall = fan.stall
        /\ \/ fan'.cmd = fan.cmd /\ fan'.pulses = fan.pulses /\ still' = still
           \/ fan'.cmd = fan.cmd /\ still' = 0
           \/ ~fan'.cmd /\ still' = 0
           \/ fan'.cmd /\ fan'.pulses = fan.pulses /\ still' = still /\ HasFan /\ tool = "3D_PRINTER"
    BY <1>6 DEF SensorEffects
  <2>3. Slack(TelemetryAhead)' = Slack(TelemetryAhead) /\ Slack(StallAhead)' = Slack(StallAhead)
    BY <2>1 DEF Slack, TelemetryAhead, StallAhead, booting
  <2>4. still' = 0 \/ (fan'.pulses = fan.pulses /\ still' = still /\ fan.cmd)
    BY <1>3, <2>2
  <2>5. ASSUME ~err', fan'.cmd
        PROVE  StillnessIsTimed(fan', screen', splash', still', Slack(TelemetryAhead)', Slack(StallAhead)')
    <3>1. CASE still' = 0
      BY <1>1, <1>2, <2>1, <3>1, LaterSlacks, StillnessBegins
    <3>2. CASE fan'.pulses = fan.pulses /\ still' = still /\ fan.cmd
      <4>1. StillnessIsTimed(fan, screen, splash, still, Slack(TelemetryAhead), Slack(StallAhead))
        BY <1>3, <2>1, <2>5, <3>2
      <4> QED
        BY <2>1, <2>2, <2>3, <3>2, <4>1 DEF StillnessIsTimed
    <3> QED
      BY <2>4, <3>1, <3>2
  <2>6. fan'.cmd => HasFan' /\ tool' = "3D_PRINTER"
    BY <1>3, <2>1, <2>2
  <2>7. ~fan'.cmd => still' = 0
    BY <1>3, <2>2
  <2>8. booting' => ~fan'.rpm
    BY <1>3, <2>1, <2>2
  <2> QED
    BY <2>5, <2>6, <2>7, <2>8 DEF FanInv
<1>7. CASE Tick
  <2>1. /\ UNCHANGED <<board, splash, err>> /\ tool' = tool /\ booting' = booting /\ HasFan' = HasFan
    BY <1>7, TickEffects DEF tool, booting, HasFan
  <2>2. /\ still' <= still + 1 /\ still' \in Nat
        /\ ~fan.cmd => still' = 0
        /\ screen' = Aged(screen, HasFan, ScreenPeriod)
        /\ fan'.stall = Aged(fan.stall, HasFan, StallLimit + 1)
        /\ fan'.cmd = fan.cmd /\ fan'.pulses = fan.pulses /\ fan'.rpm = fan.rpm
        /\ Slack(StallAhead)' = Slack(StallAhead) + 1
        /\ Slack(TelemetryAhead)' = Slack(TelemetryAhead) + 1
    BY <1>7, TickSensors
  <2>3. ASSUME ~err', fan'.cmd
        PROVE  StillnessIsTimed(fan', screen', splash', still', Slack(TelemetryAhead)', Slack(StallAhead)')
    <3>1. StillnessIsTimed(fan, screen, splash, still, Slack(TelemetryAhead), Slack(StallAhead))
          /\ HasFan
      BY <1>3, <2>1, <2>2, <2>3
    <3>2. /\ screen' = Capped(screen + 1, ScreenPeriod)
          /\ fan'.stall = Capped(fan.stall + 1, StallLimit + 1)
      BY <2>2, <3>1 DEF Aged
    <3>3. StillnessIsTimed(fan', Capped(screen + 1, ScreenPeriod), splash, still',
                           Slack(TelemetryAhead) + 1, Slack(StallAhead) + 1)
      BY <1>1, <1>2, <2>2, <3>1, <3>2, SlackFacts, StillnessAges
    <3> QED
      BY <2>1, <2>2, <3>2, <3>3
  <2> QED
    BY <1>3, <2>1, <2>2, <2>3 DEF FanInv
<1>8. CASE Restart
  <2>1. still' = 0 /\ ~fan'.cmd /\ ~fan'.rpm
    BY <1>8 DEF Restart, Initial
  <2> QED
    BY <2>1 DEF FanInv
<1> QED
  BY <1>4, <1>5, <1>6, <1>7, <1>8, NextKinds, InterruptEffects, InterruptSensors

LEMMA InitSensorInv == Init => SensorInv
<1> SUFFICES ASSUME Init PROVE SensorInv
  OBVIOUS
<1>1. /\ cold = 0 /\ still = 0 /\ ~heat.on /\ ~fan.cmd /\ ~fan.rpm /\ heat.temp = 0 /\ heat.target = 0
  BY DEF Init, Initial
<1>2. ~(heat.temp + HoldHysteresis < heat.target)
  BY <1>1, SensorConstants
<1> QED
  BY <1>1, <1>2 DEF SensorInv, ColdInv, FanInv

LEMMA SensorInvKept ==
    ASSUME AppInv, AppInv', SensorInv, [Next]_vars
    PROVE  SensorInv'
<1>1. TypeOK /\ PlaceInv /\ ColdInv /\ FanInv
  BY DEF AppInv, SensorInv
<1>2. TypeOK'
  BY DEF AppInv
<1>3. CASE Next
  BY <1>1, <1>2, <1>3, ColdKept, FanKept DEF SensorInv
<1>4. CASE UNCHANGED vars
  BY <1>1, <1>4 DEF vars, env, ghosts, SensorInv, ColdInv, FanInv, Slack, CheckAhead, SenseAhead,
       StallAhead, TelemetryAhead, HasFan, tool, booting
<1> QED
  BY <1>3, <1>4

\* What the guard of a heater and the stall detector of the fan time holds at
\* every step: the silence is no older than the window, the hold or the stall
\* that has begun, and what the loop is late.
THEOREM SensorInvariance == Spec => []SensorInv
<1>1. AppInv /\ AppInv' /\ SensorInv /\ [Next]_vars => SensorInv'
  BY SensorInvKept
<1> QED
  BY <1>1, InitSensorInv, AppInvariance, PTL DEF Spec

\* A sensor that stays silent is found out, for every head, limit and length
\* of a round, whatever readings came before and whatever the host sends: the
\* guard (ThermalGuard_Check) reports a reading that does not move far below
\* the target, and Watchdog_Safety_HotendFan a fan that does not turn.
THEOREM SilentSensors == Spec => []SilentSensorCaught
<1>1. AppInv /\ SensorInv => SilentSensorCaught
  <2> SUFFICES ASSUME AppInv, SensorInv PROVE SilentSensorCaught
    OBVIOUS
  <2>1. TypeOK /\ ColdInv /\ FanInv
    BY DEF AppInv, SensorInv
  <2>2. ASSUME ~err, heat.temp + HoldHysteresis < heat.target
        PROVE  cold <= GuardDelay + Rounds(4)
    <3>1. SilenceIsTimed(guard, heat.temp, heat.target, cold, Slack(CheckAhead))
      BY <2>1, <2>2 DEF ColdInv
    <3> QED
      BY <2>1, <3>1, SensorNumbers, SlackFacts, SilenceIsBounded
  <2>3. ASSUME ~err
        PROVE  still <= StallLimit + 1 + 2 * ScreenPeriod + Rounds(SplashRounds + 6)
    <3>1. CASE fan.cmd
      <4>1. StillnessIsTimed(fan, screen, splash, still, Slack(TelemetryAhead), Slack(StallAhead))
        BY <2>1, <2>3, <3>1 DEF FanInv
      <4> QED
        BY <2>1, <4>1, SensorNumbers, SlackFacts, StillnessIsBounded
    <3>2. CASE ~fan.cmd
      <4>1. Rounds(SplashRounds + 6) \in Nat
        BY AppAssumption DEF Rounds
      <4> QED
        BY <2>1, <3>2, <4>1, SensorConstants DEF FanInv
    <3> QED
      BY <3>1, <3>2
  <2>4. still \in Nat /\ Rounds(SplashRounds + 6) \in Nat
    BY <2>1, SensorNumbers, AppAssumption DEF Rounds
  <2> QED
    BY <2>2, <2>3, <2>4, SensorConstants DEF SilentSensorCaught
<1> QED
  BY <1>1, AppInvariance, SensorInvariance, PTL
=============================================================================
