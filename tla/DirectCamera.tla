---------------------------- MODULE DirectCamera ----------------------------
(* The thermal camera on the expansion bus of the head itself.  A trigger  *)
(* comes in the CAN interrupt and is served in the main loop, which reads  *)
(* the frame and computes its temperatures while the interrupt goes on     *)
(* answering; a camera of the stepped kind is only started there and is    *)
(* read by the interrupt that finds it ready.  The 90640 measures half of  *)
(* its pixels at a time, in a chessboard, and a capture reads one such     *)
(* half: the temperatures of the other one stay as they were.              *)
EXTENDS Integers

CONSTANTS
    Blocking,       \* cameras read whole in the main loop (90640, 90641)
    Interleaved,    \* of those, the ones that measure by halves (90640)
    Stepped,        \* cameras read by the status query (90642)
    NoCamera,       \* MLX_VARIANT_NONE
    MaxTriggers     \* bound: triggers taken on per camera

ASSUME DirectCameraAssumption ==
    /\ Interleaved \subseteq Blocking
    /\ Blocking \cap Stepped = {} /\ NoCamera \notin Blocking \cup Stepped
    /\ MaxTriggers \in Nat

VARIABLES
    variant,    \* the camera the host says is there
    pending,    \* the camera whose capture was asked for and is not over
    stage,      \* where the main loop is in the capture
    status,     \* per camera, what its driver says of its capture
    raw,        \* per camera, the trigger its pixels were read for
    temps,      \* per camera and half, the trigger its temperatures are of
    asked,      \* per camera, the triggers taken on
    told        \* what the host knows: the camera and trigger it was told READY of

cameraVars == <<variant, pending, stage, status, raw, temps, asked, told>>

Camera == Blocking \cup Stepped
Torn == 0 - 1
Half == {0, 1}
(* The halves of which one capture brings the temperatures. *)
Brought(c) == IF c \in Interleaved THEN {{0}, {1}} ELSE {Half}
Nothing == [of |-> NoCamera, trigger |-> 0]

CameraTypeOK ==
    /\ variant \in Camera \cup {NoCamera} /\ pending \in Camera \cup {NoCamera}
    /\ stage \in {"idle", "begun", "reading", "read", "computing", "over"}
    /\ status \in [Camera -> {"idle", "busy", "ready", "error"}]
    /\ raw \in [Camera -> Torn .. MaxTriggers]
    /\ temps \in [Camera -> [Half -> Torn .. MaxTriggers]]
    /\ asked \in [Camera -> 0 .. MaxTriggers]
    /\ told \in [of : Camera \cup {NoCamera}, trigger : 0 .. MaxTriggers]

CameraInit ==
    /\ variant \in Camera \cup {NoCamera} /\ pending = NoCamera /\ stage = "idle"
    /\ status = [c \in Camera |-> "idle"]
    /\ raw = [c \in Camera |-> 0] /\ temps = [c \in Camera |-> [h \in Half |-> 0]]
    /\ asked = [c \in Camera |-> 0] /\ told = Nothing

-----------------------------------------------------------------------------
(* The interrupt: the frames of the host *)

(* 0x1A6: a camera that nothing initialises before the next start. *)
SetCamera ==
    /\ \E c \in Camera \cup {NoCamera} : variant' = c
    /\ told' = Nothing
    /\ UNCHANGED <<pending, stage, status, raw, temps, asked>>

(* A trigger while a capture runs is not queued. *)
AskCapture ==
    /\ variant # NoCamera /\ pending = NoCamera /\ asked[variant] < MaxTriggers
    /\ pending' = variant
    /\ asked' = [asked EXCEPT ![variant] = @ + 1]
    /\ told' = Nothing
    /\ UNCHANGED <<variant, stage, status, raw, temps>>

Answer_Driver == IF variant = NoCamera THEN "error" ELSE status[variant]
(* What a status query of the host is answered. *)
Answer ==
    CASE pending # NoCamera -> "busy"
      [] variant = NoCamera -> "error"
      [] OTHER -> status[variant]

QueryReady ==
    /\ Answer = "ready"
    /\ told' = [of |-> variant, trigger |-> asked[variant]]
    /\ UNCHANGED <<variant, pending, stage, status, raw, temps, asked>>

(* The query that finds a stepped camera with its data ready reads them. *)
QueryReads ==
    /\ pending = NoCamera /\ variant \in Stepped /\ status[variant] = "busy"
    /\ \/ /\ raw' = [raw EXCEPT ![variant] = asked[variant]]
          /\ temps' = [temps EXCEPT ![variant] = [h \in Half |-> asked[variant]]]
          /\ status' = [status EXCEPT ![variant] = "ready"]
          /\ told' = [of |-> variant, trigger |-> asked[variant]]
       \/ /\ raw' = [raw EXCEPT ![variant] = Torn]
          /\ status' = [status EXCEPT ![variant] = "error"]
          /\ UNCHANGED <<temps, told>>
    /\ UNCHANGED <<variant, pending, stage, asked>>

-----------------------------------------------------------------------------
(* The main loop: ThermalInspection_Service *)

ServeCapture ==
    /\ stage = "idle" /\ pending # NoCamera
    /\ stage' = "begun"
    /\ status' = [status EXCEPT ![pending] = "busy"]
    /\ UNCHANGED <<variant, pending, raw, temps, asked, told>>

CaptureFailed ==
    /\ stage \in {"begun", "reading"}
    /\ stage' = "over"
    /\ status' = [status EXCEPT ![pending] = "error"]
    /\ UNCHANGED <<variant, pending, raw, temps, asked, told>>

(* A stepped camera is started and left to itself. *)
SteppedStarted ==
    /\ stage = "begun" /\ pending \in Stepped
    /\ stage' = "over"
    /\ UNCHANGED <<variant, pending, status, raw, temps, asked, told>>

BeginRead ==
    /\ stage = "begun" /\ pending \in Blocking
    /\ stage' = "reading" /\ raw' = [raw EXCEPT ![pending] = Torn]
    /\ UNCHANGED <<variant, pending, status, temps, asked, told>>
EndRead ==
    /\ stage = "reading"
    /\ stage' = "read" /\ raw' = [raw EXCEPT ![pending] = asked[pending]]
    /\ UNCHANGED <<variant, pending, status, temps, asked, told>>
BeginCompute ==
    /\ stage = "read"
    /\ stage' = "computing"
    /\ \E part \in Brought(pending) :
         temps' = [temps EXCEPT ![pending] =
                     [h \in Half |-> IF h \in part THEN Torn ELSE @[h]]]
    /\ UNCHANGED <<variant, pending, status, raw, asked, told>>
EndCompute ==
    /\ stage = "computing"
    /\ stage' = "over"
    /\ temps' = [temps EXCEPT ![pending] =
                   [h \in Half |-> IF @[h] = Torn THEN raw[pending] ELSE @[h]]]
    /\ status' = [status EXCEPT ![pending] = "ready"]
    /\ UNCHANGED <<variant, pending, raw, asked, told>>

CaptureOver ==
    /\ stage = "over"
    /\ stage' = "idle" /\ pending' = NoCamera
    /\ UNCHANGED <<variant, status, raw, temps, asked, told>>

(* A capture longer than the watchdog allows, or any other reset: the      *)
(* camera is read back from the saved configuration.                       *)
HeadReset ==
    /\ pending' = NoCamera /\ stage' = "idle"
    /\ status' = [c \in Camera |-> "idle"]
    /\ raw' = [c \in Camera |-> 0] /\ temps' = [c \in Camera |-> [h \in Half |-> 0]]
    /\ \E c \in Camera \cup {NoCamera} : variant' = c
    /\ told' = Nothing /\ UNCHANGED asked

CameraNext ==
    \/ SetCamera \/ AskCapture \/ QueryReady \/ QueryReads
    \/ ServeCapture \/ CaptureFailed \/ SteppedStarted
    \/ BeginRead \/ EndRead \/ BeginCompute \/ EndCompute \/ CaptureOver
    \/ HeadReset

-----------------------------------------------------------------------------
(* A host that was told READY reads some hundred chunks without any other  *)
(* check: until it asks for a new capture or another camera, the pixels    *)
(* are of the capture it asked for last, no temperature is half computed,  *)
(* and the ones that this capture brought are in place: all of them, or of *)
(* a camera that measures by halves one half.                              *)
DirectReadyIsFresh ==
    told.of # NoCamera =>
        /\ told.of = variant /\ told.trigger = asked[variant]
        /\ raw[variant] = told.trigger
        /\ \A h \in Half : temps[variant][h] # Torn
        /\ \E part \in Brought(variant) :
             \A h \in part : temps[variant][h] = told.trigger

(* The inductive invariant behind it: a camera that is ready and not being *)
(* read has the frame of its last trigger; the stages of a capture bring   *)
(* it there.                                                               *)
Fresh(c) ==
    /\ raw[c] = asked[c]
    /\ \E part \in Brought(c) : \A h \in part : temps[c][h] = asked[c]

CaptureInv ==
    /\ CameraTypeOK
    /\ pending = NoCamera => stage = "idle"
    /\ stage \in {"reading", "read", "computing"} => pending \in Blocking
    /\ stage \in {"begun", "reading", "read", "computing"} => status[pending] # "ready"
    /\ stage \in {"read", "computing"} => raw[pending] = asked[pending]
    /\ \A c \in Camera, h \in Half :
          temps[c][h] = Torn => stage = "computing" /\ pending = c
    /\ stage = "computing" => \E part \in Brought(pending) :
          \A h \in part : temps[pending][h] = Torn
    /\ \A c \in Camera :
          status[c] = "ready" /\ (pending # c \/ stage = "over") => Fresh(c)
    /\ told.of # NoCamera =>
          /\ told.of = variant /\ told.trigger = asked[variant]
          /\ pending = NoCamera /\ status[variant] = "ready"

-----------------------------------------------------------------------------
(* The chunks of a frame: sixteen pixels each, zeros beyond the last. *)
ChunkPixels(pixels, index) ==
    IF index >= pixels \div 16 THEN {} ELSE (index * 16) .. (index * 16 + 15)

(* A temperature in the two bytes of a chunk stops at the ends. *)
Saturated(v) == IF v > 32767 THEN 32767 ELSE IF v < 0 - 32768 THEN 0 - 32768 ELSE v
(* The third kind reports fiftieths of a degree, the others hundredths. *)
Rescaled(v) == Saturated(IF v < 0 THEN 0 - (((0 - v) * 100) \div 50) ELSE (v * 100) \div 50)
=============================================================================
