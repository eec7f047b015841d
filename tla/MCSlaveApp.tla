----------------------------- MODULE MCSlaveApp -----------------------------
(* The tools of an expansion board: the slave with two outputs, with two   *)
(* cameras and with both at work, or the camera wired to the head itself.  *)
(* A board has one or the other, so a behaviour is one of either.          *)
EXTENDS SlaveApp, DirectCamera, UnitChecks

CONSTANTS s40, s41, s42

VARIABLE board

MCUses ==
    {[registers |-> {"configure", "pulse", "stop", "adc", "bootloader"}, cameras |-> {}],
     [registers |-> {"variant", "capture", "status"}, cameras |-> {s40, s42, NoSensor}],
     [registers |-> {"pulse", "variant", "capture"}, cameras |-> {s40}]}

BoardInit ==
    /\ Init /\ CameraInit /\ board \in {"slave", "direct"}
    /\ board = "direct" => uses = CHOOSE u \in Uses : TRUE
    /\ board = "slave"  => variant = NoCamera

SlaveNext  == board = "slave" /\ Next /\ UNCHANGED <<cameraVars, board>>
DirectNext == board = "direct" /\ CameraNext /\ UNCHANGED <<vars, board>>

(* The main loop of the slave goes on, as in FairSpec. *)
SlaveMainStep == board = "slave" /\ MainStep /\ UNCHANGED <<cameraVars, board>>

BoardSpec ==
    /\ BoardInit /\ [][SlaveNext \/ DirectNext]_<<vars, cameraVars, board>>
    /\ WF_<<vars, cameraVars, board>>(SlaveMainStep)

-----------------------------------------------------------------------------
(* Whichever way the camera is wired, what the host is told is ready is a  *)
(* frame read to its end: none is being overwritten under the chunks that  *)
(* are asked for next, and on the head it is the one of the last trigger.  *)
ReadyIsOneFrame == ReadyMeansWhole /\ DirectReadyIsFresh
=============================================================================
