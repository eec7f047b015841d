--------------------------- MODULE AtomicInstall ---------------------------
(***************************************************************************)
(* What a URTC bootloader promises, whatever happens to the power: the     *)
(* board is committed to one image at a time, changes its mind in one      *)
(* step, never to an image nobody signed and never while it runs one, and  *)
(* what it runs is the whole of the image it is committed to.              *)
(***************************************************************************)
CONSTANTS Image, Signed, NoImage

VARIABLES
    committed,  \* The image the board is committed to, or NoImage
    running     \* The image that runs, or NoImage

vars == <<committed, running>>

Init ==
    /\ committed \in Image \cup {NoImage}
    /\ running = NoImage

\* An update is accepted.  It cannot be undone, only followed by another one
Install(i) ==
    /\ running = NoImage
    /\ i \in Signed
    /\ committed' = i
    /\ UNCHANGED running

Run ==
    /\ running = NoImage
    /\ committed # NoImage
    /\ running' = committed
    /\ UNCHANGED committed

\* The application resets, or the power is cut
Stop ==
    /\ running # NoImage
    /\ running' = NoImage
    /\ UNCHANGED committed

Next == (\E i \in Image : Install(i)) \/ Run \/ Stop

Spec == Init /\ [][Next]_vars
=============================================================================
