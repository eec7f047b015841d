------------------------------ MODULE MCHeads ------------------------------
(***************************************************************************)
(* Heads with two heads: their jumpers set to two addresses, or to one.    *)
(***************************************************************************)
EXTENDS Heads, TLC

CONSTANTS g, h

MCAssignments == {(g :> 0 @@ h :> 1), (g :> 1 @@ h :> 1)}
MCSwitches == {[i \in Head |-> TRUE]}
=============================================================================
