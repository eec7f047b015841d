----------------------------- MODULE MCRecords -----------------------------
(* What one head keeps through a power failure: in its application, and in *)
(* its bootloader.  Neither writes what the other keeps, so a behaviour is *)
(* one of either side.  The board is one that a host configures in one of  *)
(* two ways; the bootloader has the serial, the rotation, or both and a    *)
(* trust table that is damaged.                                            *)
EXTENDS Records, BootPage, TLC

CONSTANTS c1, c2, ramps

VARIABLE side

(* Nothing tells the two configurations of a host apart. *)
Hosts == Permutations({c1, c2})

Entry(k, s) == [key |-> k, state |-> s, ok |-> TRUE]
GoodTable == <<Entry("new", "next"), Entry("old", "current"), Entry("gone", "revoked")>>
BadTable  == <<Entry("old", "current"), [Entry("new", "next") EXCEPT !.ok = FALSE]>>
MCBuilds ==
    {[table |-> GoodTable, programmable |-> TRUE, rotation |-> FALSE],
     [table |-> GoodTable, programmable |-> FALSE, rotation |-> TRUE],
     [table |-> BadTable, programmable |-> TRUE, rotation |-> TRUE]}
MCHostTime == {0, 1, Wrap - 1}

KeptInit ==
    /\ Init /\ PageInit /\ side \in {"application", "bootloader"}
    /\ side = "application" => build = CHOOSE b \in Builds : TRUE

ApplicationNext == side = "application" /\ Next /\ UNCHANGED <<pageVars, side>>
BootloaderNext  == side = "bootloader" /\ PageNext /\ UNCHANGED <<vars, side>>

KeptSpec == KeptInit /\ [][ApplicationNext \/ BootloaderNext]_<<vars, pageVars, side>>
=============================================================================
