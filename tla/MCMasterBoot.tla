---------------------------- MODULE MCMasterBoot ----------------------------
(***************************************************************************)
(* MasterBoot on two or three small images.  a is the newest and the       *)
(* longest (a page and a half), b is older and takes one page, c is half a *)
(* page, with the newest version but a lower rollback counter.             *)
(***************************************************************************)
EXTENDS MasterBoot, TLC

CONSTANTS a, b, c, hw, other

V(x, y, z) == [major |-> x, minor |-> y, patch |-> z]

MCSize    == (a :> 3 @@ b :> 2 @@ c :> 1)
MCVersion == (a :> V(1, 1, 1) @@ b :> V(1, 1, 0) @@ c :> V(2, 0, 0))
MCCounter == (a :> 1 @@ b :> 1 @@ c :> 0)
MCHardwareOf == (a :> hw @@ b :> hw @@ c :> hw)
MCBootVersion == V(1, 0, 0)

OnImages(f) == [i \in Image |-> f[i]]
MCSizes     == OnImages(MCSize)
MCVersions  == OnImages(MCVersion)
MCCounters  == OnImages(MCCounter)
MCHardwares == OnImages(MCHardwareOf)
=============================================================================
