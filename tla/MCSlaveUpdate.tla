--------------------------- MODULE MCSlaveUpdate ---------------------------
(***************************************************************************)
(* SlaveUpdate on two images and slots of one page, which a fills and c    *)
(* does not.  Only a is signed: the host may send c with the record of a.  *)
(***************************************************************************)
EXTENDS SlaveUpdate, TLC

CONSTANTS a, c, hw

V(x, y, z) == [major |-> x, minor |-> y, patch |-> z]

MCSize     == (a :> 2 @@ c :> 1)
MCVersion  == (a :> V(1, 1, 1) @@ c :> V(1, 1, 2))
MCCounter  == (a :> 1 @@ c :> 0)
OnImages(f) == [i \in Image |-> f[i]]
MCSizes     == OnImages(MCSize)
MCVersions  == OnImages(MCVersion)
MCCounters  == OnImages(MCCounter)
MCHardwares == [i \in Image |-> hw]

MCAttempts == {<<i, j>> \in Image \X Image : i = j \/ j \in Signed}

MCBootVersion == V(1, 0, 0)
=============================================================================
