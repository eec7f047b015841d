---------------------------- MODULE MCSlaveBoot ----------------------------
(***************************************************************************)
(* SlaveBoot on two small images: a, of a page and a half, is newer than   *)
(* c, of half a page, but has the higher counter.                          *)
(***************************************************************************)
EXTENDS SlaveBoot, TLC

CONSTANTS a, c, hw

V(x, y, z) == [major |-> x, minor |-> y, patch |-> z]

MCSize     == (a :> 3 @@ c :> 1)
MCVersion  == (a :> V(1, 1, 1) @@ c :> V(1, 1, 2))
MCCounter  == (a :> 1 @@ c :> 0)
MCHardware == (a :> hw @@ c :> hw)
OnImages(f) == [i \in Image |-> f[i]]
MCSizes     == OnImages(MCSize)
MCVersions  == OnImages(MCVersion)
MCCounters  == OnImages(MCCounter)
MCHardwares == OnImages(MCHardware)

MCBootVersion == V(1, 0, 0)

\* Bound: with a flash error or a cut, of which there are two at most, there is one
\* image only, as in a board that knows no other.  Without either both are sent, in
\* parts and mixed.
OnlyOf(i, u) ==
    /\ u.total \in {0, Size[i]} /\ u.version \in {BootVersion} \cup Declared(i)
    /\ \A k \in DOMAIN u.stream : u.stream[k] = i
    /\ u.digest \in {NoDigest, ImageDigest(i)} /\ u.counter \in {NoCounter, RollbackCounter[i]}
OneImage ==
    \/ faults + cuts = 0
    \/ /\ faults + cuts <= 2
       /\ c \notin {main[k] : k \in Cells} \cup {backup[k] : k \in Cells} /\ OnlyOf(a, upd)
       /\ CASE deferred.op = "none" -> TRUE
            [] deferred.op = "end"  -> deferred.crc = ImageDigest(a) /\ deferred.version \in Declared(a)
            [] OTHER -> deferred.tag.digest = ImageDigest(a) /\ deferred.tag.version \in Declared(a)
=============================================================================
