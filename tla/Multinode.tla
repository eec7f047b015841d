----------------------------- MODULE Multinode -----------------------------
(***************************************************************************)
(* One tool head among several on a CAN bus: the pure logic of multinode.c *)
(* as operators on the record MnNode_t.                                    *)
(*                                                                         *)
(* The code keeps the instants at which something is due and compares them *)
(* with the clock; here each is the time left until then, which Aged       *)
(* counts down and which stays at zero once it is due.                     *)
(***************************************************************************)
EXTENDS Naturals

CONSTANTS
    MN_LEGACY_LISTEN,   \* Ticks a node listens after its start (1500 ms)
    MN_SELECT_TIMEOUT,  \* Ticks a selection holds (2000 ms)
    MN_STATUS_PERIOD    \* Ticks between two NODE_STATUS (1000 ms)

\* Two announcements fall into a listening window, or at least one whole period
ASSUME MnAssumption ==
    /\ {MN_LEGACY_LISTEN, MN_SELECT_TIMEOUT, MN_STATUS_PERIOD} \subseteq Nat \ {0}
    /\ MN_STATUS_PERIOD < MN_LEGACY_LISTEN

LISTEN     == "LISTEN"
UNSELECTED == "UNSELECTED"
SELECTED   == "SELECTED"
LEGACY     == "LEGACY"

MnNode == [phase : {LISTEN, UNSELECTED, SELECTED, LEGACY}, conflict : BOOLEAN,
           infoPending : BOOLEAN, infoDue : Nat, statusNow : BOOLEAN,
           statusDue : 0..MN_STATUS_PERIOD, listen : 0..MN_LEGACY_LISTEN,
           deadline : 0..MN_SELECT_TIMEOUT]

\* The slot of the first NODE_INFO, 2 ms per address, is shorter than a tick
MnInit == [phase |-> LISTEN, conflict |-> FALSE, infoPending |-> TRUE, infoDue |-> 0,
           statusNow |-> FALSE, statusDue |-> MN_STATUS_PERIOD,
           listen |-> MN_LEGACY_LISTEN, deadline |-> 0]

Minus1(t) == IF t = 0 THEN 0 ELSE t - 1

\* A tick of the clock: what has no meaning in the phase is kept at zero
Aged(n) == [n EXCEPT !.infoDue = Minus1(@), !.statusDue = Minus1(@),
                     !.listen = Minus1(@), !.deadline = Minus1(@)]

\* Mutant: a selection does not lapse
Lapsed_Never(n) == FALSE

Lapsed(n) == n.phase = SELECTED /\ n.deadline = 0

\* The transitions that time makes; every entry point begins with them
Advance(n) ==
    CASE n.phase = LISTEN /\ n.listen = 0 ->
           [n EXCEPT !.phase = IF n.conflict THEN UNSELECTED ELSE LEGACY]
      [] Lapsed(n) -> [n EXCEPT !.phase = UNSELECTED, !.statusNow = TRUE]
      [] OTHER -> n

MaySingleHead(n) == ~n.conflict /\ n.phase \in {SELECTED, LEGACY}

LeaveSelection(n) == [n EXCEPT !.phase = UNSELECTED, !.statusNow = TRUE, !.deadline = 0]

\* SELECT of this node; a node in conflict is never selected
Chosen(n) ==
    IF n.conflict THEN n
    ELSE [n EXCEPT !.phase = SELECTED, !.deadline = MN_SELECT_TIMEOUT, !.statusNow = TRUE]

\* Mutant: a board with the address of this one counts as any other
Clash_AsCompany(n) ==
    IF n.phase = LISTEN THEN [n EXCEPT !.phase = UNSELECTED, !.statusNow = TRUE] ELSE n

\* Another board announces itself with the address of this one: conflict, and
\* the glue puts the tool in its safe state
Clash(n) ==
    IF n.conflict THEN n
    ELSE [n EXCEPT !.conflict = TRUE, !.phase = UNSELECTED, !.statusNow = TRUE, !.deadline = 0]

\* Mutant: an announcement of another node is not noticed
Company_Ignored(n) == n

\* With another address: this node is not alone
Company(n) ==
    IF n.phase = LISTEN THEN [n EXCEPT !.phase = UNSELECTED, !.statusNow = TRUE] ELSE n

\* DISCOVER, to be answered after so many ticks
Discovered(n, wait) == [n EXCEPT !.infoPending = TRUE, !.infoDue = wait]

\* What Mn_Service has to send
InfoDue(n)   == n.infoPending /\ n.infoDue = 0
StatusDue(n) == n.statusNow \/ n.statusDue = 0

InfoSent(n)   == [n EXCEPT !.infoPending = FALSE]
StatusSent(n) == [n EXCEPT !.statusNow = FALSE, !.statusDue = MN_STATUS_PERIOD]
=============================================================================
