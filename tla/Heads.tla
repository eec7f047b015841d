------------------------------- MODULE Heads -------------------------------
(***************************************************************************)
(* Several tool heads on one CAN bus, and their host.  Each head goes      *)
(* through its bootloader (urtc_bl_select.h) and the splash screen into    *)
(* the main loop of its application (multinode.c).                         *)
(*                                                                         *)
(* A frame is heard at once by every other head, but for the heads that    *)
(* lose it.  Time advances in ticks; a main loop turns many times in one,  *)
(* so a tick waits until every head in its loop has sent what is due and   *)
(* no window is over unnoticed.                                            *)
(***************************************************************************)
EXTENDS Multinode, FiniteSets

CONSTANTS
    Head,           \* The heads; each is also its own serial number
    Assignments,    \* The addresses their jumpers may be set to: functions of Head
    Switches,       \* What their F-RAM may hold at first
    Waits,          \* Ticks until the answer to a DISCOVER is due
    BL_SELECT_LAPSE,    \* Ticks a selection holds (2000 ms, and the tick in which it ends)
    BL_ADDRESSED_LAPSE, \* Ticks addressed mode holds after a command (10000 ms)
    Window, Splash, \* Ticks of the bootloader's window (600 ms) and of the splash (5 s)
    MaxFrames,      \* Bound: frames the host sends
    MaxMishaps      \* Bound: losses of power, and frames lost (for each head that loses one)

ASSUME HeadsAssumption ==
    /\ IsFiniteSet(Head) /\ Assignments \subseteq [Head -> Nat]
    /\ Switches \subseteq [Head -> BOOLEAN]
    /\ Waits \subseteq Nat
    /\ {Window, Splash, MaxFrames, MaxMishaps} \subseteq Nat

-----------------------------------------------------------------------------
(* One bootloader among several, addressed by its serial number:           *)
(* urtc_bl_select.h as operators on the record urtc_bl_node_t.  As in      *)
(* Multinode an instant is kept as the time left until its limit.          *)

ASSUME BlAssumption == {BL_SELECT_LAPSE, BL_ADDRESSED_LAPSE} \subseteq Nat \ {0}

BlNode == [addressed : BOOLEAN, selected : BOOLEAN,
           cmdLeft : 0..BL_ADDRESSED_LAPSE, selectLeft : 0..BL_SELECT_LAPSE]

BlInit == [addressed |-> FALSE, selected |-> FALSE, cmdLeft |-> 0, selectLeft |-> 0]

BlAged(b) == [b EXCEPT !.cmdLeft = IF @ = 0 THEN 0 ELSE @ - 1,
                       !.selectLeft = IF @ = 0 THEN 0 ELSE @ - 1]

\* A transfer that has started is never cut off by a timer
Lapse(b, busy) ==
    LET a == IF b.addressed /\ b.cmdLeft = 0
             THEN [b EXCEPT !.addressed = FALSE, !.selected = FALSE, !.selectLeft = 0] ELSE b
    IN  IF busy THEN b
        ELSE IF a.selected /\ a.selectLeft = 0 THEN [a EXCEPT !.selected = FALSE] ELSE a

\* Whether a frame of the update protocol is obeyed, after Lapse
Accepts(b) == ~b.addressed \/ b.selected

Heard(b) == [b EXCEPT !.addressed = TRUE, !.cmdLeft = BL_ADDRESSED_LAPSE]

\* SELECT with the serial of this bootloader, with another one, or RELEASE
SelectMine(b) == [Heard(b) EXCEPT !.selected = TRUE, !.selectLeft = BL_SELECT_LAPSE]

\* Mutant: the serial is compared but the selection of another one is ignored
SelectOther_Ignored(b) == Heard(b)

SelectOther(b) == [Heard(b) EXCEPT !.selected = FALSE, !.selectLeft = 0]

-----------------------------------------------------------------------------
VARIABLES
    address,   \* The jumpers
    stored,    \* The switch in F-RAM: a valid record says on
    enabled,   \* What the application read of it when it started
    mode,      \* Where a head is
    left,      \* Ticks left of the window or of the splash
    node,      \* MnNode_t of its application
    bl,        \* urtc_bl_node_t of its bootloader
    busy,      \* update_in_progress of its bootloader
    driving,   \* Its tool was set in motion or heated, and not stopped since
    frames, mishaps,
    \* For the properties: ticks since the host last selected an address;
    \* the heads that were announcing themselves, and were heard, during all of
    \* a head's listening window; the head whose serial the host selected last,
    \* unless it released; the bootloaders on which that command was lost
    asked, company, wanted, missed

app  == <<node, enabled, driving>>
boot == <<bl, busy>>
env  == <<frames, mishaps>>
ghost == <<asked, company, wanted, missed>>
vars == <<address, stored, mode, left, app, boot, env, ghost>>

Addresses == UNION {{f[h] : h \in Head} : f \in Assignments}

InApp(h)  == mode[h] \in {"splash", "loop"}
InBoot(h) == mode[h] \in {"window", "stay"}

\* Whether a head would obey a single-head frame now
Obeys(h) == InApp(h) /\ (enabled[h] => MaySingleHead(Advance(node[h])))

Announces(h) == mode[h] = "loop" /\ enabled[h]

TypeOK ==
    /\ address \in Assignments
    /\ stored \in [Head -> BOOLEAN] /\ enabled \in [Head -> BOOLEAN]
    /\ mode \in [Head -> {"off", "window", "stay", "splash", "loop"}]
    /\ left \in [Head -> 0..(Window + Splash)]
    /\ node \in [Head -> MnNode]
    /\ bl \in [Head -> BlNode]
    /\ busy \in [Head -> BOOLEAN] /\ driving \in [Head -> BOOLEAN]
    /\ frames \in 0..MaxFrames /\ mishaps \in 0..MaxMishaps
    /\ asked \in [Addresses -> 0..MN_SELECT_TIMEOUT]
    /\ company \in [Head -> SUBSET Head]
    /\ wanted \in SUBSET Head /\ missed \in [Head -> BOOLEAN]
    /\ \A h \in Head : ~InApp(h) => ~driving[h]
    /\ \A h \in Head : busy[h] => mode[h] = "stay"

Init ==
    /\ address \in Assignments
    /\ stored \in Switches
    /\ enabled = [h \in Head |-> FALSE]
    /\ mode = [h \in Head |-> "off"]
    /\ left = [h \in Head |-> 0]
    /\ node = [h \in Head |-> MnInit]
    /\ bl = [h \in Head |-> BlInit]
    /\ busy = [h \in Head |-> FALSE] /\ driving = [h \in Head |-> FALSE]
    /\ frames = 0 /\ mishaps = 0
    /\ asked = [a \in Addresses |-> MN_SELECT_TIMEOUT]
    /\ company = [h \in Head |-> {}]
    /\ wanted = {} /\ missed = [h \in Head |-> FALSE]

-----------------------------------------------------------------------------
(* The bus *)

\* The host sends a frame, which the heads in lost do not hear
HostSends(lost) ==
    /\ frames < MaxFrames
    /\ \A h \in lost : mode[h] # "off"
    /\ frames' = frames + 1
    /\ mishaps + Cardinality(lost) <= MaxMishaps
    /\ mishaps' = mishaps + Cardinality(lost)

\* A frame through Mn_OnRx of the heads that hear it: F is what it does there
Receive(lost, F(_, _)) ==
    node' = [h \in Head |->
               IF InApp(h) /\ enabled[h] /\ h \notin lost
               THEN F(h, Advance(node[h])) ELSE node[h]]

\* The bootloaders that hear a frame
Bootloaders(lost) == {h \in Head : InBoot(h) /\ h \notin lost}

-----------------------------------------------------------------------------
(* The host and the applications *)

\* DISCOVER, 0x400
Discover(wait, lost) ==
    /\ HostSends(lost)
    /\ Receive(lost, LAMBDA h, n : Discovered(n, wait * address[h]))
    /\ UNCHANGED <<address, stored, mode, left, enabled, driving, boot, ghost>>

\* SELECT of an address, 0x401
Select(a, lost) ==
    /\ HostSends(lost)
    /\ Receive(lost, LAMBDA h, n : IF address[h] = a THEN Chosen(n) ELSE LeaveSelection(n))
    /\ asked' = [asked EXCEPT ![a] = 0]
    /\ UNCHANGED <<address, stored, mode, left, enabled, driving, boot, company, wanted, missed>>

\* SELECT with action 0
DeselectAll(lost) ==
    /\ HostSends(lost)
    /\ Receive(lost, LAMBDA h, n : LeaveSelection(n))
    /\ UNCHANGED <<address, stored, mode, left, enabled, driving, boot, ghost>>

\* SAFE_STOP, 0x402: every head that has the extension, selected or not
SafeStop(lost) ==
    /\ HostSends(lost)
    /\ Receive(lost, LAMBDA h, n : n)
    /\ driving' = [h \in Head |-> driving[h] /\ ~(enabled[h] /\ h \notin lost)]
    /\ UNCHANGED <<address, stored, mode, left, enabled, boot, ghost>>

\* A single-head frame that sets the tool going, or stops it
Command(on, lost) ==
    /\ HostSends(lost)
    /\ Receive(lost, LAMBDA h, n : n)
    /\ driving' = [h \in Head |-> IF Obeys(h) /\ h \notin lost THEN on ELSE driving[h]]
    /\ UNCHANGED <<address, stored, mode, left, enabled, boot, ghost>>

\* SET_MULTINODE, 0x1AC: the switch acts after the next start
SetMultinode(on, lost) ==
    /\ HostSends(lost)
    /\ Receive(lost, LAMBDA h, n : n)
    /\ stored' = [h \in Head |-> IF Obeys(h) /\ h \notin lost THEN on ELSE stored[h]]
    /\ UNCHANGED <<address, mode, left, enabled, driving, boot, ghost>>

-----------------------------------------------------------------------------
(* A head starts *)

\* The state of the heads in S after a reset: they are in their bootloaders
Restarted(S) ==
    /\ mode' = [h \in Head |-> IF h \in S THEN "window" ELSE mode[h]]
    /\ left' = [h \in Head |-> IF h \in S THEN Window ELSE left[h]]
    /\ node' = [h \in Head |-> IF h \in S THEN MnInit ELSE node[h]]
    /\ enabled' = [h \in Head |-> enabled[h] /\ h \notin S]
    /\ driving' = [h \in Head |-> driving[h] /\ h \notin S]
    /\ bl' = [h \in Head |-> IF h \in S THEN BlInit ELSE bl[h]]
    /\ busy' = [h \in Head |-> busy[h] /\ h \notin S]
    /\ company' = [h \in Head |-> IF h \in S THEN {} ELSE company[h] \ S]
    /\ missed' = [h \in Head |-> missed[h] /\ h \notin S]

\* Power, for the first time or after a cut.  A cut while the switch is being
\* written leaves a record that is not valid, and reads as off
PowerUp(h) ==
    /\ \/ mode[h] = "off" /\ UNCHANGED <<stored, mishaps>>
       \/ /\ mode[h] # "off" /\ mishaps < MaxMishaps
          /\ mishaps' = mishaps + 1
          /\ \/ UNCHANGED stored
             \/ Obeys(h) /\ stored' = [stored EXCEPT ![h] = FALSE]
    /\ Restarted({h})
    /\ UNCHANGED <<address, frames, asked, wanted>>

\* 0x7F0: the heads that obey it make everything safe and reset
EnterBootloader(lost) ==
    /\ HostSends(lost)
    /\ Restarted({h \in Head \ lost : Obeys(h)})
    /\ UNCHANGED <<address, stored, asked, wanted>>

\* The window ends with no update: the application starts.  MultiNode_Init
\* comes before the splash, MultiNode_Service after it
StartApplication(h) ==
    /\ mode[h] = "window" /\ left[h] = 0
    /\ mode' = [mode EXCEPT ![h] = "splash"]
    /\ left' = [left EXCEPT ![h] = Splash]
    /\ enabled' = [enabled EXCEPT ![h] = stored[h]]
    /\ node' = [node EXCEPT ![h] = MnInit]
    /\ company' = [company EXCEPT ![h] = {g \in Head \ {h} : Announces(g)}]
    /\ UNCHANGED <<address, stored, driving, boot, env, asked, wanted, missed>>

EndSplash(h) ==
    /\ mode[h] = "splash" /\ left[h] = 0
    /\ mode' = [mode EXCEPT ![h] = "loop"]
    /\ UNCHANGED <<address, stored, left, app, boot, env, ghost>>

-----------------------------------------------------------------------------
(* The heads announce themselves *)

\* A frame of head h with its address, through Mn_OnRx of the others.  The
\* glue of a head that finds a conflict puts the tool in its safe state
Announce(h, lost) ==
    /\ mishaps + Cardinality(lost) <= MaxMishaps
    /\ mishaps' = mishaps + Cardinality(lost)
    /\ \A g \in lost : g # h /\ InApp(g) /\ enabled[g]
    /\ company' = [g \in Head |-> IF g \in lost THEN {} ELSE company[g]]
    /\ UNCHANGED <<address, stored, mode, left, enabled, boot, frames, asked, wanted, missed>>

\* Whether the frame of h is a clash for g
Clashes(g, h, lost) ==
    InApp(g) /\ enabled[g] /\ g \notin lost \cup {h} /\ address[g] = address[h]

AfterAnnounce(g, h, lost) ==
    IF ~(InApp(g) /\ enabled[g]) \/ g \in lost THEN node[g]
    ELSE IF address[g] = address[h] THEN Clash(Advance(node[g]))
    ELSE Company(Advance(node[g]))

\* Mutant: a clash does not stop the tool
StopsOnClash_Never(g, h, lost) == FALSE

StopsOnClash(g, h, lost) == Clashes(g, h, lost) /\ ~node[g].conflict

HeardByOthers(h, lost, mine) ==
    /\ node' = [g \in Head |-> IF g = h THEN mine ELSE AfterAnnounce(g, h, lost)]
    /\ driving' = [g \in Head |-> driving[g] /\ ~StopsOnClash(g, h, lost)]

\* MultiNode_Service sends the NODE_INFO that is due
ServiceInfo(h, lost) ==
    /\ Announces(h)
    /\ InfoDue(Advance(node[h]))
    /\ Announce(h, lost)
    /\ HeardByOthers(h, lost, InfoSent(Advance(node[h])))

\* Else the NODE_STATUS, on a change or every period
ServiceStatus(h, lost) ==
    /\ Announces(h)
    /\ ~InfoDue(Advance(node[h])) /\ StatusDue(Advance(node[h]))
    /\ Announce(h, lost)
    /\ HeardByOthers(h, lost, StatusSent(Advance(node[h])))

-----------------------------------------------------------------------------
(* The host and the bootloaders *)

\* A frame of the bootloader's protocol; the applications take no part
BootFrame(lost) ==
    /\ HostSends(lost)
    /\ \A h \in lost : InBoot(h)
    /\ UNCHANGED <<address, stored, left, app, asked, company>>

Lapsing(lost) == [h \in Head |-> IF h \in Bootloaders(lost) THEN Lapse(bl[h], busy[h]) ELSE bl[h]]

\* 0x7EA PROBE, or UID
Probe(lost) ==
    /\ BootFrame(lost)
    /\ bl' = [h \in Head |-> IF h \in Bootloaders(lost) THEN Heard(Lapsing(lost)[h]) ELSE bl[h]]
    /\ UNCHANGED <<mode, busy, wanted, missed>>

\* What the properties keep of a SELECT of the head in S, or of a RELEASE
Selecting(S, lost) ==
    /\ wanted' = S
    /\ missed' = [h \in Head |-> h \in lost]

\* 0x7EA SELECT of the bootloader with the serial of head g
BlSelectHead(g, lost) ==
    /\ BootFrame(lost)
    /\ bl' = [h \in Head |-> IF h \notin Bootloaders(lost) THEN bl[h]
                             ELSE IF h = g THEN SelectMine(Lapsing(lost)[h])
                             ELSE SelectOther(Lapsing(lost)[h])]
    /\ Selecting({g}, lost)
    /\ UNCHANGED <<mode, busy>>

\* 0x7EA RELEASE
Release(lost) ==
    /\ BootFrame(lost)
    /\ bl' = [h \in Head |-> IF h \in Bootloaders(lost) THEN SelectOther(Lapsing(lost)[h]) ELSE bl[h]]
    /\ Selecting({}, lost)
    /\ UNCHANGED <<mode, busy>>

\* The bootloaders that obey a frame of an update
Obeying(lost) == {h \in Bootloaders(lost) : Accepts(Lapse(bl[h], busy[h]))}

\* The main loop leaves the window for the loop of the update
StayFor(S) == [h \in Head |-> IF h \in S THEN "stay" ELSE mode[h]]

\* START_UPDATE: an update begins, or begins again
StartUpdate(lost) ==
    /\ BootFrame(lost)
    /\ bl' = Lapsing(lost)
    /\ busy' = [h \in Head |-> busy[h] \/ h \in Obeying(lost)]
    /\ mode' = StayFor(Obeying(lost))
    /\ UNCHANGED <<wanted, missed>>

\* END_UPDATE: the image is installed and the head resets
EndUpdate(lost) ==
    /\ HostSends(lost)
    /\ Restarted({h \in Obeying(lost) : busy[h]})
    /\ UNCHANGED <<address, stored, asked, wanted>>

\* An END that is refused, or ten seconds of silence
GiveUp(h) ==
    /\ busy[h]
    /\ busy' = [busy EXCEPT ![h] = FALSE]
    /\ UNCHANGED <<address, stored, mode, left, app, bl, env, ghost>>

-----------------------------------------------------------------------------
(* Time *)

\* A head has something to do before the clock moves on
Urgent(h) ==
    \/ mode[h] \in {"window", "splash"} /\ left[h] = 0
    \/ Announces(h) /\ (InfoDue(Advance(node[h])) \/ StatusDue(Advance(node[h])))

Tick ==
    /\ \A h \in Head : ~Urgent(h)
    /\ left' = [h \in Head |-> Minus1(left[h])]
    /\ node' = [h \in Head |-> IF InApp(h) /\ enabled[h] THEN Aged(node[h]) ELSE node[h]]
    /\ bl' = [h \in Head |-> BlAged(bl[h])]
    /\ asked' = [a \in Addresses |-> IF asked[a] = MN_SELECT_TIMEOUT THEN asked[a] ELSE asked[a] + 1]
    /\ UNCHANGED <<address, stored, mode, enabled, driving, busy, env, company, wanted, missed>>

HostStep ==
    \E lost \in SUBSET Head :
        \/ \E w \in Waits : Discover(w, lost)
        \/ \E a \in Addresses : Select(a, lost)
        \/ DeselectAll(lost)
        \/ SafeStop(lost)
        \/ \E on \in BOOLEAN : Command(on, lost)
        \/ \E on \in BOOLEAN : SetMultinode(on, lost)
        \/ EnterBootloader(lost)
        \/ Probe(lost)
        \/ \E g \in Head : BlSelectHead(g, lost)
        \/ Release(lost)
        \/ StartUpdate(lost)
        \/ EndUpdate(lost)

HeadStep(h) ==
    \/ StartApplication(h)
    \/ EndSplash(h)
    \/ \E lost \in SUBSET Head : ServiceInfo(h, lost) \/ ServiceStatus(h, lost)

Next ==
    \/ HostStep
    \/ \E h \in Head : HeadStep(h) \/ PowerUp(h) \/ GiveUp(h)
    \/ Tick

Spec == Init /\ [][Next]_vars

-----------------------------------------------------------------------------
(* Properties *)

\* A host that stopped repeating SELECT leaves no node selected: whoever obeys
\* because it was selected was selected less than 2 s ago (multinode.c:62-66)
SelectionLapses ==
    \A h \in Head :
        InApp(h) /\ enabled[h] /\ Advance(node[h]).phase = SELECTED
            => asked[address[h]] < MN_SELECT_TIMEOUT

\* A head that starts beside one that is announcing itself does not take
\* itself for the only one, unless it lost an announcement: the listening
\* window is longer than the period of the status (multinode.c:59-61, 110-122)
NewcomerWaits ==
    \A h \in Head :
        InApp(h) /\ enabled[h] /\ Advance(node[h]).phase = LEGACY => company[h] = {}

\* A head that cannot be told apart from another does not drive its tool, from
\* the moment it knows until it starts again (multinode.c:110-117, 84-97)
ClashStops == \A h \in Head : InApp(h) /\ enabled[h] /\ node[h].conflict => ~driving[h]

\* A head that starts beside one with its own address that is announcing
\* itself knows of the conflict by the end of its listening window, unless it
\* lost an announcement (multinode.c:110-117)
TwinKnown ==
    \A i, j \in Head :
        InApp(i) /\ enabled[i] /\ node[i].listen = 0
            => (j \in company[i] /\ address[i] = address[j] => node[i].conflict)

\* Of several heads in their bootloaders a START opens an update only at the
\* head the host selected last, in time, or at one that lost that selection or
\* release and was selected before; but for heads that heard no command since
\* they restarted, or for 10 s (urtc_bl_select.h:94-119, 156-168)
StartIsForMe ==
    [][\A h \in Head :
          ~busy[h] /\ busy'[h] =>
              \/ (wanted = {h} \/ missed[h]) /\ bl[h].selectLeft > 0
              \/ bl[h].cmdLeft = 0]_vars

\* Of the heads in their bootloaders at most one is selected, as
\* docs/BENCH_TESTS.md:133-134 expects: not so when one loses the selection of
\* another, until its own selection lapses (urtc_bl_select.h:156-168)
OneSelected ==
    \A g, h \in Head :
        /\ InBoot(g) /\ Lapse(bl[g], busy[g]).selected
        /\ InBoot(h) /\ Lapse(bl[h], busy[h]).selected
        => g = h

-----------------------------------------------------------------------------
(* The inductive invariant behind them                                     *)

Runs(h) == InApp(h) /\ enabled[h]

\* A selection was asked for as long ago as its deadline says, or less
SelectInv ==
    \A h \in Head :
        Runs(h) /\ node[h].phase = SELECTED
            => asked[address[h]] + node[h].deadline <= MN_SELECT_TIMEOUT

\* The status of a head in company comes before the listening window ends;
\* a head that heard one of them is out of it, or knows its twin
CompanyInv ==
    \A h \in Head :
        Runs(h) =>
          /\ node[h].conflict => node[h].phase # LISTEN
          /\ node[h].phase = LEGACY => company[h] = {}
          /\ \A g \in company[h] :
                /\ g # h /\ Announces(g)
                /\ node[h].phase = LISTEN \/ (address[g] = address[h] /\ ~node[h].conflict)
                      => node[g].statusDue < node[h].listen

\* What a bootloader knows of the host's commands
Entitled(h) == InBoot(h) => wanted = {h} \/ missed[h]

BlInv ==
    \A h \in Head :
        /\ ~bl[h].addressed => bl[h].cmdLeft = 0
        /\ bl[h].selected => Entitled(h)

HeadsInv == TypeOK /\ ClashStops /\ SelectInv /\ CompanyInv /\ BlInv
=============================================================================
