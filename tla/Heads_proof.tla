---------------------------- MODULE Heads_proof ----------------------------
(***************************************************************************)
(* Proofs about Heads, for any number of heads, addresses and lengths of   *)
(* the windows: what a head makes of the announcements of the others, of   *)
(* the selections of the host and of those to its bootloader.              *)
(***************************************************************************)
EXTENDS Heads, FiniteSetTheorems, TLAPS

-----------------------------------------------------------------------------
(* One node *)

LEMMA Ticks ==
    /\ MN_LEGACY_LISTEN \in Nat /\ MN_LEGACY_LISTEN > 0
    /\ MN_SELECT_TIMEOUT \in Nat /\ MN_SELECT_TIMEOUT > 0
    /\ MN_STATUS_PERIOD \in Nat /\ MN_STATUS_PERIOD > 0
    /\ MN_STATUS_PERIOD < MN_LEGACY_LISTEN
    /\ BL_SELECT_LAPSE \in Nat /\ BL_SELECT_LAPSE > 0
    /\ BL_ADDRESSED_LAPSE \in Nat /\ BL_ADDRESSED_LAPSE > 0
  BY MnAssumption, BlAssumption

LEMMA Spans ==
    /\ 0 \in 0..MN_SELECT_TIMEOUT /\ MN_SELECT_TIMEOUT \in 0..MN_SELECT_TIMEOUT
    /\ MN_STATUS_PERIOD \in 0..MN_STATUS_PERIOD
  BY Ticks

\* A frame that is no announcement and no selection, or only the passing of
\* its windows, makes m of n.
Quiet(n, m) ==
    /\ m \in MnNode
    /\ m.conflict = n.conflict /\ m.statusDue = n.statusDue /\ m.listen = n.listen
    /\ m.phase = LISTEN => n.phase = LISTEN
    /\ m.phase = LEGACY => \/ n.phase = LEGACY
                           \/ n.phase = LISTEN /\ n.listen = 0 /\ ~n.conflict
    /\ m.phase = SELECTED => n.phase = SELECTED /\ m.deadline = n.deadline

LEMMA Phases ==
    /\ LISTEN # UNSELECTED /\ LISTEN # SELECTED /\ LISTEN # LEGACY
    /\ UNSELECTED # SELECTED /\ UNSELECTED # LEGACY /\ SELECTED # LEGACY
  BY DEF LISTEN, UNSELECTED, SELECTED, LEGACY

LEMMA MnInitIs ==
    /\ MnInit \in MnNode /\ MnInit.phase = LISTEN /\ ~MnInit.conflict
    /\ MnInit.statusDue = MN_STATUS_PERIOD /\ MnInit.listen = MN_LEGACY_LISTEN
  BY Ticks DEF MnInit, MnNode

LEMMA QuietSelf == ASSUME NEW n \in MnNode PROVE Quiet(n, n)
  BY DEF Quiet

LEMMA AdvanceIs ==
    ASSUME NEW n \in MnNode
    PROVE  /\ Quiet(n, Advance(n))
           /\ Advance(n).phase = LISTEN => n.listen # 0
           /\ Advance(n).phase = SELECTED => n.deadline # 0
           /\ n.phase = LISTEN /\ n.listen # 0 => Advance(n) = n
<1>1. CASE n.phase = LISTEN /\ n.listen = 0
  <2>1. Advance(n) = [n EXCEPT !.phase = IF n.conflict THEN UNSELECTED ELSE LEGACY]
    BY <1>1, Phases DEF Advance, Lapsed
  <2>2. CASE n.conflict
    <3>1. Advance(n) = [n EXCEPT !.phase = UNSELECTED]
      BY <2>1, <2>2
    <3> QED
      BY <1>1, <2>2, <3>1, Phases DEF Quiet, MnNode
  <2>3. CASE ~n.conflict
    <3>1. Advance(n) = [n EXCEPT !.phase = LEGACY]
      BY <2>1, <2>3
    <3> QED
      BY <1>1, <2>3, <3>1, Phases DEF Quiet, MnNode
  <2> QED
    BY <2>2, <2>3
<1>2. CASE ~(n.phase = LISTEN /\ n.listen = 0) /\ n.phase = SELECTED /\ n.deadline = 0
  <2>1. Advance(n) = [n EXCEPT !.phase = UNSELECTED, !.statusNow = TRUE]
    BY <1>2, Phases DEF Advance, Lapsed
  <2> QED
    BY <1>2, <2>1, Phases DEF Quiet, MnNode
<1>3. CASE ~(n.phase = LISTEN /\ n.listen = 0) /\ ~(n.phase = SELECTED /\ n.deadline = 0)
  <2>1. Advance(n) = n
    BY <1>3 DEF Advance, Lapsed
  <2> QED
    BY <1>3, <2>1 DEF Quiet
<1> QED
  BY <1>1, <1>2, <1>3

LEMMA QuietThen ==
    ASSUME NEW n \in MnNode, NEW m, NEW k, Quiet(n, m), Quiet(m, k)
    PROVE  Quiet(n, k)
  BY DEF Quiet

\* What the frames of the host make of a node.
LEMMA FramesAreQuiet ==
    ASSUME NEW n \in MnNode
    PROVE  /\ Quiet(n, LeaveSelection(n)) /\ Quiet(n, InfoSent(n))
           /\ \A wait \in Nat : Quiet(n, Discovered(n, wait))
<1>1. Quiet(n, LeaveSelection(n))
  BY Spans, Phases DEF Quiet, LeaveSelection, MnNode
<1>2. Quiet(n, InfoSent(n))
  BY DEF Quiet, InfoSent, MnNode
<1>3. \A wait \in Nat : Quiet(n, Discovered(n, wait))
  BY DEF Quiet, Discovered, MnNode
<1> QED
  BY <1>1, <1>2, <1>3

LEMMA ChosenIs ==
    ASSUME NEW n \in MnNode
    PROVE  IF n.conflict THEN Chosen(n) = n
           ELSE /\ Chosen(n) \in MnNode /\ Chosen(n).phase = SELECTED
                /\ Chosen(n).deadline = MN_SELECT_TIMEOUT
                /\ ~Chosen(n).conflict /\ Chosen(n).statusDue = n.statusDue
                /\ Chosen(n).listen = n.listen
  BY Spans DEF Chosen, MnNode

\* What an announcement makes of a node that hears it.
LEMMA CompanyIs ==
    ASSUME NEW n \in MnNode
    PROVE  Quiet(n, Company(n)) /\ Company(n).phase # LISTEN
  BY Phases DEF Quiet, Company, MnNode

LEMMA ClashIs ==
    ASSUME NEW n \in MnNode, n.conflict => n.phase # LISTEN
    PROVE  /\ Clash(n) \in MnNode /\ Clash(n).conflict /\ Clash(n).phase # LISTEN
           /\ Clash(n).phase = LEGACY => n.phase = LEGACY
           /\ Clash(n).phase = SELECTED => n.phase = SELECTED /\ Clash(n).deadline = n.deadline
           /\ Clash(n).statusDue = n.statusDue /\ Clash(n).listen = n.listen
  BY Spans, Phases DEF Clash, MnNode

LEMMA StatusSentIs ==
    ASSUME NEW n \in MnNode
    PROVE  /\ StatusSent(n) \in MnNode /\ StatusSent(n).statusDue = MN_STATUS_PERIOD
           /\ StatusSent(n).phase = n.phase /\ StatusSent(n).conflict = n.conflict
           /\ StatusSent(n).listen = n.listen /\ StatusSent(n).deadline = n.deadline
  BY Spans DEF StatusSent, MnNode

LEMMA AgedIs ==
    ASSUME NEW n \in MnNode
    PROVE  /\ Aged(n) \in MnNode
           /\ Aged(n).phase = n.phase /\ Aged(n).conflict = n.conflict
           /\ Aged(n).statusDue = Minus1(n.statusDue)
           /\ Aged(n).listen = Minus1(n.listen)
           /\ Aged(n).deadline = Minus1(n.deadline)
<1>1. \A t \in Nat : Minus1(t) \in Nat /\ Minus1(t) <= t
  BY DEF Minus1
<1>2. /\ n.infoDue \in Nat /\ n.statusDue \in 0..MN_STATUS_PERIOD
      /\ n.listen \in 0..MN_LEGACY_LISTEN /\ n.deadline \in 0..MN_SELECT_TIMEOUT
  BY DEF MnNode
<1>3. /\ Minus1(n.infoDue) \in Nat /\ Minus1(n.statusDue) \in 0..MN_STATUS_PERIOD
      /\ Minus1(n.listen) \in 0..MN_LEGACY_LISTEN /\ Minus1(n.deadline) \in 0..MN_SELECT_TIMEOUT
  BY <1>2, Ticks DEF Minus1
<1> QED
  BY <1>3 DEF Aged, MnNode

-----------------------------------------------------------------------------
(* What the invariant says of a head                                       *)

LEMMA Types ==
    ASSUME TypeOK
    PROVE  /\ address \in [Head -> Nat] /\ stored \in [Head -> BOOLEAN]
           /\ \A h \in Head : address[h] \in Addresses
           /\ enabled \in [Head -> BOOLEAN] /\ node \in [Head -> MnNode]
           /\ bl \in [Head -> BlNode] /\ driving \in [Head -> BOOLEAN]
           /\ asked \in [Addresses -> 0..MN_SELECT_TIMEOUT]
  BY HeadsAssumption DEF TypeOK, Addresses

LEMMA Bounds ==
    /\ Window \in Nat /\ Splash \in Nat /\ MaxFrames \in Nat /\ MaxMishaps \in Nat
    /\ \A lost \in SUBSET Head : Cardinality(lost) \in Nat
  BY HeadsAssumption, FS_Subset, FS_CardinalityType

\* A head in company keeps a listening window open.
LEMMA WindowOpen ==
    ASSUME HeadsInv, NEW h \in Head, Runs(h), NEW g \in company[h],
           node[h].phase = LISTEN \/ (address[g] = address[h] /\ ~node[h].conflict)
    PROVE  /\ g \in Head /\ g # h /\ Announces(g) /\ Runs(g)
           /\ node[g].statusDue < node[h].listen /\ node[h].listen # 0
<1>1. node \in [Head -> MnNode] /\ company \in [Head -> SUBSET Head]
  BY DEF HeadsInv, TypeOK
<1>2. g \in Head
  BY <1>1
<1>3. g # h /\ Announces(g) /\ node[g].statusDue < node[h].listen
  BY DEF HeadsInv, CompanyInv
<1>4. node[g].statusDue \in Nat /\ node[h].listen \in Nat
  BY <1>1, <1>2, Ticks DEF MnNode
<1>5. Runs(g)
  BY <1>3 DEF Announces, Runs, InApp
<1> QED
  BY <1>2, <1>3, <1>4, <1>5

\* A frame that leaves the windows as they are, or only what time made of
\* them: who is alone has no company.
LEMMA AloneStays ==
    ASSUME HeadsInv, NEW h \in Head, Runs(h), NEW m, Quiet(node[h], m), m.phase = LEGACY
    PROVE  company[h] = {}
<1>1. CASE node[h].phase = LEGACY
  BY <1>1 DEF HeadsInv, CompanyInv
<1>2. CASE node[h].phase = LISTEN /\ node[h].listen = 0
  BY <1>2, WindowOpen
<1> QED
  BY <1>1, <1>2 DEF Quiet

\* No selection holds for longer than it was asked for.
LEMMA SelectedStays ==
    ASSUME HeadsInv, NEW h \in Head, Runs(h), NEW m, Quiet(node[h], m), m.phase = SELECTED
    PROVE  asked[address[h]] + m.deadline <= MN_SELECT_TIMEOUT
  BY DEF HeadsInv, SelectInv, Quiet

LEMMA AdvanceQuiet ==
    ASSUME HeadsInv, NEW h \in Head
    PROVE  node[h] \in MnNode /\ Advance(node[h]) \in MnNode /\ Quiet(node[h], Advance(node[h]))
<1>1. node[h] \in MnNode
  BY DEF HeadsInv, TypeOK
<1> QED
  BY <1>1, AdvanceIs DEF Quiet

-----------------------------------------------------------------------------
(* Frames to the applications *)

\* The frames of the host that an application takes: a node stays what it was
\* but for its selection, and nothing moves that knows of a conflict.
LEMMA AppFrameKeeps ==
    ASSUME HeadsInv, UNCHANGED <<address, mode, left, enabled, boot, company, wanted, missed>>,
           stored' \in [Head -> BOOLEAN],
           frames' \in 0..MaxFrames, mishaps' \in 0..MaxMishaps,
           asked' \in [Addresses -> 0..MN_SELECT_TIMEOUT],
           \A a \in Addresses : asked'[a] <= asked[a],
           driving' \in [Head -> BOOLEAN],
           \A h \in Head : driving'[h] =>
              driving[h] \/ (InApp(h) /\ (enabled[h] => ~node[h].conflict)),
           node' \in [Head -> MnNode],
           \A h \in Head :
              \/ Quiet(node[h], node'[h])
              \/ /\ node'[h].conflict = node[h].conflict
                 /\ node'[h].statusDue = node[h].statusDue /\ node'[h].listen = node[h].listen
                 /\ node'[h].phase = SELECTED /\ asked'[address[h]] = 0
    PROVE  HeadsInv'
<1>0. /\ address' = address /\ mode' = mode /\ left' = left /\ enabled' = enabled
      /\ bl' = bl /\ busy' = busy /\ company' = company
      /\ wanted' = wanted /\ missed' = missed
  BY DEF boot
<1>1. TypeOK /\ ClashStops /\ BlInv
  BY DEF HeadsInv
<1>2. \A h \in Head : /\ InApp(h)' = InApp(h) /\ Runs(h)' = Runs(h) /\ Announces(h)' = Announces(h)
                      /\ node'[h].conflict = node[h].conflict
                      /\ node'[h].statusDue = node[h].statusDue /\ node'[h].listen = node[h].listen
  BY <1>0 DEF InApp, Runs, Announces, Quiet
<1>3. TypeOK'
  BY <1>0, <1>1, <1>2 DEF TypeOK
<1>4. ClashStops'
  BY <1>0, <1>1, <1>2 DEF ClashStops, Runs
<1>5. BlInv'
  BY <1>0, <1>1 DEF BlInv, Entitled, InBoot
<1>6. SelectInv'
  <2> SUFFICES ASSUME NEW h \in Head, Runs(h), node'[h].phase = SELECTED
               PROVE  asked'[address[h]] + node'[h].deadline <= MN_SELECT_TIMEOUT
    BY <1>0, <1>2 DEF SelectInv
  <2>1. /\ address[h] \in Addresses /\ asked[address[h]] \in Nat /\ asked'[address[h]] \in Nat
        /\ asked'[address[h]] <= asked[address[h]]
        /\ node'[h].deadline \in Nat /\ node'[h].deadline <= MN_SELECT_TIMEOUT
        /\ MN_SELECT_TIMEOUT \in Nat
    BY <1>1, Types, Ticks DEF MnNode
  <2>2. CASE Quiet(node[h], node'[h])
    <3>1. asked[address[h]] + node'[h].deadline <= MN_SELECT_TIMEOUT
      BY <2>2, SelectedStays
    <3> QED
      BY <2>1, <3>1
  <2>3. CASE asked'[address[h]] = 0
    BY <2>1, <2>3
  <2> QED
    BY <2>2, <2>3
<1>7. CompanyInv'
  <2> SUFFICES ASSUME NEW h \in Head, Runs(h)
               PROVE  /\ node'[h].conflict => node'[h].phase # LISTEN
                      /\ node'[h].phase = LEGACY => company[h] = {}
                      /\ \A g \in company[h] :
                            /\ g # h /\ Announces(g)'
                            /\ node'[h].phase = LISTEN \/ (address[g] = address[h] /\ ~node'[h].conflict)
                                  => node'[g].statusDue < node'[h].listen
    BY <1>0, <1>2 DEF CompanyInv
  <2>1. node'[h].phase = LISTEN => node[h].phase = LISTEN
    BY Phases DEF Quiet
  <2>2. node'[h].phase = LEGACY => company[h] = {}
    BY AloneStays, Phases
  <2>3. node'[h].conflict => node'[h].phase # LISTEN
    BY <1>2, <2>1 DEF HeadsInv, CompanyInv
  <2>4. ASSUME NEW g \in company[h]
        PROVE  /\ g # h /\ Announces(g)'
               /\ node'[h].phase = LISTEN \/ (address[g] = address[h] /\ ~node'[h].conflict)
                     => node'[g].statusDue < node'[h].listen
    <3>1. g \in Head
      BY <1>1 DEF TypeOK
    <3>2. g # h /\ Announces(g)
      BY DEF HeadsInv, CompanyInv
    <3> QED
      BY <1>2, <2>1, <3>1, <3>2, WindowOpen
  <2> QED
    BY <2>2, <2>3, <2>4
<1> QED
  BY <1>3, <1>4, <1>5, <1>6, <1>7 DEF HeadsInv

LEMMA HostSendsIs ==
    ASSUME TypeOK, NEW lost \in SUBSET Head, HostSends(lost)
    PROVE  frames' \in 0..MaxFrames /\ mishaps' \in 0..MaxMishaps
  BY Bounds DEF TypeOK, HostSends

\* What moves a tool obeys, and what obeys knows of no conflict.
LEMMA ObeysIs ==
    ASSUME HeadsInv, NEW h \in Head, Obeys(h)
    PROVE  InApp(h) /\ (enabled[h] => ~node[h].conflict)
  BY AdvanceQuiet DEF Obeys, MaySingleHead, Quiet

\* A frame that leaves the state of every node alone or Quiet.
LEMMA QuietFrame ==
    ASSUME HeadsInv, UNCHANGED <<address, mode, left, enabled, boot, company, wanted, missed, asked>>,
           NEW lost \in SUBSET Head, HostSends(lost), stored' \in [Head -> BOOLEAN],
           node' = [h \in Head |-> node'[h]],
           \A h \in Head : node'[h] = node[h] \/ Quiet(Advance(node[h]), node'[h]),
           driving' \in [Head -> BOOLEAN],
           \A h \in Head : driving'[h] => driving[h] \/ Obeys(h)
    PROVE  HeadsInv'
<1>1. TypeOK
  BY DEF HeadsInv
<1>3. \A h \in Head : Quiet(node[h], node'[h])
  BY AdvanceQuiet, QuietThen, QuietSelf
<1>4. node' \in [Head -> MnNode]
  BY <1>3 DEF Quiet
<1>5. asked' \in [Addresses -> 0..MN_SELECT_TIMEOUT] /\ \A a \in Addresses : asked'[a] <= asked[a]
  <2>1. asked' = asked /\ asked \in [Addresses -> 0..MN_SELECT_TIMEOUT]
    BY <1>1 DEF TypeOK
  <2> QED
    BY <2>1, Ticks
<1>6. frames' \in 0..MaxFrames /\ mishaps' \in 0..MaxMishaps
  BY <1>1, HostSendsIs
<1>7. \A h \in Head : driving'[h] => driving[h] \/ (InApp(h) /\ (enabled[h] => ~node[h].conflict))
  BY ObeysIs
<1> QED
  BY <1>3, <1>4, <1>5, <1>6, <1>7, AppFrameKeeps

LEMMA HostFramesKeep ==
    ASSUME HeadsInv, NEW lost \in SUBSET Head,
           \/ \E w \in Waits : Discover(w, lost)
           \/ DeselectAll(lost)
           \/ SafeStop(lost)
           \/ \E on \in BOOLEAN : Command(on, lost) \/ SetMultinode(on, lost)
    PROVE  HeadsInv'
<1>1. stored \in [Head -> BOOLEAN] /\ driving \in [Head -> BOOLEAN] /\ address \in [Head -> Nat]
  BY Types DEF HeadsInv
<1>2. CASE \E w \in Waits : Discover(w, lost)
  <2>1. PICK w \in Waits : Discover(w, lost)
    BY <1>2
  <2>2. node' = [h \in Head |-> IF InApp(h) /\ enabled[h] /\ h \notin lost
                 THEN Discovered(Advance(node[h]), w * address[h]) ELSE node[h]]
    BY <2>1 DEF Discover, Receive
  <2>3. \A h \in Head : w * address[h] \in Nat
    BY <1>1, HeadsAssumption
  <2>4. \A h \in Head : node'[h] = node[h] \/ Quiet(Advance(node[h]), node'[h])
    BY <2>2, <2>3, AdvanceQuiet, FramesAreQuiet
  <2>5. /\ UNCHANGED <<address, mode, left, enabled, boot, company, wanted, missed, asked, stored, driving>>
        /\ HostSends(lost)
    BY <2>1 DEF Discover, Receive, ghost
  <2> QED
    BY <1>1, <2>2, <2>4, <2>5, QuietFrame
<1>3. CASE DeselectAll(lost)
  <2>1. node' = [h \in Head |-> IF InApp(h) /\ enabled[h] /\ h \notin lost
                 THEN LeaveSelection(Advance(node[h])) ELSE node[h]]
    BY <1>3 DEF DeselectAll, Receive
  <2>2. \A h \in Head : node'[h] = node[h] \/ Quiet(Advance(node[h]), node'[h])
    BY <2>1, AdvanceQuiet, FramesAreQuiet
  <2>3. /\ UNCHANGED <<address, mode, left, enabled, boot, company, wanted, missed, asked, stored, driving>>
        /\ HostSends(lost)
    BY <1>3 DEF DeselectAll, Receive, ghost
  <2> QED
    BY <1>1, <2>1, <2>2, <2>3, QuietFrame
<1> DEFINE Aware == [h \in Head |-> IF InApp(h) /\ enabled[h] /\ h \notin lost
                                    THEN Advance(node[h]) ELSE node[h]]
<1>4. ASSUME node' = Aware
      PROVE  /\ node' = [h \in Head |-> node'[h]]
             /\ \A h \in Head : node'[h] = node[h] \/ Quiet(Advance(node[h]), node'[h])
  BY <1>4, AdvanceQuiet, QuietSelf
<1>5. CASE SafeStop(lost)
  <2>1. driving' \in [Head -> BOOLEAN] /\ \A h \in Head : driving'[h] => driving[h]
    BY <1>1, <1>5 DEF SafeStop, Receive
  <2>2. /\ UNCHANGED <<address, mode, left, enabled, boot, company, wanted, missed, asked, stored>>
        /\ HostSends(lost) /\ node' = Aware
    BY <1>5 DEF SafeStop, Receive, ghost
  <2> QED
    BY <1>1, <1>4, <2>1, <2>2, QuietFrame
<1>6. CASE \E on \in BOOLEAN : Command(on, lost)
  <2>1. driving' \in [Head -> BOOLEAN] /\ \A h \in Head : driving'[h] => driving[h] \/ Obeys(h)
    BY <1>1, <1>6 DEF Command, Receive
  <2>2. /\ UNCHANGED <<address, mode, left, enabled, boot, company, wanted, missed, asked, stored>>
        /\ HostSends(lost) /\ node' = Aware
    BY <1>6 DEF Command, Receive, ghost
  <2> QED
    BY <1>1, <1>4, <2>1, <2>2, QuietFrame
<1>7. CASE \E on \in BOOLEAN : SetMultinode(on, lost)
  <2>1. stored' \in [Head -> BOOLEAN]
    BY <1>1, <1>7 DEF SetMultinode, Receive
  <2>2. /\ UNCHANGED <<address, mode, left, enabled, boot, company, wanted, missed, asked, driving>>
        /\ HostSends(lost) /\ node' = Aware
    BY <1>7 DEF SetMultinode, Receive, ghost
  <2> QED
    BY <1>1, <1>4, <2>1, <2>2, QuietFrame
<1> QED
  BY <1>2, <1>3, <1>5, <1>6, <1>7

LEMMA SelectKeeps ==
    ASSUME HeadsInv, NEW lost \in SUBSET Head, NEW a \in Addresses, Select(a, lost)
    PROVE  HeadsInv'
<1>1. TypeOK
  BY DEF HeadsInv
<1>2. node' = [h \in Head |-> IF InApp(h) /\ enabled[h] /\ h \notin lost
                THEN IF address[h] = a THEN Chosen(Advance(node[h])) ELSE LeaveSelection(Advance(node[h]))
                ELSE node[h]]
  BY DEF Select, Receive
<1>3. /\ asked' \in [Addresses -> 0..MN_SELECT_TIMEOUT] /\ asked'[a] = 0
      /\ \A b \in Addresses : asked'[b] <= asked[b]
  <2>1. asked' = [asked EXCEPT ![a] = 0]
    BY DEF Select, Receive
  <2>2. asked \in [Addresses -> 0..MN_SELECT_TIMEOUT] /\ 0 \in 0..MN_SELECT_TIMEOUT
    BY <1>1, Types, Spans
  <2>3. \A b \in Addresses : asked[b] \in Nat
    BY <2>2, Ticks
  <2> QED
    BY <2>1, <2>2, <2>3
<1>4. ASSUME NEW h \in Head
      PROVE  \/ Quiet(node[h], node'[h])
             \/ /\ node'[h] \in MnNode /\ node'[h].conflict = node[h].conflict
                /\ node'[h].statusDue = node[h].statusDue /\ node'[h].listen = node[h].listen
                /\ node'[h].phase = SELECTED /\ asked'[address[h]] = 0
  <2> DEFINE n == Advance(node[h])
  <2>1. node[h] \in MnNode /\ n \in MnNode /\ Quiet(node[h], n)
    BY AdvanceQuiet
  <2> HIDE DEF n
  <2>2. node'[h] \in {node[h], n, LeaveSelection(n)} \/ (node'[h] = Chosen(n) /\ address[h] = a)
    BY <1>2 DEF n
  <2>3. CASE node'[h] \in {node[h], n, LeaveSelection(n)}
    BY <2>1, <2>3, QuietSelf, QuietThen, FramesAreQuiet
  <2>4. CASE node'[h] = Chosen(n) /\ address[h] = a
    <3>1. IF n.conflict THEN Chosen(n) = n
          ELSE /\ Chosen(n) \in MnNode /\ Chosen(n).phase = SELECTED
               /\ Chosen(n).deadline = MN_SELECT_TIMEOUT
               /\ ~Chosen(n).conflict /\ Chosen(n).statusDue = n.statusDue
               /\ Chosen(n).listen = n.listen
      BY <2>1, ChosenIs
    <3>2. CASE n.conflict
      BY <2>1, <2>4, <3>1, <3>2
    <3>3. CASE ~n.conflict
      <4>1. Chosen(n).conflict = n.conflict
        BY <2>1, <3>1, <3>3 DEF MnNode
      <4> QED
        BY <1>3, <2>1, <2>4, <3>1, <3>3, <4>1 DEF Quiet
    <3> QED
      BY <3>2, <3>3
  <2> QED
    BY <2>2, <2>3, <2>4
<1>5. node' \in [Head -> MnNode]
  BY <1>2, <1>4 DEF Quiet
<1>6. /\ UNCHANGED <<address, mode, left, enabled, boot, company, wanted, missed, stored, driving>>
      /\ HostSends(lost)
  BY DEF Select, Receive
<1>7. /\ frames' \in 0..MaxFrames /\ mishaps' \in 0..MaxMishaps
      /\ stored' \in [Head -> BOOLEAN] /\ driving' \in [Head -> BOOLEAN]
      /\ \A h \in Head : driving'[h] => driving[h]
  BY <1>1, <1>6, HostSendsIs, Types
<1> QED
  BY <1>3, <1>4, <1>5, <1>6, <1>7, AppFrameKeeps

-----------------------------------------------------------------------------
(* Announcements *)

\* What an announcement of h makes of another head that hears it.
LEMMA HearingIs ==
    ASSUME HeadsInv, NEW h \in Head, NEW g \in Head, NEW lost, Runs(g), g \notin lost,
           node'[g] = AfterAnnounce(g, h, lost)
    PROVE  /\ node'[g] \in MnNode /\ node'[g].phase # LISTEN
           /\ node'[g].statusDue = node[g].statusDue /\ node'[g].listen = node[g].listen
           /\ node'[g].phase = LEGACY => company[g] = {}
           /\ node'[g].phase = SELECTED =>
                 asked[address[g]] + node'[g].deadline <= MN_SELECT_TIMEOUT
           /\ IF address[g] = address[h] THEN node'[g].conflict
                                         ELSE node'[g].conflict = node[g].conflict
<1> DEFINE n == Advance(node[g])
<1>1. node[g] \in MnNode /\ n \in MnNode /\ Quiet(node[g], n)
  BY AdvanceQuiet
<1>2. n.conflict => n.phase # LISTEN
  BY <1>1 DEF Quiet, HeadsInv, CompanyInv
<1>3. n.phase = LEGACY => company[g] = {}
  BY <1>1, AloneStays
<1>4. n.phase = SELECTED => asked[address[g]] + n.deadline <= MN_SELECT_TIMEOUT
  BY <1>1, SelectedStays
<1>5. node'[g] = IF address[g] = address[h] THEN Clash(n) ELSE Company(n)
  BY DEF AfterAnnounce, Runs
<1>6. n.statusDue = node[g].statusDue /\ n.listen = node[g].listen /\ n.conflict = node[g].conflict
  BY <1>1 DEF Quiet
<1> HIDE DEF n
<1>7. CASE address[g] = address[h]
  BY <1>1, <1>2, <1>3, <1>4, <1>5, <1>6, <1>7, ClashIs
<1>8. CASE address[g] # address[h]
  <2>1. node'[g] = Company(n) /\ Quiet(n, Company(n)) /\ Company(n).phase # LISTEN
    BY <1>1, <1>5, <1>8, CompanyIs
  <2>2. Quiet(node[g], node'[g])
    BY <1>1, <2>1, QuietThen
  <2>3. node'[g].phase = LEGACY => company[g] = {}
    BY <2>2, AloneStays
  <2>4. node'[g].phase = SELECTED => asked[address[g]] + node'[g].deadline <= MN_SELECT_TIMEOUT
    BY <2>2, SelectedStays
  <2>5. /\ node'[g] \in MnNode /\ node'[g].conflict = node[g].conflict
        /\ node'[g].statusDue = node[g].statusDue /\ node'[g].listen = node[g].listen
    BY <2>2 DEF Quiet
  <2> QED
    BY <1>8, <2>1, <2>3, <2>4, <2>5
<1> QED
  BY <1>7, <1>8

LEMMA AnnounceKeeps ==
    ASSUME HeadsInv, NEW h \in Head, NEW lost \in SUBSET Head,
           Announces(h), Announce(h, lost), NEW mine, HeardByOthers(h, lost, mine),
           mine \in MnNode, mine.conflict = node[h].conflict, mine.listen = node[h].listen,
           mine.phase = LISTEN => node[h].phase = LISTEN,
           mine.phase = LEGACY => company[h] = {},
           mine.phase = SELECTED => asked[address[h]] + mine.deadline <= MN_SELECT_TIMEOUT,
           \* an announcement that begins a new period
           mine.statusDue # node[h].statusDue => mine.statusDue = MN_STATUS_PERIOD
    PROVE  HeadsInv'
<1>1. TypeOK /\ ClashStops /\ BlInv /\ SelectInv /\ CompanyInv
  BY DEF HeadsInv
<1>2. /\ UNCHANGED <<address, stored, mode, left, enabled, bl, busy, frames, asked, wanted, missed>>
      /\ mishaps' \in 0..MaxMishaps
      /\ company' = [g \in Head |-> IF g \in lost THEN {} ELSE company[g]]
      /\ h \notin lost
  <2>1. Cardinality(lost) \in Nat /\ mishaps \in Nat
    BY <1>1, Bounds DEF TypeOK
  <2>2. mishaps' = mishaps + Cardinality(lost) /\ mishaps' <= MaxMishaps
    BY DEF Announce
  <2>3. mishaps' \in 0..MaxMishaps
    BY <2>1, <2>2, Bounds
  <2> QED
    BY <2>3 DEF Announce, boot
<1>3. /\ node' = [g \in Head |-> IF g = h THEN mine ELSE AfterAnnounce(g, h, lost)]
      /\ driving' = [g \in Head |-> driving[g] /\ ~StopsOnClash(g, h, lost)]
  BY DEF HeardByOthers
<1>4. \A g \in Head : InApp(g)' = InApp(g) /\ Runs(g)' = Runs(g) /\ Announces(g)' = Announces(g)
  BY <1>2 DEF InApp, Runs, Announces
<1>5. Runs(h)
  BY DEF Announces, Runs, InApp
<1>6. \A g \in Head : g # h /\ (~Runs(g) \/ g \in lost) => node'[g] = node[g]
  BY <1>3 DEF AfterAnnounce, Runs
<1>7. \A g \in Head : g # h /\ Runs(g) /\ g \notin lost =>
        /\ node'[g] \in MnNode /\ node'[g].phase # LISTEN
        /\ node'[g].statusDue = node[g].statusDue /\ node'[g].listen = node[g].listen
        /\ node'[g].phase = LEGACY => company[g] = {}
        /\ node'[g].phase = SELECTED =>
              asked[address[g]] + node'[g].deadline <= MN_SELECT_TIMEOUT
        /\ IF address[g] = address[h] THEN node'[g].conflict
                                      ELSE node'[g].conflict = node[g].conflict
  BY <1>3, HearingIs
<1>8. node'[h] = mine
  BY <1>3
<1>9. TypeOK'
  <2>1. \A g \in Head : node'[g] \in MnNode
    BY <1>1, <1>6, <1>7, <1>8 DEF TypeOK
  <2>2. node' \in [Head -> MnNode]
    BY <1>3, <2>1
  <2>3. company' \in [Head -> SUBSET Head] /\ driving' \in [Head -> BOOLEAN]
    BY <1>1, <1>2, <1>3 DEF TypeOK
  <2>4. \A g \in Head : driving'[g] => driving[g]
    BY <1>3
  <2> QED
    BY <1>1, <1>2, <1>4, <2>2, <2>3, <2>4 DEF TypeOK
<1>10. ClashStops'
  <2> SUFFICES ASSUME NEW g \in Head, Runs(g), node'[g].conflict
               PROVE  ~driving'[g]
    BY <1>4 DEF ClashStops, Runs
  <2>1. CASE node[g].conflict
    BY <1>1, <1>3, <2>1 DEF ClashStops, Runs
  <2>2. CASE ~node[g].conflict
    <3>1. g # h /\ g \notin lost
      BY <1>6, <1>8, <2>2
    <3>2. address[g] = address[h]
      BY <1>7, <2>2, <3>1
    <3>3. StopsOnClash(g, h, lost)
      BY <2>2, <3>1, <3>2 DEF StopsOnClash, Clashes, Runs
    <3> QED
      BY <1>3, <3>3
  <2> QED
    BY <2>1, <2>2
<1>11. SelectInv'
  <2> SUFFICES ASSUME NEW g \in Head, Runs(g), node'[g].phase = SELECTED
               PROVE  asked[address[g]] + node'[g].deadline <= MN_SELECT_TIMEOUT
    BY <1>2, <1>4 DEF SelectInv
  <2> QED
    BY <1>1, <1>6, <1>7, <1>8 DEF SelectInv
<1>12. CompanyInv'
  <2> SUFFICES ASSUME NEW g \in Head, Runs(g)
               PROVE  /\ node'[g].conflict => node'[g].phase # LISTEN
                      /\ node'[g].phase = LEGACY => company'[g] = {}
                      /\ \A k \in company'[g] :
                            /\ k # g /\ Announces(k)
                            /\ node'[g].phase = LISTEN \/ (address[k] = address[g] /\ ~node'[g].conflict)
                                  => node'[k].statusDue < node'[g].listen
    <3>1. \A k \in Head : \A g \in Head : k \in company'[g] => Announces(k)' = Announces(k)
      BY <1>4
    <3>2. \A g \in Head : company'[g] \subseteq Head
      BY <1>9 DEF TypeOK
    <3> QED
      BY <1>2, <1>4, <3>2 DEF CompanyInv
  <2>1. node'[g].conflict => node'[g].phase # LISTEN
    BY <1>1, <1>5, <1>6, <1>7, <1>8 DEF CompanyInv
  <2>2. company'[g] = IF g \in lost THEN {} ELSE company[g]
    BY <1>2
  <2>3. node'[g].phase = LEGACY => company'[g] = {}
    BY <1>6, <1>7, <1>8, <2>2
  <2>4. ASSUME NEW k \in company'[g]
        PROVE  /\ k # g /\ Announces(k)
               /\ node'[g].phase = LISTEN \/ (address[k] = address[g] /\ ~node'[g].conflict)
                     => node'[k].statusDue < node'[g].listen
    <3>1. g \notin lost /\ k \in company[g] /\ k \in Head
      BY <1>1, <2>2, <2>4 DEF TypeOK
    <3>2. k # g /\ Announces(k) /\ Runs(k)
      BY <1>1, <3>1 DEF CompanyInv, Announces, Runs, InApp
    <3>3. SUFFICES ASSUME node'[g].phase = LISTEN \/ (address[k] = address[g] /\ ~node'[g].conflict)
                   PROVE  node'[k].statusDue < node'[g].listen
      BY <3>2
    <3>4. CASE g = h
      <4>1. node[g].phase = LISTEN \/ (address[k] = address[g] /\ ~node[g].conflict)
        BY <1>8, <3>3, <3>4
      <4>2. node[k].statusDue < node[g].listen
        BY <3>1, <4>1, WindowOpen
      <4>3. node'[k].statusDue = node[k].statusDue
        BY <1>6, <1>7, <3>1, <3>2, <3>4
      <4> QED
        BY <1>8, <3>4, <4>2, <4>3
    <3>5. CASE g # h
      <4>1. address[g] # address[h] /\ node'[g].conflict = node[g].conflict
        /\ address[k] = address[g] /\ node'[g].listen = node[g].listen
        BY <1>7, <3>1, <3>3, <3>5
      <4>2. k # h
        BY <4>1
      <4>3. node'[k].statusDue = node[k].statusDue
        BY <1>6, <1>7, <3>1, <3>2, <4>2
      <4>4. node[k].statusDue < node[g].listen
        BY <3>1, <3>3, <4>1, <1>7, <3>5, WindowOpen
      <4> QED
        BY <4>1, <4>3, <4>4
    <3> QED
      BY <3>4, <3>5
  <2> QED
    BY <2>1, <2>3, <2>4
<1>13. BlInv'
  BY <1>1, <1>2 DEF BlInv, Entitled, InBoot
<1> QED
  BY <1>9, <1>10, <1>11, <1>12, <1>13 DEF HeadsInv

LEMMA ServiceInfoKeeps ==
    ASSUME HeadsInv, NEW h \in Head, NEW lost \in SUBSET Head, ServiceInfo(h, lost)
    PROVE  HeadsInv'
<1> DEFINE mine == InfoSent(Advance(node[h]))
<1>1. Announces(h) /\ Announce(h, lost) /\ HeardByOthers(h, lost, mine)
  BY DEF ServiceInfo
<1>2. Runs(h)
  BY <1>1 DEF Announces, Runs, InApp
<1>3. Quiet(node[h], mine)
  BY AdvanceQuiet, FramesAreQuiet, QuietThen
<1> HIDE DEF mine
<1>4. /\ mine.phase = LEGACY => company[h] = {}
      /\ mine.phase = SELECTED => asked[address[h]] + mine.deadline <= MN_SELECT_TIMEOUT
  BY <1>2, <1>3, AloneStays, SelectedStays
<1> QED
  BY <1>1, <1>3, <1>4, AnnounceKeeps DEF Quiet

LEMMA ServiceStatusKeeps ==
    ASSUME HeadsInv, NEW h \in Head, NEW lost \in SUBSET Head, ServiceStatus(h, lost)
    PROVE  HeadsInv'
<1> DEFINE n == Advance(node[h])
           mine == StatusSent(n)
<1>1. Announces(h) /\ Announce(h, lost) /\ HeardByOthers(h, lost, mine)
  BY DEF ServiceStatus
<1>2. Runs(h)
  BY <1>1 DEF Announces, Runs, InApp
<1>3. n \in MnNode /\ Quiet(node[h], n)
  BY AdvanceQuiet
<1>4. /\ n.phase = LEGACY => company[h] = {}
      /\ n.phase = SELECTED => asked[address[h]] + n.deadline <= MN_SELECT_TIMEOUT
  BY <1>2, <1>3, AloneStays, SelectedStays
<1>5. /\ mine \in MnNode /\ mine.statusDue = MN_STATUS_PERIOD
      /\ mine.phase = n.phase /\ mine.conflict = n.conflict
      /\ mine.listen = n.listen /\ mine.deadline = n.deadline
  BY <1>3, StatusSentIs
<1> HIDE DEF n, mine
<1> QED
  BY <1>1, <1>3, <1>4, <1>5, AnnounceKeeps DEF Quiet

-----------------------------------------------------------------------------
(* A head starts                                                           *)

LEMMA BlInitIs ==
    BlInit \in BlNode /\ ~BlInit.addressed /\ ~BlInit.selected /\ BlInit.cmdLeft = 0
  BY Ticks DEF BlInit, BlNode

LEMMA RestartKeeps ==
    ASSUME HeadsInv, NEW S \in SUBSET Head, Restarted(S), UNCHANGED <<address, asked, wanted>>,
           stored' \in [Head -> BOOLEAN], frames' \in 0..MaxFrames, mishaps' \in 0..MaxMishaps
    PROVE  HeadsInv'
<1>1. TypeOK /\ ClashStops /\ BlInv /\ SelectInv /\ CompanyInv
  BY DEF HeadsInv
<1>2. /\ mode' = [h \in Head |-> IF h \in S THEN "window" ELSE mode[h]]
      /\ left' = [h \in Head |-> IF h \in S THEN Window ELSE left[h]]
      /\ node' = [h \in Head |-> IF h \in S THEN MnInit ELSE node[h]]
      /\ enabled' = [h \in Head |-> enabled[h] /\ h \notin S]
      /\ driving' = [h \in Head |-> driving[h] /\ h \notin S]
      /\ bl' = [h \in Head |-> IF h \in S THEN BlInit ELSE bl[h]]
      /\ busy' = [h \in Head |-> busy[h] /\ h \notin S]
      /\ company' = [h \in Head |-> IF h \in S THEN {} ELSE company[h] \ S]
      /\ missed' = [h \in Head |-> missed[h] /\ h \notin S]
  BY DEF Restarted
<1>3. \A h \in S : ~InApp(h)' /\ ~Runs(h)'
  BY <1>2 DEF InApp, Runs
<1>4. \A h \in Head \ S : /\ InApp(h)' = InApp(h) /\ Runs(h)' = Runs(h)
                          /\ Announces(h)' = Announces(h)
                          /\ node'[h] = node[h] /\ driving'[h] = driving[h]
                          /\ bl'[h] = bl[h] /\ missed'[h] = missed[h]
                          /\ InBoot(h)' = InBoot(h) /\ company'[h] = company[h] \ S
  <2>1. \A h \in Head \ S : mode'[h] = mode[h] /\ enabled'[h] = enabled[h]
    BY <1>1, <1>2 DEF TypeOK
  <2>2. \A h \in Head \ S : driving'[h] = driving[h]
    BY <1>1, <1>2 DEF TypeOK
  <2>3. \A h \in Head \ S : missed'[h] = missed[h]
    BY <1>1, <1>2 DEF TypeOK
  <2> QED
    BY <1>2, <2>1, <2>2, <2>3 DEF InApp, InBoot, Runs, Announces
<1>5. TypeOK'
  <2>1. /\ mode' \in [Head -> {"off", "window", "stay", "splash", "loop"}]
        /\ left' \in [Head -> 0..(Window + Splash)]
    <3>1. Window \in 0..(Window + Splash)
      BY Bounds
    <3> QED
      BY <1>1, <1>2, <3>1 DEF TypeOK
  <2>2. node' \in [Head -> MnNode] /\ bl' \in [Head -> BlNode]
    BY <1>1, <1>2, MnInitIs, BlInitIs DEF TypeOK
  <2>3. /\ enabled' \in [Head -> BOOLEAN] /\ driving' \in [Head -> BOOLEAN]
        /\ busy' \in [Head -> BOOLEAN]
    BY <1>2
  <2>4. /\ company' \in [Head -> SUBSET Head]
        /\ wanted' \in SUBSET Head /\ missed' \in [Head -> BOOLEAN]
    BY <1>1, <1>2 DEF TypeOK
  <2>5. \A h \in Head : ~InApp(h)' => ~driving'[h]
    BY <1>1, <1>2, <1>4 DEF TypeOK
  <2>6. \A h \in Head : busy'[h] => mode'[h] = "stay"
    BY <1>1, <1>2 DEF TypeOK
  <2> QED
    BY <1>1, <2>1, <2>2, <2>3, <2>4, <2>5, <2>6 DEF TypeOK
<1>6. ClashStops'
  BY <1>1, <1>3, <1>4 DEF ClashStops, Runs
<1>7. SelectInv'
  BY <1>1, <1>3, <1>4 DEF SelectInv
<1>8. CompanyInv'
  <2> SUFFICES ASSUME NEW h \in Head, Runs(h)'
               PROVE  /\ node'[h].conflict => node'[h].phase # LISTEN
                      /\ node'[h].phase = LEGACY => company'[h] = {}
                      /\ \A g \in company'[h] :
                            /\ g # h /\ Announces(g)'
                            /\ node'[h].phase = LISTEN \/ (address'[g] = address'[h] /\ ~node'[h].conflict)
                                  => node'[g].statusDue < node'[h].listen
    BY DEF CompanyInv
  <2>1. h \in Head \ S /\ Runs(h)
    BY <1>3, <1>4
  <2>2. \A g \in company'[h] : g \in Head \ S /\ g \in company[h]
    BY <1>1, <1>4, <2>1 DEF TypeOK
  <2> QED
    BY <1>1, <1>4, <2>1, <2>2 DEF CompanyInv
<1>9. BlInv'
  <2>1. \A h \in S : bl'[h] = BlInit
    BY <1>2
  <2> QED
    BY <1>1, <1>4, <2>1, BlInitIs DEF BlInv, Entitled
<1> QED
  BY <1>5, <1>6, <1>7, <1>8, <1>9 DEF HeadsInv

LEMMA StartApplicationKeeps ==
    ASSUME HeadsInv, NEW h \in Head, StartApplication(h)
    PROVE  HeadsInv'
<1>1. TypeOK /\ ClashStops /\ BlInv /\ SelectInv /\ CompanyInv
  BY DEF HeadsInv
<1>2. /\ mode[h] = "window" /\ mode' = [mode EXCEPT ![h] = "splash"]
      /\ left' = [left EXCEPT ![h] = Splash]
      /\ enabled' = [enabled EXCEPT ![h] = stored[h]]
      /\ node' = [node EXCEPT ![h] = MnInit]
      /\ company' = [company EXCEPT ![h] = {g \in Head \ {h} : Announces(g)}]
      /\ UNCHANGED <<address, stored, driving, bl, busy, frames, mishaps, asked, wanted, missed>>
  BY DEF StartApplication, boot, env
<1>3. \A g \in Head \ {h} : /\ InApp(g)' = InApp(g) /\ Runs(g)' = Runs(g)
                            /\ Announces(g)' = Announces(g) /\ node'[g] = node[g]
                            /\ company'[g] = company[g]
  BY <1>1, <1>2 DEF InApp, Runs, Announces, TypeOK
<1>4. node'[h] = MnInit /\ company'[h] = {g \in Head \ {h} : Announces(g)}
  BY <1>1, <1>2 DEF TypeOK
<1>5. ~InApp(h) /\ ~Announces(h) /\ InApp(h)' /\ ~driving[h] /\ ~busy[h]
  BY <1>1, <1>2 DEF InApp, Announces, TypeOK
<1>6. TypeOK'
  <2>1. /\ mode' \in [Head -> {"off", "window", "stay", "splash", "loop"}]
        /\ left' \in [Head -> 0..(Window + Splash)]
    <3>1. Splash \in 0..(Window + Splash)
      BY Bounds
    <3> QED
      BY <1>1, <1>2, <3>1 DEF TypeOK
  <2>2. node' \in [Head -> MnNode] /\ enabled' \in [Head -> BOOLEAN]
        /\ company' \in [Head -> SUBSET Head]
    BY <1>1, <1>2, MnInitIs DEF TypeOK
  <2>3. \A g \in Head : ~InApp(g)' => ~driving'[g]
    BY <1>1, <1>2, <1>3, <1>5 DEF TypeOK
  <2>4. \A g \in Head : busy'[g] => mode'[g] = "stay"
    BY <1>1, <1>2 DEF TypeOK
  <2> QED
    BY <1>1, <1>2, <2>1, <2>2, <2>3, <2>4 DEF TypeOK
<1>7. ClashStops'
  <2> SUFFICES ASSUME NEW g \in Head, Runs(g)', node'[g].conflict
               PROVE  ~driving'[g]
    BY DEF ClashStops, Runs
  <2> QED
    BY <1>1, <1>2, <1>3, <1>4, MnInitIs DEF ClashStops, Runs
<1>8. SelectInv'
  BY <1>1, <1>2, <1>3, <1>4, MnInitIs, Phases DEF SelectInv
<1>9. CompanyInv'
  <2> SUFFICES ASSUME NEW g \in Head, Runs(g)'
               PROVE  /\ node'[g].conflict => node'[g].phase # LISTEN
                      /\ node'[g].phase = LEGACY => company'[g] = {}
                      /\ \A k \in company'[g] :
                            /\ k # g /\ Announces(k)'
                            /\ node'[g].phase = LISTEN \/ (address'[k] = address'[g] /\ ~node'[g].conflict)
                                  => node'[k].statusDue < node'[g].listen
    BY DEF CompanyInv
  <2>1. CASE g = h
    <3>1. ~node'[g].conflict /\ node'[g].phase = LISTEN /\ node'[g].listen = MN_LEGACY_LISTEN
      BY <1>4, <2>1, MnInitIs
    <3>2. ASSUME NEW k \in company'[g]
          PROVE  k # g /\ Announces(k)' /\ node'[k].statusDue < MN_LEGACY_LISTEN
      <4>1. k \in Head /\ k # h /\ Announces(k)
        BY <1>4, <2>1, <3>2
      <4>2. node'[k] = node[k] /\ node[k].statusDue \in 0..MN_STATUS_PERIOD
        BY <1>1, <1>3, <4>1 DEF TypeOK, MnNode
      <4> QED
        BY <1>3, <2>1, <4>1, <4>2, Ticks
    <3> QED
      BY <3>1, <3>2, Phases
  <2>2. CASE g # h
    <3>1. Runs(g) /\ node'[g] = node[g] /\ company'[g] = company[g]
      BY <1>3, <2>2
    <3>2. \A k \in company[g] : k \in Head \ {h}
      BY <1>1, <1>5, <3>1 DEF CompanyInv, TypeOK
    <3> QED
      BY <1>1, <1>2, <1>3, <3>1, <3>2 DEF CompanyInv
  <2> QED
    BY <2>1, <2>2
<1>10. BlInv'
  <2>1. \A g \in Head : InBoot(g)' => InBoot(g)
    BY <1>1, <1>2 DEF InBoot, TypeOK
  <2> QED
    BY <1>1, <1>2, <2>1 DEF BlInv, Entitled
<1> QED
  BY <1>6, <1>7, <1>8, <1>9, <1>10 DEF HeadsInv

\* What leaves the nodes and their company alone.
LEMMA OthersKeep ==
    ASSUME HeadsInv, UNCHANGED <<address, stored, app, asked, company>>,
           mode' \in [Head -> {"off", "window", "stay", "splash", "loop"}],
           left' = left, busy' \in [Head -> BOOLEAN], bl' \in [Head -> BlNode],
           wanted' \in SUBSET Head, missed' \in [Head -> BOOLEAN],
           frames' \in 0..MaxFrames, mishaps' \in 0..MaxMishaps,
           \A h \in Head : /\ mode'[h] = mode[h] \/ (InBoot(h) /\ mode'[h] = "stay")
                              \/ (mode[h] = "splash" /\ mode'[h] = "loop")
                           /\ busy'[h] => mode'[h] = "stay",
           BlInv'
    PROVE  HeadsInv'
<1>1. TypeOK /\ ClashStops /\ SelectInv /\ CompanyInv
  BY DEF HeadsInv
<1>2. node' = node /\ enabled' = enabled /\ driving' = driving
  BY DEF app
<1>3. \A h \in Head : InApp(h)' = InApp(h) /\ Runs(h)' = Runs(h) /\ (Announces(h) => Announces(h)')
  BY <1>2 DEF InApp, Runs, Announces, InBoot
<1>4. TypeOK'
  BY <1>1, <1>2, <1>3 DEF TypeOK
<1>5. ClashStops'
  BY <1>1, <1>2, <1>3 DEF ClashStops, Runs
<1>6. SelectInv'
  BY <1>1, <1>2, <1>3 DEF SelectInv
<1>7. CompanyInv'
  <2>1. \A h \in Head : company[h] \subseteq Head
    BY <1>1 DEF TypeOK
  <2> QED
    BY <1>1, <1>2, <1>3, <2>1 DEF CompanyInv
<1> QED
  BY <1>4, <1>5, <1>6, <1>7 DEF HeadsInv

LEMMA EndSplashKeeps ==
    ASSUME HeadsInv, NEW h \in Head, EndSplash(h)
    PROVE  HeadsInv'
<1>1. TypeOK /\ BlInv
  BY DEF HeadsInv
<1>2. /\ mode[h] = "splash" /\ mode' = [mode EXCEPT ![h] = "loop"]
      /\ UNCHANGED <<address, stored, left, app, bl, busy, frames, mishaps, asked, company, wanted, missed>>
  BY DEF EndSplash, boot, env, ghost
<1>3. BlInv'
  <2>1. \A g \in Head : InBoot(g)' => InBoot(g)
    BY <1>1, <1>2 DEF InBoot, TypeOK
  <2> QED
    BY <1>1, <1>2, <2>1 DEF BlInv, Entitled
<1>4. mode' \in [Head -> {"off", "window", "stay", "splash", "loop"}]
  BY <1>1, <1>2 DEF TypeOK
<1>5. \A g \in Head : /\ mode'[g] = mode[g] \/ (mode[g] = "splash" /\ mode'[g] = "loop")
                      /\ busy'[g] => mode'[g] = "stay"
  BY <1>1, <1>2 DEF TypeOK
<1> QED
  BY <1>1, <1>2, <1>3, <1>4, <1>5, OthersKeep DEF TypeOK

LEMMA GiveUpKeeps ==
    ASSUME HeadsInv, NEW h \in Head, GiveUp(h)
    PROVE  HeadsInv'
<1>1. TypeOK /\ BlInv
  BY DEF HeadsInv
<1>2. /\ busy' = [busy EXCEPT ![h] = FALSE]
      /\ UNCHANGED <<address, stored, mode, left, app, bl, frames, mishaps, asked, company, wanted, missed>>
  BY DEF GiveUp, env, ghost
<1>3. BlInv'
  BY <1>1, <1>2 DEF BlInv, Entitled, InBoot
<1>4. busy' \in [Head -> BOOLEAN] /\ \A g \in Head : busy'[g] => busy[g]
  BY <1>1, <1>2 DEF TypeOK
<1> QED
  BY <1>1, <1>2, <1>3, <1>4, OthersKeep DEF TypeOK

-----------------------------------------------------------------------------
(* Frames to the bootloaders                                               *)

LEMMA InitHeads == Init => HeadsInv
<1> SUFFICES ASSUME Init PROVE HeadsInv
  OBVIOUS
<1>1. TypeOK
  <2>1. /\ left \in [Head -> 0..(Window + Splash)]
        /\ frames \in 0..MaxFrames /\ mishaps \in 0..MaxMishaps
    BY Bounds DEF Init
  <2>2. node \in [Head -> MnNode] /\ bl \in [Head -> BlNode]
    BY MnInitIs, BlInitIs DEF Init
  <2>3. asked \in [Addresses -> 0..MN_SELECT_TIMEOUT]
    BY Spans DEF Init
  <2>4. /\ address \in Assignments /\ stored \in [Head -> BOOLEAN]
        /\ enabled \in [Head -> BOOLEAN]
        /\ busy \in [Head -> BOOLEAN] /\ driving \in [Head -> BOOLEAN]
        /\ company \in [Head -> SUBSET Head]
        /\ mode \in [Head -> {"off", "window", "stay", "splash", "loop"}]
        /\ wanted \in SUBSET Head /\ missed \in [Head -> BOOLEAN]
    BY HeadsAssumption DEF Init
  <2>5. \A h \in Head : ~driving[h] /\ ~busy[h]
    BY DEF Init
  <2> QED
    BY <2>1, <2>2, <2>3, <2>4, <2>5 DEF TypeOK
<1>2. \A h \in Head : ~Runs(h)
  BY DEF Init, Runs, InApp
<1>3. BlInv
  BY BlInitIs DEF BlInv, Init
<1> QED
  BY <1>1, <1>2, <1>3 DEF HeadsInv, ClashStops, SelectInv, CompanyInv, Runs

\* What a bootloader knows is its node's; it is selected only where it may be.
BlKnows(b, may) ==
    /\ b \in BlNode
    /\ ~b.addressed => b.cmdLeft = 0
    /\ b.selected => may

LEMMA BlSpans ==
    /\ 0 \in 0..BL_SELECT_LAPSE /\ BL_SELECT_LAPSE \in 0..BL_SELECT_LAPSE
    /\ 0 \in 0..BL_ADDRESSED_LAPSE /\ BL_ADDRESSED_LAPSE \in 0..BL_ADDRESSED_LAPSE
  BY Ticks

\* Its selection and addressed mode lapse, but not during an update.
LEMMA LapseIs ==
    ASSUME NEW b, NEW may \in BOOLEAN, BlKnows(b, may), NEW up \in BOOLEAN
    PROVE  /\ BlKnows(Lapse(b, up), may)
           /\ ~up /\ Accepts(Lapse(b, up)) =>
                 \/ may /\ b.selectLeft > 0
                 \/ b.cmdLeft = 0
<1>1. /\ b \in BlNode /\ b.selectLeft \in Nat
  BY Ticks DEF BlKnows, BlNode
<1>2. CASE up
  BY <1>1, <1>2 DEF Lapse
<1>3. CASE ~up /\ b.addressed /\ b.cmdLeft = 0
  <2> DEFINE a == [b EXCEPT !.addressed = FALSE, !.selected = FALSE, !.selectLeft = 0]
  <2>1. a \in BlNode /\ ~a.addressed /\ ~a.selected /\ a.cmdLeft = b.cmdLeft
    BY <1>1, BlSpans DEF BlNode
  <2>2. Lapse(b, up) = a
    BY <1>3, <2>1 DEF Lapse
  <2> QED
    BY <1>3, <2>1, <2>2 DEF BlKnows
<1>4. CASE ~up /\ ~(b.addressed /\ b.cmdLeft = 0) /\ b.selected /\ b.selectLeft = 0
  <2> DEFINE a == [b EXCEPT !.selected = FALSE]
  <2>1. /\ a \in BlNode /\ ~a.selected /\ a.cmdLeft = b.cmdLeft
        /\ a.addressed = b.addressed
    BY <1>1 DEF BlNode
  <2>2. Lapse(b, up) = a
    BY <1>4 DEF Lapse
  <2> QED
    BY <1>4, <2>1, <2>2 DEF BlKnows, Accepts
<1>5. CASE ~up /\ ~(b.addressed /\ b.cmdLeft = 0) /\ ~(b.selected /\ b.selectLeft = 0)
  <2>1. Lapse(b, up) = b
    BY <1>5 DEF Lapse
  <2> QED
    BY <1>1, <1>5, <2>1 DEF BlKnows, Accepts
<1> QED
  BY <1>2, <1>3, <1>4, <1>5

LEMMA HeardIs ==
    ASSUME NEW b, NEW may \in BOOLEAN, BlKnows(b, may)
    PROVE  /\ BlKnows(Heard(b), may)
           /\ BlKnows(SelectMine(b), TRUE)
           /\ BlKnows(SelectOther(b), FALSE)
<1>1. b \in BlNode
  BY DEF BlKnows
<1>2. /\ Heard(b) \in BlNode /\ Heard(b).addressed /\ Heard(b).selected = b.selected
  BY <1>1, BlSpans DEF Heard, BlNode
<1>3. SelectMine(b) \in BlNode /\ SelectMine(b).addressed
  BY <1>2, BlSpans DEF SelectMine, BlNode
<1>4. SelectOther(b) \in BlNode /\ SelectOther(b).addressed /\ ~SelectOther(b).selected
  BY <1>2, BlSpans DEF SelectOther, BlNode
<1> QED
  BY <1>2, <1>3, <1>4 DEF BlKnows

LEMMA BlAgedIs ==
    ASSUME NEW b, NEW may \in BOOLEAN, BlKnows(b, may)
    PROVE  BlKnows(BlAged(b), may)
<1>1. /\ b \in BlNode /\ b.cmdLeft \in 0..BL_ADDRESSED_LAPSE /\ b.selectLeft \in 0..BL_SELECT_LAPSE
  BY DEF BlKnows, BlNode
<1>2. /\ (IF b.cmdLeft = 0 THEN 0 ELSE b.cmdLeft - 1) \in 0..BL_ADDRESSED_LAPSE
      /\ (IF b.selectLeft = 0 THEN 0 ELSE b.selectLeft - 1) \in 0..BL_SELECT_LAPSE
  BY <1>1, Ticks
<1>3. /\ BlAged(b) \in BlNode /\ BlAged(b).addressed = b.addressed
      /\ BlAged(b).selected = b.selected
      /\ BlAged(b).cmdLeft = IF b.cmdLeft = 0 THEN 0 ELSE b.cmdLeft - 1
  BY <1>1, <1>2 DEF BlAged, BlNode
<1> QED
  BY <1>3 DEF BlKnows

LEMMA BlKnown ==
    ASSUME HeadsInv, NEW h \in Head
    PROVE  BlKnows(bl[h], Entitled(h)) /\ busy[h] \in BOOLEAN /\ Entitled(h) \in BOOLEAN
<1>1. bl[h] \in BlNode /\ busy[h] \in BOOLEAN
  BY DEF HeadsInv, TypeOK
<1>2. Entitled(h) \in BOOLEAN
  BY DEF Entitled
<1> QED
  BY <1>1, <1>2 DEF HeadsInv, BlInv, BlKnows

LEMMA LapsingKnown ==
    ASSUME HeadsInv, NEW lost \in SUBSET Head, NEW h \in Head
    PROVE  BlKnows(Lapsing(lost)[h], Entitled(h))
  BY BlKnown, LapseIs DEF Lapsing

LEMMA BootFrameKeeps ==
    ASSUME HeadsInv, NEW lost \in SUBSET Head, BootFrame(lost),
           bl' = [h \in Head |-> bl'[h]],
           wanted' \in SUBSET Head, missed' \in [Head -> BOOLEAN],
           \A h \in Head : BlKnows(bl'[h], Entitled(h)'),
           mode' \in [Head -> {"off", "window", "stay", "splash", "loop"}],
           busy' \in [Head -> BOOLEAN],
           \A h \in Head : /\ mode'[h] = mode[h] \/ (InBoot(h) /\ mode'[h] = "stay")
                           /\ busy'[h] => mode'[h] = "stay"
    PROVE  HeadsInv'
<1>1. TypeOK
  BY DEF HeadsInv
<1>2. UNCHANGED <<address, stored, app, asked, company, left>>
  BY DEF BootFrame
<1>3. frames' \in 0..MaxFrames /\ mishaps' \in 0..MaxMishaps
  BY <1>1, HostSendsIs DEF BootFrame
<1>4. bl' \in [Head -> BlNode]
  BY DEF BlKnows
<1>5. BlInv'
  BY DEF BlInv, BlKnows
<1> QED
  BY <1>2, <1>3, <1>4, <1>5, OthersKeep

LEMMA BootFramesKeep ==
    ASSUME HeadsInv, NEW lost \in SUBSET Head,
           \/ Probe(lost)
           \/ \E g \in Head : BlSelectHead(g, lost)
           \/ Release(lost)
           \/ StartUpdate(lost)
    PROVE  HeadsInv'
<1>1. /\ mode \in [Head -> {"off", "window", "stay", "splash", "loop"}]
      /\ busy \in [Head -> BOOLEAN]
      /\ wanted \in SUBSET Head /\ missed \in [Head -> BOOLEAN]
      /\ bl \in [Head -> BlNode]
      /\ \A h \in Head : busy[h] => mode[h] = "stay"
  BY DEF HeadsInv, TypeOK
<1>8. \A h \in Head : BlKnows(bl[h], Entitled(h)) /\ BlKnows(Lapsing(lost)[h], Entitled(h))
  BY BlKnown, LapsingKnown
<1>2. CASE Probe(lost)
  <2>1. /\ BootFrame(lost) /\ UNCHANGED <<mode, busy, wanted, missed>>
        /\ bl' = [h \in Head |-> IF h \in Bootloaders(lost) THEN Heard(Lapsing(lost)[h]) ELSE bl[h]]
    BY <1>2 DEF Probe
  <2>2. \A h \in Head : Entitled(h)' = Entitled(h) /\ Entitled(h) \in BOOLEAN
    BY <2>1 DEF Entitled, InBoot
  <2>3. \A h \in Head : BlKnows(bl'[h], Entitled(h)')
    BY <1>8, <2>1, <2>2, HeardIs
  <2> QED
    BY <1>1, <2>1, <2>3, BootFrameKeeps
<1>3. CASE \E g \in Head : BlSelectHead(g, lost)
  <2>1. PICK g \in Head : BlSelectHead(g, lost)
    BY <1>3
  <2>2. /\ BootFrame(lost) /\ mode' = mode /\ busy' = busy
        /\ bl' = [h \in Head |-> IF h \notin Bootloaders(lost) THEN bl[h]
                                 ELSE IF h = g THEN SelectMine(Lapsing(lost)[h])
                                 ELSE SelectOther(Lapsing(lost)[h])]
        /\ wanted' = {g} /\ missed' = [h \in Head |-> h \in lost]
    BY <2>1 DEF BlSelectHead, Selecting
  <2>3. ASSUME NEW h \in Head
        PROVE  BlKnows(bl'[h], Entitled(h)')
    <3>1. h \notin Bootloaders(lost) => Entitled(h)'
      BY <2>2 DEF Entitled, InBoot, Bootloaders
    <3>2. h = g => Entitled(h)'
      BY <2>2 DEF Entitled
    <3>3. Entitled(h) \in BOOLEAN
      BY DEF Entitled
    <3>4. CASE h \notin Bootloaders(lost)
      BY <1>8, <2>2, <3>1, <3>4 DEF BlKnows
    <3>5. CASE h \in Bootloaders(lost)
      <4>1. /\ BlKnows(SelectMine(Lapsing(lost)[h]), TRUE)
            /\ BlKnows(SelectOther(Lapsing(lost)[h]), FALSE)
        BY <1>8, <3>3, HeardIs
      <4> QED
        BY <2>2, <3>2, <3>5, <4>1 DEF BlKnows
    <3> QED
      BY <3>4, <3>5
  <2>4. wanted' \in SUBSET Head /\ missed' \in [Head -> BOOLEAN]
    BY <2>2
  <2> QED
    BY <1>1, <2>2, <2>3, <2>4, BootFrameKeeps
<1>4. CASE Release(lost)
  <2>1. /\ BootFrame(lost) /\ mode' = mode /\ busy' = busy
        /\ bl' = [h \in Head |-> IF h \in Bootloaders(lost) THEN SelectOther(Lapsing(lost)[h]) ELSE bl[h]]
        /\ wanted' = {} /\ missed' = [h \in Head |-> h \in lost]
    BY <1>4 DEF Release, Selecting
  <2>2. ASSUME NEW h \in Head
        PROVE  BlKnows(bl'[h], Entitled(h)')
    <3>1. h \notin Bootloaders(lost) => Entitled(h)'
      BY <2>1 DEF Entitled, InBoot, Bootloaders
    <3>2. Entitled(h) \in BOOLEAN
      BY DEF Entitled
    <3>3. CASE h \notin Bootloaders(lost)
      BY <1>8, <2>1, <3>1, <3>3 DEF BlKnows
    <3>4. CASE h \in Bootloaders(lost)
      <4>1. BlKnows(SelectOther(Lapsing(lost)[h]), FALSE)
        BY <1>8, <3>2, HeardIs
      <4> QED
        BY <2>1, <3>4, <4>1 DEF BlKnows
    <3> QED
      BY <3>3, <3>4
  <2>3. wanted' \in SUBSET Head /\ missed' \in [Head -> BOOLEAN]
    BY <2>1
  <2> QED
    BY <1>1, <2>1, <2>2, <2>3, BootFrameKeeps
<1>5. CASE StartUpdate(lost)
  <2>1. /\ BootFrame(lost) /\ bl' = Lapsing(lost) /\ UNCHANGED <<wanted, missed>>
        /\ busy' = [h \in Head |-> busy[h] \/ h \in Obeying(lost)]
        /\ mode' = [h \in Head |-> IF h \in Obeying(lost) THEN "stay" ELSE mode[h]]
    BY <1>5 DEF StartUpdate, StayFor
  <2>2. \A h \in Obeying(lost) : InBoot(h)
    BY DEF Obeying, Bootloaders
  <2>3. \A h \in Head : InBoot(h)' = InBoot(h)
    BY <1>1, <2>1, <2>2 DEF InBoot
  <2>4. \A h \in Head : BlKnows(bl'[h], Entitled(h)')
    BY <1>8, <2>1, <2>3 DEF Entitled
  <2>5. /\ mode' \in [Head -> {"off", "window", "stay", "splash", "loop"}]
        /\ busy' \in [Head -> BOOLEAN]
        /\ \A h \in Head : /\ mode'[h] = mode[h] \/ (InBoot(h) /\ mode'[h] = "stay")
                           /\ busy'[h] => mode'[h] = "stay"
    BY <1>1, <2>1, <2>2
  <2>6. bl' = [h \in Head |-> bl'[h]]
    BY <2>1 DEF Lapsing
  <2> QED
    BY <1>1, <2>1, <2>4, <2>5, <2>6, BootFrameKeeps
<1> QED
  BY <1>2, <1>3, <1>4, <1>5

\* A reset, by the power, a command or the end of an update.
LEMMA ResetsKeep ==
    ASSUME HeadsInv,
           \/ \E h \in Head : PowerUp(h)
           \/ \E lost \in SUBSET Head : EnterBootloader(lost) \/ EndUpdate(lost)
    PROVE  HeadsInv'
<1>1. TypeOK /\ stored \in [Head -> BOOLEAN]
  BY DEF HeadsInv, TypeOK
<1>2. ASSUME NEW h \in Head, PowerUp(h)
      PROVE  HeadsInv'
  <2>1. Restarted({h}) /\ UNCHANGED <<address, asked, wanted>> /\ frames' \in 0..MaxFrames
    BY <1>1, <1>2 DEF PowerUp, TypeOK
  <2>2. stored' \in [Head -> BOOLEAN]
    BY <1>1, <1>2 DEF PowerUp
  <2>3. mishaps' \in 0..MaxMishaps
    BY <1>1, <1>2, Bounds DEF PowerUp, TypeOK
  <2> QED
    BY <2>1, <2>2, <2>3, RestartKeeps
<1>3. ASSUME NEW lost \in SUBSET Head, EnterBootloader(lost)
      PROVE  HeadsInv'
  <2>1. frames' \in 0..MaxFrames /\ mishaps' \in 0..MaxMishaps
    BY <1>1, <1>3, HostSendsIs DEF EnterBootloader
  <2> QED
    BY <1>1, <1>3, <2>1, RestartKeeps DEF EnterBootloader
<1>4. ASSUME NEW lost \in SUBSET Head, EndUpdate(lost)
      PROVE  HeadsInv'
  <2>1. frames' \in 0..MaxFrames /\ mishaps' \in 0..MaxMishaps
    BY <1>1, <1>4, HostSendsIs DEF EndUpdate
  <2>2. {h \in Obeying(lost) : busy[h]} \in SUBSET Head
    BY DEF Obeying, Bootloaders
  <2> QED
    BY <1>1, <1>4, <2>1, <2>2, RestartKeeps DEF EndUpdate
<1> QED
  BY <1>2, <1>3, <1>4

-----------------------------------------------------------------------------
(* Time                                                                    *)

LEMMA OneLess ==
    /\ \A b \in Nat : \A t \in 0..b : Minus1(t) \in 0..b
    /\ \A t \in Nat : t # 0 => Minus1(t) = t - 1
  BY DEF Minus1

LEMMA TickKeeps ==
    ASSUME HeadsInv, Tick
    PROVE  HeadsInv'
<1>1. TypeOK /\ ClashStops /\ BlInv /\ SelectInv /\ CompanyInv
  BY DEF HeadsInv
<1>2. /\ \A h \in Head : ~Urgent(h)
      /\ left' = [h \in Head |-> Minus1(left[h])]
      /\ node' = [h \in Head |-> IF InApp(h) /\ enabled[h] THEN Aged(node[h]) ELSE node[h]]
      /\ bl' = [h \in Head |-> BlAged(bl[h])]
      /\ asked' = [a \in Addresses |-> IF asked[a] = MN_SELECT_TIMEOUT THEN asked[a] ELSE asked[a] + 1]
      /\ UNCHANGED <<address, stored, mode, enabled, driving, busy, frames, mishaps, company, wanted, missed>>
  BY DEF Tick, env
<1>3. \A h \in Head : InApp(h)' = InApp(h) /\ Runs(h)' = Runs(h) /\ Announces(h)' = Announces(h)
  BY <1>2 DEF InApp, Runs, Announces
<1>4. \A h \in Head : node[h] \in MnNode
  BY <1>1 DEF TypeOK
<1>5. \A h \in Head : Runs(h) => node'[h] = Aged(node[h])
  BY <1>2 DEF Runs
<1>6. TypeOK'
  <2>1. left' \in [Head -> 0..(Window + Splash)]
    BY <1>1, <1>2, Bounds, OneLess DEF TypeOK
  <2>2. node' \in [Head -> MnNode]
    BY <1>2, <1>4, AgedIs
  <2>3. bl' \in [Head -> BlNode]
    BY <1>2, BlKnown, BlAgedIs DEF BlKnows
  <2>4. asked' \in [Addresses -> 0..MN_SELECT_TIMEOUT]
    <3>1. \A t \in 0..MN_SELECT_TIMEOUT :
            (IF t = MN_SELECT_TIMEOUT THEN t ELSE t + 1) \in 0..MN_SELECT_TIMEOUT
      BY Ticks
    <3> QED
      BY <1>1, <1>2, <3>1 DEF TypeOK
  <2> QED
    BY <1>1, <1>2, <1>3, <2>1, <2>2, <2>3, <2>4 DEF TypeOK
<1>7. ClashStops'
  BY <1>1, <1>2, <1>3, <1>4, <1>5, AgedIs DEF ClashStops, Runs
<1>8. SelectInv'
  <2> SUFFICES ASSUME NEW h \in Head, Runs(h), node'[h].phase = SELECTED
               PROVE  asked'[address[h]] + node'[h].deadline <= MN_SELECT_TIMEOUT
    BY <1>2, <1>3 DEF SelectInv
  <2>1. /\ node[h].phase = SELECTED /\ node'[h].deadline = Minus1(node[h].deadline)
        /\ node[h].deadline \in Nat
    BY <1>4, <1>5, AgedIs, Ticks DEF MnNode
  <2>2. /\ asked[address[h]] \in Nat /\ asked[address[h]] <= MN_SELECT_TIMEOUT
        /\ asked'[address[h]] = IF asked[address[h]] = MN_SELECT_TIMEOUT
                                THEN asked[address[h]] ELSE asked[address[h]] + 1
    BY <1>1, <1>2, Types, Ticks
  <2>3. asked[address[h]] + node[h].deadline <= MN_SELECT_TIMEOUT
    BY <1>1, <2>1 DEF SelectInv
  <2> QED
    BY <2>1, <2>2, <2>3, Ticks DEF Minus1
<1>9. CompanyInv'
  <2> SUFFICES ASSUME NEW h \in Head, Runs(h)
               PROVE  /\ node'[h].conflict => node'[h].phase # LISTEN
                      /\ node'[h].phase = LEGACY => company[h] = {}
                      /\ \A g \in company[h] :
                            /\ g # h /\ Announces(g)'
                            /\ node'[h].phase = LISTEN \/ (address[g] = address[h] /\ ~node'[h].conflict)
                                  => node'[g].statusDue < node'[h].listen
    BY <1>2, <1>3 DEF CompanyInv
  <2>1. /\ node'[h].phase = node[h].phase /\ node'[h].conflict = node[h].conflict
        /\ node'[h].listen = Minus1(node[h].listen)
    BY <1>4, <1>5, AgedIs
  <2>2. ASSUME NEW g \in company[h]
        PROVE  /\ g # h /\ Announces(g)'
               /\ node'[h].phase = LISTEN \/ (address[g] = address[h] /\ ~node'[h].conflict)
                     => node'[g].statusDue < node'[h].listen
    <3>1. g \in Head /\ g # h /\ Announces(g)
      BY <1>1 DEF CompanyInv, TypeOK
    <3>2. SUFFICES ASSUME node[h].phase = LISTEN \/ (address[g] = address[h] /\ ~node[h].conflict)
                   PROVE  node'[g].statusDue < node'[h].listen
      BY <1>3, <2>1, <3>1
    <3>3. Runs(g) /\ node[g].statusDue < node[h].listen /\ node[h].listen # 0
      BY <3>2, WindowOpen
    <3>4. node[g].statusDue \in Nat /\ node[h].listen \in Nat
      BY <1>4, <3>1, Ticks DEF MnNode
    <3>5. node[g].statusDue # 0
      <4>1. Advance(node[g]).statusDue = node[g].statusDue
        BY <3>1, AdvanceQuiet DEF Quiet
      <4>2. ~StatusDue(Advance(node[g]))
        BY <1>2, <3>1 DEF Urgent
      <4> QED
        BY <4>1, <4>2 DEF StatusDue
    <3>6. node'[g].statusDue = Minus1(node[g].statusDue)
      BY <1>4, <1>5, <3>1, <3>3, AgedIs
    <3> QED
      BY <2>1, <3>3, <3>4, <3>5, <3>6, OneLess
  <2> QED
    BY <1>1, <2>1, <2>2 DEF CompanyInv
<1>10. BlInv'
  <2>1. \A h \in Head : Entitled(h)' = Entitled(h)
    BY <1>2 DEF Entitled, InBoot
  <2>2. \A h \in Head : BlKnows(bl'[h], Entitled(h))
    BY <1>2, BlKnown, BlAgedIs
  <2> QED
    BY <2>1, <2>2 DEF BlInv, BlKnows
<1> QED
  BY <1>6, <1>7, <1>8, <1>9, <1>10 DEF HeadsInv

-----------------------------------------------------------------------------
(* Every step, and every state                                             *)

LEMMA HeadsInvKept == HeadsInv /\ [Next]_vars => HeadsInv'
<1> SUFFICES ASSUME HeadsInv, [Next]_vars PROVE HeadsInv'
  OBVIOUS
<1>1. CASE HostStep
  <2>1. PICK lost \in SUBSET Head :
           \/ \E w \in Waits : Discover(w, lost)
           \/ \E a \in Addresses : Select(a, lost)
           \/ DeselectAll(lost)
           \/ SafeStop(lost)
           \/ \E on \in BOOLEAN : Command(on, lost)
           \/ \E on \in BOOLEAN : SetMultinode(on, lost)
           \/ EnterBootloader(lost)
           \/ Probe(lost)
           \/ \E g \in Head : BlSelectHead(g, lost)
           \/ Release(lost)
           \/ StartUpdate(lost)
           \/ EndUpdate(lost)
    BY <1>1 DEF HostStep
  <2>2. CASE \/ \E w \in Waits : Discover(w, lost)
             \/ DeselectAll(lost)
             \/ SafeStop(lost)
             \/ \E on \in BOOLEAN : Command(on, lost)
             \/ \E on \in BOOLEAN : SetMultinode(on, lost)
    BY <2>2, HostFramesKeep
  <2>3. CASE \E a \in Addresses : Select(a, lost)
    BY <2>3, SelectKeeps
  <2>4. CASE EnterBootloader(lost) \/ EndUpdate(lost)
    BY <2>4, ResetsKeep
  <2>5. CASE \/ Probe(lost)
             \/ \E g \in Head : BlSelectHead(g, lost)
             \/ Release(lost)
             \/ StartUpdate(lost)
    BY <2>5, BootFramesKeep
  <2> QED
    BY <2>1, <2>2, <2>3, <2>4, <2>5
<1>2. CASE \E h \in Head : HeadStep(h)
  BY <1>2, StartApplicationKeeps, EndSplashKeeps, ServiceInfoKeeps, ServiceStatusKeeps DEF HeadStep
<1>3. CASE \E h \in Head : PowerUp(h)
  BY <1>3, ResetsKeep
<1>4. CASE \E h \in Head : GiveUp(h)
  BY <1>4, GiveUpKeeps
<1>5. CASE Tick
  BY <1>5, TickKeeps
<1>6. CASE UNCHANGED vars
  <2>1. UNCHANGED <<address, stored, app, asked, company, mode, left, busy, bl, wanted, missed, frames, mishaps>>
    BY <1>6 DEF vars, app, boot, env, ghost
  <2>2. TypeOK /\ BlInv'
    BY <2>1 DEF HeadsInv, BlInv, Entitled, InBoot
  <2> QED
    BY <2>1, <2>2, OthersKeep DEF TypeOK
<1> QED
  BY <1>1, <1>2, <1>3, <1>4, <1>5, <1>6 DEF Next

\* The inductive invariant of several heads on one bus (multinode.c,
\* urtc_bl_select.h): a selection is as young as its deadline says, the status
\* of a head in company comes before a listening window ends, a clash stops the
\* tool, and a bootloader is selected only where the host selected last, or where it lost
\* that command.
THEOREM HeadsInvariance == Spec => []HeadsInv
<1>1. Init => HeadsInv
  BY InitHeads
<1>2. HeadsInv /\ [Next]_vars => HeadsInv'
  BY HeadsInvKept
<1> QED
  BY <1>1, <1>2, PTL DEF Spec

\* A node that obeys because it was selected was selected less than the
\* timeout ago, however often the host speaks to others (multinode.c:62-66).
THEOREM SelectionsLapse == Spec => []SelectionLapses
<1>1. HeadsInv => SelectionLapses
  <2> SUFFICES ASSUME HeadsInv, NEW h \in Head, Runs(h), Advance(node[h]).phase = SELECTED
               PROVE  asked[address[h]] < MN_SELECT_TIMEOUT
    BY DEF SelectionLapses, Runs
  <2>1. node[h] \in MnNode /\ address[h] \in Addresses
    BY Types DEF HeadsInv
  <2>2. node[h].phase = SELECTED /\ node[h].deadline # 0
    BY <2>1, AdvanceIs DEF Quiet
  <2>3. asked[address[h]] + node[h].deadline <= MN_SELECT_TIMEOUT
    BY <2>2 DEF HeadsInv, SelectInv
  <2>4. /\ node[h].deadline \in Nat /\ asked[address[h]] \in Nat /\ MN_SELECT_TIMEOUT \in Nat
    BY <2>1, Types, Ticks DEF HeadsInv, MnNode
  <2> QED
    BY <2>2, <2>3, <2>4
<1> QED
  BY <1>1, HeadsInvariance, PTL

\* A head that starts beside one that is announcing itself does not take itself
\* for the only one, unless it lost an announcement: every status of the other
\* comes before the window closes (multinode.c:59-61, 110-122).
THEOREM NewcomersWait == Spec => []NewcomerWaits
<1>1. HeadsInv => NewcomerWaits
  BY AdvanceQuiet, AloneStays DEF NewcomerWaits, Runs
<1> QED
  BY <1>1, HeadsInvariance, PTL

\* A head that knows of a conflict of addresses does not drive its tool, from
\* then on until it starts again (multinode.c:84-97, 110-117).
THEOREM ClashesStop == Spec => []ClashStops
<1>1. HeadsInv => ClashStops
  BY DEF HeadsInv
<1> QED
  BY <1>1, HeadsInvariance, PTL

\* By the end of its listening window a head knows of a twin that was
\* announcing itself all along, unless it lost a frame (multinode.c:110-117).
THEOREM TwinsAreKnown == Spec => []TwinKnown
<1>1. HeadsInv => TwinKnown
  <2> SUFFICES ASSUME HeadsInv, NEW i \in Head, NEW j \in Head, Runs(i), node[i].listen = 0,
                      j \in company[i], address[i] = address[j]
               PROVE  node[i].conflict
    BY DEF TwinKnown, Runs
  <2> QED
    BY WindowOpen
<1> QED
  BY <1>1, HeadsInvariance, PTL

\* Who begins an update was selected last by the host, or lost the command that
\* selected another, and in time, or heard no command that could tell heads
\* apart (urtc_bl_select.h:94-119, 156-168).
LEMMA StartsWhereTold ==
    ASSUME HeadsInv, Next, NEW h \in Head, ~busy[h], busy'[h]
    PROVE  \/ (wanted = {h} \/ missed[h]) /\ bl[h].selectLeft > 0
           \/ bl[h].cmdLeft = 0
<1>1. \/ \E lost \in SUBSET Head : StartUpdate(lost)
      \/ busy' = busy
      \/ \E S \in SUBSET Head : busy' = [g \in Head |-> busy[g] /\ g \notin S]
      \/ \E g \in Head : busy' = [busy EXCEPT ![g] = FALSE]
  <2>1. CASE HostStep
    <3>1. ASSUME NEW lost \in SUBSET Head
          PROVE  /\ \A w \in Waits : Discover(w, lost) => busy' = busy
                 /\ \A a \in Addresses : Select(a, lost) => busy' = busy
                 /\ DeselectAll(lost) => busy' = busy
                 /\ SafeStop(lost) => busy' = busy
                 /\ \A on \in BOOLEAN : Command(on, lost) => busy' = busy
                 /\ \A on \in BOOLEAN : SetMultinode(on, lost) => busy' = busy
                 /\ Probe(lost) => busy' = busy
                 /\ \A g \in Head : BlSelectHead(g, lost) => busy' = busy
                 /\ Release(lost) => busy' = busy
      BY DEF Discover, Select, DeselectAll, SafeStop, Command, SetMultinode,
             Probe, BlSelectHead, Release, Receive, boot
    <3>2. ASSUME NEW lost \in SUBSET Head, EnterBootloader(lost) \/ EndUpdate(lost)
          PROVE  \E S \in SUBSET Head : busy' = [g \in Head |-> busy[g] /\ g \notin S]
      <4>1. {g \in Head \ lost : Obeys(g)} \in SUBSET Head
        OBVIOUS
      <4>2. {g \in Obeying(lost) : busy[g]} \in SUBSET Head
        BY DEF Obeying, Bootloaders
      <4> QED
        BY <3>2, <4>1, <4>2 DEF EnterBootloader, EndUpdate, Restarted
    <3> QED
      BY <2>1, <3>1, <3>2 DEF HostStep
  <2>2. CASE \E g \in Head : HeadStep(g)
    BY <2>2 DEF HeadStep, StartApplication, EndSplash, ServiceInfo, ServiceStatus, Announce, boot
  <2>3. CASE \E g \in Head : PowerUp(g)
    BY <2>3 DEF PowerUp, Restarted
  <2>4. CASE \E g \in Head : GiveUp(g)
    BY <2>4 DEF GiveUp
  <2>5. CASE Tick
    BY <2>5 DEF Tick
  <2> QED
    BY <2>1, <2>2, <2>3, <2>4, <2>5 DEF Next
<1>2. busy \in [Head -> BOOLEAN]
  BY DEF HeadsInv, TypeOK
<1>3. PICK lost \in SUBSET Head : StartUpdate(lost)
  <2>1. ~\E S \in SUBSET Head : busy' = [g \in Head |-> busy[g] /\ g \notin S]
    OBVIOUS
  <2>2. ~\E g \in Head : busy' = [busy EXCEPT ![g] = FALSE]
    BY <1>2
  <2> QED
    BY <1>1, <2>1, <2>2
<1>4. h \in Obeying(lost)
  BY <1>3 DEF StartUpdate
<1>5. Accepts(Lapse(bl[h], busy[h]))
  BY <1>4 DEF Obeying
<1>6. InBoot(h)
  BY <1>4 DEF Obeying, Bootloaders
<1>7. \/ Entitled(h) /\ bl[h].selectLeft > 0
      \/ bl[h].cmdLeft = 0
  BY <1>5, BlKnown, LapseIs
<1> QED
  BY <1>6, <1>7 DEF Entitled

\* A START opens an update only at the head whose serial the host selected last,
\* in time, or at one that lost that command; but for heads that heard no command
\* since the restart or for ten seconds (urtc_bl_select.h:94-119, 156-168).
THEOREM StartsAreForMe == Spec => StartIsForMe
<1>1. HeadsInv /\ [Next]_vars =>
        [\A h \in Head : ~busy[h] /\ busy'[h] =>
            \/ (wanted = {h} \/ missed[h]) /\ bl[h].selectLeft > 0
            \/ bl[h].cmdLeft = 0]_vars
  BY StartsWhereTold
<1> QED
  BY <1>1, HeadsInvariance, PTL DEF Spec, StartIsForMe

=============================================================================
