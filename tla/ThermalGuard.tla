---------------------------- MODULE ThermalGuard ----------------------------
(***************************************************************************)
(* The thermal guard (thermal_guard.c): does a heater that is on heat?     *)
(* Stamps are kept as their ages, which Aging advances by a tick; the age  *)
(* of a stamp that nobody reads is 0.                                      *)
(***************************************************************************)
EXTENDS Naturals

CONSTANTS
    MaxTemp,                      \* max_temp_c
    WatchPeriod, WatchMinRise, WatchBand,
    HoldPeriod, HoldHysteresis

ASSUME GuardAssumption ==
    /\ {MaxTemp, WatchBand, HoldHysteresis} \subseteq Nat
    /\ {WatchPeriod, WatchMinRise, HoldPeriod} \subseteq Nat \ {0}

\* ThermalGuard_t
Guard(Temps) ==
    [target : Temps, watching : BOOLEAN, watch : 0..WatchPeriod, base : Temps,
     reached : BOOLEAN, sagging : BOOLEAN, sag : 0..HoldPeriod]

\* ThermalGuard_Reset
GuardReset ==
    [target |-> 0, watching |-> FALSE, watch |-> 0, base |-> 0,
     reached |-> FALSE, sagging |-> FALSE, sag |-> 0]

Capped(n, cap) == IF n < cap THEN n ELSE cap

Aging(g) == [g EXCEPT !.watch = IF g.watching THEN Capped(@ + 1, WatchPeriod) ELSE 0,
                      !.sag   = IF g.sagging THEN Capped(@ + 1, HoldPeriod) ELSE 0]

Retargeted(g, target) ==
    IF target # g.target THEN [GuardReset EXCEPT !.target = target] ELSE g

FarBelow(g, current) == current + WatchBand < g.target
Sagging(g, current)  == current + HoldHysteresis < g.target

Unwatched(g) == [g EXCEPT !.watching = FALSE, !.watch = 0, !.base = 0]

\* Near enough to the target at last
Reaching(g, current) == IF FarBelow(g, current) THEN g ELSE [Unwatched(g) EXCEPT !.reached = TRUE]

\* Heating up: the window is over, and the temperature has not risen in it
NoRise(g, on, current) ==
    /\ ~g.reached /\ on /\ FarBelow(g, current)
    /\ g.watching /\ g.watch >= WatchPeriod
    /\ current < g.base + WatchMinRise

\* Each look at the temperature taken for the start of a window
Watching_Restarts(g, on, current) ==
    IF ~g.reached /\ on /\ FarBelow(g, current)
    THEN [g EXCEPT !.watching = TRUE, !.watch = 0, !.base = current]
    ELSE IF on THEN g ELSE Unwatched(g)

Watching(g, on, current) ==
    IF ~g.reached /\ on /\ FarBelow(g, current)
    THEN IF g.watching /\ g.watch < WatchPeriod THEN g
         ELSE [g EXCEPT !.watching = TRUE, !.watch = 0, !.base = current]
    ELSE IF on THEN g ELSE Unwatched(g)

\* At the target: the temperature has been too low for too long
Dropped(g, on, current) ==
    /\ g.reached /\ on /\ Sagging(g, current)
    /\ g.sagging /\ g.sag >= HoldPeriod

Holding(g, on, current) ==
    CASE ~g.reached                          -> g
      [] g.reached /\ ~Sagging(g, current)   -> [g EXCEPT !.sagging = FALSE, !.sag = 0]
      [] g.reached /\ Sagging(g, current)    -> IF on THEN [g EXCEPT !.sagging = TRUE] ELSE g

\* ThermalGuard_Check: what becomes of the guard, and the fault it reports
Checked(g, on, current, target) ==
    LET r == Reaching(Retargeted(g, target), current)
        w == Watching(r, on, current)
    IN CASE current > MaxTemp         -> <<g, "maxTemp">>
         [] current <= MaxTemp /\ target = 0 -> <<Retargeted(g, target), "ok">>
         [] current <= MaxTemp /\ target # 0 /\ NoRise(r, on, current) -> <<r, "noRise">>
         [] OTHER -> IF Dropped(w, on, current) THEN <<w, "dropped">>
                     ELSE <<Holding(w, on, current), "ok">>
=============================================================================
