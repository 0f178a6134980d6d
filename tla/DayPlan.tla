------------------------------ MODULE DayPlan ------------------------------
(***************************************************************************)
(* The planning half of PinnacleLifecycle (lifecycle.py) without operator  *)
(* overrides: the run loop replans from the slate when the plan is old,    *)
(* opens and closes the browser by the plan, and banks the uptime of each  *)
(* session against the day it opened on.                                   *)
(***************************************************************************)
EXTENDS Schedule

CONSTANTS Recompute,   \* recompute_sec
          Horizon,     \* horizon_hours of the slate fetched
          Back,        \* back_hours of the slate fetched
          LastHour,    \* bound on the clock
          Offsets      \* the jitter of a window, by the time it opens

VARIABLES k,        \* the schedule's settings
          slate,    \* the games on the board
          clock, hours, pins, planned,
          isOpen, openedAt, spent

planVars == <<k, slate, clock, hours, pins, planned, isOpen, openedAt, spent>>

Time == 0 .. LastHour
Fetched == SelectSeq(slate, LAMBDA x: clock - Back <= x.at /\ x.at <= clock + Horizon)
Bettable == LET today == IF k.todayOnly THEN FilterToLocalDay(Fetched, clock) ELSE Fetched
            IN IF k.pairedOnly THEN FilterToPaired(today, k.mids) ELSE today
Shape == IF k.session > 0 THEN k.session + k.lead + k.trail ELSE 0

MutSpentSnapshot == spent
\* Uptime already used per local day, the session in progress included.
SpentSnapshot == [d \in DOMAIN spent |->
  spent[d] + IF isOpen /\ DayOf(openedAt) = d THEN clock - openedAt ELSE 0]

Selected == IF k.session > 0 THEN ComputeSessions(Bettable, k) ELSE ComputeWindows(Bettable, k)
Pins == IF k.pins # <<>> /\ Bettable # <<>> THEN PinnedWindows(k.pins, clock) ELSE <<>>
Carved(ws) == IF Pins = <<>> THEN ws ELSE CarveOutPins(ws, Pins)
Jittered(ws) == IF k.jitter THEN ApplyJitter(ws, Offsets, k.shift) ELSE ws
Spaced(ws) == EnforceDowntime(IF Shape > 0 THEN CapWindowLength(ws, Shape, Pins) ELSE ws, k.downtime)
Capped(ws) == IF k.maxDaily > 0 THEN CapDailyHours(ws, k.maxDaily, Pins, SpentSnapshot, clock) ELSE ws
Filled(ws) == IF k.maxDaily > 0 /\ k.fill
              THEN FillDailyHours(ws, k.maxDaily, SpentSnapshot, clock, k.downtime, Shape, Pins) ELSE ws
Planned == Filled(Capped(Spaced(Jittered(Carved(Selected)))))

PlanInit ==
  /\ clock = 0 /\ hours = <<>> /\ pins = <<>> /\ planned = -1 - Recompute
  /\ isOpen = FALSE /\ openedAt = 0 /\ spent = [d \in 0 .. DayOf(LastHour) + 1 |-> 0]

\* An empty plan keeps the last windows, unless the allowed hours emptied it.
Replanned(ws, clipped) ==
  IF clipped = <<>> /\ hours # <<>> /\ ~(k.only # <<>> /\ ws # <<>>)
  THEN UNCHANGED <<hours, planned>>
  ELSE hours' = AssignGames(clipped, Bettable) /\ planned' = clock
Refresh(fetched) ==
  IF fetched
  THEN pins' = Pins /\ \E ws \in {Planned} : Replanned(ws, ClipToAllowed(ws, k.only, clock))
  ELSE UNCHANGED <<hours, pins, planned>>

BurnUptime == spent' = [spent EXCEPT ![DayOf(openedAt)] = @ + (clock - openedAt)]

PlanTick ==
  LET inside == ActiveWindow(hours', clock) # {}
  IN CASE inside /\ ~isOpen -> isOpen' = TRUE /\ openedAt' = clock /\ UNCHANGED spent
       [] ~inside /\ isOpen -> isOpen' = FALSE /\ BurnUptime /\ UNCHANGED openedAt
       [] OTHER -> UNCHANGED <<isOpen, openedAt, spent>>

\* One turn of the run loop and the sleep after it.
PlanTurn(fetched) ==
  /\ clock < LastHour
  /\ IF clock - planned > Recompute THEN Refresh(fetched) ELSE UNCHANGED <<hours, pins, planned>>
  /\ PlanTick
  /\ clock' = clock + 1
  /\ UNCHANGED <<k, slate>>

PlanNext == \E fetched \in BOOLEAN : PlanTurn(fetched)
PlanSpec == PlanInit /\ [][PlanNext]_planVars
-----------------------------------------------------------------------------
PlanTypeOK ==
  /\ clock \in Time /\ planned \in -1 - Recompute .. LastHour
  /\ isOpen \in BOOLEAN /\ openedAt \in Time
  /\ \A d \in DOMAIN spent : spent[d] \in Nat
  /\ \A w \in ToSet(hours) \cup ToSet(pins) : w.o \in Int /\ w.c \in Int /\ w.g \in Nat

\* cap_daily_hours: what is charged to the current day never passes the ceiling
\* while that day lasts, however often the plan is rebuilt, without pinned hours.
UptimeCappedToday ==
  k.maxDaily > 0 /\ k.pins = <<>> => SpentSnapshot[DayOf(clock)] <= k.maxDaily

\* enforce_downtime: two planned windows that open on the same local day leave
\* the browser down for the downtime asked for between them.
DowntimeKept ==
  \A i \in 1 .. Len(hours) - 1 :
    DayOf(hours[i].o) = DayOf(hours[i + 1].o) =>
      hours[i + 1].o - hours[i].c >= k.downtime

\* clip_to_allowed: nothing of the plan lies outside the allowed hours, and pins
\* are not exempt.
OnlyAllowedHours ==
  k.only # <<>> => \A w \in ToSet(hours) : \A t \in w.o .. w.c - 1 :
    \E r \in ToSet(k.only) :
      IF r.from < r.to THEN r.from <= t % Day /\ t % Day < r.to
      ELSE r.from <= t % Day \/ t % Day < r.to

\* The session shape bounds every window outside the pinned hours, filling included.
ShapeKept ==
  Shape > 0 => \A w \in ToSet(hours) : IsProtected(w, pins) \/ Span(w) <= Shape

\* compute_windows: a game that will be merged lies whole in one window, and two
\* windows are further apart than the gap that merges them (of the slate alone: looked at once).
MergedWhole == clock = 0 =>
  LET ws == ComputeWindows(slate, [k EXCEPT !.minGames = 1, !.maxBlocks = Len(slate)])
  IN /\ \A x \in ToSet(slate) : \E w \in ToSet(ws) :
          w.o <= x.at - k.lead /\ x.at + Length[x.sport] + k.trail <= w.c
     /\ \A v, w \in ToSet(ws) : v.o < w.o => v.c + k.minGap < w.o

\* compute_inplay_blocks: the blocks are apart, and no block clear of all of
\* them has more games running in it than the best of them.
InplayPeaks == clock = 0 =>
  LET bs == ToSet(ComputeInplayBlocks(slate, 2, 2, 2, 1))
      Avg(t) == Running(slate, t) + Running(slate, t + 1)
  IN /\ \A v, w \in bs : v.o < w.o => v.c + 2 <= w.o
     /\ \A x \in ToSet(slate) : \A t \in x.at .. x.at + Length[x.sport] :
          \E w \in bs : Avg(t) <= Avg(w.o)

\* The plan of every turn keeps each bound it is given, whichever step made it last,
\* and its windows are the ones that the games of the slate ask for.
PlanSound ==
  PlanTypeOK /\ UptimeCappedToday /\ DowntimeKept /\ OnlyAllowedHours /\ ShapeKept
  /\ MergedWhole /\ InplayPeaks
=============================================================================
