------------------------------- MODULE BoardTabs -------------------------------
(* The tabs of the window reader (tab_manager.py): a loop gives every paired      *)
(* league that nothing delivers a tab of its own, up to a cap, and sweeps the     *)
(* others with one roving tab.  Three more coroutines work on the same tabs: a    *)
(* league asked for over HTTP (request_verify), a verification that borrows the   *)
(* roving tab (pinnacle_adapter.verify_now), and the drop of every tab at a       *)
(* logout or when the session closes.  An action of the loop runs from one await  *)
(* to the next: while tick.at is "run" nobody else moves.                         *)
(* A league has one paired game.  What the feed, the board and the pairs file say *)
(* changes while the loop sleeps.  Times are ages, counted up to the age that     *)
(* matters.                                                                       *)
EXTENDS Integers, Sequences, FiniteSets

CONSTANTS Leagues, StartsAt,  \* leagues, and when the game of each starts
          MaxTabs,             \* HARDVEN_TAB_MAX
          Grace,           \* HARDVEN_TAB_EVICT_GRACE_SEC
          KeepAlive,       \* HARDVEN_TAB_KEEPALIVE_MIN
          Reclaim,         \* HARDVEN_TAB_BOARD_RECLAIM_SEC
          Dwell,           \* HARDVEN_ROVE_DWELL_SEC
          Timeout,         \* of verify_now
          Verified,        \* bound: the leagues somebody asks to verify
          Upsets           \* bound: turns of the world, lost pages, drops of the tabs

ASSUME TabsAssumption ==
  /\ StartsAt \in [Leagues -> Nat] /\ \A l, m \in Leagues : StartsAt[l] = StartsAt[m] => l = m
  /\ {MaxTabs, Grace, KeepAlive, Reclaim, Dwell, Timeout} \subseteq Nat \ {0} /\ Upsets \in Nat
  /\ Grace <= KeepAlive /\ Timeout < Dwell /\ Verified \subseteq Leagues

VARIABLES
  world,  \* of each league: unpaired, later (not hot), dark (hot, not delivered), fed
          \* (hot, delivered), boarded (delivered, and the featured board carries it)
  tabs,   \* the dedicated tab of each league: none, on its page, away from it, gone
  alive,  \* age of the last opening or reload of a tab
  since,  \* age of a tab's league on the board, -1 when it is not there
  rove,   \* the roving tab, the league it shows, the league it is said to cover
  age,    \* of the last move of the roving tab
  tick,   \* the loop
  hand,   \* who moves the roving tab: the loop, a verification
  asked,  \* the league request_verify is opening, or "none"
  held, on, dropping,
  upsets  \* how many there were (bound)

tabVars == <<world, tabs, alive, since, rove, age, tick, hand, asked, held, on, dropping, upsets>>
NoLeague == "none"
Asleep == [pc |-> "sleep", at |-> "await", l |-> NoLeague, walk |-> {}]
Free == [pc |-> "idle", l |-> NoLeague, cut |-> FALSE, mine |-> FALSE, waited |-> 0]
NoRove == [page |-> "none", at |-> NoLeague, lid |-> NoLeague]
Yields == tick.at = "await"

Tabbed == {l \in Leagues : tabs[l] # "none"}
Paired == {l \in Leagues : world[l] # "unpaired"}
Statuses == {"unpaired", "later", "dark", "fed", "boarded"}
Hot(l) == world[l] \in {"dark", "fed", "boarded"}
Soonest(ls) == CHOOSE l \in ls : \A m \in ls : StartsAt[l] <= StartsAt[m]
Top(n, ls) == {l \in ls : Cardinality({m \in ls : StartsAt[m] < StartsAt[l]}) < n}
\* _covered_now: a league without a hot game counts as covered.
CoveredNow == {l \in Leagues : world[l] # "dark"}
\* covered_lids, which ws_verified_map takes for verified.
CoveredLids == Tabbed \cup ({rove.lid} \ {NoLeague})

TabsInit ==
  /\ world \in [Leagues -> Statuses]
  /\ tabs \in [Leagues -> {"none", "on"}] /\ Cardinality(Tabbed) <= MaxTabs
  /\ alive = [l \in Leagues |-> 0]
  /\ since = [l \in Leagues |-> -1]
  /\ rove = NoRove /\ age = 0
  /\ tick = Asleep /\ hand = [h \in {"tick", "verify"} |-> Free]
  /\ asked = NoLeague /\ held = FALSE /\ on = TRUE /\ dropping = FALSE /\ upsets = 0

(* ---- the world, and time --------------------------------------------------- *)
WorldTurns ==
  /\ upsets < Upsets /\ upsets' = upsets + 1
  /\ tick.pc = "sleep"
  /\ \E l \in Leagues, w \in Statuses : world' = [world EXCEPT ![l] = w]
  /\ UNCHANGED <<tabs, alive, since, rove, age, tick, hand, asked, held, on, dropping>>

\* A page is closed under the manager, or drifts to another address.
PageFails ==
  /\ upsets < Upsets /\ upsets' = upsets + 1
  /\ Yields
  /\ \/ \E l \in Tabbed, s \in {"away", "gone"} : tabs[l] # "gone" /\ tabs' = [tabs EXCEPT ![l] = s] /\ UNCHANGED rove
     \/ rove.page = "open" /\ rove' = [rove EXCEPT !.page = "gone"] /\ UNCHANGED tabs
  /\ UNCHANGED <<world, alive, since, age, tick, hand, asked, held, on, dropping>>

Older(n, cap) == IF n < cap THEN n + 1 ELSE n
\* A verification has waited no longer than its deadline.
Pass ==
  /\ Yields /\ ~(hand["verify"].pc = "wait" /\ hand["verify"].waited = Timeout)
  /\ alive' = [l \in Leagues |-> IF tabs[l] = "none" THEN alive[l] ELSE Older(alive[l], KeepAlive)]
  /\ since' = [l \in Leagues |-> IF since[l] < 0 THEN -1 ELSE Older(since[l], Reclaim)]
  /\ age' = IF rove.page = "none" THEN 0 ELSE Older(age, Dwell)
  /\ hand' = [hand EXCEPT !["verify"].waited = IF hand["verify"].pc = "idle" THEN 0 ELSE Older(@, Timeout)]
  /\ UNCHANGED <<world, tabs, rove, tick, asked, held, on, dropping, upsets>>

(* ---- the hands on the roving tab ---------------------------------------------- *)
Other(h) == IF h = "tick" THEN "verify" ELSE "tick"
\* A navigation interrupts the one under way on the same page.
Moves(h, l) ==
  hand' = [hand EXCEPT ![h] = [Free EXCEPT !.pc = IF rove.page = "none" THEN "open" ELSE "nav", !.l = l,
                                           !.mine = rove.page # "none"],
                       ![Other(h)].cut = @ \/ (hand[Other(h)].pc = "nav" /\ hand[Other(h)].mine)]
Forgotten(hs) == [h \in DOMAIN hs |-> [hs[h] EXCEPT !.mine = FALSE]]

(* ---- the loop ---------------------------------------------------------------- *)
\* The loop goes on from a phase, or its iteration ends (also by an exception).
GoesOn(p, ls) == tick' = [pc |-> p, at |-> "run", l |-> NoLeague, walk |-> ls]
Awaits(p, l, ls) == tick' = [pc |-> p, at |-> "await", l |-> l, walk |-> ls]
Ends == tick' = Asleep

\* The held flag is read at the start of an iteration and not again.
TickStarts ==
  /\ on /\ tick.pc = "sleep" /\ ~held /\ Paired # {}
  /\ Awaits("scan", NoLeague, {})
  /\ UNCHANGED <<world, tabs, alive, since, rove, age, hand, asked, held, on, dropping, upsets>>

\* Mutant: the pages that are gone keep their slots.
MutScanned ==
  /\ tick.pc = "scan"
  /\ GoesOn("unpaired", Tabbed)
  /\ UNCHANGED <<world, tabs, alive, since, rove, age, hand, asked, held, on, dropping, upsets>>
\* The scan of the board answers; the tabs that are gone lose their slots.
Scanned ==
  /\ tick.pc = "scan"
  /\ LET dead == {l \in Leagues : tabs[l] = "gone"}
     IN /\ tabs' = [l \in Leagues |-> IF l \in dead THEN "none" ELSE tabs[l]]
        /\ alive' = [l \in Leagues |-> IF l \in dead THEN 0 ELSE alive[l]]
        /\ since' = [l \in Leagues |-> IF l \in dead THEN -1 ELSE since[l]]
  /\ IF rove.page = "gone"
     THEN rove' = NoRove /\ hand' = [h \in DOMAIN hand |-> [hand[h] EXCEPT !.mine = FALSE]]
     ELSE UNCHANGED <<rove, hand>>
  /\ GoesOn("unpaired", {l \in Leagues : tabs'[l] # "none"})
  /\ UNCHANGED <<world, age, asked, held, on, dropping, upsets>>

\* The phases of an iteration: four close tabs, two reload them, one opens a tab,
\* the last moves the roving tab.
Phases == <<"unpaired", "reclaim", "cold", "reset", "station", "gaps", "alive", "rove">>
Closing == {"unpaired", "reclaim", "cold", "reset"}
From == CHOOSE i \in DOMAIN Phases : Phases[i] = tick.pc
\* The hot leagues the board does not carry, the first MaxTabs of them; the others are
\* closed when the ranking is due again.
Outranked ==
  {l \in Tabbed : l \notin Top(MaxTabs, {m \in Paired : world[m] \in {"dark", "fed"}}) /\ alive[l] >= Grace}
Gaps == {l \in Paired : Hot(l) /\ l \notin CoveredNow /\ l \notin Tabbed /\ l # rove.lid}
\* What neither a tab nor the feed covers.
Swept == {l \in Paired : l \notin Tabbed /\ l \notin CoveredNow /\ l # rove.lid}
\* What a phase has to do, among the tabs it walks over.
Todo(p, due) ==
  LET walk == IF tick.pc = p THEN tick.walk ELSE Tabbed IN
  CASE p = "unpaired" -> walk \ Paired
    [] p = "reclaim" -> {l \in walk : world[l] = "boarded" /\ since[l] >= Reclaim}
    [] p = "cold" -> {l \in walk : alive[l] >= Grace /\ ~Hot(l)}
    [] p = "reset" -> IF tick.pc = p THEN walk ELSE IF due THEN Outranked ELSE {}
    [] p = "station" -> {l \in Paired : tabs[l] = "away"}
    [] p = "gaps" -> IF Gaps # {} /\ Cardinality(Tabbed) < MaxTabs THEN {Soonest(Gaps)} ELSE {}
    [] p = "alive" -> {l \in Tabbed \cap Paired : alive[l] >= KeepAlive}
    [] p = "rove" -> IF rove.page # "none" /\ age < Dwell THEN {} ELSE Swept

\* On to the next thing the loop waits for.  On its way it notes since when a tab's
\* league is on the board.  Any iteration may be the one that renews the ranking.
Proceed ==
  /\ tick.at = "run"
  /\ \E due \in BOOLEAN : LET left == {i \in From .. Len(Phases) : Todo(Phases[i], due) # {}}
         i == IF left = {} THEN Len(Phases) + 1 ELSE CHOOSE i \in left : \A j \in left : i <= j
         walked == IF tick.pc = "reclaim" THEN tick.walk ELSE Tabbed
         noted == [l \in Leagues |-> IF From > 2 \/ i < 2 \/ l \notin walked THEN since[l]
                     ELSE IF world[l] # "boarded" THEN -1 ELSE IF since[l] < 0 THEN 0 ELSE since[l]]
     IN IF left = {} THEN Ends /\ since' = noted /\ UNCHANGED <<tabs, alive, hand>>
           ELSE LET p == Phases[i] IN \E l \in Todo(p, due) :
             IF p \in Closing
             THEN \* popping a tab somebody took away meanwhile ends the iteration
                  /\ IF tabs[l] = "none" THEN Ends
                     ELSE Awaits(p, l, IF p \in {tick.pc, "reset"} THEN Todo(p, due) \ {l} ELSE Tabbed \ {l})
                  /\ tabs' = [tabs EXCEPT ![l] = "none"] /\ alive' = [alive EXCEPT ![l] = 0]
                  /\ since' = [noted EXCEPT ![l] = -1]
                  /\ UNCHANGED hand
             ELSE /\ Awaits(p, l, {}) /\ since' = noted /\ UNCHANGED tabs
                  /\ alive' = IF p \in {"station", "alive"} THEN [alive EXCEPT ![l] = 0] ELSE alive
                  /\ IF p = "rove" THEN Moves("tick", l) ELSE UNCHANGED hand
  /\ UNCHANGED <<world, rove, age, asked, held, on, dropping, upsets>>

\* A page closed, opened or navigated by the loop is there, or is not.  The slot of
\* an opened one is filled whatever happened to it meanwhile.
PageThere(ok) ==
  /\ Yields /\ tick.pc \in Closing \cup {"station", "gaps", "alive"}
  /\ tick.pc \in Closing => ok
  /\ tick.pc \in {"station", "alive"} /\ ok => tabs[tick.l] # "gone"
  /\ tabs' = IF ok /\ tick.pc \notin Closing /\ (tick.pc = "gaps" \/ tick.l \in Tabbed)
             THEN [tabs EXCEPT ![tick.l] = "on"] ELSE tabs
  /\ alive' = IF ok /\ tick.pc = "gaps" THEN [alive EXCEPT ![tick.l] = 0] ELSE alive
  /\ IF tick.pc \in Closing THEN GoesOn(tick.pc, tick.walk) ELSE GoesOn(Phases[From + 1], {})
  /\ UNCHANGED <<world, since, rove, age, hand, asked, held, on, dropping, upsets>>

(* ---- the roving tab ---------------------------------------------------------- *)
\* What becomes of the roving tab when a hand's page is there (ok), or is not.
\* Mutant: the dwell goes on from the last sweep, whoever borrowed the tab since.
MutUnstamped(h, ok) ==
  /\ IF ok /\ hand[h].pc = "open" THEN rove' = [page |-> "open", at |-> hand[h].l, lid |-> hand[h].l]
     ELSE IF ok THEN rove' = [rove EXCEPT !.at = IF hand[h].mine THEN hand[h].l ELSE @, !.lid = hand[h].l]
     ELSE IF hand[h].pc = "nav" THEN rove' = NoRove
     ELSE UNCHANGED rove
  /\ age' = IF ok /\ h = "tick" THEN 0 ELSE age
Roved(h, ok) ==
  /\ IF ok /\ hand[h].pc = "open" THEN rove' = [page |-> "open", at |-> hand[h].l, lid |-> hand[h].l]
     ELSE IF ok THEN rove' = [rove EXCEPT !.at = IF hand[h].mine THEN hand[h].l ELSE @, !.lid = hand[h].l]
     ELSE IF hand[h].pc = "nav" THEN rove' = NoRove
     ELSE UNCHANGED rove
  /\ age' = IF ok THEN 0 ELSE age
\* A navigation that was interrupted, or whose page is gone, fails.
May(h, ok) == ok => ~hand[h].cut /\ (hand[h].mine => rove.page # "gone")
Left(h, ok, hs) == IF (hand[h].pc = "open") = ok THEN Forgotten(hs) ELSE hs

RoveThere(ok) ==
  /\ Yields /\ tick.pc = "rove" /\ May("tick", ok) /\ Roved("tick", ok)
  /\ hand' = Left("tick", ok, [hand EXCEPT !["tick"] = Free])
  /\ Ends
  /\ UNCHANGED <<world, tabs, alive, since, asked, held, on, dropping, upsets>>

\* verify_now, one at a time: what is covered is verified; the others borrow the
\* roving tab, and hold the loop while they wait.
VerifyNow(l) ==
  /\ Yields /\ hand["verify"] = Free /\ l \in Paired
  /\ l \notin CoveredLids /\ world[l] \notin {"fed", "boarded"}
  /\ held' = TRUE /\ Moves("verify", l)
  /\ UNCHANGED <<world, tabs, alive, since, rove, age, tick, asked, on, dropping, upsets>>
\* The page it opened is the roving tab from now on.
Waiting(r) == [r EXCEPT !.pc = "wait", !.mine = IF r.pc = "open" THEN TRUE ELSE @]
VerifyHas(ok) ==
  /\ Yields /\ hand["verify"].pc \in {"open", "nav"} /\ May("verify", ok) /\ Roved("verify", ok)
  /\ LET keeps == ok /\ (hand["verify"].pc = "open" \/ rove.page # "none")
         left == Left("verify", ok, hand)
     IN /\ hand' = [left EXCEPT !["verify"] =
                     IF keeps THEN Waiting(left["verify"]) ELSE Free]
        /\ held' = (held /\ keeps)
  /\ UNCHANGED <<world, tabs, alive, since, tick, asked, on, dropping, upsets>>
VerifyEnds ==
  /\ Yields /\ hand["verify"].pc = "wait"
  /\ hand' = [hand EXCEPT !["verify"] = Free] /\ held' = FALSE
  /\ UNCHANGED <<world, tabs, alive, since, rove, age, tick, asked, on, dropping, upsets>>

(* ---- request_verify, and the drop of the tabs --------------------------------- *)
RequestVerify(l) ==
  /\ Yields /\ asked = NoLeague /\ l \in Paired /\ l \notin Tabbed /\ Cardinality(Tabbed) < MaxTabs
  /\ asked' = l
  /\ UNCHANGED <<world, tabs, alive, since, rove, age, tick, hand, held, on, dropping, upsets>>
RequestOpened(ok) ==
  /\ Yields /\ asked # NoLeague /\ asked' = NoLeague
  /\ IF ok THEN tabs' = [tabs EXCEPT ![asked] = "on"] /\ alive' = [alive EXCEPT ![asked] = 0]
     ELSE UNCHANGED <<tabs, alive>>
  /\ UNCHANGED <<world, since, rove, age, tick, hand, held, on, dropping, upsets>>

\* drop_all_tabs at a logout; stop when the session closes, which ends the loop too.
\* The pages close one after the other, and only then is everything forgotten.
Drop(stops) ==
  /\ upsets < Upsets /\ upsets' = upsets + 1
  /\ Yields /\ on /\ ~dropping
  /\ dropping' = TRUE /\ on' = ~stops
  /\ tick' = IF stops THEN Asleep ELSE tick
  /\ hand' = IF stops THEN [hand EXCEPT !["tick"] = Free] ELSE hand
  /\ tabs' = [l \in Leagues |-> IF tabs[l] = "none" THEN "none" ELSE "gone"]
  /\ UNCHANGED <<world, alive, since, rove, age, asked, held>>
Dropped ==
  /\ Yields /\ dropping
  /\ tabs' = [l \in Leagues |-> "none"] /\ alive' = [l \in Leagues |-> 0] /\ since' = [l \in Leagues |-> -1]
  /\ rove' = NoRove /\ hand' = Forgotten(hand)
  /\ dropping' = FALSE
  /\ UNCHANGED <<world, age, tick, asked, held, on, upsets>>
StartLoop ==
  /\ ~on /\ ~dropping /\ on' = TRUE
  /\ UNCHANGED <<world, tabs, alive, since, rove, age, tick, hand, asked, held, dropping, upsets>>

Loop ==
  \/ TickStarts \/ Scanned \/ Proceed
  \/ \E ok \in BOOLEAN : PageThere(ok) \/ RoveThere(ok)
Verification == VerifyEnds \/ \E ok \in BOOLEAN : VerifyHas(ok)
TabsNext ==
  \/ Loop \/ Verification \/ WorldTurns \/ PageFails \/ Pass \/ Dropped \/ StartLoop
  \/ \E l \in Verified : VerifyNow(l) \/ RequestVerify(l)
  \/ \E b \in BOOLEAN : RequestOpened(b) \/ Drop(b)
TabsSpec == TabsInit /\ [][TabsNext]_tabVars
\* The loop has a step to take.
LoopCan == tick.pc # "sleep" \/ (on /\ ~held /\ Paired # {})
--------------------------------------------------------------------------------
\* Types; a league without a tab has no age.
TabsTypeOK ==
  /\ world \in [Leagues -> Statuses]
  /\ tabs \in [Leagues -> {"none", "on", "away", "gone"}]
  /\ \A l \in Leagues : alive[l] > 0 => tabs[l] # "none"
  /\ alive \in [Leagues -> 0 .. KeepAlive] /\ since \in [Leagues -> -1 .. Reclaim]
  /\ age \in 0 .. Dwell
  /\ asked \in Leagues \cup {NoLeague} /\ {held, on, dropping} \subseteq BOOLEAN /\ upsets \in 0 .. Upsets

\* A tab just opened for a verification is not taken from it: the loop closes a young
\* tab only when the board has its league, when the pairs file has lost it, or when a
\* ranking had condemned the league's former tab before that was dropped.
FreshKept ==
  [][\A l \in Leagues : tabs[l] = "on" /\ alive[l] < Grace /\ world[l] \notin {"unpaired", "boarded"}
       => tabs'[l] # "none" \/ dropping \/ (tick.pc = "reset" /\ l \in tick.walk)]_tabVars

\* What a verification waits on shows its league until it ends: the dwell of the
\* roving tab, begun anew when it is borrowed, outlasts the wait.
BorrowedShows ==
  LET v == hand["verify"] IN v.pc = "wait" /\ v.mine /\ rove.page = "open" => rove.at = v.l

\* A tab that is gone does not keep its league covered for good: while the loop is
\* neither held nor stopped, and the pairs file names a league, the slot is freed.
DeadFreed ==
  \A l \in Leagues : []<>(tabs[l] # "gone" \/ held \/ ~on \/ Paired = {})

\* What a verification or a bet waits on is what is shown.
TabsSound == TabsTypeOK /\ BorrowedShows
\* A young tab is left to its verification, a dead one is freed.
TabsKept == FreshKept /\ DeadFreed
================================================================================
