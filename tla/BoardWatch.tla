------------------------------ MODULE BoardWatch ------------------------------
(* What keeps the main page of the Pinnacle browser where it belongs: the login     *)
(* watcher moves it to its home once and returns it when it has drifted             *)
(* (pinnacle_session.py), the in-play loop pins it to the live list (inplay.py).    *)
(* Bets, manual mode, reloads, logins and in-play mode itself stop and restart the  *)
(* organic gestures, whose gate the watcher looks at.                               *)
EXTENDS Integers

CONSTANTS Drift,   \* PINNACLE_BOARD_DRIFT_SEC
          Events   \* bound: modes, bets, reloads, logouts, wanderings, failures of a return

ASSUME BoardWatchAssumption == {Drift, Events} \subseteq Nat \ {0}

Homes == {"board", "live"}

VARIABLES
  moved,    \* the boards whose address redirects elsewhere
  shown,    \* what the page shows: a board, the login form, something else
  home, went, offFor, standsDown,  \* the session's fields; offFor is -1 when on its home
  watcher, target,  \* asleep, homing, returning, and the address it goes to
  pinner, pinBroken,               \* the in-play loop: idle or pinning
  inplay, bet, manual,
  stirring, \* the gate of the organic gestures
  settling, \* a login was submitted of late
  events
watchVars == <<moved, shown, home, went, offFor, standsDown, watcher, target, pinner, pinBroken,
               inplay, bet, manual, stirring, settling, events>>

Lands(b) == IF b \in moved THEN "else" ELSE b

BoardWatchInit ==
  /\ moved \in SUBSET Homes /\ shown \in {"login", "else"}
  /\ home = "board" /\ went = FALSE /\ offFor = -1 /\ standsDown = FALSE
  /\ watcher = "asleep" /\ target = "board" /\ pinner = "idle" /\ pinBroken = FALSE
  /\ inplay = FALSE /\ bet = FALSE /\ manual = FALSE /\ stirring = TRUE /\ settling = FALSE /\ events = 0

Happens == events < Events /\ events' = events + 1
(* ---- what others do to the page ------------------------------------------------ *)
Wander ==
  /\ Happens /\ shown' \in {"else", "login"}
  /\ UNCHANGED <<moved, home, went, offFor, standsDown, watcher, target, pinner, pinBroken, inplay, bet, manual, stirring, settling>>
\* _pause_all_organic and _resume_all_organic, for a bet or for manual mode.
Bets(on) ==
  /\ Happens /\ bet = ~on /\ bet' = on
  /\ stirring' = IF on THEN FALSE ELSE IF inplay THEN stirring ELSE TRUE
  /\ UNCHANGED <<moved, shown, home, went, offFor, standsDown, watcher, target, pinner, pinBroken, inplay, manual, settling>>
Manual(on) ==
  /\ Happens /\ manual = ~on /\ manual' = on
  /\ stirring' = IF on THEN FALSE ELSE IF inplay THEN stirring ELSE TRUE
  /\ UNCHANGED <<moved, shown, home, went, offFor, standsDown, watcher, target, pinner, pinBroken, inplay, bet, settling>>
\* _session_refresh_loop reloads the page, and lets the gestures go on whoever stopped
\* them.
PageReloaded ==
  /\ Happens /\ ~manual /\ stirring' = TRUE
  /\ UNCHANGED <<moved, shown, home, went, offFor, standsDown, watcher, target, pinner, pinBroken, inplay, bet, manual, settling>>

\* set_home_url
SetHome(b) == home' = b /\ went' = FALSE /\ offFor' = -1
\* start_inplay: the page goes to the live list, which becomes its home.
StartInplay ==
  /\ Happens /\ ~inplay /\ inplay' = TRUE
  /\ shown' = Lands("live") /\ stirring' = FALSE /\ SetHome("live")
  /\ UNCHANGED <<moved, standsDown, watcher, target, pinner, pinBroken, bet, manual, settling>>
StopInplay ==
  /\ Happens /\ inplay /\ inplay' = FALSE /\ pinner' = "idle" /\ pinBroken' = FALSE
  /\ SetHome("board") /\ stirring' = TRUE
  /\ UNCHANGED <<moved, shown, standsDown, watcher, target, bet, manual, settling>>

(* ---- the in-play loop ---------------------------------------------------------- *)
\* _pin_url, in a round that is not paused by a bet.
PinStarts ==
  /\ inplay /\ ~bet /\ pinner = "idle" /\ ~pinBroken /\ shown # "live" /\ pinner' = "pinning"
  /\ UNCHANGED <<moved, shown, home, went, offFor, standsDown, watcher, target, pinBroken, inplay, bet, manual, stirring, settling, events>>
\* An address that does not hold is not tried again.
Pinned ==
  /\ pinner = "pinning" /\ pinner' = "idle" /\ shown' = Lands("live") /\ pinBroken' = ("live" \in moved)
  /\ UNCHANGED <<moved, home, went, offFor, standsDown, watcher, target, inplay, bet, manual, stirring, settling, events>>

(* ---- the watcher ---------------------------------------------------------------- *)
\* _login_watch_loop: a login form is submitted, and then settles; the page may also
\* show it again.
Submits ==
  /\ watcher = "asleep" /\ shown = "login" /\ ~settling /\ settling' = TRUE
  /\ UNCHANGED <<moved, shown, home, went, offFor, standsDown, watcher, target, pinner, pinBroken, inplay, bet, manual, stirring, events>>
Settles ==
  /\ settling /\ settling' = FALSE /\ shown' = IF shown = "login" THEN "else" ELSE shown
  /\ UNCHANGED <<moved, home, went, offFor, standsDown, watcher, target, pinner, pinBroken, inplay, bet, manual, stirring, events>>

\* _go_home_once
GoesHome ==
  /\ watcher = "asleep" /\ ~went /\ ~settling /\ shown # "login"
  /\ IF shown = home THEN went' = TRUE /\ UNCHANGED <<watcher, target, stirring>>
     ELSE watcher' = "homing" /\ target' = home /\ stirring' = FALSE /\ UNCHANGED went
  /\ UNCHANGED <<moved, shown, home, offFor, standsDown, pinner, pinBroken, inplay, bet, manual, settling, events>>
\* The navigation ends, or fails: it is not tried again either way.
Homed(ok) ==
  /\ watcher = "homing" /\ watcher' = "asleep" /\ went' = TRUE /\ stirring' = TRUE
  /\ shown' = IF ok THEN Lands(target) ELSE shown
  /\ UNCHANGED <<moved, home, target, offFor, standsDown, pinner, pinBroken, inplay, bet, manual, settling, events>>

\* Mutant: the check does not look at the login just sent.
MutMayReturn == went /\ ~standsDown /\ ~manual /\ stirring
MayReturn == went /\ ~standsDown /\ ~manual /\ ~settling /\ stirring
\* _board_drift_check: the time off home is noted, and when it is long the page returns.
Checked ==
  /\ watcher = "asleep" /\ MayReturn
  /\ IF shown = home THEN offFor' = -1 /\ UNCHANGED <<watcher, target, stirring>>
     ELSE IF offFor < 0 THEN offFor' = 0 /\ UNCHANGED <<watcher, target, stirring>>
     ELSE /\ offFor = Drift
          /\ watcher' = "returning" /\ target' = home /\ offFor' = -1 /\ stirring' = FALSE
  /\ UNCHANGED <<moved, shown, home, went, standsDown, pinner, pinBroken, inplay, bet, manual, settling, events>>
\* A home that redirects stands the check down.
Returned(ok) ==
  /\ watcher = "returning" /\ watcher' = "asleep" /\ stirring' = TRUE
  /\ shown' = IF ok THEN Lands(target) ELSE shown
  /\ standsDown' = (standsDown \/ (ok /\ target \in moved))
  /\ IF ok THEN UNCHANGED events ELSE Happens
  /\ UNCHANGED <<moved, home, target, went, offFor, pinner, pinBroken, inplay, bet, manual, settling>>
WatchClock ==
  /\ offFor \in 0 .. Drift - 1 /\ offFor' = offFor + 1
  /\ UNCHANGED <<moved, shown, home, went, standsDown, watcher, target, pinner, pinBroken, inplay, bet, manual, stirring, settling, events>>

Watches == Submits \/ GoesHome \/ Checked
BoardWatchNext ==
  \/ Wander \/ PageReloaded \/ StartInplay \/ StopInplay \/ \E on \in BOOLEAN : Bets(on) \/ Manual(on)
  \/ PinStarts \/ Pinned \/ Watches \/ Settles \/ WatchClock
  \/ \E ok \in BOOLEAN : Homed(ok) \/ Returned(ok)
BoardWatchSpec == BoardWatchInit /\ [][BoardWatchNext]_watchVars
--------------------------------------------------------------------------------
\* Types; while the page returns no time off home is counted.
BoardWatchTypeOK ==
  /\ moved \subseteq Homes /\ shown \in Homes \cup {"login", "else"} /\ home \in Homes
  /\ offFor \in -1 .. Drift /\ watcher \in {"asleep", "homing", "returning"} /\ pinner \in {"idle", "pinning"}
  /\ {went, standsDown, pinBroken, inplay, bet, manual, stirring, settling} \subseteq BOOLEAN
  /\ target \in Homes /\ (watcher = "returning" => offFor = -1)
\* _go_home_once, _board_drift_check: the page is not navigated over a login that was
\* just sent.
LoginUncrossed == settling => watcher = "asleep"

\* The watchdogs of the page keep off a login, and remember only addresses they may go to.
WatchSound == BoardWatchTypeOK /\ LoginUncrossed
================================================================================
