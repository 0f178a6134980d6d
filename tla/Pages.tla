--------------------------------- MODULE Pages ---------------------------------
(* What keeps the venues' pages in shape between bets.  Pinnacle: the tabs of the   *)
(* leagues (BoardTabs), the organic gestures (Organic) and the watch over the main  *)
(* page (BoardWatch).  BetInAsia: the board tabs (SportTabs).  BookMaker: its page  *)
(* and session (Bookmaker).  The parts share no state; a behaviour is one of one    *)
(* part, the others being at rest.                                                  *)
EXTENDS BoardTabs, Organic, BoardWatch, SportTabs, Bookmaker

VARIABLE part
pagesVars == <<part, tabVars, organicVars, watchVars, sportVars, bookVars>>

\* No pair names a league; the gestures are paused; the page is at home; BIA_BOARD_TABS
\* is 0; the book offers a pre-match game on three lines.
TabsRest == TabsInit /\ world = [l \in Leagues |-> "unpaired"] /\ tabs = [l \in Leagues |-> "none"]
OrganicRests ==
  /\ gate = [h \in Hands |-> FALSE] /\ act = [h \in Hands |-> AtGate]
  /\ slipOn = [p \in AllPages |-> "none"] /\ betOn = {} /\ late = [h \in Hands |-> <<>>]
WatchRests ==
  /\ moved = {} /\ shown = "board" /\ home = "board" /\ went = TRUE /\ offFor = -1 /\ standsDown = FALSE
  /\ watcher = "asleep" /\ target = "board" /\ pinner = "idle" /\ pinBroken = FALSE
  /\ inplay = FALSE /\ bet = FALSE /\ manual = FALSE /\ stirring = TRUE /\ settling = FALSE /\ events = 0
SportsRest == SportTabsInit /\ parker.step = "off"
BookOpens == BookInit /\ (\A g \in Games : ~book[g].live /\ book[g].line = "three")
BookRests == BookOpens /\ rtq = FALSE

PagesInit ==
  /\ part \in {"tabs", "organic", "watch", "sports", "book"}
  /\ IF part = "tabs" THEN TabsInit ELSE TabsRest
  /\ IF part = "organic" THEN OrganicInit ELSE OrganicRests
  /\ IF part = "watch" THEN BoardWatchInit ELSE WatchRests
  /\ IF part = "sports" THEN SportTabsInit ELSE SportsRest
  /\ IF part = "book" THEN BookOpens ELSE BookRests

PagesNext ==
  /\ part' = part
  /\ \/ part = "tabs" /\ TabsNext /\ UNCHANGED <<organicVars, watchVars, sportVars, bookVars>>
     \/ part = "organic" /\ OrganicNext /\ UNCHANGED <<tabVars, watchVars, sportVars, bookVars>>
     \/ part = "watch" /\ BoardWatchNext /\ UNCHANGED <<tabVars, organicVars, sportVars, bookVars>>
     \/ part = "sports" /\ SportTabsNext /\ UNCHANGED <<tabVars, organicVars, watchVars, bookVars>>
     \/ part = "book" /\ BookNext /\ UNCHANGED <<tabVars, organicVars, watchVars, sportVars>>
\* BoardTabs, Organic: the loops go on.  BoardWatch: so do the watcher, the in-play loop,
\* logins and time; the failures of a return are bounded.
\* SportTabs: a reset gets the slip's lock in its turn; the parker, a quote and the calls
\* they make go on.  Bookmaker: time passes, a recovery begun goes on, and the keep-alive
\* loop turns while the site can be reached.
PagesFairness ==
  /\ WF_tabVars(part = "tabs" /\ LoopCan /\ Loop)
  /\ \A h \in Hands : WF_organicVars(part = "organic" /\ IdleCan(h) /\ (Idles(h) \/ StepFails(h)))
  /\ WF_watchVars(part = "watch" /\ Watches) /\ WF_watchVars(part = "watch" /\ Settles)
  /\ WF_watchVars(part = "watch" /\ WatchClock) /\ WF_watchVars(part = "watch" /\ Pinned)
  /\ WF_watchVars(part = "watch" /\ \E ok \in BOOLEAN : Homed(ok) \/ Returned(ok))
  /\ SF_sportVars(part = "sports" /\ ResetStarts)
  /\ WF_sportVars(part = "sports" /\ (Parks \/ TabMoves("parker")))
  /\ WF_sportVars(part = "sports" /\ (QuoteMoves \/ TabMoves("quote")))
  /\ WF_bookVars(part = "book" /\ BookPass) /\ WF_bookVars(part = "book" /\ Recovering)
  /\ WF_bookVars(part = "book" /\ Keepalive(TRUE))
PagesSpec == PagesInit /\ [][PagesNext]_pagesVars /\ PagesFairness
================================================================================
