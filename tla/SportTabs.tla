------------------------------- MODULE SportTabs -------------------------------
(* The tabs of the BetInAsia browser (betinasia_observer.py), and the tasks of the  *)
(* adapter that use them: the parker opens a board tab per sport and resets them    *)
(* all now and then, a slip quote clicks on one of them or on the roving tab, and   *)
(* the sport walker moves the page the observer reads from. Quotes and resets hold  *)
(* the slip's lock; the first parking and the walker do not.                        *)
EXTENDS Integers, Sequences

CONSTANTS Targets,    \* sports.bia_paths: the boards to park, in order
          MostPages,  \* the tabs the browser opens beside the observing page
          Happenings  \* bound: what befalls the pages: closings, wanderings, walks, failures

Sports == {Targets[i] : i \in 1 .. Len(Targets)}

ASSUME SportTabsAssumption ==
  /\ Targets \in Seq(STRING) /\ Len(Targets) > 0 /\ Sports \cap {"else", "free"} = {}
  /\ MostPages \in Nat \ {0} /\ Happenings \in Nat
Observing == 0
NoPage == -1
Shut == -2    \* a handle whose page was closed
Pages == 0 .. MostPages
Handles == Pages \cup {NoPage, Shut}

VARIABLES
  shows,     \* what each page shows; "free" when there is no such page
  rows,      \* the pages whose collapsed rows were expanded
  parked, rover, gestures,   \* _sport_tabs, _rover, the pages of _organic
  ended, quiet,              \* the boards whose _run_organic returned, or is paused
  slip, lock,                \* _slip_open_key is set; who holds _slip_lock
  started, parker,           \* the first parking ended; _park's step (off with BIA_BOARD_TABS=0) and target
  tab,       \* sport_tab, as called by the parker and by a quote
  quote,     \* _slip_quote_locked: its step, its sport, the page its row is on
  walker, happened
sportVars == <<shows, rows, parked, rover, gestures, ended, quiet, slip, lock, started, parker, tab,
               quote, walker, happened>>

Callers == {"parker", "quote"}
NoTab == [step |-> "none", sport |-> "none", page |-> NoPage]
NoQuote == [step |-> "idle", sport |-> "none", page |-> NoPage, calm |-> FALSE]

SportTabsInit ==
  /\ shows = [p \in Pages |-> IF p = Observing THEN Targets[1] ELSE "free"] /\ rows = {}
  /\ parked = [s \in Sports |-> NoPage] /\ rover = NoPage /\ gestures = [s \in Sports |-> NoPage]
  /\ ended = {} /\ quiet = {} /\ slip = FALSE /\ lock = "free"
  /\ started = FALSE
  /\ \E step \in {"parking", "off"} : parker = [step |-> step, at |-> 1]
  /\ tab = [c \in Callers |-> NoTab] /\ quote = NoQuote
  /\ walker = [step |-> "idle", sport |-> "none"] /\ happened = 0

Happened == happened < Happenings /\ happened' = happened + 1
Up(p) == p \in Pages /\ shows[p] # "free"
Forgot(p, h) == IF h = p THEN Shut ELSE h
\* A page closes: every handle to it is dead.
Closes(p) ==
  /\ shows' = [shows EXCEPT ![p] = "free"] /\ rows' = rows \ {p}
  /\ parked' = [s \in Sports |-> Forgot(p, parked[s])] /\ rover' = Forgot(p, rover)
  /\ gestures' = [s \in Sports |-> Forgot(p, gestures[s])]
  /\ tab' = [c \in Callers |-> [tab[c] EXCEPT !.page = Forgot(p, @)]]
  /\ quote' = [quote EXCEPT !.page = Forgot(p, @)]
OpensOn(p) == shows[p] = "free" /\ (\A q \in Pages : shows[q] = "free" => p <= q)
QuoteOver == lock' = "free" /\ quiet' = {} /\ quote' = NoQuote

(* ---- sport_tab ----------------------------------------------------------------- *)
TabAt(c, s, step, p) == tab' = [tab EXCEPT ![c] = [step |-> step, sport |-> s, page |-> p]]
\* The observing page is used when it shows the board, else the parked page, which is
\* brought back when it has wandered, else a new one.
CallsTab(c, s) ==
  IF shows[Observing] = s
  THEN IF parked[s] = NoPage
       THEN parked' = [parked EXCEPT ![s] = Observing] /\ TabAt(c, s, "expanding", Observing)
       ELSE TabAt(c, s, "done", Observing) /\ UNCHANGED parked
  ELSE /\ UNCHANGED parked
       /\ IF ~Up(parked[s]) THEN TabAt(c, s, "opening", NoPage)
          ELSE TabAt(c, s, IF shows[parked[s]] = s THEN "done" ELSE "going", parked[s])
TabOpens(c) ==
  /\ tab[c].step = "opening"
  /\ \E p \in Pages : /\ OpensOn(p) /\ shows' = [shows EXCEPT ![p] = "else"]
                      /\ parked' = [parked EXCEPT ![tab[c].sport] = p] /\ TabAt(c, tab[c].sport, "going", p)
  /\ UNCHANGED <<rows, rover, gestures, ended, quiet, slip, lock, started, parker, quote, walker, happened>>
\* No more tabs: new_page raises, and with it the parking, or the quote.
TabFails(c) ==
  /\ tab[c].step = "opening" /\ (\A p \in Pages : Up(p)) /\ tab' = [tab EXCEPT ![c] = NoTab]
  /\ IF c = "quote" THEN QuoteOver /\ UNCHANGED <<started, parker>>
     ELSE /\ parker' = [step |-> "waiting", at |-> 1] /\ started' = TRUE /\ UNCHANGED <<quiet, quote>>
          /\ lock' = IF lock = "reset" THEN "free" ELSE lock
  /\ UNCHANGED <<shows, rows, parked, rover, gestures, ended, slip, walker, happened>>
TabGoes(c, ok) ==
  /\ tab[c].step = "going" /\ (ok => Up(tab[c].page))
  /\ IF ~ok /\ Up(tab[c].page) THEN Happened ELSE UNCHANGED happened
  /\ tab' = [tab EXCEPT ![c].step = IF ok THEN "expanding" ELSE "done"]
  /\ shows' = IF ok THEN [shows EXCEPT ![tab[c].page] = tab[c].sport] ELSE shows
  /\ rows' = IF ok THEN rows \ {tab[c].page} ELSE rows
  /\ UNCHANGED <<parked, rover, gestures, ended, quiet, slip, lock, started, parker, quote, walker>>
\* expand_all
TabExpands(c) ==
  /\ tab[c].step = "expanding" /\ tab' = [tab EXCEPT ![c].step = "done"]
  /\ rows' = rows \cup ({tab[c].page} \cap Pages)
  /\ UNCHANGED <<shows, parked, rover, gestures, ended, quiet, slip, lock, started, parker, quote, walker, happened>>

(* ---- the parker: open_sport_tabs, reset_sport_tabs ------------------------------ *)
Target == Targets[parker.at]
ParkCalls ==
  /\ parker.step = "parking" /\ parker.at <= Len(Targets) /\ tab["parker"] = NoTab
  /\ CallsTab("parker", Target)
  /\ UNCHANGED <<shows, rows, rover, gestures, ended, quiet, slip, lock, started, parker, quote, walker, happened>>
\* A page that is still open is given its gestures: _start_organic.
ParkedOne ==
  /\ tab["parker"].step = "done"
  /\ LET p == tab["parker"].page
     IN gestures' = IF Up(p) /\ gestures[Target] = NoPage THEN [gestures EXCEPT ![Target] = p] ELSE gestures
  /\ tab' = [tab EXCEPT !["parker"] = NoTab] /\ parker' = [parker EXCEPT !.at = @ + 1]
  /\ UNCHANGED <<shows, rows, parked, rover, ended, quiet, slip, lock, started, quote, walker, happened>>
AllParked ==
  /\ parker.step = "parking" /\ parker.at > Len(Targets)
  /\ parker' = [step |-> "waiting", at |-> 1] /\ started' = TRUE
  /\ lock' = IF lock = "reset" THEN "free" ELSE lock
  /\ UNCHANGED <<shows, rows, parked, rover, gestures, ended, quiet, slip, tab, quote, walker, happened>>

Resetting ==
  /\ parker' = [step |-> "closing", at |-> 1]
  /\ gestures' = [s \in Sports |-> NoPage] /\ ended' = {} /\ quiet' = {}
  /\ UNCHANGED <<shows, rows, parked, rover, slip, started, tab, quote, walker, happened>>
\* Mutant: a reset does not wait for a quote.
MutResetStarts == parker.step = "waiting" /\ Resetting /\ lock' = IF lock = "free" THEN "reset" ELSE lock
ResetStarts == parker.step = "waiting" /\ Resetting /\ lock = "free" /\ lock' = "reset"
\* The observing page is reloaded, never closed.
ResetReloads(ok) ==
  /\ parker.step = "closing" /\ parker.at <= Len(Targets) /\ parked[Target] = Observing
  /\ rows' = (IF ok THEN rows \ {Observing} ELSE rows) /\ parker' = [parker EXCEPT !.at = @ + 1]
  /\ UNCHANGED <<shows, parked, rover, gestures, ended, quiet, slip, lock, started, tab, quote, walker, happened>>
Closeable(p) == Up(p) /\ p # Observing
ResetCloses ==
  /\ parker.step = "closing" /\ parker.at <= Len(Targets)
  /\ Closeable(parked[Target]) /\ Closes(parked[Target])
  /\ parker' = [parker EXCEPT !.at = @ + 1]
  /\ UNCHANGED <<ended, quiet, slip, lock, started, walker, happened>>
ResetSkips ==
  /\ parker.step = "closing" /\ parker.at <= Len(Targets) /\ ~Up(parked[Target])
  /\ parker' = [parker EXCEPT !.at = @ + 1]
  /\ UNCHANGED <<shows, rows, parked, rover, gestures, ended, quiet, slip, lock, started, tab, quote, walker, happened>>
ResetClears ==
  /\ parker.step = "closing" /\ parker.at > Len(Targets)
  /\ parked' = [s \in Sports |-> NoPage] /\ parker' = [step |-> "roving", at |-> 1]
  /\ UNCHANGED <<shows, rows, rover, gestures, ended, quiet, slip, lock, started, tab, quote, walker, happened>>
\* Mutant: the roving tab is forgotten and not closed.
MutResetRover ==
  /\ parker.step = "roving" /\ parker' = [step |-> "parking", at |-> 1] /\ rover' = NoPage
  /\ UNCHANGED <<shows, rows, parked, gestures, slip, tab, quote, ended, quiet, lock, started, walker, happened>>
ResetRover ==
  /\ parker.step = "roving" /\ parker' = [step |-> "parking", at |-> 1]
  /\ IF Up(rover) THEN Closes(rover) ELSE rover' = NoPage /\ UNCHANGED <<shows, rows, parked, gestures, tab, quote>>
  /\ UNCHANGED <<ended, quiet, slip, lock, started, walker, happened>>
\* _run_organic: the gestures of a board that is gone end.
OrganicEnds(s) ==
  /\ gestures[s] # NoPage /\ s \notin quiet \cup ended /\ ~Up(parked[s]) /\ ended' = ended \cup {s}
  /\ UNCHANGED <<shows, rows, parked, rover, gestures, quiet, slip, lock, started, parker, tab, quote, walker, happened>>

(* ---- a quote ------------------------------------------------------------------- *)
QuoteBegins(s) ==
  /\ lock = "free" /\ lock' = "quote" /\ quote' = [step |-> "tab", sport |-> s, page |-> NoPage, calm |-> started]
  /\ quiet' = {t \in Sports : gestures[t] # NoPage} /\ CallsTab("quote", s)
  /\ UNCHANGED <<shows, rows, rover, gestures, ended, slip, started, parker, walker, happened>>
QuoteAt(step, p) == quote' = [quote EXCEPT !.step = step, !.page = p]
QuoteLooks(found) ==
  /\ tab["quote"].step = "done" /\ tab' = [tab EXCEPT !["quote"] = NoTab]
  /\ LET p == tab["quote"].page
     IN IF found THEN Up(p) /\ shows[p] = quote.sport /\ QuoteAt("aims", p)
        ELSE QuoteAt(IF Up(rover) THEN "roves" ELSE "opens", NoPage)
  /\ UNCHANGED <<shows, rows, parked, rover, gestures, ended, quiet, slip, lock, started, parker, walker, happened>>
RoverOpens ==
  /\ quote.step = "opens" /\ QuoteAt("roves", NoPage)
  /\ \E p \in Pages : OpensOn(p) /\ shows' = [shows EXCEPT ![p] = "else"] /\ rover' = p
  /\ UNCHANGED <<rows, parked, gestures, ended, quiet, slip, lock, started, parker, tab, walker, happened>>
\* The roving tab goes to the game's league, and the row is there or the quote fails.
RoverGoes ==
  /\ quote.step = "roves" /\ Up(rover)
  /\ shows' = [shows EXCEPT ![rover] = quote.sport] /\ QuoteAt("aims", rover)
  /\ UNCHANGED <<rows, parked, rover, gestures, ended, quiet, slip, lock, started, parker, tab, walker, happened>>
RoverFails ==
  /\ quote.step = "roves" \/ (quote.step = "opens" /\ (\A p \in Pages : Up(p)))
  /\ QuoteOver
  /\ UNCHANGED <<shows, rows, parked, rover, gestures, ended, slip, started, parker, tab, walker, happened>>
\* The click opens the slip, or fails.
QuoteClicks(ok) ==
  /\ quote.step = "aims" /\ (ok => Up(quote.page)) /\ QuoteOver
  /\ slip' = (slip \/ ok)
  /\ UNCHANGED <<shows, rows, parked, rover, gestures, ended, started, parker, tab, walker, happened>>
\* slip_close
SlipCloses ==
  /\ slip /\ lock = "free" /\ slip' = FALSE
  /\ UNCHANGED <<shows, rows, parked, rover, gestures, ended, quiet, lock, started, parker, tab, quote, walker, happened>>

(* ---- the walker and the operator ------------------------------------------------ *)
WalkerAt(step, s) == walker' = [step |-> step, sport |-> s]
WalkDue(s) ==
  /\ Happened /\ walker.step = "idle" /\ WalkerAt("due", s)
  /\ UNCHANGED <<shows, rows, parked, rover, gestures, ended, quiet, slip, lock, started, parker, tab, quote>>
Quiet == lock = "free" /\ ~slip
\* _quiet_for_slip: two minutes are all it waits.
Overdue ==
  /\ walker.step = "due" /\ ~Quiet /\ WalkerAt("overdue", walker.sport)
  /\ UNCHANGED <<shows, rows, parked, rover, gestures, ended, quiet, slip, lock, started, parker, tab, quote, happened>>
WalkGoes ==
  /\ \/ walker.step = "due" /\ Quiet
     \/ walker.step = "overdue"
  /\ WalkerAt("going", walker.sport)
  /\ UNCHANGED <<shows, rows, parked, rover, gestures, ended, quiet, slip, lock, started, parker, tab, quote, happened>>
\* visit_sports: the observing page is navigated, and expanded.
Walked(ok) ==
  /\ walker.step = "going" /\ WalkerAt("idle", "none")
  /\ shows' = IF ok THEN [shows EXCEPT ![Observing] = walker.sport] ELSE shows
  /\ rows' = IF ok THEN rows \cup {Observing} ELSE rows
  /\ UNCHANGED <<parked, rover, gestures, ended, quiet, slip, lock, started, parker, tab, quote, happened>>
OperatorCloses(p) ==
  /\ Happened /\ Up(p) /\ p # Observing /\ Closes(p)
  /\ UNCHANGED <<ended, quiet, slip, lock, started, parker, walker>>
OperatorWanders(p) ==
  /\ Happened /\ Up(p) /\ shows[p] # "else" /\ shows' = [shows EXCEPT ![p] = "else"] /\ rows' = rows \ {p}
  /\ UNCHANGED <<parked, rover, gestures, ended, quiet, slip, lock, started, parker, tab, quote, walker>>

Parks ==
  \/ ParkCalls \/ ParkedOne \/ AllParked \/ ResetStarts \/ (\E ok \in BOOLEAN : ResetReloads(ok))
  \/ ResetCloses \/ ResetSkips \/ ResetClears \/ ResetRover
TabMoves(c) == TabOpens(c) \/ TabFails(c) \/ TabExpands(c) \/ (\E ok \in BOOLEAN : TabGoes(c, ok))
QuoteMoves ==
  \/ (\E b \in BOOLEAN : QuoteLooks(b) \/ QuoteClicks(b))
  \/ RoverOpens \/ RoverGoes \/ RoverFails
SportTabsNext ==
  \/ Parks \/ QuoteMoves \/ SlipCloses
  \/ (\E c \in Callers : TabMoves(c))
  \/ (\E s \in Sports : QuoteBegins(s) \/ OrganicEnds(s) \/ WalkDue(s))
  \/ Overdue \/ WalkGoes \/ (\E ok \in BOOLEAN : Walked(ok))
  \/ (\E p \in Pages : OperatorCloses(p) \/ OperatorWanders(p))
SportTabsSpec == SportTabsInit /\ [][SportTabsNext]_sportVars
--------------------------------------------------------------------------------
\* Types; the observing page stays open, and a quote or a reset that runs holds the lock.
SportTabsTypeOK ==
  /\ shows \in [Pages -> Sports \cup {"else", "free"}] /\ shows[Observing] # "free" /\ rows \subseteq Pages
  /\ parked \in [Sports -> Handles] /\ gestures \in [Sports -> Handles] /\ rover \in Handles /\ slip \in BOOLEAN
  /\ ended \cup quiet \subseteq Sports /\ (lock = "quote" <=> quote.step # "idle")
  /\ (lock = "reset" => parker.step # "waiting")
\* reset_sport_tabs under _slip_lock: the bot never closes the tab a quote has found its
\* row on; only the operator may.
QuoteKept == [][quote.page \in Pages /\ happened' = happened => shows'[quote.page] # "free"]_sportVars
\* pause_organic: once the boards were parked, no board's gestures run during a quote;
\* none are started by a reset.
QuoteStill == quote.step # "idle" /\ quote.calm => {s \in Sports : gestures[s] # NoPage} \subseteq quiet
Orphans == {p \in Pages \ ({Observing, rover} \cup {parked[s] : s \in Sports}) : shows[p] # "free"}
Settled == started /\ (quote.step # "idle" => quote.calm)
\* Once the boards were parked, and the quotes begun before that ended, no open tab is
\* lost track of, through quotes and resets: the browser does not fill with tabs that
\* nobody will close.
TabsTracked == [][Settled => Orphans' \subseteq Orphans]_sportVars
BoardParked(s) ==
  Up(parked[s]) /\ shows[parked[s]] = s /\ parked[s] \in rows /\ gestures[s] = parked[s] /\ s \notin ended
\* Whatever the operator and the walker did, a reset gives every sport its board back:
\* shown, expanded, with its gestures (unless BIA_BOARD_TABS=0 leaves the tabs to the quotes).
BoardsReturn == []<>(parker.step = "off" \/ \A s \in Sports : BoardParked(s))

\* During a quote nothing else moves on the boards.
SportsSound == SportTabsTypeOK /\ QuoteStill
\* The tab of a quote stays, no tab is lost track of, and every board comes back.
BoardsKept == QuoteKept /\ TabsTracked /\ BoardsReturn
================================================================================
