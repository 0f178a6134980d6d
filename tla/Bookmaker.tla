------------------------------ MODULE Bookmaker -------------------------------
(* BookmakerAdapter (bookmaker_adapter.py, bookmaker_gameview.py): prices are     *)
(* fetched in the page for the leagues somebody asks for, and read from the       *)
(* page's own responses; a session that has ended is recovered by a reload of the *)
(* page, and by a login when it shows the form.  A league has one game, which is  *)
(* also its name.  What the book offers of a game is                              *)
(*   "gone" no money line, "shut" a line with a draw that cannot be bet, "two" or *)
(*   "three" a line to bet without or with a draw, before the game or live.       *)
EXTENDS Integers, Sequences, FiniteSets

CONSTANTS Games,
          BookCooldown, \* BOOKMAKER_RECOVER_COOLDOWN_SEC
          Longest,      \* bound: doublings of the back-off before its cap of 60 s
          AutoLogin,    \* BOOKMAKER_AUTOLOGIN, or credentials
          LoginTries,   \* failed logins in a row after which it gives up
          Turns         \* bound: changes of the book and ends of its session

ASSUME BookAssumption ==
  /\ {BookCooldown, Longest, LoginTries} \subseteq Nat \ {0} /\ Turns \in Nat /\ AutoLogin \in BOOLEAN

VARIABLES
  book,     \* what the book offers of each game
  cache,    \* of each side of each game: none, open, suspended
  seen,     \* the last answer about each game to reach the cache
  ask,      \* the refresh loop: the leagues it asked for, and the answers so far
  reading,  \* responses of the page being read
  active,   \* leagues somebody asked for of late
  backoff, limited,  \* doublings of the wait, and whether the last cycle met a 429
  session,  \* in, refused (its requests answer 401), lapsed (they answer the login page)
  rtq,      \* the queue name is captured
  rec,      \* the recovery: idle, reload, look, login, submitted
  rested,   \* age of the last recovery
  fails,    \* failed logins in a row
  turns

bookVars == <<book, cache, seen, ask, reading, active, backoff, limited, session, rtq, rec, rested, fails, turns>>

Sides == {"H", "V", "D"}
Offers == [live : BOOLEAN, line : {"gone", "shut", "two", "three"}]
Unseen == [live |-> FALSE, line |-> "gone"]
Resting == [pc |-> "rest", of |-> {}, got |-> <<>>]

(* ---- the answers ------------------------------------------------------------ *)
\* Mutant: a live game whose line is gone keeps its draw.
MutEmitted(o) ==
  CASE o.line = "gone" -> IF o.live THEN [s \in {"H", "V"} |-> "suspended"] ELSE <<>>
    [] o.line = "shut" -> [s \in Sides |-> "suspended"]
    [] o.line = "two" -> [s \in {"H", "V"} |-> "open"]
    [] o.line = "three" -> [s \in Sides |-> "open"]
\* _emit_game: the sides an answer speaks of, and their status.  A live game without a
\* line is suspended whole; before the game nothing is said of it.
Emitted(o) ==
  CASE o.line = "gone" -> IF o.live THEN [s \in Sides |-> "suspended"] ELSE <<>>
    [] o.line = "shut" -> [s \in Sides |-> "suspended"]
    [] o.line = "two" -> [s \in {"H", "V"} |-> "open"]
    [] o.line = "three" -> [s \in Sides |-> "open"]

\* _cache_entry
Cached(c, said) == [s \in Sides |-> IF s \in DOMAIN said THEN said[s] ELSE c[s]]
\* _ingest_response names a field the adapter does not have as soon as it has stored
\* an open side: the sides after it are lost.
Interrupted(said) ==
  IF "H" \in DOMAIN said /\ said["H"] = "open" THEN [s \in {"H"} |-> "open"] ELSE said

BookInit ==
  /\ book \in [Games -> Offers] /\ cache = [g \in Games |-> [s \in Sides |-> "none"]]
  /\ seen = [g \in Games |-> Unseen] /\ ask = Resting /\ reading = {} /\ active = {}
  /\ backoff = 0 /\ limited = FALSE /\ session = "in" /\ rtq \in BOOLEAN
  /\ rec = "idle" /\ rested = BookCooldown /\ fails = 0 /\ turns = 0

(* ---- the book ---------------------------------------------------------------- *)
BookTurns ==
  /\ turns < Turns /\ turns' = turns + 1
  /\ \/ \E g \in Games, o \in Offers : book' = [book EXCEPT ![g] = o] /\ UNCHANGED session
     \/ session = "in" /\ session' \in {"refused", "lapsed"} /\ UNCHANGED book
  /\ UNCHANGED <<cache, seen, ask, reading, active, backoff, limited, rtq, rec, rested, fails>>
BookPass ==
  /\ rested < BookCooldown /\ rested' = rested + 1
  /\ UNCHANGED <<book, cache, seen, ask, reading, active, backoff, limited, session, rtq, rec, fails, turns>>
\* The site's own page asks for its games, and shows the queue name as it does.
Captured ==
  /\ session = "in" /\ rtq' = TRUE
  /\ UNCHANGED <<book, cache, seen, ask, reading, active, backoff, limited, session, rec, rested, fails, turns>>

(* ---- odds, and the page's own responses ---------------------------------------- *)
BookOdds(g) ==
  /\ active' = active \cup {g}
  /\ UNCHANGED <<book, cache, seen, ask, reading, backoff, limited, session, rtq, rec, rested, fails, turns>>
\* Nobody asked for the league while BOOKMAKER_ACTIVE_TTL_SEC passed.
Lapse(g) ==
  /\ g \in active /\ active' = active \ {g}
  /\ UNCHANGED <<book, cache, seen, ask, reading, backoff, limited, session, rtq, rec, rested, fails, turns>>

Responded(g) ==
  /\ session = "in" /\ Cardinality(reading) < 1
  /\ reading' = reading \cup {[game |-> g, says |-> book[g]]}
  /\ UNCHANGED <<book, cache, seen, ask, active, backoff, limited, session, rtq, rec, rested, fails, turns>>
\* A response is read at any later time; live games are left out of it.
Ingested(r) ==
  /\ r \in reading /\ reading' = reading \ {r}
  /\ IF r.says.live \/ Emitted(r.says) = <<>> THEN UNCHANGED <<cache, seen>>
     ELSE cache' = [cache EXCEPT ![r.game] = Cached(@, Interrupted(Emitted(r.says)))]
          /\ seen' = [seen EXCEPT ![r.game] = r.says]
  /\ UNCHANGED <<book, ask, active, backoff, limited, session, rtq, rec, rested, fails, turns>>

(* ---- recovery ---------------------------------------------------------------- *)
\* _trigger_recovery, _recover: one at a time, and not within the cooldown.
Trigger == IF rec = "idle" /\ rested = BookCooldown THEN rec' = "reload" /\ rested' = 0
           ELSE UNCHANGED <<rec, rested>>

\* The reload fails, or the page is there.
PageBack(ok) ==
  /\ rec = "reload" /\ rec' = IF ok THEN "look" ELSE "idle"
  /\ rtq' = (rtq \/ (ok /\ session = "in"))
  /\ UNCHANGED <<book, cache, seen, ask, reading, active, backoff, limited, session, rested, fails, turns>>
\* _looks_like_login: a page that cannot be read is no login page.
LooksLikeLogin(readable) == readable /\ session # "in"
Looked(readable) ==
  /\ rec = "look"
  /\ rec' = IF LooksLikeLogin(readable) /\ AutoLogin /\ fails < LoginTries THEN "login" ELSE "idle"
  /\ UNCHANGED <<book, cache, seen, ask, reading, active, backoff, limited, session, rtq, rested, fails, turns>>
\* _try_auto_login: no field to fill, an error, or the form is sent and the book says yes or no.
LoginSent(field, sent, yes) ==
  /\ rec = "login"
  /\ rec' = IF field /\ sent THEN "submitted" ELSE "idle"
  /\ fails' = IF field /\ ~sent THEN fails + 1 ELSE fails
  /\ session' = IF field /\ sent /\ yes THEN "in" ELSE session
  /\ UNCHANGED <<book, cache, seen, ask, reading, active, backoff, limited, rtq, rested, turns>>
Accepted(readable) ==
  /\ rec = "submitted" /\ rec' = "idle"
  /\ fails' = IF LooksLikeLogin(readable) THEN fails + 1 ELSE 0
  /\ UNCHANGED <<book, cache, seen, ask, reading, active, backoff, limited, session, rtq, rested, turns>>

\* Mutant: any status from 200 up counts as alive.
MutKeepalive(reached) ==
  /\ IF reached THEN UNCHANGED <<rec, rested>> ELSE Trigger
  /\ UNCHANGED <<book, cache, seen, ask, reading, active, backoff, limited, session, rtq, fails, turns>>
\* _keepalive_loop: a page that answers neither 2xx nor 3xx is recovered.
Keepalive(reached) ==
  /\ IF reached /\ session # "refused" THEN UNCHANGED <<rec, rested>> ELSE Trigger
  /\ UNCHANGED <<book, cache, seen, ask, reading, active, backoff, limited, session, rtq, fails, turns>>

(* ---- the refresh loop ---------------------------------------------------------- *)
\* Without a queue name there is no request, and the cycle ends well.
RefreshStarts ==
  /\ ask.pc = "rest" /\ active # {}
  /\ limited' = FALSE
  /\ ask' = IF rtq THEN [pc |-> "asking", of |-> active, got |-> <<>>] ELSE Resting
  /\ backoff' = IF rtq THEN backoff ELSE 0
  /\ UNCHANGED <<book, cache, seen, reading, active, session, rtq, rec, rested, fails, turns>>

\* Each chunk is answered in its own time: the games of its leagues as they then are,
\* a refusal, a 429, or something that is not the schedule.
ChunkAnswered(g, status) ==
  /\ ask.pc = "asking" /\ g \in ask.of \ DOMAIN ask.got
  /\ status \in IF session = "in" THEN {"200", "429", "5xx", "404"} ELSE IF session = "refused" THEN {"401"} ELSE {"html"}
  /\ LET answer == [status |-> status, says |-> IF status = "200" THEN book[g] ELSE Unseen]
     IN ask' = [ask EXCEPT !.got = [x \in DOMAIN @ \cup {g} |-> IF x = g THEN answer ELSE @[x]]]
  /\ UNCHANGED <<book, cache, seen, reading, active, backoff, limited, session, rtq, rec, rested, fails, turns>>

\* A 429 doubles the wait up to a cap, any other cycle clears it.
NextBackoff(hit) == IF ~hit THEN 0 ELSE IF backoff < Longest THEN backoff + 1 ELSE Longest

\* The call in the page fails: a recovery, and a cycle without results.
RefreshFails ==
  /\ ask.pc = "asking" /\ ask' = Resting
  /\ backoff' = NextBackoff(limited)
  /\ Trigger
  /\ UNCHANGED <<book, cache, seen, reading, active, limited, session, rtq, fails, turns>>
\* All chunks are answered: what they say goes to the cache at once.
Refreshed ==
  /\ ask.pc = "asking" /\ ask.of = DOMAIN ask.got /\ ask' = Resting
  /\ LET said == {g \in DOMAIN ask.got : Emitted(ask.got[g].says) # <<>>}
         has(kinds) == \E g \in DOMAIN ask.got : ask.got[g].status \in kinds
     IN /\ cache' = [g \in Games |-> IF g \in said THEN Cached(cache[g], Emitted(ask.got[g].says)) ELSE cache[g]]
        /\ seen' = [g \in Games |-> IF g \in said THEN ask.got[g].says ELSE seen[g]]
        /\ limited' = (limited \/ has({"429"}))
        /\ backoff' = NextBackoff(limited')
        /\ IF has({"401", "5xx"}) THEN Trigger ELSE UNCHANGED <<rec, rested>>
  /\ UNCHANGED <<book, reading, active, session, rtq, fails, turns>>

\* catalog: one request per chunk, each of which may call for a recovery.
CatalogChunk ==
  /\ Trigger
  /\ UNCHANGED <<book, cache, seen, ask, reading, active, backoff, limited, session, rtq, fails, turns>>

Recovering ==
  \E a, b, c \in BOOLEAN : PageBack(a) \/ Looked(a) \/ LoginSent(a, b, c) \/ Accepted(a)
BookNext ==
  \/ BookTurns \/ BookPass \/ Captured \/ Recovering \/ RefreshStarts \/ RefreshFails \/ Refreshed \/ CatalogChunk
  \/ \E b \in BOOLEAN : Keepalive(b)
  \/ \E r \in reading : Ingested(r)
  \/ \E g \in Games : BookOdds(g) \/ Lapse(g) \/ Responded(g)
  \/ \E g \in Games, status \in {"200", "429", "5xx", "404", "401", "html"} : ChunkAnswered(g, status)
BookSpec == BookInit /\ [][BookNext]_bookVars
--------------------------------------------------------------------------------
\* Types; the back-off stays within its cap, and no more than LoginTries logins fail in a row.
BookTypeOK ==
  /\ book \in [Games -> Offers] /\ seen \in [Games -> Offers]
  /\ cache \in [Games -> [Sides -> {"none", "open", "suspended"}]]
  /\ active \subseteq Games /\ backoff \in 0 .. Longest /\ limited \in BOOLEAN
  /\ session \in {"in", "refused", "lapsed"} /\ rtq \in BOOLEAN
  /\ rec \in {"idle", "reload", "look", "login", "submitted"} /\ rested \in 0 .. BookCooldown
  /\ fails \in 0 .. LoginTries /\ turns \in 0 .. Turns

\* _emit_game: once an answer about a live game without its line has reached the cache,
\* no side of the game is offered from it, whatever an older answer left there and
\* whatever response is read late.
PulledShut ==
  \A g \in Games : seen[g].live /\ seen[g].line = "gone" => \A s \in Sides : cache[g][s] # "open"

\* _refresh_loop: the wait is longer than usual only as long as the last cycle that
\* ended met a 429; between two cycles the one and the other agree.
BackoffMeansLimited == ask.pc = "rest" => (backoff > 0 <=> limited)

\* _keepalive_loop: a session the book refuses does not stay so without the page being
\* reloaded for it, whether or not any price is asked for.
RefusedRecovers == []<>(session # "refused" \/ rec = "reload")

\* What is offered from the cache was not pulled, and the back-off says what the book said.
BookSound == BookTypeOK /\ PulledShut /\ BackoffMeansLimited
================================================================================
