---------------------------- MODULE PinnacleOdds ----------------------------
(***************************************************************************)
(* The price cache of the Pinnacle adapter in its reader mode              *)
(* (pinnacle_adapter.py): the pushes read off the browser's socket, the    *)
(* REST snapshots that seed and refresh a league, the fixture that goes    *)
(* in-play under another matchup id, the catalog, and what GET /odds       *)
(* serves.  One league, one fixture and its matchups.                      *)
(***************************************************************************)
EXTENDS Integers, Sequences, FiniteSets, Functions

CONSTANTS Matchups,   \* ids of the fixture's matchups
          Parent,     \* the one listed before the game
          Names,      \* Names[m][side]: the player a designation stands for
          Games,      \* the matchups that are games-count shells
          Cutoff,     \* Cutoff[m]: betting closes, 0 when not told
          Linked,     \* the venue sends parentId
          QuietTtl, HeartbeatTtl, MetaTtl,
          LastTime, MaxMoves

ASSUME OddsAssumption ==
  /\ Matchups \subseteq Nat /\ Parent \in Matchups /\ Games \subseteq Matchups
  /\ Cutoff \in [Matchups -> Nat] /\ Linked \in BOOLEAN
  /\ QuietTtl \in Nat /\ HeartbeatTtl \in Nat /\ MetaTtl \in Nat
  /\ LastTime \in Nat /\ MaxMoves \in Nat

Sides == {"home", "away"}
Tokens == Matchups \X Sides
None == [st |-> "none"]
Never == -1

VARIABLES now,
          venue,      \* [m -> [listed, live, px, open]] at Pinnacle
          wire,       \* pushes under way to the reader
          sock,       \* the browser's socket is up
          rest,       \* the REST snapshot under way
          proven,     \* the session is captured and has proven itself
              \* the adapter's mode
          seeded,     \* the league's snapshot has been asked for
          cache,      \* [token -> None or a Selection]
          midTs,      \* last push of a matchup, which describes it too (_live_meta)
          child,      \* _live_child[m]
          byNames,    \* _live_by_names, of the players of the fixture
          paired,     \* [token -> player] of the pairing file
          lossy,      \* history: a push was lost, or a snapshot crossed one
          moves

vars == <<now, venue, wire, sock, rest, proven, seeded, cache, midTs, child,
          byNames, paired, lossy, moves>>
knownVars == <<cache, midTs, child, byNames>>
venueVars == <<venue, wire, sock>>

-----------------------------------------------------------------------------
\* _market_tokens: the tokens of a record's open markets, none past the cutoff.
MarketTokens(m, r) == IF Cutoff[m] # 0 /\ Cutoff[m] <= now THEN {} ELSE {m} \X r.open
Sel(r, live) == [st |-> "open", px |-> r.px, ts |-> now, live |-> live]

\* A snapshot or a /pre push does not downgrade a token known to be in-play.
Upsert(c, t, r, live) == Sel(r, live \/ (c[t] # None /\ c[t].live))
Suspend(s) == [s EXCEPT !.st = "suspended", !.ts = now]

\* A record with markets is the whole state of its matchup: what it does not list
\* is suspended.  One without (a score) leaves the tokens alone.
ApplyMarkets(c, m, r, live) ==
  [t \in Tokens |->
     IF ~r.markets THEN c[t]
     ELSE IF t \in MarketTokens(m, r) THEN Upsert(c, t, r, live)
     ELSE IF t[1] = m /\ c[t] # None THEN Suspend(c[t])
     ELSE c[t]]

\* The record names its parent, when the venue sends the link.
LinkChild(m) == IF Linked /\ m # Parent THEN [child EXCEPT ![Parent] = m] ELSE child
\* _apply: a deleted matchup is forgotten.
Apply(c, r) == IF r.del THEN [t \in Tokens |-> IF t[1] = r.mid THEN None ELSE c[t]]
               ELSE ApplyMarkets(c, r.mid, r, r.live)
\* _on_browser_odds.
Deliver ==
  /\ wire # <<>> /\ wire' = Tail(wire)
  /\ LET r == Head(wire) IN
     /\ midTs' = [midTs EXCEPT ![r.mid] = now]
     /\ byNames' = r.mid /\ child' = LinkChild(r.mid) /\ cache' = Apply(cache, r)
     /\ lossy' = (lossy \/ (r.markets /\ rest # {}))
  /\ UNCHANGED <<now, venue, sock, rest, proven, seeded, paired, moves>>

Applied(snap) == {t \in Tokens : snap[t[1]].listed /\ t \in MarketTokens(t[1], snap[t[1]])}
\* _apply_straight_markets: nothing is suspended, what is absent ages.
MutApplyStraight(c, snap) ==
  [t \in Tokens |-> IF t \in Applied(snap) THEN Sel(snap[t[1]], FALSE) ELSE c[t]]
ApplyStraight(c, snap) ==
  [t \in Tokens |-> IF t \in Applied(snap) THEN Upsert(c, t, snap[t[1]], FALSE) ELSE c[t]]

-----------------------------------------------------------------------------
\* Requests for a league's straight markets: the seed of the first odds() call,
\* the reader's refresh (not made in-play), a re-read for the executor.  Held back
\* until the session has proven itself; the seed counts as made all the same.
Ask == IF proven /\ rest = {} THEN rest' = {venue} ELSE UNCHANGED rest
Seed == /\ ~seeded /\ seeded' = TRUE /\ Ask
        /\ UNCHANGED <<now, venueVars, proven, knownVars, paired, lossy, moves>>
Reseed == /\ Ask
          /\ UNCHANGED <<now, venueVars, proven, seeded, knownVars, paired,
                         lossy, moves>>
Refetch == /\ Ask
           /\ UNCHANGED <<now, venueVars, proven, seeded, knownVars, paired,
                          lossy, moves>>
\* A snapshot arrives or not; zero tokens are no confirmation (refetch_from_venue).
Snapshot ==
  /\ rest' = {}
  /\ \E snap \in rest, arrives \in BOOLEAN :
       /\ cache' = IF arrives /\ Applied(snap) # {} THEN ApplyStraight(cache, snap) ELSE cache
       /\ lossy' = (lossy \/ snap # venue)
  /\ UNCHANGED <<now, venueVars, proven, seeded, midTs, child, byNames,
                 paired, moves>>

-----------------------------------------------------------------------------
\* catalog: what the guest feed lists, and the matchups the reader alone knows.
\* The guest feed lists no matchup that is in-play.
Guest == {m \in Matchups \ Games : venue[m].listed /\ ~venue[m].live /\ venue[m].open = Sides}
Catalog == (Guest \cup {m \in Matchups \ Games : midTs[m] # Never /\ now - midTs[m] <= MetaTtl})
             \X Sides
Pair == /\ Catalog # {}
        /\ paired' = [t \in DOMAIN paired \cup Catalog |-> Names[t[1]][t[2]]]
        /\ paired' # paired
        /\ UNCHANGED <<now, venueVars, rest, proven, seeded, knownVars, lossy,
                       moves>>

MutRedirect(t) ==
  LET m == IF child[t[1]] # t[1] THEN child[t[1]] ELSE byNames
  IN IF m = Never \/ m \in Games THEN {} ELSE {<<m, t[2]>>}
\* _redirect_sid: the live matchup by its parent link, else by the players of the
\* fixture, and on it the side of the player the pairing recorded.
Redirect(t) ==
  LET m == IF child[t[1]] # t[1] THEN child[t[1]] ELSE byNames
  IN IF m = Never \/ m \in Games \/ t \notin DOMAIN paired THEN {}
     ELSE {<<m, s>> : s \in {s \in Sides : Names[m][s] = paired[t]}}
Known(ts) == {t \in ts : cache[t] # None}

\* The token whose entry _read_cache serves for t: its own unless that is missing,
\* or a live child is known and it has gone quiet.
Source(t) ==
  IF cache[t] = None THEN Known(Redirect(t))
  ELSE IF child[t[1]] # t[1] /\ now - cache[t].ts > QuietTtl /\ Known(Redirect(t)) # {}
       THEN Known(Redirect(t))
  ELSE {t}
Quiet(m) == midTs[m] # Never /\ now - midTs[m] < QuietTtl
\* What GET /odds answers for t: the price, its status and its stamp.
Served(t) ==
  {[of |-> u, px |-> cache[u].px,
    open |-> cache[u].st = "open" /\ (Cutoff[u[1]] = 0 \/ now < Cutoff[u[1]]),
    ts |-> IF Quiet(t[1]) THEN now ELSE cache[u].ts] : u \in Source(t)}
\* _feed_live, for the health report: the socket's heartbeat.
FeedLive == proven /\ \E m \in Matchups : midTs[m] # Never /\ now - midTs[m] < HeartbeatTtl

-----------------------------------------------------------------------------
\* Pinnacle: a price moves, a side is pulled or comes back, a score is sent, the
\* game goes in-play under its other matchups, a matchup is removed.
\* A record of an in-play matchup may come on the /live or on another topic.
Push(m, v, markets, del) ==
  \/ /\ sock /\ UNCHANGED lossy
     /\ \E live \in {FALSE, v[m].live} :
          wire' = Append(wire, [mid |-> m, px |-> v[m].px, open |-> v[m].open, live |-> live,
                                markets |-> markets, del |-> del])
  \/ ~sock /\ lossy' = TRUE /\ UNCHANGED wire
Change(m, v, markets, del) ==
  /\ moves < MaxMoves /\ moves' = moves + 1 /\ venue' = v /\ Push(m, v, markets, del)
  /\ UNCHANGED <<now, sock, rest, proven, seeded, knownVars, paired>>
Moves(m) == venue[m].listed /\ Change(m, [venue EXCEPT ![m].px = @ + 1], TRUE, FALSE)
Pulls(m) == /\ venue[m].listed
            /\ \E open \in SUBSET Sides \ {venue[m].open} :
                 Change(m, [venue EXCEPT ![m].open = open], TRUE, FALSE)
Scores(m) == venue[m].listed /\ Change(m, venue, FALSE, FALSE)
GoesLive(m) == /\ m # Parent /\ ~venue[m].listed
               /\ Change(m, [venue EXCEPT ![m] = [@ EXCEPT !.listed = TRUE, !.live = TRUE,
                                                           !.open = Sides]], TRUE, FALSE)
Removed(m) == /\ venue[m].listed
              /\ Change(m, [venue EXCEPT ![m] = [@ EXCEPT !.listed = FALSE, !.open = {}]],
                        FALSE, TRUE)

\* The socket drops and what is on it is lost; the page comes back.
Drop == /\ sock /\ sock' = FALSE /\ wire' = <<>> /\ lossy' = TRUE
        /\ UNCHANGED <<now, venue, rest, proven, seeded, knownVars, paired, moves>>
Reconnect == /\ ~sock /\ sock' = TRUE
             /\ UNCHANGED <<now, venue, wire, rest, proven, seeded, knownVars,
                            paired, lossy, moves>>
\* A login proves itself, is lost, comes back with a window (_seeded is cleared).
Session == /\ proven' = ~proven /\ seeded' = (seeded /\ proven)
           /\ UNCHANGED <<now, venueVars, rest, knownVars, paired, lossy, moves>>
Clock == /\ now < LastTime /\ now' = now + 1
         /\ UNCHANGED <<venueVars, rest, proven, seeded, knownVars, paired,
                        lossy, moves>>

Init ==
  /\ now = 0
  /\ venue = [m \in Matchups |-> [listed |-> m = Parent, live |-> FALSE, px |-> 0,
                                  open |-> IF m = Parent THEN Sides ELSE {}]]
  /\ wire = <<>> /\ sock = TRUE /\ rest = {}
  /\ proven = FALSE /\ seeded = FALSE
  /\ cache = [t \in Tokens |-> None] /\ midTs = [m \in Matchups |-> Never]
  /\ child = [m \in Matchups |-> m] /\ byNames = Never
  /\ paired = [t \in {} |-> ""]
  /\ lossy = FALSE /\ moves = 0

Next == \/ Deliver \/ Seed \/ Reseed \/ Refetch \/ Snapshot \/ Pair
        \/ \E m \in Matchups : Moves(m) \/ Pulls(m) \/ Scores(m) \/ GoesLive(m) \/ Removed(m)
        \/ Drop \/ Reconnect \/ Session \/ Clock
Spec == Init /\ [][Next]_vars
-----------------------------------------------------------------------------
Records == [listed : BOOLEAN, live : BOOLEAN, px : 0 .. MaxMoves, open : SUBSET Sides]
Entries == [st : {"open", "suspended"}, px : 0 .. MaxMoves, ts : 0 .. LastTime, live : BOOLEAN]
TypeOK ==
  /\ now \in 0 .. LastTime /\ venue \in [Matchups -> Records] /\ sock \in BOOLEAN
  /\ rest \subseteq [Matchups -> Records] /\ proven \in BOOLEAN
  /\ cache \in [Tokens -> {None} \cup Entries] /\ child \in [Matchups -> Matchups]
  /\ byNames \in {Never} \cup Matchups /\ moves \in 0 .. MaxMoves
  /\ \A m \in Matchups : midTs[m] \in {Never} \cup 0 .. LastTime
  /\ DOMAIN paired \subseteq Tokens /\ FeedLive \in BOOLEAN

\* _redirect_sid: a price served for a paired token is a price of the player the
\* pairing names, though the fixture has changed ids and its sides may have too.
SideKept == \A t \in DOMAIN paired : \A s \in Served(t) : Names[s.of[1]][s.of[2]] = paired[t]

\* The venue has the price that is served, or word of the change is on the wire.
Stands(s) == \/ (venue[s.of[1]].px = s.px /\ s.of[2] \in venue[s.of[1]].open)
             \/ \E i \in 1 .. Len(wire) : /\ wire[i].mid = s.of[1]
                                         /\ (wire[i].markets \/ wire[i].del)

\* _apply and _read_cache: while no push is lost and no snapshot crosses one, an
\* open price that is served stands at the venue, however long it has been quiet.
QuietStands == ~lossy => \A t \in Tokens : \A s \in Served(t) : s.open => Stands(s)

\* _apply, _apply_straight_markets: a token seen in-play stays so until its matchup
\* is deleted: no suspension, /pre push or snapshot files it as pre-match again.
LiveTagKept ==
  [][\A t \in Tokens : cache[t] # None /\ cache'[t] # None /\ cache[t].live => cache'[t].live]_vars

\* What is served under a token is that side's price, and it stands at the venue.
OddsSound == TypeOK /\ SideKept /\ QuietStands
=============================================================================
