------------------------------ MODULE HardPairs -------------------------------
(* The pair file of the hard-venue sidecar: pairing_scheduler.py runs, one      *)
(* after the other, pairHard.py (the Kalshi side: which markets are open, with  *)
(* the tokens a market already had) and the pairer of the venue, which finds    *)
(* each market's game and side in the venue's catalogue, checks the result      *)
(* against prices and structure, and writes the file if it has changed it.  A   *)
(* script reads the catalogue, then the file, and writes at its end; a script   *)
(* that dies leaves the file as it was, for the writes are atomic.              *)
(*   Prices are probabilities in hundredths, 0 when there is none.              *)
EXTENDS PairNames, TLC

CONSTANTS Markets,       \* the Kalshi markets, in the order of the file: [id, ev, out, side, tie]
          Fair(_, _),    \* the chance of a side of a listing
          Drifts,        \* how far the book's prices are off the chances
          GameOf(_),     \* the listing an event really is
          Points,        \* half points of the derivative lines
          Tol            \* the price gate's tolerance

\* A ticker names one market; an event is one of the book's games; the markets of a
\* two-way event are its two sides.
ASSUME MarketsAssumption ==
  /\ Markets \in Seq({Markets[i] : i \in DOMAIN Markets})
  /\ \A i, j \in DOMAIN Markets : Markets[i].id = Markets[j].id => i = j
  /\ \A i \in DOMAIN Markets :
       LET m == Markets[i]
       IN  /\ GameOf(m.ev) \in Listings /\ m.ev.day \in Int /\ m.ev.at \in Int
           /\ m.side \in {"home", "away", "draw"} /\ m.tie = (m.side = "draw")
           /\ m.ev.three \in BOOLEAN /\ (~m.ev.three => ~m.tie)
           /\ \A j \in DOMAIN Markets :
                (i # j /\ Markets[j].ev = m.ev /\ ~m.ev.three) => Markets[j].side # m.side
\* An id names one listing; a chance is a price Kalshi can quote.
ASSUME ListingsAssumption ==
  /\ \A g, h \in Listings : g.id = h.id => g = h
  /\ \A g \in Listings : g.three \in BOOLEAN /\ g.start \in Int
  /\ \A g \in Listings, s \in {"home", "away", "draw"} : Fair(g, s) \in 0 .. 99
\* Kalshi's lines lie between two scores (pair_derivatives.py:19-20): none is a push.
ASSUME LinesAssumption == \A p \in Points : p \in Nat /\ p % 2 = 1

VARIABLES
  venue,  \* whose file it is, and whose pairer fills it
  file,   \* the pair file: a row for each open market
  ids,    \* pair_betinasia.py's cache: a name's id at the venue
  step,   \* the script the scheduler is at
  seen,   \* the catalogue the pairer read
  heard,  \* the prices it is given: how far off they are, for which sides
  lines   \* derivative_pairs.json

hardVars == <<venue, file, ids, step, seen, heard, lines>>
Events == {Markets[i].ev : i \in DOMAIN Markets}
Ids == {Markets[i].id : i \in DOMAIN Markets}
Venues == {"pinnacle", "betinasia", "bookmaker", "oddspapi"}
NoToken == [game |-> None, side |-> None]
Token(g, s) == [game |-> g.id, side |-> s]
Tokens == {NoToken} \cup [game : {g.id : g \in Listings}, side : {"home", "away", "draw"}]
Other(s) == IF s = "home" THEN "away" ELSE "home"
Asleep == [drift |-> 0, sides |-> {}]
Quotes == {Asleep} \cup [drift : Drifts, sides : {{"home"}, {"home", "away", "draw"}}]
MarketOf(id) == Markets[CHOOSE i \in DOMAIN Markets : Markets[i].id = id]
ListingOf(tok) == CHOOSE g \in Listings : g.id = tok.game
Blank(ask) == [yes |-> NoToken, no |-> NoToken, three |-> FALSE, ask |-> ask]
Filled(r) == r.yes # NoToken /\ r.no # NoToken
Clear(r) == [r EXCEPT !.yes = NoToken, !.no = NoToken]
Cleared(rows, S) == [id \in DOMAIN rows |-> IF id \in S THEN Clear(rows[id]) ELSE rows[id]]

HardInit ==
  /\ venue \in Venues
  /\ file = << >> /\ ids = << >> /\ lines = {}
  /\ step = "wait" /\ seen = {} /\ heard = Asleep

(* ---- pairHard.py ------------------------------------------------------------- *)
\* The middle of a tight quote; otherwise the last trade, if the quote allows it.
MaxTrustedSpread == 15
YesPrice(q) ==
  IF q.bid > 0 /\ q.ask > 0 /\ q.bid <= q.ask /\ q.ask <= q.bid + MaxTrustedSpread
    THEN (q.bid + q.ask) \div 2
  ELSE IF q.last > 0 /\ (q.bid = 0 \/ q.last >= q.bid) /\ (q.ask = 0 \/ q.last <= q.ask)
    THEN q.last ELSE 0
\* What Kalshi quotes: a tight market, or a wide one with a stale last trade or none.
Quote(kind, p) ==
  IF kind = "tight" THEN [bid |-> p - 1, ask |-> p + 1, last |-> 99]
  ELSE [bid |-> 0, ask |-> p + 1, last |-> IF kind = "stale" THEN p ELSE 0]
Chance(m) == Fair(GameOf(m.ev), IF m.tie THEN "draw" ELSE m.side)

\* The open markets, with the tokens and the flag they had.
Scaffolded(open, kind) ==
  [id \in {x \in Ids : MarketOf(x).ev \in open} |->
     LET ask == YesPrice(Quote(kind, Chance(MarketOf(id))))
     IN  IF id \in DOMAIN file /\ Filled(file[id]) THEN [file[id] EXCEPT !.ask = ask] ELSE Blank(ask)]

(* ---- the gates: sibling_validate, price_validate, duplicate_token_validate ----- *)
FilledIn(rows, ev) == {id \in DOMAIN rows : MarketOf(id).ev = ev /\ Filled(rows[id])}
Mirror(a, b) == a.yes = b.no /\ a.no = b.yes
\* Two rows of one event that are no mirrors: neither can be trusted.
Broken(rows) ==
  UNION {S \in {FilledIn(rows, ev) : ev \in Events} :
           Cardinality(S) = 2 /\ \E a, b \in S : a # b /\ ~Mirror(rows[a], rows[b])}
SiblingValidate(rows) == Cleared(rows, Broken(rows))

Implied(tok) ==
  IF tok.side \notin heard.sides THEN 0
  ELSE Fair(ListingOf(tok), tok.side)
       + (CASE tok.side = "home" -> heard.drift [] tok.side = "away" -> -heard.drift [] OTHER -> 0)
\* The row agrees with the prices, is the other way round, or is of another game.
GatedAt(r, agree, invert) ==
  IF agree > Tol /\ (r.three \/ invert > Tol) THEN Clear(r)
  ELSE IF ~r.three /\ invert < agree THEN [r EXCEPT !.yes = r.no, !.no = r.yes]
  ELSE r
GatedBy(r, by) ==
  IF r.ask = 0 \/ by = 0 THEN r ELSE GatedAt(r, Abs(r.ask - by), Abs(r.ask - (100 - by)))
Gated(r) == IF Filled(r) THEN GatedBy(r, Implied(r.yes)) ELSE r
PriceValidate(rows) == [id \in DOMAIN rows |-> Gated(rows[id])]

\* One selection of the book cannot be two events': the nearest date keeps it
\* when the token tells its date (BetInAsia's does) and one event is the nearest.
Claimants(rows, tok) == {id \in DOMAIN rows : Filled(rows[id]) /\ rows[id].yes = tok}
\* gap: how far each claimant's date is off the token's.
Later(gap) ==
  LET first == {id \in DOMAIN gap : \A x \in DOMAIN gap : gap[id] <= gap[x]}
  IN  IF venue = "betinasia" /\ Cardinality(first) = 1 THEN DOMAIN gap \ first ELSE DOMAIN gap
Losers(S, day) ==
  IF Cardinality({MarketOf(id).ev : id \in S}) < 2 THEN {}
  ELSE Later([id \in S |-> Abs(MarketOf(id).ev.day - day)])
DuplicateTokenValidate(rows) ==
  Cleared(rows, UNION {Losers(Claimants(rows, tok), DayOf(ListingOf(tok).start)) :
                         tok \in {rows[id].yes : id \in {x \in DOMAIN rows : Filled(rows[x])}}})

\* Mutant: the siblings are looked at before the prices only.
MutChecked(rows) == DuplicateTokenValidate(PriceValidate(SiblingValidate(rows)))
Checked(rows) ==
  SiblingValidate(DuplicateTokenValidate(PriceValidate(SiblingValidate(rows))))

(* ---- pair_auto.py and pair_pinnacle.py ----------------------------------------- *)
\* One two-way market of an event is filled, a three-way's markets all are.
Timed(games, e) == IF venue = "pinnacle" THEN PickPinnacle(games, e) ELSE PickAuto(games, e)
Named(own, e, book) ==
  IF own # {} THEN own ELSE IF venue = "pinnacle" THEN BestBookGame(e, book, 100) ELSE {}
Games(e, book) ==
  Timed(Named({g \in Anchored(book, e) : Teams(g) = {e.sides[1], e.sides[2]}}, e, book), e)

Taken(r, g, s) == [r EXCEPT !.yes = Token(g, s), !.no = Token(g, Other(s)), !.three = g.three]
\* One market of the file's order; acc: the rows, the events done, what they
\* resolved to, the events whose markets contradict each other.
Clashes(prior, m, g, side) ==
  venue = "pinnacle" /\ ~m.tie /\ \E p \in prior : p.game # g.id \/ p.side = side
FillSide(acc, m, g, side, prior) ==
  IF side = None \/ (~g.three /\ m.ev \in acc.done) THEN acc
  ELSE IF Clashes(prior, m, g, side) THEN [acc EXCEPT !.bad = @ \cup {m.ev}]
  ELSE [rows |-> [acc.rows EXCEPT ![m.id] = Taken(@, g, side)],
        done |-> acc.done \cup {m.ev},
        res |-> IF m.tie THEN acc.res
                ELSE (acc.res \ prior) \cup {[ev |-> m.ev, game |-> g.id, side |-> side]},
        bad |-> acc.bad]
BookSide(m, g) == IF m.tie THEN IF g.three THEN "draw" ELSE None ELSE PickBookTeam(m.out, g)
FillFrom(acc, m, game) ==
  IF game = {} THEN acc
  ELSE LET g == CHOOSE x \in game : TRUE
       IN  FillSide(acc, m, g, BookSide(m, g), {p \in acc.res : p.ev = m.ev})
Unfilled(rows, m) == m.id \in DOMAIN rows /\ ~Filled(rows[m.id])
FillOne(acc, m, book) == IF Unfilled(acc.rows, m) THEN FillFrom(acc, m, Games(m.ev, book)) ELSE acc

\* Every row goes back to the matcher: the set of the matchups the catalogue still
\* lists is always empty, for its entries are no objects with a selection_id.
Retired(rows) == Cleared(rows, DOMAIN rows)
WithoutClashes(done) ==
  Cleared(PriceValidate(done.rows), {id \in DOMAIN done.rows : MarketOf(id).ev \in done.bad})

(* ---- pair_betinasia.py --------------------------------------------------------- *)
\* The names a filled game teaches: its tokens are sorted by their letters, and only
\* tennis's sort as the event's ids do.
Learned(g) ==
  IF g.sport \in PlayerSports THEN (g.home :> g.hid) @@ (g.away :> g.aid)
  ELSE IF g.three THEN g.away :> g.hid
  ELSE (g.away :> g.hid) @@ (g.home :> g.aid)
BiaSide(acc, m, g, side) ==
  IF side = None THEN acc
  ELSE [rows |-> [acc.rows EXCEPT ![m.id] = Taken(@, g, side)], ids |-> Learned(g) @@ acc.ids]
BiaFrom(acc, m, game) ==
  IF game = {} THEN acc
  ELSE LET g == CHOOSE x \in game : TRUE IN BiaSide(acc, m, g, SideOf(m, g))
BiaOne(acc, m, cat) ==
  IF Unfilled(acc.rows, m) THEN BiaFrom(acc, m, MatchGame(m.ev, cat, acc.ids)) ELSE acc

(* ---- pair_oddspapi.py ---------------------------------------------------------- *)
\* The aggregator joins a market's ticker to the listing and the side themselves.
OddsOne(acc, m, cat) ==
  LET g == GameOf(m.ev)
      side == IF m.tie THEN "draw" ELSE m.side
      by == Implied(Token(g, side))
      off == by > 0 /\ Abs(Chance(m) - by) > Tol
  IN  IF \/ m.id \notin DOMAIN acc.rows \/ g \notin cat
         \/ off
         \/ ~g.three /\ m.ev \in acc.done
         \/ m.id \in DOMAIN file /\ Filled(file[m.id])
        THEN acc
      ELSE [acc EXCEPT !.rows = [acc.rows EXCEPT ![m.id] = Taken(@, g, side)],
                    !.done = @ \cup {m.ev}]

(* ---- a pass over the file's markets, in its order --------------------------------- *)
FillStep(acc, m, cat) ==
  CASE venue = "betinasia" -> BiaOne(acc, m, cat)
    [] venue = "oddspapi" -> OddsOne(acc, m, cat)
    [] OTHER -> FillOne(acc, m, cat)
Pass(base, cat) ==
  LET upTo[i \in 0 .. Len(Markets)] ==
        IF i = 0 THEN base ELSE FillStep(upTo[i - 1], Markets[i], cat)
  IN  upTo[Len(Markets)]
Fresh(rows) == [rows |-> rows, done |-> {}, res |-> {}, bad |-> {}]
Filling(rows, book) == Pass(Fresh(rows), book)
BiaFilling(rows) == Pass([rows |-> SiblingValidate(rows), ids |-> ids], seen)
OddsFill(rows) == Pass(Fresh(rows), seen).rows

(* ---- the pairer, from its catalogue to its write -------------------------------- *)
Matched ==
  CASE venue = "pinnacle" ->
         [rows |-> WithoutClashes(Filling(Retired(file), IndexCatalog(seen))), ids |-> ids]
    [] venue = "betinasia" -> BiaFilling(file)
    [] venue = "bookmaker" -> [rows |-> Filling(file, IndexCatalog(seen)).rows, ids |-> ids]
    [] venue = "oddspapi" -> [rows |-> OddsFill(file), ids |-> ids]
Worked(rows) == IF venue \in {"betinasia", "bookmaker"} THEN Checked(rows) ELSE rows
\* The rows a fill or the price gate has changed are what a write is for: what
\* the other gates alone have cleared stays in the file.
Repriced(sound) == PriceValidate(sound) # sound
Worth(rows) ==
  \/ venue \in {"pinnacle", "oddspapi"}
  \/ rows # (IF venue = "betinasia" THEN SiblingValidate(file) ELSE file)
  \/ Repriced(SiblingValidate(rows))

\* What a script has read is gone when it ends.
Forgotten == seen' = {} /\ heard' = Asleep

\* A run starts with the Kalshi side; a failure there skips Pinnacle's fill only.
Wake ==
  /\ step \in {"wait", "idle"}
  /\ step' = "scaffold"
  /\ UNCHANGED <<venue, file, ids, seen, heard, lines>>
Scaffold(open, kind) ==
  /\ step = "scaffold"
  /\ file' = Scaffolded(open, kind)
  /\ step' = "read"
  /\ UNCHANGED <<venue, ids, seen, heard, lines>>
ScaffoldFails ==
  /\ step = "scaffold"
  /\ step' = IF venue = "pinnacle" THEN "derive" ELSE "read"
  /\ UNCHANGED <<venue, file, ids, seen, heard, lines>>
\* The catalogue and the prices of this run; a venue that lists nothing at all ends
\* BetInAsia's pairer.
Read(cat, quotes) ==
  /\ step = "read"
  /\ IF venue = "betinasia" /\ cat = {}
       THEN step' = "idle" /\ Forgotten
       ELSE step' = "write" /\ seen' = cat /\ heard' = quotes
  /\ UNCHANGED <<venue, file, ids, lines>>
Next1 == IF venue = "pinnacle" THEN "derive" ELSE "idle"
Write ==
  /\ step = "write"
  /\ step' = Next1
  /\ \E filled \in {Matched} :
       IF Worth(filled.rows) THEN file' = Worked(filled.rows) /\ ids' = filled.ids
       ELSE UNCHANGED <<file, ids>>
  /\ Forgotten
  /\ UNCHANGED <<venue, lines>>
Dies ==
  /\ step \in {"read", "write"}
  /\ step' = Next1
  /\ Forgotten
  /\ UNCHANGED <<venue, file, ids, lines>>

(* ---- pair_derivatives.py --------------------------------------------------------- *)
\* Kalshi: "over", or a side wins by more than so many half points.  The venue: a
\* total over or under, or a side with a handicap.  The file is built anew each time.
Derived(g, kind, p, s) ==
  IF kind = "total"
    THEN [kind |-> kind, side |-> s, points |-> p, yes |-> [leg |-> "over", points |-> p],
          no |-> [leg |-> "under", points |-> p]]
  ELSE [kind |-> kind, side |-> s, points |-> p, yes |-> [leg |-> s, points |-> -p],
        no |-> [leg |-> Other(s), points |-> p]]
Derive(cat, offered) ==
  /\ step = "derive"
  /\ step' = "idle"
  /\ lines' = {Derived(g, l.kind, l.points, l.side) : g \in cat, l \in offered}
  /\ UNCHANGED <<venue, file, ids, seen, heard>>
DeriveFails ==
  /\ step = "derive"
  /\ step' = "idle"
  /\ UNCHANGED <<venue, file, ids, seen, heard, lines>>

\* Bound: what the venue lists, what Kalshi has open, and the lines on offer.
Strikes == [kind : {"total", "spread"}, points : Points, side : {"home", "away"}]
HardNext ==
  \/ Wake
  \/ \E open \in SUBSET Events, kind \in {"tight", "stale", "empty"} : Scaffold(open, kind)
  \/ ScaffoldFails
  \/ \E cat \in SUBSET Listings, quotes \in Quotes : Read(cat, quotes)
  \/ Write
  \/ Dies
  \/ \E g \in Listings, l \in Strikes : Derive({g}, {l})
  \/ DeriveFails
HardSpec == HardInit /\ [][HardNext]_hardVars

(* ---- properties -------------------------------------------------------------------- *)
\* Type invariant of the pair file and of the scheduler that fills it.
HardTypeOK ==
  /\ venue \in Venues
  /\ \A id \in DOMAIN file : /\ id \in Ids /\ file[id].yes \in Tokens /\ file[id].no \in Tokens
                             /\ file[id].three \in BOOLEAN /\ file[id].ask \in 0 .. 99
                             /\ (file[id].yes = NoToken) = (file[id].no = NoToken)
  /\ step \in {"wait", "idle", "scaffold", "read", "write", "derive"}
  /\ seen \subseteq Listings
  /\ heard \in Quotes

\* Two rows of a two-way event lie on opposite sides of one game, whatever the
\* catalogue, the prices and the order in which the markets were opened, filled,
\* turned round by the price gate and carried over: pair_betinasia.py:602-606
\* calls it unconditional.  Bought together, two equal rows double a bet.
Mirrored ==
  \A a, b \in DOMAIN file :
    (/\ a # b /\ MarketOf(a).ev = MarketOf(b).ev /\ ~MarketOf(a).ev.three
     /\ Filled(file[a]) /\ Filled(file[b])) => Mirror(file[a], file[b])

\* A filled row is about the persons or clubs of its event: no namesake's game is
\* taken for theirs, whichever listings the catalogue has and the cache holds.  Not
\* said of BetInAsia's clubs, whose ids Learned gives to the wrong names.
RightTeams ==
  \A id \in DOMAIN file :
    (Filled(file[id]) /\ (venue = "betinasia" => MarketOf(id).ev.sport \in PlayerSports)) =>
    LET g == GameOf(MarketOf(id).ev)
        h == ListingOf(file[id].yes)
    IN  Teams(g) = Teams(h)

\* Two events are not sold on one selection where that is checked
\* (duplicate_token_validate): a series of games of the same sides.
OneFixture ==
  venue \in {"betinasia", "bookmaker"} =>
    \A a, b \in DOMAIN file :
      (Filled(file[a]) /\ Filled(file[b]) /\ file[a].yes = file[b].yes) =>
        MarketOf(a).ev = MarketOf(b).ev

\* A gap costs no pair: a run in which nothing is priced leaves every filled row
\* as it was when the catalogue lists no game of its sides (pairHard.py:190-193).
GapKept ==
  (step = "write" /\ heard.sides = {} /\ venue # "pinnacle") =>
    \A id \in DOMAIN file :
      (/\ Filled(file[id])
       /\ \A g \in seen : Teams(g) # Teams(ListingOf(file[id].yes))) => file'[id] = file[id]

\* The two legs of a derivative pair are the event Kalshi sells and its
\* complement, for every score.
Margins == -4 .. 4
Sums == 0 .. 4
Wins(leg, margin, sum) ==
  CASE leg.leg = "over" -> 2 * sum > leg.points
    [] leg.leg = "under" -> 2 * sum < leg.points
    [] leg.leg = "home" -> 2 * margin + leg.points > 0
    [] OTHER -> leg.points - 2 * margin > 0
Sold(l, margin, sum) ==
  IF l.kind = "total" THEN 2 * sum > l.points
  ELSE IF l.side = "home" THEN 2 * margin > l.points ELSE -2 * margin > l.points
LegsComplement ==
  \A l \in lines : \A margin \in Margins, sum \in Sums :
    /\ Wins(l.yes, margin, sum) = Sold(l, margin, sum)
    /\ Wins(l.no, margin, sum) = ~Sold(l, margin, sum)

\* The rows agree with one another and the legs of a pair with its market, whatever the
\* names in the catalogue are.
RowsSound == HardTypeOK /\ Mirrored /\ OneFixture /\ LegsComplement
\* What the names decide: whatever is written, a row is of its event's teams, and is not
\* taken for another game's when its own is missing.
NamesTold == [][RightTeams' /\ GapKept]_hardVars
===============================================================================
