------------------------------ MODULE PairNames -------------------------------
(* How the pairing scripts of the hard-venue sidecar decide that a Kalshi event *)
(* and a listing of the book are one game, and which side of it a Kalshi market *)
(* is about (pair_auto.py, pair_pinnacle.py, pair_betinasia.py).                *)
(*   A name is a sequence of words; a word knows its first letter, the shorter  *)
(* word it begins with, and whether it tells teams apart.  A listing is a game  *)
(* of the book's catalogue, an event is a game on Kalshi; times are in hours.   *)
EXTENDS Integers, Sequences, FiniteSets

CONSTANTS Listings,       \* [id, home, away, start, three, league, sport]
          Fuzz(_, _),     \* rapidfuzz's score of two names, 0..100
          PlayerSports,   \* sports whose names are persons'
          TimeTol         \* hours a start may be off the ticker's time

None == "none"
NoTime == -1
Largest(S) == CHOOSE x \in S : \A y \in S : y <= x
Least(S) == CHOOSE x \in S : \A y \in S : x <= y
Abs(n) == IF n < 0 THEN -n ELSE n
Low(x, y) == IF x <= y THEN x ELSE y
Words(n) == {n[i] : i \in DOMAIN n}
\* k is a part of b's text: its last word may be the beginning of b's.
Within(k, b) ==
  k # <<>> /\ \E i \in 0 .. Len(b) - Len(k) : \A j \in DOMAIN k :
    k[j].w = b[i + j].w \/ (j = Len(k) /\ b[i + j].root = k[j].w)

(* ---- BetInAsia: both names, given names included ---------------------------- *)
Letter(x) == x.w = x.i
TokCompatible(x, y, stem) ==
  \/ x.w = y.w
  \/ (Letter(x) \/ Letter(y)) /\ x.i = y.i
  \/ stem /\ (x.root = y.w \/ y.root = x.w)

SameSurnameDifferentPerson == 50
NameScore(a, b, stem) ==
  LET short == IF Len(a) <= Len(b) THEN a ELSE b
      long == IF Len(a) <= Len(b) THEN b ELSE a
  IN  CASE a = <<>> \/ b = <<>> -> 0
        [] a # <<>> /\ a = b -> 100
        [] OTHER ->
             IF \A x \in Words(short) : \E y \in Words(long) : TokCompatible(x, y, stem)
               THEN IF Len(short) >= 2 THEN 95 ELSE 90
             ELSE IF a[Len(a)].w = b[Len(b)].w THEN SameSurnameDifferentPerson
             ELSE Low(Fuzz(a, b), 85)

(* ---- the bookmaker and Pinnacle: containment --------------------------------- *)
TeamSim(k, b) ==
  CASE k = b \/ Within(k, b) -> 100
    [] k # b /\ ~Within(k, b) /\ Within(b, k) -> 60
    [] OTHER -> Fuzz(k, b)

ScoreBookTeam(o, k) ==
  LET shared == Words(o) \cap Words(k)
      strong == {x \in shared : x.strong}
  IN  IF o = k THEN 100
      ELSE IF Within(o, k) \/ Within(k, o) THEN 95
      ELSE IF shared = {} THEN Fuzz(o, k)
      ELSE IF strong = {} THEN 62
      ELSE IF o[Len(o)] = k[Len(k)] THEN 88
      ELSE IF Cardinality(strong) >= 2 THEN 85 ELSE 70

\* The side of a listing an outcome names, when one side is clearly the better.
Clearer(h, a) ==
  IF h >= 60 /\ h - a >= 12 THEN "home" ELSE IF a >= 60 /\ a - h >= 12 THEN "away" ELSE None
PickBookTeam(o, g) == Clearer(ScoreBookTeam(o, g.home), ScoreBookTeam(o, g.away))

(* ---- dates and the catalogue -------------------------------------------------- *)
DayOf(t) == t \div 24
DateClose(e, g) == Abs(e.day - DayOf(g.start)) <= 1
Teams(g) == {g.home, g.away}
BetterListing(h, g) ==
  \/ h.three /\ ~g.three
  \/ h.three = g.three /\ h.league < g.league

\* One listing of each game: of twins, the one with the draw, then the smaller league.
IndexCatalog(cat) ==
  {g \in cat : /\ g.home # g.away
               /\ ~\E h \in cat : Teams(h) = Teams(g) /\ h.start = g.start /\ BetterListing(h, g)}

Anchored(games, e) == {g \in games : g.sport = e.sport}

\* The better orientation of two names on a listing: the worse leg first, then the sum.
Fit(e, g) ==
  LET Rate(x, y) == 201 * Low(x, y) + x + y
  IN  Largest({Rate(TeamSim(e.sides[1], g.home), TeamSim(e.sides[2], g.away)),
               Rate(TeamSim(e.sides[1], g.away), TeamSim(e.sides[2], g.home))})
BestOf(fits, threshold) ==
  LET top == CHOOSE g \in DOMAIN fits : \A h \in DOMAIN fits : fits[h] <= fits[g]
  IN  {g \in DOMAIN fits : fits[top] \div 201 >= threshold /\ Teams(g) = Teams(top)}
BestBookGame(e, book, threshold) == BestOf([g \in Anchored(book, e) |-> Fit(e, g)], threshold)

Nearest(gap) == CHOOSE g \in DOMAIN gap : \A h \in DOMAIN gap : gap[g] <= gap[h]
ByTime(games, e) ==
  LET near == {g \in games : Abs(g.start - e.at) <= TimeTol}
  IN  IF near = {} THEN {} ELSE {Nearest([g \in near |-> Abs(g.start - e.at)])}
ByDate(games, e) ==
  LET near == {g \in games : DateClose(e, g)}
  IN  IF near = {} THEN {} ELSE {Nearest([g \in near |-> Abs(e.day - DayOf(g.start))])}

\* Pinnacle: the ticker's time decides when it has one.
PickPinnacle(games, e) == IF e.at # NoTime THEN ByTime(games, e) ELSE ByDate(games, e)
\* The bookmaker: it decides between several games, and the date when it does not.
PickAuto(games, e) ==
  IF Cardinality(games) > 1 /\ e.at # NoTime /\ ByTime(games, e) # {}
    THEN ByTime(games, e)
  ELSE ByDate(games, e)

(* ---- BetInAsia: the game of an event ------------------------------------------ *)
\* First by the ids the venue gave the names before, then by both names at once.
ByIds(e, cat, ids) ==
  LET known == {ids[n] : n \in {e.sides[1], e.sides[2]} \cap DOMAIN ids}
  IN  {g \in cat : Cardinality(known) = 2 /\ {g.hid, g.aid} = known /\ DateClose(e, g)}
Top(score, threshold) ==
  {g \in DOMAIN score : score[g] >= threshold /\ \A h \in DOMAIN score : score[h] <= score[g]}
ByNames(e, cat, threshold, stem) ==
  LET Score(g) == Largest({
        Low(NameScore(e.sides[1], g.home, stem), NameScore(e.sides[2], g.away, stem)),
        Low(NameScore(e.sides[1], g.away, stem), NameScore(e.sides[2], g.home, stem))})
  IN  Top([g \in {x \in cat : DateClose(e, x)} |-> Score(g)], threshold)
Pick(S) == IF S = {} THEN {} ELSE {CHOOSE x \in S : TRUE}
\* Mutant: a surname is enough.
MutMatchGame(e, cat, ids) ==
  Pick({g \in cat : DateClose(e, g) /\ \A s \in {e.sides[1], e.sides[2]} :
          \E t \in Teams(g) : s[Len(s)].w = t[Len(t)].w})
MatchGame(e, cat, ids) ==
  LET own == {g \in cat : g.sport = e.sport}
      hit == ByIds(e, own, ids)
  IN  Pick(IF hit # {} THEN hit ELSE ByNames(e, own, 90, e.sport \notin PlayerSports))

Sided(h, a) == IF h >= 90 /\ h >= a THEN "home" ELSE IF a >= 90 THEN "away" ELSE None
\* The side a market is about; the draw only for a Kalshi tie market.
SideOf(m, g) ==
  LET stem == m.ev.sport \notin PlayerSports
  IN  IF m.tie THEN IF g.three THEN "draw" ELSE None
      ELSE Sided(NameScore(m.out, g.home, stem), NameScore(m.out, g.away, stem))
===============================================================================
