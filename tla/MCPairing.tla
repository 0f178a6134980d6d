------------------------------- MODULE MCPairing --------------------------------
(* A small world for both pipelines.  Hard venues: a tennis pair that meets twice, *)
(* a namesake's match on the same day, and a three-way football game.  Kalshi and  *)
(* Polymarket: two events of a market and one of two each, every verdict among their pairs.    *)
EXTENDS Pairing

Word(w, i) == [w |-> w, i |-> i, root |-> w, strong |-> TRUE]
A == <<Word("alexander", "a"), Word("zverev", "z")>>
AI == <<Word("a", "a"), Word("zverev", "z")>>
M == <<Word("mischa", "m"), Word("zverev", "z")>>
C == <<Word("borna", "b"), Word("coric", "c")>>
CS == <<Word("coric", "c")>>
K == <<Word("corum", "c")>>
KL == <<[w |-> "corumspor", i |-> "c", root |-> "corum", strong |-> TRUE]>>
L == <<Word("bayer", "b")>>
LL == <<Word("bayer", "b"), Word("leverkusen", "l")>>
List(id, h, a, hid, aid, st, three, sport) ==
  [id |-> id, home |-> h, away |-> a, hid |-> hid, aid |-> aid, start |-> st, three |-> three, league |-> 1, sport |-> sport]
g1 == List("g1", A, C, 1, 2, 38, FALSE, "tennis")
g2 == List("g2", A, C, 1, 2, 62, FALSE, "tennis")
g3 == List("g3", M, C, 3, 2, 38, FALSE, "tennis")
g4 == List("g4", KL, LL, 4, 5, 40, TRUE, "fb")
MCListings == {g1, g2, g3, g4}
E1 == [id |-> "E1", sides |-> <<A, C>>, day |-> 1, at |-> -1, three |-> FALSE, sport |-> "tennis"]
E2 == [id |-> "E2", sides |-> <<CS, AI>>, day |-> 2, at |-> -1, three |-> FALSE, sport |-> "tennis"]
E3 == [id |-> "E3", sides |-> <<K, L>>, day |-> 1, at |-> 40, three |-> TRUE, sport |-> "fb"]
Mk(id, e, out, side) == [id |-> id, ev |-> e, out |-> out, side |-> side, tie |-> side = "draw"]
MCMarkets == << Mk("1a", E1, A, "home"), Mk("1b", E1, C, "away"),
  Mk("2a", E2, AI, "home"), Mk("2b", E2, CS, "away"),
  Mk("3a", E3, K, "home"), Mk("3b", E3, L, "away"), Mk("3d", E3, <<>>, "draw")>>
MCGame(e) == IF e.id = "E1" THEN g1 ELSE IF e.id = "E2" THEN g2 ELSE g4
MCFair(g, s) == LET h == CASE g.id = "g1" -> 48 [] g.id = "g2" -> 70 [] g.id = "g3" -> 30 [] OTHER -> 45
  IN IF s = "home" THEN h ELSE IF g.three THEN IF s = "draw" THEN 30 ELSE 25 ELSE 100 - h
MCFuzz(a, b) == 40

Rec(v, id, ev, w, y, c, d) ==
  [venue |-> v, id |-> id, event |-> ev, title |-> {w}, event_title |-> {}, group |-> {w},
   rules |-> {}, years |-> y, ents |-> {w}, cat |-> c, close |-> d]
K1 == Rec("kalshi", "k1", "KE", "ada", {26}, "Politics", 10)
K2 == Rec("kalshi", "k2", "KF", "bob", {}, "World", -1)
P1 == Rec("poly", "p1", "PE", "ada", {26}, "Politics", 60)
P2 == Rec("poly", "p2", "PE", "bob", {}, "World", 20)
MCRecords == {K1, K2, P1, P2}
MCSim(a, b) == CASE {a.id, b.id} = {"k1", "p1"} -> 95 [] {a.id, b.id} = {"k2", "p2"} -> 90 [] OTHER -> 80
MCNone(w) == {}
MCVerdict(k, p) ==
  CASE k = "k1" /\ p = "p1" -> "VALID" [] k = "k2" /\ p = "p2" -> "INVERTED"
    [] k = "k1" /\ p = "p2" -> "INVALID" [] OTHER -> "CONDITIONAL"
MCOutcome(k) == k = "k1"
MCDrifts == {-6, 6}
===============================================================================
