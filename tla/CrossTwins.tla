------------------------------ MODULE CrossTwins ------------------------------
(* Which Polymarket market could be a Kalshi market's twin: the two ways in     *)
(* which pair_markets.py and pair_markets_v2.py look for one.  find_candidates  *)
(* takes the nearest questions by embedding, twin_search adds the signals of    *)
(* several searches of one index.  Scores are in hundredths, dates in days.     *)
(*   A record is a market of either venue: [venue, id, event, title, event_title,*)
(* group, rules (sets of words), years, ents, cat, close].                      *)
EXTENDS Integers, Sequences, FiniteSets, SequencesExt

CONSTANTS Records,      \* every market of the two venues
          Sim(_, _),    \* how near two titles are, by their embeddings
          Stopwords,    \* words that are no keywords
          Synonyms(_),  \* the words a word also stands for
          TickerWords(_)\* the words a ticker and its series suggest

NoDate == -1
Kalshis(S) == {m \in S : m.venue = "kalshi"}
Polys(S) == {m \in S : m.venue = "poly"}
Greatest(S) == CHOOSE x \in S : \A y \in S : y <= x
Gap(a, b) == IF a.close >= b.close THEN a.close - b.close ELSE b.close - a.close
Dated(a, b) == a.close # NoDate /\ b.close # NoDate

(* ---- find_candidates --------------------------------------------------------- *)
SimilarityThresh == 78
TopN == 5
\* v2's windows; v1 has 7 days in place of 14.
DateWindow(k, p) ==
  IF k.years # {} /\ k.years = p.years THEN 366
  ELSE IF k.cat = "Politics" THEN 30 ELSE 14
Candidate(k, p) == [k |-> k.id, p |-> p.id, score |-> Sim(k, p)]
Hits(k, S) == {p \in Polys(S) : Sim(k, p) >= SimilarityThresh
                                /\ (Dated(k, p) => Gap(k, p) <= DateWindow(k, p))}
Nearby(k, hits) == {p \in hits : Cardinality({q \in hits : Sim(k, q) > Sim(k, p)}) < TopN}
\* The best few of each ticker.
FindCandidates(S, already) ==
  UNION {{Candidate(k, p) : p \in Nearby(k, Hits(k, S))} : k \in {x \in Kalshis(S) : x.id \notin already}}
\* All in the order of their scores, equal ones in any.
Ranked(cands) ==
  {q \in SetToSeqs(cands) : \A i, j \in DOMAIN q : i < j => q[j].score <= q[i].score}
\* What main's options leave: markets not over, in the window of weeks, of the
\* terms and categories asked for (the tickers kept), and the first n.
Filtered(cands, kept) == {c \in cands : c.k \in kept}
Limited(q, n) == SubSeq(q, 1, IF n < Len(q) THEN n ELSE Len(q))

(* ---- twin_search --------------------------------------------------------------- *)
Expand(words) == words \cup UNION {Synonyms(w) : w \in words}
Keywords(m) ==
  Expand((m.title \cup m.event_title \cup m.group) \ Stopwords)
  \cup (IF m.venue = "kalshi" THEN TickerWords(m.id) \ Stopwords ELSE {})
\* The document of a market says its title three times and its outcome twice; the
\* formula's length and rarity weights are left out.
Bm25(kws, m) ==
  3 * Cardinality(kws \cap m.title) + 2 * Cardinality(kws \cap m.group)
  + Cardinality(kws \cap m.event_title) + Cardinality(kws \cap m.rules)
SearchBm25(S, kws, venue) == {m \in S : m.venue = venue /\ Bm25(kws, m) > 0}
SearchByDateRange(S, m, venue) == {e \in S : e.venue = venue /\ Dated(m, e) /\ Gap(m, e) <= 30}
SearchByCategory(S, m, venue) == {e \in S : e.venue = venue /\ m.cat # "" /\ e.cat = m.cat}
\* Names are compared among what another search has found.
SearchByEntity(pool, m) == {e \in pool : e.ents \cap m.ents # {}}

WordScore(kws, e, hits) ==
  IF e \in hits THEN (40 * Bm25(kws, e)) \div Greatest({Bm25(kws, h) : h \in hits}) ELSE 0
DateScore(m, e, dated) == IF e \in dated THEN (30 - Gap(m, e)) \div 2 ELSE 0
NameScoreOf(m, e, pool) ==
  IF e \in SearchByEntity(pool, m)
    THEN (35 * Cardinality(e.ents \cap m.ents)) \div Greatest({Cardinality(m.ents), Cardinality(e.ents)})
  ELSE 0
TwinScore(m, e, kws, hits, dated, alike) ==
  WordScore(kws, e, hits) + DateScore(m, e, dated) + (IF e \in alike THEN 10 ELSE 0)
  + NameScoreOf(m, e, hits \cup dated \cup alike)
Scored(m, S, kws, hits, dated, alike) ==
  [e \in {x \in S : x.venue # m.venue} |-> TwinScore(m, e, kws, hits, dated, alike)]
TwinScores(m, S, kws, venue) ==
  Scored(m, S, kws, SearchBm25(S, kws, venue), SearchByDateRange(S, m, venue), SearchByCategory(S, m, venue))
\* The markets of the other venue that a search finds, each with its score.
TwinSearch(m, S) ==
  TwinScores(m, S, Keywords(m), IF m.venue = "kalshi" THEN "poly" ELSE "kalshi")
Twins(score) == {e \in DOMAIN score : score[e] > 0}
BestTwin(score, least) ==
  {e \in Twins(score) : score[e] >= least /\ \A x \in DOMAIN score : score[x] <= score[e]}

(* ---- the outcomes of two events ------------------------------------------------ *)
\* The outcome with the most words in common, relative to all of theirs.
Jaccard(a, b) == (100 * Cardinality(a \cap b)) \div Cardinality(a \cup b)
Names(m) == IF m.group # {} THEN m.group ELSE m.title
BestTarget(src, targets) ==
  LET like == {t \in targets : Names(t) # {} /\ Names(src) # {} /\ Jaccard(Names(src), Names(t)) > 0}
  IN  {t \in like : \A u \in like : Jaccard(Names(src), Names(u)) <= Jaccard(Names(src), Names(t))}
Suggested(ev, target, S) ==
  LET subs == {m \in S : m.event = ev}
      targets == {m \in S : m.event = target}
  IN  {<<src, CHOOSE t \in BestTarget(src, targets) : TRUE>> :
         src \in {m \in subs : BestTarget(m, targets) # {}}}
===============================================================================
