------------------------------ MODULE CrossPairs -------------------------------
(* The pair file of the Kalshi-Polymarket bot and the scripts that keep it:     *)
(* pair_markets.py and pair_markets_v2.py find candidates, have each judged by a *)
(* model, a local model or a person, and save what the judge says; v2 also       *)
(* discovers twins, pairs whole events, checks what it accepted by itself and    *)
(* prunes what Kalshi has closed.  One script runs at a time and may be killed   *)
(* between any two of its writes; a write replaces its file at once.             *)
EXTENDS CrossTwins

CONSTANTS Verdict(_, _),   \* what is true of two markets, and what a judge says
          Outcome(_),      \* how a Kalshi market ends
          InPlay,          \* the Polymarket markets of games in play
          Closing,         \* the Kalshi markets that may close
          BatchSize,       \* candidates a judge is sent at once (10)
          CleanBatch,      \* tickers a status request holds (90)
          Retries,         \* how often a judge is asked
          CostCap          \* calls a day's budget pays for

\* The venues name their markets and events apart, and a verdict is one of four (what
\* else a judge says is read as INVALID).
ASSUME CrossAssumption ==
  /\ IsFiniteSet(Records) /\ \A m \in Records : m.venue \in {"kalshi", "poly"}
  /\ \A m, n \in Records : (m.id = n.id => m = n) /\ (m.event = n.event => m.venue = n.venue)
  /\ \A m, n \in Records : Verdict(m.id, n.id) \in {"VALID", "INVERTED", "INVALID", "CONDITIONAL"}
  /\ BatchSize \in Nat \ {0} /\ CleanBatch \in Nat \ {0} /\ Retries \in Nat \ {0} /\ CostCap \in Nat

VARIABLES
  open,      \* Kalshi's open markets
  index,     \* unified_index.json.gz: the markets of its last build
  pairs,     \* cross_pairs.json: [k, yes, auto]
  potential, \* potential_cross_pairs.json
  rejected,  \* rejected_pairs.json
  review,    \* review_queue.json
  archive,   \* closed_markets.jsonl
  spent,     \* judge_cost.json: today's calls
  audited,   \* what the last audit found: confirmed, mismatched, pending
  job        \* the script that runs, or how the last one ended

crossVars == <<open, index, pairs, potential, rejected, review, archive, spent, audited, job>>
files == <<pairs, potential, rejected, review, archive>>
KIds == {m.id : m \in Kalshis(Records)}
PIds == {m.id : m \in Polys(Records)}
Record(id) == CHOOSE m \in Records : m.id = id
PolyTokens == [p : PIds, side : {"yes", "no"}]
Cands == {Candidate(k, p) : k \in Kalshis(Records), p \in Polys(Records)}
Yes(c) == [p |-> c.p, side |-> "yes"]
No(c) == [p |-> c.p, side |-> "no"]
Unaudited == [confirmed |-> {}, mismatch |-> {}]
Job(kind, todo) == [kind |-> kind, todo |-> todo, tries |-> 1, held |-> {}, met |-> {}]
Ended(why) == Job(why, <<>>)
Done(todo) == IF todo = <<>> THEN Ended("done") ELSE [job EXCEPT !.todo = todo, !.tries = 1]
Over == {"done", "failed", "killed"}
SetOf(s) == {s[i] : i \in DOMAIN s}

CrossInit ==
  /\ open = KIds /\ index = {}
  /\ pairs = {} /\ potential = {} /\ rejected = {} /\ review = {} /\ archive = {}
  /\ spent = 0 /\ audited = Unaudited
  /\ job = Ended("done")

(* ---- the files: a row is its ticker and its YES token --------------------------- *)
Row(c, yes, auto) == [k |-> c.k, yes |-> yes, auto |-> auto]
Key(r) == [k |-> r.k, yes |-> r.yes]
SavePairs(rows) == pairs \cup {r \in rows : \A q \in pairs : Key(q) # Key(r)}
SwapTokens(c) == No(c)
SavePotential(cs) == potential \cup {[k |-> c.k, yes |-> Yes(c)] : c \in cs}
SaveRejected(cs) == rejected \cup {[k |-> c.k, yes |-> Yes(c)] : c \in cs}
\* The row a judgement makes of a candidate, if it makes one.
Judged(c, status, auto) ==
  CASE status = "VALID" -> {Row(c, Yes(c), auto)}
    [] status = "INVERTED" -> {Row(c, SwapTokens(c), auto)}
    [] OTHER -> {}
Tickers(rows) == {r.k : r \in rows}
Already == Tickers(pairs) \cup Tickers(potential) \cup Tickers(rejected)
PairedIds == Tickers(pairs) \cup {r.yes.p : r \in pairs}
RejectedIds == Tickers(rejected)

(* ---- fetching and the index ------------------------------------------------------- *)
\* Kalshi's open events, and Polymarket's active ones or those not played now.
KalshiMarkets == {m \in Records : m.venue = "kalshi" /\ m.id \in open}
PolyMarkets(noLive) == {m \in Records : m.venue = "poly" /\ (noLive => m.id \notin InPlay)}
Fetched(noLive) == KalshiMarkets \cup PolyMarkets(noLive)
Indexed == {m \in Records : m.id \in index}
IdsOf(S) == {m.id : m \in S}

(* ---- run_judge, run_ollama_judge --------------------------------------------------- *)
StartJudge(kind, kept, n, noLive) ==
  /\ job.kind \in Over
  /\ index' = IdsOf(Fetched(noLive))
  /\ \E q \in Ranked(Filtered(FindCandidates(Fetched(noLive), Already), kept)) :
       job' = IF Limited(q, n) = <<>> THEN Ended("done") ELSE Job(kind, Limited(q, n))
  /\ UNCHANGED <<open, files, spent, audited>>
Batch == SubSeq(job.todo, 1, IF BatchSize < Len(job.todo) THEN BatchSize ELSE Len(job.todo))
Rest == SubSeq(job.todo, Len(Batch) + 1, Len(job.todo))
\* A reply lists some of the batch, in any order, each with its index; the others
\* count as INVALID, and an INVALID is written nowhere.
Replies(n) == {r \in UNION {[1 .. k -> 1 .. n] : k \in 0 .. n} : IsInjective(r)}
\* Mutant: the verdicts are matched by their place in the reply.
MutTold(reply) ==
  {[c |-> Batch[j], status |-> Verdict(Batch[reply[j]].k, Batch[reply[j]].p)] : j \in DOMAIN reply}
Told(reply) == {[c |-> Batch[i], status |-> Verdict(Batch[i].k, Batch[i].p)] : i \in SetOf(reply)}
Recorded(told) ==
  /\ pairs' = SavePairs(UNION {Judged(v.c, v.status, FALSE) : v \in told})
  /\ potential' = SavePotential({v.c : v \in {w \in told : w.status = "CONDITIONAL"}})
\* Bound: what the judge costs is counted up to the day's budget.
Charged == IF job.kind = "judge" /\ spent < CostCap THEN spent + 1 ELSE spent
\* Pairs, potential pairs and inverted pairs are three writes: a kill falls between.
JudgeBatch(reply) ==
  /\ job.kind \in {"judge", "ollama"}
  /\ Recorded(Told(reply))
  /\ spent' = Charged
  /\ job' = Done(Rest)
  /\ UNCHANGED <<open, index, rejected, review, archive, audited>>
KilledInBatch(reply, done) ==
  /\ job.kind \in {"judge", "ollama"}
  /\ Recorded({v \in Told(reply) : v.status \in done})
  /\ spent' = Charged
  /\ job' = Ended("killed")
  /\ UNCHANGED <<open, index, rejected, review, archive, audited>>
\* A call that fails is tried again, a balance that is exhausted ends the run; the
\* local model's failure counts as an empty reply.
JudgeFails ==
  /\ job.kind = "judge"
  /\ job' = IF job.tries < Retries THEN [job EXCEPT !.tries = @ + 1] ELSE Ended("failed")
  /\ UNCHANGED <<open, index, files, spent, audited>>
BalanceExhausted ==
  /\ job.kind = "judge"
  /\ job' = Ended("failed")
  /\ UNCHANGED <<open, index, files, spent, audited>>

(* ---- manual_review_session --------------------------------------------------------- *)
\* The person at the keyboard judges rightly, or skips.
Press(key) ==
  LET c == Head(job.todo)
      v == Verdict(c.k, c.p)
  IN  /\ job.kind = "manual"
      /\ CASE key = "judge" ->
                /\ pairs' = SavePairs(Judged(c, v, FALSE))
                /\ potential' = IF v = "CONDITIONAL" THEN SavePotential({c}) ELSE potential
                /\ rejected' = IF v = "INVALID" THEN SaveRejected({c}) ELSE rejected
           [] key = "skip" -> rejected' = SaveRejected({c}) /\ UNCHANGED <<pairs, potential>>
      /\ job' = Done(Tail(job.todo))
      /\ UNCHANGED <<open, index, review, archive, spent, audited>>
\* Another market of the index is taken for one side of the candidate (t, /p, /k).
Found(old) == {c \in Cands : (c.k = old.k) # (c.p = old.p) /\ {c.k, c.p} \subseteq index}
Override(c) ==
  LET old == Head(job.todo)
  IN  /\ job.kind = "manual"
      /\ c \in Found(old)
      /\ rejected' = SaveRejected({old})
      /\ job' = [job EXCEPT !.todo = <<c>> \o Tail(job.todo)]
      /\ UNCHANGED <<open, index, pairs, potential, review, archive, spent, audited>>
Quit ==
  /\ job.kind = "manual"
  /\ job' = Ended("done")
  /\ UNCHANGED <<open, index, files, spent, audited>>

(* ---- enter_event_pairing_mode -------------------------------------------------------- *)
\* The source event is a silent one of the coverage report, or any; its twin's event
\* is chosen from what the first outcome finds, and all the pairs are confirmed at
\* once: rightly, when each is a pair.
Silent(ev) ==
  \A m \in {x \in Indexed : x.event = ev} : m.id \notin PairedIds \cup RejectedIds
Pairings(ev, target) ==
  {IF s[1].venue = "kalshi" THEN Candidate(s[1], s[2]) ELSE Candidate(s[2], s[1]) :
     s \in Suggested(ev, target, Indexed)}
First(ev) == CHOOSE m \in Indexed : m.event = ev
PairEvent(ev, target) ==
  /\ job.kind \in Over \/ (job.kind = "manual" /\ Silent(ev))
  /\ \E m \in Indexed : m.event = ev
  /\ \E e \in Twins(TwinSearch(First(ev), Indexed)) : e.event = target
  /\ \E cs \in {Pairings(ev, target)} :
       /\ cs # {} /\ \A c \in cs : Verdict(c.k, c.p) = "VALID"
       /\ pairs' = SavePairs({Row(c, Yes(c), FALSE) : c \in cs})
  /\ UNCHANGED <<open, index, potential, rejected, review, archive, spent, audited, job>>

(* ---- batch_judge_new_discoveries, in --discover and --daily ---------------------------- *)
\* The index is built anew when it is a day old and always in the daily run.
StartDiscover(kind, rebuild, noLive) ==
  LET S == IF rebuild \/ kind = "daily" THEN Fetched(noLive) ELSE Indexed
      sources == {m.id : m \in {x \in Kalshis(S) : x.id \notin PairedIds \cup RejectedIds}}
  IN  /\ job.kind \in Over
      /\ rebuild \/ kind = "daily" \/ index # {}
      /\ index' = IdsOf(S)
      /\ \E todo \in SetToSeqs(sources) : job' = [Job(kind, todo) EXCEPT !.held = review]
      /\ UNCHANGED <<open, files, spent, audited>>
MinDiscovery == 30
Discovering == job.kind \in {"discover", "daily"} /\ job.todo # <<>> /\ spent < CostCap
AsCandidate(m, twins) == IF twins = {} THEN {} ELSE {Candidate(m, CHOOSE e \in twins : TRUE)}
Searched(m) == AsCandidate(m, BestTwin(TwinSearch(m, Indexed), MinDiscovery))
Best == Searched(Record(Head(job.todo)))
Onward == [job EXCEPT !.todo = Tail(@)]
\* Below the threshold, nobody is asked.
NoTwin ==
  /\ Discovering /\ Best = {}
  /\ job' = Onward
  /\ UNCHANGED <<open, index, files, spent, audited>>
\* A sure verdict is acted on, any other, and a failed call, waits for a person.
Route(c, status, sure) ==
  [pairs |-> IF sure THEN Judged(c, status, TRUE) ELSE {},
   rejected |-> IF sure /\ status = "INVALID" THEN {c} ELSE {},
   held |-> IF sure /\ status # "CONDITIONAL" THEN {} ELSE {[k |-> c.k, yes |-> Yes(c)]}]
Discover(sure, answered) ==
  /\ Discovering
  /\ \E c \in Best :
       LET way == Route(c, IF answered THEN Verdict(c.k, c.p) ELSE "INVALID", sure /\ answered)
       IN  /\ pairs' = SavePairs(way.pairs)
           /\ rejected' = SaveRejected(way.rejected)
           /\ job' = [Onward EXCEPT !.held = @ \cup way.held, !.met = @ \cup {c.k}]
           /\ spent' = IF answered THEN spent + 1 ELSE spent
  /\ UNCHANGED <<open, index, potential, review, archive, audited>>
\* The queue is written once, at the end: of the sources, of the day's budget or of
\* the balance.  The daily run then audits what was accepted without a person.
TokenWins(r) == Outcome(r.k) = (IF Verdict(r.k, r.yes.p) = "VALID" THEN r.yes.side = "yes" ELSE r.yes.side = "no")
Settled(r) == r.k \notin open
Audit ==
  LET rows == {r \in pairs : r.auto /\ Settled(r)}
  IN  [confirmed |-> {r \in rows : Outcome(r.k) # TokenWins(r)},
       mismatch |-> {r \in rows : Outcome(r.k) = TokenWins(r)}]
EndDiscover(broke) ==
  /\ job.kind \in {"discover", "daily"}
  /\ (broke /\ Discovering /\ Best # {}) \/ job.todo = <<>> \/ spent >= CostCap
  /\ review' = job.held
  /\ audited' = IF job.kind = "daily" THEN Audit ELSE audited
  /\ job' = Ended("done")
  /\ UNCHANGED <<open, index, pairs, potential, rejected, archive, spent>>

(* ---- clean_concluded_pairs --------------------------------------------------------------- *)
\* held: the rows it read; met: the tickers Kalshi called live.
StartClean ==
  /\ job.kind \in Over
  /\ pairs # {}
  /\ \E todo \in SetToSeqs(Tickers(pairs)) : job' = [Job("clean", todo) EXCEPT !.held = pairs]
  /\ UNCHANGED <<open, index, files, spent, audited>>
Asked == {job.todo[i] : i \in 1 .. (IF CleanBatch < Len(job.todo) THEN CleanBatch ELSE Len(job.todo))}
Statuses ==
  /\ job.kind = "clean" /\ job.todo # <<>>
  /\ job' = [job EXCEPT !.met = @ \cup (Asked \cap open),
                        !.todo = SubSeq(@, Cardinality(Asked) + 1, Len(@))]
  /\ UNCHANGED <<open, index, files, spent, audited>>
\* A status that cannot be read must not look like a market that is gone.
StatusesFail ==
  /\ job.kind = "clean" /\ job.todo # <<>>
  /\ job' = Ended("failed")
  /\ UNCHANGED <<open, index, files, spent, audited>>
Gone == {r \in job.held : r.k \notin job.met}
Fetching == job.kind = "clean" /\ job.todo = <<>>
NothingGone ==
  /\ Fetching /\ Gone = {}
  /\ job' = Ended("done")
  /\ UNCHANGED <<open, index, files, spent, audited>>
Archive ==
  /\ Fetching /\ Gone # {}
  /\ archive' = archive \cup Gone
  /\ job' = [job EXCEPT !.kind = "prune"]
  /\ UNCHANGED <<open, index, pairs, potential, rejected, review, spent, audited>>
\* Mutant: the pruning goes on without its record.
MutArchiveFails ==
  /\ Fetching /\ Gone # {}
  /\ job' = [job EXCEPT !.kind = "prune"]
  /\ UNCHANGED <<open, index, files, spent, audited>>
ArchiveFails ==
  /\ Fetching /\ Gone # {}
  /\ job' = Ended("failed")
  /\ UNCHANGED <<open, index, files, spent, audited>>
Prune ==
  /\ job.kind = "prune"
  /\ pairs' = job.held \ Gone
  /\ job' = Ended("done")
  /\ UNCHANGED <<open, index, potential, rejected, review, archive, spent, audited>>

(* ---- the world ---------------------------------------------------------------------------- *)
MarketCloses(k) ==
  /\ k \in open
  /\ open' = open \ {k}
  /\ UNCHANGED <<index, files, spent, audited, job>>
NewDay ==
  /\ spent > 0
  /\ spent' = 0
  /\ UNCHANGED <<open, index, files, audited, job>>
Kill ==
  /\ job.kind \notin Over
  /\ job' = Ended("killed")
  /\ UNCHANGED <<open, index, files, spent, audited>>

CrossNext ==
  \/ \E kind \in {"judge", "ollama", "manual"}, cat \in {"", "Politics"} :
       StartJudge(kind, IdsOf({m \in Records : cat \in {"", m.cat}}), IF cat = "" THEN Cardinality(Cands) ELSE 1, cat # "")
  \/ \E reply \in Replies(Len(Batch)) : 
       \/ JudgeBatch(reply)
       \/ \E done \in {{}, {"VALID"}, {"VALID", "CONDITIONAL"}} : KilledInBatch(reply, done)
  \/ JudgeFails
  \/ BalanceExhausted
  \/ \E key \in {"judge", "skip"} : Press(key)
  \/ \E c \in Cands : Override(c)
  \/ Quit
  \/ \E ev, target \in {m.event : m \in Records} : PairEvent(ev, target)
  \/ \E kind \in {"discover", "daily"}, rebuild, noLive \in BOOLEAN : StartDiscover(kind, rebuild, noLive)
  \/ NoTwin
  \/ \E sure, answered \in BOOLEAN : Discover(sure, answered)
  \/ \E broke \in BOOLEAN : EndDiscover(broke)
  \/ StartClean
  \/ Statuses
  \/ StatusesFail
  \/ NothingGone
  \/ Archive
  \/ ArchiveFails
  \/ Prune
  \/ \E k \in Closing : MarketCloses(k)
  \/ NewDay
  \/ Kill
CrossSpec == CrossInit /\ [][CrossNext]_crossVars

(* ---- properties ----------------------------------------------------------------------------- *)
\* Type invariant of the files and of the script that runs.
CrossTypeOK ==
  /\ open \subseteq KIds /\ index \subseteq KIds \cup PIds
  /\ pairs \subseteq [k : KIds, yes : PolyTokens, auto : BOOLEAN] /\ archive \subseteq [k : KIds, yes : PolyTokens, auto : BOOLEAN]
  /\ potential \cup rejected \cup review \subseteq [k : KIds, yes : PolyTokens]
  /\ spent \in 0 .. CostCap
  /\ audited.confirmed \cap audited.mismatch = {}
  /\ job.kind \in Over \cup {"judge", "ollama", "manual", "discover", "daily", "clean", "prune"}
  /\ job.tries \in 1 .. Retries
  /\ \A r, q \in pairs : Key(r) = Key(q) => r = q

\* A row's YES token pays when the ticker does: the bot buys YES on one venue and
\* NO on the other and takes the pair for a hedge.  The verdicts of a batch come in
\* any order and for a part of it (pair_markets_v2.py:661-664), an inverted pair's
\* tokens are swapped, a person may have replaced either side of the candidate.
RowsHedge ==
  \A r \in pairs : Verdict(r.k, r.yes.p) = (IF r.yes.side = "yes" THEN "VALID" ELSE "INVERTED")

\* No live market is pruned: a row goes only when its ticker is closed, whichever
\* status requests have failed and whenever the market closed between them
\* (pair_markets_v2.py:2474-2478).
LiveKept == [][\A r \in pairs \ pairs' : r.k \notin open]_crossVars

\* A row that leaves the file is in the archive before it leaves, whatever write
\* fails and wherever the script is killed (pair_markets_v2.py:2515-2522).
ArchivedFirst == [][\A r \in pairs \ pairs' : r \in archive]_crossVars

\* What a discovery has paid a judge for is on file when the run ends by itself: as
\* a pair, as a rejection or for review, also when the money ran out.
JudgedIsOnFile ==
  [][(job.kind \in {"discover", "daily"} /\ job'.kind = "done") =>
       job.met \subseteq (Tickers(pairs) \cup Tickers(rejected) \cup Tickers(review'))]_crossVars

\* The rows of the file are pairs of records that hedge, each once.
FilesSound == CrossTypeOK /\ RowsHedge
===============================================================================
