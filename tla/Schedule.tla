----------------------------- MODULE Schedule -----------------------------
(***************************************************************************)
(* The window arithmetic of the sidecar's schedule.py: pure functions that *)
(* turn a slate of games into the windows in which the browser is up.      *)
(* Times are whole units from local midnight of day 0, a window is a       *)
(* record [o, c, g] (open, close, games), a plan a sequence of windows and *)
(* a game a record [at, sport, mid].                                       *)
(***************************************************************************)
EXTENDS Integers, SequencesExt

CONSTANTS Day,          \* units in a local day
          Floor,        \* min_window_min: a shorter window is not worth a login
          JitterFloor,  \* the ten minutes jitter leaves to a window
          Nudge,        \* the minute jitter puts between two windows
          Length        \* DURATION: the sports and how long a game lasts

ASSUME ScheduleAssumption ==
  /\ Day \in Nat \ {0} /\ Floor \in Nat /\ JitterFloor \in Nat /\ Nudge \in Nat

Least(a, b) == IF a <= b THEN a ELSE b
Most(a, b) == IF a >= b THEN a ELSE b
DayOf(t) == t \div Day
Span(w) == w.c - w.o
ByOpen(ws) == SortSeq(ws, LAMBDA v, w: v.o < w.o)
Total(ws) == FoldLeft(LAMBDA sum, w: sum + Span(w), 0, ws)
Overlap(v, w) == v.o < w.c /\ w.o < v.c

\* Merge, in the order they open, the windows at most gap apart.
Glue(ws, gap) ==
  FoldLeft(LAMBDA out, w:
             IF out # <<>> /\ w.o <= Last(out).c + gap
             THEN Append(Front(out), [o |-> Last(out).o, c |-> Most(Last(out).c, w.c),
                                      g |-> Last(out).g + w.g])
             ELSE Append(out, w),
           <<>>, ByOpen(ws))

MergeWindows(a, b) == Glue(a \o b, 0)

\* The n windows with the most games, ties to the earlier, in time order.
Densest(ws, n) ==
  ByOpen(SubSeq(SortSeq(ws, LAMBDA v, w: v.g > w.g \/ (v.g = w.g /\ v.o < w.o)), 1, n))

ComputeWindows(games, k) ==
  LET Interval(x) == [o |-> x.at - k.lead, c |-> x.at + Length[x.sport] + k.trail, g |-> 1]
      merged == Glue([i \in DOMAIN games |-> Interval(games[i])], k.minGap)
      kept == SelectSeq(merged, LAMBDA w: w.g >= k.minGames)
  IN IF Len(kept) > k.maxBlocks THEN Densest(kept, k.maxBlocks) ELSE kept

\* Greedy sessions: the span with the most starts, then whatever starts outside it.
Starts(rest, t, k) == SelectSeq(rest, LAMBDA x: t <= x.at /\ x.at <= t + k.session)
ComputeSessions(games, k) ==
  LET Peak(rest) == CHOOSE x \in ToSet(rest) :
        \A y \in ToSet(rest) :
          LET nx == Len(Starts(rest, x.at, k)) ny == Len(Starts(rest, y.at, k))
          IN ny < nx \/ (ny = nx /\ x.at <= y.at)
      Take(s, i) ==
        IF s.rest = <<>> THEN s
        ELSE LET claimed == Starts(s.rest, Peak(s.rest).at, k)
                 w == [o |-> Min({x.at : x \in ToSet(claimed)}) - k.lead,
                       c |-> Max({x.at : x \in ToSet(claimed)}) + k.trail,
                       g |-> Len(claimed)]
             IN IF w.g < k.minGames THEN [s EXCEPT !.rest = <<>>]
                ELSE [rest |-> SelectSeq(s.rest, LAMBDA x: x.at < w.o \/ x.at > w.c),
                      out |-> Append(s.out, w)]
  IN ByOpen(FoldLeft(Take, [rest |-> games, out |-> <<>>], [i \in 1 .. k.maxBlocks |-> i]).out)

\* Blocks for in-play: the spans with the most games running, at least gap apart.
Running(games, t) == Len(SelectSeq(games, LAMBDA x: x.at <= t /\ t < x.at + Length[x.sport]))
Concurrency(games, t, span) ==
  FoldLeft(LAMBDA sum, u: sum + Running(games, t + u - 1), 0, [u \in 1 .. span |-> u])
ComputeInplayBlocks(games, span, gap, maxBlocks, minGames) ==
  LET lo == Min({x.at : x \in ToSet(games)})
      hi == Max({x.at + Length[x.sport] : x \in ToSet(games)})
      ranked == SortSeq([i \in 1 .. hi - lo + 1 |-> lo + i - 1],
                  LAMBDA s, t: LET cs == Concurrency(games, s, span)
                                   ct == Concurrency(games, t, span)
                               IN cs > ct \/ (cs = ct /\ s < t))
      Live(t) == Len(SelectSeq(games, LAMBDA x: x.at < t + span /\ t < x.at + Length[x.sport]))
      Pick(out, t) ==
        IF \/ Len(out) >= maxBlocks
           \/ \E w \in ToSet(out) : t < w.c + gap /\ w.o - gap < t + span
           \/ Live(t) < minGames
        THEN out ELSE Append(out, [o |-> t, c |-> t + span, g |-> Live(t)])
  IN IF games = <<>> THEN <<>> ELSE ByOpen(FoldLeft(Pick, <<>>, ranked))

\* Only today's games; only games with a paired market, unless that leaves none.
FilterToLocalDay(games, now) == SelectSeq(games, LAMBDA x: DayOf(x.at) = DayOf(now))
FilterToPaired(games, mids) ==
  LET kept == SelectSeq(games, LAMBDA x: x.mid \in mids)
  IN IF kept = <<>> THEN games ELSE kept

\* A daily range as windows of the days first .. last; an end not after its
\* start is on the next day.
Daily(ranges, first, last) ==
  LET Occurrence(r, d) ==
        [o |-> d * Day + r.from,
         c |-> d * Day + r.to + (IF r.to <= r.from THEN Day ELSE 0), g |-> 0]
  IN SortSeq(FlattenSeq([i \in DOMAIN ranges |->
                           [j \in 1 .. last - first + 1 |-> Occurrence(ranges[i], first + j - 1)]]),
             LAMBDA v, w: v.o < w.o \/ (v.o = w.o /\ v.c < w.c))
PinnedWindows(ranges, now) ==
  SelectSeq(Daily(ranges, DayOf(now), DayOf(now) + 1), LAMBDA w: w.c > now)
AllowedIntervals(ranges, now) == Daily(ranges, DayOf(now) - 1, DayOf(now) + 2)

IsProtected(w, pins) == \E p \in ToSet(pins) : Overlap(p, w)

\* What is left of each window outside the pins, and the pins themselves.
CarveOutPins(computed, pins) ==
  LET spans == MergeWindows(pins, <<>>)
      Cut(pieces, p) == FlattenSeq([i \in DOMAIN pieces |->
        LET w == pieces[i]
        IN IF ~Overlap(p, w) THEN <<w>>
           ELSE SelectSeq(<<[w EXCEPT !.c = p.o], [w EXCEPT !.o = p.c]>>,
                          LAMBDA v: v.o < v.c)])
      pieces == FlattenSeq([i \in DOMAIN computed |-> FoldLeft(Cut, <<computed[i]>>, spans)])
  IN ByOpen(SelectSeq(pieces, LAMBDA w: Span(w) >= Floor) \o spans)

\* Shift every window by a fixed pseudo-random offset of its own open: off maps
\* an open to the offsets of the two ends.
ApplyJitter(ws, off, shift) ==
  LET Moved(w) ==
        LET o == w.o + off[w.o].open
            c == w.c + (IF shift THEN off[w.o].open ELSE off[w.o].close)
        IN IF c - o < JitterFloor THEN w ELSE [w EXCEPT !.o = o, !.c = c]
      Put(out, w) ==
        LET m == Moved(w)
            o == IF out # <<>> /\ m.o < Last(out).c THEN Last(out).c + Nudge ELSE m.o
        IN IF m.c > o THEN Append(out, [m EXCEPT !.o = o]) ELSE out
  IN FoldLeft(Put, <<>>, ws)

CapWindowLength(ws, limit, pins) ==
  LET Capped(w) == IF IsProtected(w, pins) \/ Span(w) <= limit THEN <<w>>
                   ELSE IF limit >= Floor THEN <<[w EXCEPT !.c = w.o + limit]>> ELSE <<>>
  IN FlattenSeq([i \in DOMAIN ws |-> Capped(ws[i])])

\* Pull each close back to gap before the next open.
EnforceDowntime(ws, gap) ==
  LET s == ByOpen(ws)
      Trimmed(i) == IF i = Len(s) THEN s[i] ELSE [s[i] EXCEPT !.c = Least(@, s[i + 1].o - gap)]
  IN IF gap = 0 \/ Len(ws) < 2 THEN ws
     ELSE SelectSeq([i \in DOMAIN s |-> Trimmed(i)], LAMBDA w: Span(w) >= Floor)

\* What a window still costs from now on.
Remaining(w, now) == Most(0, w.c - Most(w.o, now))
Days(ws) == {DayOf(w.o) : w \in ToSet(ws)}
OnDay(ws, d) == SelectSeq(ws, LAMBDA w: DayOf(w.o) = d)

\* Spend a day's budget on the pins, then on the windows with most games.
CapDailyHours(ws, limit, pins, spent, now) ==
  LET Rank(w) == IF IsProtected(w, pins) THEN 0 ELSE 1
      Before(v, w) == \/ Rank(v) < Rank(w)
                      \/ Rank(v) = Rank(w) /\ (v.g > w.g \/ (v.g = w.g /\ v.o < w.o))
      Charge(s, w) ==
        LET cost == Remaining(w, now)
            left == s.left
        IN CASE cost = 0 -> [s EXCEPT !.out = Append(@, w)]
             [] cost > 0 /\ (IsProtected(w, pins) \/ (left > 0 /\ cost <= left)) ->
                  [out |-> Append(s.out, w), left |-> left - cost]
             [] cost > left /\ ~IsProtected(w, pins) /\ left > 0 /\ left >= Floor ->
                  [out |-> Append(s.out, [w EXCEPT !.c = Most(w.o, now) + left]), left |-> 0]
             [] OTHER -> s
      OneDay(d) == FoldLeft(Charge, [out |-> <<>>, left |-> limit - spent[d]],
                            SortSeq(OnDay(ws, d), Before)).out
  IN ByOpen(FoldSet(LAMBDA d, out: out \o OneDay(d), <<>>, Days(ws)))

\* Grow today's windows into the unspent budget: opens earlier first, then
\* closes later, each in proportion to its room (rounded down to the unit).
Room(limit, head) == Most(0, IF head = -1 THEN limit ELSE Least(limit, head))
Share(room, left, sum) == IF sum = 0 THEN 0 ELSE IF sum <= left THEN room ELSE (room * left) \div sum
SumOf(f) == FoldLeft(LAMBDA sum, x: sum + x, 0, f)
FillDailyHours(ws, limit, spent, now, gap, shape, pins) ==
  LET today == DayOf(now)
      s == ByOpen(OnDay(ws, today))
      n == Len(s)
      left == limit - spent[today] - SumOf([i \in 1 .. n |-> Remaining(s[i], now)])
      head == [i \in 1 .. n |-> IF IsProtected(s[i], pins) THEN 0
                                ELSE IF shape > 0 THEN Most(0, shape - Span(s[i])) ELSE -1]
      early == [i \in 1 .. n |->
                  Room(s[i].o - Most(now, IF i = 1 THEN today * Day
                                          ELSE Most(s[i - 1].c + gap, today * Day)), head[i])]
      opens == [i \in 1 .. n |-> s[i].o - Share(early[i], left, SumOf(early))]
      used == SumOf([i \in 1 .. n |-> s[i].o - opens[i]])
      late == [i \in 1 .. n |->
                 Room((IF i = n THEN (today + 1) * Day ELSE opens[i + 1] - gap) - s[i].c,
                      IF head[i] = -1 THEN -1 ELSE head[i] - (s[i].o - opens[i]))]
      grown == [i \in 1 .. n |->
                  [o |-> opens[i], g |-> s[i].g,
                   c |-> s[i].c + Share(late[i], left - used, SumOf(late))]]
  IN IF left <= 0 THEN ws
     ELSE ByOpen(SelectSeq(ws, LAMBDA w: DayOf(w.o) # today) \o grown)

\* What of the plan lies in the hours the operator allows; games ride the first piece.
ClipToAllowed(ws, ranges, now) ==
  LET allowed == AllowedIntervals(ranges, now)
      Pieces(w) ==
        LET cut == SelectSeq([i \in DOMAIN allowed |->
                                [o |-> Most(w.o, allowed[i].o), c |-> Least(w.c, allowed[i].c), g |-> 0]],
                             LAMBDA v: Span(v) >= Floor)
        IN [i \in DOMAIN cut |-> IF i = 1 THEN [cut[1] EXCEPT !.g = w.g] ELSE cut[i]]
  IN IF ranges = <<>> THEN ws
     ELSE MergeWindows(FlattenSeq([i \in DOMAIN ws |-> Pieces(ws[i])]), <<>>)

\* The games of each window, each counted in the first window that covers it.
Covers(w, x) == w.o <= x.at /\ x.at <= w.c
AssignGames(ws, games) ==
  [i \in DOMAIN ws |->
     [ws[i] EXCEPT !.g = Len(SelectSeq(games, LAMBDA x:
        Covers(ws[i], x) /\ \A j \in 1 .. i - 1 : ~Covers(ws[j], x)))]]

\* The clock is read a moment after unit t, so that no reading falls on an edge.
ActiveWindow(ws, t) == {i \in DOMAIN ws : ws[i].o <= t /\ t < ws[i].c}
==========================================================================
