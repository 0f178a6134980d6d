----------------------------- MODULE OddsProofs -----------------------------
(* What the price cache of the Pinnacle adapter preserves, for any matchups, cutoffs, *)
(* delays and bounds: a token is served with its own side's price, and the price      *)
(* stands at the venue as long as nothing was lost on the way.                        *)
EXTENDS PinnacleOdds, SequenceTheorems, TLAPS

-----------------------------------------------------------------------------
(* The invariant *)

Pushed ==
  [mid : Matchups, px : 0 .. MaxMoves, open : SUBSET Sides, live : BOOLEAN,
   markets : BOOLEAN, del : BOOLEAN]
\* A record that says which markets of a matchup there are, or that there are none.
Speaks(r, m) == r.mid = m /\ (r.markets = TRUE \/ r.del = TRUE)
\* The last such record on the wire is the venue's own word.
LastWord(w, i) == \A j \in 1 .. Len(w) : j > i => ~Speaks(w[j], w[i].mid)
WireTrue ==
  \A i \in 1 .. Len(wire) :
    wire[i].markets = TRUE /\ wire[i].del = FALSE /\ LastWord(wire, i) =>
      /\ wire[i].px = venue[wire[i].mid].px /\ wire[i].open = venue[wire[i].mid].open
\* The venue has an open price of the cache, or word of the change is on the wire.
Announced(m) == \E i \in 1 .. Len(wire) : Speaks(wire[i], m)
OpenAt(t) == cache[t] # None /\ cache[t].st = "open"
CacheTrue ==
  lossy = FALSE => \A t \in Tokens : OpenAt(t) =>
    \/ venue[t[1]].px = cache[t].px /\ t[2] \in venue[t[1]].open
    \/ Announced(t[1])
VenueTyped ==
  /\ venue \in [Matchups -> Records] /\ moves \in 0 .. MaxMoves
  /\ \A m \in Matchups : venue[m].px <= moves
WireTyped == wire \in Seq(Pushed) /\ sock \in BOOLEAN /\ (sock = FALSE => wire = <<>>)
CacheTyped == cache \in [Tokens -> {None} \cup Entries]
KnownTyped ==
  /\ now \in 0 .. LastTime /\ rest \subseteq [Matchups -> Records] /\ proven \in BOOLEAN
  /\ lossy \in BOOLEAN /\ child \in [Matchups -> Matchups] /\ byNames \in {Never} \cup Matchups
  /\ midTs \in [Matchups -> {Never} \cup 0 .. LastTime]
PairedTrue == DOMAIN paired \subseteq Tokens /\ \A t \in DOMAIN paired : paired[t] = Names[t[1]][t[2]]
OddsInv ==
  VenueTyped /\ WireTyped /\ WireTrue /\ CacheTyped /\ CacheTrue /\ KnownTyped /\ PairedTrue

LEMMA OddsConstants == LastTime \in Nat /\ MaxMoves \in Nat /\ Parent \in Matchups
BY OddsAssumption

-----------------------------------------------------------------------------
(* What a record does to one token *)

Entry(c) == c \in [Tokens -> {None} \cup Entries]

LEMMA UpsertIs ==
  ASSUME NEW c, Entry(c), NEW t \in Tokens, NEW r, r.px \in 0 .. MaxMoves, now \in 0 .. LastTime,
         NEW live \in BOOLEAN
  PROVE  /\ Upsert(c, t, r, live) \in Entries /\ Upsert(c, t, r, live).px = r.px
         /\ c[t] # None /\ c[t].live = TRUE => Upsert(c, t, r, live).live = TRUE
<1> DEFINE b == live \/ (c[t] # None /\ c[t].live)
<1>1. b \in BOOLEAN /\ (c[t] # None /\ c[t].live = TRUE => b = TRUE)
  OBVIOUS
<1>2. Upsert(c, t, r, live) = [st |-> "open", px |-> r.px, ts |-> now, live |-> b]
  BY DEF Upsert, Sel
<1> HIDE DEF b
<1> QED
  BY <1>1, <1>2 DEF Entries

LEMMA SuspendIs ==
  ASSUME NEW s \in Entries, now \in 0 .. LastTime
  PROVE  Suspend(s) \in Entries /\ Suspend(s).st = "suspended" /\ Suspend(s).live = s.live
BY DEF Suspend, Entries

LEMMA MarketsIs ==
  ASSUME NEW m, NEW r, NEW t \in MarketTokens(m, r)
  PROVE  t[1] = m /\ t[2] \in r.open
BY DEF MarketTokens

LEMMA EntryIs ==
  ASSUME NEW c, Entry(c), NEW t \in Tokens
  PROVE  c[t] = None \/ c[t] \in Entries
BY DEF Entry

\* A delivered record leaves a token alone, or says it is gone, suspended or open at a price.
LEMMA ApplyToken ==
  ASSUME CacheTyped, now \in 0 .. LastTime, NEW r \in Pushed, cache' = Apply(cache, r),
         NEW t \in Tokens
  PROVE  /\ cache'[t] \in {None} \cup Entries
         /\ cache[t] # None /\ cache'[t] # None /\ cache[t].live = TRUE => cache'[t].live = TRUE
         /\ \/ cache'[t] = cache[t] /\ ~Speaks(r, t[1])
            \/ cache'[t] = None \/ cache'[t].st = "suspended"
            \/ /\ t[1] = r.mid /\ r.markets = TRUE /\ r.del = FALSE
               /\ cache'[t].px = r.px /\ t[2] \in r.open
<1>1. Entry(cache) /\ (cache[t] = None \/ cache[t] \in Entries)
  BY EntryIs DEF CacheTyped, Entry
<1>2. r.px \in 0 .. MaxMoves /\ r.live \in BOOLEAN /\ r.markets \in BOOLEAN /\ r.del \in BOOLEAN
  BY DEF Pushed
<1>3. CASE r.del = TRUE
  <2>1. cache'[t] = IF t[1] = r.mid THEN None ELSE cache[t]
    BY <1>3 DEF Apply
  <2> QED
    BY <1>1, <2>1 DEF Speaks
<1>4. CASE r.del = FALSE
  <2>1. cache'[t] = IF ~r.markets THEN cache[t]
                    ELSE IF t \in MarketTokens(r.mid, r) THEN Upsert(cache, t, r, r.live)
                    ELSE IF t[1] = r.mid /\ cache[t] # None THEN Suspend(cache[t])
                    ELSE cache[t]
    BY <1>4 DEF Apply, ApplyMarkets
  <2>2. CASE r.markets = FALSE
    BY <1>1, <1>4, <2>1, <2>2 DEF Speaks
  <2>3. CASE r.markets = TRUE /\ t \in MarketTokens(r.mid, r)
    <3>1. cache'[t] = Upsert(cache, t, r, r.live)
      BY <2>1, <2>3
    <3>2. cache'[t] \in Entries /\ cache'[t].px = r.px
          /\ (cache[t] # None /\ cache[t].live = TRUE => cache'[t].live = TRUE)
      <4> DEFINE live == r.live
                 u == Upsert(cache, t, r, live)
      <4>0. live \in BOOLEAN /\ r.px \in 0 .. MaxMoves /\ Entry(cache)
        BY <1>1, <1>2
      <4>2. cache'[t] = u
        BY <3>1, Zenon
      <4> HIDE DEF live
      <4>1. u \in Entries /\ u.px = r.px /\ (cache[t] # None /\ cache[t].live = TRUE => u.live = TRUE)
        BY <4>0, UpsertIs, ZenonT(60)
      <4> HIDE DEF u
      <4>3. cache'[t] \in Entries
        BY <4>1, <4>2, Zenon
      <4>4. cache'[t].px = r.px
        BY <4>1, <4>2, Zenon
      <4>5. cache[t] # None /\ cache[t].live = TRUE => cache'[t].live = TRUE
        BY <4>1, <4>2, Zenon
      <4> QED
        BY <4>3, <4>4, <4>5
    <3> QED
      BY <1>4, <2>3, <3>2, MarketsIs
  <2>4. CASE r.markets = TRUE /\ t \notin MarketTokens(r.mid, r) /\ t[1] = r.mid
    <3>1. CASE cache[t] = None
      BY <2>1, <2>4, <3>1
    <3>2. CASE cache[t] \in Entries /\ cache[t] # None
      <4>1. cache'[t] = Suspend(cache[t])
        BY <2>1, <2>4, <3>2
      <4> QED
        BY <3>2, <4>1, SuspendIs
    <3> QED
      BY <1>1, <3>1, <3>2
  <2>5. CASE r.markets = TRUE /\ t \notin MarketTokens(r.mid, r) /\ t[1] # r.mid
    BY <1>1, <2>1, <2>5 DEF Speaks
  <2> QED
    BY <1>2, <2>2, <2>3, <2>4, <2>5
<1> QED
  BY <1>2, <1>3, <1>4

\* A snapshot leaves a token alone, or says it is open at a price.
LEMMA SnapToken ==
  ASSUME CacheTyped, now \in 0 .. LastTime, NEW snap \in [Matchups -> Records],
         cache' = ApplyStraight(cache, snap), NEW t \in Tokens
  PROVE  /\ cache'[t] \in {None} \cup Entries
         /\ cache[t] # None /\ cache'[t] # None /\ cache[t].live = TRUE => cache'[t].live = TRUE
         /\ \/ cache'[t] = cache[t]
            \/ cache'[t].px = snap[t[1]].px /\ t[2] \in snap[t[1]].open
<1>1. Entry(cache) /\ (cache[t] = None \/ cache[t] \in Entries)
  BY EntryIs DEF CacheTyped, Entry
<1>2. snap[t[1]].px \in 0 .. MaxMoves
  BY DEF Tokens, Records
<1>3. CASE t \in Applied(snap)
  <2>1. cache'[t] = Upsert(cache, t, snap[t[1]], FALSE)
    BY <1>3 DEF ApplyStraight
  <2>2. cache'[t] \in Entries /\ cache'[t].px = snap[t[1]].px
        /\ (cache[t] # None /\ cache[t].live = TRUE => cache'[t].live = TRUE)
    <3> DEFINE r == snap[t[1]]
               u == Upsert(cache, t, r, FALSE)
    <3>1. r.px \in 0 .. MaxMoves /\ FALSE \in BOOLEAN
      BY <1>2
    <3> HIDE DEF r
    <3>2. u \in Entries /\ u.px = r.px /\ (cache[t] # None /\ cache[t].live = TRUE => u.live = TRUE)
      BY <1>1, <3>1, UpsertIs, Zenon
    <3> HIDE DEF u
    <3> QED
      BY <2>1, <3>2 DEF u, r
  <2>3. t \in MarketTokens(t[1], snap[t[1]])
    BY <1>3 DEF Applied
  <2> QED
    BY <2>2, <2>3, MarketsIs
<1>4. CASE t \notin Applied(snap)
  <2>1. cache'[t] = cache[t]
    BY <1>4 DEF ApplyStraight
  <2> QED
    BY <1>1, <2>1
<1> QED
  BY <1>3, <1>4

-----------------------------------------------------------------------------
(* The steps *)

LEMMA WireIs ==
  ASSUME WireTyped
  PROVE  /\ Len(wire) \in Nat /\ \A i \in 1 .. Len(wire) : wire[i] \in Pushed
         /\ (wire = <<>> => Len(wire) = 0)
BY EmptySeq, LenProperties DEF WireTyped

\* A change at the venue tells the reader, unless the socket is down.
LEMMA ChangeKeeps ==
  ASSUME OddsInv, NEW m \in Matchups, NEW v \in [Matchups -> Records],
         \A n \in Matchups : n # m => v[n] = venue[n], v[m].px <= moves + 1,
         NEW markets \in BOOLEAN, NEW del \in BOOLEAN,
         markets = TRUE \/ del = TRUE \/ v = venue,
         markets = TRUE => del = FALSE,
         Change(m, v, markets, del)
  PROVE  OddsInv'
<1>1. VenueTyped /\ WireTyped /\ WireTrue /\ CacheTyped /\ CacheTrue /\ KnownTyped /\ PairedTrue
  BY DEF OddsInv
<1>2. venue' = v /\ moves' = moves + 1 /\ moves < MaxMoves /\ Push(m, v, markets, del)
      /\ UNCHANGED <<now, sock, rest, proven, seeded, cache, midTs, child, byNames, paired>>
  BY DEF Change, knownVars
<1>3. VenueTyped'
  <2>1. moves' \in 0 .. MaxMoves
    BY <1>1, <1>2, OddsConstants DEF VenueTyped
  <2>2. ASSUME NEW n \in Matchups PROVE v[n].px <= moves + 1
    <3>1. venue[n].px <= moves /\ venue[n].px \in Int /\ moves \in Int
      BY <1>1, OddsConstants DEF VenueTyped, Records
    <3>2. CASE n = m
      BY <3>2
    <3>3. CASE n # m
      BY <3>1, <3>3
    <3> QED
      BY <3>2, <3>3
  <2> QED
    BY <1>2, <2>1, <2>2 DEF VenueTyped
<1>4. CacheTyped' /\ PairedTrue'
  BY <1>1, <1>2 DEF CacheTyped, PairedTrue
<1>5. Len(wire) \in Nat /\ \A i \in 1 .. Len(wire) : wire[i] \in Pushed
  BY <1>1, WireIs
<1>6. CASE sock = TRUE
  <2>1. PICK live \in {FALSE, v[m].live} :
          wire' = Append(wire, [mid |-> m, px |-> v[m].px, open |-> v[m].open, live |-> live,
                                markets |-> markets, del |-> del])
    BY <1>2, <1>6, Zenon DEF Push
  <2>2. lossy' = lossy
    BY <1>2, <1>6 DEF Push
  <2> DEFINE r == [mid |-> m, px |-> v[m].px, open |-> v[m].open, live |-> live,
                   markets |-> markets, del |-> del]
             n == Len(wire) + 1
  <2>3. r \in Pushed /\ r.mid = m /\ r.px = v[m].px /\ r.open = v[m].open /\ r.markets = markets
        /\ r.del = del
    BY <2>1 DEF Pushed, Records
  <2> HIDE DEF r
  <2>4. /\ wire' \in Seq(Pushed) /\ Len(wire') = n /\ wire'[n] = r
        /\ \A i \in 1 .. Len(wire) : wire'[i] = wire[i]
    BY <1>1, <2>1, <2>3, AppendProperties DEF WireTyped, r
  <2>5. n \in 1 .. Len(wire') /\ \A i \in 1 .. Len(wire) : i \in 1 .. Len(wire')
    BY <1>5, <2>4
  <2>6. WireTyped'
    BY <1>1, <1>2, <1>6, <2>4 DEF WireTyped
  <2>7. WireTrue'
    <3> SUFFICES ASSUME NEW i \in 1 .. Len(wire'), wire'[i].markets = TRUE, wire'[i].del = FALSE,
                        LastWord(wire', i)
                 PROVE  wire'[i].px = v[wire'[i].mid].px /\ wire'[i].open = v[wire'[i].mid].open
      BY <1>2, Zenon DEF WireTrue
    <3>1. CASE i = n
      BY <2>3, <2>4, <3>1
    <3>2. CASE i # n
      <4>1. i \in 1 .. Len(wire) /\ wire'[i] = wire[i] /\ wire[i] \in Pushed
        BY <1>5, <2>4, <3>2
      <4>2. LastWord(wire, i)
        BY <2>4, <2>5, <4>1 DEF LastWord
      <4>3. ~Speaks(r, wire[i].mid)
        BY <1>5, <2>4, <2>5, <4>1 DEF LastWord
      <4>4. wire[i].px = venue[wire[i].mid].px /\ wire[i].open = venue[wire[i].mid].open
        BY <1>1, <4>1, <4>2 DEF WireTrue
      <4>5. wire[i].mid \in Matchups /\ v[wire[i].mid] = venue[wire[i].mid]
        BY <2>3, <4>1, <4>3 DEF Speaks, Pushed
      <4> QED
        BY <4>1, <4>4, <4>5
    <3> QED
      BY <3>1, <3>2
  <2>8. CacheTrue'
    <3> SUFFICES ASSUME lossy' = FALSE, NEW t \in Tokens, OpenAt(t)'
                 PROVE  (v[t[1]].px = cache[t].px /\ t[2] \in v[t[1]].open) \/ Announced(t[1])'
      BY <1>2 DEF CacheTrue
    <3>1. (venue[t[1]].px = cache[t].px /\ t[2] \in venue[t[1]].open) \/ Announced(t[1])
      BY <1>1, <1>2, <2>2 DEF CacheTrue, OpenAt
    <3>2. CASE Announced(t[1])
      BY <2>4, <2>5, <3>2 DEF Announced
    <3>3. CASE t[1] = m /\ (markets = TRUE \/ del = TRUE)
      <4>1. Speaks(wire'[n], t[1])
        BY <2>3, <2>4, <3>3 DEF Speaks
      <4> QED
        BY <2>5, <4>1 DEF Announced
    <3>4. CASE ~(t[1] = m /\ (markets = TRUE \/ del = TRUE))
      <4>1. t[1] \in Matchups
        BY DEF Tokens
      <4>2. v[t[1]] = venue[t[1]]
        BY <3>4, <4>1
      <4> QED
        BY <3>1, <3>2, <4>2
    <3> QED
      BY <3>3, <3>4
  <2>9. KnownTyped'
    BY <1>1, <1>2, <2>2 DEF KnownTyped
  <2> QED
    BY <1>3, <1>4, <2>6, <2>7, <2>8, <2>9 DEF OddsInv
<1>7. CASE sock = FALSE
  <2>1. lossy' = TRUE /\ wire' = wire /\ wire = <<>>
    BY <1>1, <1>2, <1>7 DEF Push, WireTyped
  <2>2. Len(wire') = 0
    BY <1>1, <2>1, WireIs
  <2>3. WireTyped' /\ WireTrue' /\ CacheTrue'
    BY <1>1, <1>2, <2>1, <2>2 DEF WireTyped, WireTrue, CacheTrue
  <2>4. KnownTyped'
    BY <1>1, <1>2, <2>1 DEF KnownTyped
  <2> QED
    BY <1>3, <1>4, <2>3, <2>4 DEF OddsInv
<1> QED
  BY <1>1, <1>6, <1>7 DEF WireTyped

LEMMA VenueKeeps ==
  ASSUME OddsInv, NEW m \in Matchups,
         Moves(m) \/ Pulls(m) \/ Scores(m) \/ GoesLive(m) \/ Removed(m)
  PROVE  OddsInv'
<1>1. venue \in [Matchups -> Records] /\ moves \in Nat /\ venue[m].px <= moves /\ venue[m].px \in Nat
  BY OddsConstants DEF OddsInv, VenueTyped, Records
<1>10. venue[m] \in Records
  BY <1>1
<1>2. moves < MaxMoves
  BY DEF Moves, Pulls, Scores, GoesLive, Removed, Change
<1> DEFINE With(q) == [venue EXCEPT ![m] = q]
<1>3. ASSUME NEW q \in Records
      PROVE  /\ With(q) \in [Matchups -> Records] /\ With(q)[m] = q
             /\ \A n \in Matchups : n # m => With(q)[n] = venue[n]
  BY <1>1
<1>4. ASSUME NEW q \in Records, q.px <= moves + 1, NEW markets \in BOOLEAN, NEW del \in BOOLEAN,
             markets = TRUE \/ del = TRUE, markets = TRUE => del = FALSE,
             Change(m, With(q), markets, del)
      PROVE  OddsInv'
  <2>1. With(q) \in [Matchups -> Records] /\ With(q)[m].px <= moves + 1
        /\ \A n \in Matchups : n # m => With(q)[n] = venue[n]
    BY <1>3, <1>4
  <2> HIDE DEF With
  <2> QED
    BY <1>4, <2>1, ChangeKeeps
<1> HIDE DEF With
<1>5. CASE Moves(m)
  <2> DEFINE n == venue[m].px + 1
             q == [venue[m] EXCEPT !.px = n]
  <2>1. n \in 0 .. MaxMoves /\ n <= moves + 1
    BY <1>1, <1>2, OddsConstants
  <2>2. Change(m, With(q), TRUE, FALSE)
    BY <1>5, Zenon DEF Moves, With
  <2> HIDE DEF n
  <2>3. q \in Records /\ q.px <= moves + 1
    BY <1>1, <2>1 DEF Records
  <2> HIDE DEF q
  <2> QED
    BY <1>4, <2>2, <2>3
<1>6. CASE Pulls(m)
  <2>1. PICK open \in SUBSET Sides : Change(m, [venue EXCEPT ![m].open = open], TRUE, FALSE)
    BY <1>6 DEF Pulls
  <2> DEFINE q == [venue[m] EXCEPT !.open = open]
  <2>2. Change(m, With(q), TRUE, FALSE)
    BY <2>1, Zenon DEF With
  <2>3. q \in Records /\ q.px <= moves + 1
    BY <1>1 DEF Records
  <2> HIDE DEF q
  <2> QED
    BY <1>4, <2>2, <2>3
<1>7. CASE Scores(m)
  <2>1. Change(m, venue, FALSE, FALSE)
    BY <1>7 DEF Scores
  <2>2. venue[m].px <= moves + 1
    BY <1>1
  <2> QED
    BY <1>1, <2>1, <2>2, ChangeKeeps
<1>8. CASE GoesLive(m)
  <2> DEFINE q == [venue[m] EXCEPT !.listed = TRUE, !.live = TRUE, !.open = Sides]
  <2>1. Change(m, With(q), TRUE, FALSE)
    BY <1>8, Zenon DEF GoesLive, With
  <2>2. q \in Records /\ q.px <= moves + 1
    <3> DEFINE x == venue[m]
    <3>1. x \in Records /\ x.px <= moves + 1
      BY <1>1, <1>10
    <3> HIDE DEF x
    <3>2. q = [x EXCEPT !.listed = TRUE, !.live = TRUE, !.open = Sides]
      BY DEF x
    <3> HIDE DEF q
    <3> QED
      BY <3>1, <3>2 DEF Records
  <2> HIDE DEF q
  <2> QED
    BY <1>4, <2>1, <2>2
<1>9. CASE Removed(m)
  <2> DEFINE q == [venue[m] EXCEPT !.listed = FALSE, !.open = {}]
  <2>1. Change(m, With(q), FALSE, TRUE)
    BY <1>9, Zenon DEF Removed, With
  <2>2. q \in Records /\ q.px <= moves + 1
    <3> DEFINE x == venue[m]
    <3>1. x \in Records /\ x.px <= moves + 1
      BY <1>1, <1>10
    <3> HIDE DEF x
    <3>2. q = [x EXCEPT !.listed = FALSE, !.open = {}]
      BY DEF x
    <3> HIDE DEF q
    <3> QED
      BY <3>1, <3>2 DEF Records
  <2> HIDE DEF q
  <2> QED
    BY <1>4, <2>1, <2>2
<1> QED
  BY <1>5, <1>6, <1>7, <1>8, <1>9

\* The reader takes the first record off the wire.
LEMMA DeliverKeeps ==
  ASSUME OddsInv, Deliver
  PROVE  OddsInv'
<1> DEFINE r == wire[1]
<1>1. VenueTyped /\ WireTyped /\ WireTrue /\ CacheTyped /\ CacheTrue /\ KnownTyped /\ PairedTrue
  BY DEF OddsInv
<1>2. Len(wire) \in Nat /\ \A i \in 1 .. Len(wire) : wire[i] \in Pushed
  BY <1>1, WireIs
<1>3. wire # <<>> /\ wire \in Seq(Pushed)
  BY <1>1 DEF Deliver, WireTyped
<1>4. /\ wire' = Tail(wire) /\ wire' \in Seq(Pushed) /\ Len(wire') = Len(wire) - 1
      /\ \A i \in 1 .. Len(wire') : wire'[i] = wire[i + 1]
  BY <1>3, HeadTailProperties DEF Deliver
<1>5. Head(wire) = r /\ Len(wire) # 0
  BY <1>3, EmptySeq
<1>6. 1 \in 1 .. Len(wire) /\ r \in Pushed
  BY <1>2, <1>5
<1>7. /\ midTs' = [midTs EXCEPT ![r.mid] = now] /\ byNames' = r.mid /\ child' = LinkChild(r.mid)
      /\ cache' = Apply(cache, r) /\ lossy' = (lossy \/ (r.markets /\ rest # {}))
      /\ UNCHANGED <<now, venue, sock, rest, proven, seeded, paired, moves>>
  BY <1>5, Zenon DEF Deliver
<1> HIDE DEF r
<1>8. lossy' \in BOOLEAN /\ (lossy' = FALSE => lossy = FALSE)
  BY <1>1, <1>7 DEF KnownTyped
<1>9. \A i \in 1 .. Len(wire) : i # 1 => i - 1 \in 1 .. Len(wire') /\ wire'[i - 1] = wire[i]
  BY <1>2, <1>4
<1>10. \A i \in 1 .. Len(wire') : i + 1 \in 1 .. Len(wire)
  BY <1>2, <1>4
<1>11. VenueTyped' /\ PairedTrue'
  BY <1>1, <1>7 DEF VenueTyped, PairedTrue
<1>12. WireTyped'
  BY <1>1, <1>3, <1>4, <1>7 DEF WireTyped
<1>13. KnownTyped'
  <2>1. r.mid \in Matchups
    BY <1>6 DEF Pushed
  <2>2. child' \in [Matchups -> Matchups]
    BY <1>1, <1>7, <2>1 DEF LinkChild, KnownTyped
  <2>3. midTs' \in [Matchups -> {Never} \cup 0 .. LastTime]
    BY <1>1, <1>7, <2>1 DEF KnownTyped
  <2> QED
    BY <1>1, <1>7, <1>8, <2>1, <2>2, <2>3 DEF KnownTyped
<1>14. WireTrue'
  <2> SUFFICES ASSUME NEW i \in 1 .. Len(wire'), wire'[i].markets = TRUE, wire'[i].del = FALSE,
                      LastWord(wire', i)
               PROVE  wire'[i].px = venue[wire'[i].mid].px /\ wire'[i].open = venue[wire'[i].mid].open
    BY <1>7, Zenon DEF WireTrue
  <2>1. i + 1 \in 1 .. Len(wire) /\ wire'[i] = wire[i + 1]
    BY <1>4, <1>10
  <2>2. ASSUME NEW j \in 1 .. Len(wire), j > i + 1 PROVE ~Speaks(wire[j], wire[i + 1].mid)
    <3>1. j - 1 \in 1 .. Len(wire') /\ wire'[j - 1] = wire[j] /\ j - 1 > i
      BY <1>9, <2>2
    <3> QED
      BY <2>1, <3>1 DEF LastWord
  <2>3. LastWord(wire, i + 1)
    BY <2>2 DEF LastWord
  <2> QED
    BY <1>1, <2>1, <2>3 DEF WireTrue
<1>15. ASSUME NEW t \in Tokens
       PROVE  /\ cache'[t] \in {None} \cup Entries
              /\ \/ cache'[t] = cache[t] /\ ~Speaks(r, t[1])
                 \/ cache'[t] = None \/ cache'[t].st = "suspended"
                 \/ /\ t[1] = r.mid /\ r.markets = TRUE /\ r.del = FALSE
                    /\ cache'[t].px = r.px /\ t[2] \in r.open
  <2>1. now \in 0 .. LastTime
    BY <1>1 DEF KnownTyped
  <2> QED
    BY <1>1, <1>6, <1>7, <2>1, ApplyToken
<1>16. CacheTyped'
  <2>1. cache' = [t \in Tokens |-> cache'[t]]
    BY <1>7 DEF Apply, ApplyMarkets
  <2> QED
    BY <1>15, <2>1 DEF CacheTyped
<1>17. CacheTrue'
  <2> SUFFICES ASSUME lossy' = FALSE, NEW t \in Tokens, OpenAt(t)'
               PROVE  (venue[t[1]].px = cache'[t].px /\ t[2] \in venue[t[1]].open) \/ Announced(t[1])'
    BY <1>7 DEF CacheTrue
  <2>1. CASE cache'[t] = cache[t] /\ ~Speaks(r, t[1])
    <3>1. (venue[t[1]].px = cache[t].px /\ t[2] \in venue[t[1]].open) \/ Announced(t[1])
      BY <1>1, <1>8, <2>1 DEF CacheTrue, OpenAt
    <3>2. ASSUME NEW i \in 1 .. Len(wire), Speaks(wire[i], t[1]) PROVE Announced(t[1])'
      <4>1. i # 1
        BY <2>1, <3>2 DEF r
      <4>2. i - 1 \in 1 .. Len(wire') /\ Speaks(wire'[i - 1], t[1])
        BY <1>9, <3>2, <4>1
      <4> QED
        BY <4>2 DEF Announced
    <3> QED
      BY <2>1, <3>1, <3>2 DEF Announced
  <2>2. CASE t[1] = r.mid /\ r.markets = TRUE /\ r.del = FALSE /\ cache'[t].px = r.px /\ t[2] \in r.open
    <3>1. CASE LastWord(wire, 1)
      BY <1>1, <1>6, <2>2, <3>1 DEF WireTrue, r
    <3>2. CASE ~LastWord(wire, 1)
      <4>1. PICK j \in 1 .. Len(wire) : j > 1 /\ Speaks(wire[j], wire[1].mid)
        BY <3>2 DEF LastWord
      <4>2. j - 1 \in 1 .. Len(wire') /\ Speaks(wire'[j - 1], t[1])
        BY <1>9, <2>2, <4>1 DEF r
      <4> QED
        BY <4>2 DEF Announced
    <3> QED
      BY <3>1, <3>2
  <2>3. cache'[t] # None /\ cache'[t].st # "suspended"
    BY DEF OpenAt
  <2> QED
    BY <1>15, <2>1, <2>2, <2>3
<1> QED
  BY <1>11, <1>12, <1>13, <1>14, <1>16, <1>17 DEF OddsInv

\* A REST answer is filed as it was asked for; if the venue moved meanwhile, that shows.
LEMMA SnapshotKeeps ==
  ASSUME OddsInv, Snapshot
  PROVE  OddsInv'
<1>1. VenueTyped /\ WireTyped /\ WireTrue /\ CacheTyped /\ CacheTrue /\ KnownTyped /\ PairedTrue
  BY DEF OddsInv
<1>2. PICK snap \in rest, arrives \in BOOLEAN :
        /\ cache' = IF arrives /\ Applied(snap) # {} THEN ApplyStraight(cache, snap) ELSE cache
        /\ lossy' = (lossy \/ snap # venue)
  BY Zenon DEF Snapshot
<1>3. /\ rest' = {} /\ UNCHANGED <<now, venue, wire, sock, proven, seeded, midTs, child, byNames,
                                   paired, moves>>
  BY DEF Snapshot, venueVars
<1>4. snap \in [Matchups -> Records] /\ now \in 0 .. LastTime
  BY <1>1 DEF KnownTyped
<1>5. lossy' \in BOOLEAN /\ (lossy' = FALSE => lossy = FALSE /\ snap = venue)
  BY <1>1, <1>2 DEF KnownTyped
<1>6. cache' = ApplyStraight(cache, snap) \/ cache' = cache
  BY <1>2
<1>7. ASSUME NEW t \in Tokens
      PROVE  /\ cache'[t] \in {None} \cup Entries
             /\ \/ cache'[t] = cache[t]
                \/ cache'[t].px = snap[t[1]].px /\ t[2] \in snap[t[1]].open
  <2>1. CASE cache' = cache
    BY <1>1, <2>1 DEF CacheTyped
  <2>2. CASE cache' = ApplyStraight(cache, snap)
    BY <1>1, <1>4, <2>2, SnapToken
  <2> QED
    BY <1>6, <2>1, <2>2
<1>8. CacheTyped'
  <2>1. cache' = [t \in Tokens |-> cache'[t]]
    BY <1>1, <1>6 DEF ApplyStraight, CacheTyped
  <2> QED
    BY <1>7, <2>1 DEF CacheTyped
<1>9. CacheTrue'
  <2> SUFFICES ASSUME lossy' = FALSE, NEW t \in Tokens, OpenAt(t)'
               PROVE  (venue[t[1]].px = cache'[t].px /\ t[2] \in venue[t[1]].open) \/ Announced(t[1])
    BY <1>3 DEF CacheTrue, Announced
  <2>1. CASE cache'[t] = cache[t]
    BY <1>1, <1>5, <2>1 DEF CacheTrue, OpenAt
  <2>2. CASE cache'[t].px = snap[t[1]].px /\ t[2] \in snap[t[1]].open
    BY <1>5, <2>2
  <2> QED
    BY <1>7, <2>1, <2>2
<1>10. VenueTyped' /\ WireTyped' /\ WireTrue' /\ PairedTrue'
  BY <1>1, <1>3 DEF VenueTyped, WireTyped, WireTrue, PairedTrue, LastWord
<1>11. KnownTyped'
  BY <1>1, <1>3, <1>5 DEF KnownTyped
<1> QED
  BY <1>8, <1>9, <1>10, <1>11 DEF OddsInv

LEMMA PairKeeps ==
  ASSUME OddsInv, Pair
  PROVE  OddsInv'
<1>1. Catalog \subseteq Tokens
  BY DEF Catalog, Guest, Tokens
<1>2. paired' = [t \in DOMAIN paired \cup Catalog |-> Names[t[1]][t[2]]]
      /\ UNCHANGED <<now, venue, wire, sock, rest, proven, seeded, cache, midTs, child, byNames,
                     lossy, moves>>
  BY DEF Pair, venueVars, knownVars
<1>3. PairedTrue'
  BY <1>1, <1>2 DEF PairedTrue, OddsInv
<1> QED
  BY <1>2, <1>3 DEF OddsInv, VenueTyped, WireTyped, WireTrue, LastWord, CacheTyped, CacheTrue, OpenAt,
     Announced, KnownTyped

LEMMA AsideKeeps ==
  ASSUME OddsInv,
         UNCHANGED <<venue, cache, midTs, child, byNames, paired, moves>>,
         proven' \in BOOLEAN, now' \in 0 .. LastTime, rest' \subseteq [Matchups -> Records],
         \/ UNCHANGED <<wire, sock, lossy>>
         \/ wire' = <<>> /\ sock' = FALSE /\ lossy' = TRUE
         \/ UNCHANGED <<wire, lossy>> /\ sock' = TRUE
  PROVE  OddsInv'
<1>1. VenueTyped /\ WireTyped /\ WireTrue /\ CacheTyped /\ CacheTrue /\ KnownTyped /\ PairedTrue
  BY DEF OddsInv
<1>2. VenueTyped' /\ CacheTyped' /\ PairedTrue'
  BY <1>1 DEF VenueTyped, CacheTyped, PairedTrue
<1>3. KnownTyped'
  BY <1>1 DEF KnownTyped
<1>4. WireTyped' /\ WireTrue' /\ CacheTrue'
  <2>1. CASE wire' = wire /\ lossy' = lossy
    <3>1. WireTyped'
      BY <1>1, <2>1 DEF WireTyped
    <3>2. WireTrue' /\ CacheTrue'
      BY <1>1, <2>1 DEF WireTrue, LastWord, CacheTrue, OpenAt, Announced
    <3> QED
      BY <3>1, <3>2
  <2>2. CASE wire' = <<>> /\ sock' = FALSE /\ lossy' = TRUE
    <3>1. wire' \in Seq(Pushed) /\ Len(wire') = 0
      BY <2>2, EmptySeq
    <3>2. WireTyped' /\ CacheTrue'
      BY <2>2, <3>1 DEF WireTyped, CacheTrue
    <3>3. WireTrue'
      BY <3>1 DEF WireTrue
    <3> QED
      BY <3>2, <3>3
  <2> QED
    BY <2>1, <2>2
<1> QED
  BY <1>2, <1>3, <1>4 DEF OddsInv

-----------------------------------------------------------------------------
(* The whole *)

LEMMA OddsInit == Init => OddsInv
<1> SUFFICES ASSUME Init PROVE OddsInv
  OBVIOUS
<1>1. 0 \in 0 .. LastTime /\ 0 \in 0 .. MaxMoves
  BY OddsConstants
<1>2. VenueTyped
  BY <1>1 DEF Init, VenueTyped, Records
<1>3. WireTyped /\ WireTrue
  BY EmptySeq DEF Init, WireTyped, WireTrue
<1>4. CacheTyped /\ CacheTrue
  BY DEF Init, CacheTyped, CacheTrue, OpenAt
<1>5. KnownTyped
  BY <1>1 DEF Init, KnownTyped
<1>6. PairedTrue
  BY DEF Init, PairedTrue
<1> QED
  BY <1>2, <1>3, <1>4, <1>5, <1>6 DEF OddsInv

LEMMA OddsNext == OddsInv /\ [Next]_vars => OddsInv'
<1> SUFFICES ASSUME OddsInv, [Next]_vars PROVE OddsInv'
  OBVIOUS
<1>1. /\ now \in 0 .. LastTime /\ rest \subseteq [Matchups -> Records] /\ proven \in BOOLEAN
      /\ venue \in [Matchups -> Records]
  BY DEF OddsInv, KnownTyped, VenueTyped
<1> USE DEF venueVars, knownVars
<1>2. CASE Seed \/ Reseed \/ Refetch
  <2>1. rest' \in {rest, {venue}}
    BY <1>2 DEF Seed, Reseed, Refetch, Ask
  <2>2. rest' \subseteq [Matchups -> Records]
    BY <1>1, <2>1
  <2>3. UNCHANGED <<now, proven, wire, sock, lossy, venue, cache, midTs, child, byNames, paired, moves>>
    BY <1>2 DEF Seed, Reseed, Refetch
  <2> QED
    BY <1>1, <2>2, <2>3, AsideKeeps
<1>3. CASE Drop \/ Reconnect
  BY <1>1, <1>3, AsideKeeps DEF Drop, Reconnect
<1>4. CASE Session
  <2>1. proven' \in BOOLEAN
    BY <1>4 DEF Session
  <2> QED
    BY <1>1, <1>4, <2>1, AsideKeeps DEF Session
<1>5. CASE Clock
  <2>1. now' \in 0 .. LastTime
    BY <1>1, <1>5, OddsConstants DEF Clock
  <2> QED
    BY <1>1, <1>5, <2>1, AsideKeeps DEF Clock
<1>6. CASE UNCHANGED vars
  BY <1>1, <1>6, AsideKeeps DEF vars
<1>7. CASE \E m \in Matchups : Moves(m) \/ Pulls(m) \/ Scores(m) \/ GoesLive(m) \/ Removed(m)
  BY <1>7, VenueKeeps
<1> QED
  BY <1>2, <1>3, <1>4, <1>5, <1>6, <1>7, DeliverKeeps, SnapshotKeeps, PairKeeps, Zenon DEF Next

\* The token a quote is read from has an entry, and is a side of the same player.
LEMMA SourceIs ==
  ASSUME OddsInv, NEW t \in Tokens, NEW u \in Source(t)
  PROVE  u \in Tokens /\ cache[u] # None /\ (t \in DOMAIN paired => Names[u[1]][u[2]] = paired[t])
<1>1. CASE u \in Redirect(t) /\ cache[u] # None
  <2> DEFINE m == IF child[t[1]] # t[1] THEN child[t[1]] ELSE byNames
  <2>1. t[1] \in Matchups
    BY DEF Tokens
  <2>2. m = Never \/ m \in Matchups
    BY <2>1 DEF OddsInv, KnownTyped
  <2>3. m # Never /\ u \in {<<m, s>> : s \in {s \in Sides : Names[m][s] = paired[t]}}
    BY <1>1, Zenon DEF Redirect
  <2> HIDE DEF m
  <2>4. PICK s \in Sides : u = <<m, s>> /\ Names[m][s] = paired[t]
    BY <2>3
  <2> QED
    BY <1>1, <2>2, <2>3, <2>4 DEF Tokens
<1>2. CASE u = t /\ cache[t] # None
  BY <1>2 DEF OddsInv, PairedTrue
<1> QED
  BY <1>1, <1>2, Zenon DEF Source, Known

LEMMA OddsTyped == OddsInv => TypeOK
<1> SUFFICES ASSUME OddsInv PROVE TypeOK
  OBVIOUS
<1>1. FeedLive \in BOOLEAN
  BY DEF FeedLive, OddsInv, KnownTyped
<1> QED
  BY <1>1 DEF TypeOK, OddsInv, VenueTyped, WireTyped, CacheTyped, KnownTyped, PairedTrue

\* What Pinnacle's cache serves under a token is that side's price, and an open price stands
\* at the venue as long as no push is lost and no snapshot crosses one (_apply, _read_cache).
THEOREM OddsHeld == Spec => []OddsSound
<1>1. OddsInv => OddsSound
  <2> SUFFICES ASSUME OddsInv PROVE OddsSound
    OBVIOUS
  <2>1. SideKept
    <3> SUFFICES ASSUME NEW t \in DOMAIN paired, NEW s \in Served(t)
                 PROVE  Names[s.of[1]][s.of[2]] = paired[t]
      BY DEF SideKept
    <3>1. t \in Tokens
      BY DEF OddsInv, PairedTrue
    <3>2. PICK u \in Source(t) : s.of = u
      BY DEF Served
    <3> QED
      BY <3>1, <3>2, SourceIs
  <2>2. QuietStands
    <3> SUFFICES ASSUME ~lossy, NEW t \in Tokens, NEW s \in Served(t), s.open PROVE Stands(s)
      BY DEF QuietStands
    <3>1. PICK u \in Source(t) : s.of = u /\ s.px = cache[u].px /\ cache[u].st = "open"
      <4>1. PICK u \in Source(t) : \E fresh, ts :
              /\ s = [of |-> u, px |-> cache[u].px, open |-> fresh, ts |-> ts]
              /\ fresh => cache[u].st = "open"
        BY DEF Served
      <4>2. s.of = u /\ s.px = cache[u].px /\ (s.open => cache[u].st = "open")
        BY <4>1
      <4> QED
        BY <4>1, <4>2
    <3>2. u \in Tokens /\ OpenAt(u) /\ lossy = FALSE
      BY <3>1, SourceIs DEF OpenAt, OddsInv, KnownTyped
    <3>3. (venue[u[1]].px = cache[u].px /\ u[2] \in venue[u[1]].open) \/ Announced(u[1])
      BY <3>2 DEF OddsInv, CacheTrue
    <3> QED
      BY <3>1, <3>3 DEF Stands, Announced, Speaks
  <2> QED
    BY <2>1, <2>2, OddsTyped DEF OddsSound
<1> QED
  BY <1>1, OddsInit, OddsNext, PTL DEF Spec

\* A token seen in-play stays so until its matchup is deleted (_apply, _apply_straight_markets).
THEOREM LiveTagStays == Spec => LiveTagKept
<1>1. OddsInv /\ [Next]_vars =>
        [\A t \in Tokens : cache[t] # None /\ cache'[t] # None /\ cache[t].live => cache'[t].live]_vars
  <2> SUFFICES ASSUME OddsInv, [Next]_vars, NEW t \in Tokens,
                      cache[t] # None, cache'[t] # None, cache[t].live
               PROVE  cache'[t].live
    OBVIOUS
  <2>0. cache[t].live = TRUE /\ CacheTyped /\ now \in 0 .. LastTime
    BY DEF OddsInv, CacheTyped, KnownTyped, Entries
  <2>1. CASE Deliver
    <3>1. wire # <<>> /\ wire \in Seq(Pushed) /\ cache' = Apply(cache, Head(wire))
      BY <2>1, Zenon DEF OddsInv, WireTyped, Deliver
    <3>2. Head(wire) \in Pushed
      BY <3>1, HeadTailProperties
    <3> QED
      BY <2>0, <3>1, <3>2, ApplyToken
  <2>2. CASE Snapshot
    <3>1. PICK snap \in rest : cache' = ApplyStraight(cache, snap) \/ cache' = cache
      BY <2>2 DEF Snapshot
    <3>2. snap \in [Matchups -> Records]
      BY DEF OddsInv, KnownTyped
    <3> QED
      BY <2>0, <3>1, <3>2, SnapToken
  <2>3. CASE cache' = cache
    BY <2>3
  <2> QED
    BY <2>1, <2>2, <2>3, Zenon DEF Next, vars, knownVars, Seed, Reseed, Refetch, Pair, Moves, Pulls,
       Scores, GoesLive, Removed, Change, Drop, Reconnect, Session, Clock
<1> QED
  BY <1>1, OddsInit, OddsNext, PTL DEF Spec, LiveTagKept
=============================================================================
