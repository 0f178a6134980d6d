------------------------------ MODULE PagesProofs ------------------------------
(* What the parts that keep the venues' pages in shape preserve, for any leagues, *)
(* sports, tabs, boards, games and bounds.  The parts share no state: each has an *)
(* inductive invariant of its own, and every step of the whole is a step of one   *)
(* part or leaves it alone.                                                       *)
EXTENDS Pages, SequenceTheorems, TLAPS

-----------------------------------------------------------------------------
(* BoardTabs *)

USE DEF tabVars

TabsTyped ==
  /\ tabs \in [Leagues -> {"none", "on", "away", "gone"}]
  /\ alive \in [Leagues -> 0 .. KeepAlive] /\ since \in [Leagues -> -1 .. Reclaim]
  /\ \A l \in Leagues : alive[l] > 0 => tabs[l] # "none"
  /\ world \in [Leagues -> Statuses] /\ asked \in Leagues \cup {NoLeague} /\ upsets \in 0 .. Upsets
FlagsTyped == held \in BOOLEAN /\ on \in BOOLEAN /\ dropping \in BOOLEAN
Movers == {"tick", "verify"}
MoverTyped(r) ==
  /\ r = [pc |-> r.pc, l |-> r.l, cut |-> r.cut, mine |-> r.mine, waited |-> r.waited]
  /\ r.pc \in {"idle", "open", "nav", "wait"} /\ r.waited \in 0 .. Timeout
  /\ r.cut \in BOOLEAN /\ r.mine \in BOOLEAN
  /\ r.mine = TRUE => r.pc \in {"nav", "wait"}
RoveTyped ==
  /\ age \in 0 .. Dwell /\ rove = [page |-> rove.page, at |-> rove.at, lid |-> rove.lid]
  /\ DOMAIN hand = Movers /\ \A h \in Movers : MoverTyped(hand[h])
\* Of two navigations of the same tab one is cut; while a verification waits the loop
\* begins none, as the dwell of the tab is no older than the wait.
HandsApart ==
  /\ rove.page = "none" => hand["tick"].mine = FALSE /\ hand["verify"].mine = FALSE
  /\ hand["tick"].pc # "wait"
  /\ hand["tick"].mine = TRUE /\ hand["verify"].mine = TRUE =>
       hand["tick"].cut = TRUE \/ (hand["verify"].pc = "nav" /\ hand["verify"].cut = TRUE)
  /\ hand["verify"].pc = "wait" /\ hand["verify"].mine = TRUE =>
       age <= hand["verify"].waited /\ (rove.page = "open" => rove.at = hand["verify"].l)
RoveInv == RoveTyped /\ HandsApart
TabsInv == TabsTyped /\ FlagsTyped /\ RoveInv

LEMMA TabsInvSound == TabsInv => TabsSound
<1> SUFFICES ASSUME TabsInv PROVE TabsSound
  OBVIOUS
<1>1. {held, on, dropping} \subseteq BOOLEAN
  BY Zenon DEF TabsInv, FlagsTyped
<1>2. TabsTypeOK
  BY <1>1 DEF TabsInv, TabsTyped, RoveInv, RoveTyped, TabsTypeOK
<1>3. hand["verify"].mine \in BOOLEAN
  BY DEF TabsInv, RoveInv, RoveTyped, MoverTyped, Movers
<1>4. BorrowedShows
  BY <1>3 DEF TabsInv, RoveInv, HandsApart, BorrowedShows
<1> QED
  BY <1>2, <1>4 DEF TabsSound

LEMMA TabsConstants ==
  /\ KeepAlive \in Nat \ {0} /\ Reclaim \in Nat \ {0} /\ Dwell \in Nat \ {0} /\ Timeout \in Nat \ {0}
  /\ Timeout < Dwell /\ Verified \subseteq Leagues /\ Upsets \in Nat
<1>1. \A n \in {MaxTabs, Grace, KeepAlive, Reclaim, Dwell, Timeout} : n \in Nat \ {0}
  BY TabsAssumption, Zenon
<1> QED
  BY <1>1, TabsAssumption, Zenon

LEMMA FreeTyped == MoverTyped(Free) /\ Free.pc = "idle" /\ Free.mine = FALSE
BY TabsConstants DEF MoverTyped, Free

LEMMA TabsInits == TabsInit => TabsInv
<1> SUFFICES ASSUME TabsInit PROVE TabsInv
  OBVIOUS
<1> USE TabsConstants
<1>1. TabsTyped
  BY DEF TabsInit, TabsTyped
<1>2. FlagsTyped
  BY Zenon DEF TabsInit, FlagsTyped
<1>3. RoveInv
  <2>1. age = 0 /\ rove = NoRove /\ DOMAIN hand = Movers /\ \A h \in Movers : hand[h] = Free
    BY DEF TabsInit, Movers
  <2> QED
    BY <2>1, FreeTyped DEF RoveInv, RoveTyped, HandsApart, NoRove, Movers
<1> QED
  BY <1>1, <1>2, <1>3 DEF TabsInv

\* Hands that are forgotten, one that begins to move, one that is through.
LEMMA ForgottenTyped ==
  ASSUME NEW hs, DOMAIN hs = Movers, \A h \in Movers : MoverTyped(hs[h])
  PROVE  /\ DOMAIN Forgotten(hs) = Movers
         /\ \A h \in Movers : /\ MoverTyped(Forgotten(hs)[h]) /\ Forgotten(hs)[h].mine = FALSE
                              /\ Forgotten(hs)[h].pc = hs[h].pc /\ Forgotten(hs)[h].l = hs[h].l
                              /\ Forgotten(hs)[h].waited = hs[h].waited
<1>1. DOMAIN Forgotten(hs) = Movers
  BY DEF Forgotten
<1>2. ASSUME NEW h \in Movers
      PROVE  Forgotten(hs)[h] = [pc |-> hs[h].pc, l |-> hs[h].l, cut |-> hs[h].cut, mine |-> FALSE, waited |-> hs[h].waited]
  <2>1. MoverTyped(hs[h]) /\ Forgotten(hs)[h] = [hs[h] EXCEPT !.mine = FALSE]
    BY DEF Forgotten
  <2> QED
    BY <2>1 DEF MoverTyped
<1>3. ASSUME NEW h \in Movers
      PROVE  /\ MoverTyped(Forgotten(hs)[h]) /\ Forgotten(hs)[h].mine = FALSE
             /\ Forgotten(hs)[h].pc = hs[h].pc /\ Forgotten(hs)[h].l = hs[h].l
             /\ Forgotten(hs)[h].waited = hs[h].waited
  <2>1. MoverTyped(hs[h])
    OBVIOUS
  <2> DEFINE f == Forgotten(hs)[h]
  <2>0. f = [pc |-> hs[h].pc, l |-> hs[h].l, cut |-> hs[h].cut, mine |-> FALSE, waited |-> hs[h].waited]
    BY <1>2
  <2> HIDE DEF f
  <2>2. /\ f.pc = hs[h].pc /\ f.l = hs[h].l /\ f.waited = hs[h].waited /\ f.cut = hs[h].cut /\ f.mine = FALSE
        /\ f = [pc |-> f.pc, l |-> f.l, cut |-> f.cut, mine |-> f.mine, waited |-> f.waited]
    BY <2>0
  <2>3. MoverTyped(f)
    BY <2>1, <2>2 DEF MoverTyped
  <2> QED
    BY <2>2, <2>3 DEF f
<1> QED
  BY <1>1, <1>3

\* The same, hand by hand.
LEMMA ForgottenHands ==
  ASSUME NEW hs, DOMAIN hs = Movers, \A h \in Movers : MoverTyped(hs[h]), hand' = Forgotten(hs)
  PROVE  /\ DOMAIN hand' = Movers /\ MoverTyped(hand'["tick"]) /\ MoverTyped(hand'["verify"])
         /\ hand'["tick"].mine = FALSE /\ hand'["verify"].mine = FALSE
         /\ hand'["tick"].pc = hs["tick"].pc /\ hand'["verify"].pc = hs["verify"].pc
         /\ hand'["verify"].l = hs["verify"].l /\ hand'["verify"].waited = hs["verify"].waited
<1>1. "tick" \in Movers /\ "verify" \in Movers
  BY DEF Movers
<1> QED
  BY <1>1, ForgottenTyped
LEMMA RoveForgotten ==
  ASSUME RoveInv, age' \in 0 .. Dwell, rove' = [page |-> rove'.page, at |-> rove'.at, lid |-> rove'.lid],
         NEW hs, DOMAIN hs = Movers, \A h \in Movers : MoverTyped(hs[h]), hs["tick"].pc # "wait",
         hand' = Forgotten(hs)
  PROVE  RoveInv'
<1>1. /\ DOMAIN hand' = Movers /\ MoverTyped(hand'["tick"]) /\ MoverTyped(hand'["verify"])
      /\ hand'["tick"].mine = FALSE /\ hand'["verify"].mine = FALSE /\ hand'["tick"].pc # "wait"
  BY ForgottenHands
<1>2. RoveTyped'
  BY <1>1 DEF RoveTyped, Movers
<1>3. HandsApart'
  BY <1>1 DEF HandsApart
<1> QED
  BY <1>2, <1>3 DEF RoveInv

\* The roving tab after a hand's page is there or not.
LEMMA RovedTyped ==
  ASSUME RoveTyped, NEW h, NEW ok, Roved(h, ok)
  PROVE  age' \in 0 .. Dwell /\ rove' = [page |-> rove'.page, at |-> rove'.at, lid |-> rove'.lid]
<1> USE TabsConstants
<1>1. age' \in 0 .. Dwell
  BY DEF Roved, RoveTyped
<1> DEFINE a == IF hand[h].mine THEN hand[h].l ELSE rove.at
<1>2. \/ rove' = [page |-> "open", at |-> hand[h].l, lid |-> hand[h].l]
      \/ rove' = [rove EXCEPT !.at = a, !.lid = hand[h].l]
      \/ rove' = NoRove \/ rove' = rove
  BY DEF Roved
<1> HIDE DEF a
<1>3. CASE rove' = [rove EXCEPT !.at = a, !.lid = hand[h].l]
  <2>1. rove' = [page |-> rove.page, at |-> a, lid |-> hand[h].l]
    BY <1>3 DEF RoveTyped
  <2> QED
    BY <1>1, <2>1
<1>4. CASE rove' = [page |-> "open", at |-> hand[h].l, lid |-> hand[h].l]
  BY <1>1, <1>4
<1>5. CASE rove' = NoRove
  BY <1>1, <1>5 DEF NoRove
<1>6. CASE rove' = rove
  <2>1. rove = [page |-> rove.page, at |-> rove.at, lid |-> rove.lid]
    BY DEF RoveTyped
  <2> QED
    BY <1>1, <1>6, <2>1
<1> QED
  BY <1>2, <1>3, <1>4, <1>5, <1>6

LEMMA MovesTyped ==
  ASSUME RoveTyped, NEW h \in Movers, NEW l, Moves(h, l)
  PROVE  /\ DOMAIN hand' = Movers /\ MoverTyped(hand'[h]) /\ MoverTyped(hand'[Other(h)])
         /\ hand'[h].pc \in {"open", "nav"} /\ (hand'[h].mine = TRUE <=> rove.page # "none")
         /\ hand'[h].cut = FALSE
         /\ hand'[Other(h)].pc = hand[Other(h)].pc /\ hand'[Other(h)].mine = hand[Other(h)].mine
         /\ hand'[Other(h)].l = hand[Other(h)].l /\ hand'[Other(h)].waited = hand[Other(h)].waited
         /\ hand[Other(h)].pc = "nav" /\ hand[Other(h)].mine = TRUE => hand'[Other(h)].cut = TRUE
<1> USE TabsConstants
<1> DEFINE o == Other(h)
           cut == hand[o].cut \/ (hand[o].pc = "nav" /\ hand[o].mine)
<1>1. o \in Movers /\ o # h /\ DOMAIN hand = Movers /\ MoverTyped(hand[h]) /\ MoverTyped(hand[o])
  BY DEF RoveTyped, Movers, Other
<1>2. hand'[h] = [pc |-> IF rove.page = "none" THEN "open" ELSE "nav", l |-> l, cut |-> FALSE,
                  mine |-> rove.page # "none", waited |-> 0]
  BY <1>1 DEF Moves, Free
<1>3. hand'[o] = [pc |-> hand[o].pc, l |-> hand[o].l, cut |-> cut, mine |-> hand[o].mine, waited |-> hand[o].waited]
  BY <1>1 DEF Moves, MoverTyped
<1>4. DOMAIN hand' = Movers
  BY <1>1 DEF Moves
<1>5. /\ MoverTyped(hand'[h]) /\ hand'[h].pc \in {"open", "nav"} /\ hand'[h].cut = FALSE
      /\ (hand'[h].mine = TRUE <=> rove.page # "none")
  <2>1. CASE rove.page = "none"
    <3>1. hand'[h] = [pc |-> "open", l |-> l, cut |-> FALSE, mine |-> FALSE, waited |-> 0]
      BY <1>2, <2>1
    <3> QED
      BY <2>1, <3>1 DEF MoverTyped
  <2>2. CASE rove.page # "none"
    <3>1. hand'[h] = [pc |-> "nav", l |-> l, cut |-> FALSE, mine |-> TRUE, waited |-> 0]
      BY <1>2, <2>2
    <3> QED
      BY <2>2, <3>1 DEF MoverTyped
  <2> QED
    BY <2>1, <2>2
<1>6. MoverTyped(hand'[o]) /\ (hand[o].pc = "nav" /\ hand[o].mine = TRUE => hand'[o].cut = TRUE)
  <2>1. cut \in BOOLEAN /\ (hand[o].pc = "nav" /\ hand[o].mine = TRUE => cut = TRUE)
    BY Zenon
  <2> HIDE DEF cut
  <2> QED
    BY <1>1, <1>3, <2>1 DEF MoverTyped
<1>7. /\ hand'[o].pc = hand[o].pc /\ hand'[o].mine = hand[o].mine /\ hand'[o].l = hand[o].l
      /\ hand'[o].waited = hand[o].waited
  BY <1>3
<1> QED
  BY <1>4, <1>5, <1>6, <1>7

\* A step of the loop on its way: what it has noted, closed, reloaded or moved.
Noted(i) ==
  LET walked == IF tick.pc = "reclaim" THEN tick.walk ELSE Tabbed
  IN [l \in Leagues |-> IF From > 2 \/ i < 2 \/ l \notin walked THEN since[l]
        ELSE IF world[l] # "boarded" THEN -1 ELSE IF since[l] < 0 THEN 0 ELSE since[l]]
Proceeded(due, i) ==
  \/ since' = Noted(i) /\ UNCHANGED <<tabs, alive, hand>>
  \/ \E p \in Closing : \E l \in Todo(p, due) :
       /\ tabs' = [tabs EXCEPT ![l] = "none"] /\ alive' = [alive EXCEPT ![l] = 0]
       /\ since' = [Noted(i) EXCEPT ![l] = -1] /\ UNCHANGED hand
  \/ /\ since' = Noted(i) /\ UNCHANGED tabs
     /\ alive' = alive \/ \E l : alive' = [alive EXCEPT ![l] = 0]
     /\ UNCHANGED hand \/ \E l \in Todo("rove", due) : Moves("tick", l)
LEMMA ProceedOne == ASSUME Proceed PROVE \E due \in BOOLEAN : \E i : Proceeded(due, i)
<1> DEFINE left(due) == {i \in From .. Len(Phases) : Todo(Phases[i], due) # {}}
           at(due) == IF left(due) = {} THEN Len(Phases) + 1 ELSE CHOOSE j \in left(due) : \A k \in left(due) : j <= k
<1>1. PICK due \in BOOLEAN :
        LET i == at(due)
        IN IF left(due) = {} THEN Ends /\ since' = Noted(i) /\ UNCHANGED <<tabs, alive, hand>>
           ELSE LET p == Phases[i] IN \E l \in Todo(p, due) :
             IF p \in Closing
             THEN /\ IF tabs[l] = "none" THEN Ends
                     ELSE Awaits(p, l, IF p \in {tick.pc, "reset"} THEN Todo(p, due) \ {l} ELSE Tabbed \ {l})
                  /\ tabs' = [tabs EXCEPT ![l] = "none"] /\ alive' = [alive EXCEPT ![l] = 0]
                  /\ since' = [Noted(i) EXCEPT ![l] = -1]
                  /\ UNCHANGED hand
             ELSE /\ Awaits(p, l, {}) /\ since' = Noted(i) /\ UNCHANGED tabs
                  /\ alive' = IF p \in {"station", "alive"} THEN [alive EXCEPT ![l] = 0] ELSE alive
                  /\ IF p = "rove" THEN Moves("tick", l) ELSE UNCHANGED hand
  BY DEF Proceed, Noted
<1> HIDE DEF left, at
<1> QED
  BY <1>1 DEF Proceeded

LEMMA RoveUnmoved ==
  ASSUME RoveInv, UNCHANGED <<rove, age, hand>>
  PROVE  RoveInv'
BY DEF RoveInv, RoveTyped, HandsApart, MoverTyped

LEMMA TabsSteps == TabsInv /\ [TabsNext]_tabVars => TabsInv'
<1> SUFFICES ASSUME TabsInv, [TabsNext]_tabVars PROVE TabsInv'
  OBVIOUS
<1> USE TabsConstants
<1>0. TabsTyped /\ FlagsTyped /\ RoveInv
  BY DEF TabsInv
<1>1. CASE TickStarts
  <2>1. TabsTyped'
    BY <1>0, <1>1 DEF TabsTyped, TickStarts, Awaits
  <2>2. FlagsTyped'
    BY <1>0, <1>1, Zenon DEF FlagsTyped, TickStarts, Awaits
  <2>3. RoveInv'
    <3>1. UNCHANGED <<rove, age, hand>>
      BY <1>1 DEF TickStarts, Awaits
    <3> QED
      BY <1>0, <3>1, RoveUnmoved
  <2> QED
    BY <2>1, <2>2, <2>3 DEF TabsInv
<1>2. CASE Scanned
  <2>1. TabsTyped'
    BY <1>0, <1>2 DEF TabsTyped, Scanned
  <2>2. FlagsTyped'
    BY <1>0, <1>2, Zenon DEF FlagsTyped, Scanned
  <2>3. RoveInv'
    <3>1. CASE rove.page = "gone"
      <4>1. rove' = NoRove /\ hand' = Forgotten(hand) /\ UNCHANGED age
        BY <1>2, <3>1 DEF Scanned, Forgotten
      <4>2. DOMAIN hand = Movers /\ (\A h \in Movers : MoverTyped(hand[h])) /\ hand["tick"].pc # "wait"
            /\ age' \in 0 .. Dwell /\ rove' = [page |-> rove'.page, at |-> rove'.at, lid |-> rove'.lid]
        BY <1>0, <4>1 DEF RoveInv, RoveTyped, HandsApart, NoRove
      <4> QED
        BY <1>0, <4>1, <4>2, RoveForgotten
    <3>2. CASE rove.page # "gone"
      <4>1. UNCHANGED <<rove, hand, age>>
        BY <1>2, <3>2 DEF Scanned
      <4> QED
        BY <1>0, <4>1, RoveUnmoved
    <3> QED
      BY <3>1, <3>2
  <2> QED
    BY <2>1, <2>2, <2>3 DEF TabsInv
<1>3. CASE Proceed
  <2>a. PICK due \in BOOLEAN : \E i : Proceeded(due, i)
    BY <1>3, ProceedOne
  <2>0. PICK i : Proceeded(due, i)
    BY <2>a
  <2>1. TabsTyped'
    <3>1. UNCHANGED <<world, asked, upsets>>
      BY <1>3 DEF Proceed
    <3>2. \A l \in Leagues : since[l] \in -1 .. Reclaim
      BY <1>0 DEF TabsTyped
    <3>3. Noted(i) \in [Leagues -> -1 .. Reclaim]
      <4> DEFINE c(l) == From > 2 \/ i < 2 \/ l \notin (IF tick.pc = "reclaim" THEN tick.walk ELSE Tabbed)
      <4> HIDE DEF c
      <4>1. Noted(i) = [l \in Leagues |-> IF c(l) THEN since[l]
                          ELSE IF world[l] # "boarded" THEN -1 ELSE IF since[l] < 0 THEN 0 ELSE since[l]]
        BY DEF c, Noted
      <4> QED
        BY <3>2, <4>1
    <3>4. \/ since' = Noted(i) /\ UNCHANGED <<tabs, alive>>
          \/ \E l : /\ tabs' = [tabs EXCEPT ![l] = "none"] /\ alive' = [alive EXCEPT ![l] = 0]
                    /\ since' = [Noted(i) EXCEPT ![l] = -1]
          \/ since' = Noted(i) /\ UNCHANGED tabs /\ \E l : alive' = [alive EXCEPT ![l] = 0]
      BY <2>0 DEF Proceeded
    <3> QED
      BY <1>0, <3>1, <3>3, <3>4 DEF TabsTyped
  <2>2. FlagsTyped'
    BY <1>0, <1>3, Zenon DEF FlagsTyped, Proceed
  <2>3. RoveInv'
    <3>1. UNCHANGED <<rove, age>>
      BY <1>3 DEF Proceed
    <3>2. \/ UNCHANGED hand
          \/ \E l \in Todo("rove", due) : Moves("tick", l)
      BY <2>0 DEF Proceeded
    <3>3. CASE UNCHANGED hand
      BY <1>0, <3>1, <3>3, RoveUnmoved
    <3>4. ASSUME NEW l \in Todo("rove", due), Moves("tick", l) PROVE RoveInv'
      <4>1. rove.page = "none" \/ ~(age < Dwell)
        BY <3>4 DEF Todo
      <4>2. RoveTyped /\ HandsApart /\ "tick" \in Movers /\ Other("tick") = "verify"
        BY <1>0 DEF RoveInv, Movers, Other
      <4>3. /\ DOMAIN hand' = Movers /\ MoverTyped(hand'["tick"]) /\ MoverTyped(hand'["verify"])
            /\ hand'["tick"].pc \in {"open", "nav"} /\ (hand'["tick"].mine = TRUE <=> rove.page # "none")
            /\ hand'["verify"].pc = hand["verify"].pc /\ hand'["verify"].mine = hand["verify"].mine
            /\ hand'["verify"].l = hand["verify"].l /\ hand'["verify"].waited = hand["verify"].waited
            /\ (hand["verify"].pc = "nav" /\ hand["verify"].mine = TRUE => hand'["verify"].cut = TRUE)
        BY ONLY <3>4, <4>2, MovesTyped, Zenon
      <4>4. RoveTyped'
        BY <3>1, <4>2, <4>3 DEF RoveTyped, Movers
      <4>5. hand["verify"].mine = TRUE => hand["verify"].pc \in {"nav", "wait"}
        BY <4>2 DEF RoveTyped, Movers, MoverTyped
      <4>6. hand["verify"].waited \in 0 .. Timeout /\ age \in 0 .. Dwell
        BY <4>2 DEF RoveTyped, Movers, MoverTyped
      <4>7. hand'["tick"].mine \in BOOLEAN
        BY <4>3 DEF MoverTyped
      <4>8. HandsApart'
        BY <3>1, <4>1, <4>2, <4>3, <4>5, <4>6, <4>7 DEF HandsApart
      <4> QED
        BY <4>4, <4>8 DEF RoveInv
    <3> QED
      BY <3>2, <3>3, <3>4
  <2> QED
    BY <2>1, <2>2, <2>3 DEF TabsInv
<1>4. ASSUME NEW ok \in BOOLEAN, PageThere(ok) PROVE TabsInv'
  <2>1. TabsTyped'
    <3>1. UNCHANGED <<world, since, asked, upsets>>
      BY <1>4 DEF PageThere
    <3>2. \/ tabs' = tabs
          \/ tabs' = [tabs EXCEPT ![tick.l] = "on"]
      BY <1>4 DEF PageThere
    <3>3. \/ alive' = alive
          \/ ok /\ tick.pc = "gaps" /\ alive' = [alive EXCEPT ![tick.l] = 0]
      BY <1>4 DEF PageThere
    <3> QED
      BY <1>0, <3>1, <3>2, <3>3 DEF TabsTyped
  <2>2. FlagsTyped'
    BY <1>0, <1>4, Zenon DEF FlagsTyped, PageThere
  <2>3. RoveInv'
    <3>1. UNCHANGED <<rove, age, hand>>
      BY <1>4 DEF PageThere
    <3> QED
      BY <1>0, <3>1, RoveUnmoved
  <2> QED
    BY <2>1, <2>2, <2>3 DEF TabsInv
<1>5. ASSUME NEW ok \in BOOLEAN, RoveThere(ok) PROVE TabsInv'
  <2>1. TabsTyped'
    BY <1>0, <1>5 DEF TabsTyped, RoveThere
  <2>2. FlagsTyped'
    BY <1>0, <1>5, Zenon DEF FlagsTyped, RoveThere
  <2>3. RoveInv'
    <3> DEFINE hs == [hand EXCEPT !["tick"] = Free]
    <3>1. May("tick", ok) /\ Roved("tick", ok) /\ hand' = Left("tick", ok, hs)
      BY <1>5 DEF RoveThere
    <3>2. RoveTyped /\ HandsApart /\ MoverTyped(hand["tick"]) /\ MoverTyped(hand["verify"])
      BY <1>0 DEF RoveInv, RoveTyped, Movers
    <3>3. /\ DOMAIN hs = Movers /\ hs["tick"] = Free /\ hs["verify"] = hand["verify"]
          /\ \A h \in Movers : MoverTyped(hs[h])
      BY <3>2, FreeTyped DEF RoveTyped, Movers
    <3> HIDE DEF hs
    <3>4. CASE (hand["tick"].pc = "open") = ok
      <4>1. hand' = Forgotten(hs)
        BY <3>1, <3>4 DEF Left
      <4>2. /\ DOMAIN hand' = Movers
            /\ \A h \in Movers : MoverTyped(hand'[h]) /\ hand'[h].mine = FALSE /\ hand'[h].pc = hs[h].pc
        BY <3>3, <4>1, ForgottenTyped
      <4>3. age' \in 0 .. Dwell /\ rove' = [page |-> rove'.page, at |-> rove'.at, lid |-> rove'.lid]
        BY <3>1, <3>2, RovedTyped
      <4> QED
        BY <3>3, <4>2, <4>3, FreeTyped DEF RoveInv, RoveTyped, HandsApart, Movers
    <3>5. CASE (hand["tick"].pc = "open") # ok
      <4>1. hand' = hs
        BY <3>1, <3>5 DEF Left
      <4>2. CASE ok = TRUE
        <5>1. hand["tick"].pc # "open" /\ hand["tick"].cut # TRUE
          BY <3>1, <3>2, <3>5, <4>2 DEF May, MoverTyped
        <5>2. /\ rove' = [rove EXCEPT !.at = IF hand["tick"].mine THEN hand["tick"].l ELSE @, !.lid = hand["tick"].l]
              /\ age' = 0
          BY <3>1, <4>2, <5>1 DEF Roved
        <5>3. /\ rove' = [page |-> rove'.page, at |-> rove'.at, lid |-> rove'.lid] /\ rove'.page = rove.page
              /\ hand["tick"].mine # TRUE => rove'.at = rove.at
          BY <3>2, <5>2 DEF RoveTyped, MoverTyped
        <5>4. hand["verify"].pc = "wait" /\ hand["verify"].mine = TRUE => hand["tick"].mine # TRUE
          BY <3>2, <5>1 DEF HandsApart
        <5>5. RoveTyped'
          BY <3>3, <4>1, <5>2, <5>3 DEF RoveTyped
        <5>6. HandsApart'
          <6>1. hand'["tick"].mine = FALSE /\ hand'["tick"].pc = "idle" /\ hand'["verify"] = hand["verify"]
            BY <3>3, <4>1, FreeTyped
          <6>2. hand["verify"].waited \in Nat
            BY <3>2 DEF MoverTyped
          <6>3. HandsApart
            BY <3>2
          <6>4. rove'.page = "none" => hand["verify"].mine = FALSE
            BY <5>3, <6>3 DEF HandsApart
          <6>5. hand["verify"].pc = "wait" /\ hand["verify"].mine = TRUE =>
                  age' <= hand["verify"].waited /\ (rove'.page = "open" => rove'.at = hand["verify"].l)
            <7> SUFFICES ASSUME hand["verify"].pc = "wait", hand["verify"].mine = TRUE
                         PROVE  age' <= hand["verify"].waited /\ (rove'.page = "open" => rove'.at = hand["verify"].l)
              OBVIOUS
            <7>1. hand["tick"].mine # TRUE
              BY <5>4
            <7>2. rove'.at = rove.at /\ rove'.page = rove.page
              BY <5>3, <7>1
            <7>3. rove.page = "open" => rove.at = hand["verify"].l
              BY <6>3 DEF HandsApart
            <7>4. age' = 0
              BY <5>2
            <7> QED
              BY <6>2, <7>2, <7>3, <7>4
          <6> QED
            BY ONLY <6>1, <6>4, <6>5 DEF HandsApart
        <5> QED
          BY <5>5, <5>6 DEF RoveInv
      <4>3. CASE ok = FALSE
        <5>1. hand["tick"].pc = "open"
          BY <3>5, <4>3
        <5>2. rove' = rove /\ age' = age
          BY <3>1, <4>3, <5>1 DEF Roved
        <5> QED
          BY <3>2, <3>3, <4>1, <5>2, FreeTyped DEF RoveInv, RoveTyped, HandsApart
      <4> QED
        BY <4>2, <4>3
    <3> QED
      BY <3>4, <3>5
  <2> QED
    BY <2>1, <2>2, <2>3 DEF TabsInv
<1>6. CASE VerifyEnds
  <2>1. TabsTyped'
    BY <1>0, <1>6 DEF TabsTyped, VerifyEnds
  <2>2. FlagsTyped'
    BY <1>0, <1>6, Zenon DEF FlagsTyped, VerifyEnds
  <2>3. RoveInv'
    <3>1. hand' = [hand EXCEPT !["verify"] = Free] /\ UNCHANGED <<rove, age>>
      BY <1>6 DEF VerifyEnds
    <3>2. RoveTyped /\ HandsApart
      BY <1>0 DEF RoveInv
    <3>3. DOMAIN hand' = Movers /\ hand'["verify"] = Free /\ hand'["tick"] = hand["tick"]
      BY <3>1, <3>2 DEF RoveTyped, Movers
    <3> QED
      BY <3>1, <3>2, <3>3, FreeTyped DEF RoveInv, RoveTyped, HandsApart, Movers
  <2> QED
    BY <2>1, <2>2, <2>3 DEF TabsInv
<1>7. ASSUME NEW ok \in BOOLEAN, VerifyHas(ok) PROVE TabsInv'
  <2>1. TabsTyped'
    BY <1>0, <1>7 DEF TabsTyped, VerifyHas
  <2>2. FlagsTyped'
    BY <1>0, <1>7, Zenon DEF FlagsTyped, VerifyHas
  <2>3. RoveInv'
    <3> DEFINE left == Left("verify", ok, hand)
               v == hand["verify"]
               keeps == ok /\ (v.pc = "open" \/ rove.page # "none")
               w == Waiting(left["verify"])
    <3>1. /\ v.pc \in {"open", "nav"} /\ May("verify", ok) /\ Roved("verify", ok)
          /\ hand' = [left EXCEPT !["verify"] = IF keeps THEN w ELSE Free]
      BY <1>7 DEF VerifyHas
    <3> HIDE DEF w
    <3>2. RoveTyped /\ HandsApart /\ DOMAIN hand = Movers /\ MoverTyped(hand["tick"]) /\ MoverTyped(v)
      BY <1>0 DEF RoveInv, RoveTyped, Movers
    <3>3. DOMAIN Forgotten(hand) = Movers /\ MoverTyped(Forgotten(hand)["tick"]) /\ Forgotten(hand)["tick"].mine = FALSE
          /\ MoverTyped(Forgotten(hand)["verify"]) /\ Forgotten(hand)["tick"].pc = hand["tick"].pc
          /\ Forgotten(hand)["verify"].pc = v.pc
          /\ Forgotten(hand)["verify"].l = v.l /\ Forgotten(hand)["verify"].waited = v.waited
      BY <3>2, ForgottenTyped DEF Movers
    <3>4. age' \in 0 .. Dwell /\ rove' = [page |-> rove'.page, at |-> rove'.at, lid |-> rove'.lid]
      BY <3>1, <3>2, RovedTyped
    <3>5. CASE ok = TRUE /\ v.pc = "open"
      <4>1. left = Forgotten(hand) /\ keeps = TRUE
        BY <3>5 DEF Left
      <4>2. rove' = [page |-> "open", at |-> v.l, lid |-> v.l] /\ age' = 0
        BY <3>1, <3>5 DEF Roved
      <4> HIDE DEF left
      <4>3. DOMAIN hand' = Movers /\ hand'["tick"] = left["tick"]
            /\ hand'["verify"] = w
        BY <3>1, <3>3, <4>1 DEF Movers
      <4>4. hand'["verify"] = [pc |-> "wait", l |-> v.l, cut |-> left["verify"].cut, mine |-> TRUE, waited |-> v.waited]
        BY <3>3, <3>5, <4>1, <4>3 DEF MoverTyped, w, Waiting
      <4>5. MoverTyped(hand'["verify"])
        BY <3>2, <3>3, <4>1, <4>4 DEF MoverTyped
      <4>6. RoveTyped'
        BY <3>3, <3>4, <4>1, <4>3, <4>5 DEF RoveTyped, Movers
      <4>7. HandsApart'
        BY <3>2, <3>3, <4>1, <4>2, <4>3, <4>4 DEF HandsApart, MoverTyped
      <4> QED
        BY <4>6, <4>7 DEF RoveInv
    <3>6. CASE ok = TRUE /\ v.pc = "nav"
      <4>1. left = hand /\ v.cut = FALSE
        BY <3>1, <3>2, <3>6 DEF Left, May, MoverTyped
      <4>2. rove' = [rove EXCEPT !.at = IF v.mine THEN v.l ELSE @, !.lid = v.l] /\ age' = 0
        BY <3>1, <3>6 DEF Roved
      <4>3. rove'.page = rove.page /\ (v.mine = TRUE => rove'.at = v.l)
        BY <3>2, <4>2 DEF RoveTyped
      <4>4. CASE rove.page = "none"
        <5>1. DOMAIN hand' = Movers /\ hand'["tick"] = hand["tick"] /\ hand'["verify"] = Free
          BY <3>1, <3>2, <3>6, <4>1, <4>4 DEF Movers
        <5> QED
          BY <3>2, <3>4, <4>3, <4>4, <5>1, FreeTyped DEF RoveInv, RoveTyped, HandsApart, Movers
      <4>5. CASE rove.page # "none"
        <5>1. DOMAIN hand' = Movers /\ hand'["tick"] = hand["tick"]
              /\ hand'["verify"] = w
          BY <3>1, <3>2, <3>6, <4>1, <4>5 DEF Movers
        <5>2. hand'["verify"] = [pc |-> "wait", l |-> v.l, cut |-> v.cut, mine |-> v.mine, waited |-> v.waited]
          <6>1. w = [v EXCEPT !.pc = "wait", !.mine = v.mine]
            BY <3>6, <4>1 DEF w, Waiting
          <6>2. v = [pc |-> v.pc, l |-> v.l, cut |-> v.cut, mine |-> v.mine, waited |-> v.waited]
            BY <3>2 DEF MoverTyped
          <6> HIDE DEF v
          <6> QED
            BY <5>1, <6>1, <6>2
        <5>3. MoverTyped(hand'["verify"])
          BY <3>2, <5>2 DEF MoverTyped
        <5>4. RoveTyped'
          BY <3>2, <3>4, <5>1, <5>3 DEF RoveTyped, Movers
        <5>5. HandsApart'
          <6>1. hand'["verify"].mine = v.mine /\ hand'["verify"].pc = "wait" /\ hand'["verify"].l = v.l
                /\ hand'["verify"].waited = v.waited
            BY <5>2
          <6>2. v.waited \in Nat /\ v.cut = FALSE /\ v.mine \in BOOLEAN
            BY <3>2, <4>1 DEF MoverTyped
          <6> HIDE DEF v
          <6> QED
            BY <3>2, <4>2, <4>3, <4>5, <5>1, <6>1, <6>2 DEF HandsApart, v
        <5> QED
          BY <5>4, <5>5 DEF RoveInv
      <4> QED
        BY <4>4, <4>5
    <3>7. CASE ok = FALSE
      <4>1. \/ v.pc = "nav" /\ left = Forgotten(hand) /\ rove' = NoRove
            \/ v.pc = "open" /\ left = hand /\ rove' = rove
        BY <3>1, <3>7 DEF Left, Roved
      <4>2. age' = age
        BY <3>1, <3>7 DEF Roved
      <4>3. DOMAIN hand' = Movers /\ hand'["tick"] = left["tick"] /\ hand'["verify"] = Free
        BY <3>1, <3>2, <3>3, <3>7, <4>1 DEF Movers
      <4>4. MoverTyped(hand'["tick"]) /\ hand'["tick"].pc = hand["tick"].pc
        BY <3>2, <3>3, <4>1, <4>3
      <4>5. rove'.page = "none" => hand'["tick"].mine = FALSE
        BY <3>2, <3>3, <4>1, <4>3 DEF HandsApart
      <4> QED
        BY <3>2, <3>4, <4>3, <4>4, <4>5, FreeTyped DEF RoveInv, RoveTyped, HandsApart, Movers
    <3> QED
      BY <3>1, <3>5, <3>6, <3>7
  <2> QED
    BY <2>1, <2>2, <2>3 DEF TabsInv
<1>8. CASE WorldTurns
  <2>1. TabsTyped'
    BY <1>0, <1>8 DEF TabsTyped, WorldTurns
  <2>2. FlagsTyped'
    BY <1>0, <1>8, Zenon DEF FlagsTyped, WorldTurns
  <2>3. RoveInv'
    <3>1. UNCHANGED <<rove, age, hand>>
      BY <1>8 DEF WorldTurns
    <3> QED
      BY <1>0, <3>1, RoveUnmoved
  <2> QED
    BY <2>1, <2>2, <2>3 DEF TabsInv
<1>9. CASE PageFails
  <2>1. TabsTyped'
    BY <1>0, <1>9 DEF TabsTyped, PageFails, Tabbed
  <2>2. FlagsTyped'
    BY <1>0, <1>9, Zenon DEF FlagsTyped, PageFails, Tabbed
  <2>3. RoveInv'
    <3>1. UNCHANGED <<age, hand>> /\ (rove' = rove \/ rove' = [rove EXCEPT !.page = "gone"])
      BY <1>9 DEF PageFails
    <3>2. CASE rove' = rove
      BY <1>0, <3>1, <3>2, RoveUnmoved
    <3>3. CASE rove' = [rove EXCEPT !.page = "gone"]
      <4>1. rove' = [page |-> "gone", at |-> rove.at, lid |-> rove.lid]
        BY <1>0, <3>3 DEF RoveInv, RoveTyped
      <4> QED
        BY <1>0, <3>1, <4>1 DEF RoveInv, RoveTyped, HandsApart
    <3> QED
      BY <3>1, <3>2, <3>3
  <2> QED
    BY <2>1, <2>2, <2>3 DEF TabsInv
<1>10. CASE Pass
  <2>1. TabsTyped'
    BY <1>0, <1>10 DEF TabsTyped, Pass, Older
  <2>2. FlagsTyped'
    BY <1>0, <1>10, Zenon DEF FlagsTyped, Pass, Older
  <2>3. RoveInv'
    <3>1. RoveTyped /\ HandsApart /\ DOMAIN hand = Movers /\ MoverTyped(hand["tick"]) /\ MoverTyped(hand["verify"])
      BY <1>0 DEF RoveInv, RoveTyped, Movers
    <3> DEFINE v == hand["verify"]
               w == IF v.pc = "idle" THEN 0 ELSE Older(v.waited, Timeout)
    <3>2. /\ ~(v.pc = "wait" /\ v.waited = Timeout) /\ UNCHANGED rove
          /\ age' = IF rove.page = "none" THEN 0 ELSE Older(age, Dwell)
      BY <1>10 DEF Pass
    <3>3. hand' = [hand EXCEPT !["verify"].waited = w]
      BY <1>10 DEF Pass
    <3>4. w \in 0 .. Timeout /\ (v.pc = "wait" => w = v.waited + 1) /\ age' \in 0 .. Dwell /\ age' <= age + 1
      BY <3>1, <3>2 DEF Older, MoverTyped, RoveTyped
    <3> HIDE DEF w
    <3>5. DOMAIN hand' = Movers /\ hand'["tick"] = hand["tick"] /\ hand'["verify"] = [v EXCEPT !.waited = w]
      BY <3>1, <3>3 DEF Movers
    <3>6. hand'["verify"] = [pc |-> v.pc, l |-> v.l, cut |-> v.cut, mine |-> v.mine, waited |-> w]
      BY <3>1, <3>5 DEF MoverTyped
    <3>7. MoverTyped(hand'["verify"])
      BY <3>1, <3>4, <3>6 DEF MoverTyped
    <3>8. RoveTyped'
      BY <3>1, <3>2, <3>4, <3>5, <3>7 DEF RoveTyped, Movers
    <3>9. HandsApart'
      BY <3>1, <3>2, <3>4, <3>5, <3>6 DEF HandsApart, MoverTyped, RoveTyped
    <3> QED
      BY <3>8, <3>9 DEF RoveInv
  <2> QED
    BY <2>1, <2>2, <2>3 DEF TabsInv
<1>11. CASE Dropped
  <2>1. TabsTyped'
    BY <1>0, <1>11 DEF TabsTyped, Dropped
  <2>2. FlagsTyped'
    BY <1>0, <1>11, Zenon DEF FlagsTyped, Dropped
  <2>3. RoveInv'
    <3>1. rove' = NoRove /\ hand' = Forgotten(hand) /\ UNCHANGED age
      BY <1>11 DEF Dropped
    <3>2. DOMAIN hand = Movers /\ (\A h \in Movers : MoverTyped(hand[h])) /\ hand["tick"].pc # "wait"
          /\ age' \in 0 .. Dwell /\ rove' = [page |-> rove'.page, at |-> rove'.at, lid |-> rove'.lid]
      BY <1>0, <3>1 DEF RoveInv, RoveTyped, HandsApart, NoRove
    <3> QED
      BY <1>0, <3>1, <3>2, RoveForgotten
  <2> QED
    BY <2>1, <2>2, <2>3 DEF TabsInv
<1>12. CASE StartLoop
  <2>1. TabsTyped'
    BY <1>0, <1>12 DEF TabsTyped, StartLoop
  <2>2. FlagsTyped'
    BY <1>0, <1>12, Zenon DEF FlagsTyped, StartLoop
  <2>3. RoveInv'
    <3>1. UNCHANGED <<rove, age, hand>>
      BY <1>12 DEF StartLoop
    <3> QED
      BY <1>0, <3>1, RoveUnmoved
  <2> QED
    BY <2>1, <2>2, <2>3 DEF TabsInv
<1>13. ASSUME NEW l \in Verified, VerifyNow(l) PROVE TabsInv'
  <2>1. TabsTyped'
    BY <1>0, <1>13 DEF TabsTyped, VerifyNow
  <2>2. FlagsTyped'
    BY <1>0, <1>13, Zenon DEF FlagsTyped, VerifyNow
  <2>3. RoveInv'
    <3>1. UNCHANGED <<rove, age>> /\ Moves("verify", l)
      BY <1>13 DEF VerifyNow
    <3>2. RoveTyped /\ HandsApart /\ "verify" \in Movers /\ Other("verify") = "tick"
      BY <1>0 DEF RoveInv, Movers, Other
    <3>3. /\ DOMAIN hand' = Movers /\ MoverTyped(hand'["tick"]) /\ MoverTyped(hand'["verify"])
          /\ hand'["verify"].pc \in {"open", "nav"} /\ (hand'["verify"].mine = TRUE <=> rove.page # "none")
          /\ hand'["tick"].pc = hand["tick"].pc /\ hand'["tick"].mine = hand["tick"].mine
          /\ (hand["tick"].pc = "nav" /\ hand["tick"].mine = TRUE => hand'["tick"].cut = TRUE)
      BY ONLY <3>1, <3>2, MovesTyped, Zenon
    <3>4. RoveTyped'
      BY <3>1, <3>2, <3>3 DEF RoveTyped, Movers
    <3>5. hand["tick"].mine = TRUE => hand["tick"].pc = "nav"
      BY <3>2 DEF RoveTyped, Movers, MoverTyped, HandsApart
    <3>6. hand'["verify"].mine \in BOOLEAN
      BY <3>3 DEF MoverTyped
    <3>7. HandsApart'
      BY <3>1, <3>2, <3>3, <3>5, <3>6 DEF HandsApart
    <3> QED
      BY <3>4, <3>7 DEF RoveInv
  <2> QED
    BY <2>1, <2>2, <2>3 DEF TabsInv
<1>14. ASSUME NEW l \in Verified, RequestVerify(l) PROVE TabsInv'
  <2>1. TabsTyped'
    BY <1>0, <1>14 DEF TabsTyped, RequestVerify
  <2>2. FlagsTyped'
    BY <1>0, <1>14, Zenon DEF FlagsTyped, RequestVerify
  <2>3. RoveInv'
    <3>1. UNCHANGED <<rove, age, hand>>
      BY <1>14 DEF RequestVerify
    <3> QED
      BY <1>0, <3>1, RoveUnmoved
  <2> QED
    BY <2>1, <2>2, <2>3 DEF TabsInv
<1>15. ASSUME NEW b \in BOOLEAN, RequestOpened(b) PROVE TabsInv'
  <2>1. TabsTyped'
    BY <1>0, <1>15 DEF TabsTyped, RequestOpened
  <2>2. FlagsTyped'
    BY <1>0, <1>15, Zenon DEF FlagsTyped, RequestOpened
  <2>3. RoveInv'
    <3>1. UNCHANGED <<rove, age, hand>>
      BY <1>15 DEF RequestOpened
    <3> QED
      BY <1>0, <3>1, RoveUnmoved
  <2> QED
    BY <2>1, <2>2, <2>3 DEF TabsInv
<1>16. ASSUME NEW b \in BOOLEAN, Drop(b) PROVE TabsInv'
  <2>1. TabsTyped'
    BY <1>0, <1>16 DEF TabsTyped, Drop
  <2>2. FlagsTyped'
    BY <1>0, <1>16, Zenon DEF FlagsTyped, Drop
  <2>3. RoveInv'
    <3>1. UNCHANGED <<rove, age>> /\ (UNCHANGED hand \/ hand' = [hand EXCEPT !["tick"] = Free])
      BY <1>16 DEF Drop
    <3>2. CASE UNCHANGED hand
      BY <1>0, <3>1, <3>2, RoveUnmoved
    <3>3. CASE hand' = [hand EXCEPT !["tick"] = Free]
      <4>1. RoveTyped /\ HandsApart
        BY <1>0 DEF RoveInv
      <4>2. DOMAIN hand' = Movers /\ hand'["tick"] = Free /\ hand'["verify"] = hand["verify"]
        BY <3>3, <4>1 DEF RoveTyped, Movers
      <4> QED
        BY <3>1, <4>1, <4>2, FreeTyped DEF RoveInv, RoveTyped, HandsApart, Movers
    <3> QED
      BY <3>1, <3>2, <3>3
  <2> QED
    BY <2>1, <2>2, <2>3 DEF TabsInv
<1>17. CASE UNCHANGED tabVars
  <2>1. TabsTyped'
    BY <1>0, <1>17 DEF TabsTyped
  <2>2. FlagsTyped'
    BY <1>0, <1>17, Zenon DEF FlagsTyped
  <2>3. RoveInv'
    <3>1. UNCHANGED <<rove, age, hand>>
      BY <1>17
    <3> QED
      BY <1>0, <3>1, RoveUnmoved
  <2> QED
    BY <2>1, <2>2, <2>3 DEF TabsInv
<1> QED
  BY <1>1, <1>2, <1>3, <1>4, <1>5, <1>6, <1>7, <1>8, <1>9, <1>10, <1>11, <1>12, <1>13, <1>14, <1>15, <1>16, <1>17
     DEF TabsNext, Loop, Verification

\* The loop closes no young tab that is needed, step by step.
LEMMA FreshStep ==
  ASSUME TabsTyped, [TabsNext]_tabVars, NEW l \in Leagues,
         tabs[l] = "on", alive[l] < Grace, world[l] \notin {"unpaired", "boarded"},
         ~dropping, ~(tick.pc = "reset" /\ l \in tick.walk)
  PROVE  tabs'[l] # "none"
<1> USE TabsConstants
<1>0. tabs \in [Leagues -> {"none", "on", "away", "gone"}]
  BY DEF TabsTyped
<1>a. alive[l] \in Int /\ Grace \in Int
  BY TabsAssumption DEF TabsTyped
<1>1. CASE TickStarts
  BY <1>1 DEF TickStarts
<1>2. CASE Scanned
  BY <1>2 DEF Scanned
<1>3. CASE Proceed
  <2>1. \/ tabs' = tabs
        \/ \E due \in BOOLEAN, p \in Closing : \E m \in Todo(p, due) : tabs' = [tabs EXCEPT ![m] = "none"]
    BY <1>3, ProceedOne DEF Proceeded
  <2>2. ASSUME NEW due \in BOOLEAN, NEW p \in Closing PROVE l \notin Todo(p, due)
    <3>1. CASE p = "unpaired"
      BY <3>1 DEF Todo, Paired
    <3>2. CASE p = "reclaim"
      BY <3>2 DEF Todo
    <3>3. CASE p = "cold"
      BY <3>3, <1>0, <1>a DEF Todo
    <3>4. CASE p = "reset"
      BY <3>4, <1>0, <1>a DEF Todo, Outranked
    <3> QED
      BY <3>1, <3>2, <3>3, <3>4 DEF Closing
  <2> QED
    BY <1>0, <2>1, <2>2
<1>4. ASSUME NEW ok \in BOOLEAN, PageThere(ok) PROVE tabs'[l] # "none"
  BY <1>0, <1>4 DEF PageThere
<1>5. ASSUME NEW ok \in BOOLEAN, RoveThere(ok) PROVE tabs'[l] # "none"
  BY <1>5 DEF RoveThere
<1>6. CASE VerifyEnds
  BY <1>6 DEF VerifyEnds
<1>7. ASSUME NEW ok \in BOOLEAN, VerifyHas(ok) PROVE tabs'[l] # "none"
  BY <1>7 DEF VerifyHas
<1>8. CASE WorldTurns
  BY <1>8 DEF WorldTurns
<1>9. CASE PageFails
  BY <1>0, <1>9 DEF PageFails
<1>10. CASE Pass
  BY <1>10 DEF Pass
<1>11. CASE Dropped
  BY <1>11 DEF Dropped
<1>12. CASE StartLoop
  BY <1>12 DEF StartLoop
<1>13. ASSUME NEW m \in Verified, VerifyNow(m) PROVE tabs'[l] # "none"
  BY <1>13 DEF VerifyNow
<1>14. ASSUME NEW m \in Verified, RequestVerify(m) PROVE tabs'[l] # "none"
  BY <1>14 DEF RequestVerify
<1>15. ASSUME NEW b \in BOOLEAN, RequestOpened(b) PROVE tabs'[l] # "none"
  BY <1>0, <1>15 DEF RequestOpened
<1>16. ASSUME NEW b \in BOOLEAN, Drop(b) PROVE tabs'[l] # "none"
  BY <1>16 DEF Drop
<1>17. CASE UNCHANGED tabVars
  BY <1>17
<1> QED
  BY <1>1, <1>2, <1>3, <1>4, <1>5, <1>6, <1>7, <1>8, <1>9, <1>10, <1>11, <1>12, <1>13, <1>14, <1>15, <1>16, <1>17
     DEF TabsNext, Loop, Verification

-----------------------------------------------------------------------------
(* SportTabs *)

USE DEF sportVars

BoardsTyped ==
  /\ shows \in [Pages -> Sports \cup {"else", "free"}] /\ shows[Observing] # "free" /\ rows \subseteq Pages
  /\ parked \in [Sports -> Handles] /\ gestures \in [Sports -> Handles] /\ rover \in Handles
RunsTyped ==
  /\ happened \in Nat /\ slip \in BOOLEAN /\ lock \in {"free", "quote", "reset"} /\ started \in BOOLEAN
  /\ ended \subseteq Sports /\ quiet \subseteq Sports
  /\ parker \in [step : {"off", "parking", "waiting", "closing", "roving"}, at : Nat \ {0}]
  /\ walker \in [step : {"idle", "due", "overdue", "going"}, sport : Sports \cup {"none"}]
  /\ walker.step # "idle" => walker.sport \in Sports
TabRec == [step : {"none", "opening", "going", "expanding", "done"}, sport : Sports \cup {"none"}, page : Handles]
QuoteRec == [step : {"idle", "tab", "opens", "roves", "aims"}, sport : Sports \cup {"none"}, page : Handles,
             calm : BOOLEAN]
CallsTyped ==
  /\ tab \in [Callers -> TabRec] /\ \A c \in Callers : tab[c].step # "none" => tab[c].sport \in Sports
  /\ quote \in QuoteRec /\ (quote.step # "idle" => quote.sport \in Sports)
SportsTyped == BoardsTyped /\ RunsTyped /\ CallsTyped
\* A handle that is not dead is of an open page.
HandlesOpen ==
  /\ \A s \in Sports : parked[s] \in Pages => shows[parked[s]] # "free"
  /\ rover \in Pages => shows[rover] # "free"
  /\ quote.page \in Pages => shows[quote.page] # "free"
\* Who holds the lock, and what the others do meanwhile: once the first parking is
\* over, the parker works under the lock, so that it waits while a quote runs.
LockPlace ==
  /\ lock = "quote" <=> quote.step # "idle"
  /\ lock = "reset" => parker.step \in {"closing", "roving", "parking"}
  /\ parker.step \in {"closing", "roving"} => lock = "reset"
  /\ started = TRUE /\ parker.step # "waiting" => lock = "reset"
  /\ tab["parker"].step # "none" => parker.step = "parking" /\ parker.at <= Len(Targets)
  /\ tab["quote"].step # "none" => quote.step = "tab"
  /\ quote.step # "idle" /\ quote.calm = TRUE => started = TRUE
\* What keeps the open tabs known: a new tab takes the place of a dead handle.
Tracking ==
  /\ rover # Observing
  /\ quote.step = "opens" => rover \notin Pages
  /\ quote.page \in Pages => quote.step = "aims"
  /\ tab["quote"].step = "opening" /\ quote.calm = TRUE => parked[tab["quote"].sport] \notin Pages
  /\ tab["parker"].step = "opening" /\ started = TRUE => parked[tab["parker"].sport] \notin Pages
  /\ parker.step = "closing" =>
       \A i \in 1 .. Len(Targets) : i < parker.at => parked[Targets[i]] \notin Pages \ {Observing}
SportsInv == SportsTyped /\ HandlesOpen /\ LockPlace /\ QuoteStill /\ Tracking

LEMMA SportsInvSound == SportsInv => SportsSound
BY DEF SportsInv, SportsTyped, BoardsTyped, RunsTyped, CallsTyped, LockPlace, SportsSound, SportTabsTypeOK

LEMMA SportsConstants ==
  /\ Targets \in Seq(STRING) /\ Len(Targets) \in Nat \ {0} /\ MostPages \in Nat \ {0} /\ Happenings \in Nat
  /\ "else" \notin Sports /\ "free" \notin Sports
  /\ \A i \in 1 .. Len(Targets) : Targets[i] \in Sports
  /\ Observing = 0 /\ NoPage = -1 /\ Shut = -2 /\ Callers = {"parker", "quote"}
  /\ Pages = 0 .. MostPages /\ Handles = Pages \cup {-1, -2}
<1>1. Targets \in Seq(STRING) /\ MostPages \in Nat \ {0} /\ Happenings \in Nat
      /\ Sports \cap {"else", "free"} = {} /\ Len(Targets) > 0
  BY SportTabsAssumption, Zenon
<1>2. Len(Targets) \in Nat \ {0} /\ DOMAIN Targets = 1 .. Len(Targets)
  BY <1>1
<1>3. "else" \notin Sports /\ "free" \notin Sports
  BY <1>1
<1>4. \A i \in 1 .. Len(Targets) : Targets[i] \in Sports
  BY <1>2 DEF Sports
<1>5. Observing = 0 /\ NoPage = -1 /\ Shut = -2 /\ Callers = {"parker", "quote"}
      /\ Pages = 0 .. MostPages /\ Handles = Pages \cup {-1, -2}
  BY DEF Observing, NoPage, Shut, Callers, Pages, Handles
<1> QED
  BY <1>1, <1>2, <1>3, <1>4, <1>5

LEMMA SportsInits == SportTabsInit => SportsInv
<1> SUFFICES ASSUME SportTabsInit PROVE SportsInv
  OBVIOUS
<1> USE SportsConstants
<1>1. BoardsTyped /\ RunsTyped
  <2>1. Targets[1] \in Sports
    OBVIOUS
  <2>2. BoardsTyped
    BY <2>1 DEF SportTabsInit, BoardsTyped
  <2>3. PICK step \in {"parking", "off"} : parker = [step |-> step, at |-> 1]
    BY DEF SportTabsInit
  <2>4. happened = 0 /\ slip = FALSE /\ lock = "free" /\ started = FALSE /\ ended = {} /\ quiet = {} /\ walker = [step |-> "idle", sport |-> "none"]
    BY DEF SportTabsInit
  <2>5. RunsTyped
    <3>1. parker \in [step : {"off", "parking", "waiting", "closing", "roving"}, at : Nat \ {0}]
      BY <2>3
    <3>2. /\ walker \in [step : {"idle", "due", "overdue", "going"}, sport : Sports \cup {"none"}]
          /\ walker.step = "idle"
      BY <2>4
    <3> QED
      BY <2>4, <3>1, <3>2 DEF RunsTyped
  <2> QED
    BY <2>2, <2>5
<1>3. CallsTyped
  BY DEF SportTabsInit, CallsTyped, TabRec, QuoteRec, NoTab, NoQuote
<1>2. HandlesOpen /\ LockPlace /\ QuoteStill /\ Tracking
  BY DEF SportTabsInit, HandlesOpen, LockPlace, QuoteStill, Tracking, NoTab, NoQuote
<1> QED
  BY <1>1, <1>2, <1>3 DEF SportsInv, SportsTyped

\* A page that closes takes its handles with it.
LEMMA ClosesKeeps ==
  ASSUME SportsTyped, HandlesOpen, NEW p \in Pages, p # Observing, Closes(p)
  PROVE  /\ shows' \in [Pages -> Sports \cup {"else", "free"}] /\ rows' \subseteq Pages
         /\ shows'[Observing] # "free"
         /\ parked' \in [Sports -> Handles] /\ gestures' \in [Sports -> Handles] /\ rover' \in Handles
         /\ tab' \in [Callers -> TabRec]
         /\ quote' \in QuoteRec
         /\ \A c \in Callers : tab'[c].step = tab[c].step /\ tab'[c].sport = tab[c].sport
         /\ quote'.step = quote.step /\ quote'.sport = quote.sport /\ quote'.calm = quote.calm
         /\ \A s \in Sports : /\ parked'[s] = IF parked[s] = p THEN Shut ELSE parked[s]
                              /\ gestures'[s] = NoPage <=> gestures[s] = NoPage
         /\ rover' = IF rover = p THEN Shut ELSE rover
         /\ quote'.page = IF quote.page = p THEN Shut ELSE quote.page
         /\ \A q \in Pages : q # p => shows'[q] = shows[q]
         /\ HandlesOpen'
<1> USE SportsConstants
<1>1. /\ shows' \in [Pages -> Sports \cup {"else", "free"}] /\ rows' \subseteq Pages
      /\ shows'[Observing] # "free" /\ \A q \in Pages : q # p => shows'[q] = shows[q]
  BY DEF Closes, SportsTyped, BoardsTyped
<1>2. /\ parked' \in [Sports -> Handles] /\ gestures' \in [Sports -> Handles] /\ rover' \in Handles
      /\ \A s \in Sports : /\ parked'[s] = IF parked[s] = p THEN Shut ELSE parked[s]
                           /\ gestures'[s] = NoPage <=> gestures[s] = NoPage
      /\ rover' = IF rover = p THEN Shut ELSE rover
  BY DEF Closes, SportsTyped, BoardsTyped, Forgot
<1>3. /\ tab' \in [Callers -> TabRec]
      /\ \A c \in Callers : tab'[c].step = tab[c].step /\ tab'[c].sport = tab[c].sport
  BY DEF Closes, SportsTyped, CallsTyped, TabRec, QuoteRec, Forgot
<1>4. /\ quote' \in QuoteRec
      /\ quote'.step = quote.step /\ quote'.sport = quote.sport /\ quote'.calm = quote.calm
      /\ quote'.page = IF quote.page = p THEN Shut ELSE quote.page
  BY DEF Closes, SportsTyped, CallsTyped, TabRec, QuoteRec, Forgot
<1>5. HandlesOpen'
  <2>1. ASSUME NEW t \in Sports, parked'[t] \in Pages PROVE shows'[parked'[t]] # "free"
    <3>1. parked'[t] = parked[t] /\ parked[t] # p
      BY <1>2, <2>1
    <3> QED
      BY <1>1, <2>1, <3>1 DEF HandlesOpen
  <2>2. rover' \in Pages => shows'[rover'] # "free"
    BY <1>1, <1>2 DEF HandlesOpen
  <2>3. quote'.page \in Pages => shows'[quote'.page] # "free"
    BY <1>1, <1>4 DEF HandlesOpen
  <2> QED
    BY <2>1, <2>2, <2>3 DEF HandlesOpen
<1> QED
  BY <1>1, <1>2, <1>3, <1>4, <1>5

\* A call of sport_tab, a step of one, a step of a quote.
LEMMA TabTyped ==
  ASSUME CallsTyped, NEW c \in Callers, NEW r \in TabRec, r.step # "none" => r.sport \in Sports,
         tab' = [tab EXCEPT ![c] = r]
  PROVE  /\ tab' \in [Callers -> TabRec] /\ \A d \in Callers : tab'[d].step # "none" => tab'[d].sport \in Sports
         /\ tab'[c] = r /\ \A d \in Callers : d # c => tab'[d] = tab[d]
BY DEF CallsTyped

LEMMA TabMoved ==
  ASSUME CallsTyped, NEW c \in Callers, tab[c].step # "none", NEW step \in {"opening", "going", "expanding", "done"},
         tab' = [tab EXCEPT ![c].step = step]
  PROVE  /\ tab' \in [Callers -> TabRec] /\ \A d \in Callers : tab'[d].step # "none" => tab'[d].sport \in Sports
         /\ tab'[c].step = step /\ \A d \in Callers : d # c => tab'[d] = tab[d]
<1>1. tab' = [tab EXCEPT ![c] = [tab[c] EXCEPT !.step = step]]
  OBVIOUS
<1>2. tab[c] \in TabRec /\ tab[c].sport \in Sports
  BY DEF CallsTyped
<1>3. /\ [tab[c] EXCEPT !.step = step] \in TabRec /\ [tab[c] EXCEPT !.step = step].sport = tab[c].sport
      /\ [tab[c] EXCEPT !.step = step].step = step
  BY <1>2 DEF TabRec
<1> QED
  BY <1>1, <1>2, <1>3, TabTyped

LEMMA QuoteMoved ==
  ASSUME CallsTyped, NEW step \in {"idle", "tab", "opens", "roves", "aims"}, NEW p \in Handles, QuoteAt(step, p)
  PROVE  /\ quote' \in QuoteRec /\ quote'.step = step /\ quote'.page = p
         /\ quote'.sport = quote.sport /\ quote'.calm = quote.calm
<1>1. quote \in QuoteRec
  BY DEF CallsTyped
<1>2. quote = [step |-> quote.step, sport |-> quote.sport, page |-> quote.page, calm |-> quote.calm]
  BY <1>1 DEF QuoteRec
<1>3. quote' = [step |-> step, sport |-> quote.sport, page |-> p, calm |-> quote.calm]
  BY <1>2 DEF QuoteAt
<1> QED
  BY <1>1, <1>3 DEF QuoteRec

LEMMA CallsTabKeeps ==
  ASSUME BoardsTyped, CallsTyped, HandlesOpen, NEW c \in Callers, NEW s \in Sports, CallsTab(c, s)
  PROVE  /\ parked' \in [Sports -> Handles] /\ \A t \in Sports : parked'[t] \in {parked[t], Observing}
         /\ tab' \in [Callers -> TabRec] /\ \A d \in Callers : tab'[d].step # "none" => tab'[d].sport \in Sports
         /\ \A d \in Callers : d # c => tab'[d] = tab[d]
         /\ tab'[c].step # "none" /\ tab'[c].sport = s
         /\ tab'[c].step = "opening" => parked'[s] \notin Pages
<1> USE SportsConstants
<1> DEFINE r(step, p) == [step |-> step, sport |-> s, page |-> p]
<1>1. /\ parked' \in [Sports -> Handles] /\ \A t \in Sports : parked'[t] \in {parked[t], Observing}
  BY SMTT(30) DEF CallsTab, BoardsTyped
<1>2. \E step \in {"opening", "going", "expanding", "done"}, p \in Handles :
        tab' = [tab EXCEPT ![c] = r(step, p)] /\ (step = "opening" => parked'[s] \notin Pages)
  <2>1. CASE shows[Observing] = s
    <3>1. \E step \in {"expanding", "done"} : TabAt(c, s, step, Observing)
      BY <2>1 DEF CallsTab
    <3>2. PICK step \in {"expanding", "done"} : tab' = [tab EXCEPT ![c] = r(step, Observing)]
      BY <3>1 DEF TabAt
    <3>3. Observing \in Handles /\ step # "opening"
      BY <3>2
    <3> QED
      BY <3>2, <3>3
  <2>2. CASE shows[Observing] # s
    <3>1. parked[s] \in Handles /\ parked' = parked
      BY <2>2 DEF CallsTab, BoardsTyped
    <3>2. CASE ~Up(parked[s])
      <4>1. parked[s] \notin Pages /\ TabAt(c, s, "opening", NoPage)
        BY <2>2, <3>2 DEF CallsTab, Up, HandlesOpen
      <4> QED
        BY <3>1, <4>1 DEF TabAt
    <3>3. CASE Up(parked[s])
      <4>1. \E step \in {"going", "done"} : TabAt(c, s, step, parked[s])
        BY <2>2, <3>3 DEF CallsTab
      <4> QED
        BY <3>1, <4>1 DEF TabAt
    <3> QED
      BY <3>2, <3>3
  <2> QED
    BY <2>1, <2>2
<1>3. PICK step \in {"opening", "going", "expanding", "done"}, p \in Handles :
        tab' = [tab EXCEPT ![c] = r(step, p)] /\ (step = "opening" => parked'[s] \notin Pages)
  BY <1>2
<1>4. r(step, p) \in TabRec /\ r(step, p).sport = s /\ r(step, p).step = step
  BY DEF TabRec
<1> QED
  BY <1>1, <1>3, <1>4, TabTyped

LEMMA SportsSteps == SportsInv /\ [SportTabsNext]_sportVars => SportsInv'
<1> SUFFICES ASSUME SportsInv, [SportTabsNext]_sportVars PROVE SportsInv'
  OBVIOUS
<1> USE SportsConstants
<1>0. SportsTyped /\ BoardsTyped /\ RunsTyped /\ CallsTyped /\ HandlesOpen /\ LockPlace /\ QuoteStill /\ Tracking
  BY DEF SportsInv, SportsTyped
<1>1. CASE ParkCalls
  <2>1. parker.step = "parking" /\ parker.at \in 1 .. Len(Targets) /\ tab["parker"] = NoTab /\ CallsTab("parker", Target)
        /\ UNCHANGED <<shows, rows, rover, gestures, ended, quiet, slip, lock, started, parker, quote, walker, happened>>
    BY <1>0, <1>1 DEF ParkCalls, RunsTyped
  <2>2. Target \in Sports
    BY <2>1 DEF Target
  <2> DEFINE s == Target
  <2>3. /\ parked' \in [Sports -> Handles] /\ \A t \in Sports : parked'[t] \in {parked[t], Observing}
        /\ tab' \in [Callers -> TabRec] /\ \A d \in Callers : tab'[d].step # "none" => tab'[d].sport \in Sports
        /\ tab'["quote"] = tab["quote"] /\ tab'["parker"].step # "none" /\ tab'["parker"].sport = s
        /\ tab'["parker"].step = "opening" => parked'[s] \notin Pages
    BY <1>0, <2>1, <2>2, CallsTabKeeps
  <2> HIDE DEF s
  <2>4. BoardsTyped'
    BY <1>0, <2>1, <2>3 DEF BoardsTyped
  <2>5. RunsTyped'
    BY <1>0, <2>1 DEF RunsTyped
  <2>6. CallsTyped'
    BY <1>0, <2>1, <2>3 DEF CallsTyped
  <2>7. HandlesOpen'
    BY <1>0, <2>1, <2>3 DEF HandlesOpen, BoardsTyped
  <2>8. LockPlace'
    BY <1>0, <2>1, <2>3 DEF LockPlace
  <2>9. QuoteStill'
    BY <1>0, <2>1 DEF QuoteStill
  <2>10. Tracking'
    BY <1>0, <2>1, <2>3 DEF LockPlace, Tracking, RunsTyped
  <2> QED
    BY <2>4, <2>5, <2>6, <2>7, <2>8, <2>9, <2>10 DEF SportsInv, SportsTyped
<1>2. CASE ParkedOne
  <2>1. BoardsTyped'
    BY <1>0, <1>2 DEF BoardsTyped, ParkedOne, Up, Target, NoTab
  <2>2. RunsTyped'
    BY <1>0, <1>2 DEF RunsTyped, ParkedOne, Up, Target, NoTab
  <2>3. CallsTyped'
    BY <1>0, <1>2 DEF CallsTyped, TabRec, QuoteRec, BoardsTyped, ParkedOne, Up, Target, NoTab
  <2>4. HandlesOpen'
    BY <1>0, <1>2 DEF BoardsTyped, RunsTyped, CallsTyped, TabRec, QuoteRec, HandlesOpen, ParkedOne, Up, Target, NoTab
  <2>5. LockPlace'
    BY <1>0, <1>2 DEF BoardsTyped, RunsTyped, CallsTyped, TabRec, QuoteRec, LockPlace, ParkedOne, Up, Target, NoTab
  <2>6. QuoteStill'
    BY <1>0, <1>2 DEF BoardsTyped, RunsTyped, CallsTyped, TabRec, QuoteRec, QuoteStill, LockPlace, ParkedOne, Up, Target, NoTab
  <2>7. Tracking'
    BY <1>0, <1>2 DEF BoardsTyped, RunsTyped, CallsTyped, TabRec, QuoteRec, HandlesOpen, LockPlace, Tracking, ParkedOne, Up, Target, NoTab
  <2> QED
    BY <2>1, <2>2, <2>3, <2>4, <2>5, <2>6, <2>7 DEF SportsInv, SportsTyped
<1>3. CASE AllParked
  <2>1. BoardsTyped'
    BY <1>0, <1>3 DEF BoardsTyped, AllParked
  <2>2. RunsTyped'
    BY <1>0, <1>3 DEF RunsTyped, AllParked
  <2>3. CallsTyped'
    BY <1>0, <1>3 DEF CallsTyped, TabRec, QuoteRec, BoardsTyped, AllParked
  <2>4. HandlesOpen'
    BY <1>0, <1>3 DEF BoardsTyped, RunsTyped, CallsTyped, TabRec, QuoteRec, HandlesOpen, AllParked
  <2>5. LockPlace'
    BY <1>0, <1>3 DEF BoardsTyped, RunsTyped, CallsTyped, TabRec, QuoteRec, LockPlace, AllParked
  <2>6. QuoteStill'
    BY <1>0, <1>3 DEF BoardsTyped, RunsTyped, CallsTyped, TabRec, QuoteRec, QuoteStill, LockPlace, AllParked
  <2>7. Tracking'
    BY <1>0, <1>3 DEF BoardsTyped, RunsTyped, CallsTyped, TabRec, QuoteRec, HandlesOpen, LockPlace, Tracking, AllParked
  <2> QED
    BY <2>1, <2>2, <2>3, <2>4, <2>5, <2>6, <2>7 DEF SportsInv, SportsTyped
<1>4. CASE ResetStarts
  <2>1. BoardsTyped'
    BY <1>0, <1>4 DEF BoardsTyped, ResetStarts, Resetting
  <2>2. RunsTyped'
    BY <1>0, <1>4 DEF RunsTyped, ResetStarts, Resetting
  <2>3. CallsTyped'
    BY <1>0, <1>4 DEF CallsTyped, TabRec, QuoteRec, BoardsTyped, ResetStarts, Resetting
  <2>4. HandlesOpen'
    BY <1>0, <1>4 DEF BoardsTyped, RunsTyped, CallsTyped, TabRec, QuoteRec, HandlesOpen, ResetStarts, Resetting
  <2>5. LockPlace'
    BY <1>0, <1>4 DEF BoardsTyped, RunsTyped, CallsTyped, TabRec, QuoteRec, LockPlace, ResetStarts, Resetting
  <2>6. QuoteStill'
    BY <1>0, <1>4 DEF BoardsTyped, RunsTyped, CallsTyped, TabRec, QuoteRec, QuoteStill, LockPlace, ResetStarts, Resetting
  <2>7. Tracking'
    BY <1>0, <1>4 DEF BoardsTyped, RunsTyped, CallsTyped, TabRec, QuoteRec, HandlesOpen, LockPlace, Tracking, ResetStarts, Resetting
  <2> QED
    BY <2>1, <2>2, <2>3, <2>4, <2>5, <2>6, <2>7 DEF SportsInv, SportsTyped
<1>5. ASSUME NEW ok \in BOOLEAN, ResetReloads(ok) PROVE SportsInv'
  <2>1. BoardsTyped'
    BY <1>0, <1>5 DEF BoardsTyped, ResetReloads, Target
  <2>2. RunsTyped'
    BY <1>0, <1>5 DEF RunsTyped, ResetReloads, Target
  <2>3. CallsTyped'
    BY <1>0, <1>5 DEF CallsTyped, TabRec, QuoteRec, BoardsTyped, ResetReloads, Target
  <2>4. HandlesOpen'
    BY <1>0, <1>5 DEF BoardsTyped, RunsTyped, CallsTyped, TabRec, QuoteRec, HandlesOpen, ResetReloads, Target
  <2>5. LockPlace'
    BY <1>0, <1>5 DEF BoardsTyped, RunsTyped, CallsTyped, TabRec, QuoteRec, LockPlace, ResetReloads, Target
  <2>6. QuoteStill'
    BY <1>0, <1>5 DEF BoardsTyped, RunsTyped, CallsTyped, TabRec, QuoteRec, QuoteStill, LockPlace, ResetReloads, Target
  <2>7. Tracking'
    BY <1>0, <1>5 DEF BoardsTyped, RunsTyped, CallsTyped, TabRec, QuoteRec, HandlesOpen, LockPlace, Tracking, ResetReloads, Target
  <2> QED
    BY <2>1, <2>2, <2>3, <2>4, <2>5, <2>6, <2>7 DEF SportsInv, SportsTyped
<1>6. CASE ResetCloses
  <2>1. parked[Target] \in Pages /\ parked[Target] # Observing /\ Closes(parked[Target])
    BY <1>6 DEF ResetCloses, Closeable, Up, Target
  <2>2. BoardsTyped'
    BY <1>0, <1>6, <2>1, ClosesKeeps DEF BoardsTyped, RunsTyped, CallsTyped, TabRec, QuoteRec, ResetCloses, Closeable, Up, Target
  <2>3. RunsTyped'
    BY <1>0, <1>6, <2>1, ClosesKeeps DEF RunsTyped, ResetCloses, Closeable, Up, Target
  <2>4. CallsTyped'
    BY <1>0, <1>6, <2>1, ClosesKeeps DEF CallsTyped, TabRec, QuoteRec, BoardsTyped, ResetCloses, Closeable, Up, Target
  <2>5. HandlesOpen'
    BY <1>0, <2>1, ClosesKeeps
  <2>6. LockPlace'
    BY <1>0, <1>6, <2>1, ClosesKeeps DEF BoardsTyped, RunsTyped, CallsTyped, TabRec, QuoteRec, LockPlace, ResetCloses, Closeable, Up, Target
  <2>7. QuoteStill'
    BY <1>0, <1>6, <2>1, ClosesKeeps DEF BoardsTyped, RunsTyped, CallsTyped, TabRec, QuoteRec, QuoteStill, LockPlace, ResetCloses, Closeable, Up, Target
  <2>8. Tracking'
    <3>1. /\ parker.step = "closing" /\ parker.at \in 1 .. Len(Targets) /\ parker' = [parker EXCEPT !.at = @ + 1]
          /\ UNCHANGED started
      BY <1>0, <1>6 DEF ResetCloses, RunsTyped
    <3>2. parker'.step = "closing" /\ parker'.at = parker.at + 1
      BY <1>0, <3>1 DEF RunsTyped
    <3>3. /\ \A c \in Callers : tab'[c].step = tab[c].step /\ tab'[c].sport = tab[c].sport
          /\ quote'.step = quote.step /\ quote'.calm = quote.calm
          /\ \A s \in Sports : parked'[s] = parked[s] \/ parked'[s] = Shut
          /\ rover' = rover \/ rover' = Shut
          /\ quote'.page = quote.page \/ quote'.page = Shut
      BY <1>0, <2>1, ClosesKeeps
    <3>4. parked'[Target] = Shut /\ Target = Targets[parker.at]
      BY <1>0, <2>1, <3>1, ClosesKeeps DEF Target
    <3>5. Shut \notin Pages /\ Shut # Observing
      OBVIOUS
    <3>6. \A c \in Callers : tab[c].step = "opening" => tab[c].sport \in Sports
      BY <1>0 DEF CallsTyped
    <3>7. ASSUME NEW i \in 1 .. Len(Targets), i < parker'.at PROVE parked'[Targets[i]] \notin Pages \ {Observing}
      <4>1. i < parker.at \/ i = parker.at
        BY <1>0, <3>2, <3>7 DEF RunsTyped
      <4>2. CASE i < parker.at
        BY <1>0, <3>1, <3>3, <3>5, <4>2 DEF Tracking
      <4> QED
        BY <3>4, <3>5, <4>1, <4>2
    <3> QED
      BY <1>0, <3>1, <3>2, <3>3, <3>5, <3>6, <3>7, SMTT(30) DEF Tracking
  <2> QED
    BY <2>2, <2>3, <2>4, <2>5, <2>6, <2>7, <2>8 DEF SportsInv, SportsTyped
<1>7. CASE ResetSkips
  <2>1. BoardsTyped'
    BY <1>0, <1>7 DEF BoardsTyped, ResetSkips, Up, Target
  <2>2. RunsTyped'
    BY <1>0, <1>7 DEF RunsTyped, ResetSkips, Up, Target
  <2>3. CallsTyped'
    BY <1>0, <1>7 DEF CallsTyped, TabRec, QuoteRec, BoardsTyped, ResetSkips, Up, Target
  <2>4. HandlesOpen'
    BY <1>0, <1>7 DEF BoardsTyped, RunsTyped, CallsTyped, TabRec, QuoteRec, HandlesOpen, ResetSkips, Up, Target
  <2>5. LockPlace'
    BY <1>0, <1>7 DEF BoardsTyped, RunsTyped, CallsTyped, TabRec, QuoteRec, LockPlace, ResetSkips, Up, Target
  <2>6. QuoteStill'
    BY <1>0, <1>7 DEF BoardsTyped, RunsTyped, CallsTyped, TabRec, QuoteRec, QuoteStill, LockPlace, ResetSkips, Up, Target
  <2>7. Tracking'
    BY <1>0, <1>7 DEF BoardsTyped, RunsTyped, CallsTyped, TabRec, QuoteRec, HandlesOpen, LockPlace, Tracking, ResetSkips, Up, Target
  <2> QED
    BY <2>1, <2>2, <2>3, <2>4, <2>5, <2>6, <2>7 DEF SportsInv, SportsTyped
<1>8. CASE ResetClears
  <2>1. BoardsTyped'
    BY <1>0, <1>8 DEF BoardsTyped, ResetClears
  <2>2. RunsTyped'
    BY <1>0, <1>8 DEF RunsTyped, ResetClears
  <2>3. CallsTyped'
    BY <1>0, <1>8 DEF CallsTyped, TabRec, QuoteRec, BoardsTyped, ResetClears
  <2>4. HandlesOpen'
    BY <1>0, <1>8 DEF BoardsTyped, RunsTyped, CallsTyped, TabRec, QuoteRec, HandlesOpen, ResetClears
  <2>5. LockPlace'
    BY <1>0, <1>8 DEF BoardsTyped, RunsTyped, CallsTyped, TabRec, QuoteRec, LockPlace, ResetClears
  <2>6. QuoteStill'
    BY <1>0, <1>8 DEF BoardsTyped, RunsTyped, CallsTyped, TabRec, QuoteRec, QuoteStill, LockPlace, ResetClears
  <2>7. Tracking'
    BY <1>0, <1>8 DEF BoardsTyped, RunsTyped, CallsTyped, TabRec, QuoteRec, HandlesOpen, LockPlace, Tracking, ResetClears
  <2> QED
    BY <2>1, <2>2, <2>3, <2>4, <2>5, <2>6, <2>7 DEF SportsInv, SportsTyped
<1>9. CASE ResetRover
  <2>1. CASE Up(rover)
    <3>1. rover \in Pages /\ rover # Observing /\ Closes(rover)
      BY <1>0, <1>9, <2>1 DEF ResetRover, Up, Tracking
    <3>2. BoardsTyped'
      BY <1>0, <1>9, <2>1, <3>1, ClosesKeeps DEF BoardsTyped, RunsTyped, CallsTyped, TabRec, QuoteRec, ResetRover
    <3>3. RunsTyped'
      BY <1>0, <1>9, <2>1, <3>1, ClosesKeeps DEF RunsTyped, ResetRover
    <3>4. CallsTyped'
      BY <1>0, <1>9, <2>1, <3>1, ClosesKeeps DEF CallsTyped, TabRec, QuoteRec, BoardsTyped, ResetRover
    <3>5. HandlesOpen'
      BY <1>0, <3>1, ClosesKeeps
    <3>6. LockPlace'
      BY <1>0, <1>9, <2>1, <3>1, ClosesKeeps DEF BoardsTyped, RunsTyped, CallsTyped, TabRec, QuoteRec, LockPlace, ResetRover
    <3>7. QuoteStill'
      BY <1>0, <1>9, <2>1, <3>1, ClosesKeeps DEF BoardsTyped, RunsTyped, CallsTyped, TabRec, QuoteRec, QuoteStill, LockPlace, ResetRover
    <3>8. Tracking'
      BY <1>0, <1>9, <2>1, <3>1, ClosesKeeps DEF BoardsTyped, RunsTyped, CallsTyped, TabRec, QuoteRec, HandlesOpen, LockPlace, Tracking, ResetRover
    <3> QED
      BY <3>2, <3>3, <3>4, <3>5, <3>6, <3>7, <3>8 DEF SportsInv, SportsTyped
  <2>2. CASE ~Up(rover)
    <3>1. /\ parker.step = "roving" /\ parker' = [step |-> "parking", at |-> 1] /\ rover' = NoPage
          /\ UNCHANGED <<shows, rows, parked, gestures, tab, quote, ended, quiet, slip, lock, started, walker, happened>>
      BY <1>9, <2>2 DEF ResetRover
    <3>2. BoardsTyped'
      BY <1>0, <3>1 DEF BoardsTyped, RunsTyped, CallsTyped, TabRec, QuoteRec
    <3>3. RunsTyped'
      BY <1>0, <3>1 DEF RunsTyped
    <3>4. CallsTyped'
      BY <1>0, <3>1 DEF CallsTyped, TabRec, QuoteRec, BoardsTyped
    <3>5. HandlesOpen'
      BY <1>0, <3>1 DEF BoardsTyped, RunsTyped, CallsTyped, TabRec, QuoteRec, HandlesOpen
    <3>6. LockPlace'
      BY <1>0, <3>1 DEF BoardsTyped, RunsTyped, CallsTyped, TabRec, QuoteRec, LockPlace
    <3>7. QuoteStill'
      BY <1>0, <3>1 DEF BoardsTyped, RunsTyped, CallsTyped, TabRec, QuoteRec, QuoteStill, LockPlace
    <3>8. Tracking'
      BY <1>0, <3>1 DEF BoardsTyped, RunsTyped, CallsTyped, TabRec, QuoteRec, HandlesOpen, LockPlace, Tracking
    <3> QED
      BY <3>2, <3>3, <3>4, <3>5, <3>6, <3>7, <3>8 DEF SportsInv, SportsTyped
  <2> QED
    BY <2>1, <2>2
<1>10. ASSUME NEW c \in Callers, TabOpens(c) PROVE SportsInv'
  <2>1. BoardsTyped'
    BY <1>0, <1>10 DEF BoardsTyped, RunsTyped, CallsTyped, TabRec, QuoteRec, TabOpens, OpensOn, TabAt
  <2>2. RunsTyped'
    BY <1>0, <1>10 DEF RunsTyped, TabOpens, OpensOn, TabAt
  <2>3. CallsTyped'
    BY <1>0, <1>10 DEF CallsTyped, TabRec, QuoteRec, BoardsTyped, TabOpens, OpensOn, TabAt
  <2>4. HandlesOpen'
    BY <1>0, <1>10 DEF BoardsTyped, RunsTyped, CallsTyped, TabRec, QuoteRec, HandlesOpen, TabOpens, OpensOn, TabAt
  <2>5. LockPlace'
    BY <1>0, <1>10 DEF BoardsTyped, RunsTyped, CallsTyped, TabRec, QuoteRec, LockPlace, TabOpens, OpensOn, TabAt
  <2>6. QuoteStill'
    BY <1>0, <1>10 DEF BoardsTyped, RunsTyped, CallsTyped, TabRec, QuoteRec, QuoteStill, LockPlace, TabOpens, OpensOn, TabAt
  <2>7. Tracking'
    BY <1>0, <1>10 DEF BoardsTyped, RunsTyped, CallsTyped, TabRec, QuoteRec, HandlesOpen, LockPlace, Tracking, TabOpens, OpensOn, TabAt
  <2> QED
    BY <2>1, <2>2, <2>3, <2>4, <2>5, <2>6, <2>7 DEF SportsInv, SportsTyped
<1>11. ASSUME NEW c \in Callers, TabFails(c) PROVE SportsInv'
  <2>1. /\ tab[c].step = "opening" /\ tab' = [tab EXCEPT ![c] = NoTab]
        /\ UNCHANGED <<shows, rows, parked, rover, gestures, ended, slip, walker, happened>>
    BY <1>11 DEF TabFails
  <2>2. /\ tab' \in [Callers -> TabRec] /\ \A d \in Callers : tab'[d].step # "none" => tab'[d].sport \in Sports
        /\ tab'[c] = NoTab /\ \A d \in Callers : d # c => tab'[d] = tab[d]
    <3>1. NoTab \in TabRec /\ NoTab.step = "none"
      BY DEF NoTab, TabRec
    <3> QED
      BY <1>0, <2>1, <3>1, TabTyped
  <2>3. CASE c = "quote"
    <3>1. lock' = "free" /\ quiet' = {} /\ quote' = NoQuote /\ UNCHANGED <<started, parker>>
      BY <1>11, <2>3 DEF TabFails, QuoteOver
    <3>2. NoQuote \in QuoteRec /\ NoQuote.step = "idle" /\ NoQuote.page = NoPage
      BY DEF NoQuote, QuoteRec
    <3>3. BoardsTyped'
      BY <1>0, <2>1 DEF BoardsTyped
    <3>4. RunsTyped'
      BY <1>0, <2>1, <3>1 DEF RunsTyped
    <3>5. CallsTyped'
      BY <2>2, <3>1, <3>2 DEF CallsTyped
    <3>6. HandlesOpen'
      BY <1>0, <2>1, <3>1, <3>2 DEF HandlesOpen
    <3>7. LockPlace'
      BY <1>0, <2>1, <2>2, <2>3, <3>1, <3>2 DEF LockPlace, NoTab
    <3>8. QuoteStill'
      BY <1>0, <2>1, <3>1, <3>2 DEF QuoteStill
    <3>9. Tracking'
      BY <1>0, <2>1, <2>2, <2>3, <3>1, <3>2 DEF Tracking, NoTab
    <3> QED
      BY <3>3, <3>4, <3>5, <3>6, <3>7, <3>8, <3>9 DEF SportsInv, SportsTyped
  <2>4. CASE c = "parker"
    <3>1. /\ parker' = [step |-> "waiting", at |-> 1] /\ started' = TRUE /\ UNCHANGED <<quiet, quote>>
          /\ lock' = IF lock = "reset" THEN "free" ELSE lock
      BY <1>11, <2>4 DEF TabFails
    <3>2. BoardsTyped'
      BY <1>0, <2>1 DEF BoardsTyped
    <3>3. RunsTyped'
      BY <1>0, <2>1, <3>1 DEF RunsTyped
    <3>4. CallsTyped'
      BY <1>0, <2>2, <3>1 DEF CallsTyped
    <3>5. HandlesOpen'
      BY <1>0, <2>1, <3>1 DEF HandlesOpen
    <3>6. LockPlace'
      BY <1>0, <2>1, <2>2, <2>4, <3>1 DEF LockPlace, NoTab
    <3>7. QuoteStill'
      BY <1>0, <2>1, <3>1 DEF QuoteStill
    <3>8. Tracking'
      BY <1>0, <2>1, <2>2, <2>4, <3>1 DEF Tracking, NoTab
    <3> QED
      BY <3>2, <3>3, <3>4, <3>5, <3>6, <3>7, <3>8 DEF SportsInv, SportsTyped
  <2> QED
    BY <2>3, <2>4
<1>12. ASSUME NEW c \in Callers, TabExpands(c) PROVE SportsInv'
  <2>1. BoardsTyped'
    BY <1>0, <1>12 DEF BoardsTyped, TabExpands
  <2>2. RunsTyped'
    BY <1>0, <1>12 DEF RunsTyped, TabExpands
  <2>3. CallsTyped'
    <3>1. tab[c].step # "none" /\ tab' = [tab EXCEPT ![c].step = "done"] /\ UNCHANGED quote
      BY <1>12 DEF TabExpands
    <3> QED
      BY <1>0, <3>1, TabMoved DEF CallsTyped
  <2>4. HandlesOpen'
    BY <1>0, <1>12 DEF BoardsTyped, RunsTyped, CallsTyped, TabRec, QuoteRec, HandlesOpen, TabExpands
  <2>5. LockPlace'
    BY <1>0, <1>12 DEF BoardsTyped, RunsTyped, CallsTyped, TabRec, QuoteRec, LockPlace, TabExpands
  <2>6. QuoteStill'
    BY <1>0, <1>12 DEF BoardsTyped, RunsTyped, CallsTyped, TabRec, QuoteRec, QuoteStill, LockPlace, TabExpands
  <2>7. Tracking'
    BY <1>0, <1>12 DEF BoardsTyped, RunsTyped, CallsTyped, TabRec, QuoteRec, HandlesOpen, LockPlace, Tracking, TabExpands
  <2> QED
    BY <2>1, <2>2, <2>3, <2>4, <2>5, <2>6, <2>7 DEF SportsInv, SportsTyped
<1>13. ASSUME NEW c \in Callers, NEW ok \in BOOLEAN, TabGoes(c, ok) PROVE SportsInv'
  <2>1. BoardsTyped'
    BY <1>0, <1>13 DEF BoardsTyped, RunsTyped, CallsTyped, TabRec, QuoteRec, TabGoes, Up, Happened
  <2>2. RunsTyped'
    BY <1>0, <1>13 DEF RunsTyped, TabGoes, Up, Happened
  <2>3. CallsTyped'
    <3>1. /\ tab[c].step # "none" /\ UNCHANGED quote
          /\ \E step \in {"expanding", "done"} : tab' = [tab EXCEPT ![c].step = step]
      BY <1>13 DEF TabGoes
    <3> QED
      BY <1>0, <3>1, TabMoved DEF CallsTyped
  <2>4. HandlesOpen'
    BY <1>0, <1>13 DEF BoardsTyped, RunsTyped, CallsTyped, TabRec, QuoteRec, HandlesOpen, TabGoes, Up, Happened
  <2>5. LockPlace'
    BY <1>0, <1>13 DEF BoardsTyped, RunsTyped, CallsTyped, TabRec, QuoteRec, LockPlace, TabGoes, Up, Happened
  <2>6. QuoteStill'
    BY <1>0, <1>13 DEF BoardsTyped, RunsTyped, CallsTyped, TabRec, QuoteRec, QuoteStill, LockPlace, TabGoes, Up, Happened
  <2>7. Tracking'
    BY <1>0, <1>13 DEF BoardsTyped, RunsTyped, CallsTyped, TabRec, QuoteRec, HandlesOpen, LockPlace, Tracking, TabGoes, Up, Happened
  <2> QED
    BY <2>1, <2>2, <2>3, <2>4, <2>5, <2>6, <2>7 DEF SportsInv, SportsTyped
<1>14. ASSUME NEW b \in BOOLEAN, QuoteLooks(b) PROVE SportsInv'
  <2>1. /\ tab["quote"].step = "done" /\ tab' = [tab EXCEPT !["quote"] = NoTab]
        /\ UNCHANGED <<shows, rows, parked, rover, gestures, ended, quiet, slip, lock, started, parker, walker, happened>>
    BY <1>14 DEF QuoteLooks
  <2>2. /\ tab' \in [Callers -> TabRec] /\ \A d \in Callers : tab'[d].step # "none" => tab'[d].sport \in Sports
        /\ tab'["quote"] = NoTab /\ tab'["parker"] = tab["parker"]
    <3>1. NoTab \in TabRec /\ NoTab.step = "none"
      BY DEF NoTab, TabRec
    <3> QED
      BY <1>0, <2>1, <3>1, TabTyped
  <2>3. /\ quote' \in QuoteRec /\ quote'.sport = quote.sport /\ quote'.calm = quote.calm
        /\ \/ quote'.step = "aims" /\ quote'.page \in Pages /\ shows[quote'.page] # "free"
           \/ quote'.step = "roves" /\ quote'.page = NoPage
           \/ quote'.step = "opens" /\ quote'.page = NoPage /\ rover \notin Pages
    <3>1. CASE b = TRUE
      <4>1. Up(tab["quote"].page) /\ QuoteAt("aims", tab["quote"].page)
        BY <1>14, <3>1 DEF QuoteLooks
      <4>2. tab["quote"].page \in Pages /\ shows[tab["quote"].page] # "free"
        BY <4>1 DEF Up
      <4> QED
        BY <1>0, <4>1, <4>2, QuoteMoved
    <3>2. CASE b = FALSE
      <4>1. QuoteAt(IF Up(rover) THEN "roves" ELSE "opens", NoPage)
        BY <1>14, <3>2 DEF QuoteLooks
      <4>2. ~Up(rover) => rover \notin Pages
        BY <1>0 DEF Up, HandlesOpen
      <4> QED
        BY <1>0, <4>1, <4>2, QuoteMoved
    <3> QED
      BY <3>1, <3>2
  <2>4. quote.step = "tab"
    BY <1>0, <2>1 DEF LockPlace
  <2>5. BoardsTyped'
    BY <1>0, <2>1 DEF BoardsTyped
  <2>6. RunsTyped'
    BY <1>0, <2>1 DEF RunsTyped
  <2>7. CallsTyped'
    BY <1>0, <2>2, <2>3, <2>4 DEF CallsTyped
  <2>8. HandlesOpen'
    BY <1>0, <2>1, <2>3 DEF HandlesOpen
  <2>9. LockPlace'
    BY <1>0, <2>1, <2>2, <2>3, <2>4 DEF LockPlace, NoTab
  <2>10. QuoteStill'
    BY <1>0, <2>1, <2>3, <2>4 DEF QuoteStill
  <2>11. Tracking'
    BY <1>0, <2>1, <2>2, <2>3 DEF Tracking, NoTab
  <2> QED
    BY <2>5, <2>6, <2>7, <2>8, <2>9, <2>10, <2>11 DEF SportsInv, SportsTyped
<1>15. ASSUME NEW b \in BOOLEAN, QuoteClicks(b) PROVE SportsInv'
  <2>1. BoardsTyped'
    BY <1>0, <1>15 DEF BoardsTyped, QuoteClicks, QuoteOver, NoQuote
  <2>2. RunsTyped'
    BY <1>0, <1>15 DEF RunsTyped, QuoteClicks, QuoteOver, NoQuote
  <2>3. CallsTyped'
    BY <1>0, <1>15 DEF CallsTyped, TabRec, QuoteRec, BoardsTyped, QuoteClicks, QuoteOver, NoQuote
  <2>4. HandlesOpen'
    BY <1>0, <1>15 DEF BoardsTyped, RunsTyped, CallsTyped, TabRec, QuoteRec, HandlesOpen, QuoteClicks, QuoteOver, NoQuote
  <2>5. LockPlace'
    BY <1>0, <1>15 DEF BoardsTyped, RunsTyped, CallsTyped, TabRec, QuoteRec, LockPlace, QuoteClicks, QuoteOver, NoQuote
  <2>6. QuoteStill'
    BY <1>0, <1>15 DEF BoardsTyped, RunsTyped, CallsTyped, TabRec, QuoteRec, QuoteStill, LockPlace, QuoteClicks, QuoteOver, NoQuote
  <2>7. Tracking'
    BY <1>0, <1>15 DEF BoardsTyped, RunsTyped, CallsTyped, TabRec, QuoteRec, HandlesOpen, LockPlace, Tracking, QuoteClicks, QuoteOver, NoQuote
  <2> QED
    BY <2>1, <2>2, <2>3, <2>4, <2>5, <2>6, <2>7 DEF SportsInv, SportsTyped
<1>16. CASE RoverOpens
  <2>1. BoardsTyped'
    BY <1>0, <1>16 DEF BoardsTyped, RunsTyped, CallsTyped, TabRec, QuoteRec, RoverOpens, OpensOn, QuoteAt
  <2>2. RunsTyped'
    BY <1>0, <1>16 DEF RunsTyped, RoverOpens, OpensOn, QuoteAt
  <2>3. CallsTyped'
    BY <1>0, <1>16 DEF CallsTyped, TabRec, QuoteRec, BoardsTyped, RoverOpens, OpensOn, QuoteAt
  <2>4. HandlesOpen'
    BY <1>0, <1>16 DEF BoardsTyped, RunsTyped, CallsTyped, TabRec, QuoteRec, HandlesOpen, RoverOpens, OpensOn, QuoteAt
  <2>5. LockPlace'
    BY <1>0, <1>16 DEF BoardsTyped, RunsTyped, CallsTyped, TabRec, QuoteRec, LockPlace, RoverOpens, OpensOn, QuoteAt
  <2>6. QuoteStill'
    BY <1>0, <1>16 DEF BoardsTyped, RunsTyped, CallsTyped, TabRec, QuoteRec, QuoteStill, LockPlace, RoverOpens, OpensOn, QuoteAt
  <2>7. Tracking'
    BY <1>0, <1>16 DEF BoardsTyped, RunsTyped, CallsTyped, TabRec, QuoteRec, HandlesOpen, LockPlace, Tracking, RoverOpens, OpensOn, QuoteAt
  <2> QED
    BY <2>1, <2>2, <2>3, <2>4, <2>5, <2>6, <2>7 DEF SportsInv, SportsTyped
<1>17. CASE RoverGoes
  <2>1. BoardsTyped'
    BY <1>0, <1>17 DEF BoardsTyped, RunsTyped, CallsTyped, TabRec, QuoteRec, RoverGoes, QuoteAt, Up
  <2>2. RunsTyped'
    BY <1>0, <1>17 DEF RunsTyped, RoverGoes, QuoteAt, Up
  <2>3. CallsTyped'
    BY <1>0, <1>17 DEF CallsTyped, TabRec, QuoteRec, BoardsTyped, RoverGoes, QuoteAt, Up
  <2>4. HandlesOpen'
    BY <1>0, <1>17 DEF BoardsTyped, RunsTyped, CallsTyped, TabRec, QuoteRec, HandlesOpen, RoverGoes, QuoteAt, Up
  <2>5. LockPlace'
    BY <1>0, <1>17 DEF BoardsTyped, RunsTyped, CallsTyped, TabRec, QuoteRec, LockPlace, RoverGoes, QuoteAt, Up
  <2>6. QuoteStill'
    BY <1>0, <1>17 DEF BoardsTyped, RunsTyped, CallsTyped, TabRec, QuoteRec, QuoteStill, LockPlace, RoverGoes, QuoteAt, Up
  <2>7. Tracking'
    BY <1>0, <1>17 DEF BoardsTyped, RunsTyped, CallsTyped, TabRec, QuoteRec, HandlesOpen, LockPlace, Tracking, RoverGoes, QuoteAt, Up
  <2> QED
    BY <2>1, <2>2, <2>3, <2>4, <2>5, <2>6, <2>7 DEF SportsInv, SportsTyped
<1>18. CASE RoverFails
  <2>1. BoardsTyped'
    BY <1>0, <1>18 DEF BoardsTyped, RoverFails, QuoteOver, NoQuote
  <2>2. RunsTyped'
    BY <1>0, <1>18 DEF RunsTyped, RoverFails, QuoteOver, NoQuote
  <2>3. CallsTyped'
    BY <1>0, <1>18 DEF CallsTyped, TabRec, QuoteRec, BoardsTyped, RoverFails, QuoteOver, NoQuote
  <2>4. HandlesOpen'
    BY <1>0, <1>18 DEF BoardsTyped, RunsTyped, CallsTyped, TabRec, QuoteRec, HandlesOpen, RoverFails, QuoteOver, NoQuote
  <2>5. LockPlace'
    BY <1>0, <1>18 DEF BoardsTyped, RunsTyped, CallsTyped, TabRec, QuoteRec, LockPlace, RoverFails, QuoteOver, NoQuote
  <2>6. QuoteStill'
    BY <1>0, <1>18 DEF BoardsTyped, RunsTyped, CallsTyped, TabRec, QuoteRec, QuoteStill, LockPlace, RoverFails, QuoteOver, NoQuote
  <2>7. Tracking'
    BY <1>0, <1>18 DEF BoardsTyped, RunsTyped, CallsTyped, TabRec, QuoteRec, HandlesOpen, LockPlace, Tracking, RoverFails, QuoteOver, NoQuote
  <2> QED
    BY <2>1, <2>2, <2>3, <2>4, <2>5, <2>6, <2>7 DEF SportsInv, SportsTyped
<1>19. CASE SlipCloses
  <2>1. BoardsTyped'
    BY <1>0, <1>19 DEF BoardsTyped, SlipCloses
  <2>2. RunsTyped'
    BY <1>0, <1>19 DEF RunsTyped, SlipCloses
  <2>3. CallsTyped'
    BY <1>0, <1>19 DEF CallsTyped, TabRec, QuoteRec, BoardsTyped, SlipCloses
  <2>4. HandlesOpen'
    BY <1>0, <1>19 DEF BoardsTyped, RunsTyped, CallsTyped, TabRec, QuoteRec, HandlesOpen, SlipCloses
  <2>5. LockPlace'
    BY <1>0, <1>19 DEF BoardsTyped, RunsTyped, CallsTyped, TabRec, QuoteRec, LockPlace, SlipCloses
  <2>6. QuoteStill'
    BY <1>0, <1>19 DEF BoardsTyped, RunsTyped, CallsTyped, TabRec, QuoteRec, QuoteStill, LockPlace, SlipCloses
  <2>7. Tracking'
    BY <1>0, <1>19 DEF BoardsTyped, RunsTyped, CallsTyped, TabRec, QuoteRec, HandlesOpen, LockPlace, Tracking, SlipCloses
  <2> QED
    BY <2>1, <2>2, <2>3, <2>4, <2>5, <2>6, <2>7 DEF SportsInv, SportsTyped
<1>20. ASSUME NEW s \in Sports, QuoteBegins(s) PROVE SportsInv'
  <2>1. /\ lock = "free" /\ lock' = "quote" /\ quote' = [step |-> "tab", sport |-> s, page |-> NoPage, calm |-> started]
        /\ quiet' = {t \in Sports : gestures[t] # NoPage} /\ CallsTab("quote", s)
        /\ UNCHANGED <<shows, rows, rover, gestures, ended, slip, started, parker, walker, happened>>
    BY <1>20 DEF QuoteBegins
  <2>2. /\ parked' \in [Sports -> Handles] /\ \A t \in Sports : parked'[t] \in {parked[t], Observing}
        /\ tab' \in [Callers -> TabRec] /\ \A d \in Callers : tab'[d].step # "none" => tab'[d].sport \in Sports
        /\ tab'["parker"] = tab["parker"] /\ tab'["quote"].step # "none" /\ tab'["quote"].sport = s
        /\ tab'["quote"].step = "opening" => parked'[s] \notin Pages
    BY <1>0, <2>1, CallsTabKeeps
  <2>3. quote' \in QuoteRec /\ quote'.step = "tab" /\ quote'.sport = s /\ quote'.page = NoPage /\ quote'.calm = started
    BY <1>0, <2>1 DEF QuoteRec, RunsTyped
  <2>4. BoardsTyped'
    BY <1>0, <2>1, <2>2 DEF BoardsTyped
  <2>5. RunsTyped'
    BY <1>0, <2>1 DEF RunsTyped
  <2>6. CallsTyped'
    BY <1>0, <2>1, <2>2, <2>3 DEF CallsTyped
  <2>7. HandlesOpen'
    BY <1>0, <2>1, <2>2, <2>3, SMTT(30) DEF HandlesOpen, BoardsTyped
  <2>8. LockPlace'
    BY <1>0, <2>1, <2>2, <2>3 DEF LockPlace
  <2>9. QuoteStill'
    BY <1>0, <2>1 DEF QuoteStill
  <2>10. Tracking'
    BY <1>0, <2>1, <2>2, <2>3 DEF LockPlace, Tracking
  <2> QED
    BY <2>4, <2>5, <2>6, <2>7, <2>8, <2>9, <2>10 DEF SportsInv, SportsTyped
<1>21. ASSUME NEW s \in Sports, OrganicEnds(s) PROVE SportsInv'
  <2>1. BoardsTyped'
    BY <1>0, <1>21 DEF BoardsTyped, OrganicEnds
  <2>2. RunsTyped'
    BY <1>0, <1>21 DEF RunsTyped, OrganicEnds
  <2>3. CallsTyped'
    BY <1>0, <1>21 DEF CallsTyped, TabRec, QuoteRec, BoardsTyped, OrganicEnds
  <2>4. HandlesOpen'
    BY <1>0, <1>21 DEF BoardsTyped, RunsTyped, CallsTyped, TabRec, QuoteRec, HandlesOpen, OrganicEnds
  <2>5. LockPlace'
    BY <1>0, <1>21 DEF BoardsTyped, RunsTyped, CallsTyped, TabRec, QuoteRec, LockPlace, OrganicEnds
  <2>6. QuoteStill'
    BY <1>0, <1>21 DEF BoardsTyped, RunsTyped, CallsTyped, TabRec, QuoteRec, QuoteStill, LockPlace, OrganicEnds
  <2>7. Tracking'
    BY <1>0, <1>21 DEF BoardsTyped, RunsTyped, CallsTyped, TabRec, QuoteRec, HandlesOpen, LockPlace, Tracking, OrganicEnds
  <2> QED
    BY <2>1, <2>2, <2>3, <2>4, <2>5, <2>6, <2>7 DEF SportsInv, SportsTyped
<1>22. ASSUME NEW s \in Sports, WalkDue(s) \/ Overdue \/ WalkGoes PROVE SportsInv'
  <2>1. BoardsTyped'
    BY <1>0, <1>22 DEF BoardsTyped, WalkDue, Overdue, WalkGoes, WalkerAt, Happened
  <2>2. RunsTyped'
    BY <1>0, <1>22 DEF RunsTyped, WalkDue, Overdue, WalkGoes, WalkerAt, Happened
  <2>3. CallsTyped'
    BY <1>0, <1>22 DEF CallsTyped, TabRec, QuoteRec, BoardsTyped, WalkDue, Overdue, WalkGoes, WalkerAt, Happened
  <2>4. HandlesOpen'
    BY <1>0, <1>22 DEF BoardsTyped, RunsTyped, CallsTyped, TabRec, QuoteRec, HandlesOpen, WalkDue, Overdue, WalkGoes, WalkerAt, Happened
  <2>5. LockPlace'
    BY <1>0, <1>22 DEF BoardsTyped, RunsTyped, CallsTyped, TabRec, QuoteRec, LockPlace, WalkDue, Overdue, WalkGoes, WalkerAt, Happened
  <2>6. QuoteStill'
    BY <1>0, <1>22 DEF BoardsTyped, RunsTyped, CallsTyped, TabRec, QuoteRec, QuoteStill, LockPlace, WalkDue, Overdue, WalkGoes, WalkerAt, Happened
  <2>7. Tracking'
    BY <1>0, <1>22 DEF BoardsTyped, RunsTyped, CallsTyped, TabRec, QuoteRec, HandlesOpen, LockPlace, Tracking, WalkDue, Overdue, WalkGoes, WalkerAt, Happened
  <2> QED
    BY <2>1, <2>2, <2>3, <2>4, <2>5, <2>6, <2>7 DEF SportsInv, SportsTyped
<1>23. ASSUME NEW ok \in BOOLEAN, Walked(ok) PROVE SportsInv'
  <2>1. BoardsTyped'
    BY <1>0, <1>23 DEF BoardsTyped, RunsTyped, CallsTyped, TabRec, QuoteRec, Walked, WalkerAt
  <2>2. RunsTyped'
    BY <1>0, <1>23 DEF RunsTyped, Walked, WalkerAt
  <2>3. CallsTyped'
    BY <1>0, <1>23 DEF CallsTyped, TabRec, QuoteRec, BoardsTyped, Walked, WalkerAt
  <2>4. HandlesOpen'
    BY <1>0, <1>23 DEF BoardsTyped, RunsTyped, CallsTyped, TabRec, QuoteRec, HandlesOpen, Walked, WalkerAt
  <2>5. LockPlace'
    BY <1>0, <1>23 DEF BoardsTyped, RunsTyped, CallsTyped, TabRec, QuoteRec, LockPlace, Walked, WalkerAt
  <2>6. QuoteStill'
    BY <1>0, <1>23 DEF BoardsTyped, RunsTyped, CallsTyped, TabRec, QuoteRec, QuoteStill, LockPlace, Walked, WalkerAt
  <2>7. Tracking'
    BY <1>0, <1>23 DEF BoardsTyped, RunsTyped, CallsTyped, TabRec, QuoteRec, HandlesOpen, LockPlace, Tracking, Walked, WalkerAt
  <2> QED
    BY <2>1, <2>2, <2>3, <2>4, <2>5, <2>6, <2>7 DEF SportsInv, SportsTyped
<1>24. ASSUME NEW p \in Pages, OperatorCloses(p) PROVE SportsInv'
  <2>1. p \in Pages /\ p # Observing /\ Closes(p)
    BY <1>24 DEF OperatorCloses, Up, Happened
  <2>2. BoardsTyped'
    BY <1>0, <1>24, <2>1, ClosesKeeps DEF BoardsTyped, RunsTyped, CallsTyped, TabRec, QuoteRec, OperatorCloses, Up, Happened
  <2>3. RunsTyped'
    BY <1>0, <1>24, <2>1, ClosesKeeps DEF RunsTyped, OperatorCloses, Up, Happened
  <2>4. CallsTyped'
    BY <1>0, <1>24, <2>1, ClosesKeeps DEF CallsTyped, TabRec, QuoteRec, BoardsTyped, OperatorCloses, Up, Happened
  <2>5. HandlesOpen'
    BY <1>0, <2>1, ClosesKeeps
  <2>6. LockPlace'
    BY <1>0, <1>24, <2>1, ClosesKeeps DEF BoardsTyped, RunsTyped, CallsTyped, TabRec, QuoteRec, LockPlace, OperatorCloses, Up, Happened
  <2>7. QuoteStill'
    BY <1>0, <1>24, <2>1, ClosesKeeps, ZenonT(40) DEF BoardsTyped, RunsTyped, CallsTyped, TabRec, QuoteRec, QuoteStill, LockPlace, OperatorCloses, Up, Happened
  <2>8. Tracking'
    <3>1. UNCHANGED <<started, parker>>
      BY <1>24 DEF OperatorCloses
    <3>2. /\ \A c \in Callers : tab'[c].step = tab[c].step /\ tab'[c].sport = tab[c].sport
          /\ quote'.step = quote.step /\ quote'.calm = quote.calm
          /\ \A s \in Sports : parked'[s] = parked[s] \/ parked'[s] = Shut
          /\ rover' = rover \/ rover' = Shut
          /\ quote'.page = quote.page \/ quote'.page = Shut
      BY <1>0, <2>1, ClosesKeeps
    <3>3. Shut \notin Pages /\ Shut # Observing
      OBVIOUS
    <3>4. \A c \in Callers : tab[c].step = "opening" => tab[c].sport \in Sports
      BY <1>0 DEF CallsTyped
    <3> QED
      BY <1>0, <3>1, <3>2, <3>3, <3>4 DEF Tracking
  <2> QED
    BY <2>2, <2>3, <2>4, <2>5, <2>6, <2>7, <2>8 DEF SportsInv, SportsTyped
<1>25. ASSUME NEW p \in Pages, OperatorWanders(p) PROVE SportsInv'
  <2>1. BoardsTyped'
    BY <1>0, <1>25 DEF BoardsTyped, OperatorWanders, Up, Happened
  <2>2. RunsTyped'
    BY <1>0, <1>25 DEF RunsTyped, OperatorWanders, Up, Happened
  <2>3. CallsTyped'
    BY <1>0, <1>25 DEF CallsTyped, TabRec, QuoteRec, BoardsTyped, OperatorWanders, Up, Happened
  <2>4. HandlesOpen'
    BY <1>0, <1>25 DEF BoardsTyped, RunsTyped, CallsTyped, TabRec, QuoteRec, HandlesOpen, OperatorWanders, Up, Happened
  <2>5. LockPlace'
    BY <1>0, <1>25 DEF BoardsTyped, RunsTyped, CallsTyped, TabRec, QuoteRec, LockPlace, OperatorWanders, Up, Happened
  <2>6. QuoteStill'
    BY <1>0, <1>25 DEF BoardsTyped, RunsTyped, CallsTyped, TabRec, QuoteRec, QuoteStill, LockPlace, OperatorWanders, Up, Happened
  <2>7. Tracking'
    BY <1>0, <1>25 DEF BoardsTyped, RunsTyped, CallsTyped, TabRec, QuoteRec, HandlesOpen, LockPlace, Tracking, OperatorWanders, Up, Happened
  <2> QED
    BY <2>1, <2>2, <2>3, <2>4, <2>5, <2>6, <2>7 DEF SportsInv, SportsTyped
<1>26. CASE UNCHANGED sportVars
  <2>1. BoardsTyped'
    BY <1>0, <1>26 DEF BoardsTyped
  <2>2. RunsTyped'
    BY <1>0, <1>26 DEF RunsTyped
  <2>3. CallsTyped'
    BY <1>0, <1>26 DEF CallsTyped, TabRec, QuoteRec, BoardsTyped
  <2>4. HandlesOpen'
    BY <1>0, <1>26 DEF BoardsTyped, RunsTyped, CallsTyped, TabRec, QuoteRec, HandlesOpen
  <2>5. LockPlace'
    BY <1>0, <1>26 DEF BoardsTyped, RunsTyped, CallsTyped, TabRec, QuoteRec, LockPlace
  <2>6. QuoteStill'
    BY <1>0, <1>26 DEF BoardsTyped, RunsTyped, CallsTyped, TabRec, QuoteRec, QuoteStill, LockPlace
  <2>7. Tracking'
    BY <1>0, <1>26 DEF BoardsTyped, RunsTyped, CallsTyped, TabRec, QuoteRec, HandlesOpen, LockPlace, Tracking
  <2> QED
    BY <2>1, <2>2, <2>3, <2>4, <2>5, <2>6, <2>7 DEF SportsInv, SportsTyped
<1> QED
  BY <1>1, <1>2, <1>3, <1>4, <1>5, <1>6, <1>7, <1>8, <1>9, <1>10, <1>11, <1>12, <1>13, <1>14, <1>15, <1>16, <1>17, <1>18, <1>19, <1>20, <1>21, <1>22, <1>23, <1>24, <1>25, <1>26
     DEF SportTabsNext, Parks, QuoteMoves, TabMoves

\* What a step makes of the pages: the bot closes one only in a reset.
LEMMA ShownNext ==
  ASSUME SportsTyped, [SportTabsNext]_sportVars
  PROVE  \/ shows' = shows
         \/ \E p \in Pages, v \in Sports \cup {"else"} : shows' = [shows EXCEPT ![p] = v]
         \/ parker.step \in {"closing", "roving"}
         \/ happened' = happened + 1
<1> USE SportsConstants
<1>0. BoardsTyped /\ RunsTyped /\ CallsTyped
  BY DEF SportsTyped
<1>1. ASSUME ParkCalls PROVE shows' = shows
  BY <1>1 DEF ParkCalls, CallsTab, TabAt, Up, Target, NoTab
<1>2. ASSUME ParkedOne PROVE shows' = shows
  BY <1>2 DEF ParkedOne, Up, Target, NoTab
<1>3. ASSUME AllParked PROVE shows' = shows
  BY <1>3 DEF AllParked
<1>4. ASSUME ResetStarts PROVE shows' = shows
  BY <1>4 DEF ResetStarts, Resetting
<1>5. ASSUME NEW ok \in BOOLEAN, ResetReloads(ok) PROVE shows' = shows
  BY <1>5 DEF ResetReloads, Target
<1>6. ASSUME ResetCloses PROVE parker.step \in {"closing", "roving"}
  BY <1>6 DEF ResetCloses, Closeable, Up, Target
<1>7. ASSUME ResetSkips PROVE shows' = shows
  BY <1>7 DEF ResetSkips, Up, Target
<1>8. ASSUME ResetClears PROVE shows' = shows
  BY <1>8 DEF ResetClears
<1>9. ASSUME ResetRover PROVE parker.step \in {"closing", "roving"}
  BY <1>9 DEF ResetRover, Up
<1>10. ASSUME NEW c \in Callers, TabOpens(c) PROVE shows' = shows \/ \E p \in Pages, v \in Sports \cup {"else"} : shows' = [shows EXCEPT ![p] = v]
  <2>1. PICK p \in Pages : shows' = [shows EXCEPT ![p] = "else"]
    BY <1>10 DEF TabOpens
  <2> QED
    BY <2>1
<1>11. ASSUME NEW c \in Callers, TabFails(c) PROVE shows' = shows
  BY <1>11 DEF TabFails, QuoteOver, NoTab, NoQuote
<1>12. ASSUME NEW c \in Callers, TabExpands(c) PROVE shows' = shows
  BY <1>12 DEF TabExpands
<1>13. ASSUME NEW c \in Callers, NEW ok \in BOOLEAN, TabGoes(c, ok) PROVE shows' = shows \/ \E p \in Pages, v \in Sports \cup {"else"} : shows' = [shows EXCEPT ![p] = v]
  BY <1>0, <1>13 DEF TabGoes, Up, BoardsTyped, RunsTyped, CallsTyped, TabRec, QuoteRec
<1>14. ASSUME NEW b \in BOOLEAN, QuoteLooks(b) PROVE shows' = shows
  BY <1>14 DEF QuoteLooks, QuoteAt, Up, NoTab
<1>15. ASSUME NEW b \in BOOLEAN, QuoteClicks(b) PROVE shows' = shows
  BY <1>15 DEF QuoteClicks, QuoteOver, NoQuote
<1>16. ASSUME RoverOpens PROVE shows' = shows \/ \E p \in Pages, v \in Sports \cup {"else"} : shows' = [shows EXCEPT ![p] = v]
  <2>1. PICK p \in Pages : shows' = [shows EXCEPT ![p] = "else"]
    BY <1>16 DEF RoverOpens
  <2> QED
    BY <2>1
<1>17. ASSUME RoverGoes PROVE shows' = shows \/ \E p \in Pages, v \in Sports \cup {"else"} : shows' = [shows EXCEPT ![p] = v]
  BY <1>0, <1>17 DEF RoverGoes, QuoteAt, Up, BoardsTyped, RunsTyped, CallsTyped, TabRec, QuoteRec
<1>18. ASSUME RoverFails PROVE shows' = shows
  BY <1>18 DEF RoverFails, QuoteOver, NoQuote
<1>19. ASSUME SlipCloses PROVE shows' = shows
  BY <1>19 DEF SlipCloses
<1>20. ASSUME NEW s \in Sports, QuoteBegins(s) PROVE shows' = shows
  BY <1>20 DEF QuoteBegins, CallsTab, TabAt, Up
<1>21. ASSUME NEW s \in Sports, OrganicEnds(s) PROVE shows' = shows
  BY <1>21 DEF OrganicEnds
<1>22. ASSUME NEW s \in Sports, WalkDue(s) \/ Overdue \/ WalkGoes PROVE shows' = shows
  BY <1>22 DEF WalkDue, Overdue, WalkGoes, WalkerAt, Happened
<1>23. ASSUME NEW ok \in BOOLEAN, Walked(ok) PROVE shows' = shows \/ \E p \in Pages, v \in Sports \cup {"else"} : shows' = [shows EXCEPT ![p] = v]
  <2>1. walker.sport \in Sports /\ Observing \in Pages
    BY <1>0, <1>23 DEF Walked, RunsTyped
  <2>2. shows' = shows \/ shows' = [shows EXCEPT ![Observing] = walker.sport]
    BY <1>23 DEF Walked
  <2> QED
    BY <2>1, <2>2
<1>24. ASSUME NEW p \in Pages, OperatorCloses(p) PROVE happened' = happened + 1
  BY <1>24 DEF OperatorCloses, Up, Happened
<1>25. ASSUME NEW p \in Pages, OperatorWanders(p) PROVE happened' = happened + 1
  BY <1>25 DEF OperatorWanders, Up, Happened
<1>26. ASSUME UNCHANGED sportVars PROVE shows' = shows
  BY <1>26
<1> QED
  BY <1>1, <1>2, <1>3, <1>4, <1>5, <1>6, <1>7, <1>8, <1>9, <1>10, <1>11, <1>12, <1>13, <1>14, <1>15, <1>16, <1>17, <1>18, <1>19, <1>20, <1>21, <1>22, <1>23, <1>24, <1>25, <1>26
     DEF SportTabsNext, Parks, QuoteMoves, TabMoves

LEMMA QuoteKeptStep == SportsInv /\ [SportTabsNext]_sportVars =>
  (quote.page \in Pages /\ happened' = happened => shows'[quote.page] # "free")
<1> SUFFICES ASSUME SportsInv, [SportTabsNext]_sportVars, quote.page \in Pages, happened' = happened
             PROVE  shows'[quote.page] # "free"
  OBVIOUS
<1>1. BoardsTyped /\ RunsTyped /\ SportsTyped /\ HandlesOpen /\ LockPlace /\ Tracking
  BY DEF SportsInv, SportsTyped
<1>2. shows[quote.page] # "free" /\ lock = "quote" /\ parker.step \notin {"closing", "roving"}
  BY <1>1 DEF HandlesOpen, LockPlace, Tracking
<1>3. happened' # happened + 1
  BY <1>1 DEF RunsTyped
<1>4. \/ shows' = shows
      \/ \E p \in Pages, v \in Sports \cup {"else"} : shows' = [shows EXCEPT ![p] = v]
  BY <1>1, <1>2, <1>3, ShownNext
<1> QED
  BY <1>1, <1>2, <1>4, SportsConstants DEF BoardsTyped

\* No tab is lost when each new one is parked or roves, and each handle that goes was dead.
LEMMA OrphansKept ==
  ASSUME BoardsTyped,
         \A p \in Pages : shows[p] = "free" /\ shows'[p] # "free" => p = rover' \/ \E s \in Sports : parked'[s] = p,
         \A s \in Sports : parked[s] \in Pages \ {Observing} =>
            shows'[parked[s]] = "free" \/ \E t \in Sports : parked'[t] = parked[s],
         rover \in Pages => shows'[rover] = "free" \/ rover' = rover
  PROVE  Orphans' \subseteq Orphans
BY DEF Orphans

LEMMA ClosesOrphans ==
  ASSUME SportsTyped, HandlesOpen, NEW p \in Pages, p # Observing, Closes(p)
  PROVE  Orphans' \subseteq Orphans
<1> USE SportsConstants
<1>1. /\ \A s \in Sports : parked'[s] = IF parked[s] = p THEN Shut ELSE parked[s]
      /\ rover' = IF rover = p THEN Shut ELSE rover
      /\ \A q \in Pages : q # p => shows'[q] = shows[q]
  BY ClosesKeeps
<1>2. shows'[p] = "free"
  BY DEF Closes, SportsTyped, BoardsTyped
<1>3. \A q \in Pages : shows[q] = "free" => shows'[q] = "free"
  BY <1>1, <1>2
<1>4. \A s \in Sports : parked[s] \in Pages => shows'[parked[s]] = "free" \/ parked'[s] = parked[s]
  BY <1>1, <1>2
<1>5. rover \in Pages => shows'[rover] = "free" \/ rover' = rover
  BY <1>1, <1>2
<1> QED
  BY <1>3, <1>4, <1>5, OrphansKept DEF SportsTyped

LEMMA OrphansStep == SportsInv /\ [SportTabsNext]_sportVars => (Settled => Orphans' \subseteq Orphans)
<1> SUFFICES ASSUME SportsInv, [SportTabsNext]_sportVars, started = TRUE, quote.step # "idle" => quote.calm = TRUE
             PROVE  Orphans' \subseteq Orphans
  BY DEF Settled, SportsInv, SportsTyped, RunsTyped, CallsTyped, QuoteRec
<1> USE SportsConstants
<1>0. SportsTyped /\ BoardsTyped /\ RunsTyped /\ CallsTyped /\ HandlesOpen /\ LockPlace /\ Tracking
  BY DEF SportsInv, SportsTyped
<1>a. ASSUME UNCHANGED <<rover, parked>>, \A p \in Pages : shows[p] = "free" => shows'[p] = "free"
      PROVE  Orphans' \subseteq Orphans
  BY <1>0, <1>a, OrphansKept
<1>1. CASE ParkCalls
  <2>1. UNCHANGED <<shows, rover>> /\ CallsTab("parker", Target)
    BY <1>1 DEF ParkCalls
  <2>2. \/ parked' = parked
        \/ parked[Target] = NoPage /\ parked' = [parked EXCEPT ![Target] = Observing]
    BY <2>1 DEF CallsTab
  <2>3. \A t \in Sports : parked[t] \in Pages => parked'[t] = parked[t]
    BY <1>0, <2>2 DEF BoardsTyped
  <2> QED
    BY <1>0, <2>1, <2>3, OrphansKept
<1>2. CASE ParkedOne
  <2>1. UNCHANGED <<shows, rover, parked>>
    BY <1>2 DEF ParkedOne, Up, Target, NoTab
  <2> QED
    BY <2>1, <1>a
<1>3. CASE AllParked
  <2>1. UNCHANGED <<shows, rover, parked>>
    BY <1>3 DEF AllParked
  <2> QED
    BY <2>1, <1>a
<1>4. CASE ResetStarts
  <2>1. UNCHANGED <<shows, rover, parked>>
    BY <1>4 DEF ResetStarts, Resetting
  <2> QED
    BY <2>1, <1>a
<1>5. ASSUME NEW ok \in BOOLEAN, ResetReloads(ok) PROVE Orphans' \subseteq Orphans
  <2>1. UNCHANGED <<shows, rover, parked>>
    BY <1>5 DEF ResetReloads, Target
  <2> QED
    BY <2>1, <1>a
<1>6. CASE ResetCloses
  <2>1. parked[Target] \in Pages /\ parked[Target] # Observing /\ Closes(parked[Target])
    BY <1>6 DEF ResetCloses, Closeable, Up, Target
  <2> QED
    BY <1>0, <2>1, ClosesOrphans
<1>7. CASE ResetSkips
  <2>1. UNCHANGED <<shows, rover, parked>>
    BY <1>7 DEF ResetSkips, Up, Target
  <2> QED
    BY <2>1, <1>a
<1>8. CASE ResetClears
  <2>1. UNCHANGED <<shows, rover>> /\ parker.step = "closing" /\ parker.at > Len(Targets)
    BY <1>8 DEF ResetClears
  <2>2. \A i \in 1 .. Len(Targets) : parked[Targets[i]] \notin Pages \ {Observing}
    BY <1>0, <2>1 DEF Tracking, RunsTyped
  <2>3. \A s \in Sports : parked[s] \notin Pages \ {Observing}
    BY <2>2 DEF Sports
  <2> QED
    BY <1>0, <2>1, <2>3, OrphansKept
<1>9. CASE ResetRover
  <2>1. CASE Up(rover)
    <3>1. rover \in Pages /\ rover # Observing /\ Closes(rover)
      BY <1>0, <1>9, <2>1 DEF ResetRover, Up, Tracking
    <3> QED
      BY <1>0, <3>1, ClosesOrphans
  <2>2. CASE ~Up(rover)
    <3>1. UNCHANGED <<shows, parked>> /\ rover \notin Pages
      BY <1>0, <1>9, <2>2 DEF ResetRover, Up, HandlesOpen
    <3> QED
      BY <1>0, <3>1, OrphansKept
  <2> QED
    BY <2>1, <2>2
<1>10. ASSUME NEW c \in Callers, TabOpens(c) PROVE Orphans' \subseteq Orphans
  <2> DEFINE s == tab[c].sport
  <2>1. s \in Sports /\ tab[c].step = "opening" /\ UNCHANGED rover
    BY <1>0, <1>10 DEF TabOpens, CallsTyped
  <2>2. PICK p \in Pages : shows' = [shows EXCEPT ![p] = "else"] /\ parked' = [parked EXCEPT ![s] = p]
    BY <1>10 DEF TabOpens
  <2>3. parked[s] \notin Pages
    <3>1. CASE c = "quote"
      <4>1. quote.step # "idle"
        BY <1>0, <2>1, <3>1 DEF LockPlace
      <4> QED
        BY <1>0, <2>1, <3>1, <4>1 DEF Tracking
    <3>2. CASE c = "parker"
      BY <1>0, <2>1, <3>2 DEF Tracking
    <3> QED
      BY <3>1, <3>2
  <2> HIDE DEF s
  <2>4. \A t \in Sports : parked[t] \in Pages => parked'[t] = parked[t]
    BY <1>0, <2>1, <2>2, <2>3 DEF BoardsTyped
  <2>5. parked'[s] = p /\ \A x \in Pages : x # p => shows'[x] = shows[x]
    BY <1>0, <2>1, <2>2 DEF BoardsTyped
  <2> QED
    BY <1>0, <2>1, <2>4, <2>5, OrphansKept
<1>11. ASSUME NEW c \in Callers, TabFails(c) PROVE Orphans' \subseteq Orphans
  <2>1. UNCHANGED <<shows, rover, parked>>
    BY <1>11 DEF TabFails, QuoteOver, NoTab, NoQuote
  <2> QED
    BY <2>1, <1>a
<1>12. ASSUME NEW c \in Callers, TabExpands(c) PROVE Orphans' \subseteq Orphans
  <2>1. UNCHANGED <<shows, rover, parked>>
    BY <1>12 DEF TabExpands
  <2> QED
    BY <2>1, <1>a
<1>13. ASSUME NEW c \in Callers, NEW ok \in BOOLEAN, TabGoes(c, ok) PROVE Orphans' \subseteq Orphans
  <2>1. UNCHANGED <<rover, parked>>
    BY <1>13 DEF TabGoes
  <2>2. \A x \in Pages : shows[x] = "free" => shows'[x] = "free"
    BY <1>0, <1>13 DEF BoardsTyped, TabGoes, Up
  <2> QED
    BY <2>1, <2>2, <1>a
<1>14. ASSUME NEW b \in BOOLEAN, QuoteLooks(b) PROVE Orphans' \subseteq Orphans
  <2>1. UNCHANGED <<shows, rover, parked>>
    BY <1>14 DEF QuoteLooks, QuoteAt, Up, NoTab
  <2> QED
    BY <2>1, <1>a
<1>15. ASSUME NEW b \in BOOLEAN, QuoteClicks(b) PROVE Orphans' \subseteq Orphans
  <2>1. UNCHANGED <<shows, rover, parked>>
    BY <1>15 DEF QuoteClicks, QuoteOver, NoQuote
  <2> QED
    BY <2>1, <1>a
<1>16. CASE RoverOpens
  <2>1. PICK p \in Pages : shows' = [shows EXCEPT ![p] = "else"] /\ rover' = p
    BY <1>16 DEF RoverOpens
  <2>2. UNCHANGED parked /\ rover \notin Pages
    BY <1>0, <1>16 DEF RoverOpens, Tracking
  <2>3. \A x \in Pages : x # p => shows'[x] = shows[x]
    BY <1>0, <2>1 DEF BoardsTyped
  <2> QED
    BY <1>0, <2>1, <2>2, <2>3, OrphansKept
<1>17. CASE RoverGoes
  <2>1. UNCHANGED <<rover, parked>>
    BY <1>17 DEF RoverGoes
  <2>2. \A x \in Pages : shows[x] = "free" => shows'[x] = "free"
    BY <1>0, <1>17 DEF BoardsTyped, RoverGoes, QuoteAt, Up
  <2> QED
    BY <2>1, <2>2, <1>a
<1>18. CASE RoverFails
  <2>1. UNCHANGED <<shows, rover, parked>>
    BY <1>18 DEF RoverFails, QuoteOver, NoQuote
  <2> QED
    BY <2>1, <1>a
<1>19. CASE SlipCloses
  <2>1. UNCHANGED <<shows, rover, parked>>
    BY <1>19 DEF SlipCloses
  <2> QED
    BY <2>1, <1>a
<1>20. ASSUME NEW s \in Sports, QuoteBegins(s) PROVE Orphans' \subseteq Orphans
  <2>1. UNCHANGED <<shows, rover>> /\ CallsTab("quote", s)
    BY <1>20 DEF QuoteBegins
  <2>2. \/ parked' = parked
        \/ parked[s] = NoPage /\ parked' = [parked EXCEPT ![s] = Observing]
    BY <2>1 DEF CallsTab
  <2>3. \A t \in Sports : parked[t] \in Pages => parked'[t] = parked[t]
    BY <1>0, <2>2 DEF BoardsTyped
  <2> QED
    BY <1>0, <2>1, <2>3, OrphansKept
<1>21. ASSUME NEW s \in Sports, OrganicEnds(s) PROVE Orphans' \subseteq Orphans
  <2>1. UNCHANGED <<shows, rover, parked>>
    BY <1>21 DEF OrganicEnds
  <2> QED
    BY <2>1, <1>a
<1>22. ASSUME NEW s \in Sports, WalkDue(s) \/ Overdue \/ WalkGoes PROVE Orphans' \subseteq Orphans
  <2>1. UNCHANGED <<shows, rover, parked>>
    BY <1>22 DEF WalkDue, Overdue, WalkGoes, WalkerAt, Happened
  <2> QED
    BY <2>1, <1>a
<1>23. ASSUME NEW ok \in BOOLEAN, Walked(ok) PROVE Orphans' \subseteq Orphans
  <2>1. UNCHANGED <<rover, parked>>
    BY <1>23 DEF Walked
  <2>2. \A x \in Pages : shows[x] = "free" => shows'[x] = "free"
    BY <1>0, <1>23 DEF BoardsTyped, Walked, WalkerAt
  <2> QED
    BY <2>1, <2>2, <1>a
<1>24. ASSUME NEW p \in Pages, OperatorCloses(p) PROVE Orphans' \subseteq Orphans
  <2>1. p \in Pages /\ p # Observing /\ Closes(p)
    BY <1>24 DEF OperatorCloses, Up, Happened
  <2> QED
    BY <1>0, <2>1, ClosesOrphans
<1>25. ASSUME NEW p \in Pages, OperatorWanders(p) PROVE Orphans' \subseteq Orphans
  <2>1. UNCHANGED <<rover, parked>>
    BY <1>25 DEF OperatorWanders
  <2>2. \A x \in Pages : shows[x] = "free" => shows'[x] = "free"
    BY <1>0, <1>25 DEF BoardsTyped, OperatorWanders, Up, Happened
  <2> QED
    BY <2>1, <2>2, <1>a
<1>26. CASE UNCHANGED sportVars
  <2>1. UNCHANGED <<shows, rover, parked>>
    BY <1>26
  <2> QED
    BY <2>1, <1>a
<1>27. Parks => Orphans' \subseteq Orphans
  BY <1>1, <1>2, <1>3, <1>4, <1>5, <1>6, <1>7, <1>8, <1>9, Zenon DEF Parks
<1>28. QuoteMoves => Orphans' \subseteq Orphans
  BY <1>14, <1>15, <1>16, <1>17, <1>18, Zenon DEF QuoteMoves
<1>29. ASSUME NEW c \in Callers, TabMoves(c) PROVE Orphans' \subseteq Orphans
  BY <1>10, <1>11, <1>12, <1>13, <1>29, Zenon DEF TabMoves
<1>30. SportTabsNext => Orphans' \subseteq Orphans
  BY <1>19, <1>20, <1>21, <1>22, <1>23, <1>24, <1>25, <1>27, <1>28, <1>29 DEF SportTabsNext
<1> QED
  BY <1>26, <1>30, Zenon

-----------------------------------------------------------------------------
(* Bookmaker *)

Statuses3 == {"none", "open", "suspended"}
\* An answer that a cycle of the refresh loop waits for, or a response that is read.
AskTyped ==
  /\ ask.pc \in {"rest", "asking"}
  /\ ask = [pc |-> ask.pc, of |-> ask.of, got |-> ask.got]
  /\ \A g \in DOMAIN ask.got : ask.got[g].says \in Offers
ReadingTyped == \A r \in reading : r.game \in Games /\ r.says \in Offers
\* A cycle that asks met no refusal yet, and a login is tried while some are left.
AskingUnlimited == ask.pc = "asking" => ~limited
TriesLeft == rec \in {"login", "submitted"} => fails < LoginTries

BookInv == BookSound /\ AskTyped /\ ReadingTyped /\ AskingUnlimited /\ TriesLeft

LEMMA BookConstants ==
  /\ BookCooldown \in Nat \ {0} /\ Longest \in Nat \ {0} /\ LoginTries \in Nat \ {0} /\ Turns \in Nat
  /\ AutoLogin \in BOOLEAN
BY BookAssumption

LEMMA EmittedType ==
  ASSUME NEW o \in Offers
  PROVE  \/ Emitted(o) = <<>> /\ ~o.live
         \/ /\ DOMAIN Emitted(o) \in {Sides, {"H", "V"}}
            /\ \A s \in DOMAIN Emitted(o) : Emitted(o)[s] \in Statuses3
            /\ o.live /\ o.line = "gone" =>
                 DOMAIN Emitted(o) = Sides /\ \A s \in Sides : Emitted(o)[s] = "suspended"
<1>1. o.line \in {"gone", "shut", "two", "three"} /\ o.live \in BOOLEAN
  BY DEF Offers
<1>2. CASE o.line = "gone" /\ ~o.live
  BY <1>2 DEF Emitted
<1>3. CASE o.line = "gone" /\ o.live
  BY <1>3 DEF Emitted, Sides, Statuses3
<1>4. CASE o.line = "shut"
  BY <1>4 DEF Emitted, Sides, Statuses3
<1>5. CASE o.line = "two"
  BY <1>5 DEF Emitted, Sides, Statuses3
<1>6. CASE o.line = "three"
  BY <1>6 DEF Emitted, Sides, Statuses3
<1> QED
  BY <1>1, <1>2, <1>3, <1>4, <1>5, <1>6

\* The cache after an answer.
LEMMA CachedType ==
  ASSUME NEW c \in [Sides -> Statuses3], NEW said,
         \A s \in DOMAIN said : said[s] \in Statuses3
  PROVE  Cached(c, said) \in [Sides -> Statuses3]
BY DEF Cached

LEMMA InterruptedType ==
  ASSUME NEW said, \A s \in DOMAIN said : said[s] \in Statuses3
  PROVE  \A s \in DOMAIN Interrupted(said) : Interrupted(said)[s] \in Statuses3
BY DEF Interrupted, Statuses3

LEMMA BackoffType ==
  ASSUME BookTypeOK, NEW hit \in BOOLEAN
  PROVE  NextBackoff(hit) \in 0 .. Longest /\ (NextBackoff(hit) > 0 <=> hit)
BY BookConstants DEF NextBackoff, BookTypeOK

LEMMA TriggerType ==
  ASSUME BookTypeOK, Trigger
  PROVE  /\ rec' \in {"idle", "reload", "look", "login", "submitted"} /\ rested' \in 0 .. BookCooldown
         /\ rec' \in {"login", "submitted"} => rec' = rec
BY BookConstants DEF Trigger, BookTypeOK

USE DEF bookVars
LEMMA BookInits == BookInit => BookInv
<1> SUFFICES ASSUME BookInit PROVE BookInv
  OBVIOUS
<1>1. Unseen \in Offers
  BY DEF Unseen, Offers
<1>2. BookTypeOK
  <2>1. book \in [Games -> Offers] /\ seen \in [Games -> Offers]
    BY <1>1 DEF BookInit
  <2>2. cache \in [Games -> [Sides -> {"none", "open", "suspended"}]]
    BY DEF BookInit
  <2>3. backoff \in 0 .. Longest /\ rested \in 0 .. BookCooldown /\ fails \in 0 .. LoginTries /\ turns \in 0 .. Turns
    BY BookConstants DEF BookInit
  <2>4. /\ active \subseteq Games /\ limited \in BOOLEAN /\ session \in {"in", "refused", "lapsed"}
        /\ rtq \in BOOLEAN /\ rec \in {"idle", "reload", "look", "login", "submitted"}
    BY DEF BookInit
  <2> QED
    BY <2>1, <2>2, <2>3, <2>4 DEF BookTypeOK
<1> QED
  BY <1>1, <1>2 DEF BookInit, BookInv, BookSound, PulledShut, BackoffMeansLimited, AskTyped, ReadingTyped,
    AskingUnlimited, TriesLeft, Unseen, Resting
LEMMA BookSteps == BookInv /\ [BookNext]_bookVars => BookInv'
<1> SUFFICES ASSUME BookInv, [BookNext]_bookVars PROVE BookInv'
  OBVIOUS
<1> USE BookConstants
<1>t. BookTypeOK
  BY DEF BookInv, BookSound
<1>1. CASE BookTurns
  BY <1>1 DEF BookTurns, BookInv, BookSound, BookTypeOK, PulledShut, BackoffMeansLimited, AskTyped, ReadingTyped,
    AskingUnlimited, TriesLeft
<1>2. CASE BookPass
  BY <1>2 DEF BookPass, BookInv, BookSound, BookTypeOK, PulledShut, BackoffMeansLimited, AskTyped, ReadingTyped,
    AskingUnlimited, TriesLeft
<1>3. CASE Captured
  BY <1>3 DEF Captured, BookInv, BookSound, BookTypeOK, PulledShut, BackoffMeansLimited, AskTyped, ReadingTyped,
    AskingUnlimited, TriesLeft
<1>4. CASE Recovering
  <2>1. PICK a \in BOOLEAN, b \in BOOLEAN, c \in BOOLEAN :
          PageBack(a) \/ Looked(a) \/ LoginSent(a, b, c) \/ Accepted(a)
    BY <1>4 DEF Recovering
  <2>2. /\ UNCHANGED <<book, cache, seen, ask, reading, active, backoff, limited, turns>>
        /\ session' \in {"in", "refused", "lapsed"} /\ rtq' \in BOOLEAN
        /\ rec' \in {"idle", "reload", "look", "login", "submitted"} /\ UNCHANGED rested
        /\ fails' \in 0 .. LoginTries /\ (rec' \in {"login", "submitted"} => fails' < LoginTries)
    BY <2>1 DEF PageBack, Looked, LoginSent, Accepted, BookInv, BookSound, BookTypeOK, TriesLeft
  <2> QED
    BY <2>2 DEF BookInv, BookSound, BookTypeOK, PulledShut, BackoffMeansLimited, AskTyped, ReadingTyped,
      AskingUnlimited, TriesLeft
<1>5. CASE RefreshStarts
  <2>1. ask' = [pc |-> ask'.pc, of |-> ask'.of, got |-> <<>>] /\ ask'.pc \in {"rest", "asking"}
    BY <1>5 DEF RefreshStarts, Resting
  <2>2. AskTyped'
    BY <2>1 DEF AskTyped
  <2>3. /\ limited' = FALSE /\ (ask'.pc = "rest" => backoff' = 0) /\ backoff' \in {backoff, 0}
        /\ UNCHANGED <<book, cache, seen, reading, active, session, rtq, rec, rested, fails, turns>>
    BY <1>5 DEF RefreshStarts, Resting
  <2>4. BookTypeOK'
    <3>1. backoff' \in 0 .. Longest /\ limited' \in BOOLEAN
      <4>1. backoff \in 0 .. Longest
        BY <1>t DEF BookTypeOK
      <4>2. 0 \in 0 .. Longest
        OBVIOUS
      <4>3. backoff' = backoff \/ backoff' = 0
        BY <2>3
      <4>4. limited' = FALSE
        BY <2>3
      <4> QED
        BY <4>1, <4>2, <4>3, <4>4
    <3> QED
      BY <1>t, <2>3, <3>1 DEF BookTypeOK
  <2> QED
    BY <1>5, <2>2, <2>3, <2>4 DEF RefreshStarts, BookInv, BookSound, PulledShut, BackoffMeansLimited, ReadingTyped,
      AskingUnlimited, TriesLeft, Resting
<1>6. CASE RefreshFails
  <2>1. backoff' = 0 /\ limited' = FALSE /\ limited = FALSE /\ ask' = Resting
    BY <1>6, BackoffType DEF RefreshFails, NextBackoff, BookInv, BookSound, BookTypeOK, AskingUnlimited
  <2>2. AskTyped'
    BY <2>1 DEF AskTyped, Resting
  <2>3. BookTypeOK' /\ TriesLeft'
    BY <1>6, <1>t, <2>1, TriggerType DEF RefreshFails, BookTypeOK, TriesLeft, BookInv
  <2> QED
    BY <1>6, <2>1, <2>2, <2>3 DEF RefreshFails, BookInv, BookSound, PulledShut, BackoffMeansLimited, ReadingTyped,
      AskingUnlimited, Resting
<1>7. CASE Refreshed
  <2> DEFINE said == {g \in DOMAIN ask.got : Emitted(ask.got[g].says) # <<>>}
             hit == \E g \in DOMAIN ask.got : ask.got[g].status \in {"429"}
  <2>1. /\ ask' = Resting
        /\ cache' = [g \in Games |-> IF g \in said THEN Cached(cache[g], Emitted(ask.got[g].says)) ELSE cache[g]]
        /\ seen' = [g \in Games |-> IF g \in said THEN ask.got[g].says ELSE seen[g]]
        /\ limited' = (limited \/ hit) /\ backoff' = NextBackoff(limited')
        /\ Trigger \/ UNCHANGED <<rec, rested>>
        /\ UNCHANGED <<book, reading, active, session, rtq, fails, turns>>
    BY <1>7 DEF Refreshed
  <2>2. limited' \in BOOLEAN /\ backoff' \in 0 .. Longest /\ (backoff' > 0 <=> limited')
    BY <2>1, <1>t, BackoffType DEF BookTypeOK
  <2>3. /\ rec' \in {"idle", "reload", "look", "login", "submitted"} /\ rested' \in 0 .. BookCooldown
        /\ rec' \in {"login", "submitted"} => rec' = rec
    BY <2>1, <1>t, TriggerType DEF BookTypeOK
  <2>4. ASSUME NEW g \in Games
        PROVE  /\ cache'[g] \in [Sides -> Statuses3] /\ seen'[g] \in Offers
               /\ seen'[g].live /\ seen'[g].line = "gone" => \A s \in Sides : cache'[g][s] # "open"
    <3>1. cache[g] \in [Sides -> Statuses3] /\ seen[g] \in Offers
      BY <1>t DEF BookTypeOK, Statuses3
    <3>2. CASE g \in said
      <4>1. ask.got[g].says \in Offers
        BY <3>2 DEF BookInv, AskTyped
      <4>2. Emitted(ask.got[g].says) # <<>>
        BY <3>2
      <4>3. /\ \A s \in DOMAIN Emitted(ask.got[g].says) : Emitted(ask.got[g].says)[s] \in Statuses3
            /\ ask.got[g].says.live /\ ask.got[g].says.line = "gone" =>
                 DOMAIN Emitted(ask.got[g].says) = Sides /\ \A s \in Sides : Emitted(ask.got[g].says)[s] = "suspended"
        BY <4>1, <4>2, EmittedType
      <4>4. cache'[g] = Cached(cache[g], Emitted(ask.got[g].says)) /\ seen'[g] = ask.got[g].says
        BY <2>1, <3>2
      <4> QED
        BY <3>1, <4>1, <4>3, <4>4, CachedType DEF Cached
    <3>3. CASE g \notin said
      <4>1. cache'[g] = cache[g] /\ seen'[g] = seen[g]
        BY <2>1, <3>3
      <4> QED
        BY <3>1, <4>1 DEF BookInv, BookSound, PulledShut
    <3> QED
      BY <3>2, <3>3
  <2>5. cache' \in [Games -> [Sides -> Statuses3]] /\ seen' \in [Games -> Offers] /\ PulledShut'
    BY <2>1, <2>4 DEF PulledShut
  <2>6. BookTypeOK'
    BY <1>t, <2>1, <2>2, <2>3, <2>5 DEF BookTypeOK, Statuses3
  <2>7. AskTyped' /\ AskingUnlimited' /\ BackoffMeansLimited'
    BY <2>1, <2>2 DEF AskTyped, AskingUnlimited, BackoffMeansLimited, Resting
  <2> QED
    BY <2>1, <2>3, <2>5, <2>6, <2>7 DEF BookInv, BookSound, ReadingTyped, TriesLeft
<1>8. CASE CatalogChunk
  <2>1. BookTypeOK' /\ TriesLeft'
    BY <1>8, <1>t, TriggerType DEF CatalogChunk, BookTypeOK, TriesLeft, BookInv
  <2> QED
    BY <1>8, <2>1 DEF CatalogChunk, BookInv, BookSound, PulledShut, BackoffMeansLimited, AskTyped, ReadingTyped,
      AskingUnlimited
<1>9. ASSUME NEW b \in BOOLEAN, Keepalive(b) PROVE BookInv'
  <2>1. BookTypeOK' /\ TriesLeft'
    BY <1>9, <1>t, TriggerType DEF Keepalive, BookTypeOK, TriesLeft, BookInv
  <2> QED
    BY <1>9, <2>1 DEF Keepalive, BookInv, BookSound, PulledShut, BackoffMeansLimited, AskTyped, ReadingTyped,
      AskingUnlimited
<1>10. ASSUME NEW r \in reading, Ingested(r) PROVE BookInv'
  <2>1. r.game \in Games /\ r.says \in Offers /\ ReadingTyped'
    BY <1>10 DEF Ingested, BookInv, ReadingTyped
  <2>2. UNCHANGED <<book, ask, active, backoff, limited, session, rtq, rec, rested, fails, turns>>
    BY <1>10 DEF Ingested
  <2>3. CASE UNCHANGED <<cache, seen>>
    BY <2>1, <2>2, <2>3 DEF BookInv, BookSound, BookTypeOK, PulledShut, BackoffMeansLimited, AskTyped,
      AskingUnlimited, TriesLeft
  <2>4. CASE /\ ~r.says.live /\ Emitted(r.says) # <<>>
             /\ cache' = [cache EXCEPT ![r.game] = Cached(@, Interrupted(Emitted(r.says)))]
             /\ seen' = [seen EXCEPT ![r.game] = r.says]
    <3>1. cache \in [Games -> [Sides -> Statuses3]] /\ seen \in [Games -> Offers]
      BY <1>t DEF BookTypeOK, Statuses3
    <3>2. Cached(cache[r.game], Interrupted(Emitted(r.says))) \in [Sides -> Statuses3]
      BY <2>1, <2>4, <3>1, EmittedType, InterruptedType, CachedType
    <3>3. cache' \in [Games -> [Sides -> Statuses3]] /\ seen' \in [Games -> Offers]
      BY <2>1, <2>4, <3>1, <3>2
    <3>4. PulledShut'
      BY <2>1, <2>4, <3>1 DEF BookInv, BookSound, PulledShut
    <3>5. BookTypeOK'
      BY <1>t, <2>2, <3>3 DEF BookTypeOK, Statuses3
    <3> QED
      BY <2>1, <2>2, <3>4, <3>5 DEF BookInv, BookSound, BackoffMeansLimited, AskTyped, AskingUnlimited, TriesLeft
  <2> QED
    BY <1>10, <2>3, <2>4 DEF Ingested
<1>11. ASSUME NEW g \in Games, BookOdds(g) \/ Lapse(g) \/ Responded(g) PROVE BookInv'
  <2>1. ReadingTyped'
    BY <1>11 DEF BookOdds, Lapse, Responded, BookInv, BookSound, BookTypeOK, ReadingTyped
  <2> QED
    BY <1>11, <2>1 DEF BookOdds, Lapse, Responded, BookInv, BookSound, BookTypeOK, PulledShut, BackoffMeansLimited,
      AskTyped, AskingUnlimited, TriesLeft
<1>12. ASSUME NEW g \in Games, NEW status, ChunkAnswered(g, status) PROVE BookInv'
  <2> DEFINE answer == [status |-> status, says |-> IF status = "200" THEN book[g] ELSE Unseen]
  <2>1. answer.says \in Offers
    BY <1>t DEF BookTypeOK, Unseen, Offers
  <2>2. ask' = [ask EXCEPT !.got = [x \in DOMAIN ask.got \cup {g} |-> IF x = g THEN answer ELSE ask.got[x]]]
    BY <1>12 DEF ChunkAnswered
  <2>3. ask = [pc |-> ask.pc, of |-> ask.of, got |-> ask.got] /\ \A x \in DOMAIN ask.got : ask.got[x].says \in Offers
    BY DEF BookInv, AskTyped
  <2>4. /\ ask' = [pc |-> ask.pc, of |-> ask.of,
                   got |-> [x \in DOMAIN ask.got \cup {g} |-> IF x = g THEN answer ELSE ask.got[x]]]
    BY <2>2, <2>3
  <2>5. AskTyped'
    BY <2>1, <2>3, <2>4 DEF BookInv, AskTyped
  <2> QED
    BY <1>12, <2>4, <2>5 DEF ChunkAnswered, BookInv, BookSound, BookTypeOK, PulledShut, BackoffMeansLimited,
      ReadingTyped, AskingUnlimited, TriesLeft
<1>13. CASE UNCHANGED bookVars
  BY <1>13 DEF BookInv, BookSound, BookTypeOK, PulledShut, BackoffMeansLimited, AskTyped, ReadingTyped,
    AskingUnlimited, TriesLeft
<1> QED
  BY <1>1, <1>2, <1>3, <1>4, <1>5, <1>6, <1>7, <1>8, <1>9, <1>10, <1>11, <1>12, <1>13 DEF BookNext

-----------------------------------------------------------------------------
(* BoardWatch *)

USE DEF watchVars

LEMMA WatchConstants == Drift \in Nat \ {0} /\ Events \in Nat \ {0}
BY BoardWatchAssumption

\* The same, flag by flag.
WatchFlags ==
  /\ went \in BOOLEAN /\ standsDown \in BOOLEAN /\ pinBroken \in BOOLEAN /\ inplay \in BOOLEAN
  /\ bet \in BOOLEAN /\ manual \in BOOLEAN /\ stirring \in BOOLEAN /\ settling \in BOOLEAN
WatchPlace ==
  /\ moved \subseteq Homes /\ shown \in Homes \cup {"login", "else"} /\ home \in Homes
  /\ offFor \in -1 .. Drift /\ watcher \in {"asleep", "homing", "returning"} /\ pinner \in {"idle", "pinning"}
  /\ target \in Homes /\ (watcher = "returning" => offFor = -1)
  /\ settling = TRUE => watcher = "asleep"
WatchInv == WatchFlags /\ WatchPlace

LEMMA WatchInvSound == WatchInv => WatchSound
BY Zenon DEF WatchInv, WatchFlags, WatchPlace, WatchSound, BoardWatchTypeOK, LoginUncrossed

LEMMA WatchInits == BoardWatchInit => WatchInv
<1> SUFFICES ASSUME BoardWatchInit PROVE WatchInv
  OBVIOUS
<1>1. offFor \in -1 .. Drift
  BY WatchConstants DEF BoardWatchInit
<1> QED
  BY <1>1 DEF BoardWatchInit, WatchInv, WatchFlags, WatchPlace, Homes

LEMMA LandsShown == \A b \in Homes : Lands(b) \in Homes \cup {"login", "else"}
BY DEF Lands

LEMMA WatchSteps == WatchInv /\ [BoardWatchNext]_watchVars => WatchInv'
<1> SUFFICES ASSUME WatchFlags, WatchPlace, [BoardWatchNext]_watchVars PROVE WatchFlags' /\ WatchPlace'
  BY DEF WatchInv
<1> USE WatchConstants, LandsShown
<1>1. CASE Wander
  <2>1. WatchFlags'
    BY <1>1, Zenon DEF Wander, WatchFlags
  <2>2. WatchPlace'
    BY <1>1 DEF Wander, WatchFlags, WatchPlace, Homes
  <2> QED
    BY <2>1, <2>2
<1>2. CASE PageReloaded
  <2>1. WatchFlags'
    BY <1>2, Zenon DEF PageReloaded, WatchFlags
  <2>2. WatchPlace'
    BY <1>2 DEF PageReloaded, WatchFlags, WatchPlace, Homes
  <2> QED
    BY <2>1, <2>2
<1>3. CASE StartInplay
  <2>1. WatchFlags'
    BY <1>3, Zenon DEF StartInplay, SetHome, WatchFlags
  <2>2. WatchPlace'
    BY <1>3 DEF StartInplay, SetHome, WatchFlags, WatchPlace, Homes
  <2> QED
    BY <2>1, <2>2
<1>4. CASE StopInplay
  <2>1. WatchFlags'
    BY <1>4, Zenon DEF StopInplay, SetHome, WatchFlags
  <2>2. WatchPlace'
    BY <1>4 DEF StopInplay, SetHome, WatchFlags, WatchPlace, Homes
  <2> QED
    BY <2>1, <2>2
<1>5. ASSUME NEW b \in BOOLEAN, Bets(b) \/ Manual(b) PROVE WatchFlags' /\ WatchPlace'
  <2>1. WatchFlags'
    BY <1>5, Zenon DEF Bets, Manual, WatchFlags
  <2>2. WatchPlace'
    BY <1>5 DEF Bets, Manual, WatchFlags, WatchPlace, Homes
  <2> QED
    BY <2>1, <2>2
<1>6. CASE PinStarts \/ Pinned
  <2>1. WatchFlags'
    <3>1. pinBroken' = pinBroken \/ pinBroken' = TRUE \/ pinBroken' = FALSE
      BY <1>6, SMT DEF PinStarts, Pinned
    <3>2. UNCHANGED <<went, standsDown, inplay, bet, manual, stirring, settling>>
      BY <1>6 DEF PinStarts, Pinned
    <3> QED
      BY <3>1, <3>2, Zenon DEF WatchFlags
  <2>2. WatchPlace'
    BY <1>6 DEF PinStarts, Pinned, WatchFlags, WatchPlace, Homes
  <2> QED
    BY <2>1, <2>2
<1>7. CASE Submits \/ Settles
  <2>1. WatchFlags'
    BY <1>7, Zenon DEF Submits, Settles, WatchFlags
  <2>2. WatchPlace'
    BY <1>7 DEF Submits, Settles, WatchFlags, WatchPlace, Homes
  <2> QED
    BY <2>1, <2>2
<1>8. CASE GoesHome
  <2>1. WatchFlags'
    BY <1>8, Zenon DEF GoesHome, WatchFlags
  <2>2. WatchPlace'
    BY <1>8 DEF GoesHome, WatchFlags, WatchPlace, Homes
  <2> QED
    BY <2>1, <2>2
<1>9. CASE Checked
  <2>1. WatchFlags'
    <3>1. stirring' = stirring \/ stirring' = FALSE
      BY <1>9, SMT DEF Checked
    <3>2. UNCHANGED <<went, standsDown, pinBroken, inplay, bet, manual, settling>>
      BY <1>9 DEF Checked
    <3> QED
      BY <3>1, <3>2, Zenon DEF WatchFlags
  <2>2. WatchPlace'
    <3>1. \/ offFor' = -1 /\ UNCHANGED <<watcher, target>>
          \/ offFor' = 0 /\ UNCHANGED <<watcher, target>>
          \/ watcher' = "returning" /\ target' = home /\ offFor' = -1
      BY <1>9 DEF Checked
    <3>2. watcher = "asleep" /\ ~settling /\ UNCHANGED <<moved, shown, home, pinner, settling>>
      BY <1>9, Zenon DEF Checked, MayReturn
    <3>3. offFor' \in -1 .. Drift /\ target' \in Homes /\ watcher' \in {"asleep", "returning"}
      BY <3>1, <3>2 DEF WatchPlace
    <3> QED
      BY <3>1, <3>2, <3>3 DEF WatchPlace
  <2> QED
    BY <2>1, <2>2
<1>10. CASE WatchClock
  <2>1. WatchFlags'
    BY <1>10, Zenon DEF WatchClock, WatchFlags
  <2>2. WatchPlace'
    BY <1>10 DEF WatchClock, WatchFlags, WatchPlace, Homes
  <2> QED
    BY <2>1, <2>2
<1>11. ASSUME NEW ok \in BOOLEAN, Homed(ok) \/ Returned(ok) PROVE WatchFlags' /\ WatchPlace'
  <2>1. WatchFlags'
    BY <1>11, Zenon DEF Homed, Returned, WatchFlags
  <2>2. WatchPlace'
    BY <1>11 DEF Homed, Returned, WatchFlags, WatchPlace, Homes
  <2> QED
    BY <2>1, <2>2
<1>12. CASE UNCHANGED watchVars
  <2>1. WatchFlags'
    BY <1>12, Zenon DEF watchVars, WatchFlags
  <2>2. WatchPlace'
    BY <1>12 DEF watchVars, WatchFlags, WatchPlace, Homes
  <2> QED
    BY <2>1, <2>2
<1> QED
  BY <1>1, <1>2, <1>3, <1>4, <1>5, <1>6, <1>7, <1>8, <1>9, <1>10, <1>11, <1>12 DEF BoardWatchNext, Watches

-----------------------------------------------------------------------------
(* Organic *)

USE DEF organicVars

Dos == Deeds \cup {"rest", "recheck"}
StepRec == [do : Dos, shut : {"skip", "leave", "over", "blind"}]
\* A step that lands although the gate is cleared.
Unguarded(s) == s.shut = "blind" /\ s.do \in Deeds
Unlooked(h) == IF h = "board" THEN {"nav"} ELSE {"click", "close"}
\* What is left of a turn lands unlooked at most once on the board, and on a tab as a
\* click and the close after it.
Planned(h, left) ==
  /\ left \in Seq(StepRec)
  /\ \A i \in 1 .. Len(left) : Unguarded(left[i]) => left[i].do \in Unlooked(h)
  /\ \A i, j \in 1 .. Len(left) :
       i < j /\ Unguarded(left[i]) /\ Unguarded(left[j]) => left[i].do = "click" /\ left[j].do = "close"
Midway(h, done) == h = "tabs" /\ done = <<"click">>
Whole(h, done) == \/ h = "board" /\ done = <<"nav">>
                  \/ h = "tabs" /\ done \in {<<"close">>, <<"click", "close">>}
Landed(h, left, done) ==
  \/ done = <<>>
  \/ Midway(h, done) /\ \A i \in 1 .. Len(left) : Unguarded(left[i]) => left[i].do = "close"
  \/ Whole(h, done) /\ \A i \in 1 .. Len(left) : ~Unguarded(left[i])
ActTyped(h) ==
  /\ act[h] = [pc |-> act[h].pc, page |-> act[h].page, left |-> act[h].left]
  /\ act[h].pc \in {"gate", "gap", "act"} /\ act[h].page \in AllPages
  /\ act[h].pc = "act" <=> act[h].left # <<>>
HandInv(h) ==
  /\ ActTyped(h) /\ Planned(h, act[h].left) /\ Landed(h, act[h].left, late[h])
  /\ gate[h] => late[h] = <<>>
OrganicInv ==
  /\ gate \in [Hands -> BOOLEAN] /\ slipOn \in [AllPages -> {"none", "stray", "bet"}] /\ betOn \subseteq AllPages
  /\ DOMAIN act = Hands /\ DOMAIN late = Hands
  /\ \A h \in Hands : HandInv(h)

LEMMA OrganicInvSound == OrganicInv => OrganicSound
BY DEF OrganicInv, HandInv, ActTyped, Landed, Midway, Whole, OrganicSound, OrganicTypeOK, OnlyBegunLands, Hands

\* The steps the turns are made of.
LEMMA StepMade ==
  ASSUME NEW do \in Dos, NEW shut \in {"skip", "leave", "over", "blind"}
  PROVE  Step(do, shut) \in StepRec /\ Step(do, shut).do = do /\ Step(do, shut).shut = shut
BY DEF Step, StepRec

LEMMA DosNamed ==
  /\ "trim" \in Dos /\ "move" \in Dos /\ "rest" \in Dos /\ "recheck" \in Dos /\ "wheel" \in Dos /\ "key" \in Dos
  /\ "nav" \in Dos /\ "click" \in Dos /\ "close" \in Dos /\ "rest" \notin Deeds
BY DEF Dos, Deeds

Guarded(s) == s \in StepRec /\ ~Unguarded(s)
LEMMA StepsGuarded ==
  /\ Guarded(Trim) /\ Guarded(Approach) /\ Guarded(Rest) /\ Guarded(Recheck)
  /\ Guarded(Step("wheel", "skip")) /\ Guarded(Step("key", "leave"))
  /\ Guarded(Step("move", "leave")) /\ Guarded(Step("wheel", "leave"))
<1>1. ASSUME NEW do \in Dos PROVE Guarded(Step(do, "skip")) /\ Guarded(Step(do, "leave")) /\ Guarded(Step(do, "over"))
  BY StepMade DEF Guarded, Unguarded
<1>2. Guarded(Step("rest", "blind"))
  BY StepMade, DosNamed DEF Guarded, Unguarded
<1> QED
  BY <1>1, <1>2, DosNamed DEF Trim, Approach, Rest, Recheck

LEMMA StepsUnguarded ==
  /\ Step("nav", "blind") \in StepRec /\ Step("nav", "blind").do = "nav"
  /\ Step("click", "blind") \in StepRec /\ Step("click", "blind").do = "click"
  /\ Step("close", "blind") \in StepRec /\ Step("close", "blind").do = "close"
BY StepMade, DosNamed

\* A turn whose every step is guarded is planned; so is one of the board that navigates
\* once, and one of a tab that clicks and closes later.
LEMMA PlannedGuarded ==
  ASSUME NEW h \in Hands, NEW t \in Seq(StepRec), \A i \in 1 .. Len(t) : ~Unguarded(t[i])
  PROVE  Planned(h, t)
BY DEF Planned

LEMMA PlannedNav ==
  ASSUME NEW t \in Seq(StepRec), NEW m \in Nat, \A i \in 1 .. Len(t) : i # m => ~Unguarded(t[i]), t[m].do = "nav"
  PROVE  Planned("board", t)
BY DEF Planned, Unlooked

LEMMA PlannedPopover ==
  ASSUME NEW t \in Seq(StepRec), NEW m \in Nat, NEW n \in Nat, m < n,
         \A i \in 1 .. Len(t) : i # m /\ i # n => ~Unguarded(t[i]), t[m].do = "click", t[n].do = "close"
  PROVE  Planned("tabs", t)
<1>1. \A i \in 1 .. Len(t) : Unguarded(t[i]) => t[i].do \in Unlooked("tabs")
  BY DEF Unlooked
<1>2. ASSUME NEW i \in 1 .. Len(t), NEW j \in 1 .. Len(t), i < j, Unguarded(t[i]), Unguarded(t[j])
      PROVE  t[i].do = "click" /\ t[j].do = "close"
  <2>1. (i = m \/ i = n) /\ (j = m \/ j = n)
    BY <1>2
  <2>2. i = m /\ j = n
    BY <1>2, <2>1
  <2> QED
    BY <2>2
<1> QED
  BY <1>1, <1>2 DEF Planned

LEMMA TurnsPlanned ==
  ASSUME NEW h \in Hands, NEW t \in TurnsOf(h)
  PROVE  Planned(h, t) /\ t # <<>>
<1>1. CASE h = "board"
  <2>1. t \in BoardTurns
    BY <1>1 DEF TurnsOf
  <2>2. CASE t = <<Trim>>
    <3>1. Len(t) = 1 /\ t[1] = Trim
      BY <2>2
    <3>2. Guarded(t[1])
      BY <3>1, StepsGuarded
    <3>4. \A i \in 1 .. Len(t) : t[i] \in StepRec /\ ~Unguarded(t[i])
      BY <3>1, <3>2 DEF Guarded
    <3>5. t \in Seq(StepRec)
      BY <2>2, <3>1, <3>4
    <3>6. \A i \in 1 .. Len(t) : ~Unguarded(t[i])
      BY <3>4
    <3>7. Planned(h, t)
      BY <3>5, <3>6, PlannedGuarded
    <3> QED
      BY <3>1, <3>7
  <2>3. CASE t = <<Approach, Trim>>
    <3>1. Len(t) = 2 /\ t[1] = Approach /\ t[2] = Trim
      BY <2>3
    <3>2. Guarded(t[1]) /\ Guarded(t[2])
      BY <3>1, StepsGuarded
    <3>4. \A i \in 1 .. Len(t) : t[i] \in StepRec /\ ~Unguarded(t[i])
      BY <3>1, <3>2 DEF Guarded
    <3>5. t \in Seq(StepRec)
      BY <2>3, <3>1, <3>4
    <3>6. \A i \in 1 .. Len(t) : ~Unguarded(t[i])
      BY <3>4
    <3>7. Planned(h, t)
      BY <3>5, <3>6, PlannedGuarded
    <3> QED
      BY <3>1, <3>7
  <2>4. CASE t = <<Approach, Step("wheel", "skip"), Rest, Approach, Step("wheel", "skip"), Trim>>
    <3>1. Len(t) = 6 /\ t[1] = Approach /\ t[2] = Step("wheel", "skip") /\ t[3] = Rest
          /\ t[4] = Approach /\ t[5] = Step("wheel", "skip") /\ t[6] = Trim
      BY <2>4
    <3>2. Guarded(t[1]) /\ Guarded(t[2]) /\ Guarded(t[3]) /\ Guarded(t[4]) /\ Guarded(t[5]) /\ Guarded(t[6])
      BY <3>1, StepsGuarded
    <3>4. \A i \in 1 .. Len(t) : t[i] \in StepRec /\ ~Unguarded(t[i])
      BY <3>1, <3>2 DEF Guarded
    <3>5. t \in Seq(StepRec)
      BY <2>4, <3>1, <3>4
    <3>6. \A i \in 1 .. Len(t) : ~Unguarded(t[i])
      BY <3>4
    <3>7. Planned(h, t)
      BY <3>5, <3>6, PlannedGuarded
    <3> QED
      BY <3>1, <3>7
  <2>5. CASE t = <<Step("key", "leave"), Rest, Step("key", "leave"), Trim>>
    <3>1. Len(t) = 4 /\ t[1] = Step("key", "leave") /\ t[2] = Rest /\ t[3] = Step("key", "leave") /\ t[4] = Trim
      BY <2>5
    <3>2. Guarded(t[1]) /\ Guarded(t[2]) /\ Guarded(t[3]) /\ Guarded(t[4])
      BY <3>1, StepsGuarded
    <3>4. \A i \in 1 .. Len(t) : t[i] \in StepRec /\ ~Unguarded(t[i])
      BY <3>1, <3>2 DEF Guarded
    <3>5. t \in Seq(StepRec)
      BY <2>5, <3>1, <3>4
    <3>6. \A i \in 1 .. Len(t) : ~Unguarded(t[i])
      BY <3>4
    <3>7. Planned(h, t)
      BY <3>5, <3>6, PlannedGuarded
    <3> QED
      BY <3>1, <3>7
  <2>6. CASE t = <<Approach, Step("nav", "blind"), Trim>>
    <3>1. Len(t) = 3 /\ t[1] = Approach /\ t[2] = Step("nav", "blind") /\ t[3] = Trim
      BY <2>6
    <3>2. Guarded(t[1]) /\ Guarded(t[3])
      BY <3>1, StepsGuarded
    <3>3. t[2] \in StepRec /\ t[2].do = "nav"
      BY <3>1, StepsUnguarded
    <3>4. \A i \in 1 .. Len(t) : t[i] \in StepRec /\ (i # 2 => ~Unguarded(t[i]))
      BY <3>1, <3>2, <3>3 DEF Guarded
    <3>5. t \in Seq(StepRec)
      BY <2>6, <3>1, <3>4
    <3> QED
      BY <1>1, <3>1, <3>3, <3>4, <3>5, PlannedNav
  <2> QED
    BY <2>1, <2>2, <2>3, <2>4, <2>5, <2>6 DEF BoardTurns
<1>2. CASE h = "tabs"
  <2>1. t \in TabTurns
    BY <1>2 DEF TurnsOf
  <2>2. CASE t = <<Recheck, Trim>>
    <3>1. Len(t) = 2 /\ t[1] = Recheck /\ t[2] = Trim
      BY <2>2
    <3>2. Guarded(t[1]) /\ Guarded(t[2])
      BY <3>1, StepsGuarded
    <3>4. \A i \in 1 .. Len(t) : t[i] \in StepRec /\ ~Unguarded(t[i])
      BY <3>1, <3>2 DEF Guarded
    <3>5. t \in Seq(StepRec)
      BY <2>2, <3>1, <3>4
    <3>6. \A i \in 1 .. Len(t) : ~Unguarded(t[i])
      BY <3>4
    <3>7. Planned(h, t)
      BY <3>5, <3>6, PlannedGuarded
    <3> QED
      BY <3>1, <3>7
  <2>3. CASE t = <<Recheck, Step("move", "leave"), Trim>>
    <3>1. Len(t) = 3 /\ t[1] = Recheck /\ t[2] = Step("move", "leave") /\ t[3] = Trim
      BY <2>3
    <3>2. Guarded(t[1]) /\ Guarded(t[2]) /\ Guarded(t[3])
      BY <3>1, StepsGuarded
    <3>4. \A i \in 1 .. Len(t) : t[i] \in StepRec /\ ~Unguarded(t[i])
      BY <3>1, <3>2 DEF Guarded
    <3>5. t \in Seq(StepRec)
      BY <2>3, <3>1, <3>4
    <3>6. \A i \in 1 .. Len(t) : ~Unguarded(t[i])
      BY <3>4
    <3>7. Planned(h, t)
      BY <3>5, <3>6, PlannedGuarded
    <3> QED
      BY <3>1, <3>7
  <2>4. CASE t = <<Recheck, Approach, Step("wheel", "leave"), Rest, Step("wheel", "leave"), Trim>>
    <3>1. Len(t) = 6 /\ t[1] = Recheck /\ t[2] = Approach /\ t[3] = Step("wheel", "leave")
          /\ t[4] = Rest /\ t[5] = Step("wheel", "leave") /\ t[6] = Trim
      BY <2>4
    <3>2. Guarded(t[1]) /\ Guarded(t[2]) /\ Guarded(t[3]) /\ Guarded(t[4]) /\ Guarded(t[5]) /\ Guarded(t[6])
      BY <3>1, StepsGuarded
    <3>4. \A i \in 1 .. Len(t) : t[i] \in StepRec /\ ~Unguarded(t[i])
      BY <3>1, <3>2 DEF Guarded
    <3>5. t \in Seq(StepRec)
      BY <2>4, <3>1, <3>4
    <3>6. \A i \in 1 .. Len(t) : ~Unguarded(t[i])
      BY <3>4
    <3>7. Planned(h, t)
      BY <3>5, <3>6, PlannedGuarded
    <3> QED
      BY <3>1, <3>7
  <2>5. CASE t = <<Recheck, Approach, Step("click", "blind"), Rest, Approach, Step("close", "blind"), Trim>>
    <3>1. Len(t) = 7 /\ t[1] = Recheck /\ t[2] = Approach /\ t[3] = Step("click", "blind")
          /\ t[4] = Rest /\ t[5] = Approach /\ t[6] = Step("close", "blind") /\ t[7] = Trim
      BY <2>5
    <3>2. Guarded(t[1]) /\ Guarded(t[2]) /\ Guarded(t[4]) /\ Guarded(t[5]) /\ Guarded(t[7])
      BY <3>1, StepsGuarded
    <3>3. t[3] \in StepRec /\ t[3].do = "click" /\ t[6] \in StepRec /\ t[6].do = "close"
      BY <3>1, StepsUnguarded
    <3>4. \A i \in 1 .. Len(t) : t[i] \in StepRec /\ (i # 3 /\ i # 6 => ~Unguarded(t[i]))
      BY <3>1, <3>2, <3>3 DEF Guarded
    <3>5. t \in Seq(StepRec)
      BY <2>5, <3>1, <3>4
    <3>6. \A i \in 1 .. Len(t) : i # 3 /\ i # 6 => ~Unguarded(t[i])
      BY <3>4
    <3>7. Planned("tabs", t)
      BY <3>3, <3>5, <3>6, PlannedPopover
    <3> QED
      BY <1>2, <3>1, <3>7
  <2> QED
    BY <2>1, <2>2, <2>3, <2>4, <2>5 DEF TabTurns
<1> QED
  BY <1>1, <1>2 DEF Hands

LEMMA AppendOne ==
  ASSUME NEW S, NEW a \in S, NEW b \in S
  PROVE  Append(<<a>>, b) = <<a, b>>
<1> DEFINE s == Append(<<a>>, b)
           t == <<a, b>>
<1>1. <<a>> \in Seq(S) /\ t \in Seq(S)
  OBVIOUS
<1>2. Len(s) = 2 /\ s[1] = a /\ s[2] = b /\ s \in Seq(S)
  BY <1>1, AppendProperties
<1>3. Len(t) = 2 /\ t[1] = a /\ t[2] = b
  OBVIOUS
<1> HIDE DEF s, t
<1>4. Len(s) = Len(t) /\ \A i \in 1 .. Len(s) : s[i] = t[i]
  BY <1>2, <1>3
<1>5. s = t
  BY <1>1, <1>2, <1>4, SeqEqual, Zenon
<1> QED
  BY <1>5 DEF s, t

LEMMA TailPlanned ==
  ASSUME NEW h \in Hands, NEW left, Planned(h, left), left # <<>>, NEW done, Landed(h, left, done)
  PROVE  /\ Planned(h, Tail(left)) /\ Landed(h, Tail(left), done)
         /\ Unguarded(Head(left)) => Landed(h, Tail(left), Append(done, Head(left).do))
<1>1. /\ Tail(left) \in Seq(StepRec) /\ Len(Tail(left)) = Len(left) - 1 /\ Len(left) >= 1
      /\ \A i \in 1 .. Len(Tail(left)) : i \in 1 .. Len(left) /\ i + 1 \in 1 .. Len(left) /\ Tail(left)[i] = left[i + 1]
      /\ Head(left) = left[1]
  BY DEF Planned
<1>2. Planned(h, Tail(left))
  BY <1>1 DEF Planned
<1>3. Landed(h, Tail(left), done)
  BY <1>1 DEF Landed
<1>4. ASSUME Unguarded(Head(left))
      PROVE  Landed(h, Tail(left), Append(done, Head(left).do))
  <2>1. Head(left).do \in Unlooked(h) /\ 1 \in 1 .. Len(left)
    BY <1>1, <1>4 DEF Planned
  <2>2. \A i \in 1 .. Len(Tail(left)) :
          Unguarded(Tail(left)[i]) => Head(left).do = "click" /\ Tail(left)[i].do = "close"
    BY <1>1, <1>4, <2>1 DEF Planned
  <2>3. CASE done = <<>>
    <3>1. Append(done, Head(left).do) = <<Head(left).do>>
      BY <2>3
    <3>2. CASE h = "board"
      <4>1. Head(left).do = "nav"
        BY <2>1, <3>2 DEF Unlooked
      <4>2. \A i \in 1 .. Len(Tail(left)) : ~Unguarded(Tail(left)[i])
        BY <2>2, <4>1
      <4> QED
        BY <3>1, <3>2, <4>1, <4>2 DEF Landed, Whole
    <3>3. CASE h = "tabs" /\ Head(left).do = "click"
      BY <2>2, <3>1, <3>3 DEF Landed, Midway
    <3>4. CASE h = "tabs" /\ Head(left).do = "close"
      <4>1. \A i \in 1 .. Len(Tail(left)) : ~Unguarded(Tail(left)[i])
        BY <2>2, <3>4
      <4> QED
        BY <3>1, <3>4, <4>1 DEF Landed, Whole
    <3> QED
      BY <2>1, <3>2, <3>3, <3>4 DEF Unlooked, Hands
  <2>4. CASE done # <<>>
    <3>1. Midway(h, done) /\ Head(left).do = "close"
      BY <1>1, <1>4, <2>1, <2>4 DEF Landed
    <3>2. Append(done, Head(left).do) = <<"click", "close">>
      <4>1. "click" \in {"click", "close"} /\ "close" \in {"click", "close"}
        OBVIOUS
      <4>2. Append(<<"click">>, "close") = <<"click", "close">>
        BY <4>1, AppendOne, Zenon
      <4> QED
        BY <3>1, <4>2, Zenon DEF Midway
    <3>3. \A i \in 1 .. Len(Tail(left)) : ~Unguarded(Tail(left)[i])
      BY <2>2, <3>1
    <3> QED
      BY <3>1, <3>2, <3>3 DEF Landed, Midway, Whole
  <2> QED
    BY <2>3, <2>4
<1> QED
  BY <1>2, <1>3, <1>4

LEMMA TrimPlanned ==
  ASSUME NEW h \in Hands
  PROVE  /\ Planned(h, <<Trim>>) /\ Planned(h, <<>>)
         /\ \A left, done : Landed(h, left, done) => Landed(h, <<Trim>>, done) /\ Landed(h, <<>>, done)
<1>1. Trim \in StepRec /\ ~Unguarded(Trim)
  BY StepsGuarded DEF Guarded
<1>2. Len(<<Trim>>) = 1 /\ <<Trim>>[1] = Trim /\ <<Trim>> \in Seq(StepRec) /\ <<>> \in Seq(StepRec)
  BY <1>1
<1>3. \A i \in 1 .. Len(<<Trim>>) : ~Unguarded(<<Trim>>[i])
  BY <1>1, <1>2
<1>4. Len(<<>>) = 0
  OBVIOUS
<1>5. Planned(h, <<Trim>>)
  BY <1>2, <1>3, Zenon DEF Planned
<1>6. \A i \in 1 .. Len(<<>>) : ~Unguarded(<<>>[i])
  BY <1>4
<1>7. Planned(h, <<>>)
  BY <1>2, <1>6, Zenon DEF Planned
<1>8. ASSUME NEW left, NEW done, Landed(h, left, done)
      PROVE  Landed(h, <<Trim>>, done) /\ Landed(h, <<>>, done)
  <2>1. done = <<>> \/ Midway(h, done) \/ Whole(h, done)
    BY <1>8, Zenon DEF Landed
  <2> QED
    BY <1>3, <1>6, <2>1, Zenon DEF Landed
<1> QED
  BY <1>5, <1>7, <1>8

LEMMA OrganicInits == (OrganicInit \/ OrganicRests) => OrganicInv
<1> SUFFICES ASSUME OrganicInit \/ OrganicRests PROVE OrganicInv
  OBVIOUS
<1>1. gate \in [Hands -> BOOLEAN] /\ betOn \subseteq AllPages
  BY DEF OrganicInit, OrganicRests
<1>2. slipOn \in [AllPages -> {"none", "stray", "bet"}]
  BY DEF OrganicInit, OrganicRests
<1>3. DOMAIN act = Hands /\ DOMAIN late = Hands
      /\ \A h \in Hands : act[h] = AtGate /\ late[h] = <<>>
  BY DEF OrganicInit, OrganicRests
<1>4. ASSUME NEW h \in Hands PROVE HandInv(h)
  <2>1. Planned(h, <<>>)
    BY TrimPlanned
  <2>2. act[h] = AtGate /\ late[h] = <<>> /\ act[h].left = <<>>
    BY <1>3 DEF AtGate
  <2>3. ActTyped(h)
    BY <2>2 DEF ActTyped, AtGate, AllPages
  <2> QED
    BY <2>1, <2>2, <2>3 DEF HandInv, Landed
<1> QED
  BY <1>1, <1>2, <1>3, <1>4 DEF OrganicInv

\* A hand whose loop, gate and record stay as they are keeps what is true of it; so it
\* does when only its gate is cleared.
LEMMA HandKept ==
  ASSUME NEW h \in Hands, HandInv(h), act'[h] = act[h], late'[h] = late[h], gate'[h] => gate[h]
  PROVE  HandInv(h)'
BY DEF HandInv, ActTyped

\* What an iteration leaves of a hand's turn: nothing, and it is at its gate, or steps.
LEMMA AfterKept ==
  ASSUME NEW h \in Hands, HandInv(h), act[h].pc = "act", NEW steps, Planned(h, steps), Landed(h, steps, late'[h]),
         act'[h] = After(h, steps), gate'[h] => late'[h] = <<>>
  PROVE  HandInv(h)'
<1>1. CASE steps = <<>>
  <2>1. act'[h] = AtGate
    BY <1>1 DEF After
  <2> QED
    BY <1>1, <2>1 DEF HandInv, ActTyped, AtGate, AllPages
<1>2. CASE steps # <<>>
  <2>1. act'[h] = [pc |-> "act", page |-> act[h].page, left |-> steps]
    BY <1>2 DEF After, HandInv, ActTyped
  <2> QED
    BY <1>2, <2>1 DEF HandInv, ActTyped
<1> QED
  BY <1>1, <1>2

LEMMA StepShuts ==
  ASSUME NEW h, NEW left, Planned(h, left), left # <<>>
  PROVE  Head(left).shut \in {"skip", "leave", "over", "blind"}
<1>1. Head(left) \in StepRec
  BY DEF Planned
<1> QED
  BY <1>1 DEF StepRec

LEMMA OrganicSteps == OrganicInv /\ [OrganicNext]_organicVars => OrganicInv'
<1> SUFFICES ASSUME OrganicInv, [OrganicNext]_organicVars PROVE OrganicInv'
  OBVIOUS
<1>1. /\ gate \in [Hands -> BOOLEAN] /\ slipOn \in [AllPages -> {"none", "stray", "bet"}] /\ betOn \subseteq AllPages
      /\ DOMAIN act = Hands /\ DOMAIN late = Hands
      /\ \A h \in Hands : HandInv(h)
  BY DEF OrganicInv
<1>2. ASSUME NEW p \in AllPages, Pause(p) PROVE OrganicInv'
  <2>1. /\ gate' \in [Hands -> BOOLEAN] /\ betOn' \subseteq AllPages /\ UNCHANGED <<act, slipOn, late>>
        /\ \A h \in Hands : gate'[h] = FALSE
    BY <1>2 DEF Pause
  <2>2. \A h \in Hands : HandInv(h)'
    BY <1>1, <2>1, HandKept
  <2> QED
    BY <1>1, <2>1, <2>2 DEF OrganicInv
<1>3. CASE BetSlip
  <2>1. UNCHANGED <<gate, act, betOn, late>> /\ slipOn' \in [AllPages -> {"none", "stray", "bet"}]
    BY <1>1, <1>3 DEF BetSlip
  <2>2. \A h \in Hands : HandInv(h)'
    BY <1>1, <2>1, HandKept
  <2> QED
    BY <1>1, <2>1, <2>2 DEF OrganicInv
<1>4. CASE Resume
  <2>1. /\ gate' \in [Hands -> BOOLEAN] /\ betOn' \subseteq AllPages /\ UNCHANGED act
        /\ slipOn' \in [AllPages -> {"none", "stray", "bet"}]
        /\ DOMAIN late' = Hands /\ \A h \in Hands : late'[h] = <<>>
    BY <1>1, <1>4 DEF Resume
  <2>2. ASSUME NEW h \in Hands PROVE HandInv(h)'
    <3>1. act'[h] = act[h] /\ late'[h] = <<>> /\ HandInv(h)
      BY <1>1, <2>1
    <3> QED
      BY <3>1 DEF HandInv, ActTyped, Landed
  <2> QED
    BY <1>1, <2>1, <2>2 DEF OrganicInv
<1>5. ASSUME NEW h \in Hands, GatePassed(h) PROVE OrganicInv'
  <2>1. /\ UNCHANGED <<gate, slipOn, betOn, late>> /\ DOMAIN act' = Hands /\ act[h].pc = "gate"
        /\ \A g \in Hands \ {h} : act'[g] = act[g]
        /\ act'[h] = [act[h] EXCEPT !.pc = "gap"]
    BY <1>1, <1>5 DEF GatePassed
  <2>2. HandInv(h)'
    <3>1. HandInv(h) /\ act[h].left = <<>>
      BY <1>1, <2>1 DEF HandInv, ActTyped
    <3>2. act'[h] = [pc |-> "gap", page |-> act[h].page, left |-> act[h].left]
      BY <2>1, <3>1 DEF HandInv, ActTyped
    <3> QED
      BY <2>1, <3>1, <3>2 DEF HandInv, ActTyped
  <2>3. \A g \in Hands \ {h} : HandInv(g)'
    BY <1>1, <2>1, HandKept
  <2> QED
    BY <1>1, <2>1, <2>2, <2>3 DEF OrganicInv
<1>6. ASSUME NEW h \in Hands, NEW p \in PagesOf(h), NEW t \in TurnsOf(h), Turn(h, p, t) PROVE OrganicInv'
  <2>1. /\ UNCHANGED <<gate, slipOn, betOn, late>> /\ DOMAIN act' = Hands /\ act[h].pc = "gap"
        /\ \A g \in Hands \ {h} : act'[g] = act[g]
        /\ act'[h] = IF gate[h] THEN [pc |-> "act", page |-> p, left |-> t] ELSE AtGate
    BY <1>1, <1>6 DEF Turn
  <2>2. HandInv(h)'
    <3>1. HandInv(h) /\ act[h].left = <<>> /\ p \in AllPages
      BY <1>1, <2>1 DEF HandInv, ActTyped, PagesOf, AllPages
    <3>2. CASE gate[h]
      <4>1. act'[h] = [pc |-> "act", page |-> p, left |-> t] /\ Planned(h, t) /\ t # <<>>
        BY <2>1, <3>2, TurnsPlanned
      <4>2. late'[h] = <<>>
        BY <2>1, <3>1, <3>2 DEF HandInv
      <4> QED
        BY <3>1, <4>1, <4>2 DEF HandInv, ActTyped, Landed
    <3>3. CASE ~gate[h]
      <4>1. act'[h] = AtGate /\ late'[h] = late[h] /\ gate'[h] = gate[h]
        BY <2>1, <3>3
      <4> QED
        BY <3>1, <4>1 DEF HandInv, ActTyped, AtGate, AllPages
    <3> QED
      BY <3>2, <3>3
  <2>3. \A g \in Hands \ {h} : HandInv(g)'
    BY <1>1, <2>1, HandKept
  <2> QED
    BY <1>1, <2>1, <2>2, <2>3 DEF OrganicInv
<1>7. ASSUME NEW h \in Hands, Steps(h) PROVE OrganicInv'
  <2> DEFINE left == act[h].left
             s == Head(left)
  <2>1. HandInv(h) /\ act[h].pc = "act" /\ Planned(h, left) /\ left # <<>> /\ Landed(h, left, late[h])
    BY <1>1, <1>7 DEF Steps, HandInv, ActTyped
  <2>2. /\ Planned(h, Tail(left)) /\ Landed(h, Tail(left), late[h])
        /\ Unguarded(s) => Landed(h, Tail(left), Append(late[h], s.do))
    BY <2>1, TailPlanned
  <2>3. UNCHANGED <<gate, betOn>> /\ gate[h] \in BOOLEAN
    BY <1>1, <1>7 DEF Steps
  <2>4. CASE ~gate[h] /\ s.shut # "blind"
    <3>1. /\ UNCHANGED <<slipOn, late>>
          /\ act' = [act EXCEPT ![h] = After(h, CASE s.shut = "skip" -> Tail(left) [] s.shut = "leave" -> <<Trim>>
                                                   [] s.shut = "over" -> <<>>)]
      BY <1>7, <2>4 DEF Steps
    <3>2. s.shut \in {"skip", "leave", "over"}
      BY <2>1, <2>4, StepShuts
    <3>3. \E steps \in {Tail(left), <<Trim>>, <<>>} : act' = [act EXCEPT ![h] = After(h, steps)]
      BY <3>1, <3>2
    <3>4. PICK steps \in {Tail(left), <<Trim>>, <<>>} : act' = [act EXCEPT ![h] = After(h, steps)]
      BY <3>3
    <3>5. Planned(h, steps) /\ Landed(h, steps, late'[h])
      BY <2>1, <2>2, <3>1, TrimPlanned
    <3>6. act'[h] = After(h, steps) /\ DOMAIN act' = Hands /\ (\A g \in Hands \ {h} : act'[g] = act[g])
      BY <1>1, <3>4
    <3>7. HandInv(h)'
      BY <2>1, <2>3, <2>4, <3>5, <3>6, AfterKept
    <3>8. \A g \in Hands \ {h} : HandInv(g)'
      BY <1>1, <2>3, <3>1, <3>6, HandKept
    <3> QED
      BY <1>1, <2>3, <3>1, <3>6, <3>7, <3>8 DEF OrganicInv
  <2>5. CASE ~(~gate[h] /\ s.shut # "blind")
    <3>1. /\ act' = [act EXCEPT ![h] = After(h, Tail(left))]
          /\ slipOn' = [slipOn EXCEPT ![act[h].page] = Does(s.do, @)]
          /\ late' = IF gate[h] \/ s.do \notin Deeds THEN late ELSE [late EXCEPT ![h] = Append(@, s.do)]
      BY <1>7, <2>5 DEF Steps
    <3>2. slipOn' \in [AllPages -> {"none", "stray", "bet"}]
      BY <1>1, <3>1 DEF Does
    <3>3. /\ act'[h] = After(h, Tail(left)) /\ DOMAIN act' = Hands /\ DOMAIN late' = Hands
          /\ \A g \in Hands \ {h} : act'[g] = act[g] /\ late'[g] = late[g]
      BY <1>1, <3>1
    <3>4. Landed(h, Tail(left), late'[h]) /\ (gate'[h] => late'[h] = <<>>)
      <4>1. CASE gate[h] \/ s.do \notin Deeds
        <5>1. late' = late
          BY <3>1, <4>1
        <5> QED
          BY <2>1, <2>2, <2>3, <5>1 DEF HandInv
      <4>2. CASE ~gate[h] /\ s.do \in Deeds
        <5>1. late'[h] = Append(late[h], s.do) /\ Unguarded(s)
          BY <1>1, <2>5, <3>1, <4>2 DEF Unguarded
        <5> QED
          BY <2>2, <2>3, <4>2, <5>1
      <4> QED
        BY <4>1, <4>2
    <3>5. HandInv(h)'
      BY <2>1, <2>2, <3>3, <3>4, AfterKept
    <3>6. \A g \in Hands \ {h} : HandInv(g)'
      BY <1>1, <2>3, <3>3, HandKept
    <3> QED
      BY <1>1, <2>3, <3>2, <3>3, <3>5, <3>6 DEF OrganicInv
  <2> QED
    BY <2>4, <2>5
<1>8. ASSUME NEW h \in Hands, StepFails(h) PROVE OrganicInv'
  <2>1. /\ UNCHANGED <<gate, slipOn, betOn, late>> /\ DOMAIN act' = Hands /\ act[h].pc = "act"
        /\ \A g \in Hands \ {h} : act'[g] = act[g]
        /\ act'[h] = After(h, <<Trim>>)
    BY <1>1, <1>8 DEF StepFails
  <2>2. HandInv(h) /\ Planned(h, <<Trim>>) /\ Landed(h, <<Trim>>, late'[h]) /\ (gate'[h] => late'[h] = <<>>)
    BY <1>1, <2>1, TrimPlanned DEF HandInv
  <2>3. HandInv(h)'
    BY <2>1, <2>2, AfterKept
  <2>4. \A g \in Hands \ {h} : HandInv(g)'
    BY <1>1, <2>1, HandKept
  <2> QED
    BY <1>1, <2>1, <2>3, <2>4 DEF OrganicInv
<1>9. CASE UNCHANGED organicVars
  <2>1. \A h \in Hands : HandInv(h)'
    BY <1>1, <1>9, HandKept DEF organicVars
  <2> QED
    BY <1>1, <1>9, <2>1 DEF OrganicInv, organicVars
<1> QED
  BY <1>2, <1>3, <1>4, <1>5, <1>6, <1>7, <1>8, <1>9 DEF OrganicNext, Idles

-----------------------------------------------------------------------------
(* The parts together *)


LEMMA TabsPart == [PagesNext]_pagesVars => [TabsNext]_tabVars
BY DEF PagesNext, pagesVars

\* What a verification or a bet waits on is what the roving tab shows, until it ends
\* (TabsSound), whoever else moves the tabs: the loop, a request, a drop.
THEOREM TabsHeld == PagesSpec => []TabsSound
<1>1. PagesInit => TabsInv
  BY TabsInits DEF PagesInit, TabsRest
<1>2. TabsInv /\ [PagesNext]_pagesVars => TabsInv'
  BY TabsPart, TabsSteps
<1>3. TabsInv => TabsSound
  BY TabsInvSound
<1> QED
  BY <1>1, <1>2, <1>3, PTL DEF PagesSpec

LEMMA OrganicPart == [PagesNext]_pagesVars => [OrganicNext]_organicVars
BY DEF PagesNext, pagesVars

\* Under a bet no gesture begins, and of one begun before it no more lands than the steps
\* nobody guards (OrganicSound), whatever plans the two loops drew; for any reader tabs.
THEOREM OrganicHeld == PagesSpec => []OrganicSound
<1>1. PagesInit => OrganicInv
  BY OrganicInits DEF PagesInit
<1>2. OrganicInv /\ [PagesNext]_pagesVars => OrganicInv'
  BY OrganicPart, OrganicSteps
<1>3. OrganicInv => OrganicSound
  BY OrganicInvSound
<1> QED
  BY <1>1, <1>2, <1>3, PTL DEF PagesSpec

LEMMA WatchPart == [PagesNext]_pagesVars => [BoardWatchNext]_watchVars
BY DEF PagesNext, pagesVars

\* The main page is not navigated by its watchdogs over a login that was just sent, and
\* no time off home is counted while it returns (WatchSound).
THEOREM WatchHeld == PagesSpec => []WatchSound
<1>1. PagesInit => WatchInv
  <2>1. ASSUME WatchRests PROVE WatchInv
    <3>1. WatchFlags
      BY <2>1, Zenon DEF WatchRests, WatchFlags
    <3>2. WatchPlace
      BY <2>1, WatchConstants DEF WatchRests, WatchPlace, Homes
    <3> QED
      BY <3>1, <3>2 DEF WatchInv
  <2> QED
    BY <2>1, WatchInits DEF PagesInit
<1>2. WatchInv /\ [PagesNext]_pagesVars => WatchInv'
  BY WatchPart, WatchSteps
<1>3. WatchInv => WatchSound
  BY WatchInvSound
<1> QED
  BY <1>1, <1>2, <1>3, PTL DEF PagesSpec

LEMMA SportsPart == [PagesNext]_pagesVars => [SportTabsNext]_sportVars
BY DEF PagesNext, pagesVars

\* A running quote holds the slip's lock and, once the boards were parked, finds no board's
\* gestures running; the observing page stays open (SportsSound).  For any list of sports
\* and any number of pages.
THEOREM SportsHeld == PagesSpec => []SportsSound
<1>1. PagesInit => SportsInv
  BY SportsInits DEF PagesInit, SportsRest
<1>2. SportsInv /\ [PagesNext]_pagesVars => SportsInv'
  BY SportsPart, SportsSteps
<1>3. SportsInv => SportsSound
  BY SportsInvSound
<1> QED
  BY <1>1, <1>2, <1>3, PTL DEF PagesSpec

LEMMA BookPart == [PagesNext]_pagesVars => [BookNext]_bookVars
BY DEF PagesNext, pagesVars

\* BookMaker offers no side of a live game whose line was pulled, however late an older
\* response is read, and backs off exactly when the last cycle met a 429 (BookSound); for
\* any games and limits.
THEOREM BookHeld == PagesSpec => []BookSound
<1>1. PagesInit => BookInv
  BY BookInits DEF PagesInit, BookOpens, BookRests
<1>2. BookInv /\ [PagesNext]_pagesVars => BookInv'
  BY BookPart, BookSteps
<1>3. BookInv => BookSound
  BY DEF BookInv
<1> QED
  BY <1>1, <1>2, <1>3, PTL DEF PagesSpec

\* Action properties: the loop closes no young tab that is needed (FreshKept), the bot
\* never closes the page a quote has found its row on (QuoteKept), and no tab is lost
\* track of once the boards were parked (TabsTracked).
THEOREM TabsNeverLost == PagesSpec => FreshKept /\ QuoteKept /\ TabsTracked
<1>1. PagesInit => TabsInv /\ SportsInv
  BY TabsInits, SportsInits DEF PagesInit, TabsRest, SportsRest
<1>2. TabsInv /\ [PagesNext]_pagesVars => TabsInv'
  BY TabsPart, TabsSteps
<1>3. SportsInv /\ [PagesNext]_pagesVars => SportsInv'
  BY SportsPart, SportsSteps
<1>4. TabsInv /\ [PagesNext]_pagesVars =>
        [\A l \in Leagues : tabs[l] = "on" /\ alive[l] < Grace /\ world[l] \notin {"unpaired", "boarded"}
           => tabs'[l] # "none" \/ dropping \/ (tick.pc = "reset" /\ l \in tick.walk)]_tabVars
  <2>1. TabsInv /\ [TabsNext]_tabVars =>
          \A l \in Leagues : tabs[l] = "on" /\ alive[l] < Grace /\ world[l] \notin {"unpaired", "boarded"}
            => tabs'[l] # "none" \/ dropping \/ (tick.pc = "reset" /\ l \in tick.walk)
    BY FreshStep, Zenon DEF TabsInv
  <2> QED
    BY <2>1, TabsPart
<1>5. SportsInv /\ [PagesNext]_pagesVars =>
        [quote.page \in Pages /\ happened' = happened => shows'[quote.page] # "free"]_sportVars
  BY SportsPart, QuoteKeptStep
<1>6. SportsInv /\ [PagesNext]_pagesVars => [Settled => Orphans' \subseteq Orphans]_sportVars
  BY SportsPart, OrphansStep
<1> QED
  BY <1>1, <1>2, <1>3, <1>4, <1>5, <1>6, PTL DEF PagesSpec, FreshKept, QuoteKept, TabsTracked

=============================================================================
