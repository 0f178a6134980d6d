------------------------------ MODULE BetInAsia -------------------------------
(* How the sidecar quotes and bets at BetInAsia (betinasia_adapter.py): a click *)
(* on a board price opens a betslip in the sport's tab, the slip's own prices   *)
(* arrive on the page's socket, a limit and a stake are typed, Place is         *)
(* pressed, and the order rests at the venue until the socket tells its end.    *)
(* The handlers are coroutines serialised by one lock, _slip_lock, which is not *)
(* re-entrant; each action runs from one await to the next.  The page is the    *)
(* venue's: whether it obeys Escape, keeps a slip, or takes what is typed is    *)
(* its own choice.  One sport's tab is modelled, the rover is that tab again.   *)
EXTENDS BetInAsiaFeed

CONSTANTS Callers,    \* requests in flight
          MaxAsks,    \* bound: requests
          Stake,      \* what a bet asks
          Limit       \* the odds a bet asks for

ASSUME BetsAssumption ==
  Stake \in Nat \ {0} /\ MaxAsks \in Nat /\ Limit \in Prices /\ "free" \notin Callers

VARIABLES
  page,    \* the slip on the page, its price field, its subscriptions
  slips,   \* the slip prices of the feed: [price, age] for each match
  own,     \* the adapter's memory: is there a slip page, the aim flag; the requests so far
  lock,    \* _slip_lock: a caller, or "free"
  op,      \* the requests
  order,   \* the orders at the venue, {} or one
  heard,   \* what the socket told of it: [closed, stake], {} when nothing
  replies  \* what the callers were told (history)

vars == <<mode, book, conn, page, slips, own, lock, op, order, heard, replies>>
feed == <<mode, book, conn>>
Nobody == "free"
None == "none"
Idle == [pc |-> "idle", kind |-> "quote", sel |-> None, clicked |-> FALSE, newer |-> FALSE]
Empty == [price |-> 0, age |-> "old"]
Browser == mode = "browser"
Betting(c) == op[c].kind \in {"bet", "rehearse"}

\* A browser's feed may still hold the price of a slip that was quoted and closed.
Init ==
  /\ FeedInit
  /\ page = [slip |-> None, limit |-> 0, acca |-> {}]
  /\ \E left \in {Empty, [price |-> Limit, age |-> "new"]} :
       slips = [e \in Events |-> IF Browser /\ e = CHOOSE x \in Events : TRUE THEN left ELSE Empty]
  /\ own = [tab |-> FALSE, aim |-> FALSE, asks |-> 0]
  /\ lock = Nobody /\ op = [c \in Callers |-> Idle]
  /\ order = {} /\ heard = {} /\ replies = {}

(* ---- the page ------------------------------------------------------------- *)
NoSlip(p) == [p EXCEPT !.slip = None, !.limit = 0, !.acca = @ \ {p.slip}]
Opened(p, e) == [NoSlip(p) EXCEPT !.slip = e, !.acca = @ \cup {e}]
\* Escape closes the slip, and the page lets go of its subscription; or nothing happens.
Escaped == {NoSlip(page), page}

\* The venue dismisses a slip it does not like.
Dismissed ==
  /\ Browser /\ page.slip # None
  /\ page' = NoSlip(page)
  /\ UNCHANGED <<feed, slips, own, lock, op, order, heard, replies>>

\* A socket closes with its subscriptions (_on_ws_close); the page opens another one.
OnWsClose ==
  /\ Browser /\ page.acca # {}
  /\ page' = [page EXCEPT !.acca = {page.slip} \ {None}]
  /\ UNCHANGED <<feed, slips, own, lock, op, order, heard, replies>>

\* _on_frame: board prices, slip prices, for what the page watches.
BoardFrame(e, p) ==
  /\ Browser /\ OnOffers(e, p)
  /\ UNCHANGED <<mode, conn, page, slips, own, lock, op, order, heard, replies>>
SlipFrame(e, p) ==
  /\ Browser /\ e \in page.acca
  /\ slips' = [slips EXCEPT ![e] = [price |-> p, age |-> "new"]]
  /\ op' = [c \in Callers |-> [op[c] EXCEPT !.newer = @ \/ op[c].sel = e]]
  /\ UNCHANGED <<feed, page, own, lock, order, heard, replies>>
\* A slip price grows older than BIA_SLIP_MAX_AGE_SEC, then than the feed's stale limit.
Ages(e) ==
  /\ Browser /\ slips[e].age # "old"
  /\ slips' = [slips EXCEPT ![e] = IF @.age = "new" THEN [@ EXCEPT !.age = "kept"] ELSE Empty]
  /\ UNCHANGED <<feed, page, own, lock, op, order, heard, replies>>

(* ---- requests and the lock ------------------------------------------------ *)
At(c, r) == op' = [op EXCEPT ![c] = r]
Goes(c, pc) == At(c, [op[c] EXCEPT !.pc = pc])
Tell(c, verdict, stake) ==
  replies' = IF op[c].kind = "bet" THEN replies \cup {[verdict |-> verdict, stake |-> stake]}
             ELSE replies

\* A bet the sidecar may not place (not enabled, too large, too small a return) is
\* refused before the lock; aim_at_selection raises its flag before the lock as well.
Ask(c, k, e) ==
  /\ (k = "close") => (e = CHOOSE x \in Events : TRUE)     \* a close names no match
  /\ Browser /\ op[c].pc = "idle" /\ own.asks < MaxAsks
  /\ At(c, [Idle EXCEPT !.pc = "wait", !.kind = k, !.sel = e])
  /\ own' = [own EXCEPT !.asks = @ + 1, !.aim = @ \/ k = "aim"]
  /\ UNCHANGED <<feed, page, slips, lock, order, heard, replies>>

Enter(c) ==
  /\ op[c].pc = "wait" /\ lock = Nobody
  /\ lock' = c
  /\ Goes(c, IF op[c].kind = "close" THEN "close" ELSE "quote")
  /\ UNCHANGED <<feed, page, slips, own, order, heard, replies>>

Leave(c, verdict, stake) ==
  /\ Tell(c, verdict, stake)
  /\ At(c, Idle)
  /\ lock' = Nobody
  /\ own' = [own EXCEPT !.aim = @ /\ op[c].kind # "aim"]

(* ---- _slip_quote_locked --------------------------------------------------- *)
\* A quote of its own ends here; a placement refuses, or goes on to the form.
QuoteFails(c) == Leave(c, "refused", 0)
QuoteGives(c, p, click) ==
  IF Betting(c) /\ p >= Limit
  THEN /\ At(c, [op[c] EXCEPT !.pc = "form", !.clicked = click])
       /\ UNCHANGED <<own, lock, replies>>
  ELSE Leave(c, "quoted", 0)

Subscribed(c) == op[c].sel \in page.acca
Fresh(c) ==
  /\ slips[op[c].sel].price > 0
  /\ slips[op[c].sel].age \in (IF Subscribed(c) THEN {"new", "kept"} ELSE {"new"})

\* Served from the cache: nothing is clicked, no slip need be open.
CachedQuote(c) ==
  /\ op[c].pc = "quote" /\ Fresh(c)
  /\ QuoteGives(c, slips[op[c].sel].price, FALSE)
  /\ UNCHANGED <<feed, page, slips, order, heard>>

\* Subscribed and nothing cached: read the page, or close what is open.
DomQuote(c) ==
  /\ op[c].pc = "quote" /\ ~Fresh(c) /\ Subscribed(c)
  /\ \/ /\ page.limit > 0
        /\ QuoteGives(c, page.limit, FALSE) /\ UNCHANGED page
     \/ page' \in Escaped /\ QuoteFails(c)
  /\ UNCHANGED <<feed, slips, order, heard>>

\* No row, no board price, an ambiguous cell; or the cursor was only to be aimed.
NoClick(c) ==
  /\ op[c].pc = "quote" /\ ~Fresh(c) /\ ~Subscribed(c)
  /\ page' \in Escaped
  /\ QuoteFails(c)
  /\ UNCHANGED <<feed, slips, order, heard>>

\* The click: the slip opens, perhaps filled with a price, or the link is followed.
Click(c) ==
  /\ op[c].pc = "quote" /\ ~Fresh(c) /\ ~Subscribed(c) /\ ~own.aim
  /\ book[op[c].sel] > 0
  /\ page' \in {Opened(page, op[c].sel), NoSlip(page)}
  /\ At(c, [op[c] EXCEPT !.pc = "answer", !.newer = FALSE])
  /\ own' = [own EXCEPT !.tab = TRUE]
  /\ UNCHANGED <<feed, slips, lock, order, heard, replies>>

SlipAnswers(c) ==
  /\ op[c].pc = "answer" /\ op[c].newer /\ slips[op[c].sel].price > 0
  /\ page' \in Escaped        \* the finally of the quote, a success included
  /\ QuoteGives(c, slips[op[c].sel].price, TRUE)
  /\ UNCHANGED <<feed, slips, order, heard>>

NoAnswer(c) ==       \* navigated away, or BIA_SLIP_WAIT_SEC is over
  /\ op[c].pc = "answer"
  /\ page' \in Escaped
  /\ QuoteFails(c)
  /\ UNCHANGED <<feed, slips, order, heard>>

(* ---- _place_via_ui -------------------------------------------------------- *)
\* _release, and the end of a rehearsal: slip_close takes the lock its caller holds.
Release(c) ==
  IF own.tab THEN Goes(c, "stuck") /\ UNCHANGED <<own, lock, replies>>
  ELSE Leave(c, "refused", 0)

NoSlipPage(c) ==
  /\ op[c].pc = "form" /\ ~own.tab
  /\ Leave(c, "refused", 0)
  /\ UNCHANGED <<feed, page, slips, order, heard>>

NoForm(c) ==         \* no price field, it cannot be filled, or there is no Place control
  /\ \/ op[c].pc = "form" /\ own.tab /\ page.slip = None
     \/ op[c].pc = "typed"
  /\ Release(c)
  /\ UNCHANGED <<feed, page, slips, order, heard>>

\* The limit and the stake are typed; the page may keep another price than the limit.
FillForm(c) ==
  /\ op[c].pc = "form" /\ own.tab /\ page.slip # None
  /\ \E p \in Prices \cup {0} : page' = [page EXCEPT !.limit = p]
  /\ Goes(c, "typed")
  /\ UNCHANGED <<feed, slips, own, lock, order, heard, replies>>

Rehearsed(c) ==
  /\ op[c].pc = "typed" /\ op[c].kind = "rehearse"
  /\ Release(c)        \* the stake is cleared before
  /\ UNCHANGED <<feed, page, slips, order, heard>>

ReadBackDiffers(c) ==
  /\ op[c].pc = "typed" /\ op[c].kind = "bet" /\ page.limit # Limit
  /\ Release(c)
  /\ UNCHANGED <<feed, page, slips, order, heard>>

\* The limit is read back and Place is pressed on the slip that is there; the venue's
\* answer names the order, or is not seen.
Placed(c) ==
  order' = {[by |-> op[c].kind, asked |-> op[c].sel, sel |-> page.slip,
             limit |-> page.limit, clicked |-> op[c].clicked, filled |-> 0, closed |-> FALSE]}
\* Mutant: the limit is not read back.
MutPress(c) ==
  /\ op[c].pc = "typed" /\ op[c].kind = "bet" /\ page.limit > 0 /\ page.slip # None /\ order = {}
  /\ Placed(c)
  /\ \/ Goes(c, "fill") /\ UNCHANGED <<own, lock, replies>>
     \/ Leave(c, "maybe live", 0)
  /\ UNCHANGED <<feed, page, slips, heard>>
Press(c) ==
  /\ op[c].pc = "typed" /\ op[c].kind = "bet" /\ page.limit = Limit /\ page.slip # None
  /\ order = {}
  /\ Placed(c)
  /\ \/ Goes(c, "fill") /\ UNCHANGED <<own, lock, replies>>
     \/ Leave(c, "maybe live", 0)
  /\ UNCHANGED <<feed, page, slips, heard>>
PressMisses(c) ==    \* Place is gone when it is clicked: no answer is seen
  /\ op[c].pc = "typed" /\ op[c].kind = "bet"
  /\ Leave(c, "maybe live", 0)
  /\ UNCHANGED <<feed, page, slips, order, heard>>

\* await_fill: over when the venue says closed, or when the budget is spent.
FillDone(c) ==
  /\ op[c].pc = "fill"
  /\ \E h \in heard : /\ h.closed
                      /\ Leave(c, IF h.stake > 0 THEN "accepted" ELSE "no fill", h.stake)
  /\ UNCHANGED <<feed, page, slips, order, heard>>
\* Mutant: at the end of the wait an order without a fill is given up.
MutFillTimesOut(c) ==
  /\ op[c].pc = "fill" /\ ~\E h \in heard : h.closed
  /\ IF \E h \in heard : h.stake > 0
     THEN \E h \in heard : Leave(c, "partial", h.stake)
     ELSE Leave(c, "no fill", 0)
  /\ UNCHANGED <<feed, page, slips, order, heard>>
FillTimesOut(c) ==
  /\ op[c].pc = "fill" /\ ~\E h \in heard : h.closed
  /\ IF \E h \in heard : h.stake > 0
     THEN \E h \in heard : Leave(c, "partial", h.stake)
     ELSE Leave(c, "live", 0)
  /\ UNCHANGED <<feed, page, slips, order, heard>>

(* ---- the order at the venue, and what the socket tells of it --------------- *)
Venue ==
  /\ \E o \in order :
       /\ ~o.closed
       /\ \/ o.filled < Stake /\ order' = {[o EXCEPT !.filled = @ + 1]}
          \/ order' = {[o EXCEPT !.closed = TRUE]}
  /\ UNCHANGED <<feed, page, slips, own, lock, op, heard, replies>>
\* _on_api merges the entries of one order; a frame tells the order as it stands.
OnApi ==
  /\ \E o \in order : heard' = {[closed |-> o.closed, stake |-> o.filled]}
  /\ UNCHANGED <<feed, page, slips, own, lock, op, order, replies>>

(* ---- who else moves the page ----------------------------------------------- *)
\* slip_close, asked for by the host: nothing to do without a slip page.
SlipClose(c) ==
  /\ op[c].pc = "close"
  /\ page' \in (IF own.tab THEN Escaped ELSE {page})
  /\ lock' = Nobody /\ At(c, Idle)
  /\ own' = [own EXCEPT !.tab = FALSE]
  /\ UNCHANGED <<feed, slips, order, heard, replies>>

\* The hourly reset of the boards, under the lock: the tabs are closed or reloaded.
BoardReset ==
  /\ Browser /\ lock = Nobody
  /\ page' = NoSlip(page)
  /\ UNCHANGED <<feed, slips, own, lock, op, order, heard, replies>>

\* The sport walker waits for a quiet moment, and after two minutes waits no longer: it
\* navigates the observing page, which may be the sport's tab, without the lock.
VisitSport ==
  /\ Browser /\ page.slip # None
  /\ page' = NoSlip(page)
  /\ UNCHANGED <<feed, slips, own, lock, op, order, heard, replies>>

Handler(c) ==
  \/ Enter(c) \/ CachedQuote(c) \/ DomQuote(c) \/ NoClick(c) \/ Click(c) \/ SlipAnswers(c)
  \/ NoAnswer(c) \/ NoSlipPage(c) \/ NoForm(c) \/ FillForm(c) \/ Rehearsed(c)
  \/ ReadBackDiffers(c) \/ Press(c) \/ PressMisses(c) \/ FillDone(c) \/ FillTimesOut(c)
  \/ SlipClose(c)
Page ==
  \/ Dismissed \/ OnWsClose \/ BoardReset \/ VisitSport \/ Venue \/ OnApi
  \/ \E e \in Events : Ages(e) \/ \E p \in Prices : SlipFrame(e, p)
  \/ \E e \in Events, p \in {0, 1} : BoardFrame(e, p)
Direction ==
  FeedNext /\ UNCHANGED <<page, slips, own, lock, op, order, heard, replies>>

\* Callers are alike and so are matches: the first request is the first caller's, for
\* the first match.
Foremost(c, e) == c = (CHOOSE x \in Callers : TRUE) /\ e = (CHOOSE x \in Events : TRUE)
Next ==
  \/ \E c \in Callers : Handler(c)
  \/ \E c \in Callers, k \in {"quote", "aim", "bet", "rehearse", "close"}, e \in Events :
       (own.asks = 0 => Foremost(c, e)) /\ Ask(c, k, e)
  \/ Page \/ Direction

Spec == Init /\ [][Next]_vars
\* The feed's loop runs: it sends, validates, logs in, reconnects.
FairSpec == Spec /\ FeedFair

TypeOK ==
  /\ FeedTypeOK
  /\ page.slip \in Events \cup {None} /\ page.limit \in Prices \cup {0} /\ page.acca \subseteq Events
  /\ lock \in Callers \cup {Nobody} /\ Cardinality(order) <= 1 /\ Cardinality(heard) <= 1
  /\ \A c \in Callers : (op[c].pc \notin {"idle", "wait"}) = (lock = c)

\* An order goes out only for a bet, never for a rehearsal or a quote, at the limit that
\* was asked, and on the selection that was asked when the slip was clicked open for it,
\* whatever the page, the walker, the resets and the other callers do (_place_via_ui).
OrderAsAsked ==
  \A o \in order : o.by = "bet" /\ o.limit = Limit /\ (o.clicked => o.sel = o.asked)

\* What a caller is told of an order is so: refused, there is none of his; no fill, it is
\* closed and empty; accepted, it is closed and that is its stake; in every other case he
\* is told that it may be live (place_bet's BetResult).
ToldTrue ==
  \A r \in replies, o \in order :
    /\ (r.verdict = "no fill") => o.closed /\ o.filled = 0
    /\ (r.verdict = "accepted") => o.closed /\ o.filled = r.stake
    /\ (r.verdict = "partial") => r.stake \in 1 .. o.filled

\* What a caller is told of his order is so, and no subscription is forgotten meanwhile.
SlipsSound == TypeOK /\ ToldTrue /\ NothingForgotten
===============================================================================
