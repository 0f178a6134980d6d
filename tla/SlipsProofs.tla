----------------------------- MODULE SlipsProofs -----------------------------
(* What the requests at BetInAsia preserve, for any matches, callers, faults and *)
(* stakes: an order is the one that was asked for, what its caller is told of it *)
(* is so, and the feed forgets no subscription.                                  *)
EXTENDS BetInAsia, FiniteSetTheorems, TLAPS

-----------------------------------------------------------------------------
(* The feed *)

ConnRec ==
  [up : BOOLEAN, ready : BOOLEAN, broken : BOOLEAN, session : {"none", "live", "dead"},
   subs : SUBSET Events, queue : SUBSET Events, server : SUBSET Events, faults : 0 .. MaxFaults]
Remembers(c) ==
  /\ c.server \subseteq c.subs /\ c.queue \subseteq c.subs
  /\ c.up /\ c.ready /\ ~c.broken => c.subs \subseteq c.server \cup c.queue
FeedInv ==
  /\ mode \in {"browser", "direct"} /\ book \in [Events -> Prices \cup {0}]
  /\ conn \in ConnRec /\ Remembers(conn)

LEMMA FeedConstants == MaxFaults \in Nat /\ Stake \in Nat /\ Limit \in Prices /\ Nobody \notin Callers
BY FeedAssumption, BetsAssumption DEF Nobody

LEMMA ConnTyped ==
  ASSUME NEW c \in ConnRec
  PROVE  /\ c.up \in BOOLEAN /\ c.ready \in BOOLEAN /\ c.broken \in BOOLEAN
         /\ c.subs \subseteq Events /\ c.queue \subseteq Events /\ c.server \subseteq Events
         /\ c.faults \in 0 .. MaxFaults
BY DEF ConnRec

LEMMA SentRemembers ==
  ASSUME NEW c \in ConnRec, NEW es \in SUBSET c.subs
  PROVE  LET d == Sent(c, es)
         IN  /\ d \in ConnRec /\ d.server = c.server \cup es /\ d.subs = c.subs
             /\ d.queue = c.queue /\ d.up = c.up /\ d.ready = c.ready /\ d.broken = c.broken
BY DEF Sent, ConnRec

LEMMA LostRemembers ==
  ASSUME NEW c \in ConnRec, c.faults < MaxFaults
  PROVE  LET d == Lost(c)
         IN  /\ d \in ConnRec /\ d.server = c.server /\ d.subs = c.subs
             /\ d.queue = c.queue /\ d.broken = TRUE
<1> DEFINE n == c.faults + 1
<1>1. n \in 0 .. MaxFaults
  BY FeedConstants DEF ConnRec
<1> HIDE DEF n
<1>2. Lost(c) = [c EXCEPT !.broken = TRUE, !.faults = n]
  BY DEF Lost, n
<1> QED
  BY <1>1, <1>2 DEF ConnRec

\* A step of the direct transport: what is subscribed is sent, to be sent, or lost with
\* the socket.
LEMMA FeedKeeps ==
  ASSUME FeedInv, FeedNext
  PROVE  FeedInv'
<1>1. conn \in ConnRec /\ Remembers(conn)
  BY DEF FeedInv
<1>2. CASE \E e \in Events : Watch(e)
  <2> PICK e \in Events : Watch(e)
    BY <1>2
  <2> DEFINE c == [conn EXCEPT !.subs = @ \cup {e}]
  <2>1. c \in ConnRec /\ c.subs = conn.subs \cup {e} /\ c.server = conn.server
        /\ c.queue = conn.queue /\ c.up = conn.up /\ c.ready = conn.ready
        /\ c.broken = conn.broken /\ c.faults = conn.faults
    BY <1>1 DEF ConnRec
  <2>2. \/ conn' = Sent(c, {e})
        \/ ~(conn.up /\ ~conn.broken) /\ conn' = c
        \/ conn.faults < MaxFaults /\ conn' = Lost(c)
    BY Zenon DEF Watch, Fault
  <2>3. UNCHANGED <<mode, book>>
    BY DEF Watch
  <2> HIDE DEF c
  <2>4. CASE conn' = Sent(c, {e})
    BY <1>1, <2>1, <2>3, <2>4, SentRemembers DEF FeedInv, Remembers
  <2>5. CASE ~(conn.up /\ ~conn.broken) /\ conn' = c
    BY <1>1, <2>1, <2>3, <2>5 DEF FeedInv, Remembers
  <2>6. CASE conn.faults < MaxFaults /\ conn' = Lost(c)
    BY <1>1, <2>1, <2>3, <2>6, LostRemembers DEF FeedInv, Remembers
  <2> QED
    BY <2>2, <2>4, <2>5, <2>6
<1>3. CASE \E e \in Events : SendBatch(e)
  <2> PICK e \in Events : SendBatch(e)
    BY <1>3
  <2> DEFINE s == Sent(conn, {e})
             l == Lost(conn)
  <2>1. s \in ConnRec /\ s.server = conn.server \cup {e} /\ s.subs = conn.subs
        /\ s.queue = conn.queue /\ s.up = conn.up /\ s.ready = conn.ready /\ s.broken = conn.broken
    BY <1>1, SentRemembers, ZenonT(40) DEF SendBatch, Remembers
  <2>2. \/ conn' = [s EXCEPT !.queue = @ \ {e}]
        \/ conn.faults < MaxFaults /\ conn' = [l EXCEPT !.queue = {}]
    BY Zenon DEF SendBatch, Fault
  <2>3. UNCHANGED <<mode, book>>
    BY DEF SendBatch
  <2>4. conn.faults < MaxFaults =>
          l \in ConnRec /\ l.server = conn.server /\ l.subs = conn.subs /\ l.broken = TRUE
    BY <1>1, LostRemembers
  <2> HIDE DEF s, l
  <2>5. CASE conn' = [s EXCEPT !.queue = @ \ {e}]
    <3>1. /\ conn' \in ConnRec /\ conn'.queue = s.queue \ {e} /\ conn'.server = s.server
          /\ conn'.subs = s.subs /\ conn'.up = s.up /\ conn'.ready = s.ready /\ conn'.broken = s.broken
      BY <2>1, <2>5 DEF ConnRec
    <3>2. conn'.server \subseteq conn'.subs /\ conn'.queue \subseteq conn'.subs
          /\ conn'.server \cup conn'.queue = conn.server \cup conn.queue \cup {e}
      BY <1>1, <2>1, <3>1 DEF Remembers, SendBatch
    <3>3. Remembers(conn')
      BY <1>1, <2>1, <3>1, <3>2 DEF Remembers
    <3> QED
      BY <2>3, <3>1, <3>3 DEF FeedInv
  <2>6. CASE conn.faults < MaxFaults /\ conn' = [l EXCEPT !.queue = {}]
    <3>1. /\ conn' \in ConnRec /\ conn'.queue = {} /\ conn'.server = l.server
          /\ conn'.subs = l.subs /\ conn'.broken = TRUE
      BY <2>4, <2>6 DEF ConnRec
    <3>2. Remembers(conn')
      BY <1>1, <2>4, <2>6, <3>1 DEF Remembers
    <3> QED
      BY <2>3, <3>1, <3>2 DEF FeedInv
  <2> QED
    BY <2>2, <2>5, <2>6
<1>4. CASE \E e \in Events, p \in Prices \cup {0} : Push(e, p)
  BY <1>4 DEF Push, OnOffers, FeedInv
<1>5. CASE Connect
  <2>1. conn' \in ConnRec /\ conn'.server = {} /\ conn'.queue = {} /\ conn'.ready = FALSE
    BY <1>1, <1>5 DEF Connect, ConnRec
  <2> QED
    BY <1>5, <2>1 DEF Connect, FeedInv, Remembers
<1>6. CASE Resubscribe
  <2>1. conn' \in ConnRec /\ conn'.server = conn.server /\ conn'.queue = conn.subs
        /\ conn'.subs = conn.subs
    BY <1>1, <1>6 DEF Resubscribe, ConnRec
  <2> QED
    BY <1>1, <1>6, <2>1 DEF Resubscribe, FeedInv, Remembers
<1>7. CASE Disconnected
  <2> DEFINE n == IF conn.broken THEN conn.faults ELSE conn.faults + 1
  <2>1. PICK s \in {"none", "live", "dead"} :
          /\ conn' = [conn EXCEPT !.up = FALSE, !.ready = FALSE, !.server = {}, !.queue = {},
                                  !.session = s, !.faults = n]
          /\ conn.broken \/ conn.faults < MaxFaults
          /\ UNCHANGED <<mode, book>>
    <3>1. conn.session \in {"none", "live", "dead"}
      BY <1>1 DEF ConnRec
    <3> QED
      BY <1>7, <3>1, Zenon DEF Disconnected, Closed, Fault
  <2>2. n \in 0 .. MaxFaults
    BY <1>1, <2>1, ConnTyped, FeedConstants
  <2> HIDE DEF n
  <2>3. conn' \in ConnRec /\ conn'.server = {} /\ conn'.queue = {} /\ conn'.up = FALSE
    BY <1>1, <2>1, <2>2 DEF ConnRec
  <2> QED
    BY <2>1, <2>3 DEF FeedInv, Remembers
<1>8. CASE Relogin
  <2> DEFINE n == conn.faults + 1
  <2>1. \/ conn' = [conn EXCEPT !.session = "live"]
        \/ conn.faults < MaxFaults /\ conn' = [conn EXCEPT !.faults = n]
    BY <1>8, Zenon DEF Relogin, Fault
  <2>2. conn.faults < MaxFaults => n \in 0 .. MaxFaults
    BY <1>1, ConnTyped, FeedConstants
  <2> HIDE DEF n
  <2>3. /\ conn' \in ConnRec /\ conn'.server = conn.server /\ conn'.queue = conn.queue
        /\ conn'.subs = conn.subs /\ conn'.up = conn.up /\ conn'.ready = conn.ready
        /\ conn'.broken = conn.broken
    BY <1>1, <2>1, <2>2 DEF ConnRec
  <2> QED
    BY <1>1, <1>8, <2>3 DEF Relogin, FeedInv, Remembers
<1> QED
  BY <1>2, <1>3, <1>4, <1>5, <1>6, <1>7, <1>8, Zenon DEF FeedNext

-----------------------------------------------------------------------------
(* The requests and the lock *)

\* A request that holds the lock, and a request without it.
Working == {"quote", "close", "answer", "form", "typed", "fill", "stuck"}
Waiting == {"idle", "wait"}
RequestRec ==
  [pc : Working \cup Waiting, kind : {"quote", "aim", "bet", "rehearse", "close"},
   sel : Events \cup {None}, clicked : BOOLEAN, newer : BOOLEAN]
Request(r) == r \in RequestRec /\ (r.pc # "idle" => r.sel \in Events)
\* The slip a request clicked open is still the page's, or there is none any more.
Clicked(r) == r.pc = "answer" \/ (r.pc \in {"form", "typed"} /\ r.clicked = TRUE)
Keeps(r, s) == Clicked(r) => s \in {r.sel, None}
PageRec == [slip : Events \cup {None}, limit : Prices \cup {0}, acca : SUBSET Events]
Shown(p) == p \in PageRec
CallersInv ==
  /\ lock \in Callers \cup {Nobody} /\ op = [c \in Callers |-> op[c]]
  /\ \A c \in Callers :
       Request(op[c]) /\ (op[c].pc \in Working <=> lock = c) /\ Keeps(op[c], page.slip)

LEMMA IdleRequest == Request(Idle) /\ Idle.pc = "idle" /\ "idle" \notin Working /\ ~Clicked(Idle)
BY DEF Request, RequestRec, Idle, Waiting, Working, Clicked

LEMMA ClickedWorks == ASSUME NEW r, Clicked(r) PROVE r.pc \in Working
BY DEF Clicked, Working

LEMMA WorksFor ==
  ASSUME NEW r, Request(r), r.pc # "idle"
  PROVE  r.sel \in Events
BY DEF Request, RequestRec

LEMMA AtOne ==
  ASSUME CallersInv, NEW c \in Callers, NEW r, At(c, r)
  PROVE  /\ op' = [d \in Callers |-> op'[d]] /\ op'[c] = r
         /\ \A d \in Callers : d # c => op'[d] = op[d]
<1>1. op = [d \in Callers |-> op[d]]
  BY Zenon DEF CallersInv
<1> QED
  BY <1>1 DEF At

\* A step of the lock's holder that keeps it.
LEMMA HolderKeeps ==
  ASSUME CallersInv, NEW c \in Callers, op[c].pc \in Working, lock' = lock, NEW r, At(c, r),
         Request(r), r.pc \in Working, Keeps(r, page'.slip)
  PROVE  CallersInv'
<1>1. lock = c /\ \A d \in Callers : d # c => op[d].pc \notin Working
  BY DEF CallersInv
<1>2. \A d \in Callers : d # c => ~Clicked(op[d])
  BY <1>1, ClickedWorks
<1>3. op' = [d \in Callers |-> op'[d]] /\ op'[c] = r /\ \A d \in Callers : d # c => op'[d] = op[d]
  BY AtOne
<1>4. ASSUME NEW d \in Callers
      PROVE  Request(op'[d]) /\ (op'[d].pc \in Working <=> lock' = d) /\ Keeps(op'[d], page'.slip)
  <2>1. CASE d = c
    BY <1>1, <1>3, <2>1
  <2>2. CASE d # c
    BY <1>1, <1>2, <1>3, <2>2 DEF CallersInv, Keeps
  <2> QED
    BY <2>1, <2>2
<1>5. lock' \in Callers \cup {Nobody}
  BY DEF CallersInv
<1> QED
  BY <1>3, <1>4, <1>5, Zenon DEF CallersInv

\* A step of the lock's holder that gives it back.
LEMMA HolderLeaves ==
  ASSUME CallersInv, NEW c \in Callers, op[c].pc \in Working, lock' = Nobody, At(c, Idle)
  PROVE  CallersInv'
<1>1. lock = c /\ \A d \in Callers : d # c => op[d].pc \notin Working
  BY DEF CallersInv
<1>2. \A d \in Callers : d # c => ~Clicked(op[d])
  BY <1>1, ClickedWorks
<1>3. op' = [d \in Callers |-> op'[d]] /\ op'[c] = Idle /\ \A d \in Callers : d # c => op'[d] = op[d]
  BY AtOne
<1>4. ASSUME NEW d \in Callers
      PROVE  Request(op'[d]) /\ (op'[d].pc \in Working <=> lock' = d) /\ Keeps(op'[d], page'.slip)
  <2>1. lock' # d
    BY FeedConstants
  <2>2. CASE d = c
    BY <1>3, <2>1, <2>2, IdleRequest DEF Keeps
  <2>3. CASE d # c
    BY <1>1, <1>2, <1>3, <2>1, <2>3 DEF CallersInv, Keeps
  <2> QED
    BY <2>2, <2>3
<1> QED
  BY <1>3, <1>4, Zenon DEF CallersInv

\* A step of a request without the lock, which it may take when it is free.
LEMMA WaiterKeeps ==
  ASSUME CallersInv, NEW c \in Callers, op[c].pc \in Waiting, NEW r, At(c, r), Request(r),
         ~Clicked(r), page' = page,
         \/ r.pc \in Waiting /\ lock' = lock
         \/ r.pc \in Working /\ lock = Nobody /\ lock' = c
  PROVE  CallersInv'
<1>1. op[c].pc \notin Working /\ lock # c /\ (r.pc \in Waiting => r.pc \notin Working)
  BY DEF CallersInv, Waiting, Working
<1>2. op' = [d \in Callers |-> op'[d]] /\ op'[c] = r /\ \A d \in Callers : d # c => op'[d] = op[d]
  BY AtOne
<1>3. lock' \in Callers \cup {Nobody}
  BY DEF CallersInv
<1>4. ASSUME NEW d \in Callers
      PROVE  Request(op'[d]) /\ (op'[d].pc \in Working <=> lock' = d) /\ Keeps(op'[d], page'.slip)
  <2>1. CASE d = c
    BY <1>1, <1>2, <2>1 DEF Keeps
  <2>2. CASE d # c
    <3>1. Request(op[d]) /\ (op[d].pc \in Working <=> lock = d) /\ Keeps(op[d], page.slip)
      BY Zenon DEF CallersInv
    <3>2. lock' = d <=> lock = d
      BY <1>1, <2>2, FeedConstants
    <3> QED
      BY <1>2, <2>2, <3>1, <3>2
  <2> QED
    BY <2>1, <2>2
<1> QED
  BY <1>2, <1>3, <1>4, Zenon DEF CallersInv

\* A step of the page: a slip goes, none comes.
LEMMA PageKeeps ==
  ASSUME CallersInv, UNCHANGED <<lock, op>>, page'.slip \in {page.slip, None}
  PROVE  CallersInv'
<1>1. ASSUME NEW d \in Callers
      PROVE  Request(op'[d]) /\ (op'[d].pc \in Working <=> lock' = d) /\ Keeps(op'[d], page'.slip)
  <2>1. Request(op[d]) /\ (op[d].pc \in Working <=> lock = d) /\ Keeps(op[d], page.slip)
    BY Zenon DEF CallersInv
  <2> QED
    BY <2>1 DEF Keeps
<1> QED
  BY <1>1, Zenon DEF CallersInv

LEMMA NoSlipShown == ASSUME Shown(page) PROVE Shown(NoSlip(page)) /\ NoSlip(page).slip = None
BY DEF Shown, PageRec, NoSlip

LEMMA EscapedShown ==
  ASSUME Shown(page), page' \in Escaped
  PROVE  Shown(page') /\ page'.slip \in {page.slip, None}
<1>1. page' = NoSlip(page) \/ page' = page
  BY DEF Escaped
<1> QED
  BY <1>1, NoSlipShown

\* A quote gives a price: the placement goes on to the form, or the request ends.
LEMMA QuoteKeeps ==
  ASSUME CallersInv, NEW c \in Callers, op[c].pc \in Working, NEW p, NEW click \in BOOLEAN,
         QuoteGives(c, p, click), click = TRUE => op[c].pc = "answer",
         page'.slip \in {page.slip, None}
  PROVE  CallersInv'
<1> DEFINE r == [op[c] EXCEPT !.pc = "form", !.clicked = click]
<1>1. Request(op[c]) /\ Keeps(op[c], page.slip)
  BY Zenon DEF CallersInv
<1>0. op[c].sel \in Events
  BY <1>1, WorksFor DEF Working
<1>2. Request(r) /\ r.pc = "form" /\ r.sel = op[c].sel /\ r.clicked = click
  BY <1>0, <1>1 DEF Request, RequestRec, Working
<1>3. (At(c, r) /\ lock' = lock) \/ Leave(c, "quoted", 0)
  BY Zenon DEF QuoteGives
<1> HIDE DEF r
<1>4. CASE At(c, r) /\ lock' = lock
  <2>1. Keeps(r, page'.slip)
    BY <1>1, <1>2 DEF Keeps, Clicked
  <2>2. r.pc \in Working
    BY <1>2 DEF Working
  <2> QED
    BY <1>2, <1>4, <2>1, <2>2, HolderKeeps
<1>5. CASE Leave(c, "quoted", 0)
  BY <1>5, HolderLeaves DEF Leave
<1> QED
  BY <1>3, <1>4, <1>5

\* The holder moves on and the slip it may have clicked open stays its own.
LEMMA GoesKeeps ==
  ASSUME CallersInv, NEW c \in Callers, op[c].pc \in Working, lock' = lock, NEW pc \in Working,
         Goes(c, pc), pc \in {"form", "typed"} => op[c].pc \in {"form", "typed"}, pc # "answer",
         page'.slip \in {page.slip, None}
  PROVE  CallersInv'
<1> DEFINE r == [op[c] EXCEPT !.pc = pc]
<1>1. Request(op[c]) /\ Keeps(op[c], page.slip)
  BY Zenon DEF CallersInv
<1>0. op[c].sel \in Events
  BY <1>1, WorksFor DEF Working
<1>2. Request(r) /\ r.pc = pc /\ r.sel = op[c].sel /\ r.clicked = op[c].clicked
  BY <1>0, <1>1 DEF Request, RequestRec
<1>3. At(c, r)
  BY Zenon DEF Goes
<1> HIDE DEF r
<1>4. Keeps(r, page'.slip)
  BY <1>1, <1>2 DEF Keeps, Clicked
<1> QED
  BY <1>2, <1>3, <1>4, HolderKeeps

LEMMA ReleaseKeeps ==
  ASSUME CallersInv, NEW c \in Callers, op[c].pc \in Working, Release(c), page' = page
  PROVE  CallersInv'
<1>1. (Goes(c, "stuck") /\ lock' = lock) \/ Leave(c, "refused", 0)
  BY Zenon DEF Release
<1>2. "stuck" \in Working /\ "stuck" \notin {"form", "typed"} /\ "stuck" # "answer"
  BY DEF Working
<1>3. CASE Goes(c, "stuck") /\ lock' = lock
  BY <1>2, <1>3, GoesKeeps
<1>4. CASE Leave(c, "refused", 0)
  BY <1>4, HolderLeaves DEF Leave
<1> QED
  BY <1>1, <1>3, <1>4

\* Every step of a request.
LEMMA HandlerKeeps ==
  ASSUME CallersInv, Shown(page), NEW c \in Callers, Handler(c)
  PROVE  CallersInv' /\ Shown(page')
<1>0. Request(op[c]) /\ Keeps(op[c], page.slip) /\ (op[c].pc \in Working <=> lock = c)
  BY Zenon DEF CallersInv
<1>1. CASE Enter(c)
  <2> DEFINE r == [op[c] EXCEPT !.pc = IF op[c].kind = "close" THEN "close" ELSE "quote"]
  <2>0. op[c].pc = "wait" /\ op[c].sel \in Events
    BY <1>0, <1>1, WorksFor DEF Enter
  <2>1. Request(r) /\ ~Clicked(r) /\ r.pc \in Working
    BY <1>0, <2>0 DEF Request, RequestRec, Clicked, Working
  <2>2. At(c, r) /\ op[c].pc \in Waiting /\ lock = Nobody /\ lock' = c /\ page' = page
    BY <1>1, Zenon DEF Enter, Goes, Waiting
  <2> HIDE DEF r
  <2> QED
    BY <2>1, <2>2, WaiterKeeps
<1>2. CASE CachedQuote(c)
  <2>1. op[c].pc \in Working /\ page' = page /\ QuoteGives(c, slips[op[c].sel].price, FALSE)
    BY <1>2 DEF CachedQuote, Working
  <2> QED
    BY <2>1, QuoteKeeps
<1>3. CASE DomQuote(c)
  <2>1. op[c].pc \in Working
    BY <1>3 DEF DomQuote, Working
  <2>2. CASE QuoteGives(c, page.limit, FALSE) /\ page' = page
    BY <2>1, <2>2, QuoteKeeps
  <2>3. CASE page' \in Escaped /\ Leave(c, "refused", 0)
    BY <2>1, <2>3, EscapedShown, HolderLeaves DEF Leave
  <2> QED
    BY <1>3, <2>2, <2>3, Zenon DEF DomQuote, QuoteFails
<1>4. CASE NoClick(c) \/ NoAnswer(c)
  <2>1. op[c].pc \in Working /\ page' \in Escaped /\ Leave(c, "refused", 0)
    BY <1>4 DEF NoClick, NoAnswer, QuoteFails, Working
  <2> QED
    BY <2>1, EscapedShown, HolderLeaves DEF Leave
<1>5. CASE Click(c)
  <2> DEFINE r == [op[c] EXCEPT !.pc = "answer", !.newer = FALSE]
  <2>0. op[c].pc = "quote" /\ op[c].sel \in Events
    BY <1>0, <1>5, WorksFor DEF Click
  <2>1. Request(r) /\ r.pc \in Working /\ r.sel = op[c].sel
    BY <1>0, <2>0 DEF Request, RequestRec, Working
  <2>2. At(c, r) /\ lock' = lock /\ op[c].pc \in Working
        /\ page' \in {Opened(page, op[c].sel), NoSlip(page)}
    BY <1>5 DEF Click, Working
  <2>4. Shown(page') /\ page'.slip \in {op[c].sel, None}
    <3> DEFINE q == NoSlip(page)
               e == op[c].sel
               acca == q.acca \cup {e}
    <3>1. q \in PageRec /\ q.slip = None
      BY NoSlipShown DEF Shown
    <3>2. page' = q \/ page' = [q EXCEPT !.slip = e, !.acca = acca]
      BY <2>2, Zenon DEF Opened
    <3>3. e \in Events /\ acca \in SUBSET Events
      BY <2>0, <3>1 DEF PageRec
    <3> HIDE DEF q, e, acca
    <3>4. page' = [q EXCEPT !.slip = e, !.acca = acca] => page' \in PageRec /\ page'.slip = e
      BY <3>1, <3>3 DEF PageRec
    <3> QED
      BY <3>1, <3>2, <3>4 DEF Shown, e
  <2> HIDE DEF r
  <2>5. Keeps(r, page'.slip)
    BY <2>1, <2>4 DEF Keeps
  <2> QED
    BY <2>1, <2>2, <2>4, <2>5, HolderKeeps
<1>6. CASE SlipAnswers(c)
  <2>1. op[c].pc = "answer" /\ page' \in Escaped /\ QuoteGives(c, slips[op[c].sel].price, TRUE)
    BY <1>6 DEF SlipAnswers
  <2>2. op[c].pc \in Working
    BY <2>1 DEF Working
  <2> QED
    BY <2>1, <2>2, EscapedShown, QuoteKeeps
<1>7. CASE NoSlipPage(c) \/ PressMisses(c) \/ FillDone(c) \/ FillTimesOut(c)
  <2>1. op[c].pc \in Working /\ page' = page
    BY <1>7 DEF NoSlipPage, PressMisses, FillDone, FillTimesOut, Working
  <2>2. lock' = Nobody /\ At(c, Idle)
    BY <1>7, Zenon DEF NoSlipPage, PressMisses, FillDone, FillTimesOut, Leave
  <2> QED
    BY <2>1, <2>2, HolderLeaves
<1>8. CASE NoForm(c) \/ Rehearsed(c) \/ ReadBackDiffers(c)
  <2>1. op[c].pc \in Working /\ page' = page /\ Release(c)
    BY <1>8 DEF NoForm, Rehearsed, ReadBackDiffers, Working
  <2> QED
    BY <2>1, ReleaseKeeps
<1>9. CASE FillForm(c)
  <2>1. op[c].pc = "form" /\ Goes(c, "typed") /\ lock' = lock
        /\ \E p \in Prices \cup {0} : page' = [page EXCEPT !.limit = p]
    BY <1>9, Zenon DEF FillForm
  <2>2. Shown(page') /\ page'.slip = page.slip
    BY <2>1 DEF Shown, PageRec
  <2>3. "typed" \in Working /\ "typed" # "answer" /\ op[c].pc \in Working
    BY <2>1 DEF Working
  <2> QED
    BY <2>1, <2>2, <2>3, GoesKeeps
<1>10. CASE Press(c)
  <2>1. op[c].pc \in Working /\ page' = page
    BY <1>10 DEF Press, Working
  <2>2. (Goes(c, "fill") /\ lock' = lock) \/ (lock' = Nobody /\ At(c, Idle))
    BY <1>10, Zenon DEF Press, Leave
  <2>3. "fill" \in Working /\ "fill" # "answer" /\ "fill" \notin {"form", "typed"}
    BY DEF Working
  <2> QED
    BY <2>1, <2>2, <2>3, GoesKeeps, HolderLeaves
<1>11. CASE SlipClose(c)
  <2>1. op[c].pc \in Working /\ lock' = Nobody /\ At(c, Idle)
        /\ (page' \in Escaped \/ page' = page)
    BY <1>11 DEF SlipClose, Working
  <2> QED
    BY <2>1, EscapedShown, HolderLeaves
<1> QED
  BY <1>1, <1>2, <1>3, <1>4, <1>5, <1>6, <1>7, <1>8, <1>9, <1>10, <1>11, Zenon DEF Handler

LEMMA FrameKeeps ==
  ASSUME CallersInv, NEW e, NEW p, SlipFrame(e, p)
  PROVE  CallersInv'
<1>1. op' = [c \in Callers |-> [op[c] EXCEPT !.newer = @ \/ op[c].sel = e]] /\ lock' = lock /\ page' = page
  BY DEF SlipFrame
<1>2. ASSUME NEW d \in Callers
      PROVE  Request(op'[d]) /\ op'[d].pc = op[d].pc /\ op'[d].sel = op[d].sel
             /\ op'[d].clicked = op[d].clicked
  <2> DEFINE n == op[d].newer \/ op[d].sel = e
  <2>1. n \in BOOLEAN
    OBVIOUS
  <2>2. op'[d] = [op[d] EXCEPT !.newer = n]
    BY <1>1
  <2>3. Request(op[d])
    BY Zenon DEF CallersInv
  <2> HIDE DEF n
  <2> QED
    BY <2>1, <2>2, <2>3 DEF Request, RequestRec
<1>3. op' = [c \in Callers |-> op'[c]]
  BY <1>1
<1>4. ASSUME NEW d \in Callers
      PROVE  Request(op'[d]) /\ (op'[d].pc \in Working <=> lock' = d) /\ Keeps(op'[d], page'.slip)
  BY <1>1, <1>2 DEF CallersInv, Keeps, Clicked
<1>5. lock' \in Callers \cup {Nobody}
  BY <1>1 DEF CallersInv
<1> QED
  BY <1>3, <1>4, <1>5, Zenon DEF CallersInv

LEMMA AskKeeps ==
  ASSUME CallersInv, NEW c \in Callers, NEW k \in {"quote", "aim", "bet", "rehearse", "close"},
         NEW e \in Events, Ask(c, k, e)
  PROVE  CallersInv'
<1> DEFINE r == [Idle EXCEPT !.pc = "wait", !.kind = k, !.sel = e]
<1>1. Request(r) /\ ~Clicked(r) /\ r.pc \in Waiting
  BY DEF Idle, Request, RequestRec, Clicked, Waiting
<1> HIDE DEF r
<1>2. At(c, r) /\ op[c].pc \in Waiting /\ lock' = lock /\ page' = page
  BY Zenon DEF Ask, r, Waiting
<1> QED
  BY <1>1, <1>2, WaiterKeeps

-----------------------------------------------------------------------------
(* The order, what the socket tells of it, and what its caller is told *)

OrderRec ==
  [by : {"bet"}, asked : Events, sel : Events, limit : {Limit}, clicked : BOOLEAN,
   filled : 0 .. Stake, closed : BOOLEAN]
Meant(o) == o \in OrderRec /\ (o.clicked = TRUE => o.sel = o.asked)
\* What was heard of the order once is behind it, or final.
Behind(h, o) ==
  /\ h.closed \in BOOLEAN /\ h.stake \in 0 .. o.filled
  /\ h.closed = TRUE => o.closed = TRUE /\ h.stake = o.filled
\* What ToldTrue asks of one reply; a mild one says nothing that could be wrong.
Says(r, o) ==
  /\ (r.verdict = "no fill") => o.closed /\ o.filled = 0
  /\ (r.verdict = "accepted") => o.closed /\ o.filled = r.stake
  /\ (r.verdict = "partial") => r.stake \in 1 .. o.filled
Mild == {"refused", "quoted", "maybe live", "live"}
OrdersInv ==
  /\ \A o \in order : order = {o} /\ Meant(o)
  /\ \A h \in heard : heard = {h} /\ \E o \in order : Behind(h, o)
  /\ \A r \in replies : r.verdict \in Mild \/ \E o \in order : Says(r, o)

LEMMA TellKeeps ==
  ASSUME OrdersInv, NEW c, NEW v, NEW s, Tell(c, v, s), UNCHANGED <<order, heard>>,
         v \in Mild \/ \E o \in order : Says([verdict |-> v, stake |-> s], o)
  PROVE  OrdersInv'
<1>1. \A r \in replies' : r \in replies \/ r = [verdict |-> v, stake |-> s]
  BY DEF Tell
<1>2. \A r \in replies' : r.verdict \in Mild \/ \E o \in order' : Says(r, o)
  BY <1>1 DEF OrdersInv
<1> QED
  BY <1>2 DEF OrdersInv

LEMMA SameOrders == OrdersInv /\ UNCHANGED <<order, heard, replies>> => OrdersInv'
BY DEF OrdersInv

LEMMA MildTell ==
  ASSUME OrdersInv, NEW c, NEW v \in Mild, Leave(c, v, 0), UNCHANGED <<order, heard>>
  PROVE  OrdersInv'
BY TellKeeps, Zenon DEF Leave

\* The order goes out on the slip that is open, which is the one clicked open for it.
LEMMA PressOrders ==
  ASSUME CallersInv, OrdersInv, Shown(page), NEW c \in Callers, Press(c)
  PROVE  OrdersInv'
<1> DEFINE o == [by |-> op[c].kind, asked |-> op[c].sel, sel |-> page.slip,
                 limit |-> page.limit, clicked |-> op[c].clicked, filled |-> 0, closed |-> FALSE]
<1>1. /\ op[c].pc = "typed" /\ op[c].kind = "bet" /\ page.limit = Limit /\ page.slip # None
      /\ order = {} /\ order' = {o} /\ heard' = heard
      /\ replies' = replies \/ Leave(c, "maybe live", 0)
  BY Zenon DEF Press, Placed
<1>2. Request(op[c]) /\ Keeps(op[c], page.slip)
  BY Zenon DEF CallersInv
<1>3. op[c].sel \in Events /\ op[c].clicked \in BOOLEAN /\ page.slip \in Events
  BY <1>1, <1>2 DEF Request, RequestRec, Shown, PageRec
<1>4. op[c].clicked = TRUE => page.slip = op[c].sel
  BY <1>1, <1>2 DEF Keeps, Clicked
<1>5. Meant(o)
  <2>1. 0 \in 0 .. Stake /\ op[c].kind \in {"bet"} /\ page.limit \in {Limit}
    <3>1. 0 \in 0 .. Stake
      BY FeedConstants
    <3>2. op[c].kind \in {"bet"} /\ page.limit \in {Limit}
      BY <1>1, Zenon
    <3> QED
      BY <3>1, <3>2
  <2> QED
    <3>1. o \in OrderRec
      BY <1>3, <2>1 DEF OrderRec
    <3>2. o.clicked = op[c].clicked /\ o.sel = page.slip /\ o.asked = op[c].sel
      OBVIOUS
    <3> HIDE DEF o
    <3> QED
      BY <1>4, <3>1, <3>2 DEF Meant
<1> HIDE DEF o
<1>6. heard = {} /\ \A r \in replies : r.verdict \in Mild
  BY <1>1 DEF OrdersInv
<1>7. \A r \in replies' : r.verdict \in Mild
  <2>1. \A r \in replies' : r \in replies \/ r = [verdict |-> "maybe live", stake |-> 0]
    BY <1>1 DEF Leave, Tell
  <2> QED
    <3>1. \A s : [verdict |-> "maybe live", stake |-> s].verdict \in Mild
      BY DEF Mild
    <3> QED
      BY <1>6, <2>1, <3>1
<1> QED
  BY <1>1, <1>5, <1>6, <1>7 DEF OrdersInv

LEMMA FillOrders ==
  ASSUME OrdersInv, NEW c \in Callers, FillDone(c) \/ FillTimesOut(c)
  PROVE  OrdersInv'
<1>1. UNCHANGED <<order, heard>>
  BY DEF FillDone, FillTimesOut
<1>2. ASSUME NEW h \in heard
      PROVE  \E o \in order : Behind(h, o) /\ o.closed \in BOOLEAN /\ o.filled \in Nat
  BY FeedConstants DEF OrdersInv, Meant, OrderRec
<1>3. CASE FillDone(c)
  <2> DEFINE v(h) == IF h.stake > 0 THEN "accepted" ELSE "no fill"
  <2>1. PICK h \in heard : h.closed /\ Leave(c, v(h), h.stake)
    BY <1>3, Zenon DEF FillDone
  <2>2. PICK o \in order : Behind(h, o) /\ o.closed \in BOOLEAN /\ o.filled \in Nat
    BY <1>2
  <2>3. o.closed = TRUE /\ h.stake = o.filled /\ h.stake \in Nat
    BY <2>1, <2>2 DEF Behind
  <2>4. Says([verdict |-> v(h), stake |-> h.stake], o)
    BY <2>3 DEF Says
  <2>5. Tell(c, v(h), h.stake)
    BY <2>1, Zenon DEF Leave
  <2> HIDE DEF v
  <2> QED
    BY <1>1, <2>4, <2>5, TellKeeps
<1>4. CASE FillTimesOut(c)
  <2>1. Leave(c, "live", 0) \/ \E h \in heard : h.stake > 0 /\ Leave(c, "partial", h.stake)
    <3>1. \A h, g \in heard : h = g
      BY DEF OrdersInv
    <3> QED
      BY <1>4, <3>1, Zenon DEF FillTimesOut
  <2>2. CASE Leave(c, "live", 0)
    BY <1>1, <2>2, MildTell DEF Mild
  <2>3. CASE \E h \in heard : h.stake > 0 /\ Leave(c, "partial", h.stake)
    <3>1. PICK h \in heard : h.stake > 0 /\ Leave(c, "partial", h.stake)
      BY <2>3
    <3>2. PICK o \in order : Behind(h, o) /\ o.closed \in BOOLEAN /\ o.filled \in Nat
      BY <1>2
    <3>3. Says([verdict |-> "partial", stake |-> h.stake], o)
      BY <3>1, <3>2 DEF Says, Behind
    <3>4. Tell(c, "partial", h.stake)
      BY <3>1, Zenon DEF Leave
    <3> QED
      BY <1>1, <3>3, <3>4, TellKeeps
  <2> QED
    BY <2>1, <2>2, <2>3
<1> QED
  BY <1>3, <1>4

LEMMA HandlerOrders ==
  ASSUME CallersInv, OrdersInv, Shown(page), NEW c \in Callers, Handler(c)
  PROVE  OrdersInv'
<1>1. CASE Press(c)
  BY <1>1, PressOrders
<1>2. CASE FillDone(c) \/ FillTimesOut(c)
  BY <1>2, FillOrders
<1>3. CASE Enter(c) \/ FillForm(c) \/ Click(c) \/ SlipClose(c)
  <2>1. UNCHANGED <<order, heard, replies>>
    BY <1>3 DEF Enter, FillForm, Click, SlipClose
  <2> QED
    BY <2>1, SameOrders
<1>4. CASE \/ CachedQuote(c) \/ DomQuote(c) \/ NoClick(c) \/ SlipAnswers(c) \/ NoAnswer(c)
           \/ NoSlipPage(c) \/ NoForm(c) \/ Rehearsed(c) \/ ReadBackDiffers(c) \/ PressMisses(c)
  <2>1. UNCHANGED <<order, heard>>
    BY <1>4 DEF CachedQuote, DomQuote, NoClick, SlipAnswers, NoAnswer, NoSlipPage, NoForm,
                Rehearsed, ReadBackDiffers, PressMisses
  <2>2. \/ replies' = replies \/ Leave(c, "refused", 0) \/ Leave(c, "quoted", 0)
        \/ Leave(c, "maybe live", 0)
    BY <1>4, Zenon DEF CachedQuote, DomQuote, NoClick, SlipAnswers, NoAnswer, NoSlipPage, NoForm,
                       Rehearsed, ReadBackDiffers, PressMisses, QuoteGives, QuoteFails, Release
  <2>3. "refused" \in Mild /\ "quoted" \in Mild /\ "maybe live" \in Mild
    BY DEF Mild
  <2> QED
    BY <2>1, <2>2, <2>3, SameOrders, MildTell
<1> QED
  BY <1>1, <1>2, <1>3, <1>4, Zenon DEF Handler

LEMMA VenueOrders ==
  ASSUME OrdersInv, Venue \/ OnApi
  PROVE  OrdersInv'
<1>1. CASE Venue
  <2>1. PICK o \in order :
          /\ ~o.closed
          /\ \/ o.filled < Stake /\ order' = {[o EXCEPT !.filled = @ + 1]}
             \/ order' = {[o EXCEPT !.closed = TRUE]}
    BY <1>1, Zenon DEF Venue
  <2>2. UNCHANGED <<heard, replies>>
    BY <1>1 DEF Venue
  <2>3. order = {o} /\ Meant(o) /\ o.filled \in 0 .. Stake /\ o.closed = FALSE
    BY <2>1 DEF OrdersInv, Meant, OrderRec
  <2> DEFINE n == o.filled + 1
  <2>4. PICK q : /\ order' = {q} /\ Meant(q) /\ q.filled \in {o.filled, n}
                 /\ q.closed \in BOOLEAN /\ q.filled \in 0 .. Stake
    <3>1. CASE o.filled < Stake /\ order' = {[o EXCEPT !.filled = @ + 1]}
      <4>1. n \in 0 .. Stake
        BY <2>3, <3>1, FeedConstants
      <4>2. order' = {[o EXCEPT !.filled = n]}
        BY <3>1
      <4> HIDE DEF n
      <4>3. Meant([o EXCEPT !.filled = n]) /\ [o EXCEPT !.filled = n].filled = n
            /\ [o EXCEPT !.filled = n].closed \in BOOLEAN
        BY <2>3, <4>1 DEF Meant, OrderRec
      <4> QED
        BY <4>1, <4>2, <4>3
    <3>2. CASE order' = {[o EXCEPT !.closed = TRUE]}
      <4>1. Meant([o EXCEPT !.closed = TRUE]) /\ [o EXCEPT !.closed = TRUE].filled = o.filled
            /\ [o EXCEPT !.closed = TRUE].closed \in BOOLEAN
        BY <2>3 DEF Meant, OrderRec
      <4> QED
        BY <2>3, <3>2, <4>1
    <3> QED
      BY <2>1, <3>1, <3>2
  <2>5. \A h \in heard : Behind(h, o)
    BY <2>3 DEF OrdersInv
  <2>6. \A h \in heard : Behind(h, q)
    BY <2>3, <2>4, <2>5, FeedConstants DEF Behind
  <2>7. ASSUME NEW r \in replies, Says(r, o) PROVE Says(r, q)
    <3>1. r.verdict # "no fill" /\ r.verdict # "accepted"
          /\ (r.verdict = "partial" => r.stake \in 1 .. o.filled)
      BY <2>3, <2>7, Zenon DEF Says
    <3>2. 1 .. o.filled \subseteq 1 .. q.filled
      BY <2>3, <2>4, FeedConstants
    <3> QED
      BY <3>1, <3>2, Zenon DEF Says
  <2>8. \A r \in replies : r.verdict \in Mild \/ Says(r, q)
    BY <2>3, <2>7 DEF OrdersInv
  <2> QED
    BY <2>2, <2>4, <2>6, <2>8 DEF OrdersInv
<1>2. CASE OnApi
  <2>1. PICK o \in order : heard' = {[closed |-> o.closed, stake |-> o.filled]}
    BY <1>2, Zenon DEF OnApi
  <2>2. UNCHANGED <<order, replies>>
    BY <1>2 DEF OnApi
  <2>3. o.closed \in BOOLEAN /\ o.filled \in Nat
    BY FeedConstants DEF OrdersInv, Meant, OrderRec
  <2>4. Behind([closed |-> o.closed, stake |-> o.filled], o)
    BY <2>3 DEF Behind
  <2> QED
    BY <2>1, <2>2, <2>4 DEF OrdersInv
<1> QED
  BY <1>1, <1>2

-----------------------------------------------------------------------------
(* The whole *)

SlipsInv == FeedInv /\ Shown(page) /\ CallersInv /\ OrdersInv

LEMMA SlipsInit == Init => SlipsInv
<1> SUFFICES ASSUME Init PROVE SlipsInv
  OBVIOUS
<1>1. FeedInv
  <2> DEFINE s == IF mode = "direct" THEN "live" ELSE "none"
  <2>1. s \in {"none", "live", "dead"} /\ conn = [Quiet EXCEPT !.session = s]
        /\ mode \in {"browser", "direct"} /\ book = [e \in Events |-> 0]
    BY DEF Init, FeedInit
  <2> HIDE DEF s
  <2>2. 0 \in 0 .. MaxFaults
    BY FeedConstants
  <2> QED
    BY <2>1, <2>2 DEF FeedInv, ConnRec, Remembers, Quiet
<1>2. Shown(page)
  BY DEF Init, Shown, PageRec
<1>3. CallersInv
  BY IdleRequest, FeedConstants DEF Init, CallersInv, Keeps
<1>4. OrdersInv
  BY DEF Init, OrdersInv
<1> QED
  BY <1>1, <1>2, <1>3, <1>4 DEF SlipsInv

LEMMA SlipsNext == SlipsInv /\ [Next]_vars => SlipsInv'
<1> SUFFICES ASSUME SlipsInv, [Next]_vars PROVE SlipsInv'
  OBVIOUS
<1>1. FeedInv /\ Shown(page) /\ CallersInv /\ OrdersInv
  BY DEF SlipsInv
<1> USE DEF feed
<1>2. CASE \E c \in Callers : Handler(c)
  <2>1. PICK c \in Callers : Handler(c)
    BY <1>2
  <2>2. UNCHANGED feed
    BY <2>1, Zenon DEF Handler, Enter, CachedQuote, DomQuote, NoClick, Click, SlipAnswers, NoAnswer,
       NoSlipPage, NoForm, FillForm, Rehearsed, ReadBackDiffers, Press, PressMisses, FillDone,
       FillTimesOut, SlipClose
  <2>3. FeedInv'
    BY <1>1, <2>2 DEF FeedInv
  <2> QED
    BY <1>1, <2>1, <2>3, HandlerKeeps, HandlerOrders DEF SlipsInv
<1>3. CASE \E c \in Callers, k \in {"quote", "aim", "bet", "rehearse", "close"}, e \in Events :
             Ask(c, k, e)
  <2>1. PICK c \in Callers, k \in {"quote", "aim", "bet", "rehearse", "close"}, e \in Events :
             Ask(c, k, e)
    BY <1>3
  <2>2. UNCHANGED <<feed, page, order, heard, replies>>
    BY <2>1 DEF Ask
  <2> QED
    BY <1>1, <2>1, <2>2, AskKeeps, SameOrders DEF SlipsInv, FeedInv
<1>4. CASE Dismissed \/ OnWsClose \/ BoardReset \/ VisitSport
  <2>1. UNCHANGED <<feed, lock, op, order, heard, replies>>
    BY <1>4 DEF Dismissed, OnWsClose, BoardReset, VisitSport
  <2>2. Shown(page') /\ page'.slip \in {page.slip, None}
    BY <1>1, <1>4, NoSlipShown DEF Dismissed, OnWsClose, BoardReset, VisitSport, Shown, PageRec
  <2> QED
    BY <1>1, <2>1, <2>2, PageKeeps, SameOrders DEF SlipsInv, FeedInv
<1>5. CASE Venue \/ OnApi
  <2>1. UNCHANGED <<feed, page, lock, op>>
    BY <1>5 DEF Venue, OnApi
  <2> QED
    BY <1>1, <1>5, <2>1, PageKeeps, VenueOrders DEF SlipsInv, FeedInv
<1>6. CASE \E e \in Events : Ages(e)
  <2>1. UNCHANGED <<feed, page, lock, op, order, heard, replies>>
    BY <1>6 DEF Ages
  <2> QED
    BY <1>1, <2>1, PageKeeps, SameOrders DEF SlipsInv, FeedInv
<1>7. CASE \E e \in Events, p \in Prices : SlipFrame(e, p)
  <2>1. UNCHANGED <<feed, page, lock, order, heard, replies>>
    BY <1>7 DEF SlipFrame
  <2> QED
    BY <1>1, <1>7, <2>1, FrameKeeps, SameOrders DEF SlipsInv, FeedInv
<1>8. CASE \E e \in Events, p \in {0, 1} : BoardFrame(e, p)
  <2>1. PICK e \in Events, p \in {0, 1} : BoardFrame(e, p)
    BY <1>8
  <2>2. UNCHANGED <<mode, conn, page, lock, op, order, heard, replies>> /\ book' = [book EXCEPT ![e] = p]
    BY <2>1 DEF BoardFrame, OnOffers
  <2>3. p \in Prices \cup {0}
    BY DEF Prices
  <2>4. FeedInv'
    BY <1>1, <2>2, <2>3 DEF FeedInv
  <2> QED
    BY <1>1, <2>2, <2>4, PageKeeps, SameOrders DEF SlipsInv
<1>9. CASE Direction
  <2>1. FeedNext /\ UNCHANGED <<page, lock, op, order, heard, replies>>
    BY <1>9 DEF Direction
  <2> QED
    BY <1>1, <2>1, FeedKeeps, PageKeeps, SameOrders DEF SlipsInv
<1>10. CASE UNCHANGED vars
  <2>1. UNCHANGED <<feed, page, lock, op, order, heard, replies>>
    BY <1>10 DEF vars
  <2> QED
    BY <1>1, <2>1, PageKeeps, SameOrders DEF SlipsInv, FeedInv
<1> QED
  BY <1>2, <1>3, <1>4, <1>5, <1>6, <1>7, <1>8, <1>9, <1>10, Zenon DEF Next, Page

LEMMA AtMostOne ==
  ASSUME NEW S, S = {} \/ \E x : S = {x}
  PROVE  Cardinality(S) <= 1
<1>1. CASE S = {}
  BY <1>1, FS_EmptySet
<1>2. CASE \E x : S = {x}
  <2>1. PICK x : S = {x}
    BY <1>2
  <2>2. Cardinality({x}) = 1
    BY FS_Singleton, Zenon
  <2> QED
    BY <2>1, <2>2
<1> QED
  BY <1>1, <1>2

LEMMA SlipsTyped == SlipsInv => TypeOK
<1> SUFFICES ASSUME SlipsInv PROVE TypeOK
  OBVIOUS
<1>1. FeedInv /\ Shown(page) /\ CallersInv /\ OrdersInv
  BY DEF SlipsInv
<1>2. FeedTypeOK
  BY <1>1 DEF FeedTypeOK, FeedInv, ConnRec, Remembers
<1>3. (order = {} \/ \E o : order = {o}) /\ (heard = {} \/ \E h : heard = {h})
  BY <1>1 DEF OrdersInv
<1>4. Cardinality(order) <= 1 /\ Cardinality(heard) <= 1
  BY <1>3, AtMostOne
<1>5. ASSUME NEW c \in Callers PROVE (op[c].pc \notin {"idle", "wait"}) = (lock = c)
  <2>1. op[c].pc \in Working \cup Waiting /\ (op[c].pc \in Working <=> lock = c)
    BY <1>1 DEF CallersInv, Request, RequestRec
  <2>2. op[c].pc \notin {"idle", "wait"} <=> lock = c
    BY <2>1 DEF Working, Waiting
  <2> QED
    BY <2>2
<1> QED
  BY <1>1, <1>2, <1>4, <1>5 DEF TypeOK, Shown, PageRec, CallersInv

\* What a caller is told of his order at BetInAsia is so, one request at a time works on the
\* slip, and while the feed's socket stands no subscription is forgotten (place_bet, _run).
THEOREM SlipsHeld == Spec => []SlipsSound
<1>1. SlipsInv => SlipsSound
  <2> SUFFICES ASSUME SlipsInv PROVE SlipsSound
    OBVIOUS
  <2>1. TypeOK
    BY SlipsTyped
  <2>2. ToldTrue
    BY DEF SlipsInv, OrdersInv, ToldTrue, Says, Mild
  <2>3. NothingForgotten
    BY DEF SlipsInv, FeedInv, Remembers, NothingForgotten
  <2> QED
    BY <2>1, <2>2, <2>3 DEF SlipsSound
<1> QED
  BY <1>1, SlipsInit, SlipsNext, PTL DEF Spec

\* An order at BetInAsia is a bet's, at the limit asked, and on the selection asked when its
\* slip was clicked open for it (_place_via_ui).
THEOREM OrdersAsAsked == Spec => []OrderAsAsked
<1>1. SlipsInv => OrderAsAsked
  BY DEF SlipsInv, OrdersInv, Meant, OrderRec, OrderAsAsked
<1> QED
  BY <1>1, SlipsInit, SlipsNext, PTL DEF Spec
=============================================================================
