-------------------------------- MODULE CrossArbProofs -------------------------------
(***************************************************************************)
(* Type correctness of the cross-venue executor, the ownership of its      *)
(* pairs and their hedging, for any pairs, callbacks, quantities, bounds.  *)
(* A pair is owned by one task at a time, and _inFlight lists exactly the  *)
(* owned pairs: on that rests every argument about what an entry, its      *)
(* recovery and an exit may assume of the pair they work on.               *)
(***************************************************************************)
EXTENDS CrossArbProperties, TLAPS

\* Only a task whose orders are out waits for a fill.
FillsBack ==
    \A t \in Tasks : call[t].pc # "firing" => call[t].k # Waiting /\ call[t].p # Waiting

CallType == call \in [Tasks -> CallRec] /\ FillsBack
TypeInv  == TypeOK /\ FillsBack

-----------------------------------------------------------------------------
(* Quantities *)

LEMMA PairOfType == \A t \in Tasks \cup Exiters : PairOf(t) \in Pairs
  BY DEF Tasks, Exiters, PairOf

LEMMA LesserType ==
  ASSUME NEW a \in Nat, NEW b \in Nat
  PROVE  Lesser(a, b) \in Nat /\ Lesser(a, b) <= a /\ Lesser(a, b) <= b
  BY DEF Lesser

LEMMA FloorType ==
  ASSUME NEW q \in Nat
  PROVE  Floor(q) \in Nat /\ Floor(q) <= q
  BY QuantityAssumption DEF Floor

LEMMA CeilType ==
  ASSUME NEW q \in Nat
  PROVE  Ceil(q) \in Nat
  BY QuantityAssumption DEF Ceil, Floor

LEMMA Monotone ==
  ASSUME NEW a \in Nat, NEW b \in Nat, NEW c \in Nat, a <= b
  PROVE  c * a \in Nat /\ c * a <= c * b
  OBVIOUS

LEMMA WholeType ==
  ASSUME NEW q \in Nat, NEW f \in Whole(q)
  PROVE  f \in Nat /\ f <= q
<1>1. PICK i \in 0..(q \div Contract) : f = Contract * i
  BY DEF Whole
<1>2. q \div Contract \in Nat /\ Contract * (q \div Contract) <= q
  BY QuantityAssumption
<1>3. Contract * i \in Nat /\ Contract * i <= Contract * (q \div Contract)
  BY <1>2, Monotone, QuantityAssumption
<1> QED
  BY <1>1, <1>2, <1>3, QuantityAssumption

\* What an order may fill is within the cash and within what is held.
LEMMA BuysType ==
  ASSUME VenueType, NEW p \in Pairs, NEW q \in Nat
  PROVE  /\ \A f \in KalshiBuys(p, q) : f \in Nat /\ f <= kCash /\ f <= q
         /\ \A f \in PolyBuys(p, q) : f \in Nat /\ f <= pCash
<1>1. Lesser(q, kCash) \in Nat /\ Lesser(q, kCash) <= q /\ Lesser(q, kCash) <= kCash
  BY LesserType DEF VenueType
<1>2. \A f \in Whole(Lesser(q, kCash)) : f \in Nat /\ f <= Lesser(q, kCash)
  BY <1>1, WholeType
<1>3. \A f \in KalshiBuys(p, q) : f \in Nat /\ f <= kCash /\ f <= q
  BY <1>1, <1>2 DEF KalshiBuys, VenueType
<1>4. Lesser(q + Overfill, pCash) \in Nat /\ Lesser(q + Overfill, pCash) <= pCash
  <2>1. q + Overfill \in Nat /\ pCash \in Nat
    BY QuantityAssumption DEF VenueType
  <2> QED
    BY <2>1, LesserType
<1>5. \A f \in PolyBuys(p, q) : f \in Nat /\ f <= pCash
  BY <1>4 DEF PolyBuys, VenueType
<1> QED
  BY <1>3, <1>5

LEMMA SellsType ==
  ASSUME VenueType, NEW p \in Pairs, NEW q \in Nat
  PROVE  /\ \A f \in KalshiSells(p, q) : f \in Nat /\ f <= kVenue[p] /\ f <= q
         /\ \A f \in PolySells(p, q) : f \in Nat /\ f <= pVenue[p] /\ f <= q
<1>1. Lesser(q, kVenue[p]) \in Nat /\ Lesser(q, kVenue[p]) <= q
      /\ Lesser(q, kVenue[p]) <= kVenue[p]
  BY LesserType DEF VenueType
<1>2. \A f \in Whole(Lesser(q, kVenue[p])) : f \in Nat /\ f <= Lesser(q, kVenue[p])
  BY <1>1, WholeType
<1>3. \A f \in KalshiSells(p, q) : f \in Nat /\ f <= kVenue[p] /\ f <= q
  BY <1>1, <1>2 DEF KalshiSells, VenueType
<1>4. Lesser(q, pVenue[p]) \in Nat /\ Lesser(q, pVenue[p]) <= q
      /\ Lesser(q, pVenue[p]) <= pVenue[p]
  BY LesserType DEF VenueType
<1>5. \A f \in PolySells(p, q) : f \in Nat /\ f <= pVenue[p] /\ f <= q
  BY <1>4 DEF PolySells, VenueType
<1> QED
  BY <1>3, <1>5

\* A fill keeps the venues within their types.
LEMMA BuyVenueType ==
  ASSUME VenueType, closed' = closed, NEW p \in Pairs, NEW f \in Nat
  PROVE  /\ f <= kCash /\ BuyKalshi(p, f) /\ UNCHANGED polyVars => VenueType'
         /\ f <= pCash /\ BuyPoly(p, f) /\ UNCHANGED kalshiVars => VenueType'
  BY DEF VenueType, BuyKalshi, BuyPoly, polyVars, kalshiVars

LEMMA SellVenueType ==
  ASSUME VenueType, closed' = closed, NEW p \in Pairs, NEW f \in Nat
  PROVE  /\ f <= kVenue[p] /\ SellKalshi(p, f) /\ UNCHANGED polyVars => VenueType'
         /\ f <= pVenue[p] /\ SellPoly(p, f) /\ UNCHANGED kalshiVars => VenueType'
<1>1. ASSUME f <= kVenue[p], SellKalshi(p, f), UNCHANGED polyVars PROVE VenueType'
  <2>1. kVenue' = [kVenue EXCEPT ![p] = @ + (-f)] /\ kCash' = kCash - (-f)
    BY <1>1 DEF SellKalshi, BuyKalshi
  <2>2. kVenue[p] + (-f) \in Nat /\ kCash - (-f) \in Nat
    BY <1>1 DEF VenueType
  <2> QED
    BY <1>1, <2>1, <2>2 DEF VenueType, polyVars
<1>2. ASSUME f <= pVenue[p], SellPoly(p, f), UNCHANGED kalshiVars PROVE VenueType'
  <2>1. pVenue' = [pVenue EXCEPT ![p] = @ + (-f)] /\ pCash' = pCash - (-f)
    BY <1>2 DEF SellPoly, BuyPoly
  <2>2. pVenue[p] + (-f) \in Nat /\ pCash - (-f) \in Nat
    BY <1>2 DEF VenueType
  <2> QED
    BY <1>2, <2>1, <2>2 DEF VenueType, kalshiVars
<1> QED
  BY <1>1, <1>2

LEMMA InitType == ASSUME Init PROVE TypeInv
<1>1. None \in Position /\ NoLeg \in Reversal
  BY DEF None, Position, NoLeg, Reversal
<1>2. OwnType
  BY <1>1 DEF Init, OwnType
<1>3. HaltType /\ journaled \subseteq Pairs
  BY DEF Init, HaltType
<1>9. MoneyType
  <2>1. Funds \in Nat /\ 0 \in Int
    BY QuantityAssumption
  <2> QED
    BY <2>1 DEF Init, MoneyType
<1>8. VenueType
  BY QuantityAssumption DEF Init, VenueType
<1>4. CallType
  BY DEF Init, CallType, FillsBack, CallRec, Idle, EntryPcs, Outcomes, Fill, Waiting
<1>5. exit \in [Exiters -> ExitRec]
  BY <1>1 DEF Init, ExitRec, IdleExit, ExitPcs, Fill
<1>6. MonitorType
  BY <1>1 DEF Init, MonitorType
<1>7. BackgroundType /\ BudgetType
  BY BoundAssumption DEF Init, BackgroundType, NoRefresh, BudgetType
<1> QED
  BY <1>2, <1>3, <1>4, <1>5, <1>6, <1>7, <1>8, <1>9 DEF TypeInv, TypeOK, CallType

-----------------------------------------------------------------------------
(* Entries *)

LEMMA ExcessType ==
  ASSUME NEW t \in Tasks, call[t].k \in Nat, call[t].p \in Nat
  PROVE  /\ Balanced(t) \in Nat /\ KExcess(t) \in Nat /\ PExcess(t) \in Nat
         /\ Balanced(t) <= call[t].k /\ Balanced(t) <= call[t].p
<1>1. Lesser(call[t].k, call[t].p) \in Nat
      /\ Lesser(call[t].k, call[t].p) <= call[t].k
      /\ Lesser(call[t].k, call[t].p) <= call[t].p
  BY LesserType
<1>2. Floor(Lesser(call[t].k, call[t].p)) \in Nat
      /\ Floor(Lesser(call[t].k, call[t].p)) <= Lesser(call[t].k, call[t].p)
  BY <1>1, FloorType
<1> QED
  BY <1>1, <1>2 DEF Balanced, KExcess, PExcess

\* Before the orders: everything but the call, the lock, the reserved money and
\* the cooldown stays.
LEMMA BeforeOrdersType ==
  ASSUME TypeInv, NEW t \in Tasks,
         \/ ArbOpened(t) \/ TryEnter(t) \/ EntryGuards(t) \/ LeaveUnsized(t)
         \/ ReserveBalance(t) \/ RestoreBalance(t) \/ ReserveExposure(t)
  PROVE  TypeInv'
<1> USE DEF TypeInv, TypeOK, CallType, ownVars, haltVars, moneyVars, venueVars,
            backgroundVars
<1>0. PairOf(t) \in Pairs
  BY PairOfType
<1>1. CASE ArbOpened(t)
  <2>1. CallType'
    BY <1>1 DEF ArbOpened, Goto, FillsBack, CallRec, EntryPcs
  <2> QED
    BY <1>1, <2>1 DEF ArbOpened, OwnType, HaltType, MoneyType, VenueType,
       MonitorType, BackgroundType, BudgetType
<1>2. CASE TryEnter(t)
  <2>1. CallType'
    BY <1>2 DEF TryEnter, Goto, FillsBack, CallRec, EntryPcs, Idle, Outcomes, Fill, Waiting
  <2> QED
    BY <1>0, <1>2, <2>1 DEF TryEnter, OwnType, HaltType, MoneyType, VenueType,
       MonitorType, BackgroundType, BudgetType
<1>3. CASE EntryGuards(t)
  <2>1. CallType'
    BY <1>3 DEF EntryGuards, Goto, FillsBack, CallRec, EntryPcs
  <2> QED
    BY <1>3, <2>1 DEF EntryGuards, OwnType, HaltType, MoneyType, VenueType,
       MonitorType, BackgroundType, BudgetType
<1>4. CASE LeaveUnsized(t)
  <2>1. CallType'
    BY <1>4 DEF LeaveUnsized, Leave, FillsBack, CallRec, EntryPcs, Idle, Outcomes, Fill, Waiting
  <2> QED
    BY <1>4, <2>1 DEF LeaveUnsized, Leave, OwnType, HaltType, MoneyType, VenueType,
       MonitorType, BackgroundType, BudgetType
<1>5. CASE ReserveBalance(t)
  <2>1. PICK m \in Sizes : /\ m <= kBal /\ m <= pBal
                           /\ kBal' = kBal - m
                           /\ pBal' = pBal - m
                           /\ call' = [call EXCEPT ![t].pc = "sized", ![t].n = m]
    BY <1>5 DEF ReserveBalance
  <2>2. m \in Nat
    BY QuantityAssumption DEF Sizes
  <2>3. CallType'
    <3>1. call[t].pc = "guarded"
      BY <1>5 DEF ReserveBalance
    <3>2. [call[t] EXCEPT !.pc = "sized", !.n = m] \in CallRec
      BY <2>2, ZenonT(40) DEF CallRec, EntryPcs
    <3>3. call' \in [Tasks -> CallRec]
      BY <2>1, <3>2
    <3>4. FillsBack'
      BY <2>1, <3>1 DEF FillsBack
    <3> QED
      BY <3>3, <3>4
  <2>4. MoneyType'
    <3>1. UNCHANGED <<exposure, invested>>
      BY <1>5 DEF ReserveBalance
    <3> QED
      BY <2>1, <2>2, <3>1 DEF MoneyType
  <2> QED
    BY <1>5, <2>3, <2>4 DEF ReserveBalance, OwnType, HaltType,
       VenueType, MonitorType, BackgroundType, BudgetType
<1>6. CASE RestoreBalance(t)
  <2>1. CallType'
    BY <1>6 DEF RestoreBalance, Leave, FillsBack, CallRec, EntryPcs, Idle, Outcomes, Fill, Waiting
  <2>2. call[t].n \in Nat
    BY DEF CallRec
  <2> QED
    BY <1>6, <2>1, <2>2 DEF RestoreBalance, Leave, OwnType, HaltType, MoneyType,
       VenueType, MonitorType, BackgroundType, BudgetType
<1>7. CASE ReserveExposure(t)
  <2>1. pVenue[PairOf(t)] \in Nat /\ call[t].n \in Nat
    BY <1>0 DEF VenueType, CallRec
  <2>2. CallType'
    BY <1>7, <2>1 DEF ReserveExposure, FillsBack, CallRec, EntryPcs, Fill, Waiting
  <2> QED
    BY <1>0, <1>7, <2>1, <2>2 DEF ReserveExposure, OwnType, HaltType, MoneyType,
       VenueType, MonitorType, BackgroundType, BudgetType
<1> QED
  BY <1>1, <1>2, <1>3, <1>4, <1>5, <1>6, <1>7

LEMMA GotoType ==
  ASSUME CallType, NEW t \in Tasks, call[t].pc # "firing",
         NEW pc \in EntryPcs, Goto(t, pc)
  PROVE  CallType'
<1>1. [call[t] EXCEPT !.pc = pc] \in CallRec
  BY DEF CallType, CallRec
<1>2. call' = [call EXCEPT ![t] = [call[t] EXCEPT !.pc = pc]]
  BY DEF Goto, CallType
<1>3. call' \in [Tasks -> CallRec]
  BY <1>1, <1>2 DEF CallType
<1>4. FillsBack'
  BY <1>2 DEF FillsBack, CallType, CallRec
<1> QED
  BY <1>3, <1>4 DEF CallType

LEMMA FinishType ==
  ASSUME CallType, NEW t \in Tasks, call[t].pc # "firing",
         NEW out \in Outcomes, NEW got \in Nat, Finish(t, out, got)
  PROVE  CallType'
<1>1. [call[t] EXCEPT !.pc = "closing", !.out = out, !.got = got] \in CallRec
  BY ZenonT(40) DEF CallType, CallRec, EntryPcs
<1>2. call' = [call EXCEPT ![t] = [call[t] EXCEPT !.pc = "closing", !.out = out, !.got = got]]
  BY DEF Finish, CallType
<1>3. call' \in [Tasks -> CallRec]
  BY <1>1, <1>2 DEF CallType
<1>4. FillsBack'
  BY <1>2 DEF FillsBack, CallType, CallRec
<1> QED
  BY <1>3, <1>4 DEF CallType

LEMMA GrowType ==
  ASSUME OwnType, NEW p \in Pairs, NEW q \in Nat, Grow(p, q)
  PROVE  openPos' \in [Pairs -> Position]
<1>1. [k |-> openPos[p].k + q, p |-> openPos[p].p + q] \in Position
  BY DEF OwnType, Position
<1> QED
  BY <1>1 DEF Grow, OwnType

\* The snapshot taken beside the orders.
LEMMA SnapshotType ==
  ASSUME TypeInv, NEW t \in Tasks, SnapshotPoly(t)
  PROVE  TypeInv'
<1>1. CallType /\ PairOf(t) \in Pairs
  BY PairOfType DEF TypeInv, TypeOK, CallType
<1>2. PICK b \in {pVenue[PairOf(t)], 0} : call' = [call EXCEPT ![t].prior = b]
  BY DEF SnapshotPoly
<1>3. b \in Nat
  BY <1>1, <1>2 DEF TypeInv, TypeOK, VenueType
<1>4. [call[t] EXCEPT !.prior = b] \in CallRec
  BY <1>1, <1>3 DEF CallType, CallRec, Fill
<1>5. CallType'
  BY <1>1, <1>2, <1>4 DEF CallType, CallRec, FillsBack
<1> QED
  BY <1>5 DEF SnapshotPoly, TypeInv, TypeOK, CallType, ownVars, haltVars, moneyVars,
     venueVars, backgroundVars, OwnType, HaltType, MoneyType, VenueType, MonitorType,
     BackgroundType, BudgetType

\* The two orders and the bookkeeping of what they filled.
LEMMA LegsType ==
  ASSUME TypeInv, NEW t \in Tasks, KalshiLeg(t) \/ PolyLeg(t) \/ LegsDone(t)
  PROVE  TypeInv'
<1> USE DEF TypeInv, TypeOK, CallType, ownVars, haltVars, moneyVars, venueVars,
            backgroundVars
<1>0. PairOf(t) \in Pairs /\ call[t].n \in Nat
  BY PairOfType DEF CallRec
<1>1. CASE KalshiLeg(t)
  <2>1. PICK f \in KalshiBuys(PairOf(t), call[t].n) : \E r \in Reported(f) :
           BuyKalshi(PairOf(t), f) /\ call' = [call EXCEPT ![t].k = r]
    BY <1>1 DEF KalshiLeg
  <2>2. f \in Nat /\ f <= kCash
    BY <1>0, BuysType
  <2>3. VenueType'
    BY <1>0, <1>1, <2>1, <2>2, BuyVenueType DEF KalshiLeg
  <2>4. PICK r \in Reported(f) : call' = [call EXCEPT ![t].k = r]
    BY <2>1
  <2>5. r \in Nat /\ call[t].pc = "firing"
    BY <1>1, <2>2 DEF Reported, KalshiLeg
  <2>6. [call[t] EXCEPT !.k = r] \in CallRec
    BY <2>5 DEF CallRec, Fill
  <2>7. CallType'
    BY <2>4, <2>5, <2>6 DEF FillsBack, Waiting
  <2> QED
    BY <1>1, <2>3, <2>7 DEF KalshiLeg, OwnType, HaltType, MoneyType, MonitorType,
       BackgroundType, BudgetType
<1>2. CASE PolyLeg(t)
  <2>1. PICK f \in PolyBuys(PairOf(t), call[t].n) : \E r \in Reported(f) :
           BuyPoly(PairOf(t), f) /\ call' = [call EXCEPT ![t].p = r]
    BY <1>2 DEF PolyLeg
  <2>2. f \in Nat /\ f <= pCash
    BY <1>0, BuysType
  <2>3. VenueType'
    BY <1>0, <1>2, <2>1, <2>2, BuyVenueType DEF PolyLeg
  <2>4. PICK r \in Reported(f) : call' = [call EXCEPT ![t].p = r]
    BY <2>1
  <2>5. r \in Nat /\ call[t].pc = "firing"
    BY <1>2, <2>2 DEF Reported, PolyLeg
  <2>6. [call[t] EXCEPT !.p = r] \in CallRec
    BY <2>5 DEF CallRec, Fill
  <2>7. CallType'
    BY <2>4, <2>5, <2>6 DEF FillsBack, Waiting
  <2> QED
    BY <1>2, <2>3, <2>7 DEF PolyLeg, OwnType, HaltType, MoneyType, MonitorType,
       BackgroundType, BudgetType
<1>3. CASE LegsDone(t)
  <2>1. call[t].k \in Nat /\ call[t].p \in Nat
    BY <1>3 DEF LegsDone, CallRec, Fill
  <2>2. Balanced(t) \in Nat
    BY <2>1, ExcessType
  <2>3. openPos' \in [Pairs -> Position] /\ halted' \in BOOLEAN
    <3>1. [k |-> Balanced(t), p |-> Balanced(t)] \in Position
      BY <2>2 DEF Position
    <3>2. \/ openPos' = [openPos EXCEPT ![PairOf(t)] =
                           [k |-> Balanced(t), p |-> Balanced(t)]]
             /\ halted' \in {halted, TRUE}
          \/ UNCHANGED <<openPos, halted>>
      BY <1>3 DEF LegsDone
    <3> QED
      BY <3>1, <3>2 DEF OwnType, HaltType
  <2>4. CallType'
    <3>1. PICK pc \in {"excessK", "excessP", "closing"} : Goto(t, pc)
      BY <1>3 DEF LegsDone, Goto
    <3>2. [call[t] EXCEPT !.pc = pc] \in CallRec
      BY DEF CallRec, EntryPcs
    <3>3. call' = [call EXCEPT ![t] = [call[t] EXCEPT !.pc = pc]]
      BY <3>1 DEF Goto
    <3> QED
      BY <2>1, <3>2, <3>3 DEF FillsBack, CallRec, Waiting
  <2> QED
    BY <1>3, <2>3, <2>4 DEF LegsDone, OwnType, HaltType, MoneyType, VenueType,
       MonitorType, BackgroundType, BudgetType
<1> QED
  BY <1>1, <1>2, <1>3

-----------------------------------------------------------------------------
(* Recovery *)

\* Recovery disturbs only the call, the position, the orphans, the exposure and
\* the venues.
LEMMA RecoveryFrame ==
  ASSUME TypeInv, UNCHANGED restVars, CallType', VenueType',
         openPos' \in [Pairs -> Position], orphaned' \subseteq Pairs, exposure' \in Int
  PROVE  TypeInv'
BY DEF TypeInv, TypeOK, CallType, restVars, haltVars, backgroundVars, OwnType,
   HaltType, MoneyType, MonitorType, BackgroundType, BudgetType

\* Steps that trade nothing.
LEMMA PlainRecoveryType ==
  ASSUME TypeInv, NEW t \in Tasks,
         \/ AbsorbKalshiDust(t) \/ StartPolyHedge(t) \/ SkipPolyHedge(t)
         \/ AbsorbPolyDust(t) \/ SkipKalshiHedge(t)
  PROVE  TypeInv'
<1>1. CallType /\ call[t].pc # "firing"
  BY DEF TypeInv, TypeOK, CallType, AbsorbKalshiDust, StartPolyHedge, SkipPolyHedge,
     AbsorbPolyDust, SkipKalshiHedge
<1>2. call[t].k \in Nat /\ call[t].p \in Nat
  BY <1>1 DEF CallType, CallRec, Fill, FillsBack
<1>3. KExcess(t) \in Nat /\ PExcess(t) \in Nat
  BY <1>2, ExcessType
<1>4. CallType'
  <2>1. CASE AbsorbKalshiDust(t)
    BY <1>1, <1>3, <2>1, FinishType DEF AbsorbKalshiDust, Outcomes
  <2>2. CASE StartPolyHedge(t) \/ SkipPolyHedge(t) \/ SkipKalshiHedge(t)
    <3>1. PICK pc \in {"hedgingP", "reverseK", "sellP"} : Goto(t, pc)
      BY <2>2 DEF StartPolyHedge, SkipPolyHedge, SkipKalshiHedge
    <3> QED
      BY <1>1, <3>1, GotoType DEF EntryPcs
  <2>3. CASE AbsorbPolyDust(t)
    BY <1>1, <1>3, <2>3, FinishType DEF AbsorbPolyDust, Outcomes
  <2> QED
    BY <2>1, <2>2, <2>3
<1>5. UNCHANGED <<restVars, openPos, orphaned, exposure, kalshiVars, polyVars>>
  BY DEF AbsorbKalshiDust, StartPolyHedge, SkipPolyHedge, AbsorbPolyDust, SkipKalshiHedge
<1>6. VenueType' /\ openPos' \in [Pairs -> Position] /\ orphaned' \subseteq Pairs
      /\ exposure' \in Int
  BY <1>5 DEF TypeInv, TypeOK, OwnType, MoneyType, VenueType, restVars, kalshiVars, polyVars
<1> QED
  BY <1>4, <1>5, <1>6, RecoveryFrame

\* A sale of f within what is held, however the recovery goes on from there.
LEMMA SaleRecoveryType ==
  ASSUME TypeInv, NEW t \in Tasks, call[t].pc # "firing", NEW q \in Nat,
         UNCHANGED <<restVars, openPos, exposure>>,
         \/ /\ \E f \in KalshiSells(PairOf(t), q) : SellKalshi(PairOf(t), f)
            /\ UNCHANGED polyVars
         \/ /\ \E f \in PolySells(PairOf(t), q) : SellPoly(PairOf(t), f)
            /\ UNCHANGED kalshiVars
         \/ UNCHANGED <<kalshiVars, polyVars>>,
         OrphanPair(PairOf(t)) \/ KeepOrphans,
         \/ \E out \in Outcomes, got \in Nat : Finish(t, out, got)
         \/ \E pc \in EntryPcs : Goto(t, pc)
  PROVE  TypeInv'
<1>1. PairOf(t) \in Pairs /\ CallType /\ VenueType /\ closed' = closed
  BY PairOfType DEF TypeInv, TypeOK, CallType, restVars
<1>2. CallType'
  BY <1>1, FinishType, GotoType
<1>3. VenueType'
  <2>1. CASE /\ \E f \in KalshiSells(PairOf(t), q) : SellKalshi(PairOf(t), f)
             /\ UNCHANGED polyVars
    BY <1>1, <2>1, SellsType, SellVenueType
  <2>2. CASE /\ \E f \in PolySells(PairOf(t), q) : SellPoly(PairOf(t), f)
             /\ UNCHANGED kalshiVars
    BY <1>1, <2>2, SellsType, SellVenueType
  <2>3. CASE UNCHANGED <<kalshiVars, polyVars>>
    BY <1>1, <2>3 DEF VenueType, kalshiVars, polyVars
  <2> QED
    BY <2>1, <2>2, <2>3
<1>4. openPos' \in [Pairs -> Position] /\ orphaned' \subseteq Pairs /\ exposure' \in Int
  BY <1>1 DEF TypeInv, TypeOK, OwnType, MoneyType, OrphanPair, KeepOrphans
<1> QED
  BY <1>2, <1>3, <1>4, RecoveryFrame

LEMMA RecoverySalesType ==
  ASSUME TypeInv, NEW t \in Tasks,
         \/ ReverseKalshi(t) \/ ReverseRest(t) \/ SellHedgeOverfill(t)
         \/ GuardOverfill(t) \/ StartKalshiHedge(t) \/ SellRest(t) \/ SellExcessPoly(t)
  PROVE  TypeInv'
<1>1. call \in [Tasks -> CallRec] /\ call[t].pc # "firing"
  BY DEF TypeInv, TypeOK, ReverseKalshi, ReverseRest, SellHedgeOverfill,
     GuardOverfill, StartKalshiHedge, SellRest, SellExcessPoly
<1>2. /\ call[t].k \in Nat /\ call[t].p \in Nat
      /\ call[t].rest \in Nat /\ call[t].got \in Nat
  BY <1>1 DEF TypeInv, CallRec, Fill, FillsBack
<1>3. KExcess(t) \in Nat /\ PExcess(t) \in Nat
  BY <1>2, ExcessType
<1>4. Floor(KExcess(t)) \in Nat /\ Floor(call[t].rest) \in Nat
  BY <1>2, <1>3, FloorType
<1>5. PairOf(t) \in Pairs /\ VenueType
  BY PairOfType DEF TypeInv, TypeOK
<1>6. CASE ReverseKalshi(t)
  <2>1. PICK f \in KalshiSells(PairOf(t), Floor(KExcess(t))) :
           /\ SellKalshi(PairOf(t), f)
           /\ \/ OrphanPair(PairOf(t)) /\ Finish(t, "ORPHANED", f)
              \/ KeepOrphans /\ Finish(t, "REVERSED_KALSHI", f)
    BY <1>6 DEF ReverseKalshi
  <2>2. f \in Nat
    BY <1>4, <1>5, SellsType
  <2>3. \E out \in Outcomes, got \in Nat : Finish(t, out, got)
    BY <2>1, <2>2 DEF Outcomes
  <2> QED
    BY <1>1, <1>4, <1>6, <2>1, <2>3, SaleRecoveryType DEF ReverseKalshi
<1>7. CASE ReverseRest(t)
  <2>1. PICK f \in KalshiSells(PairOf(t), Floor(call[t].rest)) :
           /\ SellKalshi(PairOf(t), f)
           /\ \/ OrphanPair(PairOf(t)) /\ Finish(t, "ORPHANED", call[t].got)
              \/ KeepOrphans /\ Finish(t, "HEDGE_COMPLETED", call[t].got)
    BY <1>7 DEF ReverseRest
  <2>2. \E out \in Outcomes, got \in Nat : Finish(t, out, got)
    BY <1>2, <2>1 DEF Outcomes
  <2> QED
    BY <1>1, <1>4, <1>7, <2>1, <2>2, SaleRecoveryType DEF ReverseRest
<1>8. CASE SellHedgeOverfill(t)
  <2>1. \E out \in Outcomes, got \in Nat : Finish(t, out, got)
    BY <1>2, <1>8 DEF Outcomes, SellHedgeOverfill
  <2> QED
    BY <1>1, <1>2, <1>8, <2>1, SaleRecoveryType DEF SellHedgeOverfill, KeepOrphans
<1>9. ASSUME NEW next \in EntryPcs, ReverseExcessPoly(t, next)
      PROVE  /\ \E f \in PolySells(PairOf(t), PExcess(t)) : SellPoly(PairOf(t), f)
             /\ \/ \E out \in Outcomes, got \in Nat : Finish(t, out, got)
                \/ \E pc \in EntryPcs : Goto(t, pc)
  <2>1. PICK f \in PolySells(PairOf(t), PExcess(t)) :
           /\ SellPoly(PairOf(t), f)
           /\ Finish(t, "REVERSED_POLY", f) \/ Goto(t, next)
    BY <1>9 DEF ReverseExcessPoly
  <2>2. f \in Nat
    BY <1>3, <1>5, SellsType
  <2> QED
    BY <2>1, <2>2 DEF Outcomes
<1>10. CASE GuardOverfill(t)
  <2>1. CASE Overfilled(t)
    <3>1. ReverseExcessPoly(t, "hedgeK")
      BY <1>10, <2>1 DEF GuardOverfill
    <3> QED
      BY <1>1, <1>3, <1>9, <1>10, <3>1, SaleRecoveryType
      DEF GuardOverfill, EntryPcs, KeepOrphans
  <2>2. CASE ~Overfilled(t)
    <3>1. Goto(t, "hedgeK") /\ UNCHANGED polyVars
      BY <1>10, <2>2 DEF GuardOverfill
    <3> QED
      BY <1>1, <1>3, <1>10, <3>1, SaleRecoveryType DEF GuardOverfill, EntryPcs, KeepOrphans
  <2> QED
    BY <2>1, <2>2
<1>11. CASE StartKalshiHedge(t)
  <2>1. \/ Finish(t, "DUST_ABSORBED_POLY", PExcess(t)) /\ UNCHANGED polyVars
        \/ ReverseExcessPoly(t, "hedgingK")
        \/ Goto(t, "hedgingK") /\ UNCHANGED polyVars
    BY <1>11 DEF StartKalshiHedge
  <2>2. \/ UNCHANGED polyVars
        \/ \E f \in PolySells(PairOf(t), PExcess(t)) : SellPoly(PairOf(t), f)
    BY <1>9, <2>1 DEF EntryPcs
  <2>3. \/ \E out \in Outcomes, got \in Nat : Finish(t, out, got)
        \/ \E pc \in EntryPcs : Goto(t, pc)
    BY <1>3, <1>9, <2>1 DEF EntryPcs, Outcomes
  <2> QED
    BY <1>1, <1>3, <1>11, <2>2, <2>3, SaleRecoveryType DEF StartKalshiHedge, KeepOrphans
<1>12. CASE SellRest(t)
  <2>1. PICK f \in PolySells(PairOf(t), call[t].rest) :
           /\ SellPoly(PairOf(t), f)
           /\ \/ OrphanPair(PairOf(t)) /\ Finish(t, "ORPHANED", call[t].got)
              \/ KeepOrphans /\ Finish(t, "HEDGE_COMPLETED", call[t].got)
    BY <1>12 DEF SellRest
  <2>2. \E out \in Outcomes, got \in Nat : Finish(t, out, got)
    BY <1>2, <2>1 DEF Outcomes
  <2> QED
    BY <1>1, <1>2, <1>12, <2>1, <2>2, SaleRecoveryType DEF SellRest
<1>13. CASE SellExcessPoly(t)
  <2>1. PICK f \in PolySells(PairOf(t), PExcess(t)) :
           /\ SellPoly(PairOf(t), f)
           /\ \/ KeepOrphans /\ Finish(t, "REVERSED_POLY", f)
              \/ OrphanPair(PairOf(t)) /\ Finish(t, "ORPHANED", 0)
    BY <1>13 DEF SellExcessPoly
  <2>2. f \in Nat
    BY <1>3, <1>5, SellsType
  <2>3. \E out \in Outcomes, got \in Nat : Finish(t, out, got)
    BY <2>1, <2>2 DEF Outcomes
  <2> QED
    BY <1>1, <1>3, <1>13, <2>1, <2>3, SaleRecoveryType DEF SellExcessPoly
<1> QED
  BY <1>6, <1>7, <1>8, <1>10, <1>11, <1>12, <1>13

LEMMA HedgedCallType ==
  ASSUME CallType, NEW t \in Tasks, call[t].pc # "firing", NEW pc \in EntryPcs,
         NEW rest \in Nat, NEW got \in Nat,
         call' = [call EXCEPT ![t].pc = pc, ![t].rest = rest,
                              ![t].out = "HEDGE_COMPLETED", ![t].got = got]
  PROVE  CallType'
<1>1. [call[t] EXCEPT !.pc = pc, !.rest = rest, !.out = "HEDGE_COMPLETED",
                      !.got = got] \in CallRec
  BY DEF CallType, CallRec, Outcomes
<1>2. call' = [call EXCEPT ![t] = [call[t] EXCEPT !.pc = pc, !.rest = rest,
                                      !.out = "HEDGE_COMPLETED", !.got = got]]
  BY DEF CallType
<1>3. call' \in [Tasks -> CallRec]
  BY <1>1, <1>2 DEF CallType
<1>4. FillsBack'
  BY <1>2 DEF FillsBack, CallType, CallRec
<1> QED
  BY <1>3, <1>4 DEF CallType

LEMMA RecoveryHedgesType ==
  ASSUME TypeInv, NEW t \in Tasks, PolyHedge(t) \/ KalshiHedge(t)
  PROVE  TypeInv'
<1>1. CallType /\ call[t].pc # "firing" /\ closed' = closed /\ orphaned' = orphaned
      /\ UNCHANGED restVars
  BY DEF TypeInv, TypeOK, CallType, PolyHedge, KalshiHedge, restVars
<1>2. call[t].k \in Nat /\ call[t].p \in Nat
  BY <1>1 DEF CallType, CallRec, Fill, FillsBack
<1>3. KExcess(t) \in Nat /\ PExcess(t) \in Nat
  BY <1>2, ExcessType
<1>4. PairOf(t) \in Pairs /\ VenueType /\ OwnType /\ exposure \in Int
  BY PairOfType DEF TypeInv, TypeOK, MoneyType
<1>5. CASE PolyHedge(t)
  <2> DEFINE need == KExcess(t)
             added(r) == Lesser(need, r)
             past(r) == IF need - added(r) > 0 /\ need - added(r) >= Dust
                        THEN "reverseRest"
                        ELSE IF r - added(r) > 0 /\ r - added(r) >= Dust
                             THEN "sellOverfill" ELSE "closing"
             left(r) == IF need - added(r) > 0 THEN need - added(r) ELSE r - added(r)
  <2>1. PICK f \in PolyBuys(PairOf(t), need) : \E r \in Reported(f) :
           /\ BuyPoly(PairOf(t), f)
           /\ IF r = 0
              THEN Goto(t, "reverseK") /\ UNCHANGED <<openPos, exposure>>
              ELSE /\ Grow(PairOf(t), added(r))
                   /\ exposure' = exposure + added(r)
                   /\ call' = [call EXCEPT ![t].pc = past(r), ![t].rest = left(r),
                                 ![t].out = "HEDGE_COMPLETED", ![t].got = added(r)]
    BY <1>5 DEF PolyHedge
  <2>2. f \in Nat /\ f <= pCash
    BY <1>3, <1>4, BuysType
  <2>3. PICK r \in Reported(f) :
           IF r = 0
           THEN Goto(t, "reverseK") /\ UNCHANGED <<openPos, exposure>>
           ELSE /\ Grow(PairOf(t), added(r))
                /\ exposure' = exposure + added(r)
                /\ call' = [call EXCEPT ![t].pc = past(r), ![t].rest = left(r),
                              ![t].out = "HEDGE_COMPLETED", ![t].got = added(r)]
    BY <2>1
  <2>4. r \in Nat
    BY <2>2 DEF Reported
  <2>5. added(r) \in Nat /\ added(r) <= need /\ added(r) <= r
    BY <1>3, <2>4, LesserType
  <2>6. left(r) \in Nat /\ past(r) \in EntryPcs
    BY <1>3, <2>4, <2>5 DEF EntryPcs
  <2>7. VenueType'
    BY <1>1, <1>4, <1>5, <2>1, <2>2, BuyVenueType DEF PolyHedge
  <2>8. CASE r = 0
    <3>1. CallType'
      BY <1>1, <2>3, <2>8, GotoType DEF EntryPcs
    <3>2. openPos' \in [Pairs -> Position] /\ exposure' \in Int
      BY <1>4, <2>3, <2>8 DEF OwnType
    <3> QED
      BY <1>1, <1>4, <2>7, <3>1, <3>2, RecoveryFrame DEF OwnType
  <2>9. CASE r # 0
    <3> HIDE DEF added, past, left
    <3>1. CallType'
      BY <1>1, <2>3, <2>5, <2>6, <2>9, HedgedCallType
    <3>2. openPos' \in [Pairs -> Position]
      BY <1>4, <2>3, <2>5, <2>9, GrowType
    <3>3. exposure' \in Int
      BY <1>4, <2>3, <2>5, <2>9
    <3> QED
      BY <1>1, <1>4, <2>7, <3>1, <3>2, <3>3, RecoveryFrame DEF OwnType
  <2> QED
    BY <2>8, <2>9
<1>6. CASE KalshiHedge(t)
  <2>0. Floor(PExcess(t)) \in Nat /\ Floor(PExcess(t)) <= PExcess(t)
    BY <1>3, FloorType
  <2> DEFINE past(r) == IF PExcess(t) - r >= Contract /\ PExcess(t) - r >= Dust
                        THEN "sellRest" ELSE "closing"
  <2>1. PICK f \in KalshiBuys(PairOf(t), Floor(PExcess(t))) : \E r \in Reported(f) :
           /\ BuyKalshi(PairOf(t), f)
           /\ IF r = 0
              THEN Goto(t, "sellP") /\ UNCHANGED <<openPos, exposure>>
              ELSE /\ Grow(PairOf(t), r)
                   /\ exposure' = exposure + r
                   /\ call' = [call EXCEPT ![t].pc = past(r), ![t].rest = PExcess(t) - r,
                                 ![t].out = "HEDGE_COMPLETED", ![t].got = r]
    BY <1>6 DEF KalshiHedge
  <2>2. f \in Nat /\ f <= kCash /\ f <= Floor(PExcess(t))
    BY <1>4, <2>0, BuysType
  <2>3. PICK r \in Reported(f) :
           IF r = 0
           THEN Goto(t, "sellP") /\ UNCHANGED <<openPos, exposure>>
           ELSE /\ Grow(PairOf(t), r)
                /\ exposure' = exposure + r
                /\ call' = [call EXCEPT ![t].pc = past(r), ![t].rest = PExcess(t) - r,
                              ![t].out = "HEDGE_COMPLETED", ![t].got = r]
    BY <2>1
  <2>4. r \in Nat /\ r <= f
    BY <2>2 DEF Reported
  <2>6. PExcess(t) - r \in Nat /\ past(r) \in EntryPcs
    BY <1>3, <2>0, <2>2, <2>4 DEF EntryPcs
  <2>7. VenueType'
    BY <1>1, <1>4, <1>6, <2>1, <2>2, BuyVenueType DEF KalshiHedge
  <2>8. CASE r = 0
    <3>1. CallType'
      BY <1>1, <2>3, <2>8, GotoType DEF EntryPcs
    <3>2. openPos' \in [Pairs -> Position] /\ exposure' \in Int
      BY <1>4, <2>3, <2>8 DEF OwnType
    <3> QED
      BY <1>1, <1>4, <2>7, <3>1, <3>2, RecoveryFrame DEF OwnType
  <2>9. CASE r # 0
    <3> HIDE DEF past
    <3>1. CallType'
      BY <1>1, <2>3, <2>4, <2>6, <2>9, HedgedCallType
    <3>2. openPos' \in [Pairs -> Position]
      BY <1>4, <2>3, <2>4, <2>9, GrowType
    <3>3. exposure' \in Int
      BY <1>4, <2>3, <2>4, <2>9
    <3> QED
      BY <1>1, <1>4, <2>7, <3>1, <3>2, <3>3, RecoveryFrame DEF OwnType
  <2> QED
    BY <2>8, <2>9
<1> QED
  BY <1>5, <1>6

-----------------------------------------------------------------------------
LEMMA CompleteType ==
  ASSUME TypeInv, NEW t \in Tasks, Complete(t)
  PROVE  TypeInv'
<1>1. CallType /\ call[t].pc = "closing" /\ PairOf(t) \in Pairs
  BY PairOfType DEF TypeInv, TypeOK, CallType, Complete
<1>2. call[t].k \in Nat /\ call[t].p \in Nat /\ call[t].n \in Nat
      /\ call[t].got \in Nat /\ call[t].prior \in Nat \cup {Waiting}
  BY <1>1 DEF CallType, CallRec, Fill, FillsBack
<1>3. Balanced(t) \in Nat
  BY <1>2, ExcessType
<1>4. FinalPos(t) \in Position /\ Cost(FinalPos(t)) \in Nat
  <2>1. openPos[PairOf(t)] \in Position
    BY <1>1 DEF TypeInv, TypeOK, OwnType
  <2>2. FinalPos(t) \in Position
    BY <1>2, <2>1 DEF FinalPos, Position
  <2> QED
    BY <2>2 DEF Cost, Position
<1>5. ReconcileRequest(t) \in ReconRec
  <2>1. PolyExpected(t) \in Int
    BY <1>2, <1>3 DEF PolyExpected
  <2> QED
    BY <1>1, <1>2, <1>3, <2>1 DEF ReconcileRequest, ReconRec
<1>6. CallType' /\ inFlight' \subseteq Pairs
  BY <1>1 DEF Complete, Leave, CallType, FillsBack, CallRec, EntryPcs, Idle, Outcomes,
     Fill, Waiting, TypeInv, TypeOK, OwnType
<1>7. OwnType'
  BY <1>1, <1>4, <1>6 DEF Complete, TypeInv, TypeOK, OwnType
<1>8. MoneyType'
  <2>1. invested' \in [Pairs -> Nat]
    BY <1>1, <1>4 DEF Complete, TypeInv, TypeOK, MoneyType
  <2>2. kBal' \in Nat /\ pBal' \in Nat /\ exposure' \in Int
    BY <1>2 DEF Complete, TypeInv, TypeOK, MoneyType
  <2> QED
    BY <2>1, <2>2 DEF MoneyType
<1>9. BackgroundType'
  BY <1>5 DEF Complete, TypeInv, TypeOK, BackgroundType, backgroundVars
<1>10. journaled' \subseteq Pairs
  BY <1>1 DEF Complete, TypeInv, TypeOK
<1> QED
  BY <1>6, <1>7, <1>8, <1>9, <1>10 DEF Complete, TypeInv, TypeOK, CallType, HaltType,
     haltVars, VenueType, venueVars, MonitorType, BudgetType

LEMMA EntryStepType ==
  ASSUME TypeInv, NEW t \in Tasks, EntryStep(t)
  PROVE  TypeInv'
BY BeforeOrdersType, SnapshotType, LegsType, PlainRecoveryType, RecoverySalesType,
   RecoveryHedgesType, CompleteType DEF EntryStep, Recovery

-----------------------------------------------------------------------------
(* Exits *)

\* Selling disturbs only the exit task and the venues.
LEMMA ExitSalesType ==
  ASSUME TypeInv, NEW x \in Exiters,
         ExitKalshiLeg(x) \/ ExitPolyLeg(x) \/ ExitSweep(x)
  PROVE  TypeInv'
<1>1. exit[x] \in ExitRec /\ PairOf(x) \in Pairs /\ VenueType /\ closed' = closed
  BY PairOfType DEF TypeInv, TypeOK, ExitKalshiLeg, ExitPolyLeg, ExitSweep
<1>2. exit[x].pos.k \in Nat /\ exit[x].pos.p \in Nat
  BY <1>1 DEF ExitRec, Position
<1>3. SUFFICES VenueType' /\ exit' \in [Exiters -> ExitRec]
  <2>1. UNCHANGED <<ownVars, haltVars, moneyVars, journaled, closed, call, monitor,
                    backgroundVars, budget>>
    BY DEF ExitKalshiLeg, ExitPolyLeg, ExitSweep
  <2> QED
    BY <2>1 DEF TypeInv, TypeOK, FillsBack, OwnType, HaltType, MoneyType, MonitorType,
       BackgroundType, BudgetType, ownVars, haltVars, moneyVars, backgroundVars
<1>4. CASE ExitKalshiLeg(x)
  <2>1. PICK f \in KalshiSells(PairOf(x), Floor(exit[x].pos.k)) :
           SellKalshi(PairOf(x), f) /\ exit' = [exit EXCEPT ![x].k = f]
    BY <1>4 DEF ExitKalshiLeg
  <2>2. f \in Nat /\ f <= kVenue[PairOf(x)]
    BY <1>1, <1>2, FloorType, SellsType
  <2>3. VenueType'
    BY <1>1, <1>4, <2>1, <2>2, SellVenueType DEF ExitKalshiLeg
  <2>4. [exit[x] EXCEPT !.k = f] \in ExitRec
    BY <1>1, <2>2 DEF ExitRec, Fill
  <2> QED
    BY <2>1, <2>3, <2>4 DEF TypeInv, TypeOK
<1>5. CASE ExitPolyLeg(x)
  <2>1. PICK f \in PolySells(PairOf(x), exit[x].pos.p) :
           SellPoly(PairOf(x), f) /\ exit' = [exit EXCEPT ![x].p = f]
    BY <1>5 DEF ExitPolyLeg
  <2>2. f \in Nat /\ f <= pVenue[PairOf(x)]
    BY <1>1, <1>2, SellsType
  <2>3. VenueType'
    BY <1>1, <1>5, <2>1, <2>2, SellVenueType DEF ExitPolyLeg
  <2>4. [exit[x] EXCEPT !.p = f] \in ExitRec
    BY <1>1, <2>2 DEF ExitRec, Fill
  <2> QED
    BY <2>1, <2>3, <2>4 DEF TypeInv, TypeOK
<1>6. CASE ExitSweep(x)
  <2>1. exit[x].k \in Nat
    BY <1>1, <1>6 DEF ExitSweep, ExitRec, Fill
  <2>2. CASE ~KOk(x) /\ POk(x)
    <3>1. PICK f \in KalshiSells(PairOf(x), Ceil(exit[x].pos.k - exit[x].k)) :
             /\ SellKalshi(PairOf(x), f)
             /\ exit' = [exit EXCEPT ![x].pc = "swept", ![x].k = @ + f]
      BY <1>6, <2>2 DEF ExitSweep
    <3>2. exit[x].pos.k - exit[x].k \in Nat
      BY <1>2, <2>1, <2>2, QuantityAssumption DEF KOk
    <3>3. f \in Nat /\ f <= kVenue[PairOf(x)]
      BY <1>1, <3>1, <3>2, CeilType, SellsType
    <3>4. VenueType'
      BY <1>1, <1>6, <3>1, <3>3, SellVenueType DEF ExitSweep
    <3>5. exit[x].k + f \in Fill
      BY <2>1, <3>3 DEF Fill
    <3>6. [exit[x] EXCEPT !.pc = "swept", !.k = exit[x].k + f] \in ExitRec
      BY <1>1, <3>5 DEF ExitRec, ExitPcs
    <3>7. exit' = [exit EXCEPT ![x] =
                      [exit[x] EXCEPT !.pc = "swept", !.k = exit[x].k + f]]
      BY <3>1
    <3> QED
      BY <3>4, <3>6, <3>7 DEF TypeInv, TypeOK
  <2>3. CASE ~(~KOk(x) /\ POk(x))
    <3>1. exit' = [exit EXCEPT ![x].pc = "swept"] /\ UNCHANGED <<kalshiVars, polyVars, closed>>
      BY <1>6, <2>3 DEF ExitSweep
    <3>2. [exit[x] EXCEPT !.pc = "swept"] \in ExitRec
      BY <1>1 DEF ExitRec, ExitPcs
    <3> QED
      BY <3>1, <3>2 DEF TypeInv, TypeOK, VenueType, kalshiVars, polyVars
  <2> QED
    BY <2>2, <2>3
<1> QED
  BY <1>4, <1>5, <1>6

LEMMA IdleExitType == IdleExit \in ExitRec
BY DEF IdleExit, ExitRec, ExitPcs, None, Position, NoLeg, Reversal, Fill

LEMMA ClosePositionType ==
  ASSUME OwnType, exposure \in Int, NEW p \in Pairs, NEW cost \in Nat,
         ClosePosition(p, cost)
  PROVE  openPos' \in [Pairs -> Position] /\ exposure' \in Int
<1>1. None \in Position
  BY DEF None, Position
<1> QED
  BY <1>1 DEF ClosePosition, Floored, OwnType

LEMMA ExitControlType ==
  ASSUME TypeInv,
         \/ \E p \in Pairs : BookUpdate(p)
         \/ \E x \in Exiters : StartExit(x) \/ ExitDone(x) \/ ExitMissed(x) \/ ExitPartial(x)
  PROVE  TypeInv'
<1> USE DEF TypeInv, TypeOK
<1>1. ASSUME NEW p \in Pairs, BookUpdate(p) PROVE TypeInv'
  <2>1. <<p, "book">> \in Exiters
    BY DEF Exiters
  <2>2. exit' \in [Exiters -> ExitRec]
    <3>1. [exit[<<p, "book">>] EXCEPT !.pc = "priced"] \in ExitRec
      BY <2>1 DEF ExitRec, ExitPcs
    <3> QED
      BY <1>1, <2>1, <3>1 DEF BookUpdate
  <2>3. BudgetType'
    BY <1>1 DEF BookUpdate, BudgetType
  <2> QED
    BY <1>1, <2>2, <2>3 DEF BookUpdate, FillsBack, OwnType, HaltType, MoneyType, VenueType,
       MonitorType, BackgroundType, ownVars, haltVars, moneyVars, venueVars, backgroundVars
<1>2. ASSUME NEW x \in Exiters, StartExit(x) PROVE TypeInv'
  <2>1. PairOf(x) \in Pairs /\ openPos[PairOf(x)] \in Position
    BY PairOfType DEF OwnType
  <2>2. [IdleExit EXCEPT !.pc = "selling", !.pos = openPos[PairOf(x)],
                         !.k = Waiting, !.p = Waiting] \in ExitRec
    BY <2>1, IdleExitType DEF ExitRec, ExitPcs, Fill
  <2>3. exit' \in [Exiters -> ExitRec] /\ inFlight' \subseteq Pairs
    BY <1>2, <2>1, <2>2, IdleExitType DEF StartExit, OwnType
  <2> QED
    BY <1>2, <2>3 DEF StartExit, FillsBack, OwnType, HaltType, MoneyType, VenueType,
       MonitorType, BackgroundType, BudgetType, haltVars, moneyVars, venueVars, backgroundVars
<1>3. ASSUME NEW x \in Exiters, ExitDone(x) PROVE TypeInv'
  <2>1. PairOf(x) \in Pairs /\ exit[x].pos \in Position
    BY PairOfType DEF ExitRec
  <2>2. Cost(exit[x].pos) \in Nat
    BY <2>1 DEF Cost, Position
  <2>3. openPos' \in [Pairs -> Position] /\ exposure' \in Int
    BY <1>3, <2>1, <2>2, ClosePositionType DEF ExitDone, MoneyType
  <2>4. exit' \in [Exiters -> ExitRec] /\ inFlight' \subseteq Pairs
    BY <1>3, IdleExitType DEF ExitDone, Release, OwnType
  <2>5. OwnType' /\ BackgroundType'
    BY <1>3, <2>1, <2>3, <2>4 DEF ExitDone, OwnType, BackgroundType
  <2> QED
    BY <1>3, <2>3, <2>4, <2>5 DEF ExitDone, FillsBack, HaltType, MoneyType, VenueType,
       MonitorType, BudgetType, haltVars, venueVars
<1>4. ASSUME NEW x \in Exiters, ExitMissed(x) PROVE TypeInv'
  <2>1. exit' \in [Exiters -> ExitRec] /\ inFlight' \subseteq Pairs
    BY <1>4, IdleExitType DEF ExitMissed, Release, OwnType
  <2> QED
    BY <1>4, <2>1 DEF ExitMissed, FillsBack, OwnType, HaltType, MoneyType, VenueType,
       MonitorType, BackgroundType, BudgetType, haltVars, moneyVars, venueVars, backgroundVars
<1>5. ASSUME NEW x \in Exiters, ExitPartial(x) PROVE TypeInv'
  <2>1. /\ PairOf(x) \in Pairs /\ exit[x] \in ExitRec /\ exit[x].pos \in Position
        /\ exit[x].k \in Int /\ exit[x].p \in Int
    BY PairOfType DEF ExitRec, Fill, Waiting
  <2>2. Cost(exit[x].pos) \in Nat
    BY <2>1 DEF Cost, Position
  <2>3. openPos' \in [Pairs -> Position] /\ exposure' \in Int
    BY <1>5, <2>1, <2>2, ClosePositionType DEF ExitPartial, MoneyType
  <2>4. NakedLeg(x) \in Reversal
    <3>1. CASE POk(x)
      <4>0. ~KOk(x)
        BY <1>5, <3>1 DEF ExitPartial
      <4>1. exit[x].pos.k - exit[x].k \in Nat
        BY <2>1, <4>0, QuantityAssumption DEF KOk, Position
      <4> QED
        BY <3>1, <4>1 DEF NakedLeg, Reversal
    <3>2. CASE ~POk(x)
      <4>1. exit[x].pos.p - exit[x].p \in Nat
        BY <2>1, <3>2, QuantityAssumption DEF POk, Position
      <4> QED
        BY <3>2, <4>1 DEF NakedLeg, Reversal
    <3> QED
      BY <3>1, <3>2
  <2>5. exit' \in [Exiters -> ExitRec]
    <3>1. [exit[x] EXCEPT !.pc = "retryHeld", !.pr = NakedLeg(x)] \in ExitRec
      BY <2>1, <2>4 DEF ExitRec, ExitPcs
    <3> QED
      BY <1>5, <3>1 DEF ExitPartial
  <2>6. OwnType'
    BY <1>5, <2>1, <2>3, <2>4 DEF ExitPartial, OwnType
  <2> QED
    BY <1>5, <2>3, <2>5, <2>6 DEF ExitPartial, FillsBack, HaltType, MoneyType, VenueType,
       MonitorType, BackgroundType, BudgetType, haltVars, venueVars, backgroundVars
<1> QED
  BY <1>1, <1>2, <1>3, <1>4, <1>5

LEMMA RetryType ==
  ASSUME TypeInv, NEW x \in Exiters, RetryPendingReversal(x)
  PROVE  TypeInv'
<1> DEFINE pr == exit[x].pr
<1>1. /\ PairOf(x) \in Pairs /\ VenueType /\ closed' = closed
      /\ pr \in Reversal /\ pr.qty \in Nat /\ pr.attempts \in Nat
  BY PairOfType DEF TypeInv, TypeOK, ExitRec, Reversal, RetryPendingReversal
<1>2. PICK f \in 0..Ceil(pr.qty) : RetrySale(PairOf(x), pr, f) /\ AfterRetry(PairOf(x), pr, f)
  BY DEF RetryPendingReversal
<1>3. Ceil(pr.qty) \in Nat /\ f \in Nat
  BY <1>1, CeilType
<1>4. VenueType'
  <2>1. CASE pr.leg = "kalshi"
    <3>1. f \in KalshiSells(PairOf(x), Ceil(pr.qty)) /\ SellKalshi(PairOf(x), f)
          /\ UNCHANGED polyVars
      BY <1>2, <2>1 DEF RetrySale
    <3>2. f <= kVenue[PairOf(x)]
      BY <1>1, <1>3, <3>1, SellsType
    <3> QED
      BY <1>1, <1>3, <3>1, <3>2, SellVenueType
  <2>2. CASE pr.leg # "kalshi"
    <3>1. f \in PolySells(PairOf(x), pr.qty) /\ SellPoly(PairOf(x), f)
          /\ UNCHANGED kalshiVars
      BY <1>2, <2>2 DEF RetrySale
    <3>2. f <= pVenue[PairOf(x)]
      BY <1>1, <3>1, SellsType
    <3> QED
      BY <1>1, <1>3, <3>1, <3>2, SellVenueType
  <2> QED
    BY <2>1, <2>2
<1>5. pending' \in [Pairs -> Reversal] /\ orphaned' \subseteq Pairs
  <2>1. NoLeg \in Reversal
    BY DEF NoLeg, Reversal
  <2>2. pr.qty - f < Contract
        \/ [pr EXCEPT !.qty = pr.qty - f, !.attempts = pr.attempts + 1] \in Reversal
    <3>1. pr.qty - f >= Contract => pr.qty - f \in Nat
      BY <1>1, <1>3, QuantityAssumption
    <3>2. pr.attempts + 1 \in Nat
      BY <1>1
    <3> HIDE DEF pr
    <3>3. pr.qty - f \in Nat
          => [pr EXCEPT !.qty = pr.qty - f, !.attempts = pr.attempts + 1] \in Reversal
      BY <1>1, <3>2 DEF Reversal
    <3> QED
      BY <1>1, <1>3, <3>1, <3>3, QuantityAssumption
  <2>3. pending \in [Pairs -> Reversal] /\ orphaned \subseteq Pairs
    BY DEF TypeInv, TypeOK, OwnType
  <2> QED
    BY <1>1, <1>2, <2>1, <2>2, <2>3 DEF AfterRetry
<1>6. exit' \in [Exiters -> ExitRec] /\ inFlight' \subseteq Pairs
  BY IdleExitType DEF RetryPendingReversal, Release, TypeInv, TypeOK, OwnType
<1>7. OwnType'
  BY <1>5, <1>6 DEF RetryPendingReversal, TypeInv, TypeOK, OwnType
<1> QED
  BY <1>4, <1>6, <1>7 DEF RetryPendingReversal, TypeInv, TypeOK, FillsBack, HaltType,
     MoneyType, MonitorType, BackgroundType, BudgetType, haltVars, moneyVars, backgroundVars

LEMMA ExitStepType ==
  ASSUME TypeInv, NEW x \in Exiters, ExitStep(x)
  PROVE  TypeInv'
BY ExitSalesType, ExitControlType, RetryType DEF ExitStep

-----------------------------------------------------------------------------
(* The monitor loop, the refreshes and the world *)

LEMMA MonitorStepType ==
  ASSUME TypeInv, MonitorStep
  PROVE  TypeInv'
<1> USE DEF TypeInv, TypeOK, ownVars, haltVars, moneyVars, venueVars, backgroundVars
<1>1. CASE MonitorWake
  <2>1. MonitorType'
    BY <1>1 DEF MonitorWake, MonitorType, OwnType
  <2>2. BudgetType'
    BY <1>1 DEF MonitorWake, BudgetType
  <2> QED
    BY <1>1, <2>1, <2>2 DEF MonitorWake, FillsBack, OwnType, HaltType, MoneyType, VenueType,
       BackgroundType
<1>2. CASE MonitorFetch
  <2>1. MonitorType'
    BY <1>2, ZenonT(40) DEF MonitorFetch, MonitorType
  <2>2. BudgetType'
    BY <1>2 DEF MonitorFetch, BudgetType
  <2> QED
    BY <1>2, <2>1, <2>2 DEF MonitorFetch, FillsBack, OwnType, HaltType, MoneyType, VenueType,
       BackgroundType
<1>3. ASSUME NEW p \in Pairs, SettlementCheck(p) PROVE TypeInv'
  <2>1. MonitorType'
    BY <1>3 DEF SettlementCheck, MonitorType
  <2>2. Cost(monitor.snap[p]) \in Nat
    BY DEF MonitorType, Position, Cost
  <2>3. openPos' \in [Pairs -> Position] /\ exposure' \in Int
    BY <1>3, <2>2, ClosePositionType DEF SettlementCheck, MoneyType, OwnType
  <2>4. absent' \in [Pairs -> Nat]
    BY <1>3 DEF SettlementCheck, OwnType
  <2>5. journaled' \subseteq Pairs /\ BackgroundType'
    BY <1>3 DEF SettlementCheck, BackgroundType
  <2> QED
    BY <1>3, <2>1, <2>3, <2>4, <2>5 DEF SettlementCheck, FillsBack, OwnType, HaltType,
       MoneyType, VenueType, BudgetType
<1>4. CASE MonitorExits
  <2>1. MonitorType'
    <3>1. None \in Position
      BY DEF None, Position
    <3> QED
      BY <1>4, <3>1 DEF MonitorExits, MonitorType
  <2>2. [IdleExit EXCEPT !.pc = "priced"] \in ExitRec
    BY IdleExitType DEF ExitRec, ExitPcs
  <2>3. exit' \in [Exiters -> ExitRec]
    BY <1>4, <2>2 DEF MonitorExits
  <2> QED
    BY <1>4, <2>1, <2>3 DEF MonitorExits, FillsBack, OwnType, HaltType, MoneyType, VenueType,
       BackgroundType, BudgetType
<1>5. CASE MonitorRetries
  <2>1. MonitorType'
    BY <1>5 DEF MonitorRetries, MonitorType
  <2>2. \A x \in Exiters : [IdleExit EXCEPT !.pc = "retryFree", !.pr = pending[x[1]]] \in ExitRec
    <3>1. \A x \in Exiters : pending[x[1]] \in Reversal
      BY DEF Exiters, OwnType
    <3> QED
      BY <3>1, IdleExitType DEF ExitRec, ExitPcs
  <2>3. exit' \in [Exiters -> ExitRec]
    BY <1>5, <2>2 DEF MonitorRetries
  <2> QED
    BY <1>5, <2>1, <2>3 DEF MonitorRetries, FillsBack, OwnType, HaltType, MoneyType, VenueType,
       BackgroundType, BudgetType
<1>6. CASE MonitorSleep
  <2>1. MonitorType'
    BY <1>6 DEF MonitorSleep, MonitorType
  <2> QED
    BY <1>6, <2>1 DEF MonitorSleep, FillsBack, OwnType, HaltType, MoneyType, VenueType,
       BackgroundType, BudgetType
<1> QED
  BY <1>1, <1>2, <1>3, <1>4, <1>5, <1>6 DEF MonitorStep

LEMMA BackgroundStepType ==
  ASSUME TypeInv,
         \/ RefreshRead \/ RefreshWrite
         \/ \E r \in recons : ReconcileTrade(r)
  PROVE  TypeInv'
<1> USE DEF TypeInv, TypeOK, ownVars, haltVars, moneyVars, venueVars
<1>1. CASE RefreshRead
  <2>1. BackgroundType' /\ BudgetType'
    BY <1>1 DEF RefreshRead, BackgroundType, BudgetType, VenueType
  <2> QED
    BY <1>1, <2>1 DEF RefreshRead, FillsBack, OwnType, HaltType, MoneyType, VenueType, MonitorType
<1>2. CASE RefreshWrite
  <2>1. BackgroundType' /\ kBal' \in Nat /\ pBal' \in Nat
    <3>1. refresh.k \in Nat /\ refresh.p \in Nat
      BY DEF BackgroundType
    <3>2. [NoRefresh EXCEPT !.due = refresh.due]
            \in [k : Nat, p : Nat, live : BOOLEAN, due : BOOLEAN]
      BY DEF BackgroundType, NoRefresh
    <3>3. BackgroundType'
      BY <1>2, <3>2 DEF RefreshWrite, BackgroundType
    <3> QED
      BY <1>2, <3>1, <3>3 DEF RefreshWrite
  <2> QED
    BY <1>2, <2>1 DEF RefreshWrite, FillsBack, OwnType, HaltType, MoneyType, VenueType,
       MonitorType, BudgetType
<1>3. ASSUME NEW r \in recons, ReconcileTrade(r) PROVE TypeInv'
  <2>1. BackgroundType'
    BY <1>3 DEF ReconcileTrade, BackgroundType
  <2>2. halted' \in BOOLEAN /\ connHalted' \in BOOLEAN
    BY <1>3 DEF ReconcileTrade, HaltType
  <2> QED
    BY <1>3, <2>1, <2>2 DEF ReconcileTrade, FillsBack, OwnType, HaltType, MoneyType, VenueType,
       MonitorType, BudgetType
<1> QED
  BY <1>1, <1>2, <1>3

LEMMA WorldType ==
  ASSUME TypeInv, World
  PROVE  TypeInv'
<1> USE DEF TypeInv, TypeOK, ownVars, haltVars, moneyVars, venueVars, backgroundVars
<1>1. ASSUME NEW p \in Pairs, CooldownExpires(p) PROVE TypeInv'
  BY <1>1 DEF CooldownExpires, FillsBack, OwnType, HaltType, MoneyType, VenueType,
     MonitorType, BackgroundType, BudgetType
<1>2. ASSUME NEW p \in Pairs, MarketSettles(p) PROVE TypeInv'
  <2>1. kVenue' = [kVenue EXCEPT ![p] = @ + (-kVenue[p])] /\ kCash' = kCash - (-kVenue[p])
        /\ UNCHANGED polyVars /\ closed' = closed \cup {p}
    BY <1>2 DEF MarketSettles, SellKalshi, BuyKalshi
  <2>2. kVenue[p] + (-kVenue[p]) \in Nat /\ kCash - (-kVenue[p]) \in Nat
    BY DEF VenueType
  <2>3. VenueType'
    BY <2>1, <2>2 DEF VenueType, polyVars
  <2> QED
    BY <1>2, <2>3 DEF MarketSettles, FillsBack, OwnType, HaltType, MoneyType,
       MonitorType, BackgroundType, BudgetType
<1>3. CASE HaltForConnectionLoss
  <2>1. BudgetType' /\ HaltType'
    BY <1>3 DEF HaltForConnectionLoss, BudgetType, HaltType
  <2> QED
    BY <1>3, <2>1 DEF HaltForConnectionLoss, FillsBack, OwnType, MoneyType, VenueType,
       MonitorType, BackgroundType
<1>4. CASE ResumeFromConnectionLoss
  BY <1>4 DEF ResumeFromConnectionLoss, FillsBack, OwnType, HaltType, MoneyType, VenueType,
     MonitorType, BackgroundType, BudgetType
<1> QED
  BY <1>1, <1>2, <1>3, <1>4 DEF World

LEMMA RestartType ==
  ASSUME TypeInv, Restart
  PROVE  TypeInv'
<1> USE DEF TypeInv, TypeOK
<1>1. None \in Position /\ NoLeg \in Reversal
  BY DEF None, Position, NoLeg, Reversal
<1>2. \A p \in Pairs : Restored(p) \in Position
  <2>1. ASSUME NEW p \in Pairs PROVE Restored(p) \in Position
    <3>1. Lesser(kVenue[p], pVenue[p]) \in Nat
      BY LesserType DEF VenueType
    <3> QED
      BY <3>1 DEF Restored, Position
  <2> QED
    BY <2>1
<1>3. openPos' \in [Pairs -> Position] /\ orphaned' \subseteq Pairs /\ halted' \in BOOLEAN
  BY <1>1, <1>2 DEF Restart
<1>4. OwnType'
  BY <1>1, <1>3 DEF Restart, OwnType
<1>5. HaltType' /\ MoneyType'
  <2>1. HaltType'
    BY <1>3 DEF Restart, HaltType
  <2>2. kCash \in Nat /\ pCash \in Nat
    BY DEF VenueType
  <2>3. MoneyType'
    <3>1. kBal' = kCash /\ pBal' = pCash /\ exposure' = 0
          /\ invested' = [p \in Pairs |-> 0]
      BY DEF Restart
    <3> QED
      BY <2>2, <3>1 DEF MoneyType
  <2> QED
    BY <2>1, <2>3
<1>9. BackgroundType' /\ BudgetType'
  <2>1. BackgroundType'
    BY DEF Restart, BackgroundType, NoRefresh
  <2>2. BudgetType'
    BY DEF Restart, BudgetType
  <2> QED
    BY <2>1, <2>2
<1>6. VenueType' /\ journaled' \subseteq Pairs
  BY DEF Restart, venueVars, VenueType
<1>7. CallType'
  BY DEF Restart, CallType, FillsBack, CallRec, Idle, EntryPcs, Outcomes, Fill, Waiting
<1>8. exit' \in [Exiters -> ExitRec] /\ MonitorType'
  BY <1>1, IdleExitType DEF Restart, MonitorType
<1> QED
  BY <1>3, <1>4, <1>5, <1>6, <1>7, <1>8, <1>9 DEF CallType

-----------------------------------------------------------------------------
\* Every step of every task, and of the world, keeps the type invariant.
LEMMA NextType ==
  ASSUME TypeInv, [Next]_vars
  PROVE  TypeInv'
<1>1. CASE Next
  BY <1>1, BeforeOrdersType, EntryStepType, ExitControlType, ExitStepType,
     MonitorStepType, BackgroundStepType, WorldType, RestartType DEF Next
<1>2. CASE UNCHANGED vars
  BY <1>2 DEF vars, TypeInv, TypeOK, FillsBack, OwnType, HaltType, MoneyType, VenueType,
     MonitorType, BackgroundType, BudgetType
<1> QED
  BY <1>1, <1>2

\* The executor's state keeps its type: no venue is oversold or overdrawn by the
\* orders the executor sends (lines 524-3365), no tracked quantity or queued
\* reversal goes negative, and every task stays at a point of its code.
THEOREM TypeCorrect == Spec => []TypeOK
<1>1. Init => TypeInv
  BY InitType
<1>2. TypeInv /\ [Next]_vars => TypeInv'
  BY NextType
<1>3. TypeInv => TypeOK
  BY DEF TypeInv
<1> QED
  BY <1>1, <1>2, <1>3, PTL DEF Spec

-----------------------------------------------------------------------------
(* Ownership *)

\* While the monitor loop sleeps, reads or settles, none of its own exits or
\* retries is under way: it never starts a task twice.
MonitorPhase == monitor.pc \in {"sleep", "fetch", "settle"} => MonitorIdle

LockInv == TypeInv /\ OneOwner /\ MonitorPhase

-----------------------------------------------------------------------------
(* How a step may change the owners *)

LEMMA DisjointTasks == Tasks \cap Exiters = {}
BY TaskAssumption DEF Tasks, Exiters

LEMMA LockersTasks ==
  ASSUME NEW a \in Lockers
  PROVE  PairOf(a) \in Pairs /\ (a \in Tasks \/ a \in Exiters)
BY PairOfType DEF Lockers

LEMMA KeepOwner ==
  ASSUME OneOwner, Lockers' = Lockers, inFlight' = inFlight
  PROVE  OneOwner'
BY DEF OneOwner, Owners

LEMMA TakeOwner ==
  ASSUME OneOwner, NEW a, PairOf(a) \in Pairs, PairOf(a) \notin inFlight,
         Lockers' = Lockers \cup {a}, inFlight' = inFlight \cup {PairOf(a)}
  PROVE  OneOwner'
<1>1. Owners(PairOf(a)) = {}
  BY DEF OneOwner
<1>2. \A p \in Pairs : Owners(p)' = IF p = PairOf(a) THEN {a} ELSE Owners(p)
  BY <1>1 DEF Owners
<1>3. \A p \in Pairs : \A b, c \in Owners(p)' : b = c
  BY <1>2 DEF OneOwner
<1>4. inFlight' = {p \in Pairs : Owners(p)' # {}}
  BY <1>2 DEF OneOwner
<1> QED
  BY <1>3, <1>4 DEF OneOwner

LEMMA DropOwner ==
  ASSUME OneOwner, NEW a \in Lockers,
         Lockers' = Lockers \ {a}, inFlight' = inFlight \ {PairOf(a)}
  PROVE  OneOwner'
<1>1. PairOf(a) \in Pairs
  BY LockersTasks
<1>2. \A b \in Lockers : PairOf(b) = PairOf(a) => b = a
  BY <1>1 DEF OneOwner, Owners
<1>3. \A p \in Pairs : Owners(p)' = IF p = PairOf(a) THEN {} ELSE Owners(p)
  BY <1>2 DEF Owners
<1>4. \A p \in Pairs : \A b, c \in Owners(p)' : b = c
  BY <1>3 DEF OneOwner
<1>5. inFlight' = {p \in Pairs : Owners(p)' # {}}
  BY <1>3 DEF OneOwner
<1> QED
  BY <1>4, <1>5 DEF OneOwner

\* A step of one entry task, or of one exit task, changes at most its own place
\* among the owners.
LEMMA CallLockers ==
  ASSUME NEW t \in Tasks, exit' = exit, \A u \in Tasks : u # t => call'[u] = call[u]
  PROVE  Lockers' = IF EntryLocked(t)' THEN Lockers \cup {t} ELSE Lockers \ {t}
BY DisjointTasks DEF Lockers, EntryLocked, ExitLocked

LEMMA ExitLockers ==
  ASSUME NEW x \in Exiters, call' = call, \A y \in Exiters : y # x => exit'[y] = exit[y]
  PROVE  Lockers' = IF ExitLocked(x)' THEN Lockers \cup {x} ELSE Lockers \ {x}
BY DisjointTasks DEF Lockers, EntryLocked, ExitLocked

-----------------------------------------------------------------------------
(* Entries *)

\* Every step of an entry leaves the other tasks alone.
LEMMA EntryAlone ==
  ASSUME TypeInv, NEW t \in Tasks, ArbOpened(t) \/ EntryStep(t)
  PROVE  /\ exit' = exit /\ monitor' = monitor
         /\ \A u \in Tasks : u # t => call'[u] = call[u]
<1> USE DEF TypeInv, TypeOK, restVars, Goto, Finish, Leave
<1>1. CASE ArbOpened(t)
  BY <1>1 DEF ArbOpened
<1>2. CASE \/ TryEnter(t) \/ EntryGuards(t) \/ LeaveUnsized(t)
  BY <1>2 DEF TryEnter, EntryGuards, LeaveUnsized
<1>3. CASE ReserveBalance(t) \/ RestoreBalance(t) \/ ReserveExposure(t)
  BY <1>3 DEF ReserveBalance, RestoreBalance, ReserveExposure
<1>4. CASE KalshiLeg(t) \/ PolyLeg(t) \/ SnapshotPoly(t)
  BY <1>4 DEF KalshiLeg, PolyLeg, SnapshotPoly
<1>5. CASE LegsDone(t)
  BY <1>5 DEF LegsDone
<1>6. CASE AbsorbKalshiDust(t) \/ StartPolyHedge(t) \/ SkipPolyHedge(t)
           \/ AbsorbPolyDust(t) \/ SkipKalshiHedge(t)
  BY <1>6 DEF AbsorbKalshiDust, StartPolyHedge, SkipPolyHedge, AbsorbPolyDust, SkipKalshiHedge
<1>7. CASE PolyHedge(t)
  BY <1>7 DEF PolyHedge
<1>8. CASE ReverseKalshi(t) \/ ReverseRest(t) \/ SellHedgeOverfill(t)
  BY <1>8 DEF ReverseKalshi, ReverseRest, SellHedgeOverfill
<1>9. CASE GuardOverfill(t)
  BY <1>9 DEF GuardOverfill, ReverseExcessPoly
<1>10. CASE StartKalshiHedge(t)
  BY <1>10 DEF StartKalshiHedge, ReverseExcessPoly
<1>11. CASE KalshiHedge(t)
  BY <1>11 DEF KalshiHedge
<1>12. CASE SellRest(t) \/ SellExcessPoly(t)
  BY <1>12 DEF SellRest, SellExcessPoly
<1>13. CASE Complete(t)
  BY <1>13 DEF Complete
<1> QED
  BY <1>1, <1>2, <1>3, <1>4, <1>5, <1>6, <1>7, <1>8, <1>9, <1>10, <1>11, <1>12, <1>13
  DEF EntryStep, Recovery

\* Between taking the pair and the finally block an entry keeps it.
LEMMA EntryKeeps ==
  ASSUME TypeInv, NEW t \in Tasks,
         \/ ArbOpened(t) \/ EntryGuards(t) \/ ReserveBalance(t) \/ ReserveExposure(t)
         \/ KalshiLeg(t) \/ PolyLeg(t) \/ SnapshotPoly(t) \/ LegsDone(t) \/ Recovery(t)
  PROVE  inFlight' = inFlight /\ (EntryLocked(t)' <=> EntryLocked(t))
<1> USE DEF TypeInv, TypeOK, CallRec, ownVars, restVars, Goto, Finish, EntryLocked
<1>1. CASE ArbOpened(t)
  BY <1>1 DEF ArbOpened
<1>2. CASE EntryGuards(t) \/ ReserveBalance(t) \/ ReserveExposure(t)
  BY <1>2 DEF EntryGuards, ReserveBalance, ReserveExposure
<1>3. CASE KalshiLeg(t) \/ PolyLeg(t) \/ SnapshotPoly(t)
  BY <1>3 DEF KalshiLeg, PolyLeg, SnapshotPoly
<1>4. CASE LegsDone(t)
  <2>1. PICK pc \in {"excessK", "excessP", "closing"} : Goto(t, pc)
    BY <1>4 DEF LegsDone
  <2> QED
    BY <1>4, <2>1 DEF LegsDone
<1>5. CASE AbsorbKalshiDust(t) \/ StartPolyHedge(t) \/ SkipPolyHedge(t)
           \/ AbsorbPolyDust(t) \/ SkipKalshiHedge(t)
  BY <1>5 DEF AbsorbKalshiDust, StartPolyHedge, SkipPolyHedge, AbsorbPolyDust, SkipKalshiHedge
<1>6. CASE PolyHedge(t)
  <2>1. PICK c : call' = [call EXCEPT ![t] = c]
                 /\ c.pc \in {"reverseK", "reverseRest", "sellOverfill", "closing"}
    BY <1>6 DEF PolyHedge
  <2> QED
    BY <1>6, <2>1 DEF PolyHedge
<1>7. CASE ReverseKalshi(t) \/ ReverseRest(t) \/ SellHedgeOverfill(t)
  BY <1>7 DEF ReverseKalshi, ReverseRest, SellHedgeOverfill
<1>8. CASE GuardOverfill(t)
  BY <1>8 DEF GuardOverfill, ReverseExcessPoly
<1>9. CASE StartKalshiHedge(t)
  BY <1>9 DEF StartKalshiHedge, ReverseExcessPoly
<1>10. CASE KalshiHedge(t)
  <2>1. PICK c : call' = [call EXCEPT ![t] = c]
                 /\ c.pc \in {"sellP", "sellRest", "closing"}
    BY <1>10 DEF KalshiHedge
  <2> QED
    BY <1>10, <2>1 DEF KalshiHedge
<1>11. CASE SellRest(t) \/ SellExcessPoly(t)
  BY <1>11 DEF SellRest, SellExcessPoly
<1> QED
  BY <1>1, <1>2, <1>3, <1>4, <1>5, <1>6, <1>7, <1>8, <1>9, <1>10, <1>11 DEF Recovery

\* What a step of one task does to the owners: nothing, the pair is taken, the
\* pair is freed.
Stays    == Lockers' = Lockers /\ inFlight' = inFlight
Takes(a) == /\ PairOf(a) \notin inFlight
            /\ Lockers' = Lockers \cup {a} /\ inFlight' = inFlight \cup {PairOf(a)}
Frees(a) == /\ a \in Lockers
            /\ Lockers' = Lockers \ {a} /\ inFlight' = inFlight \ {PairOf(a)}

LEMMA OwnersMove ==
  ASSUME OneOwner, NEW a, PairOf(a) \in Pairs, Stays \/ Takes(a) \/ Frees(a)
  PROVE  OneOwner'
BY KeepOwner, TakeOwner, DropOwner DEF Stays, Takes, Frees

LEMMA EntryMoves ==
  ASSUME TypeInv, NEW t \in Tasks, ArbOpened(t) \/ EntryStep(t)
  PROVE  \/ Stays
         \/ TryEnter(t) /\ Takes(t)
         \/ (LeaveUnsized(t) \/ RestoreBalance(t) \/ Complete(t)) /\ Frees(t)
<1>1. exit' = exit /\ \A u \in Tasks : u # t => call'[u] = call[u]
  BY EntryAlone
<1>2. t \in Lockers <=> EntryLocked(t)
  BY DisjointTasks DEF Lockers
<1>3. Lockers' = IF EntryLocked(t)' THEN Lockers \cup {t} ELSE Lockers \ {t}
  BY <1>1, CallLockers
<1>4. CASE inFlight' = inFlight /\ (EntryLocked(t)' <=> EntryLocked(t))
  BY <1>2, <1>3, <1>4 DEF Stays
<1>5. CASE TryEnter(t)
  <2>1. CASE PairOf(t) \in inFlight
    <3>1. ~EntryLocked(t) /\ ~EntryLocked(t)' /\ inFlight' = inFlight
      BY <1>5, <2>1 DEF TryEnter, EntryLocked, Idle, TypeInv, TypeOK
    <3> QED
      BY <1>4, <3>1
  <2>2. CASE PairOf(t) \notin inFlight
    <3>1. EntryLocked(t)' /\ inFlight' = inFlight \cup {PairOf(t)}
      BY <1>5, <2>2 DEF TryEnter, Goto, EntryLocked, TypeInv, TypeOK, CallRec
    <3> QED
      BY <1>3, <1>5, <2>2, <3>1 DEF Takes
  <2> QED
    BY <2>1, <2>2
<1>6. CASE LeaveUnsized(t) \/ RestoreBalance(t) \/ Complete(t)
  <2>1. EntryLocked(t)
    BY <1>6 DEF LeaveUnsized, RestoreBalance, Complete, EntryLocked
  <2>2. Leave(t)
    BY <1>6 DEF LeaveUnsized, RestoreBalance, Complete
  <2>3. ~EntryLocked(t)' /\ inFlight' = inFlight \ {PairOf(t)}
    BY <2>2 DEF Leave, EntryLocked, Idle, TypeInv, TypeOK
  <2> QED
    BY <1>2, <1>3, <1>6, <2>1, <2>3 DEF Frees
<1> QED
  BY <1>4, <1>5, <1>6, EntryKeeps DEF EntryStep

LEMMA EntryLockInv ==
  ASSUME LockInv, NEW t \in Tasks, ArbOpened(t) \/ EntryStep(t)
  PROVE  OneOwner' /\ MonitorPhase'
<1>1. TypeInv /\ OneOwner /\ MonitorPhase /\ PairOf(t) \in Pairs
  BY PairOfType DEF LockInv
<1>2. exit' = exit /\ monitor' = monitor
  BY <1>1, EntryAlone
<1>3. OneOwner'
  BY <1>1, EntryMoves, OwnersMove
<1>4. MonitorPhase'
  BY <1>1, <1>2 DEF MonitorPhase, MonitorIdle
<1> QED
  BY <1>3, <1>4

-----------------------------------------------------------------------------
(* Exits *)

\* An exit step is the step of a task that has started, and of no other.
LEMMA ExitAlone ==
  ASSUME TypeInv, NEW x \in Exiters, ExitStep(x)
  PROVE  /\ call' = call /\ monitor' = monitor /\ exit[x].pc # "idle"
         /\ \A y \in Exiters : y # x => exit'[y] = exit[y]
BY DEF TypeInv, TypeOK, ExitStep, StartExit, ExitKalshiLeg, ExitPolyLeg, ExitSweep,
   ExitDone, ExitMissed, ExitPartial, RetryPendingReversal, Release

LEMMA ExitMoves ==
  ASSUME TypeInv, NEW x \in Exiters, ExitStep(x)
  PROVE  \/ Stays
         \/ StartExit(x) /\ Holds(PairOf(x)) /\ Takes(x)
         \/ (ExitDone(x) \/ ExitMissed(x) \/ RetryPendingReversal(x)) /\ Frees(x)
<1> USE DEF ExitLocked
<1>0. exit \in [Exiters -> ExitRec]
  BY DEF TypeInv, TypeOK
<1>1. call' = call /\ \A y \in Exiters : y # x => exit'[y] = exit[y]
  BY ExitAlone
<1>2. x \in Lockers <=> ExitLocked(x)
  BY DisjointTasks DEF Lockers
<1>3. Lockers' = IF ExitLocked(x)' THEN Lockers \cup {x} ELSE Lockers \ {x}
  BY <1>1, ExitLockers
<1>4. CASE inFlight' = inFlight /\ (ExitLocked(x)' <=> ExitLocked(x))
  BY <1>2, <1>3, <1>4 DEF Stays
<1>5. CASE StartExit(x)
  <2>1. CASE PairOf(x) \in inFlight \/ ~Holds(PairOf(x))
    <3>1. ~ExitLocked(x) /\ ~ExitLocked(x)' /\ inFlight' = inFlight
      BY <1>0, <1>5, <2>1 DEF StartExit, IdleExit
    <3> QED
      BY <1>4, <3>1
  <2>2. CASE PairOf(x) \notin inFlight /\ Holds(PairOf(x))
    <3>1. ExitLocked(x)' /\ inFlight' = inFlight \cup {PairOf(x)}
      BY <1>0, <1>5, <2>2 DEF StartExit, IdleExit
    <3> QED
      BY <1>3, <1>5, <2>2, <3>1 DEF Takes
  <2> QED
    BY <2>1, <2>2
<1>6. CASE ExitKalshiLeg(x) \/ ExitPolyLeg(x) \/ ExitSweep(x) \/ ExitPartial(x)
  <2>1. inFlight' = inFlight
    BY <1>6 DEF ExitKalshiLeg, ExitPolyLeg, ExitSweep, ExitPartial, ownVars
  <2>2. ExitLocked(x) /\ ExitLocked(x)'
    BY <1>0, <1>6 DEF ExitKalshiLeg, ExitPolyLeg, ExitSweep, ExitPartial, ExitRec
  <2> QED
    BY <1>4, <2>1, <2>2
<1>7. CASE \/ ExitDone(x) \/ ExitMissed(x)
           \/ (RetryPendingReversal(x) /\ exit[x].pc = "retryHeld")
  <2>1. ExitLocked(x) /\ Release(x)
    BY <1>7 DEF ExitDone, ExitMissed, RetryPendingReversal
  <2>2. ~ExitLocked(x)' /\ inFlight' = inFlight \ {PairOf(x)}
    BY <1>0, <2>1 DEF Release, IdleExit
  <2> QED
    BY <1>2, <1>3, <1>7, <2>1, <2>2 DEF Frees
<1>8. CASE RetryPendingReversal(x) /\ exit[x].pc # "retryHeld"
  <2>1. ~ExitLocked(x) /\ ~ExitLocked(x)' /\ inFlight' = inFlight
    BY <1>0, <1>8 DEF RetryPendingReversal, IdleExit
  <2> QED
    BY <1>4, <2>1
<1> QED
  BY <1>5, <1>6, <1>7, <1>8 DEF ExitStep

LEMMA ExitLockInv ==
  ASSUME LockInv, NEW x \in Exiters, ExitStep(x)
  PROVE  OneOwner' /\ MonitorPhase'
<1>1. TypeInv /\ OneOwner /\ MonitorPhase /\ PairOf(x) \in Pairs
  BY PairOfType DEF LockInv
<1>2. /\ monitor' = monitor /\ exit[x].pc # "idle"
      /\ \A y \in Exiters : y # x => exit'[y] = exit[y]
  BY <1>1, ExitAlone
<1>3. OneOwner'
  BY <1>1, ExitMoves, OwnersMove
<1>4. MonitorPhase'
  BY <1>1, <1>2 DEF MonitorPhase, MonitorIdle, MonitorTask, Exiters
<1> QED
  BY <1>3, <1>4

-----------------------------------------------------------------------------
(* The monitor loop starts exits and retries only while it has none *)

LEMMA MonitorLockInv ==
  ASSUME LockInv, MonitorStep
  PROVE  OneOwner' /\ MonitorPhase' /\ Stays
<1>0. TypeInv /\ OneOwner /\ MonitorPhase /\ exit \in [Exiters -> ExitRec] /\ MonitorType
  BY DEF LockInv, TypeInv, TypeOK
<1>1. CASE MonitorWake \/ MonitorFetch \/ MonitorSleep
  <2>1. UNCHANGED <<inFlight, call, exit>>
    BY <1>1 DEF MonitorWake, MonitorFetch, MonitorSleep, ownVars
  <2>2. MonitorIdle
    BY <1>0, <1>1 DEF MonitorWake, MonitorFetch, MonitorSleep, MonitorPhase
  <2>3. Lockers' = Lockers
    BY <2>1 DEF Lockers, EntryLocked, ExitLocked
  <2> QED
    BY <1>0, <2>1, <2>2, <2>3, KeepOwner DEF Stays, MonitorPhase, MonitorIdle
<1>2. ASSUME NEW p \in Pairs, SettlementCheck(p) PROVE OneOwner' /\ MonitorPhase' /\ Stays
  <2>1. UNCHANGED <<inFlight, call, exit>>
    BY <1>2 DEF SettlementCheck
  <2>2. MonitorIdle
    BY <1>0, <1>2 DEF SettlementCheck, MonitorPhase
  <2>3. Lockers' = Lockers
    BY <2>1 DEF Lockers, EntryLocked, ExitLocked
  <2> QED
    BY <1>0, <2>1, <2>2, <2>3, KeepOwner DEF Stays, MonitorPhase, MonitorIdle
<1>3. CASE MonitorExits \/ MonitorRetries
  <2>1. inFlight' = inFlight /\ call' = call /\ monitor'.pc \in {"retries", "done"}
    <3>1. inFlight' = inFlight /\ call' = call
      BY <1>3 DEF MonitorExits, MonitorRetries, ownVars
    <3>2. MonitorExits => monitor'.pc = "retries"
      BY <1>0 DEF MonitorExits, MonitorType
    <3>3. MonitorRetries => monitor'.pc = "done"
      BY <1>0 DEF MonitorRetries, MonitorType
    <3> QED
      BY <1>3, <3>1, <3>2, <3>3
  <2>2. MonitorIdle
    BY <1>0, <1>3 DEF MonitorExits, MonitorRetries, MonitorPhase
  <2>3. \A x \in Exiters : x[2] = "monitor" => exit[x].pc = "idle"
    <3>1. \A x \in Exiters : x[2] = "monitor" => x = MonitorTask(x[1]) /\ x[1] \in Pairs
      BY DEF Exiters, MonitorTask
    <3> QED
      BY <2>2, <3>1 DEF MonitorIdle
  <2>4. ASSUME NEW x \in Exiters
        PROVE  exit'[x] = exit[x] \/ (~ExitLocked(x) /\ exit'[x].pc \in {"priced", "retryFree"})
    <3>1. x[2] = "monitor" => ~ExitLocked(x)
      BY <2>3 DEF ExitLocked
    <3>2. ASSUME MonitorExits
          PROVE  exit'[x] = exit[x] \/ (x[2] = "monitor" /\ exit'[x].pc = "priced")
      <4>1. PICK priced \in SUBSET OpenPairs :
               exit' = [y \in Exiters |-> IF y[2] = "monitor" /\ y[1] \in priced
                           THEN [IdleExit EXCEPT !.pc = "priced"] ELSE exit[y]]
        BY <3>2 DEF MonitorExits
      <4>2. [IdleExit EXCEPT !.pc = "priced"].pc = "priced"
        BY DEF IdleExit
      <4> QED
        BY <4>1, <4>2
    <3>3. ASSUME MonitorRetries
          PROVE  exit'[x] = exit[x] \/ (x[2] = "monitor" /\ exit'[x].pc = "retryFree")
      <4>1. exit' = [y \in Exiters |-> IF y[2] = "monitor" /\ pending[y[1]] # NoLeg
                       THEN [IdleExit EXCEPT !.pc = "retryFree", !.pr = pending[y[1]]]
                       ELSE exit[y]]
        BY <3>3 DEF MonitorRetries
      <4>2. [IdleExit EXCEPT !.pc = "retryFree", !.pr = pending[x[1]]].pc = "retryFree"
        BY DEF IdleExit
      <4> QED
        BY <4>1, <4>2
    <3> QED
      BY <1>3, <3>1, <3>2, <3>3
  <2>5. \A x \in Exiters : ExitLocked(x)' <=> ExitLocked(x)
    BY <2>4 DEF ExitLocked
  <2>6. Lockers' = Lockers
    BY <2>1, <2>5 DEF Lockers, EntryLocked
  <2> QED
    BY <1>0, <2>1, <2>6, KeepOwner DEF Stays, MonitorPhase
<1> QED
  BY <1>1, <1>2, <1>3 DEF MonitorStep

LEMMA OtherLockInv ==
  ASSUME LockInv,
         \/ \E p \in Pairs : BookUpdate(p)
         \/ RefreshRead \/ RefreshWrite
         \/ \E r \in recons : ReconcileTrade(r)
         \/ World
         \/ UNCHANGED vars
  PROVE  OneOwner' /\ MonitorPhase' /\ Stays
<1>0. TypeInv /\ OneOwner /\ MonitorPhase /\ exit \in [Exiters -> ExitRec]
  BY DEF LockInv, TypeInv, TypeOK
<1>1. ASSUME NEW p \in Pairs, BookUpdate(p) PROVE OneOwner' /\ MonitorPhase' /\ Stays
  <2>1. <<p, "book">> \in Exiters /\ \A q \in Pairs : MonitorTask(q) # <<p, "book">>
    BY DEF Exiters, MonitorTask
  <2>2. inFlight' = inFlight /\ call' = call /\ monitor' = monitor
        /\ (\A y \in Exiters : y # <<p, "book">> => exit'[y] = exit[y])
    BY <1>0, <1>1 DEF BookUpdate, ownVars
  <2>3. ~ExitLocked(<<p, "book">>) /\ ~ExitLocked(<<p, "book">>)'
    BY <1>0, <1>1, <2>1 DEF BookUpdate, ExitLocked, ExitRec
  <2>4. Lockers' = Lockers
    BY <2>2, <2>3 DEF Lockers, EntryLocked, ExitLocked
  <2>5. MonitorPhase'
    BY <1>0, <2>1, <2>2 DEF MonitorPhase, MonitorIdle, MonitorTask, Exiters
  <2> QED
    BY <1>0, <2>2, <2>4, <2>5, KeepOwner DEF Stays
<1>2. CASE ~\E p \in Pairs : BookUpdate(p)
  <2>1. UNCHANGED <<inFlight, call, exit, monitor>>
    BY <1>2 DEF RefreshRead, RefreshWrite, ReconcileTrade, World, CooldownExpires,
       MarketSettles, HaltForConnectionLoss, ResumeFromConnectionLoss, ownVars, vars
  <2>2. Lockers' = Lockers
    BY <2>1 DEF Lockers, EntryLocked, ExitLocked
  <2> QED
    BY <1>0, <2>1, <2>2, KeepOwner DEF Stays, MonitorPhase, MonitorIdle
<1> QED
  BY <1>1, <1>2

LEMMA RestartLockInv ==
  ASSUME LockInv, Restart
  PROVE  OneOwner' /\ MonitorPhase'
<1>1. inFlight' = {} /\ call' = [t \in Tasks |-> Idle] /\ exit' = [x \in Exiters |-> IdleExit]
  BY DEF Restart
<1>2. Lockers' = {}
  BY <1>1 DEF Lockers, EntryLocked, ExitLocked, Idle, IdleExit
<1>3. OneOwner'
  BY <1>1, <1>2 DEF OneOwner, Owners
<1>4. MonitorPhase'
  BY <1>1 DEF MonitorPhase, MonitorIdle, MonitorTask, Exiters, IdleExit
<1> QED
  BY <1>3, <1>4

LEMMA InitLockInv == ASSUME Init PROVE LockInv
<1>1. Lockers = {}
  BY DEF Init, Lockers, EntryLocked, ExitLocked, Idle, IdleExit
<1>2. OneOwner
  BY <1>1 DEF Init, OneOwner, Owners
<1>3. MonitorPhase
  BY DEF Init, MonitorPhase, MonitorIdle, MonitorTask, Exiters, IdleExit
<1> QED
  BY <1>2, <1>3, InitType DEF LockInv

LEMMA NextLockInv ==
  ASSUME LockInv, [Next]_vars
  PROVE  LockInv'
<1>1. TypeInv'
  BY NextType DEF LockInv
<1>2. OneOwner' /\ MonitorPhase'
  BY EntryLockInv, ExitLockInv, MonitorLockInv, OtherLockInv, RestartLockInv DEF Next
<1> QED
  BY <1>1, <1>2 DEF LockInv

\* Two tasks never own a pair at once, and a pair is in _inFlight just as long as
\* some task owns it (ExecuteAsync 554-560, CheckEarlyExitAsync 3184-3364).
THEOREM OwnershipExclusive == Spec => []OneOwner
<1>1. LockInv => OneOwner
  BY DEF LockInv
<1> QED
  BY <1>1, InitLockInv, NextLockInv, PTL DEF Spec

-----------------------------------------------------------------------------
(* Hedging.  Whatever recovery does, a tracked position is hedged; an entry    *)
(* works on a pair without one; what a restart restores is held.  On ownership *)
(* rests that the legs an entry adds to are its own.  With that the executor   *)
(* implements ArbPair: each of its steps acquires, opens, closes, settles or   *)
(* frees one pair as ArbPair allows, starts all over, or leaves what ArbPair   *)
(* sees unchanged.                                                             *)

\* Past the single-entry guard and before its legs are back: no position.
Flat(t) == call[t].pc \in {"guarded", "sized", "firing"} => ~Holds(PairOf(t))

\* From its orders to its end an entry adds to both legs alike.
Level(t) == EntryFired(t) => openPos[PairOf(t)].k = openPos[PairOf(t)].p

\* What is absorbed on top of a position is no more than dust.
Absorbed(t) == call[t].out = "DUST_ABSORBED_POLY" => call[t].got < Slack

\* The legs of one tracked position (a conjunct of TrackedHedged).
Hedged(p) == openPos[p].k <= openPos[p].p /\ openPos[p].p - openPos[p].k < Slack

Legs(t) == Flat(t) /\ Level(t) /\ Absorbed(t)

HedgeInv ==
    /\ LockInv
    /\ \A t \in Tasks : Legs(t)
    /\ \A p \in Pairs : Hedged(p)

-----------------------------------------------------------------------------
(* Quantities *)

LEMMA SlackType == Slack \in Nat /\ Contract <= Slack /\ Dust <= Slack /\ 0 < Slack
BY QuantityAssumption DEF Slack

\* Less than a contract cannot be bought on Kalshi.
LEMMA FloorRest ==
  ASSUME NEW q \in Nat, Floor(q) = 0
  PROVE  q < Contract
<1>1. Contract \in Nat \ {0}
  BY QuantityAssumption
<1>2. q < Contract * (q \div Contract) + Contract
  BY <1>1
<1>3. q \div Contract \in Nat
  BY <1>1
<1>4. q \div Contract = 0
  BY <1>1, <1>3 DEF Floor
<1> QED
  BY <1>1, <1>2, <1>4

\* Equal legs are hedged; so is no position.
LEMMA EqualHedged ==
  ASSUME NEW p \in Pairs, openPos[p] \in Position, openPos[p].k = openPos[p].p
  PROVE  Hedged(p)
BY SlackType DEF Hedged, Position

LEMMA NoneLevel == None.k = None.p /\ None \in Position
BY DEF None, Position

-----------------------------------------------------------------------------
(* How a step may change the tracked positions *)

\* Only these steps of an entry touch openPos.
Tracks(t) == LegsDone(t) \/ PolyHedge(t) \/ KalshiHedge(t) \/ Complete(t)

LEMMA EntryTracks ==
  ASSUME NEW t \in Tasks, ArbOpened(t) \/ EntryStep(t), ~Tracks(t)
  PROVE  openPos' = openPos
<1> USE DEF ownVars, restVars
<1>1. CASE \/ ArbOpened(t) \/ TryEnter(t) \/ EntryGuards(t) \/ LeaveUnsized(t)
           \/ ReserveBalance(t) \/ RestoreBalance(t) \/ ReserveExposure(t)
  BY <1>1 DEF ArbOpened, TryEnter, EntryGuards, LeaveUnsized, ReserveBalance,
     RestoreBalance, ReserveExposure
<1>2. CASE KalshiLeg(t) \/ PolyLeg(t) \/ SnapshotPoly(t)
  BY <1>2 DEF KalshiLeg, PolyLeg, SnapshotPoly
<1>3. CASE Recovery(t)
  BY <1>3 DEF Recovery, Tracks, AbsorbKalshiDust, StartPolyHedge, SkipPolyHedge,
     ReverseKalshi, ReverseRest, SellHedgeOverfill, AbsorbPolyDust, GuardOverfill,
     SkipKalshiHedge, StartKalshiHedge, SellRest, SellExcessPoly
<1> QED
  BY <1>1, <1>2, <1>3 DEF EntryStep, Tracks

\* Every other step leaves a position as it is, or drops it.
Drops == \A p \in Pairs : openPos'[p] = openPos[p] \/ openPos'[p] = None

LEMMA ExitDrops ==
  ASSUME TypeInv, NEW x \in Exiters, ExitStep(x)
  PROVE  Drops
<1>1. openPos \in [Pairs -> Position] /\ PairOf(x) \in Pairs
  BY PairOfType DEF TypeInv, TypeOK, OwnType
<1>2. CASE ExitDone(x) \/ ExitPartial(x)
  <2>1. openPos' = [openPos EXCEPT ![PairOf(x)] = None]
    BY <1>2 DEF ExitDone, ExitPartial, ClosePosition
  <2> QED
    BY <1>1, <2>1 DEF Drops
<1>3. CASE ~(ExitDone(x) \/ ExitPartial(x))
  <2>1. openPos' = openPos
    BY <1>3 DEF ExitStep, StartExit, ExitKalshiLeg, ExitPolyLeg, ExitSweep, ExitMissed,
       RetryPendingReversal, ownVars
  <2> QED
    BY <2>1 DEF Drops
<1> QED
  BY <1>2, <1>3

\* Of the monitor loop, only a settlement drops a position.
LEMMA StillMonitor ==
  ASSUME MonitorStep, ~\E p \in Pairs : SettlementCheck(p)
  PROVE  openPos' = openPos /\ call' = call
<1>1. ASSUME MonitorExits \/ MonitorRetries PROVE openPos' = openPos /\ call' = call
  BY <1>1 DEF MonitorExits, MonitorRetries, ownVars
<1>2. ASSUME MonitorWake \/ MonitorFetch \/ MonitorSleep
      PROVE  openPos' = openPos /\ call' = call
  BY <1>2 DEF MonitorWake, MonitorFetch, MonitorSleep, ownVars
<1> QED
  BY <1>1, <1>2 DEF MonitorStep

LEMMA StillOther ==
  ASSUME \/ \E p \in Pairs : BookUpdate(p)
         \/ RefreshRead \/ RefreshWrite
         \/ \E r \in recons : ReconcileTrade(r)
         \/ World
         \/ UNCHANGED vars
  PROVE  openPos' = openPos /\ call' = call
<1>1. World => openPos' = openPos /\ call' = call
  BY DEF World, CooldownExpires, MarketSettles, HaltForConnectionLoss,
     ResumeFromConnectionLoss, ownVars
<1> QED
  BY <1>1 DEF BookUpdate, RefreshRead, RefreshWrite, ReconcileTrade, ownVars, vars

LEMMA OtherDrops ==
  ASSUME TypeInv,
         \/ \E p \in Pairs : BookUpdate(p)
         \/ MonitorStep
         \/ RefreshRead \/ RefreshWrite
         \/ \E r \in recons : ReconcileTrade(r)
         \/ World
         \/ UNCHANGED vars
  PROVE  Drops /\ call' = call
<1>1. openPos \in [Pairs -> Position]
  BY DEF TypeInv, TypeOK, OwnType
<1>2. ASSUME NEW p \in Pairs, SettlementCheck(p) PROVE Drops /\ call' = call
  <2>1. openPos' = openPos \/ openPos' = [openPos EXCEPT ![p] = None]
    BY <1>2 DEF SettlementCheck, ClosePosition
  <2>2. call' = call
    BY <1>2 DEF SettlementCheck
  <2> QED
    BY <1>1, <2>1, <2>2 DEF Drops
<1>3. CASE ~\E p \in Pairs : SettlementCheck(p)
  <2>1. openPos' = openPos /\ call' = call
    BY <1>3, StillMonitor, StillOther
  <2> QED
    BY <2>1 DEF Drops
<1> QED
  BY <1>2, <1>3

\* Dropping positions disturbs nothing an entry counts on.
LEMMA DropsKeep ==
  ASSUME HedgeInv, Drops, openPos' \in [Pairs -> Position],
         NEW t \in Tasks, call'[t] = call[t]
  PROVE  Legs(t)'
<1>1. PairOf(t) \in Pairs /\ Legs(t)
  BY PairOfType DEF HedgeInv
<1>2. Flat(t)'
  BY <1>1 DEF Drops, Legs, Flat, Holds
<1>3. Level(t)'
  BY <1>1, NoneLevel DEF Drops, Legs, Level, EntryFired, EntryLocked
<1>4. Absorbed(t)'
  BY <1>1 DEF Legs, Absorbed
<1> QED
  BY <1>2, <1>3, <1>4 DEF Legs

LEMMA DropsHedged ==
  ASSUME HedgeInv, Drops, NEW p \in Pairs
  PROVE  Hedged(p)'
<1>1. CASE openPos'[p] = openPos[p]
  BY <1>1 DEF HedgeInv, Hedged
<1>2. CASE openPos'[p] = None
  BY <1>2, SlackType DEF Hedged, None
<1> QED
  BY <1>1, <1>2 DEF Drops

-----------------------------------------------------------------------------
(* Steps of an entry that leave the positions alone *)

\* Where such a step may lead, and what it may note of the recovery.
PcKeeps(t) ==
    \/ call'[t].pc = call[t].pc
    \/ call'[t].pc \in {"idle", "opened", "locked"}
    \/ call'[t].pc \in {"guarded", "sized", "firing"} /\ ~Holds(PairOf(t))
    \/ EntryFired(t) /\ call'[t].pc \notin {"guarded", "sized", "firing"}

NoteKeeps(t) ==
    \/ call'[t].out = call[t].out /\ call'[t].got = call[t].got
    \/ call'[t].out # "DUST_ABSORBED_POLY"
    \/ call'[t].got < Slack

LEMMA LegsKept ==
  ASSUME NEW t \in Tasks, Legs(t), openPos' = openPos, PcKeeps(t), NoteKeeps(t)
  PROVE  Legs(t)'
<1>1. Flat(t)'
  BY DEF PcKeeps, Legs, Flat, Holds
<1>2. Level(t)'
  <2>1. CASE ~Holds(PairOf(t))
    BY <2>1, NoneLevel DEF Level, Holds
  <2>2. CASE EntryFired(t)
    BY <2>2 DEF Legs, Level
  <2>3. CASE Holds(PairOf(t)) /\ ~EntryFired(t)
    BY <2>3 DEF PcKeeps, Level, EntryFired, EntryLocked
  <2> QED
    BY <2>1, <2>2, <2>3
<1>3. Absorbed(t)'
  BY DEF NoteKeeps, Legs, Absorbed
<1> QED
  BY <1>1, <1>2, <1>3 DEF Legs

\* Before the orders are out.
LEMMA BeforeOrdersKeep ==
  ASSUME TypeInv, NEW t \in Tasks, Legs(t),
         \/ ArbOpened(t) \/ TryEnter(t) \/ EntryGuards(t) \/ LeaveUnsized(t)
         \/ ReserveBalance(t) \/ RestoreBalance(t) \/ ReserveExposure(t)
  PROVE  PcKeeps(t) /\ NoteKeeps(t)
<1>0. call \in [Tasks -> CallRec]
  BY DEF TypeInv, TypeOK
<1>1. CASE ArbOpened(t)
  <2>1. call'[t] = [call[t] EXCEPT !.pc = "opened"]
    BY <1>0, <1>1 DEF ArbOpened, Goto
  <2> QED
    BY <1>0, <2>1 DEF PcKeeps, NoteKeeps, CallRec
<1>2. CASE TryEnter(t)
  <2>1. call'[t] = Idle \/ call'[t] = [call[t] EXCEPT !.pc = "locked"]
    BY <1>0, <1>2 DEF TryEnter, Goto
  <2> QED
    BY <1>0, <2>1 DEF PcKeeps, NoteKeeps, CallRec, Idle
<1>3. CASE EntryGuards(t)
  <2>1. call'[t] = [call[t] EXCEPT !.pc = "guarded"] /\ ~Holds(PairOf(t))
    BY <1>0, <1>3 DEF EntryGuards, Goto
  <2> QED
    BY <1>0, <2>1 DEF PcKeeps, NoteKeeps, CallRec
<1>4. CASE LeaveUnsized(t) \/ RestoreBalance(t)
  <2>1. call'[t] = Idle
    BY <1>0, <1>4 DEF LeaveUnsized, RestoreBalance, Leave
  <2> QED
    BY <2>1 DEF PcKeeps, NoteKeeps, Idle
<1>5. CASE ReserveBalance(t)
  <2>1. PICK n \in Sizes : call' = [call EXCEPT ![t].pc = "sized", ![t].n = n]
    BY <1>5 DEF ReserveBalance
  <2>2. call[t].pc = "guarded"
    BY <1>5 DEF ReserveBalance
  <2>3. call'[t] = [call[t] EXCEPT !.pc = "sized", !.n = n]
    BY <1>0, <2>1
  <2>4. ~Holds(PairOf(t))
    BY <2>2 DEF Legs, Flat
  <2> QED
    BY <1>0, <2>3, <2>4 DEF PcKeeps, NoteKeeps, CallRec
<1>6. CASE ReserveExposure(t)
  <2>1. call[t].pc = "sized"
    BY <1>6 DEF ReserveExposure
  <2>2. call'[t] = [call[t] EXCEPT !.pc = "firing", !.k = Waiting, !.p = Waiting,
                                   !.prior = Waiting]
    BY <1>0, <1>6 DEF ReserveExposure
  <2>3. ~Holds(PairOf(t))
    BY <2>1 DEF Legs, Flat
  <2> QED
    BY <1>0, <2>2, <2>3 DEF PcKeeps, NoteKeeps, CallRec
<1> QED
  BY <1>1, <1>2, <1>3, <1>4, <1>5, <1>6

\* While the orders are out.
LEMMA OrdersKeep ==
  ASSUME TypeInv, NEW t \in Tasks, Legs(t), KalshiLeg(t) \/ PolyLeg(t) \/ SnapshotPoly(t)
  PROVE  PcKeeps(t) /\ NoteKeeps(t)
<1>0. call \in [Tasks -> CallRec]
  BY DEF TypeInv, TypeOK
<1>1. CASE KalshiLeg(t)
  <2>1. \E r : call' = [call EXCEPT ![t].k = r]
    BY <1>1 DEF KalshiLeg
  <2> QED
    BY <1>0, <2>1 DEF PcKeeps, NoteKeeps, CallRec
<1>2. CASE PolyLeg(t)
  <2>1. \E r : call' = [call EXCEPT ![t].p = r]
    BY <1>2 DEF PolyLeg
  <2> QED
    BY <1>0, <2>1 DEF PcKeeps, NoteKeeps, CallRec
<1>3. CASE SnapshotPoly(t)
  <2>1. \E b : call' = [call EXCEPT ![t].prior = b]
    BY <1>3 DEF SnapshotPoly
  <2> QED
    BY <1>0, <2>1 DEF PcKeeps, NoteKeeps, CallRec
<1> QED
  BY <1>1, <1>2, <1>3

LEMMA GotoKeeps ==
  ASSUME TypeInv, NEW t \in Tasks, EntryFired(t), NEW pc \in EntryPcs,
         pc \notin {"guarded", "sized", "firing"}, Goto(t, pc)
  PROVE  PcKeeps(t) /\ NoteKeeps(t)
<1>0. call \in [Tasks -> CallRec]
  BY DEF TypeInv, TypeOK
<1>1. call'[t] = [call[t] EXCEPT !.pc = pc]
  BY <1>0 DEF Goto
<1> QED
  BY <1>0, <1>1 DEF PcKeeps, NoteKeeps, CallRec

LEMMA FinishKeeps ==
  ASSUME TypeInv, NEW t \in Tasks, EntryFired(t), NEW out, NEW got,
         out = "DUST_ABSORBED_POLY" => got < Slack, Finish(t, out, got)
  PROVE  PcKeeps(t) /\ NoteKeeps(t)
<1>0. call \in [Tasks -> CallRec]
  BY DEF TypeInv, TypeOK
<1>1. call'[t] = [call[t] EXCEPT !.pc = "closing", !.out = out, !.got = got]
  BY <1>0 DEF Finish
<1> QED
  BY <1>0, <1>1 DEF PcKeeps, NoteKeeps, CallRec

\* In recovery the fills are known.
LEMMA RecoveryFills ==
  ASSUME TypeInv, NEW t \in Tasks, EntryFired(t), call[t].pc # "firing"
  PROVE  PExcess(t) \in Nat /\ KExcess(t) \in Nat /\ Balanced(t) \in Nat
<1>1. call[t].k \in Nat /\ call[t].p \in Nat
  BY DEF TypeInv, TypeOK, FillsBack, CallRec, Fill
<1> QED
  BY <1>1, ExcessType

LEMMA RecoveryKeeps ==
  ASSUME TypeInv, NEW t \in Tasks, Recovery(t), ~Tracks(t)
  PROVE  PcKeeps(t) /\ NoteKeeps(t)
<1> USE DEF EntryFired, EntryLocked, EntryPcs
<1>1. CASE StartPolyHedge(t) \/ SkipPolyHedge(t) \/ SkipKalshiHedge(t)
  <2>1. EntryFired(t)
    BY <1>1 DEF StartPolyHedge, SkipPolyHedge, SkipKalshiHedge
  <2>2. PICK pc \in {"hedgingP", "reverseK", "sellP"} : Goto(t, pc)
    BY <1>1 DEF StartPolyHedge, SkipPolyHedge, SkipKalshiHedge
  <2> QED
    BY <2>1, <2>2, GotoKeeps
<1>2. CASE AbsorbKalshiDust(t)
  <2>1. EntryFired(t) /\ Finish(t, "DUST_ABSORBED_KALSHI", KExcess(t))
    BY <1>2 DEF AbsorbKalshiDust
  <2> QED
    BY <2>1, FinishKeeps
<1>3. CASE AbsorbPolyDust(t)
  <2>1. EntryFired(t) /\ call[t].pc # "firing" /\ PExcess(t) < Dust
        /\ Finish(t, "DUST_ABSORBED_POLY", PExcess(t))
    BY <1>3 DEF AbsorbPolyDust
  <2>2. PExcess(t) < Slack
    BY <2>1, RecoveryFills, SlackType, QuantityAssumption
  <2> QED
    BY <2>1, <2>2, FinishKeeps
<1>4. CASE ReverseKalshi(t) \/ ReverseRest(t) \/ SellHedgeOverfill(t) \/ SellRest(t)
           \/ SellExcessPoly(t)
  <2>1. EntryFired(t)
    BY <1>4 DEF ReverseKalshi, ReverseRest, SellHedgeOverfill, SellRest, SellExcessPoly
  <2>2. PICK out \in {"ORPHANED", "REVERSED_KALSHI", "HEDGE_COMPLETED", "REVERSED_POLY"} :
           \E got : Finish(t, out, got)
    BY <1>4 DEF ReverseKalshi, ReverseRest, SellHedgeOverfill, SellRest, SellExcessPoly
  <2> QED
    BY <2>1, <2>2, FinishKeeps
<1>5. CASE GuardOverfill(t)
  <2>1. EntryFired(t)
    BY <1>5 DEF GuardOverfill
  <2>2. Goto(t, "hedgeK") \/ \E f : Finish(t, "REVERSED_POLY", f)
    BY <1>5 DEF GuardOverfill, ReverseExcessPoly
  <2> QED
    BY <2>1, <2>2, GotoKeeps, FinishKeeps
<1>6. CASE StartKalshiHedge(t)
  <2>1. EntryFired(t) /\ call[t].pc # "firing"
    BY <1>6 DEF StartKalshiHedge
  <2>2. CASE Floor(PExcess(t)) = 0
    <3>1. Finish(t, "DUST_ABSORBED_POLY", PExcess(t))
      BY <1>6, <2>2 DEF StartKalshiHedge
    <3>2. PExcess(t) < Slack
      BY <2>1, <2>2, RecoveryFills, FloorRest, SlackType, QuantityAssumption
    <3> QED
      BY <2>1, <3>1, <3>2, FinishKeeps
  <2>3. CASE Floor(PExcess(t)) # 0
    <3>1. Goto(t, "hedgingK") \/ \E f : Finish(t, "REVERSED_POLY", f)
      BY <1>6, <2>3 DEF StartKalshiHedge, ReverseExcessPoly
    <3> QED
      BY <2>1, <3>1, GotoKeeps, FinishKeeps
  <2> QED
    BY <2>2, <2>3
<1> QED
  BY <1>1, <1>2, <1>3, <1>4, <1>5, <1>6 DEF Recovery, Tracks

LEMMA EntryLegs ==
  ASSUME HedgeInv, NEW t \in Tasks, ArbOpened(t) \/ EntryStep(t), ~Tracks(t)
  PROVE  Legs(t)' /\ openPos' = openPos
<1>1. TypeInv /\ Legs(t) /\ openPos' = openPos
  BY EntryTracks DEF HedgeInv, LockInv
<1>2. PcKeeps(t) /\ NoteKeeps(t)
  BY <1>1, BeforeOrdersKeep, OrdersKeep, RecoveryKeeps DEF EntryStep, Tracks
<1> QED
  BY <1>1, <1>2, LegsKept

-----------------------------------------------------------------------------
(* Steps of an entry that track what it bought *)

\* The tracked position of another pair stays, and this one's legs stay level.
Booked(t) ==
    /\ Legs(t)' /\ Hedged(PairOf(t))'
    /\ \A q \in Pairs : q # PairOf(t) => openPos'[q] = openPos[q]

LEMMA LevelBooked ==
  ASSUME HedgeInv, NEW t \in Tasks, NEW pos \in Position, pos.k = pos.p,
         openPos' = [openPos EXCEPT ![PairOf(t)] = pos],
         call'[t].pc \notin {"guarded", "sized", "firing"}, NoteKeeps(t)
  PROVE  Booked(t)
<1>0. PairOf(t) \in Pairs /\ openPos \in [Pairs -> Position] /\ Legs(t)
  BY PairOfType DEF HedgeInv, LockInv, TypeInv, TypeOK, OwnType
<1>1. openPos'[PairOf(t)] = pos /\ \A q \in Pairs : q # PairOf(t) => openPos'[q] = openPos[q]
  BY <1>0
<1>2. Hedged(PairOf(t))'
  BY <1>1, SlackType DEF Hedged, Position
<1>3. Flat(t)' /\ Level(t)'
  BY <1>1 DEF Flat, Level
<1>4. Absorbed(t)'
  BY <1>0 DEF NoteKeeps, Legs, Absorbed
<1> QED
  BY <1>1, <1>2, <1>3, <1>4 DEF Booked, Legs

LEMMA UntouchedBooked ==
  ASSUME HedgeInv, NEW t \in Tasks, openPos' = openPos, PcKeeps(t), NoteKeeps(t)
  PROVE  Booked(t)
<1>1. PairOf(t) \in Pairs /\ Legs(t)
  BY PairOfType DEF HedgeInv
<1>2. Hedged(PairOf(t))'
  BY <1>1 DEF HedgeInv, Hedged
<1> QED
  BY <1>1, <1>2, LegsKept DEF Booked

\* What an entry is short of or over is hedged leg for leg.
LEMMA GrowBooked ==
  ASSUME HedgeInv, NEW t \in Tasks, EntryFired(t), NEW q \in Nat, Grow(PairOf(t), q),
         call'[t].pc \notin {"guarded", "sized", "firing"}, NoteKeeps(t)
  PROVE  Booked(t)
<1>0. PairOf(t) \in Pairs /\ openPos \in [Pairs -> Position] /\ Legs(t)
  BY PairOfType DEF HedgeInv, LockInv, TypeInv, TypeOK, OwnType
<1> DEFINE pos == [k |-> openPos[PairOf(t)].k + q, p |-> openPos[PairOf(t)].p + q]
<1>1. openPos' = [openPos EXCEPT ![PairOf(t)] = pos]
  BY <1>0 DEF Grow
<1>2. pos \in Position /\ pos.k = pos.p
  BY <1>0 DEF Legs, Level, Position
<1> HIDE DEF pos
<1> QED
  BY <1>1, <1>2, LevelBooked

LEMMA LegsDoneBooked ==
  ASSUME HedgeInv, NEW t \in Tasks, LegsDone(t)
  PROVE  Booked(t) /\ EntryFired(t)
<1>0. call \in [Tasks -> CallRec] /\ Legs(t)
  BY DEF HedgeInv, LockInv, TypeInv, TypeOK
<1>1. call[t].pc = "firing" /\ call[t].k # Waiting /\ call[t].p # Waiting
  BY DEF LegsDone
<1>2. Balanced(t) \in Nat
  BY <1>0, <1>1, ExcessType DEF CallRec, Fill
<1>3. PICK pc \in {"excessK", "excessP", "closing"} : call'[t] = [call[t] EXCEPT !.pc = pc]
  BY <1>0 DEF LegsDone
<1>4. call'[t].pc \notin {"guarded", "sized", "firing"} /\ NoteKeeps(t)
  BY <1>0, <1>3 DEF NoteKeeps, CallRec
<1>5. EntryFired(t)
  BY <1>1 DEF EntryFired, EntryLocked
<1>6. CASE Balanced(t) > 0
  <2> DEFINE pos == [k |-> Balanced(t), p |-> Balanced(t)]
  <2>1. openPos' = [openPos EXCEPT ![PairOf(t)] = pos]
    BY <1>6 DEF LegsDone
  <2>2. pos \in Position /\ pos.k = pos.p
    BY <1>2 DEF Position
  <2> HIDE DEF pos
  <2> QED
    BY <1>4, <1>5, <2>1, <2>2, LevelBooked
<1>7. CASE ~(Balanced(t) > 0)
  <2>1. openPos' = openPos
    BY <1>7 DEF LegsDone
  <2> QED
    BY <1>4, <1>5, <2>1, UntouchedBooked DEF PcKeeps
<1> QED
  BY <1>6, <1>7

LEMMA PolyHedgeBooked ==
  ASSUME HedgeInv, NEW t \in Tasks, PolyHedge(t)
  PROVE  Booked(t) /\ EntryFired(t)
<1>0. call \in [Tasks -> CallRec] /\ TypeInv /\ VenueType /\ PairOf(t) \in Pairs
  BY PairOfType DEF HedgeInv, LockInv, TypeInv, TypeOK
<1>a. PolyHedge(t)
  OBVIOUS
<1>1. call[t].pc = "hedgingP" /\ EntryFired(t)
  BY DEF PolyHedge, EntryFired, EntryLocked
<1>2. KExcess(t) \in Nat
  BY <1>0, <1>1, RecoveryFills
<1> DEFINE need == KExcess(t)
           added(r) == Lesser(need, r)
           past(r) == IF need - added(r) > 0 /\ need - added(r) >= Dust
                      THEN "reverseRest"
                      ELSE IF r - added(r) > 0 /\ r - added(r) >= Dust
                           THEN "sellOverfill" ELSE "closing"
           left(r) == IF need - added(r) > 0 THEN need - added(r) ELSE r - added(r)
<1>3. PICK f \in PolyBuys(PairOf(t), KExcess(t)) : \E r \in Reported(f) :
         /\ BuyPoly(PairOf(t), f)
         /\ IF r = 0
            THEN Goto(t, "reverseK") /\ UNCHANGED <<openPos, exposure>>
            ELSE /\ Grow(PairOf(t), added(r))
                 /\ exposure' = exposure + added(r)
                 /\ call' = [call EXCEPT ![t].pc = past(r), ![t].rest = left(r),
                               ![t].out = "HEDGE_COMPLETED", ![t].got = added(r)]
  BY ONLY <1>a DEF PolyHedge
<1>4. PICK r \in Reported(f) :
         /\ BuyPoly(PairOf(t), f)
         /\ IF r = 0
            THEN Goto(t, "reverseK") /\ UNCHANGED <<openPos, exposure>>
            ELSE /\ Grow(PairOf(t), added(r))
                 /\ exposure' = exposure + added(r)
                 /\ call' = [call EXCEPT ![t].pc = past(r), ![t].rest = left(r),
                               ![t].out = "HEDGE_COMPLETED", ![t].got = added(r)]
  BY ONLY <1>3
<1>5. r \in Nat
  BY <1>0, <1>2, BuysType DEF Reported
<1>6. CASE r = 0
  <2>1. Goto(t, "reverseK") /\ openPos' = openPos
    BY <1>4, <1>6
  <2>2. "reverseK" \in EntryPcs
    BY DEF EntryPcs
  <2>3. PcKeeps(t) /\ NoteKeeps(t)
    BY <1>0, <1>1, <2>1, <2>2, GotoKeeps
  <2> QED
    BY <1>1, <2>1, <2>3, UntouchedBooked
<1>7. CASE r # 0
  <2>1. past(r) \in {"reverseRest", "sellOverfill", "closing"}
    OBVIOUS
  <2> HIDE DEF added, past, left
  <2>2. Grow(PairOf(t), added(r))
    BY <1>4, <1>7
  <2>3. call'[t] = [call[t] EXCEPT !.pc = past(r), !.rest = left(r),
                                   !.out = "HEDGE_COMPLETED", !.got = added(r)]
    BY <1>0, <1>4, <1>7
  <2>4. call'[t].pc = past(r) /\ call'[t].out = "HEDGE_COMPLETED"
    BY <1>0, <2>3 DEF CallRec
  <2>5. NoteKeeps(t)
    BY <2>4 DEF NoteKeeps
  <2>6. added(r) \in Nat
    BY <1>2, <1>5, LesserType DEF added
  <2> QED
    BY <1>1, <1>5, <2>6, <2>1, <2>2, <2>4, <2>5, GrowBooked
<1> QED
  BY <1>6, <1>7

LEMMA KalshiHedgeBooked ==
  ASSUME HedgeInv, NEW t \in Tasks, KalshiHedge(t)
  PROVE  Booked(t) /\ EntryFired(t)
<1>0. call \in [Tasks -> CallRec] /\ TypeInv /\ VenueType /\ PairOf(t) \in Pairs
  BY PairOfType DEF HedgeInv, LockInv, TypeInv, TypeOK
<1>a. KalshiHedge(t)
  OBVIOUS
<1>1. call[t].pc = "hedgingK" /\ EntryFired(t)
  BY DEF KalshiHedge, EntryFired, EntryLocked
<1>2. Floor(PExcess(t)) \in Nat
  BY <1>0, <1>1, RecoveryFills, FloorType
<1> DEFINE past(r) == IF PExcess(t) - r >= Contract /\ PExcess(t) - r >= Dust
                      THEN "sellRest" ELSE "closing"
<1>3. PICK f \in KalshiBuys(PairOf(t), Floor(PExcess(t))) : \E r \in Reported(f) :
         /\ BuyKalshi(PairOf(t), f)
         /\ IF r = 0
            THEN Goto(t, "sellP") /\ UNCHANGED <<openPos, exposure>>
            ELSE /\ Grow(PairOf(t), r)
                 /\ exposure' = exposure + r
                 /\ call' = [call EXCEPT ![t].pc = past(r), ![t].rest = PExcess(t) - r,
                               ![t].out = "HEDGE_COMPLETED", ![t].got = r]
  BY ONLY <1>a DEF KalshiHedge
<1>4. PICK r \in Reported(f) :
         /\ BuyKalshi(PairOf(t), f)
         /\ IF r = 0
            THEN Goto(t, "sellP") /\ UNCHANGED <<openPos, exposure>>
            ELSE /\ Grow(PairOf(t), r)
                 /\ exposure' = exposure + r
                 /\ call' = [call EXCEPT ![t].pc = past(r), ![t].rest = PExcess(t) - r,
                               ![t].out = "HEDGE_COMPLETED", ![t].got = r]
  BY ONLY <1>3
<1>5. r \in Nat
  BY <1>0, <1>2, BuysType DEF Reported
<1>6. CASE r = 0
  <2>1. Goto(t, "sellP") /\ openPos' = openPos
    BY <1>4, <1>6
  <2>2. "sellP" \in EntryPcs
    BY DEF EntryPcs
  <2>3. PcKeeps(t) /\ NoteKeeps(t)
    BY <1>0, <1>1, <2>1, <2>2, GotoKeeps
  <2> QED
    BY <1>1, <2>1, <2>3, UntouchedBooked
<1>7. CASE r # 0
  <2>1. past(r) \in {"sellRest", "closing"}
    OBVIOUS
  <2> HIDE DEF past
  <2>2. Grow(PairOf(t), r)
    BY <1>4, <1>7
  <2>3. call'[t] = [call[t] EXCEPT !.pc = past(r), !.rest = PExcess(t) - r,
                                   !.out = "HEDGE_COMPLETED", !.got = r]
    BY <1>0, <1>4, <1>7
  <2>4. call'[t].pc = past(r) /\ call'[t].out = "HEDGE_COMPLETED"
    BY <1>0, <2>3 DEF CallRec
  <2>5. NoteKeeps(t)
    BY <2>4 DEF NoteKeeps
  <2> QED
    BY <1>1, <1>5, <2>1, <2>2, <2>4, <2>5, GrowBooked
<1> QED
  BY <1>6, <1>7

\* At the end absorbed dust is folded in, and the task is gone.
LEMMA CompleteBooked ==
  ASSUME HedgeInv, NEW t \in Tasks, Complete(t)
  PROVE  Booked(t) /\ EntryFired(t)
<1>0. /\ call \in [Tasks -> CallRec] /\ openPos \in [Pairs -> Position]
      /\ PairOf(t) \in Pairs /\ Legs(t)
  BY PairOfType DEF HedgeInv, LockInv, TypeInv, TypeOK, OwnType
<1>1. EntryFired(t)
  BY DEF Complete, EntryFired, EntryLocked
<1>2. openPos' = [openPos EXCEPT ![PairOf(t)] = FinalPos(t)] /\ call'[t] = Idle
  BY <1>0 DEF Complete, Leave
<1>3. openPos[PairOf(t)] \in Position /\ openPos[PairOf(t)].k = openPos[PairOf(t)].p
  BY <1>0, <1>1 DEF Legs, Level
<1>4. /\ FinalPos(t).k \in Nat /\ FinalPos(t).p \in Nat
      /\ FinalPos(t).k <= FinalPos(t).p /\ FinalPos(t).p - FinalPos(t).k < Slack
  <2>1. CASE FinalPos(t) = openPos[PairOf(t)]
    BY <1>3, <2>1, SlackType DEF Position
  <2>2. CASE FinalPos(t) # openPos[PairOf(t)]
    <3>1. call[t].out = "DUST_ABSORBED_POLY" /\ call[t].got \in Nat /\ call[t].got < Slack
      BY <1>0, <2>2 DEF FinalPos, Legs, Absorbed, CallRec
    <3>2. FinalPos(t) = [openPos[PairOf(t)] EXCEPT !.p = @ + call[t].got]
      BY <2>2 DEF FinalPos
    <3> QED
      BY <1>3, <3>1, <3>2, SlackType DEF Position
  <2> QED
    BY <2>1, <2>2
<1>5. Hedged(PairOf(t))'
  BY <1>0, <1>2, <1>4 DEF Hedged
<1>6. Legs(t)'
  BY <1>2 DEF Legs, Flat, Level, Absorbed, EntryFired, EntryLocked, Idle
<1> QED
  BY <1>0, <1>1, <1>2, <1>5, <1>6 DEF Booked

LEMMA TracksBooked ==
  ASSUME HedgeInv, NEW t \in Tasks, Tracks(t)
  PROVE  Booked(t) /\ EntryFired(t)
BY LegsDoneBooked, PolyHedgeBooked, KalshiHedgeBooked, CompleteBooked DEF Tracks

-----------------------------------------------------------------------------
(* Every step *)

\* An entry on the same pair waits outside while this one owns it.
LEMMA OutsideKeeps ==
  ASSUME HedgeInv, NEW t \in Tasks, EntryFired(t), Booked(t),
         NEW u \in Tasks, u # t, call'[u] = call[u]
  PROVE  Legs(u)'
<1>0. PairOf(u) \in Pairs /\ PairOf(t) \in Pairs /\ OneOwner /\ Legs(u)
  BY PairOfType DEF HedgeInv, LockInv
<1>1. CASE PairOf(u) = PairOf(t)
  <2>1. t \in Owners(PairOf(t))
    BY DEF Owners, Lockers, EntryFired
  <2>2. u \notin Owners(PairOf(t))
    BY <1>0, <2>1 DEF OneOwner
  <2>3. ~EntryLocked(u)
    BY <1>1, <2>2 DEF Owners, Lockers
  <2>4. Flat(u)' /\ Level(u)'
    BY <2>3 DEF Flat, Level, EntryFired, EntryLocked
  <2>5. Absorbed(u)'
    BY <1>0 DEF Legs, Absorbed
  <2> QED
    BY <2>4, <2>5 DEF Legs
<1>2. CASE PairOf(u) # PairOf(t)
  <2>1. openPos'[PairOf(u)] = openPos[PairOf(u)]
    BY <1>0, <1>2 DEF Booked
  <2> QED
    BY <1>0, <2>1 DEF Legs, Flat, Level, Absorbed, EntryFired, EntryLocked, Holds
<1> QED
  BY <1>1, <1>2

LEMMA EntryHedge ==
  ASSUME HedgeInv, NEW t \in Tasks, ArbOpened(t) \/ EntryStep(t)
  PROVE  (\A u \in Tasks : Legs(u)') /\ (\A p \in Pairs : Hedged(p)')
<1>0. TypeInv /\ \A u \in Tasks : Legs(u)
  BY DEF HedgeInv, LockInv
<1>1. \A u \in Tasks : u # t => call'[u] = call[u]
  BY <1>0, EntryAlone
<1>2. CASE Tracks(t)
  <2>1. Booked(t) /\ EntryFired(t)
    BY <1>2, TracksBooked
  <2>2. \A u \in Tasks : Legs(u)'
    <3>1. TAKE u \in Tasks
    <3>2. CASE u = t
      BY <2>1, <3>2 DEF Booked
    <3>3. CASE u # t
      BY <1>1, <2>1, <3>3, OutsideKeeps
    <3> QED
      BY <3>2, <3>3
  <2>3. \A p \in Pairs : Hedged(p)'
    <3>1. TAKE p \in Pairs
    <3>2. CASE p = PairOf(t)
      BY <2>1, <3>2 DEF Booked
    <3>3. CASE p # PairOf(t)
      BY <2>1, <3>3 DEF Booked, HedgeInv, Hedged
    <3> QED
      BY <3>2, <3>3
  <2> QED
    BY <2>2, <2>3
<1>3. CASE ~Tracks(t)
  <2>1. Legs(t)' /\ openPos' = openPos
    BY <1>3, EntryLegs
  <2>2. \A u \in Tasks : u # t => Legs(u)'
    BY <1>0, <1>1, <2>1 DEF Legs, Flat, Level, Absorbed, EntryFired, EntryLocked, Holds
  <2>3. \A p \in Pairs : Hedged(p)'
    BY <2>1 DEF HedgeInv, Hedged
  <2> QED
    BY <2>1, <2>2, <2>3
<1> QED
  BY <1>2, <1>3

LEMMA OthersHedge ==
  ASSUME HedgeInv, openPos' \in [Pairs -> Position],
         \/ \E x \in Exiters : ExitStep(x)
         \/ \E p \in Pairs : BookUpdate(p)
         \/ MonitorStep
         \/ RefreshRead \/ RefreshWrite
         \/ \E r \in recons : ReconcileTrade(r)
         \/ World
         \/ UNCHANGED vars
  PROVE  (\A u \in Tasks : Legs(u)') /\ (\A p \in Pairs : Hedged(p)')
<1>1. TypeInv
  BY DEF HedgeInv, LockInv
<1>2. Drops /\ call' = call
  BY <1>1, ExitDrops, ExitAlone, OtherDrops
<1> QED
  BY <1>2, DropsKeep, DropsHedged

\* What is restored has equal legs.
LEMMA RestartHedge ==
  ASSUME HedgeInv, openPos' \in [Pairs -> Position], Restart
  PROVE  (\A u \in Tasks : Legs(u)') /\ (\A p \in Pairs : Hedged(p)')
<1>1. call' = [t \in Tasks |-> Idle]
  BY DEF Restart
<1>2. \A u \in Tasks : Legs(u)'
  BY <1>1 DEF Legs, Flat, Level, Absorbed, EntryFired, EntryLocked, Idle
<1>3. \A p \in Pairs : openPos'[p] = Restored(p) \/ openPos'[p] = None
  BY DEF Restart
<1>4. \A p \in Pairs : openPos'[p].k = openPos'[p].p
  BY <1>3, NoneLevel DEF Restored
<1>5. \A p \in Pairs : Hedged(p)'
  BY <1>4, SlackType DEF Hedged, Position
<1> QED
  BY <1>2, <1>5

LEMMA InitHedgeInv == ASSUME Init PROVE HedgeInv
<1>1. \A t \in Tasks : Legs(t)
  BY DEF Init, Legs, Flat, Level, Absorbed, EntryFired, EntryLocked, Idle
<1>2. \A p \in Pairs : Hedged(p)
  BY SlackType DEF Init, Hedged, None
<1> QED
  BY <1>1, <1>2, InitLockInv DEF HedgeInv

LEMMA NextHedgeInv ==
  ASSUME HedgeInv, [Next]_vars
  PROVE  HedgeInv'
<1>1. LockInv'
  BY NextLockInv DEF HedgeInv
<1>2. openPos' \in [Pairs -> Position]
  BY <1>1 DEF LockInv, TypeInv, TypeOK, OwnType
<1>3. (\A t \in Tasks : Legs(t)') /\ (\A p \in Pairs : Hedged(p)')
  BY <1>2, EntryHedge, OthersHedge, RestartHedge DEF Next
<1> QED
  BY <1>1, <1>3 DEF HedgeInv

LEMMA HedgeInvariant == Spec => []HedgeInv
BY InitHedgeInv, NextHedgeInv, PTL DEF Spec

\* Whatever recovery, exits, settlements and restarts did, a tracked position is
\* hedged: never more Kalshi than Poly, and less than a contract (or dust) of Poly
\* too many (RecoverUnhedgedAsync 965-1192).
THEOREM PositionsHedged == Spec => []TrackedHedged
<1>1. HedgeInv => TrackedHedged
  BY DEF HedgeInv, Hedged, TrackedHedged
<1> QED
  BY <1>1, HedgeInvariant, PTL

\* An entry past the single-entry guard never finds a tracked position on its pair
\* until its own legs are back, however many callbacks, exits and restarts run
\* beside it (line 578).
THEOREM EntriesFromFlat == Spec => []EntryFromFlat
<1>1. HedgeInv => EntryFromFlat
  BY DEF HedgeInv, Legs, Flat, EntryFromFlat
<1> QED
  BY <1>1, HedgeInvariant, PTL

\* What a restart restores is held on both venues, whatever the journal, the
\* misread pairs and the interrupted tasks (2512-2703).
LEMMA RestartCovered ==
  ASSUME TypeInv, Restart
  PROVE  \A p \in Pairs : Covered(p)'
<1>1. VenueType /\ UNCHANGED <<kVenue, pVenue>>
  BY DEF TypeInv, TypeOK, Restart, venueVars
<1>2. \A p \in Pairs : openPos'[p] = Restored(p) \/ openPos'[p] = None
  BY DEF Restart
<1>3. \A p \in Pairs : kVenue[p] \in Nat /\ pVenue[p] \in Nat
  BY <1>1 DEF VenueType
<1>4. \A p \in Pairs : Restored(p).k <= kVenue[p] /\ Restored(p).p <= pVenue[p]
  BY <1>3, LesserType DEF Restored
<1>5. \A p \in Pairs : None.k <= kVenue[p] /\ None.p <= pVenue[p]
  BY <1>3 DEF None
<1> QED
  BY <1>1, <1>2, <1>4, <1>5 DEF Covered

THEOREM RestoresCovered == Spec => RestoreCovered
<1>1. HedgeInv /\ [Next]_vars => [Restart => \A p \in Pairs : Covered(p)']_vars
  BY RestartCovered DEF HedgeInv, LockInv
<1> QED
  BY <1>1, HedgeInvariant, PTL DEF Spec, RestoreCovered

-----------------------------------------------------------------------------
(* The executor as an ArbPair: restarts *)

\* A step that uses up no crash.

SameStarts == budget'.crashes = budget.crashes

\* Only a restart uses up a crash.
LEMMA EntryStarts ==
  ASSUME TypeInv, NEW t \in Tasks, ArbOpened(t) \/ EntryStep(t)
  PROVE  SameStarts
<1> USE DEF SameStarts, restVars
<1>0. BudgetType
  BY DEF TypeInv, TypeOK
<1>1. CASE ArbOpened(t)
  BY <1>0, <1>1 DEF ArbOpened, BudgetType
<1>2. CASE \/ TryEnter(t) \/ EntryGuards(t) \/ LeaveUnsized(t)
           \/ ReserveBalance(t) \/ RestoreBalance(t) \/ ReserveExposure(t)
  BY <1>2 DEF TryEnter, EntryGuards, LeaveUnsized, ReserveBalance, RestoreBalance,
     ReserveExposure
<1>3. CASE KalshiLeg(t) \/ PolyLeg(t) \/ SnapshotPoly(t)
  BY <1>3 DEF KalshiLeg, PolyLeg, SnapshotPoly
<1>4. CASE LegsDone(t) \/ Complete(t)
  BY <1>4 DEF LegsDone, Complete
<1>5. CASE AbsorbKalshiDust(t) \/ StartPolyHedge(t) \/ SkipPolyHedge(t)
           \/ AbsorbPolyDust(t) \/ SkipKalshiHedge(t)
  BY <1>5 DEF AbsorbKalshiDust, StartPolyHedge, SkipPolyHedge, AbsorbPolyDust, SkipKalshiHedge
<1>6. CASE ReverseKalshi(t) \/ ReverseRest(t) \/ SellHedgeOverfill(t) \/ GuardOverfill(t)
  BY <1>6 DEF ReverseKalshi, ReverseRest, SellHedgeOverfill, GuardOverfill
<1>7. CASE StartKalshiHedge(t) \/ SellRest(t) \/ SellExcessPoly(t)
  BY <1>7 DEF StartKalshiHedge, SellRest, SellExcessPoly
<1>8. CASE PolyHedge(t)
  BY <1>8 DEF PolyHedge
<1>9. CASE KalshiHedge(t)
  BY <1>9 DEF KalshiHedge
<1> QED
  BY <1>1, <1>2, <1>3, <1>4, <1>5, <1>6, <1>7, <1>8, <1>9 DEF EntryStep, Recovery

LEMMA ExitStarts ==
  ASSUME NEW x \in Exiters, ExitStep(x)
  PROVE  SameStarts
BY DEF SameStarts, ExitStep, StartExit, ExitKalshiLeg, ExitPolyLeg, ExitSweep, ExitDone,
   ExitMissed, ExitPartial, RetryPendingReversal

LEMMA OtherStarts ==
  ASSUME TypeInv,
         \/ \E p \in Pairs : BookUpdate(p)
         \/ MonitorStep
         \/ RefreshRead \/ RefreshWrite
         \/ \E r \in recons : ReconcileTrade(r)
         \/ World
         \/ UNCHANGED vars
  PROVE  SameStarts
<1> USE DEF SameStarts
<1>0. BudgetType
  BY DEF TypeInv, TypeOK
<1>1. ASSUME NEW p \in Pairs, BookUpdate(p) PROVE SameStarts
  BY <1>0, <1>1 DEF BookUpdate, BudgetType
<1>2. CASE MonitorWake
  BY <1>0, <1>2 DEF MonitorWake, BudgetType
<1>3. CASE MonitorFetch
  <2>1. \E b : budget' = [budget EXCEPT !.misreads = b]
    BY <1>3 DEF MonitorFetch
  <2> QED
    BY <1>0, <2>1 DEF BudgetType
<1>4. CASE MonitorExits \/ MonitorRetries \/ MonitorSleep
  BY <1>4 DEF MonitorExits, MonitorRetries, MonitorSleep
<1>5. ASSUME NEW p \in Pairs, SettlementCheck(p) PROVE SameStarts
  BY <1>5 DEF SettlementCheck
<1>6. CASE RefreshRead \/ RefreshWrite
  BY <1>0, <1>6 DEF RefreshRead, RefreshWrite, BudgetType
<1>7. ASSUME NEW r \in recons, ReconcileTrade(r) PROVE SameStarts
  BY <1>7 DEF ReconcileTrade
<1>8. CASE World
  BY <1>0, <1>8 DEF World, CooldownExpires, MarketSettles, HaltForConnectionLoss,
     ResumeFromConnectionLoss, BudgetType
<1>9. CASE UNCHANGED vars
  BY <1>9 DEF vars
<1> QED
  BY <1>1, <1>2, <1>3, <1>4, <1>5, <1>6, <1>7, <1>8, <1>9 DEF MonitorStep

-----------------------------------------------------------------------------
(* How the steps of a pair map *)

\* A step as ArbPair sees it.
ViewStep == [PairView!Next]_(PairView!vars)

\* The same pairs hold positions.
Alike == \A p \in Pairs : Holds(p)' = Holds(p)

LEMMA SameOwners ==
  ASSUME Lockers' = Lockers, NEW p \in Pairs
  PROVE  Owners(p)' = Owners(p)
BY DEF Owners

LEMMA Stutters ==
  ASSUME Stays, Alike, SameStarts
  PROVE  ViewStep
<1>1. [p \in Pairs |-> Owners(p)]' = [p \in Pairs |-> Owners(p)]
  BY SameOwners DEF Stays
<1>2. [p \in Pairs |-> Holds(p)]' = [p \in Pairs |-> Holds(p)]
  BY DEF Alike
<1> QED
  BY <1>1, <1>2 DEF SameStarts, ViewStep, PairView!vars

LEMMA Acquires ==
  ASSUME OneOwner, NEW a \in Tasks \cup Exiters, Takes(a), a \in Exiters => Holds(PairOf(a)),
         Alike, SameStarts
  PROVE  ViewStep
<1>0. PairOf(a) \in Pairs
  BY PairOfType
<1>1. Owners(PairOf(a)) = {}
  BY <1>0 DEF OneOwner, Takes
<1>2. \A p \in Pairs : Owners(p)' = IF p = PairOf(a) THEN {a} ELSE Owners(p)
  BY <1>1 DEF Owners, Takes
<1>3. [p \in Pairs |-> Owners(p)]' = [[p \in Pairs |-> Owners(p)] EXCEPT ![PairOf(a)] = {a}]
  BY <1>0, <1>2
<1>4. [p \in Pairs |-> Holds(p)]' = [p \in Pairs |-> Holds(p)]
  BY DEF Alike
<1>5. PairView!Acquire(PairOf(a), a)
  BY <1>0, <1>1, <1>3, <1>4 DEF PairView!Acquire, SameStarts
<1> QED
  BY <1>0, <1>5 DEF ViewStep, PairView!Next

LEMMA FreedOwners ==
  ASSUME OneOwner, NEW a \in Tasks \cup Exiters, Frees(a)
  PROVE  [p \in Pairs |-> Owners(p)]' = [[p \in Pairs |-> Owners(p)] EXCEPT ![PairOf(a)] = {}]
<1>0. PairOf(a) \in Pairs
  BY PairOfType
<1>1. \A b \in Lockers : PairOf(b) = PairOf(a) => b = a
  BY <1>0 DEF OneOwner, Owners, Frees
<1>2. \A p \in Pairs : Owners(p)' = IF p = PairOf(a) THEN {} ELSE Owners(p)
  BY <1>1 DEF Owners, Frees
<1> QED
  BY <1>0, <1>2

LEMMA FreesPair ==
  ASSUME OneOwner, NEW a \in Tasks \cup Exiters, Frees(a), Alike, SameStarts
  PROVE  ViewStep
<1>0. PairOf(a) \in Pairs
  BY PairOfType
<1>1. [p \in Pairs |-> Holds(p)]' = [p \in Pairs |-> Holds(p)]
  BY DEF Alike
<1>2. PairView!Free(PairOf(a))
  BY <1>0, <1>1, FreedOwners DEF PairView!Free, SameStarts
<1> QED
  BY <1>0, <1>2 DEF ViewStep, PairView!Next

\* The position of one pair is opened, or closed.
Turns(q, open) ==
    /\ Holds(q)' = open
    /\ \A p \in Pairs : p # q => Holds(p)' = Holds(p)

LEMMA TurnsView ==
  ASSUME NEW q \in Pairs, NEW open \in BOOLEAN, Turns(q, open)
  PROVE  [p \in Pairs |-> Holds(p)]' = [[p \in Pairs |-> Holds(p)] EXCEPT ![q] = open]
BY DEF Turns

LEMMA OneOfOwners ==
  ASSUME OneOwner, NEW a \in Lockers
  PROVE  PairOf(a) \in Pairs /\ Owners(PairOf(a)) = {a}
<1>1. PairOf(a) \in Pairs
  BY LockersTasks
<1>2. a \in Owners(PairOf(a))
  BY DEF Owners
<1> QED
  BY <1>1, <1>2 DEF OneOwner

LEMMA Opens ==
  ASSUME OneOwner, NEW t \in Tasks, t \in Lockers, Stays, Turns(PairOf(t), TRUE), SameStarts
  PROVE  ViewStep
<1>0. PairOf(t) \in Pairs /\ Owners(PairOf(t)) = {t}
  BY OneOfOwners
<1>1. [p \in Pairs |-> Owners(p)]' = [p \in Pairs |-> Owners(p)]
  BY SameOwners DEF Stays
<1>2. [p \in Pairs |-> Holds(p)]' = [[p \in Pairs |-> Holds(p)] EXCEPT ![PairOf(t)] = TRUE]
  BY <1>0, TurnsView
<1>3. PairView!Open(PairOf(t), t)
  BY <1>0, <1>1, <1>2 DEF PairView!Open, SameStarts
<1> QED
  BY <1>0, <1>3 DEF ViewStep, PairView!Next

LEMMA Closes ==
  ASSUME OneOwner, NEW x \in Exiters, x \in Lockers, Stays \/ Frees(x),
         Turns(PairOf(x), FALSE), SameStarts
  PROVE  ViewStep
<1>0. PairOf(x) \in Pairs /\ Owners(PairOf(x)) = {x}
  BY OneOfOwners
<1> DEFINE own == [p \in Pairs |-> Owners(p)]
<1>1. own' \in {own, [own EXCEPT ![PairOf(x)] = {}]}
  <2>1. Stays => own' = own
    BY SameOwners DEF Stays
  <2>2. Frees(x) => own' = [own EXCEPT ![PairOf(x)] = {}]
    BY FreedOwners
  <2> QED
    BY <2>1, <2>2
<1>2. [p \in Pairs |-> Holds(p)]' = [[p \in Pairs |-> Holds(p)] EXCEPT ![PairOf(x)] = FALSE]
  BY <1>0, TurnsView
<1>3. PairView!Close(PairOf(x), x)
  BY <1>0, <1>1, <1>2 DEF PairView!Close, SameStarts
<1> QED
  BY <1>0, <1>3 DEF ViewStep, PairView!Next

LEMMA Settles ==
  ASSUME NEW q \in Pairs, Stays, Turns(q, FALSE), SameStarts
  PROVE  ViewStep
<1>1. [p \in Pairs |-> Owners(p)]' = [p \in Pairs |-> Owners(p)]
  BY SameOwners DEF Stays
<1>2. [p \in Pairs |-> Holds(p)]' = [[p \in Pairs |-> Holds(p)] EXCEPT ![q] = FALSE]
  BY TurnsView
<1>3. PairView!Settle(q)
  BY <1>1, <1>2 DEF PairView!Settle, SameStarts
<1> QED
  BY <1>3 DEF ViewStep, PairView!Next

-----------------------------------------------------------------------------
(* The executor's steps *)

LEMMA SamePositions == ASSUME openPos' = openPos PROVE Alike
BY DEF Alike, Holds

\* An entry never takes a position away from the pair.
LEMMA EntryGrows ==
  ASSUME HedgeInv, NEW t \in Tasks, Tracks(t)
  PROVE  /\ Holds(PairOf(t)) => Holds(PairOf(t))'
         /\ Complete(t) => Holds(PairOf(t))' = Holds(PairOf(t))
<1>0. /\ openPos \in [Pairs -> Position] /\ PairOf(t) \in Pairs /\ Legs(t)
      /\ call \in [Tasks -> CallRec] /\ TypeInv /\ VenueType
  BY PairOfType DEF HedgeInv, LockInv, TypeInv, TypeOK, OwnType
<1>1. CASE LegsDone(t)
  <2>1. ~Holds(PairOf(t)) /\ ~Complete(t)
    BY <1>0, <1>1 DEF Legs, Flat, LegsDone, Complete
  <2> QED
    BY <2>1
<1>2. ASSUME NEW q \in Nat, Grow(PairOf(t), q) PROVE Holds(PairOf(t)) => Holds(PairOf(t))'
  <2>1. openPos'[PairOf(t)] = [k |-> openPos[PairOf(t)].k + q, p |-> openPos[PairOf(t)].p + q]
    BY <1>0, <1>2 DEF Grow
  <2>2. openPos[PairOf(t)] \in Position
    BY <1>0
  <2> QED
    BY <2>1, <2>2 DEF Holds, None, Position
<1>3. CASE PolyHedge(t)
  <2>1. ~Complete(t) /\ call[t].pc = "hedgingP" /\ EntryFired(t)
    BY <1>3 DEF PolyHedge, Complete, EntryFired, EntryLocked
  <2>2. KExcess(t) \in Nat
    BY <1>0, <2>1, RecoveryFills
  <2>3. openPos' = openPos \/ \E r \in Nat : Grow(PairOf(t), Lesser(KExcess(t), r))
    <3>1. PICK f \in PolyBuys(PairOf(t), KExcess(t)) : \E r \in Reported(f) :
             openPos' = openPos \/ Grow(PairOf(t), Lesser(KExcess(t), r))
      BY <1>3 DEF PolyHedge
    <3>2. f \in Nat
      BY <1>0, <2>2, BuysType
    <3> QED
      BY <3>1, <3>2 DEF Reported
  <2>4. \A r \in Nat : Lesser(KExcess(t), r) \in Nat
    BY <2>2, LesserType
  <2> QED
    BY <1>2, <2>1, <2>3, <2>4 DEF Holds
<1>4. CASE KalshiHedge(t)
  <2>1. ~Complete(t) /\ call[t].pc = "hedgingK" /\ EntryFired(t)
    BY <1>4 DEF KalshiHedge, Complete, EntryFired, EntryLocked
  <2>2. Floor(PExcess(t)) \in Nat
    BY <1>0, <2>1, RecoveryFills, FloorType
  <2>3. openPos' = openPos \/ \E r \in Nat : Grow(PairOf(t), r)
    <3>1. PICK f \in KalshiBuys(PairOf(t), Floor(PExcess(t))) : \E r \in Reported(f) :
             openPos' = openPos \/ Grow(PairOf(t), r)
      BY <1>4 DEF KalshiHedge
    <3>2. f \in Nat
      BY <1>0, <2>2, BuysType
    <3> QED
      BY <3>1, <3>2 DEF Reported
  <2> QED
    BY <1>2, <2>1, <2>3 DEF Holds
<1>5. CASE Complete(t)
  <2>1. openPos'[PairOf(t)] = FinalPos(t) /\ openPos[PairOf(t)] \in Position
    BY <1>0, <1>5 DEF Complete
  <2>2. FinalPos(t) # None <=> openPos[PairOf(t)] # None
    <3>1. CASE FinalPos(t) = openPos[PairOf(t)]
      BY <3>1
    <3>2. CASE FinalPos(t) # openPos[PairOf(t)]
      <4>1. call[t].got \in Nat /\ openPos[PairOf(t)] # None
        BY <1>0, <3>2 DEF FinalPos, CallRec
      <4>2. FinalPos(t) = [openPos[PairOf(t)] EXCEPT !.p = @ + call[t].got]
        BY <3>2 DEF FinalPos
      <4>3. FinalPos(t).k = openPos[PairOf(t)].k
            /\ FinalPos(t).p = openPos[PairOf(t)].p + call[t].got
        BY <2>1, <4>2 DEF Position
      <4>4. openPos[PairOf(t)].k # 0 \/ openPos[PairOf(t)].p # 0
        BY <2>1, <4>1 DEF Position, None
      <4>5. FinalPos(t).k # 0 \/ FinalPos(t).p # 0
        BY <2>1, <4>1, <4>3, <4>4 DEF Position
      <4> QED
        BY <4>1, <4>5 DEF None
    <3> QED
      BY <3>1, <3>2
  <2> QED
    BY <2>1, <2>2 DEF Holds
<1> QED
  BY <1>1, <1>3, <1>4, <1>5 DEF Tracks

LEMMA EntryView ==
  ASSUME HedgeInv, NEW t \in Tasks, ArbOpened(t) \/ EntryStep(t)
  PROVE  ViewStep
<1>0. TypeInv /\ OneOwner /\ SameStarts /\ PairOf(t) \in Pairs /\ t \in Tasks \cup Exiters
  BY EntryStarts, PairOfType DEF HedgeInv, LockInv
<1>1. CASE Tracks(t)
  <2>1. Booked(t) /\ EntryFired(t)
    BY <1>1, TracksBooked
  <2>2. t \in Lockers
    BY <2>1 DEF Lockers, EntryFired
  <2>3. \A p \in Pairs : p # PairOf(t) => Holds(p)' = Holds(p)
    BY <2>1 DEF Booked, Holds
  <2>4. CASE Complete(t)
    <3>1. Alike
      BY <1>1, <2>3, <2>4, EntryGrows DEF Alike
    <3>2. Stays \/ Frees(t)
      <4>1. ~TryEnter(t)
        BY <2>4 DEF Complete, TryEnter
      <4> QED
        BY <1>0, <4>1, EntryMoves
    <3> QED
      BY <1>0, <3>1, <3>2, Stutters, FreesPair
  <2>5. CASE ~Complete(t)
    <3>1. Stays
      <4>1. ~TryEnter(t) /\ ~LeaveUnsized(t) /\ ~RestoreBalance(t)
        BY <1>1, <2>5 DEF Tracks, LegsDone, PolyHedge, KalshiHedge, TryEnter, LeaveUnsized,
           RestoreBalance
      <4> QED
        BY <1>0, <2>5, <4>1, EntryMoves
    <3>2. CASE Holds(PairOf(t))'
      <4>1. Turns(PairOf(t), TRUE)
        BY <2>3, <3>2 DEF Turns
      <4> QED
        BY <1>0, <2>2, <3>1, <4>1, Opens
    <3>3. CASE ~Holds(PairOf(t))'
      <4>1. Holds(PairOf(t))' = Holds(PairOf(t))
        BY <1>1, <3>3, EntryGrows DEF Holds
      <4>2. Alike
        BY <2>3, <4>1 DEF Alike
      <4> QED
        BY <1>0, <3>1, <4>2, Stutters
    <3> QED
      BY <3>2, <3>3
  <2> QED
    BY <2>4, <2>5
<1>2. CASE ~Tracks(t)
  <2>1. Alike
    BY <1>2, EntryTracks, SamePositions
  <2>2. t \notin Exiters
    BY DisjointTasks
  <2>3. Stays \/ Takes(t) \/ Frees(t)
    BY <1>0, EntryMoves
  <2> QED
    BY <1>0, <2>1, <2>2, <2>3, Stutters, Acquires, FreesPair
<1> QED
  BY <1>1, <1>2

LEMMA ExitView ==
  ASSUME HedgeInv, NEW x \in Exiters, ExitStep(x)
  PROVE  ViewStep
<1>0. /\ TypeInv /\ OneOwner /\ SameStarts /\ PairOf(x) \in Pairs /\ x \in Tasks \cup Exiters
      /\ openPos \in [Pairs -> Position]
  BY ExitStarts, PairOfType DEF HedgeInv, LockInv, TypeInv, TypeOK, OwnType
<1>1. CASE ExitDone(x) \/ ExitPartial(x)
  <2>1. openPos' = [openPos EXCEPT ![PairOf(x)] = None]
    BY <1>1 DEF ExitDone, ExitPartial, ClosePosition
  <2>2. Turns(PairOf(x), FALSE)
    BY <1>0, <2>1 DEF Turns, Holds
  <2>3. x \in Lockers
    BY <1>1 DEF ExitDone, ExitPartial, Lockers, ExitLocked
  <2>4. Stays \/ Frees(x)
    <3>1. ~StartExit(x)
      BY <1>1 DEF StartExit, ExitDone, ExitPartial
    <3> QED
      BY <1>0, <3>1, ExitMoves
  <2> QED
    BY <1>0, <2>2, <2>3, <2>4, Closes
<1>2. CASE ~(ExitDone(x) \/ ExitPartial(x))
  <2>1. openPos' = openPos
    BY <1>2 DEF ExitStep, StartExit, ExitKalshiLeg, ExitPolyLeg, ExitSweep, ExitMissed,
       RetryPendingReversal, ownVars
  <2>2. Alike
    BY <2>1, SamePositions
  <2>3. Stays \/ (Holds(PairOf(x)) /\ Takes(x)) \/ Frees(x)
    BY <1>0, ExitMoves
  <2> QED
    BY <1>0, <2>2, <2>3, Stutters, Acquires, FreesPair
<1> QED
  BY <1>1, <1>2

LEMMA MonitorView ==
  ASSUME HedgeInv, MonitorStep
  PROVE  ViewStep
<1>0. TypeInv /\ SameStarts /\ Stays /\ openPos \in [Pairs -> Position]
  BY OtherStarts, MonitorLockInv DEF HedgeInv, LockInv, TypeInv, TypeOK, OwnType
<1>1. ASSUME NEW p \in Pairs, SettlementCheck(p) PROVE ViewStep
  <2>1. openPos' = openPos \/ openPos' = [openPos EXCEPT ![p] = None]
    BY <1>1 DEF SettlementCheck, ClosePosition
  <2>2. Alike \/ Turns(p, FALSE)
    BY <1>0, <2>1, SamePositions DEF Turns, Holds
  <2> QED
    BY <1>0, <2>2, Stutters, Settles
<1>2. CASE ~\E p \in Pairs : SettlementCheck(p)
  <2>1. openPos' = openPos
    BY <1>2, StillMonitor
  <2> QED
    BY <1>0, <2>1, SamePositions, Stutters
<1> QED
  BY <1>1, <1>2

LEMMA OtherView ==
  ASSUME HedgeInv,
         \/ \E p \in Pairs : BookUpdate(p)
         \/ RefreshRead \/ RefreshWrite
         \/ \E r \in recons : ReconcileTrade(r)
         \/ World
         \/ UNCHANGED vars
  PROVE  ViewStep
<1>1. SameStarts /\ Stays
  BY OtherStarts, OtherLockInv DEF HedgeInv, LockInv
<1>2. openPos' = openPos
  BY StillOther
<1> QED
  BY <1>1, <1>2, SamePositions, Stutters

LEMMA RestartView ==
  ASSUME HedgeInv, Restart
  PROVE  ViewStep
<1>0. budget.crashes \in Nat /\ MaxCrashes \in Nat /\ BudgetType
  BY BoundAssumption DEF HedgeInv, LockInv, TypeInv, TypeOK, BudgetType
<1>1. Lockers' = {}
  BY DEF Restart, Lockers, EntryLocked, ExitLocked, Idle, IdleExit
<1>2. [p \in Pairs |-> Owners(p)]' = [p \in Pairs |-> {}]
  BY <1>1 DEF Owners
<1>3. [p \in Pairs |-> Holds(p)]' \in [Pairs -> BOOLEAN]
  BY DEF Holds
<1>4. (MaxCrashes - budget.crashes)' = (MaxCrashes - budget.crashes) + 1
  BY <1>0 DEF Restart, BudgetType
<1>5. PairView!Start
  BY <1>2, <1>3, <1>4 DEF PairView!Start
<1> QED
  BY <1>5 DEF ViewStep, PairView!Next

LEMMA NextView ==
  ASSUME HedgeInv, [Next]_vars
  PROVE  ViewStep
BY EntryView, ExitView, MonitorView, OtherView, RestartView DEF Next

LEMMA InitView == ASSUME Init PROVE PairView!Init
<1>1. Lockers = {}
  BY DEF Init, Lockers, EntryLocked, ExitLocked, Idle, IdleExit
<1>2. [p \in Pairs |-> Owners(p)] = [p \in Pairs |-> {}]
  BY <1>1 DEF Owners
<1>3. [p \in Pairs |-> Holds(p)] = [p \in Pairs |-> FALSE]
  BY DEF Init, Holds
<1>4. MaxCrashes - budget.crashes = 0
  BY BoundAssumption DEF Init
<1> QED
  BY <1>2, <1>3, <1>4 DEF PairView!Init

\* Whatever entries, exits, settlements and restarts interleave, every pair is owned
\* by one task at a time, opened only by an entry that owns it and closed only by an
\* exit that took it while open (524-1319, 3184-3364).
THEOREM ExecutorImplementsPair == Spec => PairProtocol
<1>1. HedgeInv /\ [Next]_vars => [PairView!Next]_(PairView!vars)
  BY NextView DEF ViewStep
<1> QED
  BY <1>1, InitView, HedgeInvariant, PTL DEF Spec, PairProtocol, PairView!Spec
=============================================================================
