----------------------------- MODULE PolymarketProofs -----------------------------
(***************************************************************************)
(* What is proved of the live broker (accounting and locks, for any        *)
(* assets, orders, sizes and bounds) and of the two files the arbitrage    *)
(* bots take their pairs from: the one between Kalshi and Polymarket (for  *)
(* any markets, verdicts, batches and budgets) and the one between Kalshi  *)
(* and a hard venue (for any markets, listings, names, prices and lines).  *)
(***************************************************************************)
EXTENDS LiveHost, Pairing, SequenceTheorems, FiniteSetTheorems, WellFoundedInduction, TLAPS

(* An order is accounted for once: until its task knows a fill nothing is  *)
(* booked and nothing is a ghost; a task that knows one is no ghost, and a *)
(* ghost has booked nothing.                                               *)

Unknown == {"unused", "queued", "posting", "waiting", "polling"}

Untold(o) ==
    orders[o].pc \in Unknown =>
        orders[o].got.qty = 0 /\ books[o] = 0 /\ (\A a \in Assets : ghost[a] # o)
TaskTold(o) ==
    orders[o].pc = "settling" /\ orders[o].got.qty > 0 =>
        books[o] = 0 /\ (\A a \in Assets : ghost[a] # o)
GhostOwed(o) ==
    \A a \in Assets : ghost[a] = o => books[o] = 0 /\ AssetOf(o) = a

AccountInv == AccountedOnce /\ \A o \in Orders : Untold(o) /\ TaskTold(o) /\ GhostOwed(o)
LiveInv == TypeOK /\ AccountInv /\ LockHasHolder

-----------------------------------------------------------------------------
(* Types *)

LEMMA ChainType ==
  ASSUME TypeOK
  PROVE  /\ \A a \in Assets : \A q \in ChainShares(a) : q \in Nat
         /\ \A v \in ChainCash : v \in Int
<1>1. \A o \in Orders : orders[o].filled > 0 => orders[o].filled \in Nat
  BY DEF TypeOK, OrderType, OrderRec, Unmatched
<1>2. \A s \in {"BUY", "SELL"} : \A o \in Unmined(s) : o \in Orders /\ orders[o].filled \in Nat
  BY <1>1 DEF Unmined
<1>3. funds \in Nat /\ \A a \in Assets : avail[a] \in Nat
  BY DEF TypeOK, WalletType
<1>4. ASSUME NEW a \in Assets, NEW q \in ChainShares(a) PROVE q \in Nat
  <2>1. CASE q = avail[a]
    BY <1>3, <2>1
  <2>2. CASE \E o \in Unmined("SELL") : q = avail[a] + orders[o].filled
    BY <1>2, <1>3, <2>2
  <2> QED
    BY <1>4, <2>1, <2>2 DEF ChainShares
<1>5. ASSUME NEW v \in ChainCash PROVE v \in Int
  <2>1. CASE v = funds
    BY <1>3, <2>1
  <2>2. CASE \E o \in Unmined("BUY") : v = funds + orders[o].filled
    BY <1>2, <1>3, <2>2
  <2>3. CASE \E o \in Unmined("SELL") : v = funds - orders[o].filled
    BY <1>2, <1>3, <2>3
  <2> QED
    BY <1>5, <2>1, <2>2, <2>3 DEF ChainCash
<1> QED
  BY <1>4, <1>5

LEMMA BookType ==
  ASSUME MoneyType, LedgerType, NEW by \in Orders,
         NEW of \in Orders \cup {NoOrder}, NEW side,
         NEW a \in Assets, NEW q \in Nat, Book(by, of, side, a, q)
  PROVE  MoneyType' /\ LedgerType'
<1>1. pos[a] \in Nat /\ cash \in Int
  BY DEF MoneyType
<1>2. pos[a] - Smaller(pos[a], q) \in Nat
  BY <1>1 DEF Smaller
<1>3. LedgerType'
  <2>1. books' \in [Orders -> Nat]
    BY DEF LedgerType, Book
  <2>2. counted' = [counted EXCEPT ![of] = @ + 1] /\ counted \in [Orders -> Nat]
    BY DEF LedgerType, Book
  <2>3. counted' \in [Orders -> Nat]
    <3>1. CASE of \in Orders
      BY <2>2, <3>1
    <3>2. CASE of \notin Orders
      BY <2>2, <3>2
    <3> QED
      BY <3>1, <3>2
  <2> QED
    BY <2>1, <2>3 DEF LedgerType
<1>4. MoneyType'
  <2>1. CASE side = "BUY"
    BY <1>1, <2>1 DEF MoneyType, Book
  <2>2. CASE side # "BUY"
    BY <1>1, <1>2, <2>2 DEF MoneyType, Book
  <2> QED
    BY <2>1, <2>2
<1> QED
  BY <1>3, <1>4

\* Changing the fields of one order within their types.
LEMMA OrderUpdate ==
  ASSUME OrderType, NEW o \in Orders, NEW r \in OrderRec,
         orders' = [orders EXCEPT ![o] = r]
  PROVE  OrderType'
  BY DEF OrderType

LEMMA InitInv == ASSUME Init PROVE LiveInv
<1>1. OrderType
  <2>1. \A a \in Assets :
           [pc |-> "unused", asset |-> a, side |-> "BUY", size |-> 0,
            filled |-> Unmatched, mined |-> FALSE, ws |-> Unseen, got |-> Unseen]
           \in OrderRec
    BY DEF OrderRec, Pcs, Seen, Unseen
  <2> QED
    BY <2>1 DEF Init, OrderType
<1>2. OwnType /\ MoneyType /\ LedgerType /\ WalletType /\ StreamType /\ HostType
  BY LiveAssumption DEF Init, OwnType, MoneyType, LedgerType, WalletType, StreamType,
     HostType, SyncRec, NoSync
<1>3. \A o \in Orders : orders[o].pc = "unused" /\ orders[o].got.qty = 0 /\ books[o] = 0
  BY DEF Init, Unseen
<1>4. \A o \in Orders, a \in Assets : ghost[a] # o
  BY LiveAssumption DEF Init
<1>5. AccountInv
  BY <1>3, <1>4 DEF AccountInv, AccountedOnce, Untold, TaskTold, GhostOwed
<1>6. LockHasHolder
  BY DEF Init, LockHasHolder
<1> QED
  BY <1>1, <1>2, <1>5, <1>6 DEF LiveInv, TypeOK

-----------------------------------------------------------------------------
(* Types are kept                                                          *)

\* A task step that changes its own order and the locks only.
LEMMA OrderPartTypes ==
  ASSUME TypeOK, OrderType', UNCHANGED <<moneyVars, intent, ledgerVars, walletVars,
         streamVars, hostVars>>,
         pending' \subseteq Assets, cooling' \subseteq Assets,
         signal' \in [Assets -> Orders \cup {NoOrder}],
         ghost' \in [Assets -> Orders \cup {NoOrder}]
  PROVE  TypeOK'
  BY DEF TypeOK, OwnType, MoneyType, LedgerType, WalletType, StreamType, HostType,
     moneyVars, ledgerVars, walletVars, streamVars, hostVars

LEMMA GotoType ==
  ASSUME OrderType, NEW o \in Orders, NEW pc \in Pcs, Goto(o, pc)
  PROVE  OrderType'
  BY DEF OrderType, OrderRec, Goto

\* What each field of an order holds.
LEMMA OrderFields ==
  ASSUME OrderType, NEW o \in Orders
  PROVE  /\ orders[o].pc \in Pcs /\ orders[o].asset \in Assets
         /\ orders[o].filled \in Nat \cup {Unmatched}
         /\ (orders[o].filled > 0 => orders[o].filled \in Nat)
         /\ orders[o].ws \in Seen /\ orders[o].got \in Seen
         /\ orders[o].got.qty \in Nat
         /\ orders[o].got.of \in Orders \cup {NoOrder}
  BY DEF OrderType, OrderRec, Seen, Unmatched

\* A task that learns a fill, or what the chain holds.
LEMMA GotType ==
  ASSUME OrderType, NEW o \in Orders, NEW pc \in Pcs, NEW g \in Seen,
         orders' = [orders EXCEPT ![o].got = g, ![o].pc = pc]
  PROVE  OrderType'
<1>1. orders' = [orders EXCEPT ![o] = [orders[o] EXCEPT !.got = g, !.pc = pc]]
  OBVIOUS
<1>2. orders[o] \in OrderRec
  BY DEF OrderType
<1>3. [orders[o] EXCEPT !.got = g, !.pc = pc] \in OrderRec
  BY <1>2 DEF OrderRec
<1> QED
  BY <1>1, <1>3 DEF OrderType

LEMMA TaskTypes ==
  ASSUME TypeOK, NEW o \in Orders, OrderStep(o)
  PROVE  TypeOK'
<1> USE DEF TypeOK
<1> DEFINE a == AssetOf(o)
<1>1. a \in Assets /\ OrderType /\ OwnType
  BY OrderFields DEF AssetOf
<1>2. \A pc \in {"posting", "waiting", "polling", "settling", "syncing", "correcting",
                 "finally", "done"} : pc \in Pcs
  BY DEF Pcs
<1>3. ASSUME \E pc \in Pcs : Goto(o, pc) PROVE OrderType'
  BY <1>1, <1>3, GotoType
<1>4. ClearSignal(a) => signal' \in [Assets -> Orders \cup {NoOrder}]
  BY <1>1 DEF ClearSignal, OwnType
<1>5. CASE Post(o)
  BY <1>1, <1>2, <1>3, <1>5, OrderPartTypes DEF Post, OwnType
<1>6. CASE TakeSignal(o)
  <2>1. OrderType'
    BY <1>1, <1>2, <1>6, OrderFields, GotType DEF TakeSignal
  <2> QED
    BY <1>1, <1>6, <2>1, OrderPartTypes DEF TakeSignal, OwnType, ownVars, moneyVars
<1>7. ASSUME orders[o].filled > 0 PROVE [of |-> o, qty |-> orders[o].filled] \in Seen
  BY <1>1, <1>7, OrderFields DEF Seen
<1>8. CASE FromResponse(o)
  <2>1. OrderType'
    BY <1>1, <1>2, <1>7, <1>8, GotType DEF FromResponse
  <2> QED
    BY <1>1, <1>4, <1>8, <2>1, OrderPartTypes DEF FromResponse, OwnType
<1>9. CASE AwaitSignal(o)
  BY <1>1, <1>2, <1>3, <1>9, OrderPartTypes DEF AwaitSignal, OwnType, ownVars
<1>10. CASE Timeout(o)
  BY <1>1, <1>2, <1>3, <1>4, <1>10, OrderPartTypes DEF Timeout, OwnType
<1>11. CASE PollMatched(o)
  <2>1. OrderType'
    BY <1>1, <1>2, <1>3, <1>7, <1>11, GotType DEF PollMatched
  <2> QED
    BY <1>1, <1>11, <2>1, OrderPartTypes DEF PollMatched, OwnType, ownVars
<1>12. CASE PollUnknown(o)
  BY <1>1, <1>2, <1>3, <1>12, OrderPartTypes DEF PollUnknown, OwnType
<1>13. CASE Settle(o)
  <2>1. OrderType'
    BY <1>2, <1>3, <1>13 DEF Settle
  <2>2. MoneyType' /\ LedgerType'
    <3>1. CASE orders[o].got.qty > 0
      BY <1>1, <1>13, <3>1, OrderFields, BookType DEF Settle
    <3>2. CASE ~(orders[o].got.qty > 0)
      BY <1>13, <3>2 DEF Settle, BookNothing, moneyVars, ledgerVars, MoneyType, LedgerType
    <3> QED
      BY <3>1, <3>2
  <2>3. cooling' \subseteq Assets
    BY <1>1, <1>13 DEF Settle, OwnType
  <2>4. OwnType'
    BY <1>1, <1>4, <1>13, <2>3 DEF Settle, OwnType
  <2> QED
    BY <1>13, <2>1, <2>2, <2>4 DEF Settle, WalletType, StreamType, HostType, walletVars,
       streamVars, hostVars
<1>14. CASE Fail(o)
  <2>1. OrderType'
    BY <1>2, <1>3, <1>14 DEF Fail
  <2>2. cooling' \subseteq Assets
    BY <1>1, <1>14 DEF Fail, OwnType
  <2> QED
    BY <1>1, <1>4, <1>14, <2>1, <2>2, OrderPartTypes DEF Fail, OwnType
<1>15. CASE Unanswered(o)
  BY <1>1, <1>2, <1>3, <1>15, OrderPartTypes DEF Unanswered, OwnType, ownVars
<1>16. CASE EmergencyRead(o)
  <2>1. OrderType'
    <3>1. CASE Goto(o, "finally")
      BY <1>2, <1>3, <3>1
    <3>2. ASSUME NEW q \in ChainShares(a),
                 orders' = [orders EXCEPT ![o].pc = "correcting", ![o].got.qty = q]
          PROVE  OrderType'
      <4> DEFINE g == [orders[o].got EXCEPT !.qty = q]
      <4>1. q \in Nat
        BY <1>1, ChainType
      <4>2. g \in Seen
        BY <1>1, <4>1, OrderFields DEF Seen
      <4>3. orders' = [orders EXCEPT ![o].got = g, ![o].pc = "correcting"]
        BY <1>1, <3>2 DEF OrderType, OrderRec
      <4> HIDE DEF g
      <4> QED
        BY <1>1, <1>2, <4>2, <4>3, GotType
    <3> QED
      BY <1>16, <3>1, <3>2 DEF EmergencyRead
  <2> QED
    BY <1>1, <1>16, <2>1, OrderPartTypes DEF EmergencyRead, OwnType, ownVars
<1>17. CASE EmergencyWrite(o)
  <2>1. OrderType'
    BY <1>2, <1>3, <1>17 DEF EmergencyWrite
  <2>2. MoneyType'
    BY <1>1, <1>17, OrderFields DEF EmergencyWrite, MoneyType
  <2> QED
    BY <1>17, <2>1, <2>2 DEF EmergencyWrite, OwnType, LedgerType, WalletType, StreamType,
       HostType, ownVars, ledgerVars, walletVars, streamVars, hostVars
<1>18. CASE Finally(o)
  <2>1. pending' \subseteq Assets
    BY <1>1, <1>18 DEF Finally, OwnType
  <2> QED
    BY <1>1, <1>2, <1>3, <1>18, <2>1, OrderPartTypes DEF Finally, OwnType
<1> QED
  BY <1>5, <1>6, <1>8, <1>9, <1>10, <1>11, <1>12, <1>13, <1>14, <1>15, <1>16, <1>17, <1>18
     DEF OrderStep

LEMMA QueueTypes ==
  ASSUME TypeOK, NEW o \in Orders, NEW side \in {"BUY", "SELL"}, NEW n \in Nat,
         Queue(o, side, n), intent' \in [Assets -> Nat]
  PROVE  TypeOK'
<1> DEFINE r == [orders[o] EXCEPT !.pc = "queued", !.side = side, !.size = n]
<1>1. OrderType' /\ AssetOf(o) \in Assets
  <2>1. OrderType /\ AssetOf(o) \in Assets
    BY OrderFields DEF TypeOK, AssetOf
  <2>2. r \in OrderRec
    BY <2>1 DEF OrderType, OrderRec, Pcs
  <2>3. orders' = [orders EXCEPT ![o] = r]
    BY <2>1 DEF Queue, OrderType, OrderRec
  <2> HIDE DEF r
  <2> QED
    BY <2>1, <2>2, <2>3, OrderUpdate
<1>2. OwnType'
  BY <1>1 DEF TypeOK, OwnType, Queue
<1> QED
  BY <1>1, <1>2 DEF TypeOK, Queue, MoneyType, LedgerType, WalletType, StreamType, HostType,
     moneyVars, ledgerVars, walletVars, streamVars, hostVars

LEMMA SubmitTypes ==
  ASSUME TypeOK, NEW o \in Orders, SubmitBuy(o) \/ SubmitSell(o)
  PROVE  TypeOK'
<1>1. OwnType /\ AssetOf(o) \in Assets
  BY OrderFields DEF TypeOK, AssetOf
<1>2. CASE SubmitBuy(o)
  BY <1>1, <1>2, QueueTypes, LiveAssumption DEF SubmitBuy, OwnType
<1>3. CASE SubmitSell(o)
  BY <1>1, <1>3, QueueTypes DEF SubmitSell, OwnType
<1> QED
  BY <1>2, <1>3

LEMMA AssetTypes ==
  ASSUME TypeOK, NEW a \in Assets, ReadShares(a) \/ DropSell(a) \/ CoolingOver(a)
  PROVE  TypeOK'
<1>1. OwnType /\ MoneyType
  BY DEF TypeOK
<1>2. OwnType'
  <2>1. CASE ReadShares(a)
    BY <1>1, <2>1 DEF ReadShares, OwnType, MoneyType, ownVars
  <2>2. CASE DropSell(a)
    BY <1>1, <2>2 DEF DropSell, OwnType, ownVars
  <2>3. CASE CoolingOver(a)
    BY <1>1, <2>3 DEF CoolingOver, OwnType
  <2> QED
    BY <2>1, <2>2, <2>3
<1>3. UNCHANGED <<moneyVars, orders, ledgerVars, walletVars, streamVars, hostVars>>
  BY DEF ReadShares, DropSell, CoolingOver
<1> QED
  BY <1>2, <1>3 DEF TypeOK, MoneyType, OrderType, LedgerType, WalletType, StreamType,
     HostType, moneyVars, ledgerVars, walletVars, streamVars, hostVars

LEMMA ExchangeTypes ==
  ASSUME TypeOK, NEW o \in Orders, ExchangeMatch(o) \/ Mine(o)
  PROVE  TypeOK'
<1>1. WalletType /\ AssetOf(o) \in Assets /\ orders[o].size \in Nat
  BY DEF TypeOK, OrderType, OrderRec, AssetOf
<1>2. CASE ExchangeMatch(o)
  <2>1. Smaller(orders[o].size, funds) \in Nat /\ Smaller(orders[o].size, funds) <= funds
    BY <1>1 DEF Smaller, WalletType
  <2>2. /\ Smaller(orders[o].size, avail[AssetOf(o)]) \in Nat
        /\ Smaller(orders[o].size, avail[AssetOf(o)]) <= avail[AssetOf(o)]
    BY <1>1 DEF Smaller, WalletType
  <2> DEFINE most == Smaller(orders[o].size,
                       IF orders[o].side = "BUY" THEN funds ELSE avail[AssetOf(o)])
  <2>3. PICK q \in 0..most, copies \in Copies :
           /\ orders' = [orders EXCEPT ![o].filled = q]
           /\ notes' = [notes EXCEPT ![o] = IF q = 0 THEN 0 ELSE copies]
           /\ IF orders[o].side = "BUY"
              THEN funds' = funds - q /\ UNCHANGED avail
              ELSE funds' = funds + q
                   /\ avail' = [avail EXCEPT ![AssetOf(o)] = @ - q]
    BY <1>2 DEF ExchangeMatch
  <2>4. q \in Nat
    BY <2>1, <2>2, <2>3
  <2>5. OrderType'
    BY <2>3, <2>4 DEF TypeOK, OrderType, OrderRec
  <2>6. WalletType'
    <3>1. CASE orders[o].side = "BUY"
      <4>1. q <= funds
        <5>1. most = Smaller(orders[o].size, funds)
          BY <3>1
        <5> HIDE DEF most
        <5> QED
          BY <1>1, <2>1, <2>4, <5>1 DEF WalletType
      <4>2. funds' = funds - q /\ avail' = avail
        BY <2>3, <3>1
      <4> QED
        BY <1>1, <2>4, <4>1, <4>2 DEF WalletType
    <3>2. CASE orders[o].side # "BUY"
      <4>1. q <= avail[AssetOf(o)]
        <5>1. most = Smaller(orders[o].size, avail[AssetOf(o)])
          BY <3>2
        <5> HIDE DEF most
        <5> QED
          BY <1>1, <2>2, <2>4, <5>1 DEF WalletType
      <4>2. /\ funds' = funds + q
            /\ avail' = [avail EXCEPT ![AssetOf(o)] = @ - q]
        BY <2>3, <3>2
      <4> QED
        BY <1>1, <2>4, <4>1, <4>2 DEF WalletType
    <3> QED
      BY <3>1, <3>2
  <2>7. StreamType'
    BY <1>2, <2>3, LiveAssumption DEF TypeOK, StreamType, ExchangeMatch
  <2> QED
    BY <1>2, <2>5, <2>6, <2>7 DEF TypeOK, ExchangeMatch, OwnType, MoneyType, LedgerType,
       HostType, ownVars, moneyVars, ledgerVars, hostVars
<1>3. CASE Mine(o)
  <2>1. orders[o].filled \in Nat
    BY <1>3, OrderFields DEF Mine, TypeOK
  <2>2. OrderType'
    BY <1>3, ZenonT(40) DEF Mine, TypeOK, OrderType, OrderRec
  <2>3. WalletType'
    BY <1>1, <1>3, <2>1 DEF Mine, WalletType
  <2> QED
    BY <1>3, <2>2, <2>3 DEF TypeOK, Mine, OwnType, MoneyType, LedgerType, StreamType,
       HostType, ownVars, moneyVars, ledgerVars, streamVars, hostVars
<1> QED
  BY <1>2, <1>3

\* Booking a ghost keeps what it touches within its type.
LEMMA ReconcileTypes ==
  ASSUME TypeOK, NEW o \in Orders, NEW q \in Nat, Matches(o), Reconcile(o, q)
  PROVE  /\ MoneyType' /\ LedgerType' /\ saved' \in [Assets -> Nat]
         /\ pending' \subseteq Assets
         /\ ghost' \in [Assets -> Orders \cup {NoOrder}]
<1>1. AssetOf(o) \in Assets
  BY OrderFields DEF TypeOK, AssetOf
<1>2. ghost[AssetOf(o)] \in Orders
  BY <1>1 DEF Matches, TypeOK, OwnType
<1>3. MoneyType' /\ LedgerType'
  BY <1>1, <1>2, BookType DEF Reconcile, TypeOK
<1>4. saved' = pos'
  BY DEF Reconcile
<1> QED
  BY <1>1, <1>3, <1>4 DEF Reconcile, TypeOK, OwnType, MoneyType

LEMMA StreamTypes ==
  ASSUME TypeOK, NEW o \in Orders, Deliver(o) \/ RetryReconcile(o) \/ LoseNote(o)
  PROVE  TypeOK'
<1>1. AssetOf(o) \in Assets /\ OwnType /\ StreamType /\ HostType
  BY OrderFields DEF TypeOK, AssetOf
<1>2. \A q \in 1..orders[o].filled : q \in Nat
  BY OrderFields DEF TypeOK, Unmatched
<1>3. CASE Deliver(o)
  <2> DEFINE a == AssetOf(o)
             w == signal[a]
  <2>1. PICK q \in 1..orders[o].filled :
          /\ orders' = IF w = NoOrder THEN orders
                       ELSE [orders EXCEPT ![w].ws = [of |-> o, qty |-> q]]
          /\ IF Matches(o)
             THEN Reconcile(o, q) /\ UNCHANGED retries
             ELSE /\ retries' = [retries EXCEPT ![o] = @ + 1]
                  /\ BookNothing /\ UNCHANGED <<ghost, pending, saved>>
    BY <1>3 DEF Deliver
  <2>2. [of |-> o, qty |-> q] \in Seen /\ w \in Orders \cup {NoOrder}
    BY <1>1, <1>2, <2>1 DEF Seen, OwnType
  <2>3. OrderType'
    BY <2>1, <2>2 DEF TypeOK, OrderType, OrderRec
  <2>4. notes' = [notes EXCEPT ![o] = @ - 1] /\ notes[o] > 0
    BY <1>3 DEF Deliver
  <2>5. StreamType'
    BY <1>1, <2>1, <2>4 DEF StreamType
  <2>6. /\ MoneyType' /\ LedgerType' /\ saved' \in [Assets -> Nat]
        /\ pending' \subseteq Assets
        /\ ghost' \in [Assets -> Orders \cup {NoOrder}]
    <3>1. CASE Matches(o)
      BY <1>2, <2>1, <3>1, ReconcileTypes
    <3>2. CASE ~Matches(o)
      BY <2>1, <3>2 DEF TypeOK, OwnType, HostType, MoneyType, LedgerType, BookNothing,
         moneyVars, ledgerVars
    <3> QED
      BY <3>1, <3>2
  <2>7. OwnType'
    BY <1>1, <1>3, <2>6 DEF Deliver, OwnType
  <2>8. HostType' /\ WalletType'
    BY <1>1, <1>3, <2>6 DEF Deliver, TypeOK, HostType, WalletType, walletVars
  <2> QED
    BY <2>3, <2>5, <2>6, <2>7, <2>8 DEF TypeOK
<1>4. CASE RetryReconcile(o)
  <2>1. /\ MoneyType' /\ LedgerType' /\ saved' \in [Assets -> Nat]
        /\ pending' \subseteq Assets
        /\ ghost' \in [Assets -> Orders \cup {NoOrder}]
    <3>1. CASE Matches(o)
      BY <1>2, <1>4, <3>1, ReconcileTypes DEF RetryReconcile
    <3>2. CASE ~Matches(o)
      BY <1>4, <3>2 DEF RetryReconcile, TypeOK, OwnType, HostType, MoneyType, LedgerType,
         BookNothing, moneyVars, ledgerVars
    <3> QED
      BY <3>1, <3>2
  <2>2. StreamType'
    BY <1>1, <1>4 DEF RetryReconcile, StreamType
  <2>3. OwnType' /\ HostType'
    BY <1>1, <1>4, <2>1 DEF RetryReconcile, OwnType, HostType
  <2>4. OrderType' /\ WalletType'
    BY <1>4 DEF RetryReconcile, TypeOK, OrderType, WalletType, walletVars
  <2> QED
    BY <2>1, <2>2, <2>3, <2>4 DEF TypeOK
<1>5. CASE LoseNote(o)
  <2>1. StreamType'
    BY <1>1, <1>5 DEF LoseNote, StreamType
  <2> QED
    BY <1>5, <2>1 DEF LoseNote, TypeOK, OwnType, MoneyType, OrderType, LedgerType,
       WalletType, HostType, ownVars, moneyVars, ledgerVars, walletVars, hostVars
<1> QED
  BY <1>3, <1>4, <1>5

\* Steps that leave orders, ledger, wallet and stream alone.
LEMMA SweeperTypes ==
  ASSUME TypeOK, UNCHANGED <<orders, ledgerVars, walletVars, streamVars>>,
         OwnType', MoneyType', HostType'
  PROVE  TypeOK'
  BY DEF TypeOK, OrderType, LedgerType, WalletType, StreamType, ledgerVars, walletVars,
     streamVars

\* The scan of the positions starts, or goes on.
LEMMA ScanType ==
  ASSUME NEW T \in SUBSET Assets
  PROVE  Scan(T) \in SyncRec /\ Scan(T).pc = "scan"
<1>1. 0 \in Int /\ {} \in SUBSET Assets
  OBVIOUS
<1> QED
  BY <1>1, Zenon DEF Scan, SyncRec

LEMMA SyncTypes ==
  ASSUME TypeOK,
         \/ Sweep \/ SyncReadCash \/ SyncWriteCash \/ SyncWrite \/ SyncDone
         \/ \E a \in Assets : PurgeStaleGhost(a) \/ SyncRead(a)
  PROVE  TypeOK'
<1>1. OwnType /\ MoneyType /\ HostType
  BY DEF TypeOK
<1>2. UNCHANGED ownVars /\ UNCHANGED intent => OwnType'
  BY <1>1 DEF OwnType, ownVars
<1>3. UNCHANGED moneyVars => MoneyType'
  BY <1>1 DEF MoneyType, moneyVars
<1>4. CASE Sweep
  <2>1. HostType'
    BY <1>1, <1>4 DEF Sweep, HostType, MoneyType, SyncRec, NoSync
  <2> QED
    BY <1>2, <1>3, <1>4, <2>1, SweeperTypes DEF Sweep
<1>5. CASE SyncReadCash
  <2>1. HostType'
    <3>1. ASSUME NEW v \in ChainCash, sync' = [sync EXCEPT !.pc = "cashRead", !.val = v]
          PROVE  HostType'
      <4>1. v \in Int
        BY ChainType
      <4> QED
        BY <1>1, <1>5, <3>1, <4>1 DEF SyncReadCash, HostType, SyncRec
    <3>2. CASE sync' = NoSync
      BY <1>1, <1>5, <3>2 DEF SyncReadCash, HostType, SyncRec, NoSync
    <3> QED
      BY <1>5, <3>1, <3>2 DEF SyncReadCash
  <2> QED
    BY <1>2, <1>3, <1>5, <2>1, SweeperTypes DEF SyncReadCash
<1>6. CASE SyncWriteCash
  <2>1. MoneyType'
    BY <1>1, <1>6 DEF SyncWriteCash, MoneyType, HostType, SyncRec
  <2> DEFINE s == Scan(Assets)
  <2>2. s \in SyncRec /\ s.pc = "scan" /\ sync' = s
    BY <1>6, ScanType DEF SyncWriteCash
  <2> HIDE DEF s
  <2>3. HostType'
    BY <1>1, <1>6, <2>2 DEF SyncWriteCash, HostType
  <2> QED
    BY <1>2, <1>6, <2>1, <2>3, SweeperTypes DEF SyncWriteCash
<1>7. CASE SyncWrite
  <2>1. sync.todo \subseteq Assets /\ sync.val \in Nat
    BY <1>1, <1>7 DEF SyncWrite, HostType, SyncRec
  <2>2. MoneyType'
    BY <1>1, <1>7, <2>1 DEF SyncWrite, MoneyType
  <2> DEFINE s == Scan(sync.todo)
  <2>3. s \in SyncRec /\ s.pc = "scan" /\ sync' = s
    BY <1>7, <2>1, ScanType DEF SyncWrite
  <2> HIDE DEF s
  <2>4. HostType'
    BY <1>1, <1>7, <2>3 DEF SyncWrite, HostType
  <2> QED
    BY <1>2, <1>7, <2>2, <2>4, SweeperTypes DEF SyncWrite
<1>8. CASE SyncDone
  <2>1. HostType'
    BY <1>1, <1>8 DEF SyncDone, HostType, SyncRec, NoSync
  <2> QED
    BY <1>2, <1>3, <1>8, <2>1, SweeperTypes DEF SyncDone
<1>9. ASSUME NEW a \in Assets, PurgeStaleGhost(a) PROVE TypeOK'
  <2>1. OwnType' /\ HostType'
    BY <1>1, <1>9 DEF PurgeStaleGhost, OwnType, HostType, hostVars
  <2> QED
    BY <1>3, <1>9, <2>1, SweeperTypes DEF PurgeStaleGhost
<1>10. ASSUME NEW a \in Assets, SyncRead(a) PROVE TypeOK'
  <2>1. HostType'
    <3>1. \A v \in ChainShares(a) : v \in Nat
      BY ChainType
    <3> QED
      BY <1>1, <1>10, <3>1 DEF SyncRead, HostType, SyncRec
  <2> QED
    BY <1>2, <1>3, <1>10, <2>1, SweeperTypes DEF SyncRead
<1> QED
  BY <1>4, <1>5, <1>6, <1>7, <1>8, <1>9, <1>10

LEMMA RestartTypes == ASSUME TypeOK, Restart PROVE TypeOK'
<1>1. /\ \A a \in Assets : \A q \in ChainShares(a) \cup {saved[a]} : q \in Nat
      /\ \A v \in ChainCash : v \in Int
  BY ChainType DEF TypeOK, HostType
<1>2. MoneyType'
  <2>1. \E S : pos' \in [Assets -> S]
    BY DEF Restart
  <2>2. \A a \in Assets : pos'[a] \in Nat
    BY <1>1 DEF Restart
  <2>3. cash' \in Int
    BY <1>1 DEF Restart
  <2> QED
    BY <2>1, <2>2, <2>3 DEF MoneyType
<1>3. OrderType'
  BY SMTT(30) DEF Restart, TypeOK, OrderType, OrderRec, Pcs
<1>4. OwnType' /\ StreamType'
  BY DEF Restart, OwnType, StreamType
<1>5. HostType' /\ LedgerType' /\ WalletType'
  BY DEF Restart, TypeOK, HostType, LedgerType, WalletType, SyncRec, NoSync, ledgerVars,
     walletVars
<1> QED
  BY <1>2, <1>3, <1>4, <1>5 DEF TypeOK

-----------------------------------------------------------------------------
(* Accounting                                                              *)

\* A step that teaches order o nothing behind the back of the invariant.
Calm(o) ==
    /\ orders'[o].asset = orders[o].asset
    /\ orders'[o].pc \in Unknown =>
          orders[o].pc \in Unknown /\ orders'[o].got.qty = orders[o].got.qty
    /\ orders'[o].pc = "settling" /\ orders'[o].got.qty > 0 =>
          \/ orders[o].pc \in Unknown
          \/ orders[o].pc = "settling" /\ orders[o].got.qty > 0

LEMMA CalmAccount ==
  ASSUME AccountInv, UNCHANGED <<books, ghost>>, \A o \in Orders : Calm(o)
  PROVE  AccountInv'
  BY DEF AccountInv, AccountedOnce, Untold, TaskTold, GhostOwed, AssetOf, Calm

\* One order moves on, the others keep still.
LEMMA MoveCalm ==
  ASSUME OrderType, NEW o \in Orders, NEW r \in OrderRec,
         orders' = [orders EXCEPT ![o] = r], r.asset = orders[o].asset,
         r.pc \in Unknown => orders[o].pc \in Unknown /\ r.got.qty = orders[o].got.qty,
         r.pc = "settling" /\ r.got.qty > 0 => orders[o].pc \in Unknown
  PROVE  \A u \in Orders : Calm(u)
  BY DEF OrderType, Calm

LEMMA GotoCalm ==
  ASSUME OrderType, NEW o \in Orders, NEW pc \in Pcs, Goto(o, pc),
         pc \in Unknown \cup {"settling"} => orders[o].pc \in Unknown
  PROVE  \A u \in Orders : Calm(u)
<1> DEFINE r == [orders[o] EXCEPT !.pc = pc]
<1>1. orders' = [orders EXCEPT ![o] = r]
  BY DEF Goto, OrderType, OrderRec
<1>2. r \in OrderRec /\ r.asset = orders[o].asset /\ r.pc = pc /\ r.got = orders[o].got
  BY DEF OrderType, OrderRec
<1> HIDE DEF r
<1> QED
  BY <1>1, <1>2, MoveCalm

LEMMA GotCalm ==
  ASSUME OrderType, NEW o \in Orders, NEW pc \in Pcs \ Unknown, NEW g \in Seen,
         orders' = [orders EXCEPT ![o].got = g, ![o].pc = pc],
         pc = "settling" => orders[o].pc \in Unknown
  PROVE  \A u \in Orders : Calm(u)
<1> DEFINE r == [orders[o] EXCEPT !.got = g, !.pc = pc]
<1>1. orders' = [orders EXCEPT ![o] = r]
  BY DEF OrderType, OrderRec
<1>2. r \in OrderRec /\ r.asset = orders[o].asset /\ r.pc = pc
  BY DEF OrderType, OrderRec
<1> HIDE DEF r
<1> QED
  BY <1>1, <1>2, MoveCalm

LEMMA TaskAccount ==
  ASSUME TypeOK, AccountInv, NEW o \in Orders, OrderStep(o)
  PROVE  AccountInv'
<1> DEFINE a == AssetOf(o)
<1>1. OrderType /\ a \in Assets /\ OwnType /\ LedgerType
  BY OrderFields DEF TypeOK, AssetOf
<1>2. \A pc \in {"posting", "waiting", "polling", "settling", "syncing", "correcting",
                 "finally", "done"} : pc \in Pcs
  BY DEF Pcs
<1>3. {"settling", "syncing", "correcting", "finally", "done"} \cap Unknown = {}
  BY DEF Unknown
<1>4. /\ Untold(o) /\ TaskTold(o) /\ GhostOwed(o)
      /\ \A u \in Orders : Untold(u) /\ TaskTold(u) /\ GhostOwed(u) /\ books[u] <= 1
  BY DEF AccountInv, AccountedOnce
<1>5. CASE Post(o)
  BY <1>1, <1>2, <1>5, GotoCalm, CalmAccount DEF Post, Unknown, ledgerVars
<1>6. CASE TakeSignal(o)
  <2>1. orders[o].pc \in Unknown /\ orders[o].ws \in Seen
    BY <1>1, <1>6, OrderFields DEF TakeSignal, Unknown
  <2>2. \A u \in Orders : Calm(u)
    BY <1>1, <1>2, <1>3, <1>6, <2>1, GotCalm DEF TakeSignal
  <2> QED
    BY <1>6, <2>2, CalmAccount DEF TakeSignal, ledgerVars, ownVars
<1>7. ASSUME orders[o].filled > 0 PROVE [of |-> o, qty |-> orders[o].filled] \in Seen
  BY <1>1, <1>7, OrderFields DEF Seen
<1>8. CASE FromResponse(o)
  <2>1. orders[o].pc \in Unknown
    BY <1>8 DEF FromResponse, Unknown
  <2>2. \A u \in Orders : Calm(u)
    BY <1>1, <1>2, <1>3, <1>7, <1>8, <2>1, GotCalm DEF FromResponse
  <2> QED
    BY <1>8, <2>2, CalmAccount DEF FromResponse, ledgerVars
<1>9. CASE AwaitSignal(o)
  BY <1>1, <1>2, <1>9, GotoCalm, CalmAccount DEF AwaitSignal, Unknown, ledgerVars, ownVars
<1>10. CASE Timeout(o)
  BY <1>1, <1>2, <1>10, GotoCalm, CalmAccount DEF Timeout, Unknown, ledgerVars
<1>11. CASE PollMatched(o)
  <2>1. orders[o].pc \in Unknown
    BY <1>11 DEF PollMatched, Unknown
  <2>2. \A u \in Orders : Calm(u)
    BY <1>1, <1>2, <1>3, <1>7, <1>11, <2>1, GotCalm, GotoCalm DEF PollMatched
  <2> QED
    BY <1>11, <2>2, CalmAccount DEF PollMatched, ledgerVars, ownVars
<1>12. CASE PollUnknown(o)
  <2>1. orders[o].pc \in Unknown /\ orders[o].got.qty = 0 /\ books[o] = 0
    BY <1>4, <1>12 DEF PollUnknown, Unknown, Untold
  <2>2. /\ ghost' = [ghost EXCEPT ![a] = o] /\ books' = books
        /\ ghost \in [Assets -> Orders \cup {NoOrder}]
    BY <1>1, <1>12 DEF PollUnknown, ledgerVars, OwnType
  <2>3. orders' = [orders EXCEPT ![o].pc = "settling"]
    BY <1>12 DEF PollUnknown, Goto
  <2>4. /\ orders'[o].pc = "settling" /\ orders'[o].got = orders[o].got
        /\ orders'[o].asset = orders[o].asset
        /\ \A u \in Orders \ {o} : orders'[u] = orders[u]
    BY <1>1, <2>3 DEF OrderType, OrderRec
  <2>5. ASSUME NEW u \in Orders
        PROVE  Untold(u)' /\ TaskTold(u)' /\ GhostOwed(u)' /\ books'[u] <= 1
    <3>1. CASE u = o
      BY <1>1, <1>3, <1>4, <2>1, <2>2, <2>4, <3>1 DEF Untold, TaskTold, GhostOwed, AssetOf
    <3>2. CASE u # o
      BY <1>1, <1>4, <2>2, <2>4, <3>2 DEF Untold, TaskTold, GhostOwed, AssetOf
    <3> QED
      BY <3>1, <3>2
  <2> QED
    BY <2>5 DEF AccountInv, AccountedOnce
<1>13. CASE Settle(o)
  <2>1. \A u \in Orders : Calm(u)
    BY <1>1, <1>2, <1>3, <1>13, GotoCalm DEF Settle
  <2>2. CASE ~(orders[o].got.qty > 0)
    BY <1>13, <2>1, <2>2, CalmAccount DEF Settle, BookNothing, ledgerVars
  <2>3. CASE orders[o].got.qty > 0
    <3>1. books[o] = 0 /\ \A b \in Assets : ghost[b] # o
      BY <1>4, <1>13, <2>3 DEF Settle, TaskTold
    <3>2. books' = [books EXCEPT ![o] = @ + 1] /\ ghost' = ghost
      BY <1>13, <2>3 DEF Settle, Book
    <3>3. orders'[o].pc = "finally"
      BY <1>1, <1>13 DEF Settle, Goto, OrderType, OrderRec
    <3>4. ASSUME NEW u \in Orders
          PROVE  Untold(u)' /\ TaskTold(u)' /\ GhostOwed(u)' /\ books'[u] <= 1
      <4>1. CASE u = o
        BY <1>1, <1>3, <3>1, <3>2, <3>3, <4>1 DEF Untold, TaskTold, GhostOwed, LedgerType
      <4>2. CASE u # o
        BY <1>1, <1>4, <2>1, <3>2, <4>2 DEF Untold, TaskTold, GhostOwed, LedgerType, Calm,
           AssetOf
      <4> QED
        BY <4>1, <4>2
    <3> QED
      BY <3>4 DEF AccountInv, AccountedOnce
  <2> QED
    BY <2>2, <2>3
<1>14. CASE Fail(o)
  <2>1. \A u \in Orders : Calm(u)
    BY <1>1, <1>2, <1>3, <1>14, GotoCalm DEF Fail
  <2> QED
    BY <1>14, <2>1, CalmAccount DEF Fail, ledgerVars
<1>15. CASE Unanswered(o)
  BY <1>1, <1>2, <1>3, <1>15, GotoCalm, CalmAccount DEF Unanswered, ledgerVars, ownVars
<1>16. CASE EmergencyRead(o)
  <2>1. CASE Goto(o, "finally")
    BY <1>1, <1>2, <1>3, <1>16, <2>1, GotoCalm, CalmAccount DEF EmergencyRead, ledgerVars,
       ownVars
  <2>2. ASSUME NEW q \in ChainShares(a),
               orders' = [orders EXCEPT ![o].pc = "correcting", ![o].got.qty = q]
        PROVE  AccountInv'
    <3>1. \A u \in Orders : Calm(u)
      BY <1>1, <2>2 DEF Calm, OrderType, OrderRec, Unknown
    <3> QED
      BY <1>16, <3>1, CalmAccount DEF EmergencyRead, ledgerVars, ownVars
  <2> QED
    BY <1>16, <2>1, <2>2 DEF EmergencyRead
<1>17. CASE EmergencyWrite(o)
  BY <1>1, <1>2, <1>3, <1>17, GotoCalm, CalmAccount DEF EmergencyWrite, ledgerVars, ownVars
<1>18. CASE Finally(o)
  BY <1>1, <1>2, <1>3, <1>18, GotoCalm, CalmAccount DEF Finally, ledgerVars
<1> QED
  BY <1>5, <1>6, <1>8, <1>9, <1>10, <1>11, <1>12, <1>13, <1>14, <1>15, <1>16, <1>17, <1>18
     DEF OrderStep

\* The ghost that is reconciled is booked for the first time.
LEMMA ReconcileAccount ==
  ASSUME TypeOK, AccountInv, NEW o \in Orders, NEW q, Matches(o), Reconcile(o, q),
         \A u \in Orders : Calm(u)
  PROVE  AccountInv'
<1> DEFINE a == AssetOf(o)
           g == ghost[a]
<1>1. a \in Assets /\ LedgerType /\ ghost \in [Assets -> Orders \cup {NoOrder}]
  BY OrderFields DEF TypeOK, OwnType, AssetOf
<1>2. g \in Orders
  BY <1>1 DEF Matches
<1>3. \A u \in Orders : Untold(u) /\ TaskTold(u) /\ GhostOwed(u) /\ books[u] <= 1
  BY DEF AccountInv, AccountedOnce
<1>4. books[g] = 0 /\ AssetOf(g) = a
  BY <1>1, <1>2, <1>3 DEF GhostOwed
<1>5. books' = [books EXCEPT ![g] = @ + 1] /\ ghost' = [ghost EXCEPT ![a] = NoOrder]
  BY DEF Reconcile, Book
<1>6. \A b \in Assets : ghost'[b] # g
  BY <1>1, <1>2, <1>3, <1>4, <1>5, LiveAssumption DEF GhostOwed
<1>7. ~(orders'[g].pc \in Unknown)
  BY <1>1, <1>2, <1>3 DEF Untold, Calm
<1>8. ~(orders'[g].pc = "settling" /\ orders'[g].got.qty > 0)
  BY <1>1, <1>2, <1>3 DEF Untold, TaskTold, Calm
<1>9. ASSUME NEW u \in Orders
      PROVE  Untold(u)' /\ TaskTold(u)' /\ GhostOwed(u)' /\ books'[u] <= 1
  <2>1. CASE u = g
    BY <1>1, <1>4, <1>5, <1>6, <1>7, <1>8, <2>1 DEF Untold, TaskTold, GhostOwed, LedgerType
  <2>2. CASE u # g
    <3>1. books'[u] = books[u] /\ \A b \in Assets : ghost'[b] = u => ghost[b] = u
      BY <1>1, <1>5, <2>2, LiveAssumption DEF LedgerType
    <3> QED
      BY <1>3, <3>1 DEF Untold, TaskTold, GhostOwed, Calm, AssetOf
  <2> QED
    BY <2>1, <2>2
<1> QED
  BY <1>9 DEF AccountInv, AccountedOnce

LEMMA StreamAccount ==
  ASSUME TypeOK, AccountInv, NEW o \in Orders, Deliver(o) \/ RetryReconcile(o)
  PROVE  AccountInv'
<1>1. CASE Deliver(o)
  <2> DEFINE w == signal[AssetOf(o)]
  <2>1. PICK q \in 1..orders[o].filled :
          /\ orders' = IF w = NoOrder THEN orders
                       ELSE [orders EXCEPT ![w].ws = [of |-> o, qty |-> q]]
          /\ IF Matches(o)
             THEN Reconcile(o, q) /\ UNCHANGED retries
             ELSE /\ retries' = [retries EXCEPT ![o] = @ + 1]
                  /\ BookNothing /\ UNCHANGED <<ghost, pending, saved>>
    BY <1>1 DEF Deliver
  <2>2. \A u \in Orders : Calm(u)
    BY <2>1 DEF Calm, TypeOK, OrderType, OrderRec
  <2>3. CASE Matches(o)
    BY <2>1, <2>2, <2>3, ReconcileAccount
  <2>4. CASE ~Matches(o)
    BY <2>1, <2>2, <2>4, CalmAccount DEF BookNothing, ledgerVars
  <2> QED
    BY <2>3, <2>4
<1>2. CASE RetryReconcile(o)
  <2>1. \A u \in Orders : Calm(u)
    BY <1>2 DEF RetryReconcile, Calm
  <2>2. CASE Matches(o)
    BY <1>2, <2>1, <2>2, ReconcileAccount DEF RetryReconcile
  <2>3. CASE ~Matches(o)
    BY <1>2, <2>1, <2>3, CalmAccount DEF RetryReconcile, BookNothing, ledgerVars
  <2> QED
    BY <2>2, <2>3
<1> QED
  BY <1>1, <1>2

\* Fewer ghosts, the ledger as it was.
LEMMA FewerGhosts ==
  ASSUME AccountInv, UNCHANGED books, \A o \in Orders : Calm(o),
         \A a \in Assets : \A o \in Orders : ghost'[a] = o => ghost[a] = o
  PROVE  AccountInv'
  BY DEF AccountInv, AccountedOnce, Untold, TaskTold, GhostOwed, AssetOf, Calm

LEMMA PurgeAccount ==
  ASSUME TypeOK, AccountInv, NEW a \in Assets, PurgeStaleGhost(a) PROVE AccountInv'
<1>1. \A o \in Orders : Calm(o)
  BY DEF PurgeStaleGhost, Calm
<1>2. \A b \in Assets : \A o \in Orders : ghost'[b] = o => ghost[b] = o
  BY LiveAssumption DEF PurgeStaleGhost, TypeOK, OwnType
<1> QED
  BY <1>1, <1>2, FewerGhosts DEF PurgeStaleGhost, ledgerVars

LEMMA RestartAccount == ASSUME TypeOK, AccountInv, Restart PROVE AccountInv'
<1>1. \A o \in Orders : Calm(o)
  BY DEF Restart, Calm, Active, TypeOK, OrderType, OrderRec, Unknown
<1>2. \A b \in Assets : \A o \in Orders : ghost'[b] = o => ghost[b] = o
  BY LiveAssumption DEF Restart
<1> QED
  BY <1>1, <1>2, FewerGhosts DEF Restart, ledgerVars

LEMMA QueueAccount ==
  ASSUME TypeOK, AccountInv, NEW o \in Orders, NEW side, NEW n, Queue(o, side, n)
  PROVE  AccountInv'
<1>1. \A u \in Orders : Calm(u)
  BY DEF Queue, Calm, TypeOK, OrderType, OrderRec, Unknown
<1> QED
  BY <1>1, CalmAccount DEF Queue, ledgerVars

LEMMA ExchangeAccount ==
  ASSUME TypeOK, AccountInv, NEW o \in Orders, ExchangeMatch(o) \/ Mine(o)
  PROVE  AccountInv'
<1>1. CASE ExchangeMatch(o)
  <2>1. \A u \in Orders : Calm(u)
    BY <1>1 DEF ExchangeMatch, Calm, TypeOK, OrderType, OrderRec
  <2> QED
    BY <1>1, <2>1, CalmAccount DEF ExchangeMatch, ledgerVars, ownVars
<1>2. CASE Mine(o)
  <2>1. \A u \in Orders : Calm(u)
    BY <1>2 DEF Mine, Calm, TypeOK, OrderType, OrderRec
  <2> QED
    BY <1>2, <2>1, CalmAccount DEF Mine, ledgerVars, ownVars
<1> QED
  BY <1>1, <1>2

\* Steps that touch neither orders, ghosts nor the ledger.
LEMMA OtherAccount ==
  ASSUME AccountInv, UNCHANGED <<orders, books, ghost>> PROVE AccountInv'
  BY DEF AccountInv, AccountedOnce, Untold, TaskTold, GhostOwed, AssetOf

-----------------------------------------------------------------------------
(* Locks                                                                   *)

Held(a) == \/ ghost[a] # NoOrder
           \/ \E o \in Orders : Active(o) /\ AssetOf(o) = a

\* No lock is added, no ghost goes, no task ends.
LEMMA LockFrame ==
  ASSUME LockHasHolder, pending' \subseteq pending,
         \A a \in pending' : ghost[a] # NoOrder => ghost'[a] # NoOrder,
         \A o \in Orders : orders'[o].asset = orders[o].asset
                          /\ (Active(o) => Active(o)')
  PROVE  LockHasHolder'
  BY DEF LockHasHolder, AssetOf

\* The field of an order that moves on.
LEMMA GotoActive ==
  ASSUME OrderType, NEW o \in Orders, NEW pc \in Pcs \ {"unused", "done"}, Goto(o, pc)
  PROVE  \A u \in Orders : orders'[u].asset = orders[u].asset
                           /\ (Active(u) => Active(u)')
  BY DEF OrderType, OrderRec, Goto, Active

LEMMA GotActive ==
  ASSUME OrderType, NEW o \in Orders, NEW pc \in Pcs \ {"unused", "done"},
         NEW g, orders' = [orders EXCEPT ![o].got = g, ![o].pc = pc]
  PROVE  \A u \in Orders : orders'[u].asset = orders[u].asset
                           /\ (Active(u) => Active(u)')
  BY DEF OrderType, OrderRec, Active

LEMMA TaskLocks ==
  ASSUME TypeOK, LockHasHolder, NEW o \in Orders, OrderStep(o)
  PROVE  LockHasHolder'
<1> DEFINE a == AssetOf(o)
           Steady == \A u \in Orders : orders'[u].asset = orders[u].asset
                                       /\ (Active(u) => Active(u)')
<1>1. OrderType /\ a \in Assets /\ OwnType
  BY OrderFields DEF TypeOK, AssetOf
<1>2. \A pc \in {"posting", "waiting", "polling", "settling", "syncing", "correcting",
                 "finally"} : pc \in Pcs \ {"unused", "done"}
  BY DEF Pcs
<1>3. ASSUME \E pc \in {"posting", "waiting", "polling", "settling", "syncing",
                        "correcting", "finally"} : Goto(o, pc)
      PROVE  Steady
  BY <1>1, <1>2, <1>3, GotoActive
<1>4. ASSUME NEW g, orders' = [orders EXCEPT ![o].got = g, ![o].pc = "settling"]
      PROVE  Steady
  BY <1>1, <1>2, <1>4, GotActive
<1>5. ASSUME Steady, UNCHANGED <<pending, ghost>> PROVE LockHasHolder'
  BY <1>5, LockFrame
<1>6. CASE Post(o)
  BY <1>3, <1>5, <1>6 DEF Post
<1>7. CASE TakeSignal(o)
  BY <1>4, <1>5, <1>7 DEF TakeSignal, ownVars
<1>8. CASE FromResponse(o)
  BY <1>4, <1>5, <1>8 DEF FromResponse
<1>9. CASE AwaitSignal(o)
  BY <1>3, <1>5, <1>9 DEF AwaitSignal, ownVars
<1>10. CASE Timeout(o)
  BY <1>3, <1>5, <1>10 DEF Timeout
<1>11. CASE PollMatched(o)
  BY <1>3, <1>4, <1>5, <1>11 DEF PollMatched, ownVars
<1>12. CASE PollUnknown(o)
  <2>1. Steady /\ pending' = pending
    BY <1>3, <1>12 DEF PollUnknown
  <2>2. \A b \in pending' : ghost[b] # NoOrder => ghost'[b] # NoOrder
    BY <1>1, <1>12, LiveAssumption DEF PollUnknown, OwnType
  <2> QED
    BY <2>1, <2>2, LockFrame
<1>13. CASE Settle(o)
  BY <1>3, <1>5, <1>13 DEF Settle
<1>14. CASE Fail(o)
  BY <1>3, <1>5, <1>14 DEF Fail
<1>15. CASE Unanswered(o)
  BY <1>3, <1>5, <1>15 DEF Unanswered, ownVars
<1>16. CASE EmergencyRead(o)
  <2>1. CASE Goto(o, "finally")
    BY <1>3, <1>5, <1>16, <2>1 DEF EmergencyRead, ownVars
  <2>2. ASSUME NEW q \in ChainShares(a),
               orders' = [orders EXCEPT ![o].pc = "correcting", ![o].got.qty = q]
        PROVE  LockHasHolder'
    <3>1. Steady
      BY <1>1, <2>2 DEF OrderType, OrderRec, Active
    <3> QED
      BY <1>5, <1>16, <3>1 DEF EmergencyRead, ownVars
  <2> QED
    BY <1>16, <2>1, <2>2 DEF EmergencyRead
<1>17. CASE EmergencyWrite(o)
  BY <1>3, <1>5, <1>17 DEF EmergencyWrite, ownVars
<1>18. CASE Finally(o)
  <2>1. /\ \A u \in Orders \ {o} : orders'[u] = orders[u]
        /\ \A u \in Orders : orders'[u].asset = orders[u].asset
    BY <1>1, <1>18 DEF Finally, Goto, OrderType, OrderRec
  <2>2. ASSUME NEW b \in pending', ghost'[b] = NoOrder
        PROVE  \E u \in Orders : Active(u)' /\ AssetOf(u)' = b
    <3>1. b \in pending /\ ghost[b] = NoOrder /\ b # a
      BY <1>18, <2>2 DEF Finally
    <3>2. PICK u \in Orders : Active(u) /\ AssetOf(u) = b
      BY <3>1 DEF LockHasHolder
    <3> QED
      BY <2>1, <3>1, <3>2 DEF Active, AssetOf
  <2> QED
    BY <2>2 DEF LockHasHolder
<1> QED
  BY <1>6, <1>7, <1>8, <1>9, <1>10, <1>11, <1>12, <1>13, <1>14, <1>15, <1>16, <1>17, <1>18
     DEF OrderStep

LEMMA QueueLocks ==
  ASSUME TypeOK, LockHasHolder, NEW o \in Orders, NEW side, NEW n, Queue(o, side, n)
  PROVE  LockHasHolder'
<1>1. \A u \in Orders : orders'[u].asset = orders[u].asset /\ (Active(u) => Active(u)')
  BY DEF Queue, TypeOK, OrderType, OrderRec, Active
<1>2. Active(o)'
  BY DEF Queue, TypeOK, OrderType, OrderRec, Active
<1>3. pending' = pending \cup {AssetOf(o)} /\ ghost' = ghost
  BY DEF Queue
<1> QED
  BY <1>1, <1>2, <1>3 DEF LockHasHolder, AssetOf

\* The lock goes with the ghost; nothing else is taken from anyone.
LEMMA GhostLocks ==
  ASSUME TypeOK, LockHasHolder, NEW a \in Assets,
         ghost' = [ghost EXCEPT ![a] = NoOrder], pending' = pending \ {a},
         \A u \in Orders : orders'[u].asset = orders[u].asset
                          /\ (Active(u) => Active(u)')
  PROVE  LockHasHolder'
<1>1. \A b \in pending' : ghost[b] # NoOrder => ghost'[b] # NoOrder
  BY DEF TypeOK, OwnType
<1> QED
  BY <1>1, LockFrame

LEMMA StreamLocks ==
  ASSUME TypeOK, LockHasHolder, NEW o \in Orders, Deliver(o) \/ RetryReconcile(o)
  PROVE  LockHasHolder'
<1>1. AssetOf(o) \in Assets
  BY OrderFields DEF TypeOK, AssetOf
<1>2. \A u \in Orders : orders'[u].asset = orders[u].asset /\ (Active(u) => Active(u)')
  <2>1. CASE Deliver(o)
    <3> DEFINE w == signal[AssetOf(o)]
    <3>1. PICK q \in 1..orders[o].filled :
             orders' = IF w = NoOrder THEN orders
                       ELSE [orders EXCEPT ![w].ws = [of |-> o, qty |-> q]]
      BY <2>1 DEF Deliver
    <3> QED
      BY <3>1 DEF TypeOK, OrderType, OrderRec, Active
  <2>2. CASE RetryReconcile(o)
    BY <2>2 DEF RetryReconcile, Active
  <2> QED
    BY <2>1, <2>2
<1>3. CASE \E q : Reconcile(o, q)
  BY <1>1, <1>2, <1>3, GhostLocks DEF Reconcile
<1>4. CASE UNCHANGED <<ghost, pending>>
  BY <1>2, <1>4, LockFrame
<1> QED
  BY <1>3, <1>4 DEF Deliver, RetryReconcile

LEMMA OtherLocks ==
  ASSUME LockHasHolder, UNCHANGED <<orders, pending, ghost>> PROVE LockHasHolder'
  BY DEF LockHasHolder, Active, AssetOf

LEMMA ExchangeLocks ==
  ASSUME TypeOK, LockHasHolder, NEW o \in Orders, ExchangeMatch(o) \/ Mine(o)
  PROVE  LockHasHolder'
<1>1. UNCHANGED <<pending, ghost>>
  BY DEF ExchangeMatch, Mine, ownVars
<1>2. \A u \in Orders : orders'[u].asset = orders[u].asset /\ (Active(u) => Active(u)')
  <2>1. CASE ExchangeMatch(o)
    BY <2>1 DEF ExchangeMatch, TypeOK, OrderType, OrderRec, Active
  <2>2. CASE Mine(o)
    BY <2>2 DEF Mine, TypeOK, OrderType, OrderRec, Active
  <2> QED
    BY <2>1, <2>2
<1> QED
  BY <1>1, <1>2, LockFrame

-----------------------------------------------------------------------------
(* Every step keeps the invariant *)

LEMMA StepInv == ASSUME LiveInv, [Next]_vars PROVE LiveInv'
<1>1. TypeOK /\ AccountInv /\ LockHasHolder
  BY DEF LiveInv
<1>2. ASSUME NEW o \in Orders, OrderStep(o) PROVE LiveInv'
  BY <1>1, <1>2, TaskTypes, TaskAccount, TaskLocks DEF LiveInv
<1>3. ASSUME NEW o \in Orders, SubmitBuy(o) \/ SubmitSell(o) PROVE LiveInv'
  <2>1. \E side, n : Queue(o, side, n)
    BY <1>3 DEF SubmitBuy, SubmitSell
  <2> QED
    BY <1>1, <1>3, <2>1, SubmitTypes, QueueAccount, QueueLocks DEF LiveInv
<1>4. ASSUME NEW o \in Orders, ExchangeMatch(o) \/ Mine(o) PROVE LiveInv'
  BY <1>1, <1>4, ExchangeTypes, ExchangeAccount, ExchangeLocks DEF LiveInv
<1>5. ASSUME NEW o \in Orders, Deliver(o) \/ RetryReconcile(o) PROVE LiveInv'
  BY <1>1, <1>5, StreamTypes, StreamAccount, StreamLocks DEF LiveInv
<1>6. ASSUME NEW o \in Orders, LoseNote(o) PROVE LiveInv'
  BY <1>1, <1>6, StreamTypes, OtherAccount, OtherLocks DEF LiveInv, LoseNote, ownVars,
     ledgerVars
<1>7. ASSUME NEW a \in Assets, ReadShares(a) \/ DropSell(a) PROVE LiveInv'
  <2>1. UNCHANGED <<orders, books, ghost, pending>>
    BY <1>7 DEF ReadShares, DropSell, ownVars, ledgerVars
  <2> QED
    BY <1>1, <1>7, <2>1, AssetTypes, OtherAccount, OtherLocks DEF LiveInv
<1>8. ASSUME NEW a \in Assets, CoolingOver(a) PROVE LiveInv'
  BY <1>1, <1>8, AssetTypes, OtherAccount, OtherLocks DEF LiveInv, CoolingOver, ledgerVars
<1>9. ASSUME NEW a \in Assets, PurgeStaleGhost(a) PROVE LiveInv'
  <2>1. LockHasHolder'
    BY <1>1, <1>9, GhostLocks DEF PurgeStaleGhost, Active
  <2> QED
    BY <1>1, <1>9, <2>1, SyncTypes, PurgeAccount DEF LiveInv
<1>10. ASSUME \/ Sweep \/ SyncReadCash \/ SyncWriteCash \/ SyncWrite \/ SyncDone
              \/ \E a \in Assets : SyncRead(a)
       PROVE  LiveInv'
  <2>1. UNCHANGED <<orders, books, ghost, pending>>
    BY <1>10 DEF Sweep, SyncReadCash, SyncWriteCash, SyncWrite, SyncDone, SyncRead,
       ownVars, ledgerVars
  <2> QED
    BY <1>1, <1>10, <2>1, SyncTypes, OtherAccount, OtherLocks DEF LiveInv
<1>11. CASE Restart
  <2>1. LockHasHolder'
    BY <1>11 DEF Restart, LockHasHolder
  <2> QED
    BY <1>1, <1>11, <2>1, RestartTypes, RestartAccount DEF LiveInv
<1>12. CASE UNCHANGED vars
  <2>1. TypeOK'
    BY <1>1, <1>12 DEF vars, TypeOK, OwnType, MoneyType, OrderType, LedgerType, WalletType,
       StreamType, HostType
  <2> QED
    BY <1>1, <1>12, <2>1, OtherAccount, OtherLocks DEF LiveInv, vars
<1> QED
  BY <1>2, <1>3, <1>4, <1>5, <1>6, <1>7, <1>8, <1>9, <1>10, <1>11, <1>12 DEF Next

\* The invariant of the live broker (PolymarketLiveBroker.cs 99-933, its host
\* Program.cs 330-397): types, one entry per order, and a holder for each lock.
THEOREM LiveInvariant == Spec => []LiveInv
<1>1. Init => LiveInv
  BY InitInv
<1>2. LiveInv /\ [Next]_vars => LiveInv'
  BY StepInv
<1> QED
  BY <1>1, <1>2, PTL DEF Spec

\* Positions and the wallet never go negative, and every field of the broker
\* keeps its type (the sale's clamp at 670-693, the writes of ProductionBroker.cs
\* 97-148).
THEOREM LiveTypes == Spec => []TypeOK
<1>1. LiveInv => TypeOK
  BY DEF LiveInv
<1> QED
  BY <1>1, LiveInvariant, PTL

\* Whatever is late, duplicated, lost or retried, an order is accounted for at
\* most once: by its task or by its ghost (198-349, 844-914).
THEOREM OrdersAccountedOnce == Spec => []AccountedOnce
<1>1. LiveInv => AccountedOnce
  BY DEF LiveInv, AccountInv
<1> QED
  BY <1>1, LiveInvariant, PTL

\* A lock always has an order under way or a ghost behind it: nothing stays
\* locked for good by a race of the paths that release it (390-394, 904, 933);
\* and the locks, like every other field, keep their type.
THEOREM LocksHeld == Spec => []LocksSound
<1>1. LiveInv => LocksSound
  BY DEF LiveInv, LocksSound
<1> QED
  BY <1>1, LiveInvariant, PTL

-----------------------------------------------------------------------------
(* The pair file.  A row of it hedges, its ticker is live or its row is in the  *)
(* archive, and what a judge was paid for is in a file, for any markets of the  *)
(* two venues and any verdicts among them.                                      *)

Notes == [k : KIds, yes : PolyTokens]
PairRows == [k : KIds, yes : PolyTokens, auto : BOOLEAN]
Hedges(r) == Verdict(r.k, r.yes.p) = (IF r.yes.side = "yes" THEN "VALID" ELSE "INVERTED")
OneOfEach(rows) == \A r, q \in rows : Key(r) = Key(q) => r = q
PairsInv == pairs \subseteq PairRows /\ OneOfEach(pairs) /\ \A r \in pairs : Hedges(r)

Judges == {"judge", "ollama", "manual"}
Discoveries == {"discover", "daily"}
Cleaners == {"clean", "prune"}
JobRec ==
  [kind : Over \cup Judges \cup Discoveries \cup Cleaners, todo : Seq(Cands \cup KIds),
   tries : 1 .. Retries, held : SUBSET (PairRows \cup Notes), met : SUBSET KIds]
\* A judge and a person have candidates before them.
Judging == job.kind \in Judges => job.todo \in Seq(Cands) /\ job.todo # <<>>
\* Whom a discovery has asked about is in a file, or in what it will write at its end.
AskedIsHeld == job.kind \in Discoveries =>
  /\ job.todo \in Seq(KIds) /\ job.held \subseteq Notes
  /\ job.met \subseteq Tickers(pairs) \cup Tickers(rejected) \cup Tickers(job.held)
\* While the file is cleaned nobody else writes it; a row that was not called live is
\* still to be asked about, or its market is closed.
Cleaning ==
  /\ job.kind \in Cleaners => job.held = pairs
  /\ job.kind = "clean" =>
       /\ job.todo \in Seq(KIds) /\ IsInjective(job.todo)
       /\ \A r \in pairs : r.k \in job.met \/ r.k \notin open \/ r.k \in SetOf(job.todo)
  /\ job.kind = "prune" => Gone \subseteq archive /\ \A r \in Gone : r.k \notin open
FilesTyped ==
  /\ open \subseteq KIds /\ index \subseteq KIds \cup PIds /\ archive \subseteq PairRows
  /\ potential \subseteq Notes /\ rejected \subseteq Notes /\ review \subseteq Notes
  /\ spent \in 0 .. CostCap /\ audited.confirmed \cap audited.mismatch = {}
JobInv == job \in JobRec /\ Judging /\ AskedIsHeld /\ Cleaning
FilesInv == FilesTyped /\ PairsInv /\ JobInv

LEMMA FilesInvSound == FilesInv => FilesSound
BY DEF FilesInv, FilesTyped, PairsInv, JobInv, JobRec, FilesSound, CrossTypeOK, RowsHedge, Hedges, OneOfEach,
       Notes, PairRows, Over, Judges, Discoveries, Cleaners

-----------------------------------------------------------------------------
(* Markets, candidates, orders *)

LEMMA CrossConstants ==
  /\ IsFiniteSet(Records)
  /\ BatchSize \in Nat \ {0} /\ CleanBatch \in Nat \ {0} /\ Retries \in Nat \ {0} /\ CostCap \in Nat
BY CrossAssumption

LEMMA RecordIs ==
  ASSUME NEW id \in KIds
  PROVE  Record(id) \in Records /\ Record(id).id = id /\ Record(id).venue = "kalshi"
<1>1. PICK m \in Records : m.venue = "kalshi" /\ m.id = id
  BY DEF KIds, Kalshis
<1>2. Record(id) \in Records /\ Record(id).id = id
  BY <1>1 DEF Record
<1>3. Record(id) = m
  BY <1>1, <1>2, CrossAssumption
<1> QED
  BY <1>1, <1>2, <1>3

LEMMA CandidateIs ==
  ASSUME NEW c \in Cands
  PROVE  c.k \in KIds /\ c.p \in PIds /\ Yes(c) \in PolyTokens /\ No(c) \in PolyTokens
<1>1. PICK k \in Kalshis(Records), p \in Polys(Records) : c = Candidate(k, p)
  BY DEF Cands
<1>2. c.k = k.id /\ c.p = p.id
  BY <1>1 DEF Candidate
<1>3. c.k \in KIds /\ c.p \in PIds
  BY <1>2 DEF KIds, PIds
<1> QED
  BY <1>3 DEF Yes, No, PolyTokens

LEMMA VerdictIs ==
  ASSUME NEW c \in Cands
  PROVE  Verdict(c.k, c.p) \in {"VALID", "INVERTED", "INVALID", "CONDITIONAL"}
<1>1. PICK k \in Kalshis(Records), p \in Polys(Records) : c = Candidate(k, p)
  BY DEF Cands
<1>2. c.k = k.id /\ c.p = p.id /\ k \in Records /\ p \in Records
  BY <1>1 DEF Candidate, Kalshis, Polys
<1>3. Verdict(k.id, p.id) \in {"VALID", "INVERTED", "INVALID", "CONDITIONAL"}
  BY <1>2, CrossAssumption
<1> QED
  BY <1>2, <1>3

LEMMA CandidateMade ==
  ASSUME NEW k \in Records, NEW p \in Records, k.venue = "kalshi", p.venue = "poly"
  PROVE  Candidate(k, p) \in Cands /\ Candidate(k, p).k = k.id
BY DEF Cands, Kalshis, Polys, Candidate

LEMMA KIdsFinite == IsFiniteSet(KIds)
<1> DEFINE f == [m \in Kalshis(Records) |-> m.id]
<1>1. IsFiniteSet(Kalshis(Records))
  BY CrossConstants, FS_Subset DEF Kalshis
<1>2. f \in Surjection(Kalshis(Records), KIds)
  BY DEF KIds, Surjection
<1> QED
  BY <1>1, <1>2, FS_Surjection

LEMMA CandsFinite == IsFiniteSet(Cands)
<1> DEFINE R == Kalshis(Records) \X Polys(Records)
           f == [s \in R |-> Candidate(s[1], s[2])]
<1>1. IsFiniteSet(Kalshis(Records)) /\ IsFiniteSet(Polys(Records))
  BY CrossConstants, FS_Subset DEF Kalshis, Polys
<1>2. IsFiniteSet(R)
  BY <1>1, FS_Product
<1>3. f \in [R -> Cands]
  BY DEF Cands
<1>4. \A c \in Cands : \E s \in R : f[s] = c
  <2> TAKE c \in Cands
  <2>1. PICK k \in Kalshis(Records), p \in Polys(Records) : c = Candidate(k, p)
    BY DEF Cands
  <2>2. <<k, p>> \in R /\ f[<<k, p>>] = c
    BY <2>1
  <2> QED
    BY <2>2
<1>5. f \in Surjection(R, Cands)
  BY <1>3, <1>4 DEF Surjection
<1> QED
  BY <1>2, <1>5, FS_Surjection

\* An order of a finite set names each of its members once.
LEMMA OrderIs ==
  ASSUME NEW S, IsFiniteSet(S), NEW q \in SetToSeqs(S)
  PROVE  q \in Seq(S) /\ IsInjective(q) /\ SetOf(q) = S
<1> DEFINE n == Cardinality(S)
<1>1. n \in Nat
  BY FS_CardinalityType
<1> HIDE DEF n
<1>2. q \in [1 .. n -> S] /\ \A i, j \in 1 .. n : i # j => q[i] # q[j]
  BY DEF SetToSeqs, n
<1>3. q \in Injection(1 .. n, S)
  BY <1>2 DEF Injection, IsInjective
<1>4. Cardinality(1 .. n) = Cardinality(S)
  BY <1>1, FS_Interval DEF n
<1>5. q \in Surjection(1 .. n, S)
  BY <1>3, <1>4, FS_Injection
<1>6. SetOf(q) = S
  BY <1>2, <1>5 DEF SetOf, Surjection
<1> QED
  BY <1>1, <1>2, <1>3, <1>6 DEF Injection

LEMMA WiderSeq ==
  ASSUME NEW S, NEW T, S \subseteq T, NEW s \in Seq(S)
  PROVE  s \in Seq(T)
OBVIOUS

LEMMA PartSeq ==
  ASSUME NEW S, NEW s \in Seq(S), NEW m \in Nat \ {0}, NEW n \in Nat, n <= Len(s)
  PROVE  SubSeq(s, m, n) \in Seq(S)
<1>1. \A i \in m .. n : s[i] \in S
  BY ElementOfSeq
<1> QED
  BY <1>1, SubSeqProperties

-----------------------------------------------------------------------------
(* Rows and the script *)

LEMMA SaveKeeps ==
  ASSUME PairsInv, NEW rows, rows \subseteq PairRows, \A r \in rows : Hedges(r), OneOfEach(rows),
         pairs' = SavePairs(rows)
  PROVE  PairsInv'
<1>1. \A r \in pairs' : r \in pairs \/ (r \in rows /\ \A q \in pairs : Key(q) # Key(r))
  BY DEF SavePairs
<1>2. pairs' \subseteq PairRows /\ \A r \in pairs' : Hedges(r)
  BY <1>1 DEF PairsInv
<1>3. \A r, q \in pairs' : Key(r) = Key(q) => r = q
  BY <1>1 DEF PairsInv, OneOfEach
<1> QED
  BY <1>2, <1>3, Zenon DEF PairsInv, OneOfEach, Hedges, Key

LEMMA SaveAdds ==
  ASSUME NEW rows
  PROVE  pairs \subseteq SavePairs(rows) /\ Tickers(rows) \subseteq Tickers(SavePairs(rows))
<1>1. \A r \in rows : r \in SavePairs(rows) \/ \E q \in pairs : q.k = r.k
  BY DEF SavePairs, Key
<1>2. pairs \subseteq SavePairs(rows)
  BY DEF SavePairs
<1> QED
  BY <1>1, <1>2 DEF Tickers

LEMMA JudgedIs ==
  ASSUME NEW c \in Cands, NEW auto \in BOOLEAN, NEW r \in Judged(c, Verdict(c.k, c.p), auto)
  PROVE  r \in PairRows /\ Hedges(r) /\ r.auto = auto
<1>1. c.k \in KIds /\ Yes(c) \in PolyTokens /\ No(c) \in PolyTokens
  BY CandidateIs
<1>2. CASE Verdict(c.k, c.p) = "VALID"
  <2>1. r = Row(c, Yes(c), auto)
    BY <1>2 DEF Judged
  <2>2. r = [k |-> c.k, yes |-> Yes(c), auto |-> auto]
    BY <2>1 DEF Row
  <2>3. Yes(c).p = c.p /\ Yes(c).side = "yes"
    BY DEF Yes
  <2> QED
    BY <1>1, <1>2, <2>2, <2>3 DEF PairRows, Hedges
<1>3. CASE Verdict(c.k, c.p) = "INVERTED"
  <2>1. r = Row(c, No(c), auto)
    BY <1>3 DEF Judged, SwapTokens
  <2>2. r = [k |-> c.k, yes |-> No(c), auto |-> auto]
    BY <2>1 DEF Row
  <2>3. No(c).p = c.p /\ No(c).side = "no"
    BY DEF No
  <2> QED
    BY <1>1, <1>3, <2>2, <2>3 DEF PairRows, Hedges
<1>4. CASE Verdict(c.k, c.p) \notin {"VALID", "INVERTED"}
  BY <1>4 DEF Judged
<1> QED
  BY <1>2, <1>3, <1>4

\* Rows of one kind are told apart by their keys.
LEMMA KeysTell ==
  ASSUME NEW rows, rows \subseteq PairRows, NEW auto, \A r \in rows : r.auto = auto
  PROVE  OneOfEach(rows)
<1> SUFFICES ASSUME NEW r \in rows, NEW q \in rows, Key(r) = Key(q) PROVE r = q
  BY DEF OneOfEach
<1>1. r \in PairRows /\ q \in PairRows /\ r.auto = q.auto
  OBVIOUS
<1>2. r.k = q.k /\ r.yes = q.yes
  BY DEF Key
<1> QED
  BY <1>1, <1>2 DEF PairRows

LEMMA SavesNotes ==
  ASSUME NEW cs, cs \subseteq Cands
  PROVE  {[k |-> c.k, yes |-> Yes(c)] : c \in cs} \subseteq Notes
BY CandidateIs DEF Notes

LEMMA SavesPotential ==
  ASSUME FilesTyped, NEW cs, cs \subseteq Cands
  PROVE  SavePotential(cs) \subseteq Notes /\ SaveRejected(cs) \subseteq Notes
BY SavesNotes DEF SavePotential, SaveRejected, FilesTyped

\* A script that is over promises nothing.
LEMMA EndedKeeps ==
  ASSUME NEW why \in Over, job' = Ended(why)
  PROVE  JobInv'
<1>1. job' = [kind |-> why, todo |-> <<>>, tries |-> 1, held |-> {}, met |-> {}]
  BY DEF Ended, Job
<1>2. <<>> \in Seq(Cands \cup KIds) /\ 1 \in 1 .. Retries
  BY CrossConstants
<1>3. job' \in JobRec
  BY <1>1, <1>2 DEF JobRec
<1>4. job'.kind = why /\ why \notin Judges /\ why \notin Discoveries /\ why \notin Cleaners
  BY <1>1 DEF Over, Judges, Discoveries, Cleaners
<1>5. Judging' /\ AskedIsHeld'
  BY <1>4 DEF Judging, AskedIsHeld
<1>6. Cleaning'
  BY <1>4 DEF Cleaning, Cleaners
<1> QED
  BY <1>3, <1>5, <1>6 DEF JobInv

\* Nothing of the script's own changes but its tries.
LEMMA JobKept ==
  ASSUME JobInv, UNCHANGED <<job, open, pairs, rejected, archive>>
  PROVE  JobInv'
BY DEF JobInv, JobRec, Judging, AskedIsHeld, Cleaning, Gone

LEMMA JudgesApart ==
  ASSUME NEW kind \in Judges
  PROVE  kind \notin Over /\ kind \notin Discoveries /\ kind \notin Cleaners
BY DEF Over, Judges, Discoveries, Cleaners

LEMMA DiscoveriesApart ==
  ASSUME NEW kind \in Discoveries
  PROVE  kind \notin Over /\ kind \notin Judges /\ kind \notin Cleaners
BY DEF Over, Judges, Discoveries, Cleaners

LEMMA JudgeGoes ==
  ASSUME job' \in JobRec, job'.kind \in Judges, job'.todo \in Seq(Cands), job'.todo # <<>>
  PROVE  JobInv'
<1>1. Judging' /\ AskedIsHeld'
  BY JudgesApart DEF Judging, AskedIsHeld
<1>2. Cleaning'
  BY JudgesApart DEF Cleaning, Cleaners
<1> QED
  BY <1>1, <1>2 DEF JobInv

\* A judge or a person goes on to what is left of the candidates.
LEMMA DoneKeeps ==
  ASSUME JobInv, job.kind \in Judges, NEW rest, rest \in Seq(Cands), job' = Done(rest)
  PROVE  JobInv'
<1>1. CASE rest = <<>>
  BY <1>1, EndedKeeps DEF Done, Over
<1>2. CASE rest # <<>>
  <2>1. job' = [job EXCEPT !.todo = rest, !.tries = 1] /\ job \in JobRec
    BY <1>2 DEF Done, JobInv
  <2>2. rest \in Seq(Cands \cup KIds) /\ 1 \in 1 .. Retries
    BY WiderSeq, CrossConstants
  <2>3. job' \in JobRec /\ job'.kind = job.kind /\ job'.todo = rest
    BY <2>1, <2>2 DEF JobRec
  <2> QED
    BY <1>2, <2>3, JudgeGoes
<1> QED
  BY <1>1, <1>2

-----------------------------------------------------------------------------
(* Judging *)

LEMMA FetchedIn == \A noLive \in BOOLEAN : Fetched(noLive) \subseteq Records /\ IdsOf(Fetched(noLive)) \subseteq KIds \cup PIds
<1> TAKE noLive \in BOOLEAN
<1>1. KalshiMarkets \subseteq Kalshis(Records) /\ PolyMarkets(noLive) \subseteq Polys(Records)
  BY DEF KalshiMarkets, PolyMarkets, Kalshis, Polys
<1> QED
  BY <1>1 DEF Fetched, IdsOf, KIds, PIds, Kalshis, Polys

LEMMA FoundIn ==
  ASSUME NEW S, S \subseteq Records, NEW already
  PROVE  FindCandidates(S, already) \subseteq Cands
<1> SUFFICES ASSUME NEW k \in Kalshis(S), NEW p \in Nearby(k, Hits(k, S))
             PROVE  Candidate(k, p) \in Cands
  BY DEF FindCandidates
<1>1. p \in Polys(S)
  BY DEF Nearby, Hits
<1> QED
  BY <1>1, CandidateMade DEF Kalshis, Polys

LEMMA StartJudgeKeeps ==
  ASSUME FilesInv, NEW kind \in Judges, NEW kept, NEW n \in Nat, NEW noLive \in BOOLEAN,
         StartJudge(kind, kept, n, noLive)
  PROVE  FilesInv'
<1>1. UNCHANGED <<open, pairs, potential, rejected, review, archive, spent, audited>>
  BY DEF StartJudge, files
<1>2. index' \subseteq KIds \cup PIds
  BY FetchedIn DEF StartJudge
<1>3. FilesTyped' /\ PairsInv'
  BY <1>1, <1>2 DEF FilesInv, FilesTyped, PairsInv, OneOfEach, Hedges, Key
<1> DEFINE S == Filtered(FindCandidates(Fetched(noLive), Already), kept)
<1>4. PICK q \in Ranked(S) : job' = IF Limited(q, n) = <<>> THEN Ended("done") ELSE Job(kind, Limited(q, n))
  BY DEF StartJudge
<1>5. S \subseteq Cands
  BY FetchedIn, FoundIn DEF Filtered
<1> HIDE DEF S
<1>6. q \in Seq(S)
  <2>1. IsFiniteSet(S)
    BY <1>5, CandsFinite, FS_Subset
  <2> QED
    BY <2>1, OrderIs DEF Ranked
<1>7. Limited(q, n) \in Seq(Cands)
  <2>1. q \in Seq(Cands)
    BY <1>5, <1>6, WiderSeq
  <2>2. (IF n < Len(q) THEN n ELSE Len(q)) \in Nat /\ (IF n < Len(q) THEN n ELSE Len(q)) <= Len(q)
    BY <2>1
  <2> QED
    BY <2>1, <2>2, PartSeq DEF Limited
<1>8. JobInv'
  <2>1. CASE Limited(q, n) = <<>>
    BY <1>4, <2>1, EndedKeeps DEF Over
  <2>2. CASE Limited(q, n) # <<>>
    <3>1. job' = [kind |-> kind, todo |-> Limited(q, n), tries |-> 1, held |-> {}, met |-> {}]
      BY <1>4, <2>2 DEF Job
    <3>2. Limited(q, n) \in Seq(Cands \cup KIds) /\ 1 \in 1 .. Retries
      BY <1>7, WiderSeq, CrossConstants
    <3>3. job' \in JobRec
      BY <3>1, <3>2 DEF JobRec
    <3> QED
      BY <1>7, <2>2, <3>1, <3>3, JudgeGoes
  <2> QED
    BY <2>1, <2>2
<1> QED
  BY <1>3, <1>8 DEF FilesInv

\* The candidates of a batch, and those after it.
LEMMA BatchIs ==
  ASSUME JobInv, job.kind \in Judges
  PROVE  Batch \in Seq(Cands) /\ Rest \in Seq(Cands)
<1>1. job.todo \in Seq(Cands)
  BY DEF JobInv, Judging
<1> DEFINE b == IF BatchSize < Len(job.todo) THEN BatchSize ELSE Len(job.todo)
<1>2. b \in Nat /\ b <= Len(job.todo)
  BY <1>1, CrossConstants
<1>3. Batch \in Seq(Cands)
  <2> HIDE DEF b
  <2>1. SubSeq(job.todo, 1, b) \in Seq(Cands)
    BY <1>1, <1>2, PartSeq
  <2> QED
    BY <2>1 DEF Batch, b
<1>4. Len(Batch) + 1 \in Nat \ {0} /\ Len(job.todo) \in Nat
  BY <1>1, <1>3
<1>5. Rest \in Seq(Cands)
  BY <1>1, <1>4, PartSeq DEF Rest
<1> QED
  BY <1>3, <1>5

LEMMA ToldIs ==
  ASSUME JobInv, job.kind \in Judges, NEW reply \in Replies(Len(Batch)), NEW v \in Told(reply)
  PROVE  v.c \in Cands /\ v.status = Verdict(v.c.k, v.c.p)
<1>1. Batch \in Seq(Cands)
  BY BatchIs
<1>2. PICK i \in SetOf(reply) : v = [c |-> Batch[i], status |-> Verdict(Batch[i].k, Batch[i].p)]
  BY DEF Told
<1>3. \E k \in Nat : reply \in [1 .. k -> 1 .. Len(Batch)]
  BY <1>1 DEF Replies
<1>4. i \in 1 .. Len(Batch)
  BY <1>2, <1>3 DEF SetOf
<1>5. Batch[i] \in Cands
  BY <1>1, <1>4, ElementOfSeq
<1> QED
  BY <1>2, <1>5

LEMMA RecordKeeps ==
  ASSUME FilesInv, job.kind \in Judges, NEW reply \in Replies(Len(Batch)),
         NEW told, told \subseteq Told(reply), Recorded(told)
  PROVE  PairsInv' /\ potential' \subseteq Notes
<1> DEFINE rows == UNION {Judged(v.c, v.status, FALSE) : v \in told}
<1>1. \A v \in told : v.c \in Cands /\ v.status = Verdict(v.c.k, v.c.p)
  BY ToldIs DEF FilesInv
<1>2. \A r \in rows : r \in PairRows /\ Hedges(r) /\ r.auto = FALSE
  <2> SUFFICES ASSUME NEW v \in told, NEW r \in Judged(v.c, v.status, FALSE)
               PROVE  r \in PairRows /\ Hedges(r) /\ r.auto = FALSE
    OBVIOUS
  <2> QED
    BY <1>1, JudgedIs
<1>3. pairs' = SavePairs(rows)
  BY DEF Recorded
<1> HIDE DEF rows
<1>4. OneOfEach(rows)
  BY <1>2, KeysTell
<1>5. PairsInv'
  BY <1>2, <1>3, <1>4, SaveKeeps DEF FilesInv
<1>6. {v.c : v \in {w \in told : w.status = "CONDITIONAL"}} \subseteq Cands
  BY <1>1
<1>7. potential' \subseteq Notes
  BY <1>6, SavesPotential DEF Recorded, FilesInv
<1> QED
  BY <1>5, <1>7

LEMMA ChargedIs == spent \in 0 .. CostCap => Charged \in 0 .. CostCap
BY CrossConstants DEF Charged

LEMMA JudgeKeeps ==
  ASSUME FilesInv, NEW reply \in Replies(Len(Batch)), job.kind \in {"judge", "ollama"},
         NEW told, told \subseteq Told(reply), Recorded(told), spent' = Charged,
         UNCHANGED <<open, index, rejected, review, archive, audited>>
  PROVE  FilesTyped' /\ PairsInv'
<1>1. PairsInv' /\ potential' \subseteq Notes
  BY RecordKeeps DEF Judges
<1>2. spent' \in 0 .. CostCap
  BY ChargedIs DEF FilesInv, FilesTyped
<1> QED
  BY <1>1, <1>2 DEF FilesInv, FilesTyped

LEMMA BatchKeeps ==
  ASSUME FilesInv, NEW reply \in Replies(Len(Batch)), JudgeBatch(reply)
  PROVE  FilesInv'
<1>1. job.kind \in {"judge", "ollama"} /\ job.kind \in Judges
  BY DEF JudgeBatch, Judges
<1>2. FilesTyped' /\ PairsInv'
  BY <1>1, JudgeKeeps DEF JudgeBatch
<1>3. JobInv'
  BY <1>1, BatchIs, DoneKeeps DEF JudgeBatch, FilesInv
<1> QED
  BY <1>2, <1>3 DEF FilesInv

LEMMA BatchKilled ==
  ASSUME FilesInv, NEW reply \in Replies(Len(Batch)), NEW done, KilledInBatch(reply, done)
  PROVE  FilesInv'
<1>1. FilesTyped' /\ PairsInv'
  <2>1. {v \in Told(reply) : v.status \in done} \subseteq Told(reply)
    OBVIOUS
  <2> QED
    BY <2>1, JudgeKeeps DEF KilledInBatch
<1>2. JobInv'
  BY EndedKeeps DEF KilledInBatch, Over
<1> QED
  BY <1>1, <1>2 DEF FilesInv

\* Steps that write no file and change nothing else than the script.
LEMMA FilesKeptAlike ==
  ASSUME FilesInv, UNCHANGED <<open, index, files, spent, audited>>
  PROVE  FilesTyped' /\ PairsInv'
BY DEF FilesInv, FilesTyped, PairsInv, OneOfEach, Hedges, Key, files

LEMMA FailsKeep ==
  ASSUME FilesInv, JudgeFails \/ BalanceExhausted \/ Quit \/ StatusesFail \/ NothingGone \/ ArchiveFails \/ Kill
  PROVE  FilesInv'
<1>1. UNCHANGED <<open, index, files, spent, audited>>
  BY DEF JudgeFails, BalanceExhausted, Quit, StatusesFail, NothingGone, ArchiveFails, Kill
<1>2. CASE JudgeFails /\ job.tries < Retries
  <2>1. job \in JobRec /\ job' = [job EXCEPT !.tries = @ + 1] /\ job.kind \in Judges
    BY <1>2 DEF JudgeFails, FilesInv, JobInv, Judges
  <2>2. job.tries + 1 \in 1 .. Retries
    BY <1>2, <2>1, CrossConstants DEF JobRec
  <2>3. job' \in JobRec /\ job'.kind = job.kind /\ job'.todo = job.todo
    BY <2>1, <2>2 DEF JobRec
  <2>4. JobInv'
    BY <2>1, <2>3, JudgeGoes DEF FilesInv, JobInv, Judging
  <2> QED
    BY <1>1, <2>4, FilesKeptAlike DEF FilesInv
<1>3. CASE ~(JudgeFails /\ job.tries < Retries)
  <2>1. \E why \in Over : job' = Ended(why)
    BY <1>3 DEF JudgeFails, BalanceExhausted, Quit, StatusesFail, NothingGone, ArchiveFails, Kill, Over
  <2>2. JobInv'
    BY <2>1, EndedKeeps
  <2> QED
    BY <1>1, <2>2, FilesKeptAlike DEF FilesInv
<1> QED
  BY <1>2, <1>3

-----------------------------------------------------------------------------
(* The person at the keyboard *)

LEMMA PressKeeps ==
  ASSUME FilesInv, NEW key \in {"judge", "skip"}, Press(key)
  PROVE  FilesInv'
<1> DEFINE c == Head(job.todo)
<1>1. job.kind = "manual" /\ job.kind \in Judges
  BY DEF Press, Judges
<1>2. c \in Cands /\ Tail(job.todo) \in Seq(Cands)
  BY <1>1, HeadTailProperties DEF FilesInv, JobInv, Judging
<1>3. job' = Done(Tail(job.todo)) /\ UNCHANGED <<open, index, review, archive, spent, audited>>
  BY DEF Press
<1>4. \/ /\ pairs' = SavePairs(Judged(c, Verdict(c.k, c.p), FALSE))
         /\ potential' \in {SavePotential({c}), potential} /\ rejected' \in {SaveRejected({c}), rejected}
      \/ rejected' = SaveRejected({c}) /\ UNCHANGED <<pairs, potential>>
  BY DEF Press
<1> HIDE DEF c
<1>5. PairsInv'
  <2> DEFINE rows == Judged(c, Verdict(c.k, c.p), FALSE)
  <2>1. \A r \in rows : r \in PairRows /\ Hedges(r) /\ r.auto = FALSE
    BY <1>2, JudgedIs
  <2>2. pairs' = SavePairs(rows) \/ pairs' = pairs
    BY <1>4
  <2> HIDE DEF rows
  <2>3. OneOfEach(rows)
    BY <2>1, KeysTell
  <2>4. CASE pairs' = SavePairs(rows)
    BY <2>1, <2>3, <2>4, SaveKeeps DEF FilesInv
  <2>5. CASE pairs' = pairs
    BY <2>5 DEF FilesInv, PairsInv, OneOfEach, Hedges, Key
  <2> QED
    BY <2>2, <2>4, <2>5
<1>6. potential' \subseteq Notes /\ rejected' \subseteq Notes
  <2>1. SavePotential({c}) \subseteq Notes /\ SaveRejected({c}) \subseteq Notes
    BY <1>2, SavesPotential DEF FilesInv
  <2> QED
    BY <1>4, <2>1 DEF FilesInv, FilesTyped
<1>7. FilesTyped'
  BY <1>3, <1>6 DEF FilesInv, FilesTyped
<1>8. JobInv'
  BY <1>1, <1>2, <1>3, DoneKeeps DEF FilesInv
<1> QED
  BY <1>5, <1>7, <1>8 DEF FilesInv

LEMMA OverrideKeeps ==
  ASSUME FilesInv, NEW c \in Cands, Override(c)
  PROVE  FilesInv'
<1> DEFINE old == Head(job.todo)
<1>1. job.kind = "manual" /\ job.kind \in Judges
  BY DEF Override, Judges
<1>2. old \in Cands /\ Tail(job.todo) \in Seq(Cands)
  BY <1>1, HeadTailProperties DEF FilesInv, JobInv, Judging
<1>3. rejected' = SaveRejected({old}) /\ job' = [job EXCEPT !.todo = <<c>> \o Tail(job.todo)]
      /\ UNCHANGED <<open, index, pairs, potential, review, archive, spent, audited>>
  BY DEF Override
<1> HIDE DEF old
<1>4. rejected' \subseteq Notes
  BY <1>2, <1>3, SavesPotential DEF FilesInv
<1>5. FilesTyped' /\ PairsInv'
  BY <1>3, <1>4 DEF FilesInv, FilesTyped, PairsInv, OneOfEach, Hedges, Key
<1>6. <<c>> \o Tail(job.todo) \in Seq(Cands) /\ <<c>> \o Tail(job.todo) # <<>>
  <2> DEFINE t == Tail(job.todo)
  <2>1. t \in Seq(Cands) /\ <<c>> \in Seq(Cands) /\ Len(<<c>>) = 1
    BY <1>2
  <2> HIDE DEF t
  <2>2. <<c>> \o t \in Seq(Cands) /\ Len(<<c>> \o t) = 1 + Len(t) /\ Len(t) \in Nat
    BY <2>1, ConcatProperties
  <2> QED
    BY <2>2 DEF t
<1>7. job' \in JobRec /\ job'.kind = job.kind /\ job'.todo = <<c>> \o Tail(job.todo)
  <2> DEFINE t == <<c>> \o Tail(job.todo)
  <2>1. t \in Seq(Cands \cup KIds)
    BY <1>6, WiderSeq
  <2> HIDE DEF t
  <2>2. job \in JobRec /\ job' = [job EXCEPT !.todo = t]
    BY <1>3 DEF FilesInv, JobInv, t
  <2>3. job' \in JobRec /\ job'.kind = job.kind /\ job'.todo = t
    BY <2>1, <2>2 DEF JobRec
  <2> QED
    BY <2>3 DEF t
<1>8. JobInv'
  BY <1>1, <1>6, <1>7, JudgeGoes
<1> QED
  BY <1>5, <1>8 DEF FilesInv

\* The twins of a market are the other venue's.
LEMMA TwinsIn ==
  ASSUME NEW m \in Records, NEW S, S \subseteq Records, NEW e \in Twins(TwinSearch(m, S))
  PROVE  e \in S /\ e.venue # m.venue
BY DEF Twins, TwinSearch, TwinScores, Scored

LEMMA PairingsIn ==
  ASSUME NEW ev, NEW target, \E m \in Indexed : m.event = ev,
         \E e \in Twins(TwinSearch(First(ev), Indexed)) : e.event = target
  PROVE  Pairings(ev, target) \subseteq Cands
<1>1. Indexed \subseteq Records
  BY DEF Indexed
<1>2. First(ev) \in Indexed /\ First(ev).event = ev
  BY DEF First
<1>3. PICK e \in Indexed : e.event = target /\ e.venue # First(ev).venue
  <2>1. PICK e \in Twins(TwinSearch(First(ev), Indexed)) : e.event = target
    OBVIOUS
  <2> QED
    BY <1>1, <1>2, <2>1, TwinsIn
<1>4. \A m \in Indexed : m.event = ev => m.venue = First(ev).venue
  BY <1>1, <1>2, CrossAssumption
<1>5. \A m \in Indexed : m.event = target => m.venue = e.venue
  BY <1>1, <1>3, CrossAssumption
<1> SUFFICES ASSUME NEW s \in Suggested(ev, target, Indexed)
             PROVE  (IF s[1].venue = "kalshi" THEN Candidate(s[1], s[2]) ELSE Candidate(s[2], s[1])) \in Cands
  BY DEF Pairings
<1> DEFINE targets == {m \in Indexed : m.event = target}
<1>6. PICK src \in {m \in Indexed : m.event = ev} :
        BestTarget(src, targets) # {} /\ s = <<src, CHOOSE t \in BestTarget(src, targets) : TRUE>>
  BY DEF Suggested
<1>7. s[1] \in Indexed /\ s[1].event = ev /\ s[2] \in targets
  BY <1>6 DEF BestTarget
<1>8. s[1] \in Records /\ s[2] \in Records /\ s[1].venue # s[2].venue
  BY <1>1, <1>3, <1>4, <1>5, <1>7
<1>9. s[1].venue \in {"kalshi", "poly"} /\ s[2].venue \in {"kalshi", "poly"}
  BY <1>8, CrossAssumption
<1> QED
  BY <1>8, <1>9, CandidateMade

LEMMA PairEventKeeps ==
  ASSUME FilesInv, NEW ev, NEW target, PairEvent(ev, target)
  PROVE  FilesInv'
<1> DEFINE cs == Pairings(ev, target)
           rows == {Row(c, Yes(c), FALSE) : c \in cs}
<1>1. cs \subseteq Cands
  BY PairingsIn DEF PairEvent
<1>2. pairs' = SavePairs(rows) /\ \A c \in cs : Verdict(c.k, c.p) = "VALID"
  BY DEF PairEvent
<1>3. UNCHANGED <<open, index, potential, rejected, review, archive, spent, audited, job>>
      /\ job.kind \in Over \cup Judges
  BY DEF PairEvent, Judges
<1> HIDE DEF cs
<1>4. \A r \in rows : r \in PairRows /\ Hedges(r) /\ r.auto = FALSE
  <2> SUFFICES ASSUME NEW c \in cs
               PROVE  Row(c, Yes(c), FALSE) \in PairRows /\ Hedges(Row(c, Yes(c), FALSE))
                      /\ Row(c, Yes(c), FALSE).auto = FALSE
    OBVIOUS
  <2>1. Row(c, Yes(c), FALSE) \in Judged(c, Verdict(c.k, c.p), FALSE)
    BY <1>2 DEF Judged
  <2> QED
    BY <1>1, <2>1, JudgedIs
<1> HIDE DEF rows
<1>5. OneOfEach(rows)
  BY <1>4, KeysTell
<1>6. PairsInv'
  BY <1>2, <1>4, <1>5, SaveKeeps DEF FilesInv
<1>7. FilesTyped'
  BY <1>3 DEF FilesInv, FilesTyped
<1>8. job.kind \notin Discoveries /\ job.kind \notin Cleaners
  BY <1>3 DEF Over, Judges, Discoveries, Cleaners
<1>9. JobInv'
  <2>1. AskedIsHeld'
    BY <1>3, <1>8 DEF AskedIsHeld
  <2>2. Cleaning'
    BY <1>3, <1>8 DEF Cleaning, Cleaners
  <2> QED
    BY <1>3, <2>1, <2>2 DEF FilesInv, JobInv, JobRec, Judging
<1> QED
  BY <1>6, <1>7, <1>9 DEF FilesInv

-----------------------------------------------------------------------------
(* Discovery *)

LEMMA DiscoveryGoes ==
  ASSUME job' \in JobRec, job'.kind \in Discoveries, AskedIsHeld'
  PROVE  JobInv'
<1>1. Judging' /\ Cleaning'
  BY DiscoveriesApart DEF Judging, Cleaning, Cleaners
<1> QED
  BY <1>1 DEF JobInv

LEMMA StartDiscoverKeeps ==
  ASSUME FilesInv, NEW kind \in Discoveries, NEW rebuild \in BOOLEAN, NEW noLive \in BOOLEAN,
         StartDiscover(kind, rebuild, noLive)
  PROVE  FilesInv'
<1> DEFINE S == IF rebuild \/ kind = "daily" THEN Fetched(noLive) ELSE Indexed
           sources == {m.id : m \in {x \in Kalshis(S) : x.id \notin PairedIds \cup RejectedIds}}
<1>1. PICK todo \in SetToSeqs(sources) : job' = [Job(kind, todo) EXCEPT !.held = review]
  BY DEF StartDiscover
<1>2. index' = IdsOf(S) /\ UNCHANGED <<open, pairs, potential, rejected, review, archive, spent, audited>>
  BY DEF StartDiscover, files
<1>3. S \subseteq Records
  BY FetchedIn DEF Indexed
<1> HIDE DEF S
<1>4. sources \subseteq KIds
  BY <1>3 DEF Kalshis, KIds
<1> HIDE DEF sources
<1>5. IdsOf(S) \subseteq KIds \cup PIds
  <2>1. \A m \in S : m.id \in KIds \cup PIds
    BY <1>3, CrossAssumption DEF KIds, PIds, Kalshis, Polys
  <2> QED
    BY <2>1 DEF IdsOf
<1>6. FilesTyped' /\ PairsInv'
  BY <1>2, <1>5 DEF FilesInv, FilesTyped, PairsInv, OneOfEach, Hedges, Key
<1>7. todo \in Seq(KIds)
  <2>1. IsFiniteSet(sources)
    BY <1>4, KIdsFinite, FS_Subset
  <2>2. todo \in Seq(sources)
    BY <2>1, OrderIs
  <2> QED
    BY <1>4, <2>2, WiderSeq
<1>8. job' = [kind |-> kind, todo |-> todo, tries |-> 1, held |-> review, met |-> {}]
  BY <1>1 DEF Job
<1>9. job' \in JobRec
  <2>1. todo \in Seq(Cands \cup KIds) /\ 1 \in 1 .. Retries /\ review \subseteq Notes
    BY <1>7, WiderSeq, CrossConstants DEF FilesInv, FilesTyped
  <2> QED
    BY <1>8, <2>1 DEF JobRec
<1>10. AskedIsHeld'
  BY <1>7, <1>8 DEF AskedIsHeld, FilesInv, FilesTyped
<1>11. JobInv'
  BY <1>8, <1>9, <1>10, DiscoveryGoes
<1> QED
  BY <1>6, <1>11 DEF FilesInv

\* The best twin of the market at the head of the list.
LEMMA BestIs ==
  ASSUME JobInv, Discovering, NEW c \in Best
  PROVE  c \in Cands
<1>1. job.todo \in Seq(KIds) /\ job.todo # <<>>
  BY DEF JobInv, AskedIsHeld, Discovering, Discoveries
<1>2. Head(job.todo) \in KIds
  BY <1>1, HeadTailProperties
<1> DEFINE m == Record(Head(job.todo))
<1>3. m \in Records /\ m.venue = "kalshi"
  BY <1>2, RecordIs
<1> HIDE DEF m
<1>4. Indexed \subseteq Records
  BY DEF Indexed
<1> DEFINE twins == BestTwin(TwinSearch(m, Indexed), MinDiscovery)
<1>5. c \in AsCandidate(m, twins)
  BY DEF Best, Searched, m
<1>6. twins \subseteq Twins(TwinSearch(m, Indexed))
  BY DEF BestTwin
<1> HIDE DEF twins
<1>7. PICK e \in twins : c = Candidate(m, e)
  BY <1>5 DEF AsCandidate
<1>8. e \in Records /\ e.venue # "kalshi"
  BY <1>3, <1>4, <1>6, <1>7, TwinsIn
<1>9. e.venue = "poly"
  BY <1>8, CrossAssumption
<1> QED
  BY <1>3, <1>7, <1>8, <1>9, CandidateMade

LEMMA OnwardIs ==
  ASSUME JobInv, Discovering
  PROVE  /\ Onward \in JobRec /\ Onward.kind = job.kind /\ Onward.todo \in Seq(KIds)
         /\ Onward.held = job.held /\ Onward.met = job.met
         /\ job.kind \in Discoveries
<1>1. job.kind \in Discoveries
  BY DEF Discovering, Discoveries
<1>2. job.todo \in Seq(KIds) /\ job.todo # <<>>
  BY <1>1 DEF JobInv, AskedIsHeld, Discovering
<1> DEFINE t == Tail(job.todo)
<1>3. t \in Seq(KIds)
  BY <1>2, HeadTailProperties
<1>4. t \in Seq(Cands \cup KIds)
  BY <1>3, WiderSeq
<1>5. Onward = [job EXCEPT !.todo = t] /\ job \in JobRec
  BY DEF Onward, JobInv
<1> HIDE DEF t
<1> QED
  BY <1>1, <1>3, <1>4, <1>5 DEF JobRec

LEMMA NoTwinKeeps ==
  ASSUME FilesInv, NoTwin
  PROVE  FilesInv'
<1>1. Discovering /\ job' = Onward /\ UNCHANGED <<open, index, files, spent, audited>>
  BY DEF NoTwin
<1>2. FilesTyped' /\ PairsInv'
  BY <1>1, FilesKeptAlike
<1>3. AskedIsHeld'
  BY <1>1, OnwardIs DEF FilesInv, JobInv, AskedIsHeld, files, Tickers
<1>4. JobInv'
  BY <1>1, <1>3, OnwardIs, DiscoveryGoes DEF FilesInv
<1> QED
  BY <1>2, <1>4 DEF FilesInv

\* What one judgement leaves: rows, a rejection or a note for review, and the ticker is
\* in one of them.
Routed(c, way) ==
  /\ \A r \in way.pairs : r \in PairRows /\ Hedges(r) /\ r.auto = TRUE /\ r.k = c.k
  /\ way.rejected \subseteq {c} /\ way.held \subseteq {[k |-> c.k, yes |-> Yes(c)]}
  /\ way.pairs # {} \/ way.rejected # {} \/ way.held # {}

LEMMA RouteIs ==
  ASSUME NEW c \in Cands, NEW ok \in BOOLEAN, NEW status \in {"VALID", "INVERTED", "INVALID", "CONDITIONAL"},
         ok => status = Verdict(c.k, c.p)
  PROVE  Routed(c, Route(c, status, ok))
<1> DEFINE way == Route(c, status, ok)
<1>1. /\ way.pairs = IF ok THEN Judged(c, status, TRUE) ELSE {}
      /\ way.rejected = IF ok /\ status = "INVALID" THEN {c} ELSE {}
      /\ way.held = IF ok /\ status # "CONDITIONAL" THEN {} ELSE {[k |-> c.k, yes |-> Yes(c)]}
  BY DEF Route
<1> HIDE DEF way
<1>2. \A r \in way.pairs : r \in PairRows /\ Hedges(r) /\ r.auto = TRUE /\ r.k = c.k
  <2>1. CASE ok
    <3>1. way.pairs = Judged(c, Verdict(c.k, c.p), TRUE)
      BY <1>1, <2>1
    <3>2. \A r \in Judged(c, Verdict(c.k, c.p), TRUE) : r.k = c.k
      BY DEF Judged, Row
    <3> QED
      BY <3>1, <3>2, JudgedIs
  <2>2. CASE ~ok
    BY <1>1, <2>2
  <2> QED
    BY <2>1, <2>2
<1>3. way.rejected \subseteq {c} /\ way.held \subseteq {[k |-> c.k, yes |-> Yes(c)]}
  BY <1>1
<1>4. way.pairs # {} \/ way.rejected # {} \/ way.held # {}
  <2>1. CASE status \in {"VALID", "INVERTED"} /\ ok
    <3>1. \E yes : Judged(c, status, TRUE) = {Row(c, yes, TRUE)}
      BY <2>1 DEF Judged
    <3> QED
      BY <1>1, <2>1, <3>1
  <2>2. CASE ~ok \/ status = "CONDITIONAL"
    BY <1>1, <2>2
  <2>3. CASE status = "INVALID" /\ ok
    BY <1>1, <2>3
  <2> QED
    BY <2>1, <2>2, <2>3
<1> QED
  BY <1>2, <1>3, <1>4, Zenon DEF Routed, way

LEMMA DiscoverKeeps ==
  ASSUME FilesInv, NEW sure \in BOOLEAN, NEW answered \in BOOLEAN, Discover(sure, answered)
  PROVE  FilesInv'
<1>1. Discovering
  BY DEF Discover
<1>2. PICK c \in Best :
        LET way == Route(c, IF answered THEN Verdict(c.k, c.p) ELSE "INVALID", sure /\ answered)
        IN  /\ pairs' = SavePairs(way.pairs)
            /\ rejected' = SaveRejected(way.rejected)
            /\ job' = [Onward EXCEPT !.held = @ \cup way.held, !.met = @ \cup {c.k}]
            /\ spent' = IF answered THEN spent + 1 ELSE spent
  BY Zenon DEF Discover
<1>3. UNCHANGED <<open, index, potential, review, archive, audited>>
  BY DEF Discover
<1> DEFINE way == Route(c, IF answered THEN Verdict(c.k, c.p) ELSE "INVALID", sure /\ answered)
           h == job.held \cup way.held
           t == job.met \cup {c.k}
<1>4. c \in Cands /\ c.k \in KIds
  BY <1>1, BestIs, CandidateIs DEF FilesInv
<1>5. Routed(c, way)
  <2> DEFINE status == IF answered THEN Verdict(c.k, c.p) ELSE "INVALID"
  <2>1. status \in {"VALID", "INVERTED", "INVALID", "CONDITIONAL"} /\ (sure /\ answered => status = Verdict(c.k, c.p))
    BY <1>4, VerdictIs
  <2>2. way = Route(c, status, sure /\ answered) /\ (sure /\ answered) \in BOOLEAN
    OBVIOUS
  <2> HIDE DEF way, status
  <2> QED
    BY <1>4, <2>1, <2>2, RouteIs, Zenon
<1>6. /\ pairs' = SavePairs(way.pairs) /\ rejected' = SaveRejected(way.rejected)
      /\ job' = [Onward EXCEPT !.held = h, !.met = t]
      /\ spent' = IF answered THEN spent + 1 ELSE spent
  <2>1. /\ pairs' = SavePairs(way.pairs) /\ rejected' = SaveRejected(way.rejected)
        /\ job' = [Onward EXCEPT !.held = Onward.held \cup way.held, !.met = Onward.met \cup {c.k}]
        /\ spent' = IF answered THEN spent + 1 ELSE spent
    BY <1>2, Zenon
  <2>2. Onward.held = job.held /\ Onward.met = job.met
    BY <1>1, OnwardIs DEF FilesInv
  <2> QED
    BY <2>1, <2>2, Zenon
<1>7. way.rejected \subseteq Cands /\ way.held \subseteq Notes
  BY <1>4, <1>5, CandidateIs DEF Notes, Routed
<1> HIDE DEF way
<1>8. OneOfEach(way.pairs)
  BY <1>5, KeysTell DEF Routed
<1>9. PairsInv'
  BY <1>5, <1>6, <1>8, SaveKeeps DEF FilesInv, Routed
<1>10. rejected' \subseteq Notes
  BY <1>6, <1>7, SavesPotential DEF FilesInv
<1>11. spent' \in 0 .. CostCap
  BY <1>1, <1>6, CrossConstants DEF Discovering, FilesInv, FilesTyped
<1>12. FilesTyped'
  BY <1>3, <1>10, <1>11 DEF FilesInv, FilesTyped
<1>13. h \subseteq Notes /\ t \subseteq KIds
  <2>1. job.held \subseteq Notes /\ job.met \subseteq KIds
    BY <1>1, OnwardIs DEF FilesInv, JobInv, AskedIsHeld, JobRec
  <2> QED
    BY <1>4, <1>7, <2>1
<1>14. t \subseteq Tickers(pairs') \cup Tickers(rejected') \cup Tickers(h)
  <2>1. job.met \subseteq Tickers(pairs) \cup Tickers(rejected) \cup Tickers(job.held)
    BY <1>1, OnwardIs DEF FilesInv, JobInv, AskedIsHeld
  <2>2. pairs \subseteq pairs' /\ Tickers(way.pairs) \subseteq Tickers(pairs')
    BY <1>6, SaveAdds
  <2>3. rejected \subseteq rejected' /\ \A x \in way.rejected : x.k \in Tickers(rejected')
    <3>1. \A x \in way.rejected : [k |-> x.k, yes |-> Yes(x)] \in rejected'
      BY <1>6 DEF SaveRejected
    <3>2. \A x \in way.rejected : x.k \in Tickers(rejected')
      <4> TAKE x \in way.rejected
      <4>1. [k |-> x.k, yes |-> Yes(x)].k \in Tickers(rejected')
        BY <3>1, Zenon DEF Tickers
      <4> QED
        BY <4>1
    <3> QED
      BY <1>6, <3>2 DEF SaveRejected
  <2>4. c.k \in Tickers(pairs') \cup Tickers(rejected') \cup Tickers(h)
    <3>1. CASE way.pairs # {}
      BY <1>5, <2>2, <3>1 DEF Tickers, Routed
    <3>2. CASE way.rejected # {}
      BY <1>5, <2>3, <3>2 DEF Routed
    <3>3. CASE way.held # {}
      <4>1. [k |-> c.k, yes |-> Yes(c)] \in h
        BY <1>5, <3>3 DEF Routed
      <4> QED
        BY <4>1 DEF Tickers
    <3> QED
      BY <1>5, <3>1, <3>2, <3>3 DEF Routed
  <2>5. Tickers(pairs) \subseteq Tickers(pairs') /\ Tickers(rejected) \subseteq Tickers(rejected')
        /\ Tickers(job.held) \subseteq Tickers(h)
    BY <2>2, <2>3 DEF Tickers
  <2> QED
    BY <2>1, <2>4, <2>5
<1> HIDE DEF h, t
<1>15. job' \in JobRec /\ job'.kind = job.kind /\ job'.todo = Onward.todo /\ job'.held = h /\ job'.met = t
  <2>1. Onward \in JobRec /\ Onward.kind = job.kind
    BY <1>1, OnwardIs DEF FilesInv
  <2> QED
    BY <1>6, <1>13, <2>1 DEF JobRec
<1>16. AskedIsHeld'
  <2>1. Onward.todo \in Seq(KIds)
    BY <1>1, OnwardIs DEF FilesInv
  <2> QED
    BY <1>13, <1>14, <1>15, <2>1 DEF AskedIsHeld, Tickers
<1>17. JobInv'
  BY <1>1, <1>15, <1>16, OnwardIs, DiscoveryGoes DEF FilesInv
<1> QED
  BY <1>9, <1>12, <1>17 DEF FilesInv

LEMMA EndDiscoverKeeps ==
  ASSUME FilesInv, NEW broke, EndDiscover(broke)
  PROVE  FilesInv'
<1>1. /\ job.kind \in Discoveries /\ review' = job.held /\ job' = Ended("done")
      /\ audited' \in {Audit, audited}
      /\ UNCHANGED <<open, index, pairs, potential, rejected, archive, spent>>
  BY DEF EndDiscover, Discoveries
<1>2. Audit.confirmed \cap Audit.mismatch = {}
  BY DEF Audit
<1>3. job.held \subseteq Notes
  BY <1>1 DEF FilesInv, JobInv, AskedIsHeld
<1>4. FilesTyped' /\ PairsInv'
  BY <1>1, <1>2, <1>3 DEF FilesInv, FilesTyped, PairsInv, OneOfEach, Hedges, Key
<1> QED
  BY <1>1, <1>4, EndedKeeps DEF FilesInv, Over

-----------------------------------------------------------------------------
(* Cleaning *)

\* The head of a list of distinct members, and what follows it.
LEMMA AskedPart ==
  ASSUME NEW S, NEW s \in Seq(S), IsInjective(s), NEW n \in Nat, n <= Len(s)
  PROVE  /\ Cardinality({s[i] : i \in 1 .. n}) = n
         /\ SubSeq(s, n + 1, Len(s)) \in Seq(S) /\ IsInjective(SubSeq(s, n + 1, Len(s)))
         /\ SetOf(s) \subseteq {s[i] : i \in 1 .. n} \cup SetOf(SubSeq(s, n + 1, Len(s)))
<1> DEFINE A == {s[i] : i \in 1 .. n}
           r == SubSeq(s, n + 1, Len(s))
           f == [i \in 1 .. n |-> s[i]]
<1>1. Len(s) \in Nat /\ DOMAIN s = 1 .. Len(s) /\ \A i \in 1 .. Len(s) : s[i] \in S
  BY ElementOfSeq
<1>2. \A i, j \in 1 .. Len(s) : s[i] = s[j] => i = j
  BY <1>1 DEF IsInjective
<1>3. Cardinality(A) = n
  <2>1. \A i, j \in 1 .. n : s[i] = s[j] => i = j
    BY <1>1, <1>2
  <2>2. f \in Bijection(1 .. n, A)
    BY <2>1 DEF Bijection, Injection, Surjection, IsInjective
  <2>3. ExistsBijection(1 .. n, A)
    BY <2>2 DEF ExistsBijection
  <2>4. IsFiniteSet(1 .. n) /\ Cardinality(1 .. n) = n
    BY FS_Interval
  <2> QED
    BY <2>3, <2>4, FS_Bijection
<1>4. /\ r \in Seq(S) /\ Len(r) = Len(s) - n
      /\ \A i \in 1 .. Len(s) - n : r[i] = s[n + i]
  <2>1. \A i \in n + 1 .. Len(s) : s[i] \in S
    BY <1>1
  <2>2. /\ r \in Seq(S) /\ Len(r) = IF n + 1 <= Len(s) THEN Len(s) - (n + 1) + 1 ELSE 0
        /\ \A i \in 1 .. Len(s) - (n + 1) + 1 : r[i] = s[n + 1 + i - 1]
    BY <1>1, <2>1, SubSeqProperties
  <2> HIDE DEF r
  <2>3. Len(r) = Len(s) - n
    <3> DEFINE l == Len(s)
    <3>1. n \in Nat /\ l \in Nat /\ n <= l /\ Len(r) = IF n + 1 <= l THEN l - (n + 1) + 1 ELSE 0
      BY <1>1, <2>2
    <3> HIDE DEF l
    <3>2. Len(r) = l - n
      BY <3>1
    <3> QED
      BY <3>2 DEF l
  <2>4. ASSUME NEW i \in 1 .. Len(s) - n PROVE r[i] = s[n + i]
    <3>1. i \in 1 .. Len(s) - (n + 1) + 1 /\ n + 1 + i - 1 = n + i
      BY <1>1
    <3> QED
      BY <2>2, <3>1
  <2> QED
    BY <2>2, <2>3, <2>4
<1> HIDE DEF r, A
<1>5. DOMAIN r = 1 .. Len(s) - n
  BY <1>4
<1>6. IsInjective(r)
  <2> SUFFICES ASSUME NEW i \in 1 .. Len(s) - n, NEW j \in 1 .. Len(s) - n, r[i] = r[j] PROVE i = j
    BY <1>5 DEF IsInjective
  <2>1. n + i \in 1 .. Len(s) /\ n + j \in 1 .. Len(s) /\ s[n + i] = s[n + j]
    BY <1>1, <1>4
  <2>2. n + i = n + j
    BY <1>2, <2>1
  <2> QED
    BY <2>2
<1>7. SetOf(s) \subseteq A \cup SetOf(r)
  <2> SUFFICES ASSUME NEW i \in 1 .. Len(s) PROVE s[i] \in A \cup SetOf(r)
    BY <1>1 DEF SetOf
  <2>1. CASE i <= n
    BY <2>1 DEF A
  <2>2. CASE i > n
    <3>1. i - n \in 1 .. Len(s) - n /\ n + (i - n) = i
      BY <1>1, <2>2
    <3>2. r[i - n] = s[i]
      BY <1>4, <3>1
    <3> QED
      BY <1>5, <3>1, <3>2 DEF SetOf
  <2> QED
    BY <1>1, <2>1, <2>2
<1> QED
  BY <1>3, <1>4, <1>6, <1>7 DEF A, r

LEMMA CleaningGoes ==
  ASSUME job' \in JobRec, job'.kind \in Cleaners, Cleaning'
  PROVE  JobInv'
<1>1. Judging' /\ AskedIsHeld'
  BY DEF Judging, AskedIsHeld, Judges, Discoveries, Cleaners
<1> QED
  BY <1>1 DEF JobInv

LEMMA StartCleanKeeps ==
  ASSUME FilesInv, StartClean
  PROVE  FilesInv'
<1>1. UNCHANGED <<open, index, files, spent, audited>>
  BY DEF StartClean
<1>2. PICK todo \in SetToSeqs(Tickers(pairs)) : job' = [Job("clean", todo) EXCEPT !.held = pairs]
  BY DEF StartClean
<1>3. job' = [kind |-> "clean", todo |-> todo, tries |-> 1, held |-> pairs, met |-> {}]
  BY <1>2 DEF Job
<1>4. pairs \subseteq PairRows /\ Tickers(pairs) \subseteq KIds
  BY DEF FilesInv, PairsInv, Tickers, PairRows
<1>5. todo \in Seq(Tickers(pairs)) /\ IsInjective(todo) /\ SetOf(todo) = Tickers(pairs)
  BY <1>4, KIdsFinite, FS_Subset, OrderIs
<1>6. todo \in Seq(KIds) /\ todo \in Seq(Cands \cup KIds)
  BY <1>4, <1>5, WiderSeq
<1>7. job' \in JobRec
  <2>1. 1 \in 1 .. Retries
    BY CrossConstants
  <2>2. pairs \in SUBSET (PairRows \cup Notes)
    BY <1>4
  <2>3. "clean" \in Over \cup Judges \cup Discoveries \cup Cleaners
    BY DEF Cleaners
  <2> QED
    BY <1>3, <1>6, <2>1, <2>2, <2>3 DEF JobRec
<1>8. pairs' = pairs
  BY <1>1 DEF files
<1>9. job'.kind = "clean" /\ job'.held = pairs /\ job'.todo = todo
  BY <1>3
<1>10. \A r \in pairs : r.k \in SetOf(todo)
  BY <1>5 DEF Tickers
<1>11. Cleaning'
  BY <1>5, <1>6, <1>8, <1>9, <1>10 DEF Cleaning
<1>12. JobInv'
  BY <1>7, <1>9, <1>11, CleaningGoes DEF Cleaners
<1> QED
  BY <1>1, <1>12, FilesKeptAlike DEF FilesInv

LEMMA StatusesKeeps ==
  ASSUME FilesInv, Statuses
  PROVE  FilesInv'
<1> DEFINE n == IF CleanBatch < Len(job.todo) THEN CleanBatch ELSE Len(job.todo)
           rest == SubSeq(job.todo, n + 1, Len(job.todo))
           m == job.met \cup (Asked \cap open)
<1>1. /\ job.kind = "clean" /\ UNCHANGED <<open, index, files, spent, audited>>
      /\ job' = [job EXCEPT !.met = @ \cup (Asked \cap open),
                            !.todo = SubSeq(@, Cardinality(Asked) + 1, Len(@))]
  BY DEF Statuses
<1>2. /\ job \in JobRec /\ job.held = pairs /\ job.todo \in Seq(KIds) /\ IsInjective(job.todo)
      /\ \A r \in pairs : r.k \in job.met \/ r.k \notin open \/ r.k \in SetOf(job.todo)
  BY <1>1 DEF FilesInv, JobInv, Cleaning, Cleaners
<1>3. n \in Nat /\ n <= Len(job.todo)
  <2>1. Len(job.todo) \in Nat /\ CleanBatch \in Nat
    BY <1>2, CrossConstants
  <2> QED
    BY <2>1
<1>4. Asked = {job.todo[i] : i \in 1 .. n}
  BY DEF Asked
<1> HIDE DEF n
<1>5. /\ Cardinality(Asked) = n /\ rest \in Seq(KIds) /\ IsInjective(rest)
      /\ SetOf(job.todo) \subseteq Asked \cup SetOf(rest)
  <2>1. /\ Cardinality({job.todo[i] : i \in 1 .. n}) = n
        /\ SubSeq(job.todo, n + 1, Len(job.todo)) \in Seq(KIds) /\ IsInjective(SubSeq(job.todo, n + 1, Len(job.todo)))
        /\ SetOf(job.todo) \subseteq {job.todo[i] : i \in 1 .. n} \cup SetOf(SubSeq(job.todo, n + 1, Len(job.todo)))
    BY <1>2, <1>3, AskedPart, Zenon
  <2> QED
    BY <1>4, <2>1
<1>6. job' = [job EXCEPT !.met = m, !.todo = rest]
  BY <1>1, <1>5
<1>7. rest \in Seq(Cands \cup KIds) /\ m \subseteq KIds
  <2>1. job.met \subseteq KIds /\ open \subseteq KIds
    BY <1>2 DEF JobRec, FilesInv, FilesTyped
  <2> QED
    BY <1>5, <2>1, WiderSeq
<1>8. \A r \in pairs : r.k \in m \/ r.k \notin open \/ r.k \in SetOf(rest)
  BY <1>2, <1>5
<1> HIDE DEF rest, m
<1>9. job' \in JobRec /\ job'.kind = "clean" /\ job'.held = pairs /\ job'.todo = rest /\ job'.met = m
  BY <1>1, <1>2, <1>6, <1>7 DEF JobRec
<1>10. pairs' = pairs /\ open' = open
  BY <1>1 DEF files
<1>11. Cleaning'
  BY <1>5, <1>8, <1>9, <1>10 DEF Cleaning
<1>12. JobInv'
  BY <1>9, <1>11, CleaningGoes DEF Cleaners
<1> QED
  BY <1>1, <1>12, FilesKeptAlike DEF FilesInv

\* When all the statuses are in, what was not called live is closed.
LEMMA GoneIsClosed ==
  ASSUME FilesInv, Fetching
  PROVE  job.held = pairs /\ Gone \subseteq PairRows /\ \A r \in Gone : r.k \notin open
<1>1. job.kind = "clean" /\ job.todo = <<>>
  BY DEF Fetching
<1>2. job.held = pairs /\ \A r \in pairs : r.k \in job.met \/ r.k \notin open \/ r.k \in SetOf(job.todo)
  BY <1>1 DEF FilesInv, JobInv, Cleaning, Cleaners
<1>3. SetOf(job.todo) = {}
  BY <1>1 DEF SetOf
<1> QED
  BY <1>2, <1>3 DEF Gone, FilesInv, PairsInv

LEMMA ArchiveKeeps ==
  ASSUME FilesInv, Archive
  PROVE  FilesInv'
<1>1. /\ Fetching /\ archive' = archive \cup Gone /\ job' = [job EXCEPT !.kind = "prune"]
      /\ UNCHANGED <<open, index, pairs, potential, rejected, review, spent, audited>>
  BY DEF Archive
<1>2. job.held = pairs /\ Gone \subseteq PairRows /\ \A r \in Gone : r.k \notin open
  BY <1>1, GoneIsClosed
<1>3. FilesTyped' /\ PairsInv'
  BY <1>1, <1>2 DEF FilesInv, FilesTyped, PairsInv, OneOfEach, Hedges, Key
<1>4. job' \in JobRec /\ job'.kind = "prune" /\ job'.held = job.held /\ job'.met = job.met
  BY <1>1 DEF FilesInv, JobInv, JobRec, Cleaners
<1>5. Gone' = Gone
  BY <1>4 DEF Gone
<1>6. Cleaning'
  BY <1>1, <1>2, <1>4, <1>5 DEF Cleaning
<1>7. JobInv'
  BY <1>4, <1>6, CleaningGoes DEF Cleaners
<1> QED
  BY <1>3, <1>7 DEF FilesInv

LEMMA PruneKeeps ==
  ASSUME FilesInv, Prune
  PROVE  FilesInv'
<1>1. /\ pairs' = job.held \ Gone /\ job' = Ended("done") /\ job.held = pairs
      /\ UNCHANGED <<open, index, potential, rejected, review, archive, spent, audited>>
  BY DEF Prune, FilesInv, JobInv, Cleaning, Cleaners
<1>2. FilesTyped' /\ PairsInv'
  BY <1>1 DEF FilesInv, FilesTyped, PairsInv, OneOfEach, Hedges, Key
<1>3. JobInv'
  BY <1>1, EndedKeeps DEF Over
<1> QED
  BY <1>2, <1>3 DEF FilesInv

-----------------------------------------------------------------------------
(* The world, and all of it *)

LEMMA ClosesKeeps ==
  ASSUME FilesInv, NEW k, MarketCloses(k)
  PROVE  FilesInv'
<1>1. open' = open \ {k} /\ UNCHANGED <<index, pairs, potential, rejected, review, archive, spent, audited, job>>
  BY DEF MarketCloses, files
<1>2. FilesTyped' /\ PairsInv'
  BY <1>1 DEF FilesInv, FilesTyped, PairsInv, OneOfEach, Hedges, Key
<1>3. Judging' /\ AskedIsHeld'
  BY <1>1 DEF FilesInv, JobInv, Judging, AskedIsHeld
<1>4. Cleaning'
  BY <1>1 DEF FilesInv, JobInv, Cleaning, Gone
<1> QED
  BY <1>1, <1>2, <1>3, <1>4 DEF FilesInv, JobInv, JobRec

LEMMA NewDayKeeps ==
  ASSUME FilesInv, NewDay
  PROVE  FilesInv'
<1>1. spent' = 0 /\ UNCHANGED <<open, index, pairs, potential, rejected, review, archive, audited, job>>
  BY DEF NewDay, files
<1>2. 0 \in 0 .. CostCap
  BY CrossConstants
<1>3. FilesTyped' /\ PairsInv'
  BY <1>1, <1>2 DEF FilesInv, FilesTyped, PairsInv, OneOfEach, Hedges, Key
<1>4. JobInv'
  BY <1>1, JobKept DEF FilesInv
<1> QED
  BY <1>3, <1>4 DEF FilesInv

LEMMA FilesStart == CrossInit => FilesInv
<1> SUFFICES ASSUME CrossInit PROVE FilesInv
  OBVIOUS
<1>1. FilesTyped /\ PairsInv
  BY CrossConstants DEF CrossInit, FilesTyped, PairsInv, OneOfEach, Unaudited
<1>2. job = [kind |-> "done", todo |-> <<>>, tries |-> 1, held |-> {}, met |-> {}]
  BY DEF CrossInit, Ended, Job
<1>3. <<>> \in Seq(Cands \cup KIds) /\ 1 \in 1 .. Retries
  BY CrossConstants
<1>4. job \in JobRec
  BY <1>2, <1>3 DEF JobRec, Over
<1>5. Judging /\ AskedIsHeld /\ Cleaning
  BY <1>2 DEF Judging, AskedIsHeld, Cleaning, Judges, Discoveries, Cleaners
<1> QED
  BY <1>1, <1>4, <1>5 DEF FilesInv, JobInv

LEMMA FilesStep == FilesInv /\ [CrossNext]_crossVars => FilesInv'
<1> SUFFICES ASSUME FilesInv, [CrossNext]_crossVars PROVE FilesInv'
  OBVIOUS
<1>1. ASSUME NEW kind \in {"judge", "ollama", "manual"}, NEW cat \in {"", "Politics"},
             StartJudge(kind, IdsOf({m \in Records : cat \in {"", m.cat}}),
                        IF cat = "" THEN Cardinality(Cands) ELSE 1, cat # "")
      PROVE  FilesInv'
  <2>1. (IF cat = "" THEN Cardinality(Cands) ELSE 1) \in Nat
    BY CandsFinite, FS_CardinalityType
  <2>2. kind \in Judges /\ (cat # "") \in BOOLEAN
    BY DEF Judges
  <2> QED
    BY <1>1, <2>1, <2>2, StartJudgeKeeps, Zenon
<1>2. ASSUME NEW reply \in Replies(Len(Batch)), JudgeBatch(reply) PROVE FilesInv'
  BY <1>2, BatchKeeps
<1>3. ASSUME NEW reply \in Replies(Len(Batch)), NEW done, KilledInBatch(reply, done) PROVE FilesInv'
  BY <1>3, BatchKilled
<1>4. CASE JudgeFails \/ BalanceExhausted \/ Quit \/ StatusesFail \/ NothingGone \/ ArchiveFails \/ Kill
  BY <1>4, FailsKeep
<1>5. ASSUME NEW key \in {"judge", "skip"}, Press(key) PROVE FilesInv'
  BY <1>5, PressKeeps
<1>6. ASSUME NEW c \in Cands, Override(c) PROVE FilesInv'
  BY <1>6, OverrideKeeps
<1>7. ASSUME NEW ev, NEW target, PairEvent(ev, target) PROVE FilesInv'
  BY <1>7, PairEventKeeps
<1>8. ASSUME NEW kind \in {"discover", "daily"}, NEW rebuild \in BOOLEAN, NEW noLive \in BOOLEAN,
             StartDiscover(kind, rebuild, noLive)
      PROVE  FilesInv'
  BY <1>8, StartDiscoverKeeps DEF Discoveries
<1>9. CASE NoTwin
  BY <1>9, NoTwinKeeps
<1>10. ASSUME NEW sure \in BOOLEAN, NEW answered \in BOOLEAN, Discover(sure, answered) PROVE FilesInv'
  BY <1>10, DiscoverKeeps
<1>11. ASSUME NEW broke \in BOOLEAN, EndDiscover(broke) PROVE FilesInv'
  BY <1>11, EndDiscoverKeeps
<1>12. CASE StartClean
  BY <1>12, StartCleanKeeps
<1>13. CASE Statuses
  BY <1>13, StatusesKeeps
<1>14. CASE Archive
  BY <1>14, ArchiveKeeps
<1>15. CASE Prune
  BY <1>15, PruneKeeps
<1>16. ASSUME NEW k \in Closing, MarketCloses(k) PROVE FilesInv'
  BY <1>16, ClosesKeeps
<1>17. CASE NewDay
  BY <1>17, NewDayKeeps
<1>18. CASE UNCHANGED crossVars
  <2>1. UNCHANGED <<open, index, files, spent, audited>> /\ UNCHANGED <<job, open, pairs, rejected, archive>>
    BY <1>18 DEF crossVars, files
  <2> QED
    BY <2>1, FilesKeptAlike, JobKept DEF FilesInv
<1> QED
  BY <1>1, <1>2, <1>3, <1>4, <1>5, <1>6, <1>7, <1>8, <1>9, <1>10, <1>11, <1>12, <1>13, <1>14, <1>15,
     <1>16, <1>17, <1>18, Zenon DEF CrossNext

LEMMA FilesAlways == CrossSpec => []FilesInv
BY FilesStart, FilesStep, PTL DEF CrossSpec

\* For any markets, verdicts, batches and budgets: every row of the pair file hedges,
\* no pair of tokens is in it twice and all the files hold what their readers expect,
\* whatever batch a script was killed in and whatever it read.
THEOREM FilesHeld == CrossSpec => []FilesSound
BY FilesAlways, FilesInvSound, PTL

-----------------------------------------------------------------------------
(* What leaves the file, and what was paid for *)

\* Only the pruning takes rows out of the file.
LEMMA OnlyPruned ==
  ASSUME FilesInv, [CrossNext]_crossVars, pairs \ pairs' # {}
  PROVE  Prune
<1>1. \A rows : pairs \subseteq SavePairs(rows)
  BY DEF SavePairs
<1>2. ASSUME NEW reply, NEW done, JudgeBatch(reply) \/ KilledInBatch(reply, done) PROVE pairs \subseteq pairs'
  BY <1>1, <1>2, Zenon DEF JudgeBatch, KilledInBatch, Recorded
<1>3. ASSUME NEW key \in {"judge", "skip"}, Press(key) PROVE pairs \subseteq pairs'
  <2>1. (\E rows : pairs' = SavePairs(rows)) \/ pairs' = pairs
    BY <1>3 DEF Press
  <2> QED
    BY <1>1, <2>1
<1>4. ASSUME NEW ev, NEW target, PairEvent(ev, target) PROVE pairs \subseteq pairs'
  BY <1>1, <1>4 DEF PairEvent
<1>5. ASSUME NEW sure, NEW answered, Discover(sure, answered) PROVE pairs \subseteq pairs'
  <2>1. \E rows : pairs' = SavePairs(rows)
    BY <1>5, Zenon DEF Discover
  <2> QED
    BY <1>1, <2>1
<1>6. \/ Prune \/ pairs' = pairs
      \/ \E reply, done : JudgeBatch(reply) \/ KilledInBatch(reply, done)
      \/ \E key \in {"judge", "skip"} : Press(key)
      \/ \E ev, target : PairEvent(ev, target)
      \/ \E sure, answered : Discover(sure, answered)
  BY Zenon DEF CrossNext, crossVars, files, StartJudge, JudgeFails, BalanceExhausted, Override, Quit,
     StartDiscover, NoTwin, EndDiscover, StartClean, Statuses, StatusesFail, NothingGone, Archive, ArchiveFails,
     MarketCloses, NewDay, Kill
<1> QED
  BY <1>2, <1>3, <1>4, <1>5, <1>6

LEMMA PrunedIsGone ==
  ASSUME FilesInv, [CrossNext]_crossVars, NEW r \in pairs \ pairs'
  PROVE  r.k \notin open /\ r \in archive
<1>1. Prune
  BY OnlyPruned
<1>2. /\ job.held = pairs /\ pairs' = job.held \ Gone
      /\ Gone \subseteq archive /\ \A q \in Gone : q.k \notin open
  BY <1>1 DEF Prune, FilesInv, JobInv, Cleaning, Cleaners
<1> QED
  BY <1>2

\* A discovery that ends by itself writes what it held.
LEMMA AskedIsFiled ==
  ASSUME FilesInv, [CrossNext]_crossVars, job.kind \in {"discover", "daily"}, job'.kind = "done"
  PROVE  job.met \subseteq Tickers(pairs) \cup Tickers(rejected) \cup Tickers(review')
<1>1. /\ job.kind \notin Over /\ job.kind \notin {"judge", "ollama"} /\ job.kind \notin {"manual"}
      /\ job.kind # "judge" /\ job.kind # "manual" /\ job.kind # "clean" /\ job.kind # "prune"
  BY DEF Over
<1>2. \/ \E broke : EndDiscover(broke)
      \/ NoTwin \/ (\E sure, answered : Discover(sure, answered)) \/ job' = job \/ Kill
  BY <1>1, Zenon DEF CrossNext, crossVars, StartJudge, JudgeBatch, KilledInBatch, JudgeFails, BalanceExhausted,
     Press, Override, Quit, PairEvent, StartDiscover, StartClean, Statuses, StatusesFail, Fetching, NothingGone,
     Archive, ArchiveFails, Prune, MarketCloses, NewDay
<1>3. ~Kill /\ job' # job
  BY <1>1 DEF Kill, Ended, Job, Over
<1>4. ~NoTwin
  BY <1>1, OnwardIs DEF NoTwin, FilesInv, Over
<1>5. ASSUME NEW sure, NEW answered, Discover(sure, answered) PROVE FALSE
  <2>1. Discovering /\ \E h, m : job' = [Onward EXCEPT !.held = h, !.met = m]
    BY <1>5, Zenon DEF Discover
  <2>2. Onward \in JobRec /\ Onward.kind = job.kind
    BY <2>1, OnwardIs DEF FilesInv
  <2>3. job'.kind = job.kind
    BY <2>1, <2>2 DEF JobRec
  <2> QED
    BY <1>1, <2>3 DEF Over
<1>6. PICK broke : EndDiscover(broke)
  BY <1>2, <1>3, <1>4, <1>5
<1>7. review' = job.held
  BY <1>6 DEF EndDiscover
<1> QED
  BY <1>7 DEF FilesInv, JobInv, AskedIsHeld, Discoveries

\* For any markets, verdicts, batches and budgets: no row of a live market is pruned, a
\* row is in the archive before it leaves the file, and whatever a judge was paid for is
\* in a file when the discovery ends by itself.
THEOREM FilesNeverLost == CrossSpec => LiveKept /\ ArchivedFirst /\ JudgedIsOnFile
<1>1. FilesInv /\ [CrossNext]_crossVars => [\A r \in pairs \ pairs' : r.k \notin open]_crossVars
  BY PrunedIsGone
<1>2. FilesInv /\ [CrossNext]_crossVars => [\A r \in pairs \ pairs' : r \in archive]_crossVars
  BY PrunedIsGone
<1>3. FilesInv /\ [CrossNext]_crossVars =>
        [(job.kind \in {"discover", "daily"} /\ job'.kind = "done") =>
           job.met \subseteq (Tickers(pairs) \cup Tickers(rejected) \cup Tickers(review'))]_crossVars
  BY AskedIsFiled
<1> QED
  BY <1>1, <1>2, <1>3, FilesAlways, PTL DEF CrossSpec, LiveKept, ArchivedFirst, JudgedIsOnFile


-----------------------------------------------------------------------------
(* Counting up *)

\* A non-empty set of naturals has a least one.
LEMMA LeastNat ==
  ASSUME NEW T, T \subseteq Nat, T # {}
  PROVE  \E x \in T : \A y \in T : x <= y
<1>1. IsWellFoundedOn({p \in Nat \X Nat : p[1] < p[2]}, Nat)
  BY NatLessThanWellFounded DEF OpToRel
<1>2. PICK x \in T : \A y \in T : ~(<<y, x>> \in {p \in Nat \X Nat : p[1] < p[2]})
  BY <1>1, WFMin
<1>3. \A y \in T : x <= y
  <2> TAKE y \in T
  <2>1. x \in Nat /\ y \in Nat /\ ~(<<y, x>> \in {p \in Nat \X Nat : p[1] < p[2]})
    BY <1>2
  <2>2. ~(y < x)
    BY <2>1
  <2> QED
    BY <2>1, <2>2
<1> QED
  BY <1>3

\* Induction up to n, over a set.
LEMMA UpTo ==
  ASSUME NEW T, NEW n \in Nat, 0 \in T, \A i \in 1 .. n : i - 1 \in T => i \in T
  PROVE  0 .. n \subseteq T
<1>1. SUFFICES ASSUME NEW z \in 0 .. n, z \notin T PROVE FALSE
  OBVIOUS
<1> DEFINE U == {i \in 0 .. n : i \notin T}
<1>2. U \subseteq Nat /\ U # {}
  BY <1>1
<1>3. PICK x \in U : \A y \in U : x <= y
  BY <1>2, LeastNat
<1>4. x \in 1 .. n
  OBVIOUS
<1>5. x - 1 \notin U
  BY <1>3, <1>4
<1> QED
  BY <1>4, <1>5

-----------------------------------------------------------------------------
(* A pass over the file *)

LEMMA LenNat == Len(Markets) \in Nat /\ DOMAIN Markets = 1 .. Len(Markets)
BY MarketsAssumption

\* The recursion of a pass has a solution: market after market.
LEMMA PassRuns ==
  ASSUME NEW base, NEW cat
  PROVE  \E f : /\ f[0] = base
                /\ \A i \in 1 .. Len(Markets) : f[i] = FillStep(f[i - 1], Markets[i], cat)
                /\ Pass(base, cat) = f[Len(Markets)]
<1> DEFINE n == Len(Markets)
           St(a, i) == FillStep(a, Markets[i], cat)
<1>n. n \in Nat
  BY LenNat
<1> DEFINE T == {m \in 0 .. n : \E f : f = [i \in 0 .. m |-> IF i = 0 THEN base ELSE St(f[i - 1], i)]}
<1> HIDE DEF n, St
<1>1. 0 \in T
  <2> DEFINE f == [i \in 0 .. 0 |-> base]
  <2>1. f = [i \in 0 .. 0 |-> IF i = 0 THEN base ELSE St(f[i - 1], i)]
    OBVIOUS
  <2>2. \E h : h = [i \in 0 .. 0 |-> IF i = 0 THEN base ELSE St(h[i - 1], i)]
    BY <2>1, Zenon
  <2>3. 0 \in 0 .. n
    BY <1>n
  <2> QED
    BY <2>2, <2>3, Zenon
<1>2. ASSUME NEW m \in 1 .. n, m - 1 \in T
      PROVE  m \in T
  <2>1. PICK f : f = [i \in 0 .. m - 1 |-> IF i = 0 THEN base ELSE St(f[i - 1], i)]
    BY <1>2
  <2> DEFINE h == [i \in 0 .. m |-> IF i = m THEN St(f[m - 1], m) ELSE f[i]]
  <2>2. \A i \in 0 .. m : i # 0 => i - 1 \in 0 .. m /\ h[i - 1] = f[i - 1]
    BY <1>n
  <2>3. \A i \in 0 .. m : h[i] = IF i = 0 THEN base ELSE St(h[i - 1], i)
    <3> SUFFICES ASSUME NEW i \in 0 .. m PROVE h[i] = IF i = 0 THEN base ELSE St(h[i - 1], i)
      OBVIOUS
    <3>1. CASE i = m
      BY <3>1, <2>2, <1>n
    <3>2. CASE i # m
      <4>1. h[i] = f[i] /\ i \in 0 .. m - 1
        BY <3>2, <1>n
      <4>2. f[i] = IF i = 0 THEN base ELSE St(f[i - 1], i)
        BY <2>1, <4>1
      <4> QED
        BY <4>1, <4>2, <2>2
    <3> QED
      BY <3>1, <3>2
  <2>4. h = [i \in 0 .. m |-> h[i]]
    OBVIOUS
  <2> HIDE DEF h
  <2>5. h = [i \in 0 .. m |-> IF i = 0 THEN base ELSE St(h[i - 1], i)]
    BY <2>3, <2>4
  <2> QED
    BY <2>5, <1>n
<1>3. n \in T
  <2> HIDE DEF T
  <2>1. 0 .. n \subseteq T
    BY <1>1, <1>2, <1>n, UpTo
  <2> QED
    BY <2>1, <1>n
<1>4. \E f : f = [i \in 0 .. n |-> IF i = 0 THEN base ELSE St(f[i - 1], i)]
  BY <1>3
<1> DEFINE g == CHOOSE f : f = [i \in 0 .. n |-> IF i = 0 THEN base ELSE St(f[i - 1], i)]
<1>5. g = [i \in 0 .. n |-> IF i = 0 THEN base ELSE St(g[i - 1], i)]
  BY <1>4
<1>6. Pass(base, cat) = g[n]
  BY Zenon DEF Pass, n, St
<1> HIDE DEF g
<1>7. g[0] = base /\ \A i \in 1 .. n : g[i] = St(g[i - 1], i)
  <2>1. \A i \in 0 .. n : g[i] = IF i = 0 THEN base ELSE St(g[i - 1], i)
    BY <1>5, Zenon
  <2> QED
    BY <2>1, <1>n
<1> QED
  BY <1>6, <1>7 DEF n, St

-----------------------------------------------------------------------------
(* Rows and files *)

SidesOfGame == {"home", "away", "draw"}
RowSet == {r \in [yes : Tokens, no : Tokens, three : BOOLEAN, ask : 0 .. 99] :
             (r.yes = NoToken) = (r.no = NoToken)}
FileOK(f) == DOMAIN f \subseteq Ids /\ f \in [DOMAIN f -> RowSet]
MirroredIn(f) ==
  \A a, b \in DOMAIN f :
    (/\ a # b /\ MarketOf(a).ev = MarketOf(b).ev /\ ~MarketOf(a).ev.three
     /\ Filled(f[a]) /\ Filled(f[b])) => Mirror(f[a], f[b])
OneEventIn(f) ==
  \A a, b \in DOMAIN f :
    (Filled(f[a]) /\ Filled(f[b]) /\ f[a].yes = f[b].yes) => MarketOf(a).ev = MarketOf(b).ev
\* g keeps f's rows or clears them.
Thins(g, f) ==
  /\ DOMAIN g = DOMAIN f
  /\ \A id \in DOMAIN f : Filled(g[id]) => Filled(f[id]) /\ g[id] = f[id]

LEMMA MarketOfId ==
  ASSUME NEW id \in Ids
  PROVE  \E i \in DOMAIN Markets : MarketOf(id) = Markets[i] /\ Markets[i].id = id
BY DEF Ids, MarketOf

LEMMA IdOfMarket ==
  ASSUME NEW i \in DOMAIN Markets
  PROVE  Markets[i].id \in Ids /\ MarketOf(Markets[i].id) = Markets[i]
<1>1. Markets[i].id \in Ids
  BY DEF Ids
<1>2. PICK j \in DOMAIN Markets : MarketOf(Markets[i].id) = Markets[j] /\ Markets[j].id = Markets[i].id
  BY <1>1, MarketOfId
<1>3. i = j
  BY <1>2, MarketsAssumption
<1> QED
  BY <1>1, <1>2, <1>3

\* A two-way event has two sides, so a third filled row is one of two.
LEMMA TwoSides ==
  ASSUME NEW a \in Ids, NEW b \in Ids, NEW c \in Ids,
         MarketOf(a).ev = MarketOf(b).ev, MarketOf(c).ev = MarketOf(b).ev,
         ~MarketOf(b).ev.three, a # b
  PROVE  c = a \/ c = b
<1>1. PICK i \in DOMAIN Markets : MarketOf(a) = Markets[i] /\ Markets[i].id = a
  BY MarketOfId
<1>2. PICK j \in DOMAIN Markets : MarketOf(b) = Markets[j] /\ Markets[j].id = b
  BY MarketOfId
<1>3. PICK k \in DOMAIN Markets : MarketOf(c) = Markets[k] /\ Markets[k].id = c
  BY MarketOfId
<1>4. \A x \in {i, j, k} : x \in DOMAIN Markets /\ Markets[x].ev = Markets[j].ev
  BY <1>1, <1>2, <1>3
<1>5. ~Markets[j].ev.three
  BY <1>2
<1>6. \A x \in {i, j, k} : Markets[x].side \in {"home", "away"}
  BY <1>4, <1>5, MarketsAssumption
<1>7. \A x, y \in {i, j, k} : x # y => Markets[x].side # Markets[y].side
  BY <1>4, <1>5, MarketsAssumption
<1>8. k = i \/ k = j \/ i = j
  <2>1. Markets[i].side \in {"home", "away"} /\ Markets[j].side \in {"home", "away"}
        /\ Markets[k].side \in {"home", "away"}
    BY <1>6
  <2>2. /\ i # j => Markets[i].side # Markets[j].side
        /\ i # k => Markets[i].side # Markets[k].side
        /\ j # k => Markets[j].side # Markets[k].side
    BY <1>7
  <2> QED
    BY <2>1, <2>2
<1> QED
  BY <1>1, <1>2, <1>3, <1>8

LEMMA ClearRow ==
  ASSUME NEW r \in RowSet
  PROVE  Clear(r) \in RowSet /\ ~Filled(Clear(r))
<1>1. r \in [yes : Tokens, no : Tokens, three : BOOLEAN, ask : 0 .. 99]
  BY DEF RowSet
<1>2. NoToken \in Tokens
  BY DEF Tokens
<1> HIDE DEF Tokens, NoToken
<1>3. Clear(r) \in [yes : Tokens, no : Tokens, three : BOOLEAN, ask : 0 .. 99]
  BY <1>1, <1>2 DEF Clear
<1>4. Clear(r).yes = NoToken /\ Clear(r).no = NoToken
  BY <1>1 DEF Clear
<1> QED
  BY <1>3, <1>4 DEF RowSet, Filled

LEMMA ClearedFile ==
  ASSUME NEW f, NEW S, FileOK(f)
  PROVE  FileOK(Cleared(f, S)) /\ Thins(Cleared(f, S), f)
         /\ \A id \in DOMAIN f : Filled(Cleared(f, S)[id]) => id \notin S
<1> DEFINE g == Cleared(f, S)
<1>1. DOMAIN g = DOMAIN f /\ \A id \in DOMAIN f : g[id] = IF id \in S THEN Clear(f[id]) ELSE f[id]
  BY DEF Cleared
<1>2. \A id \in DOMAIN f : f[id] \in RowSet /\ Clear(f[id]) \in RowSet /\ ~Filled(Clear(f[id]))
  BY ClearRow DEF FileOK
<1>3. g \in [DOMAIN f -> RowSet]
  BY <1>1, <1>2 DEF Cleared
<1> HIDE DEF g
<1>4. \A id \in DOMAIN f : Filled(g[id]) => id \notin S /\ g[id] = f[id]
  BY <1>1, <1>2
<1>5. Thins(g, f)
  BY <1>1, <1>4 DEF Thins
<1>6. FileOK(g)
  BY <1>1, <1>3 DEF FileOK
<1> QED
  BY <1>4, <1>5, <1>6 DEF g

\* What the gates clear does not turn two rows against each other.
LEMMA ThinnedMirrored ==
  ASSUME NEW f, NEW g, Thins(g, f), MirroredIn(f)
  PROVE  MirroredIn(g)
BY DEF Thins, MirroredIn

LEMMA ThinnedOneEvent ==
  ASSUME NEW f, NEW g, Thins(g, f), OneEventIn(f)
  PROVE  OneEventIn(g)
BY DEF Thins, OneEventIn

LEMMA SiblingFile ==
  ASSUME NEW f, FileOK(f)
  PROVE  FileOK(SiblingValidate(f)) /\ Thins(SiblingValidate(f), f) /\ MirroredIn(SiblingValidate(f))
<1> DEFINE g == SiblingValidate(f)
<1>1. FileOK(g) /\ Thins(g, f) /\ \A id \in DOMAIN f : Filled(g[id]) => id \notin Broken(f)
  BY ClearedFile DEF SiblingValidate
<1> HIDE DEF g
<1>2. SUFFICES ASSUME NEW a \in DOMAIN g, NEW b \in DOMAIN g, a # b,
                      MarketOf(a).ev = MarketOf(b).ev, ~MarketOf(a).ev.three,
                      Filled(g[a]), Filled(g[b])
               PROVE  Mirror(g[a], g[b])
  BY <1>1 DEF MirroredIn, g
<1> DEFINE S == FilledIn(f, MarketOf(a).ev)
<1>3. /\ a \in DOMAIN f /\ b \in DOMAIN f /\ g[a] = f[a] /\ g[b] = f[b]
      /\ Filled(f[a]) /\ Filled(f[b]) /\ a \notin Broken(f)
  BY <1>1, <1>2 DEF Thins
<1>4. a \in S /\ b \in S
  BY <1>2, <1>3 DEF FilledIn
<1>5. S = {a, b}
  <2>1. \A c \in S : c \in Ids /\ MarketOf(c).ev = MarketOf(b).ev
    BY <1>1, <1>2, <1>3 DEF FilledIn, FileOK, Thins
  <2>2. \A c \in S : c = a \/ c = b
    BY <2>1, <1>2, <1>4, TwoSides
  <2> HIDE DEF S
  <2> QED
    BY <2>2, <1>4
<1>6. Cardinality(S) = 2
  <2> HIDE DEF S
  <2>1. S = {b} \cup {a} /\ a \notin {b}
    BY <1>2, <1>5
  <2>2. IsFiniteSet({b}) /\ Cardinality({b}) = 1
    BY FS_Singleton
  <2>3. Cardinality({b} \cup {a}) = 1 + 1
    BY <2>1, <2>2, FS_AddElement
  <2> QED
    BY <2>1, <2>3
<1>7. MarketOf(a).ev \in Events
  <2>1. a \in Ids
    BY <1>1, <1>2 DEF FileOK
  <2> QED
    BY <2>1, MarketOfId DEF Events
<1>8. Mirror(f[a], f[b])
  <2>1. SUFFICES ASSUME ~Mirror(f[a], f[b]) PROVE FALSE
    OBVIOUS
  <2>2. a \in Broken(f)
    BY <2>1, <1>2, <1>4, <1>6, <1>7 DEF Broken
  <2> QED
    BY <2>2, <1>3
<1> QED
  BY <1>3, <1>8

\* The price gate leaves a row, clears it, or turns one of two sides round.
Turned(r) == [r EXCEPT !.yes = r.no, !.no = r.yes]

LEMMA GatedRow ==
  ASSUME NEW r \in RowSet
  PROVE  /\ Gated(r) \in RowSet
         /\ Filled(Gated(r)) => Filled(r) /\ (Gated(r) = r \/ (~r.three /\ Gated(r) = Turned(r)))
<1>1. Clear(r) \in RowSet /\ ~Filled(Clear(r))
  BY ClearRow
<1>2. Turned(r) \in RowSet
  <2>1. r \in [yes : Tokens, no : Tokens, three : BOOLEAN, ask : 0 .. 99] /\ (r.yes = NoToken) = (r.no = NoToken)
    BY DEF RowSet
  <2> HIDE DEF Tokens, NoToken
  <2>2. Turned(r) \in [yes : Tokens, no : Tokens, three : BOOLEAN, ask : 0 .. 99]
        /\ Turned(r).yes = r.no /\ Turned(r).no = r.yes
    BY <2>1 DEF Turned
  <2> QED
    BY <2>1, <2>2 DEF RowSet
<1>3. Gated(r) = r \/ Gated(r) = Clear(r) \/ (Filled(r) /\ ~r.three /\ Gated(r) = Turned(r))
  BY Zenon DEF Gated, GatedBy, GatedAt, Turned
<1>4. ~Filled(r) => Gated(r) = r
  BY DEF Gated
<1> HIDE DEF Gated, Clear, Turned, RowSet, Filled
<1> QED
  BY <1>1, <1>2, <1>3, <1>4

LEMMA PricedFile ==
  ASSUME NEW f, FileOK(f)
  PROVE  /\ FileOK(PriceValidate(f)) /\ DOMAIN PriceValidate(f) = DOMAIN f
         /\ \A id \in DOMAIN f : Filled(PriceValidate(f)[id]) =>
              /\ Filled(f[id])
              /\ \/ PriceValidate(f)[id] = f[id]
                 \/ ~f[id].three /\ PriceValidate(f)[id] = Turned(f[id])
<1> DEFINE g == PriceValidate(f)
<1>1. g = [id \in DOMAIN f |-> Gated(f[id])]
  BY DEF PriceValidate
<1>2. \A id \in DOMAIN f : f[id] \in RowSet
  BY DEF FileOK
<1> HIDE DEF g
<1>3. \A id \in DOMAIN f : g[id] = Gated(f[id]) /\ g[id] \in RowSet
  BY <1>1, <1>2, GatedRow
<1>4. FileOK(g)
  BY <1>1, <1>3 DEF FileOK
<1>5. \A id \in DOMAIN f : Filled(g[id]) =>
              /\ Filled(f[id])
              /\ g[id] = f[id] \/ (~f[id].three /\ g[id] = Turned(f[id]))
  BY <1>2, <1>3, GatedRow
<1> QED
  BY <1>1, <1>4, <1>5 DEF g

LEMMA IdsFinite == IsFiniteSet(Ids)
<1>1. IsFiniteSet(1 .. Len(Markets))
  BY LenNat, FS_Interval
<1> DEFINE name == [i \in 1 .. Len(Markets) |-> Markets[i].id]
<1>2. name \in Surjection(1 .. Len(Markets), Ids)
  BY LenNat DEF Ids, Surjection
<1> QED
  BY <1>1, <1>2, FS_Surjection

LEMMA DuplicateFile ==
  ASSUME NEW f, FileOK(f)
  PROVE  FileOK(DuplicateTokenValidate(f)) /\ Thins(DuplicateTokenValidate(f), f)
         /\ OneEventIn(DuplicateTokenValidate(f))
<1> DEFINE U == UNION {Losers(Claimants(f, tok), DayOf(ListingOf(tok).start)) :
                         tok \in {f[id].yes : id \in {x \in DOMAIN f : Filled(f[x])}}}
           g == DuplicateTokenValidate(f)
<1>1. FileOK(g) /\ Thins(g, f) /\ \A id \in DOMAIN f : Filled(g[id]) => id \notin U
  BY ClearedFile DEF DuplicateTokenValidate
<1> HIDE DEF g
<1>2. SUFFICES ASSUME NEW a \in DOMAIN g, NEW b \in DOMAIN g, Filled(g[a]), Filled(g[b]),
                      g[a].yes = g[b].yes, MarketOf(a).ev # MarketOf(b).ev
               PROVE  FALSE
  BY <1>1 DEF OneEventIn, g
<1> DEFINE tok == f[a].yes
           S == Claimants(f, tok)
           day == DayOf(ListingOf(tok).start)
           gap == [id \in S |-> Abs(MarketOf(id).ev.day - day)]
<1>3. /\ a \in DOMAIN f /\ b \in DOMAIN f /\ g[a] = f[a] /\ g[b] = f[b]
      /\ Filled(f[a]) /\ Filled(f[b]) /\ a \notin U /\ b \notin U
  BY <1>1, <1>2 DEF Thins
<1>4. a \in S /\ b \in S
  BY <1>2, <1>3 DEF Claimants
<1>5. IsFiniteSet(S)
  <2>1. S \subseteq Ids
    BY DEF Claimants, FileOK
  <2> QED
    BY <2>1, IdsFinite, FS_Subset
<1>6. a \notin Losers(S, day) /\ b \notin Losers(S, day)
  <2>1. tok \in {f[id].yes : id \in {x \in DOMAIN f : Filled(f[x])}}
    BY <1>3
  <2>2. Losers(S, day) \subseteq U
    BY <2>1
  <2> QED
    BY <2>2, <1>3
<1>7. Losers(S, day) = Later(gap)
  <2> DEFINE E == {MarketOf(id).ev : id \in S}
             two == {MarketOf(a).ev} \cup {MarketOf(b).ev}
  <2>1. IsFiniteSet(E)
    <3> DEFINE evOf == [id \in S |-> MarketOf(id).ev]
    <3>1. evOf \in Surjection(S, E)
      BY DEF Surjection
    <3> QED
      BY <3>1, <1>5, FS_Surjection
  <2>2. two \subseteq E
    BY <1>4
  <2>3. Cardinality(two) = 2
    <3>1. IsFiniteSet({MarketOf(a).ev}) /\ Cardinality({MarketOf(a).ev}) = 1
      BY FS_Singleton
    <3>2. Cardinality(two) = 1 + 1
      BY <3>1, <1>2, FS_AddElement
    <3> QED
      BY <3>2
  <2>4. Cardinality(E) >= 2 /\ Cardinality(E) \in Nat
    <3> HIDE DEF E, two
    <3> QED
      BY <2>1, <2>2, <2>3, FS_Subset, FS_CardinalityType
  <2>5. ~(Cardinality(E) < 2)
    BY <2>4
  <2> QED
    BY <2>5, Zenon DEF Losers
<1> DEFINE first == {id \in DOMAIN gap : \A x \in DOMAIN gap : gap[id] <= gap[x]}
<1>8. DOMAIN gap = S
  OBVIOUS
<1>9. Later(gap) = IF venue = "betinasia" /\ Cardinality(first) = 1 THEN S \ first ELSE S
  BY <1>8, Zenon DEF Later
<1>10. IsFiniteSet(first) /\ first \subseteq S
  <2>1. first \subseteq S
    BY <1>8
  <2> QED
    BY <2>1, <1>5, FS_Subset
<1> HIDE DEF first, S
<1>11. CASE venue = "betinasia" /\ Cardinality(first) = 1
  <2>1. a \in first /\ b \in first
    BY <1>4, <1>6, <1>7, <1>9, <1>11
  <2>2. PICK x : first = {x}
    BY <1>10, <1>11, FS_Singleton
  <2>3. a = b
    BY <2>1, <2>2
  <2> QED
    BY <2>3, <1>2
<1> QED
  BY <1>4, <1>6, <1>7, <1>9, <1>11

LEMMA CheckedFile ==
  ASSUME NEW f, FileOK(f)
  PROVE  FileOK(Checked(f)) /\ MirroredIn(Checked(f)) /\ OneEventIn(Checked(f))
<1>1. FileOK(PriceValidate(SiblingValidate(f)))
  BY SiblingFile, PricedFile
<1> DEFINE d == DuplicateTokenValidate(PriceValidate(SiblingValidate(f)))
<1>2. FileOK(d) /\ OneEventIn(d)
  BY <1>1, DuplicateFile
<1>3. Checked(f) = SiblingValidate(d)
  BY DEF Checked
<1> HIDE DEF d
<1> QED
  BY <1>2, <1>3, SiblingFile, ThinnedOneEvent

-----------------------------------------------------------------------------
(* What a fill takes is listed *)

LEMMA NearestIn ==
  ASSUME NEW gap, DOMAIN gap # {}, \A g \in DOMAIN gap : gap[g] \in Nat
  PROVE  Nearest(gap) \in DOMAIN gap
<1> DEFINE T == {gap[g] : g \in DOMAIN gap}
<1>1. T \subseteq Nat /\ T # {}
  OBVIOUS
<1>2. PICK x \in T : \A y \in T : x <= y
  BY <1>1, LeastNat
<1>3. PICK g \in DOMAIN gap : x = gap[g]
  BY <1>2
<1>4. \A h \in DOMAIN gap : gap[g] <= gap[h]
  BY <1>2, <1>3
<1>5. \E n \in DOMAIN gap : \A h \in DOMAIN gap : gap[n] <= gap[h]
  BY <1>4
<1> QED
  BY <1>5, Zenon DEF Nearest

LEMMA TimedListed ==
  ASSUME NEW S, S \subseteq Listings, NEW e, e.at \in Int, e.day \in Int
  PROVE  ByTime(S, e) \subseteq Listings /\ ByDate(S, e) \subseteq Listings
<1>0. \A n \in Int : Abs(n) \in Nat
  BY DEF Abs
<1>1. \A g \in S : g \in Listings /\ Abs(g.start - e.at) \in Nat /\ Abs(e.day - DayOf(g.start)) \in Nat
  <2> TAKE g \in S
  <2>1. g \in Listings /\ g.start \in Int
    BY ListingsAssumption
  <2>2. g.start - e.at \in Int /\ e.day - DayOf(g.start) \in Int
    BY <2>1 DEF DayOf
  <2> QED
    BY <1>0, <2>1, <2>2
<1>2. ByTime(S, e) \subseteq Listings
  <2> DEFINE near == {g \in S : Abs(g.start - e.at) <= TimeTol}
             gap == [g \in near |-> Abs(g.start - e.at)]
  <2>1. ByTime(S, e) = IF near = {} THEN {} ELSE {Nearest(gap)}
    BY DEF ByTime
  <2>2. near # {} => Nearest(gap) \in near
    BY <1>1, NearestIn
  <2> QED
    BY <1>1, <2>1, <2>2
<1>3. ByDate(S, e) \subseteq Listings
  <2> DEFINE near == {g \in S : DateClose(e, g)}
             gap == [g \in near |-> Abs(e.day - DayOf(g.start))]
  <2>1. ByDate(S, e) = IF near = {} THEN {} ELSE {Nearest(gap)}
    BY DEF ByDate
  <2>2. near # {} => Nearest(gap) \in near
    BY <1>1, NearestIn
  <2> QED
    BY <1>1, <2>1, <2>2
<1> QED
  BY <1>2, <1>3

LEMMA GamesListed ==
  ASSUME NEW cat, cat \subseteq Listings, NEW e, e.at \in Int, e.day \in Int
  PROVE  Games(e, cat) \subseteq Listings
<1>1. \A n : BestBookGame(e, cat, n) \subseteq Listings
  <2> TAKE n
  <2> DEFINE fits == [g \in Anchored(cat, e) |-> Fit(e, g)]
  <2>1. BestOf(fits, n) \subseteq DOMAIN fits
    BY Zenon DEF BestOf
  <2>2. DOMAIN fits \subseteq cat
    BY DEF Anchored
  <2> QED
    BY <2>1, <2>2, Zenon DEF BestBookGame
<1> DEFINE own == {g \in Anchored(cat, e) : Teams(g) = {e.sides[1], e.sides[2]}}
<1>2. own \subseteq Listings
  BY DEF Anchored
<1>3. Named(own, e, cat) \subseteq Listings
  <2> HIDE DEF own
  <2> QED
    BY <1>1, <1>2 DEF Named
<1>4. Games(e, cat) = Timed(Named(own, e, cat), e)
  BY DEF Games
<1> DEFINE S == Named(own, e, cat)
<1>5. Timed(S, e) \in {ByTime(S, e), ByDate(S, e)}
  BY Zenon DEF Timed, PickPinnacle, PickAuto
<1> HIDE DEF S
<1>6. Timed(S, e) \subseteq Listings
  BY <1>3, <1>5, TimedListed DEF S
<1> QED
  BY <1>4, <1>6 DEF S

LEMMA MatchListed ==
  ASSUME NEW cat, NEW e, NEW x
  PROVE  MatchGame(e, cat, x) \subseteq cat
<1> DEFINE own == {g \in cat : g.sport = e.sport}
<1>1. ByIds(e, own, x) \subseteq own
  BY DEF ByIds
<1>2. \A n, stem : ByNames(e, own, n, stem) \subseteq own
  <2> TAKE n, stem
  <2>1. \A score : Top(score, n) \subseteq DOMAIN score
    BY DEF Top
  <2> DEFINE score == [g \in {y \in own : DateClose(e, y)} |-> Largest({
        Low(NameScore(e.sides[1], g.home, stem), NameScore(e.sides[2], g.away, stem)),
        Low(NameScore(e.sides[1], g.away, stem), NameScore(e.sides[2], g.home, stem))})]
  <2>2. ByNames(e, own, n, stem) = Top(score, n)
    BY Zenon DEF ByNames
  <2>3. DOMAIN score \subseteq own
    OBVIOUS
  <2> HIDE DEF score
  <2> QED
    BY <2>1, <2>2, <2>3
<1>3. \A S : Pick(S) \subseteq S
  BY DEF Pick
<1> DEFINE hit == ByIds(e, own, x)
           names == ByNames(e, own, 90, e.sport \notin PlayerSports)
<1>4. MatchGame(e, cat, x) = Pick(IF hit # {} THEN hit ELSE names)
  BY Zenon DEF MatchGame
<1>5. own \subseteq cat
  OBVIOUS
<1> HIDE DEF own, hit, names
<1>6. hit \subseteq own /\ names \subseteq own
  BY <1>1, <1>2 DEF hit, names
<1> QED
  BY <1>3, <1>4, <1>5, <1>6

LEMMA TakenRow ==
  ASSUME NEW r \in RowSet, NEW g \in Listings, NEW s \in SidesOfGame
  PROVE  /\ Taken(r, g, s) \in RowSet /\ Filled(Taken(r, g, s))
         /\ Taken(r, g, s).yes = Token(g, s) /\ Taken(r, g, s).no = Token(g, Other(s))
         /\ Taken(r, g, s).three = g.three
<1>1. r \in [yes : Tokens, no : Tokens, three : BOOLEAN, ask : 0 .. 99]
  BY DEF RowSet
<1>2. \A t \in SidesOfGame : Token(g, t) \in Tokens /\ Token(g, t) # NoToken
  BY DEF SidesOfGame, Token, Tokens, NoToken, None
<1>3. Other(s) \in SidesOfGame
  BY DEF Other, SidesOfGame
<1>4. g.three \in BOOLEAN
  BY ListingsAssumption
<1> HIDE DEF Tokens, NoToken, Token, Other, SidesOfGame
<1>5. Token(g, s) \in Tokens /\ Token(g, Other(s)) \in Tokens
      /\ Token(g, s) # NoToken /\ Token(g, Other(s)) # NoToken
  BY <1>2, <1>3
<1> DEFINE y == Token(g, s)
           n == Token(g, Other(s))
           w == g.three
<1>6. Taken(r, g, s) = [r EXCEPT !.yes = y, !.no = n, !.three = w]
  BY DEF Taken
<1> HIDE DEF y, n, w
<1>7. y \in Tokens /\ n \in Tokens /\ y # NoToken /\ n # NoToken /\ w \in BOOLEAN
  BY <1>4, <1>5 DEF y, n, w
<1>8. Taken(r, g, s) \in [yes : Tokens, no : Tokens, three : BOOLEAN, ask : 0 .. 99]
      /\ Taken(r, g, s).yes = y /\ Taken(r, g, s).no = n /\ Taken(r, g, s).three = w
  BY <1>1, <1>6, <1>7
<1> QED
  BY <1>7, <1>8 DEF RowSet, Filled, y, n, w

-----------------------------------------------------------------------------
(* One market of a pass *)

Resolved == [ev : Events, game : {g.id : g \in Listings}, side : SidesOfGame]
Accs(D) == [rows : [D -> RowSet], done : SUBSET Events, res : SUBSET Resolved, bad : SUBSET Events]
PriorOf(acc, m) == {p \in acc.res : p.ev = m.ev}
Fills(acc, next, m, g, s) ==
  /\ m.id \in DOMAIN acc.rows /\ ~Filled(acc.rows[m.id])
  /\ g.three \/ m.ev \notin acc.done
  /\ (venue = "pinnacle" /\ ~m.tie) => \A p \in PriorOf(acc, m) : p.game = g.id /\ p.side # s
  /\ m.tie \/ s \in {"home", "away"}
  /\ next.rows = [acc.rows EXCEPT ![m.id] = Taken(acc.rows[m.id], g, s)]
  /\ next.done = acc.done \cup {m.ev}
  /\ next.res = IF m.tie THEN acc.res
                ELSE (acc.res \ PriorOf(acc, m)) \cup {[ev |-> m.ev, game |-> g.id, side |-> s]}
Passes(acc, next) == next.rows = acc.rows /\ next.done = acc.done /\ next.res = acc.res

LEMMA BookSides ==
  ASSUME NEW m, NEW g
  PROVE  /\ BookSide(m, g) = None \/ BookSide(m, g) \in SidesOfGame
         /\ m.tie \/ BookSide(m, g) \in {None, "home", "away"}
         /\ SideOf(m, g) = None \/ SideOf(m, g) \in SidesOfGame
<1>1. \A h, a : Clearer(h, a) \in {"home", "away", None} /\ Sided(h, a) \in {"home", "away", None}
  BY Zenon DEF Clearer, Sided
<1>2. PickBookTeam(m.out, g) \in {"home", "away", None}
  BY <1>1, Zenon DEF PickBookTeam
<1>3. BookSide(m, g) = (IF m.tie THEN IF g.three THEN "draw" ELSE None ELSE PickBookTeam(m.out, g))
  BY Zenon DEF BookSide
<1>4. SideOf(m, g) \in {"draw", "home", "away", None}
  <2>1. \E h, a : SideOf(m, g) = (IF m.tie THEN IF g.three THEN "draw" ELSE None ELSE Sided(h, a))
    BY Zenon DEF SideOf
  <2> QED
    BY <1>1, <2>1
<1> HIDE DEF None
<1> QED
  BY <1>2, <1>3, <1>4 DEF SidesOfGame

LEMMA FillSideStep ==
  ASSUME NEW D, D \subseteq Ids, NEW acc \in Accs(D), NEW m, m.ev \in Events, m.id \in D,
         ~Filled(acc.rows[m.id]), NEW g \in Listings, NEW side,
         side = None \/ side \in SidesOfGame, m.tie \/ side \in {None, "home", "away"}
  PROVE  \E next \in Accs(D) : /\ next = FillSide(acc, m, g, side, PriorOf(acc, m))
                               /\ \/ Passes(acc, next)
                                  \/ side \in SidesOfGame /\ Fills(acc, next, m, g, side)
<1> DEFINE next == FillSide(acc, m, g, side, PriorOf(acc, m))
<1>0. acc.rows \in [D -> RowSet] /\ acc.done \in SUBSET Events /\ acc.res \in SUBSET Resolved
      /\ acc.bad \in SUBSET Events
  BY DEF Accs
<1>1. CASE side = None \/ (~g.three /\ m.ev \in acc.done)
  <2>1. next = acc
    BY <1>1 DEF FillSide
  <2> QED
    BY <2>1 DEF Passes
<1>2. CASE ~(side = None \/ (~g.three /\ m.ev \in acc.done)) /\ Clashes(PriorOf(acc, m), m, g, side)
  <2>1. next = [acc EXCEPT !.bad = @ \cup {m.ev}]
    BY <1>2 DEF FillSide
  <2>2. next \in Accs(D) /\ Passes(acc, next)
    BY <2>1, <1>0 DEF Accs, Passes
  <2> QED
    BY <2>2
<1>3. CASE ~(side = None \/ (~g.three /\ m.ev \in acc.done)) /\ ~Clashes(PriorOf(acc, m), m, g, side)
  <2> DEFINE row == Taken(acc.rows[m.id], g, side)
             rows == [acc.rows EXCEPT ![m.id] = row]
             new == [ev |-> m.ev, game |-> g.id, side |-> side]
             res == IF m.tie THEN acc.res ELSE (acc.res \ PriorOf(acc, m)) \cup {new}
             done == acc.done \cup {m.ev}
  <2>1. next = [rows |-> rows, done |-> done, res |-> res, bad |-> acc.bad]
    BY <1>3 DEF FillSide
  <2>2. side \in SidesOfGame
    BY <1>3
  <2>3. row \in RowSet
    BY <2>2, <1>0, TakenRow
  <2>4. rows \in [D -> RowSet]
    <3> HIDE DEF row
    <3> QED
      BY <2>3, <1>0
  <2>5. res \in SUBSET Resolved
    <3>1. new \in Resolved
      BY <2>2 DEF Resolved
    <3> HIDE DEF new
    <3> QED
      BY <3>1, <1>0
  <2>6. done \in SUBSET Events
    BY <1>0
  <2>7. next \in Accs(D)
    <3> HIDE DEF rows, res, done
    <3> QED
      BY <2>1, <2>4, <2>5, <2>6, <1>0 DEF Accs
  <2>8. (venue = "pinnacle" /\ ~m.tie) => \A p \in PriorOf(acc, m) : p.game = g.id /\ p.side # side
    BY <1>3 DEF Clashes
  <2>9. m.tie \/ side \in {"home", "away"}
    BY <1>3
  <2>10. g.three \/ m.ev \notin acc.done
    BY <1>3
  <2>11. next.rows = rows /\ next.done = done /\ next.res = res
    <3> HIDE DEF rows, res, done
    <3> QED
      BY <2>1
  <2>12. Fills(acc, next, m, g, side)
    <3>1. m.id \in DOMAIN acc.rows
      BY <1>0
    <3> HIDE DEF next
    <3> QED
      BY <2>8, <2>9, <2>10, <2>11, <3>1, Zenon DEF Fills, rows, done, res, row, new
  <2> QED
    BY <2>2, <2>7, <2>12
<1> QED
  BY <1>1, <1>2, <1>3

LEMMA FillOneStep ==
  ASSUME NEW D, D \subseteq Ids, NEW acc \in Accs(D), NEW i \in DOMAIN Markets,
         NEW cat, cat \subseteq Listings
  PROVE  \E next \in Accs(D) : /\ next = FillOne(acc, Markets[i], cat)
                               /\ \/ Passes(acc, next)
                                  \/ \E g \in Listings, s \in SidesOfGame : Fills(acc, next, Markets[i], g, s)
<1> DEFINE m == Markets[i]
<1>1. m.ev \in Events /\ m.ev.at \in Int /\ m.ev.day \in Int
  BY MarketsAssumption DEF Events
<1> HIDE DEF m
<1> DEFINE game == Games(m.ev, cat)
<1>2. game \subseteq Listings
  BY <1>1, GamesListed
<1> HIDE DEF game
<1>3. FillOne(acc, m, cat) = IF Unfilled(acc.rows, m) THEN FillFrom(acc, m, game) ELSE acc
  BY Zenon DEF FillOne, game
<1>4. CASE ~Unfilled(acc.rows, m) \/ game = {}
  <2>1. FillOne(acc, m, cat) = acc
    BY <1>3, <1>4 DEF FillFrom
  <2> QED
    BY <2>1 DEF Passes, m
<1>5. CASE Unfilled(acc.rows, m) /\ game # {}
  <2> DEFINE g == CHOOSE x \in game : TRUE
             side == BookSide(m, g)
  <2>1. g \in Listings
    BY <1>2, <1>5
  <2>2. FillOne(acc, m, cat) = FillSide(acc, m, g, side, PriorOf(acc, m))
    BY <1>3, <1>5, Zenon DEF FillFrom, PriorOf
  <2>3. m.id \in D /\ ~Filled(acc.rows[m.id])
    BY <1>5 DEF Unfilled, Accs
  <2> HIDE DEF g
  <2>4. (side = None \/ side \in SidesOfGame) /\ (m.tie \/ side \in {None, "home", "away"})
    BY BookSides, Zenon
  <2> HIDE DEF side
  <2>5. \E next \in Accs(D) : /\ next = FillSide(acc, m, g, side, PriorOf(acc, m))
                              /\ \/ Passes(acc, next)
                                 \/ side \in SidesOfGame /\ Fills(acc, next, m, g, side)
    BY <2>1, <2>3, <2>4, <1>1, FillSideStep, Zenon
  <2> QED
    BY <2>1, <2>2, <2>5, Zenon DEF m
<1> QED
  BY <1>4, <1>5

Joins(acc, next, m) ==
  \/ next.rows = acc.rows
  \/ /\ m.id \in DOMAIN acc.rows
     /\ next.rows = [acc.rows EXCEPT ![m.id] = Taken(acc.rows[m.id], GameOf(m.ev), m.side)]

LEMMA OddsStep ==
  ASSUME NEW D, D \subseteq Ids, NEW acc \in Accs(D), NEW i \in DOMAIN Markets, NEW cat
  PROVE  \E next \in Accs(D) : next = OddsOne(acc, Markets[i], cat) /\ Joins(acc, next, Markets[i])
<1> DEFINE m == Markets[i]
           g == GameOf(m.ev)
           row == Taken(acc.rows[m.id], g, m.side)
           rows == [acc.rows EXCEPT ![m.id] = row]
           done == acc.done \cup {m.ev}
           side == IF m.tie THEN "draw" ELSE m.side
<1>0. acc.rows \in [D -> RowSet] /\ acc.done \in SUBSET Events
  BY DEF Accs
<1>1. g \in Listings /\ m.ev \in Events /\ m.side \in SidesOfGame /\ side = m.side
  BY MarketsAssumption DEF Events, SidesOfGame
<1> HIDE DEF m
<1>2. OddsOne(acc, m, cat) = acc \/ (m.id \in DOMAIN acc.rows /\ OddsOne(acc, m, cat) =
        [acc EXCEPT !.rows = [acc.rows EXCEPT ![m.id] = Taken(@, g, IF m.tie THEN "draw" ELSE m.side)], !.done = @ \cup {m.ev}])
  BY Zenon DEF OddsOne
<1>3. CASE OddsOne(acc, m, cat) = acc
  BY <1>3 DEF m, Joins
<1>4. CASE m.id \in DOMAIN acc.rows /\ OddsOne(acc, m, cat) =
        [acc EXCEPT !.rows = [acc.rows EXCEPT ![m.id] = Taken(@, g, IF m.tie THEN "draw" ELSE m.side)], !.done = @ \cup {m.ev}]
  <2>1. m.id \in D
    BY <1>0, <1>4
  <2>2. OddsOne(acc, m, cat) = [acc EXCEPT !.rows = rows, !.done = done]
    <3>1. OddsOne(acc, m, cat) = [acc EXCEPT !.rows = [acc.rows EXCEPT ![m.id] = Taken(@, g, m.side)], !.done = @ \cup {m.ev}]
      BY <1>1, <1>4, Zenon
    <3>2. acc.rows = acc["rows"] /\ acc.done = acc["done"] /\ DOMAIN acc = {"rows", "done", "res", "bad"}
      BY DEF Accs
    <3> HIDE DEF g
    <3> QED
      BY <3>1, <3>2
  <2>3. row \in RowSet
    BY <2>1, <1>0, <1>1, TakenRow
  <2>4. rows \in [D -> RowSet] /\ done \in SUBSET Events
    <3> HIDE DEF row
    <3> QED
      BY <2>3, <1>0, <1>1
  <2> HIDE DEF rows, done
  <2>5. OddsOne(acc, m, cat) \in Accs(D) /\ OddsOne(acc, m, cat).rows = rows
    BY <2>2, <2>4 DEF Accs
  <2> QED
    BY <2>1, <2>5, <1>4, Zenon DEF rows, row, g, m, Joins
<1> QED
  BY <1>2, <1>3, <1>4

LEMMA BiaStep ==
  ASSUME NEW D, D \subseteq Ids, NEW acc, acc.rows \in [D -> RowSet], NEW i \in DOMAIN Markets,
         NEW cat, cat \subseteq Listings
  PROVE  BiaOne(acc, Markets[i], cat).rows \in [D -> RowSet]
<1> DEFINE m == Markets[i]
           game == MatchGame(m.ev, cat, acc.ids)
<1>1. game \subseteq Listings
  BY MatchListed
<1> HIDE DEF m, game
<1>2. BiaOne(acc, m, cat) = IF Unfilled(acc.rows, m) THEN BiaFrom(acc, m, game) ELSE acc
  BY Zenon DEF BiaOne, game
<1>3. CASE ~Unfilled(acc.rows, m) \/ game = {}
  <2>1. BiaOne(acc, m, cat) = acc
    BY <1>2, <1>3 DEF BiaFrom
  <2> QED
    BY <2>1 DEF m
<1>4. CASE Unfilled(acc.rows, m) /\ game # {}
  <2> DEFINE g == CHOOSE x \in game : TRUE
             side == SideOf(m, g)
             row == Taken(acc.rows[m.id], g, side)
             rows == [acc.rows EXCEPT ![m.id] = row]
  <2>1. g \in Listings
    BY <1>1, <1>4
  <2>2. BiaOne(acc, m, cat) = BiaSide(acc, m, g, side)
    BY <1>2, <1>4, Zenon DEF BiaFrom
  <2>3. m.id \in D
    BY <1>4 DEF Unfilled
  <2> HIDE DEF g
  <2>4. side = None \/ side \in SidesOfGame
    BY BookSides, Zenon
  <2>5. CASE side = None
    <3>1. BiaOne(acc, m, cat) = acc
      BY <2>2, <2>5, Zenon DEF BiaSide
    <3> QED
      BY <3>1 DEF m
  <2>6. CASE side # None
    <3> HIDE DEF side
    <3>1. BiaOne(acc, m, cat) = [rows |-> rows, ids |-> Learned(g) @@ acc.ids]
      BY <2>2, <2>6, Zenon DEF BiaSide
    <3>2. row \in RowSet
      BY <2>1, <2>3, <2>4, <2>6, TakenRow
    <3>3. rows \in [D -> RowSet]
      <4> HIDE DEF row
      <4> QED
        BY <3>2
    <3> HIDE DEF rows
    <3>4. BiaOne(acc, m, cat).rows = rows
      BY <3>1
    <3> QED
      BY <3>3, <3>4 DEF m
  <2> QED
    BY <2>5, <2>6
<1> QED
  BY <1>3, <1>4

-----------------------------------------------------------------------------
(* A pass *)

\* Pinnacle: the rows a fresh pass has filled lie on listings, and two of a two-way
\* event on one of them, which has a draw.
OnListing(r) ==
  \E g \in Listings, s \in SidesOfGame :
    r.yes = Token(g, s) /\ r.no = Token(g, Other(s)) /\ r.three = g.three
Siblings(a, b) == a # b /\ MarketOf(a).ev = MarketOf(b).ev
Resolves(id, r) == [ev |-> MarketOf(id).ev, game |-> r.yes.game, side |-> r.yes.side]
FilledWell(acc, a) ==
  /\ OnListing(acc.rows[a])
  /\ ~MarketOf(a).ev.three =>
       /\ MarketOf(a).ev \in acc.done
       /\ acc.rows[a].yes.side \in {"home", "away"}
       /\ \A b \in DOMAIN acc.rows : Siblings(a, b) /\ Filled(acc.rows[b]) =>
            Mirror(acc.rows[a], acc.rows[b]) /\ acc.rows[a].three /\ acc.rows[b].three
       /\ (\A b \in DOMAIN acc.rows : Siblings(a, b) => ~Filled(acc.rows[b])) =>
            Resolves(a, acc.rows[a]) \in acc.res
PassOK(acc) == \A a \in DOMAIN acc.rows : Filled(acc.rows[a]) => FilledWell(acc, a)

LEMMA TokenOf ==
  ASSUME NEW g \in Listings, NEW h \in Listings, NEW s, NEW t
  PROVE  /\ Token(g, s).game = g.id /\ Token(g, s).side = s
         /\ g.id = h.id => g = h
BY ListingsAssumption DEF Token

LEMMA PassStep ==
  ASSUME venue = "pinnacle", NEW D, D \subseteq Ids, NEW acc \in Accs(D), PassOK(acc),
         NEW next \in Accs(D), NEW i \in DOMAIN Markets,
         NEW g \in Listings, NEW s \in SidesOfGame, Fills(acc, next, Markets[i], g, s)
  PROVE  PassOK(next)
<1> DEFINE m == Markets[i]
           k == m.id
           row == Taken(acc.rows[k], g, s)
<1>1. acc.rows \in [D -> RowSet] /\ next.rows \in [D -> RowSet] /\ acc.res \in SUBSET Resolved
  BY DEF Accs
<1>2. MarketOf(k) = m /\ k \in Ids /\ (~m.ev.three => ~m.tie)
  BY IdOfMarket, MarketsAssumption
<1> HIDE DEF m
<1>3. /\ k \in D /\ ~Filled(acc.rows[k])
      /\ g.three \/ m.ev \notin acc.done
      /\ ~m.tie => \A p \in PriorOf(acc, m) : p.game = g.id /\ p.side # s
      /\ m.tie \/ s \in {"home", "away"}
      /\ next.rows = [acc.rows EXCEPT ![k] = row]
      /\ next.done = acc.done \cup {m.ev}
      /\ next.res = IF m.tie THEN acc.res
                    ELSE (acc.res \ PriorOf(acc, m)) \cup {[ev |-> m.ev, game |-> g.id, side |-> s]}
  BY <1>1, Zenon DEF Fills, m
<1>4. /\ Filled(row) /\ row.yes = Token(g, s) /\ row.no = Token(g, Other(s)) /\ row.three = g.three
  BY <1>1, <1>3, TakenRow
<1> HIDE DEF row, k
<1>5. /\ DOMAIN next.rows = D /\ DOMAIN acc.rows = D /\ next.rows[k] = row
      /\ \A a \in D : a # k => next.rows[a] = acc.rows[a]
  BY <1>1, <1>3
\* The other market of the event, when it is filled, was alone, and is the other side.
<1>6. ASSUME NEW b \in D, Siblings(k, b), Filled(acc.rows[b]), ~m.ev.three
      PROVE  Mirror(row, acc.rows[b]) /\ Mirror(acc.rows[b], row) /\ row.three /\ acc.rows[b].three
  <2>1. MarketOf(b).ev = m.ev /\ b # k
    BY <1>2, <1>6 DEF Siblings
  <2>2. \A c \in D : Siblings(b, c) => ~Filled(acc.rows[c])
    <3> TAKE c \in D
    <3>1. SUFFICES ASSUME Siblings(b, c) PROVE c = k
      BY <1>3
    <3> QED
      BY <3>1, <2>1, <1>2, <1>3, <1>6, TwoSides DEF Siblings
  <2>3. FilledWell(acc, b)
    BY <1>5, <1>6 DEF PassOK
  <2>4. /\ m.ev \in acc.done /\ acc.rows[b].yes.side \in {"home", "away"}
        /\ Resolves(b, acc.rows[b]) \in acc.res
    BY <2>1, <2>2, <2>3, <1>5, <1>6 DEF FilledWell
  <2>5. Resolves(b, acc.rows[b]) \in PriorOf(acc, m)
    BY <2>1, <2>4 DEF PriorOf, Resolves
  <2>6. acc.rows[b].yes.game = g.id /\ acc.rows[b].yes.side # s
    BY <2>5, <1>2, <1>3, <1>6 DEF Resolves
  <2>7. PICK h \in Listings, t \in SidesOfGame :
          acc.rows[b].yes = Token(h, t) /\ acc.rows[b].no = Token(h, Other(t)) /\ acc.rows[b].three = h.three
    BY <2>3 DEF FilledWell, OnListing
  <2>8. h = g /\ t # s /\ t \in {"home", "away"} /\ s \in {"home", "away"} /\ g.three
    BY <2>4, <2>6, <2>7, <1>2, <1>3, <1>6, TokenOf
  <2>9. Other(s) = t /\ Other(t) = s
    BY <2>8 DEF Other
  <2> QED
    BY <2>7, <2>8, <2>9, <1>4 DEF Mirror
<1>7. SUFFICES ASSUME NEW a \in D, Filled(next.rows[a]) PROVE FilledWell(next, a)
  BY <1>5 DEF PassOK
<1>8. CASE a = k
  <2>1. OnListing(next.rows[a])
    BY <1>4, <1>5, <1>8 DEF OnListing
  <2>2. SUFFICES ASSUME ~m.ev.three
                 PROVE  /\ m.ev \in next.done /\ row.yes.side \in {"home", "away"}
                        /\ \A b \in D : Siblings(k, b) /\ Filled(next.rows[b]) =>
                             Mirror(row, next.rows[b]) /\ row.three /\ next.rows[b].three
                        /\ Resolves(k, row) \in next.res
    BY <2>1, <1>2, <1>5, <1>8 DEF FilledWell
  <2>3. ~m.tie /\ s \in {"home", "away"}
    BY <2>2, <1>2, <1>3
  <2>4. row.yes.side = s /\ row.yes.game = g.id
    BY <1>4, TokenOf
  <2>5. Resolves(k, row) = [ev |-> m.ev, game |-> g.id, side |-> s]
    BY <2>4, <1>2 DEF Resolves
  <2>6. \A b \in D : Siblings(k, b) /\ Filled(next.rows[b]) =>
          Mirror(row, next.rows[b]) /\ row.three /\ next.rows[b].three
    BY <2>2, <1>5, <1>6 DEF Siblings
  <2> QED
    BY <2>3, <2>4, <2>5, <2>6, <1>3
<1>9. CASE a # k
  <2>1. next.rows[a] = acc.rows[a] /\ FilledWell(acc, a)
    BY <1>5, <1>7, <1>9 DEF PassOK
  <2>2. SUFFICES ASSUME ~MarketOf(a).ev.three
                 PROVE  /\ \A b \in D : Siblings(a, b) /\ Filled(next.rows[b]) =>
                             Mirror(acc.rows[a], next.rows[b]) /\ acc.rows[a].three /\ next.rows[b].three
                        /\ (\A b \in D : Siblings(a, b) => ~Filled(next.rows[b])) =>
                             Resolves(a, acc.rows[a]) \in next.res
    BY <2>1, <1>3, <1>5 DEF FilledWell
  <2>3. CASE MarketOf(a).ev = m.ev
    <3>1. Siblings(a, k) /\ Siblings(k, a) /\ Filled(next.rows[k]) /\ Filled(acc.rows[a])
      BY <2>1, <2>3, <1>2, <1>4, <1>5, <1>7, <1>9 DEF Siblings
    <3>2. \A b \in D : Siblings(a, b) => b = k
      <4> TAKE b \in D
      <4> QED
        BY <2>2, <2>3, <1>2, <1>3, <1>9, TwoSides DEF Siblings
    <3>3. Mirror(acc.rows[a], row) /\ row.three /\ acc.rows[a].three
      BY <3>1, <2>2, <2>3, <1>6
    <3> QED
      BY <3>1, <3>2, <3>3, <1>3, <1>5
  <2>4. CASE MarketOf(a).ev # m.ev
    <3>1. \A b \in D : Siblings(a, b) => next.rows[b] = acc.rows[b]
      BY <2>4, <1>2, <1>5 DEF Siblings
    <3>2. Resolves(a, acc.rows[a]) \in acc.res => Resolves(a, acc.rows[a]) \in next.res
      <4>1. Resolves(a, acc.rows[a]) \notin PriorOf(acc, m)
        BY <2>4 DEF Resolves, PriorOf
      <4> QED
        BY <4>1, <1>3
    <3> QED
      BY <3>1, <3>2, <2>1, <2>2, <1>5 DEF FilledWell
  <2> QED
    BY <2>3, <2>4
<1> QED
  BY <1>8, <1>9

LEMMA BookPass ==
  ASSUME venue \in {"pinnacle", "bookmaker"}, NEW D, D \subseteq Ids, NEW base \in Accs(D),
         NEW cat, cat \subseteq Listings
  PROVE  /\ Pass(base, cat) \in Accs(D)
         /\ (venue = "pinnacle" /\ PassOK(base)) => PassOK(Pass(base, cat))
<1> DEFINE n == Len(Markets)
<1>1. PICK f : /\ f[0] = base
               /\ \A i \in 1 .. n : f[i] = FillStep(f[i - 1], Markets[i], cat)
               /\ Pass(base, cat) = f[n]
  BY PassRuns
<1>2. n \in Nat /\ DOMAIN Markets = 1 .. n
  BY LenNat
<1> DEFINE Well(a) == a \in Accs(D) /\ ((venue = "pinnacle" /\ PassOK(base)) => PassOK(a))
           T == {i \in 0 .. n : Well(f[i])}
<1> HIDE DEF n
<1>3. 0 \in T
  <2>1. Well(base)
    OBVIOUS
  <2> HIDE DEF Well
  <2> QED
    BY <2>1, <1>1, <1>2
<1>4. ASSUME NEW i \in 1 .. n, i - 1 \in T PROVE i \in T
  <2> DEFINE acc == f[i - 1]
  <2>0. Well(acc)
    <3> HIDE DEF Well
    <3> QED
      BY <1>4
  <2>1. acc \in Accs(D) /\ ((venue = "pinnacle" /\ PassOK(base)) => PassOK(acc))
    BY <2>0
  <2>2. f[i] = FillOne(acc, Markets[i], cat)
    <3>1. FillStep(acc, Markets[i], cat) = FillOne(acc, Markets[i], cat)
      BY DEF FillStep
    <3> QED
      BY <3>1, <1>1
  <2>3. i \in DOMAIN Markets /\ i \in 0 .. n
    BY <1>2
  <2> HIDE DEF acc
  <2>4. PICK next \in Accs(D) : /\ next = FillOne(acc, Markets[i], cat)
          /\ \/ Passes(acc, next)
             \/ \E g \in Listings, s \in SidesOfGame : Fills(acc, next, Markets[i], g, s)
    BY <2>1, <2>3, FillOneStep, Zenon
  <2>5. ASSUME venue = "pinnacle", PassOK(acc) PROVE PassOK(next)
    <3>1. CASE Passes(acc, next)
      BY <2>5, <3>1 DEF Passes, PassOK, FilledWell
    <3>2. CASE \E g \in Listings, s \in SidesOfGame : Fills(acc, next, Markets[i], g, s)
      BY <2>1, <2>3, <2>5, <3>2, PassStep, Zenon
    <3> QED
      BY <2>4, <3>1, <3>2
  <2>6. f[i] = next
    BY <2>2, <2>4
  <2> HIDE DEF PassOK, Accs
  <2>7. Well(f[i])
    BY <2>1, <2>5, <2>6
  <2> HIDE DEF Well
  <2> QED
    BY <2>3, <2>7
<1>5. n \in T
  <2> HIDE DEF T
  <2>1. 0 .. n \subseteq T
    BY <1>2, <1>3, <1>4, UpTo
  <2> QED
    BY <2>1, <1>2
<1>6. Well(f[n])
  <2> HIDE DEF Well
  <2> QED
    BY <1>5
<1> QED
  BY <1>1, <1>6, Zenon

\* The aggregator's rows are what they say.
TrueRow(id, r) ==
  /\ r.yes = Token(GameOf(MarketOf(id).ev), MarketOf(id).side)
  /\ r.no = Token(GameOf(MarketOf(id).ev), Other(MarketOf(id).side))
TrueIn(f) == \A id \in DOMAIN f : Filled(f[id]) => TrueRow(id, f[id])

LEMMA OddsPass ==
  ASSUME venue = "oddspapi", NEW D, D \subseteq Ids, NEW base \in Accs(D), TrueIn(base.rows), NEW cat
  PROVE  Pass(base, cat) \in Accs(D) /\ TrueIn(Pass(base, cat).rows)
<1> DEFINE n == Len(Markets)
<1>1. PICK f : /\ f[0] = base
               /\ \A i \in 1 .. n : f[i] = FillStep(f[i - 1], Markets[i], cat)
               /\ Pass(base, cat) = f[n]
  BY PassRuns
<1>2. n \in Nat /\ DOMAIN Markets = 1 .. n
  BY LenNat
<1> DEFINE T == {i \in 0 .. n : f[i] \in Accs(D) /\ TrueIn(f[i].rows)}
<1> HIDE DEF n
<1>3. 0 \in T
  BY <1>1, <1>2
<1>4. ASSUME NEW i \in 1 .. n, i - 1 \in T PROVE i \in T
  <2> DEFINE acc == f[i - 1]
             m == Markets[i]
             row == Taken(acc.rows[m.id], GameOf(m.ev), m.side)
  <2>1. acc \in Accs(D) /\ TrueIn(acc.rows)
    BY <1>4
  <2>2. f[i] = OddsOne(acc, Markets[i], cat)
    <3>1. FillStep(acc, Markets[i], cat) = OddsOne(acc, Markets[i], cat)
      BY DEF FillStep
    <3> QED
      BY <3>1, <1>1
  <2>3. i \in DOMAIN Markets /\ i \in 0 .. n
    BY <1>2
  <2>4. MarketOf(m.id) = m /\ GameOf(m.ev) \in Listings /\ m.side \in SidesOfGame
    BY <2>3, IdOfMarket, MarketsAssumption DEF SidesOfGame
  <2> HIDE DEF acc
  <2>5. PICK next \in Accs(D) :
           /\ next = OddsOne(acc, Markets[i], cat)
           /\ next.rows = acc.rows \/ (m.id \in D /\ next.rows = [acc.rows EXCEPT ![m.id] = row])
    <3>1. PICK next \in Accs(D) : next = OddsOne(acc, Markets[i], cat) /\ Joins(acc, next, Markets[i])
      BY <2>1, <2>3, OddsStep, Zenon
    <3>2. DOMAIN acc.rows = D
      BY <2>1 DEF Accs
    <3> QED
      BY <3>1, <3>2 DEF Joins
  <2> HIDE DEF m
  <2>6. ASSUME m.id \in D, next.rows = [acc.rows EXCEPT ![m.id] = row] PROVE TrueIn(next.rows)
    <3>1. acc.rows \in [D -> RowSet]
      BY <2>1 DEF Accs
    <3>2. row.yes = Token(GameOf(m.ev), m.side) /\ row.no = Token(GameOf(m.ev), Other(m.side))
      BY <2>4, <2>6, <3>1, TakenRow
    <3>3. TrueRow(m.id, row)
      BY <2>4, <3>2 DEF TrueRow
    <3> HIDE DEF row
    <3>4. DOMAIN next.rows = D /\ next.rows[m.id] = row /\ \A a \in D : a # m.id => next.rows[a] = acc.rows[a]
      BY <2>6, <3>1
    <3>5. ASSUME NEW a \in D, Filled(next.rows[a]) PROVE TrueRow(a, next.rows[a])
      <4>1. CASE a = m.id
        BY <3>3, <3>4, <4>1
      <4>2. CASE a # m.id
        BY <2>1, <3>1, <3>4, <3>5, <4>2 DEF TrueIn
      <4> QED
        BY <4>1, <4>2
    <3> QED
      BY <3>4, <3>5 DEF TrueIn
  <2> HIDE DEF row
  <2>7. TrueIn(next.rows)
    BY <2>1, <2>5, <2>6
  <2>8. f[i] = next
    BY <2>2, <2>5
  <2> QED
    BY <2>3, <2>5, <2>7, <2>8
<1>5. n \in T
  <2> HIDE DEF T
  <2>1. 0 .. n \subseteq T
    BY <1>2, <1>3, <1>4, UpTo
  <2> QED
    BY <2>1, <1>2
<1> QED
  BY <1>1, <1>5

LEMMA BiaPass ==
  ASSUME venue = "betinasia", NEW D, D \subseteq Ids, NEW base, base.rows \in [D -> RowSet],
         NEW cat, cat \subseteq Listings
  PROVE  Pass(base, cat).rows \in [D -> RowSet]
<1> DEFINE n == Len(Markets)
<1>1. PICK f : /\ f[0] = base
               /\ \A i \in 1 .. n : f[i] = FillStep(f[i - 1], Markets[i], cat)
               /\ Pass(base, cat) = f[n]
  BY PassRuns
<1>2. n \in Nat /\ DOMAIN Markets = 1 .. n
  BY LenNat
<1> DEFINE T == {i \in 0 .. n : f[i].rows \in [D -> RowSet]}
<1> HIDE DEF n
<1>3. 0 \in T
  BY <1>1, <1>2
<1>4. ASSUME NEW i \in 1 .. n, i - 1 \in T PROVE i \in T
  <2>1. i \in DOMAIN Markets /\ i \in 0 .. n /\ f[i - 1].rows \in [D -> RowSet]
    BY <1>2, <1>4
  <2>2. FillStep(f[i - 1], Markets[i], cat) = BiaOne(f[i - 1], Markets[i], cat)
    BY DEF FillStep
  <2>3. f[i] = BiaOne(f[i - 1], Markets[i], cat)
    BY <2>2, <1>1
  <2> DEFINE acc == f[i - 1]
  <2>4. acc.rows \in [D -> RowSet] /\ f[i] = BiaOne(acc, Markets[i], cat)
    BY <2>1, <2>3
  <2> HIDE DEF acc
  <2>5. BiaOne(acc, Markets[i], cat).rows \in [D -> RowSet]
    BY <2>1, <2>4, BiaStep
  <2> QED
    BY <2>1, <2>4, <2>5
<1>5. n \in T
  <2> HIDE DEF T
  <2>1. 0 .. n \subseteq T
    BY <1>2, <1>3, <1>4, UpTo
  <2> QED
    BY <2>1, <1>2
<1> QED
  BY <1>1, <1>5

-----------------------------------------------------------------------------
(* What a pairer writes *)

\* What a file must be, by its venue.
Sound(f) ==
  /\ FileOK(f) /\ MirroredIn(f)
  /\ venue \in {"betinasia", "bookmaker"} => OneEventIn(f)
  /\ venue = "oddspapi" => TrueIn(f)

LEMMA FreshAcc ==
  ASSUME NEW f, FileOK(f)
  PROVE  Fresh(f) \in Accs(DOMAIN f) /\ Fresh(f).rows = f
BY DEF Fresh, Accs, FileOK

LEMMA TrueMirrored ==
  ASSUME NEW f, FileOK(f), TrueIn(f)
  PROVE  MirroredIn(f)
<1> SUFFICES ASSUME NEW a \in DOMAIN f, NEW b \in DOMAIN f, a # b,
                    MarketOf(a).ev = MarketOf(b).ev, ~MarketOf(a).ev.three,
                    Filled(f[a]), Filled(f[b])
             PROVE  Mirror(f[a], f[b])
  BY DEF MirroredIn
<1>1. a \in Ids /\ b \in Ids
  BY DEF FileOK
<1>2. PICK i \in DOMAIN Markets : MarketOf(a) = Markets[i] /\ Markets[i].id = a
  BY <1>1, MarketOfId
<1>3. PICK j \in DOMAIN Markets : MarketOf(b) = Markets[j] /\ Markets[j].id = b
  BY <1>1, MarketOfId
<1>4. i # j /\ Markets[j].ev = Markets[i].ev /\ ~Markets[i].ev.three
  BY <1>2, <1>3
<1>5. Markets[i].side \in {"home", "away"} /\ Markets[j].side \in {"home", "away"}
  BY <1>4, MarketsAssumption
<1>6. Markets[i].side # Markets[j].side
  BY <1>4, MarketsAssumption
<1>7. Other(Markets[i].side) = Markets[j].side /\ Other(Markets[j].side) = Markets[i].side
  BY <1>5, <1>6 DEF Other
<1>8. TrueRow(a, f[a]) /\ TrueRow(b, f[b])
  BY DEF TrueIn
<1> QED
  BY <1>2, <1>3, <1>4, <1>7, <1>8 DEF TrueRow, Mirror

LEMMA PinnacleWrites ==
  ASSUME venue = "pinnacle", NEW f, FileOK(f), NEW cat, cat \subseteq Listings
  PROVE  LET g == WithoutClashes(Filling(Retired(f), cat)) IN FileOK(g) /\ MirroredIn(g)
<1> DEFINE r == Retired(f)
           acc == Filling(r, cat)
           p == PriceValidate(acc.rows)
<1>1. FileOK(r) /\ DOMAIN r = DOMAIN f /\ \A id \in DOMAIN r : ~Filled(r[id])
  BY ClearedFile DEF Retired, Thins
<1> HIDE DEF r
<1>2. Fresh(r) \in Accs(DOMAIN r) /\ Fresh(r).rows = r
  BY <1>1, FreshAcc
<1>3. PassOK(Fresh(r))
  BY <1>1, <1>2 DEF PassOK
<1>4. acc \in Accs(DOMAIN r) /\ PassOK(acc)
  BY <1>1, <1>2, <1>3, BookPass DEF FileOK, Filling
<1> HIDE DEF acc
<1>5. FileOK(acc.rows)
  BY <1>1, <1>4 DEF Accs, FileOK
<1>6. /\ FileOK(p) /\ DOMAIN p = DOMAIN acc.rows
      /\ \A id \in DOMAIN acc.rows : Filled(p[id]) =>
           Filled(acc.rows[id]) /\ (p[id] = acc.rows[id] \/ (~acc.rows[id].three /\ p[id] = Turned(acc.rows[id])))
  BY <1>5, PricedFile
<1> HIDE DEF p
<1>7. MirroredIn(p)
  <2> SUFFICES ASSUME NEW a \in DOMAIN p, NEW b \in DOMAIN p, a # b,
                      MarketOf(a).ev = MarketOf(b).ev, ~MarketOf(a).ev.three,
                      Filled(p[a]), Filled(p[b])
               PROVE  Mirror(p[a], p[b])
    BY DEF MirroredIn
  <2>1. Filled(acc.rows[a]) /\ Filled(acc.rows[b]) /\ a \in DOMAIN acc.rows /\ b \in DOMAIN acc.rows
    BY <1>6
  <2>2. FilledWell(acc, a)
    BY <2>1, <1>4 DEF PassOK
  <2>3. Mirror(acc.rows[a], acc.rows[b]) /\ acc.rows[a].three /\ acc.rows[b].three
    BY <2>1, <2>2 DEF FilledWell, Siblings
  <2>4. p[a] = acc.rows[a] /\ p[b] = acc.rows[b]
    BY <2>1, <2>3, <1>6
  <2> QED
    BY <2>3, <2>4
<1>8. \E S : WithoutClashes(acc) = Cleared(p, S)
  BY DEF WithoutClashes, p
<1> QED
  BY <1>6, <1>7, <1>8, ClearedFile, ThinnedMirrored DEF acc, r

LEMMA WrittenSound ==
  ASSUME venue \in Venues, Sound(file), seen \subseteq Listings
  PROVE  Sound(Worked(Matched.rows))
<1>0. FileOK(file)
  BY DEF Sound
<1>1. CASE venue = "pinnacle"
  <2>1. Matched.rows = WithoutClashes(Filling(Retired(file), IndexCatalog(seen)))
    BY <1>1 DEF Matched
  <2>2. IndexCatalog(seen) \subseteq Listings
    BY DEF IndexCatalog
  <2>3. FileOK(Matched.rows) /\ MirroredIn(Matched.rows)
    BY <1>0, <1>1, <2>1, <2>2, PinnacleWrites
  <2>4. Worked(Matched.rows) = Matched.rows
    BY <1>1 DEF Worked
  <2> QED
    BY <1>1, <2>3, <2>4 DEF Sound
<1>2. CASE venue = "oddspapi"
  <2> DEFINE acc == Pass(Fresh(file), seen)
  <2>1. Matched.rows = acc.rows
    BY <1>2 DEF Matched, OddsFill
  <2>2. Fresh(file) \in Accs(DOMAIN file) /\ Fresh(file).rows = file /\ TrueIn(file) /\ DOMAIN file \subseteq Ids
    BY <1>0, <1>2, FreshAcc DEF Sound, FileOK
  <2>3. acc \in Accs(DOMAIN file) /\ TrueIn(acc.rows)
    BY <1>2, <2>2, OddsPass
  <2> HIDE DEF acc
  <2>4. FileOK(acc.rows)
    BY <2>2, <2>3 DEF Accs, FileOK
  <2>5. Worked(Matched.rows) = Matched.rows
    BY <1>2 DEF Worked
  <2> QED
    BY <1>2, <2>1, <2>3, <2>4, <2>5, TrueMirrored DEF Sound
<1>3. CASE venue \in {"betinasia", "bookmaker"}
  <2>1. FileOK(Matched.rows)
    <3>1. CASE venue = "betinasia"
      <4> DEFINE base == [rows |-> SiblingValidate(file), ids |-> ids]
      <4>1. Matched.rows = Pass(base, seen).rows
        BY <3>1 DEF Matched, BiaFilling
      <4>2. FileOK(base.rows)
        BY <1>0, SiblingFile
      <4>3. Pass(base, seen).rows \in [DOMAIN base.rows -> RowSet]
        BY <3>1, <4>2, BiaPass DEF FileOK
      <4> QED
        BY <4>1, <4>2, <4>3 DEF FileOK
    <3>2. CASE venue = "bookmaker"
      <4> DEFINE acc == Pass(Fresh(file), IndexCatalog(seen))
      <4>1. Matched.rows = acc.rows
        BY <3>2 DEF Matched, Filling
      <4>2. IndexCatalog(seen) \subseteq Listings
        BY DEF IndexCatalog
      <4>3. Fresh(file) \in Accs(DOMAIN file) /\ DOMAIN file \subseteq Ids
        BY <1>0, FreshAcc DEF FileOK
      <4>4. acc \in Accs(DOMAIN file)
        BY <3>2, <4>2, <4>3, BookPass
      <4> QED
        BY <4>1, <4>3, <4>4 DEF FileOK, Accs
    <3> QED
      BY <1>3, <3>1, <3>2
  <2>2. Worked(Matched.rows) = Checked(Matched.rows)
    BY <1>3 DEF Worked
  <2> QED
    BY <1>3, <2>1, <2>2, CheckedFile DEF Sound
<1> QED
  BY <1>1, <1>2, <1>3 DEF Venues

\* A row keeps its tokens while it is filled, whatever else is done to the file.
Carries(g, f) ==
  \A id \in DOMAIN g : Filled(g[id]) =>
    id \in DOMAIN f /\ Filled(f[id]) /\ g[id].yes = f[id].yes /\ g[id].no = f[id].no

LEMMA AskOK ==
  ASSUME NEW kind, NEW p \in 0 .. 99
  PROVE  YesPrice(Quote(kind, p)) \in 0 .. 99
<1>1. CASE kind = "tight"
  <2> DEFINE q == Quote(kind, p)
  <2>1. q.bid = p - 1 /\ q.ask = p + 1 /\ q.last = 99
    BY <1>1 DEF Quote
  <2> HIDE DEF q
  <2>2. YesPrice(q) = IF p - 1 > 0 /\ p + 1 > 0 /\ p - 1 <= p + 1 /\ p + 1 <= p - 1 + 15
                        THEN (p - 1 + (p + 1)) \div 2
                      ELSE IF 99 > 0 /\ (p - 1 = 0 \/ 99 >= p - 1) /\ (p + 1 = 0 \/ 99 <= p + 1) THEN 99 ELSE 0
    BY <2>1 DEF YesPrice, MaxTrustedSpread
  <2>3. (p - 1 + (p + 1)) \div 2 = p
    OBVIOUS
  <2> QED
    BY <2>2, <2>3 DEF q
<1>2. CASE kind # "tight"
  <2> DEFINE q == Quote(kind, p)
  <2>1. q.bid = 0 /\ q.last \in {p, 0}
    BY <1>2 DEF Quote
  <2> HIDE DEF q
  <2>2. YesPrice(q) \in {q.last, 0}
    BY <2>1 DEF YesPrice
  <2> QED
    BY <2>1, <2>2 DEF q
<1> QED
  BY <1>1, <1>2

LEMMA ScaffoldedFile ==
  ASSUME NEW listed, NEW kind, FileOK(file)
  PROVE  FileOK(Scaffolded(listed, kind)) /\ Carries(Scaffolded(listed, kind), file)
<1> DEFINE S == {x \in Ids : MarketOf(x).ev \in listed}
           Ask(id) == YesPrice(Quote(kind, Chance(MarketOf(id))))
           g == Scaffolded(listed, kind)
<1>1. \A id \in S : Ask(id) \in 0 .. 99
  <2> TAKE id \in S
  <2>1. PICK i \in DOMAIN Markets : MarketOf(id) = Markets[i]
    BY MarketOfId
  <2> DEFINE side == IF Markets[i].tie THEN "draw" ELSE Markets[i].side
  <2>2. GameOf(Markets[i].ev) \in Listings /\ side \in {"home", "away", "draw"}
    BY MarketsAssumption
  <2>3. Chance(MarketOf(id)) = Fair(GameOf(Markets[i].ev), side)
    BY <2>1 DEF Chance
  <2> HIDE DEF side
  <2>4. Chance(MarketOf(id)) \in 0 .. 99
    BY <2>2, <2>3, ListingsAssumption
  <2> QED
    BY <2>4, AskOK
<1>2. DOMAIN g = S /\ \A id \in S :
        g[id] = IF id \in DOMAIN file /\ Filled(file[id]) THEN [file[id] EXCEPT !.ask = Ask(id)] ELSE Blank(Ask(id))
  BY Zenon DEF Scaffolded
<1>g. g = [id \in S |-> g[id]]
  BY Zenon DEF Scaffolded
<1> HIDE DEF Ask, g
<1>3. ASSUME NEW id \in S
      PROVE  /\ g[id] \in RowSet
             /\ Filled(g[id]) => id \in DOMAIN file /\ Filled(file[id]) /\ g[id].yes = file[id].yes /\ g[id].no = file[id].no
  <2>0. Ask(id) \in 0 .. 99
    BY <1>1
  <2>1. CASE id \in DOMAIN file /\ Filled(file[id])
    <3>1. file[id] \in [yes : Tokens, no : Tokens, three : BOOLEAN, ask : 0 .. 99] /\ (file[id].yes = NoToken) = (file[id].no = NoToken)
      BY <2>1 DEF FileOK, RowSet
    <3>2. g[id] = [file[id] EXCEPT !.ask = Ask(id)]
      BY <1>2, <2>1
    <3>3. g[id] \in [yes : Tokens, no : Tokens, three : BOOLEAN, ask : 0 .. 99] /\ g[id].yes = file[id].yes /\ g[id].no = file[id].no
      BY <2>0, <3>1, <3>2
    <3> QED
      BY <2>1, <3>1, <3>3 DEF RowSet
  <2>2. CASE ~(id \in DOMAIN file /\ Filled(file[id]))
    <3>1. g[id] = [yes |-> NoToken, no |-> NoToken, three |-> FALSE, ask |-> Ask(id)]
      BY <1>2, <2>2, Zenon DEF Blank
    <3>2. NoToken \in Tokens
      BY DEF Tokens
    <3> HIDE DEF NoToken, Tokens
    <3>3. ~Filled(g[id]) /\ g[id] \in RowSet
      BY <2>0, <3>1, <3>2 DEF Filled, RowSet
    <3> QED
      BY <3>3
  <2> QED
    BY <2>1, <2>2
<1>4. FileOK(g)
  <2>1. g \in [S -> RowSet]
    BY <1>3, <1>g
  <2> QED
    BY <1>2, <2>1 DEF FileOK
<1>5. Carries(g, file)
  BY <1>2, <1>3 DEF Carries
<1> QED
  BY <1>4, <1>5 DEF g

LEMMA CarriedSound ==
  ASSUME NEW g, FileOK(g), Carries(g, file), Sound(file)
  PROVE  Sound(g)
<1>1. MirroredIn(g)
  <2> SUFFICES ASSUME NEW a \in DOMAIN g, NEW b \in DOMAIN g, a # b,
                      MarketOf(a).ev = MarketOf(b).ev, ~MarketOf(a).ev.three,
                      Filled(g[a]), Filled(g[b])
               PROVE  Mirror(g[a], g[b])
    BY DEF MirroredIn
  <2>1. /\ a \in DOMAIN file /\ Filled(file[a]) /\ g[a].yes = file[a].yes /\ g[a].no = file[a].no
        /\ b \in DOMAIN file /\ Filled(file[b]) /\ g[b].yes = file[b].yes /\ g[b].no = file[b].no
    BY DEF Carries
  <2>2. Mirror(file[a], file[b])
    BY <2>1 DEF Sound, MirroredIn
  <2> QED
    BY <2>1, <2>2 DEF Mirror
<1>2. OneEventIn(file) => OneEventIn(g)
  BY DEF Carries, OneEventIn
<1>3. TrueIn(file) => TrueIn(g)
  BY DEF Carries, TrueIn, TrueRow
<1> QED
  BY <1>1, <1>2, <1>3 DEF Sound

-----------------------------------------------------------------------------
(* Legs *)

LinesOf == {Derived(g, l.kind, l.points, l.side) : g \in Listings, l \in Strikes}

LEMMA LegsOfLine ==
  ASSUME NEW g, NEW k \in {"total", "spread"}, NEW p \in Points, NEW s \in {"home", "away"},
         NEW margin \in Int, NEW sum \in Int
  PROVE  LET l == Derived(g, k, p, s)
         IN  /\ Wins(l.yes, margin, sum) = Sold(l, margin, sum)
             /\ Wins(l.no, margin, sum) = ~Sold(l, margin, sum)
<1>1. p \in Nat /\ p % 2 = 1
  BY LinesAssumption
<1>2. \A x \in Int : 2 * x # p /\ 2 * x + p # 0
  BY <1>1
<1>3. CASE k = "total"
  <2>1. Derived(g, k, p, s) = [kind |-> k, side |-> s, points |-> p, yes |-> [leg |-> "over", points |-> p],
                               no |-> [leg |-> "under", points |-> p]]
    BY <1>3 DEF Derived
  <2>2. (2 * sum < p) = ~(2 * sum > p)
    BY <1>1, <1>2
  <2> QED
    BY <1>3, <2>1, <2>2 DEF Wins, Sold
<1>4. CASE k = "spread" /\ s = "home"
  <2>1. Derived(g, k, p, s) = [kind |-> k, side |-> s, points |-> p, yes |-> [leg |-> "home", points |-> -p],
                               no |-> [leg |-> "away", points |-> p]]
    BY <1>4 DEF Derived, Other
  <2>2. (2 * margin + -p > 0) = (2 * margin > p) /\ (p - 2 * margin > 0) = ~(2 * margin > p)
    BY <1>1, <1>2
  <2> QED
    BY <1>4, <2>1, <2>2 DEF Wins, Sold
<1>5. CASE k = "spread" /\ s = "away"
  <2>1. Derived(g, k, p, s) = [kind |-> k, side |-> s, points |-> p, yes |-> [leg |-> "away", points |-> -p],
                               no |-> [leg |-> "home", points |-> p]]
    BY <1>5 DEF Derived, Other
  <2>2. (-p - 2 * margin > 0) = (-2 * margin > p) /\ (2 * margin + p > 0) = ~(-2 * margin > p)
    BY <1>1, <1>2
  <2> QED
    BY <1>5, <2>1, <2>2 DEF Wins, Sold
<1> QED
  BY <1>3, <1>4, <1>5

LEMMA LegsOK ==
  ASSUME lines \subseteq LinesOf
  PROVE  LegsComplement
<1> SUFFICES ASSUME NEW l \in lines, NEW margin \in Margins, NEW sum \in Sums
             PROVE  /\ Wins(l.yes, margin, sum) = Sold(l, margin, sum)
                    /\ Wins(l.no, margin, sum) = ~Sold(l, margin, sum)
  BY DEF LegsComplement
<1>1. PICK g \in Listings, k \in {"total", "spread"}, p \in Points, s \in {"home", "away"} :
         l = Derived(g, k, p, s)
  BY DEF LinesOf, Strikes
<1>2. margin \in Int /\ sum \in Int
  BY DEF Margins, Sums
<1> QED
  BY <1>1, <1>2, LegsOfLine

-----------------------------------------------------------------------------
(* The invariant of the scheduler's scripts *)

HardInv ==
  /\ venue \in Venues /\ Sound(file)
  /\ step \in {"wait", "idle", "scaffold", "read", "write", "derive"}
  /\ seen \subseteq Listings /\ heard \in Quotes
  /\ lines \subseteq LinesOf

LEMMA HardInvSound == HardInv => RowsSound
<1> SUFFICES ASSUME HardInv PROVE RowsSound
  OBVIOUS
<1>1. FileOK(file) /\ MirroredIn(file) /\ (venue \in {"betinasia", "bookmaker"} => OneEventIn(file))
  BY DEF HardInv, Sound
<1>2. HardTypeOK
  <2>1. \A id \in DOMAIN file : id \in Ids /\ file[id] \in RowSet
    BY <1>1 DEF FileOK
  <2>2. \A id \in DOMAIN file : /\ file[id].yes \in Tokens /\ file[id].no \in Tokens
                                /\ file[id].three \in BOOLEAN /\ file[id].ask \in 0 .. 99
                                /\ (file[id].yes = NoToken) = (file[id].no = NoToken)
    BY <2>1 DEF RowSet
  <2> QED
    BY <2>1, <2>2, Zenon DEF HardTypeOK, HardInv
<1>3. Mirrored
  BY <1>1 DEF Mirrored, MirroredIn
<1>4. OneFixture
  BY <1>1 DEF OneFixture, OneEventIn
<1>5. LegsComplement
  BY LegsOK DEF HardInv
<1> QED
  BY <1>2, <1>3, <1>4, <1>5 DEF RowsSound

LEMMA HardInitInv == HardInit => HardInv
<1> SUFFICES ASSUME HardInit PROVE HardInv
  OBVIOUS
<1>1. DOMAIN file = {} /\ file \in [DOMAIN file -> RowSet]
  BY DEF HardInit
<1>2. Sound(file)
  BY <1>1 DEF Sound, FileOK, MirroredIn, OneEventIn, TrueIn
<1> QED
  BY <1>2 DEF HardInit, HardInv, Quotes

LEMMA HardSame == HardInv /\ UNCHANGED hardVars => HardInv'
BY DEF HardInv, hardVars, Sound, FileOK, MirroredIn, OneEventIn, TrueIn, TrueRow, Mirror, Filled, MarketOf, Venues, Quotes, LinesOf

LEMMA SoundNext ==
  ASSUME NEW f, Sound(f), file' = f, venue' = venue
  PROVE  Sound(file)'
BY DEF Sound, FileOK, MirroredIn, OneEventIn, TrueIn, TrueRow

LEMMA HardStep ==
  ASSUME HardInv, HardNext
  PROVE  HardInv'
<1>0. venue \in Venues /\ Sound(file) /\ seen \subseteq Listings /\ heard \in Quotes /\ lines \subseteq LinesOf
  BY DEF HardInv
<1>1. venue' = venue
  BY DEF HardNext, Wake, Scaffold, ScaffoldFails, Read, Write, Dies, Derive, DeriveFails
<1>2. step' \in {"wait", "idle", "scaffold", "read", "write", "derive"}
  BY DEF HardNext, Wake, Scaffold, ScaffoldFails, Read, Write, Dies, Derive, DeriveFails, Next1
<1>3. seen' \subseteq Listings /\ heard' \in Quotes
  BY <1>0 DEF HardNext, Wake, Scaffold, ScaffoldFails, Read, Write, Dies, Derive, DeriveFails, Forgotten, Quotes, Asleep
<1>4. lines' \subseteq LinesOf
  <2>1. CASE \E g \in Listings, l \in Strikes : Derive({g}, {l})
    BY <2>1 DEF Derive, LinesOf
  <2>2. CASE ~\E g \in Listings, l \in Strikes : Derive({g}, {l})
    <3>1. lines' = lines
      BY <2>2 DEF HardNext, Wake, Scaffold, ScaffoldFails, Read, Write, Dies, DeriveFails
    <3> QED
      BY <3>1, <1>0
  <2> QED
    BY <2>1, <2>2
<1>5. \E f : file' = f /\ Sound(f)
  <2>1. CASE file' = file
    BY <2>1, <1>0
  <2>2. CASE \E listed \in SUBSET Events, kind \in {"tight", "stale", "empty"} : Scaffold(listed, kind)
    <3>1. PICK listed, kind : file' = Scaffolded(listed, kind)
      BY <2>2 DEF Scaffold
    <3>2. FileOK(file)
      BY <1>0 DEF Sound
    <3>3. Sound(Scaffolded(listed, kind))
      BY <3>2, <1>0, ScaffoldedFile, CarriedSound
    <3> QED
      BY <3>1, <3>3
  <2>3. CASE Write
    <3>1. file' = file \/ file' = Worked(Matched.rows)
      BY <2>3, Zenon DEF Write
    <3>2. Sound(Worked(Matched.rows))
      BY <1>0, WrittenSound
    <3> QED
      BY <1>0, <3>1, <3>2
  <2> QED
    BY <2>1, <2>2, <2>3 DEF HardNext, Wake, ScaffoldFails, Read, Dies, Derive, DeriveFails
<1>6. Sound(file)'
  BY <1>1, <1>5, SoundNext
<1> QED
  BY <1>0, <1>1, <1>2, <1>3, <1>4, <1>6 DEF HardInv, Quotes, LinesOf

-----------------------------------------------------------------------------
(* The two pipelines side by side: each makes its own steps while the other's  *)
(* state stays as it is.                                                       *)

LEMMA HardAlways == PairingSpec => []HardInv
<1>1. PairingInit => HardInv
  BY HardInitInv DEF PairingInit
<1>2. HardInv /\ [PairingNext]_<<pipeline, hardVars, crossVars>> => HardInv'
  BY HardStep, HardSame DEF PairingNext
<1> QED
  BY <1>1, <1>2, PTL DEF PairingSpec

\* The rows of a hard venue's pair file agree with one another, and the two legs of a
\* derivative pair are its market's event and the complement, for any markets,
\* listings, names, prices and lines and any order of openings, failures and kills
\* (pairHard.py, the four pairers, pair_derivatives.py).
THEOREM RowsAgree == PairingSpec => []RowsSound
BY HardAlways, HardInvSound, PTL

LEMMA CrossSteps ==
  [PairingNext]_<<pipeline, hardVars, crossVars>> => [CrossNext]_crossVars
BY DEF PairingNext

LEMMA PairingIsCross == PairingSpec => CrossSpec
<1>1. PairingInit => CrossInit
  BY DEF PairingInit
<1> QED
  BY <1>1, CrossSteps, PTL DEF PairingSpec, CrossSpec

\* What holds of the Kalshi-Polymarket pipeline holds of it in the composition.
THEOREM PairingFiles == PairingSpec => []FilesSound /\ FilesKept
BY PairingIsCross, FilesHeld, FilesNeverLost, PTL DEF FilesKept
===================================================================================
