--------------------------------- MODULE LiveBroker ---------------------------------
(***************************************************************************)
(* The order tasks of PolymarketLiveBroker.cs: a buy or a sell is posted,  *)
(* its fill is learnt from the user stream, from the response or from one  *)
(* poll, and an order whose outcome stays unknown becomes a ghost.         *)
(*                                                                         *)
(* Quantities are shares, every price is one dollar per share, fees are    *)
(* left out; which guard on price or size turns a call away is a free      *)
(* choice.  One action per stretch between two awaits; the stretch after   *)
(* a poll is cut in two, where another thread can get in between.          *)
(***************************************************************************)
EXTENDS Integers

CONSTANTS
    Assets,      \* outcome tokens
    Orders,      \* bound: the orders of a behaviour
    NoOrder,
    MaxShares,   \* largest buy
    Funds,       \* USDC in the wallet at the start
    Copies,      \* events the user stream may send for one fill
    MaxSweeps,   \* bound: passes of the 15-minute sweeper
    MaxCrashes   \* bound: restarts of the process

ASSUME LiveAssumption ==
    /\ NoOrder \notin Orders
    /\ MaxShares \in Nat /\ Funds \in Nat
    /\ Copies \subseteq Nat
    /\ MaxSweeps \in Nat /\ MaxCrashes \in Nat

VARIABLES
    pending,   \* _pendingOrders: assets with an order in flight or a ghost
    signal,    \* _fillSignals: the order whose completion source is registered
    ghost,     \* _ghostOrders: the order whose outcome is unknown
    cooling,   \* assets whose _sellCooldownUntil has not passed
    pos,       \* GetPositionShares
    cash,      \* CashBalance
    intent,    \* shares a caller of SubmitSellAllOrder read, 0 for none
    orders,    \* the tasks, and what the exchange did with each order
    books,     \* TradeLedger: entries made by each order or its ghost
    counted,   \* TradeLedger: entries made of each order's fill
    avail,     \* shares in the wallet that are not sold
    funds,     \* USDC in the wallet that is not spent
    notes,     \* user-stream events on their way, per order
    retries,   \* delayed retries of ReconcileGhostFill, per order
    saved,     \* bot_state.json
    sync,      \* RunFullSyncAsync
    budget     \* what is left of the bounds

ownVars    == <<pending, signal, ghost, cooling>>
moneyVars  == <<pos, cash>>
ledgerVars == <<books, counted>>
walletVars == <<avail, funds>>
streamVars == <<notes, retries>>
hostVars   == <<saved, sync, budget>>
vars == <<pending, signal, ghost, cooling, pos, cash, intent, orders, books,
          counted, avail, funds, notes, retries, saved, sync, budget>>

Unmatched == -1
Pcs  == {"unused", "queued", "posting", "waiting", "polling", "settling",
         "syncing", "correcting", "finally", "done"}
Seen == [of : Orders \cup {NoOrder}, qty : Nat]   \* a fill, and whose it was
Unseen == [of |-> NoOrder, qty |-> 0]

\* Each order slot belongs to one asset.
\* ws: the result of the completion source; got: what the task found out.
OrderRec == [pc : Pcs, asset : Assets, side : {"BUY", "SELL"}, size : Nat,
             filled : Nat \cup {Unmatched}, mined : BOOLEAN, ws : Seen, got : Seen]

SyncRec == [pc : {"idle", "cash", "cashRead", "scan", "held"}, val : Int,
            at : SUBSET Assets, todo : SUBSET Assets]
NoSync  == [pc |-> "idle", val |-> 0, at |-> {}, todo |-> {}]

Active(o) == orders[o].pc \notin {"unused", "done"}
AssetOf(o) == orders[o].asset
Smaller(a, b) == IF a <= b THEN a ELSE b

OwnType ==
    /\ pending \subseteq Assets /\ cooling \subseteq Assets
    /\ signal \in [Assets -> Orders \cup {NoOrder}]
    /\ ghost \in [Assets -> Orders \cup {NoOrder}]
    /\ intent \in [Assets -> Nat]
\* No race of a sale and a synchronisation makes a position negative.
MoneyType  == pos \in [Assets -> Nat] /\ cash \in Int
OrderType  == orders \in [Orders -> OrderRec]
LedgerType == books \in [Orders -> Nat] /\ counted \in [Orders -> Nat]
WalletType == avail \in [Assets -> Nat] /\ funds \in Nat
StreamType == notes \in [Orders -> Nat] /\ retries \in [Orders -> Nat]
HostType ==
    /\ saved \in [Assets -> Nat]
    /\ sync \in SyncRec /\ (sync.pc = "held" => sync.val \in Nat)
    /\ budget \in [sweeps : Nat, crashes : Nat]

TypeOK ==
    /\ OwnType /\ MoneyType /\ OrderType /\ LedgerType
    /\ WalletType /\ StreamType /\ HostType

Init ==
    /\ pending = {} /\ cooling = {}
    /\ signal = [a \in Assets |-> NoOrder]
    /\ ghost = [a \in Assets |-> NoOrder]
    /\ pos = [a \in Assets |-> 0] /\ cash = Funds
    /\ intent = [a \in Assets |-> 0]
    /\ orders \in [Orders -> {[pc |-> "unused", asset |-> a, side |-> "BUY",
                               size |-> 0, filled |-> Unmatched, mined |-> FALSE,
                               ws |-> Unseen, got |-> Unseen] : a \in Assets}]
    /\ books = [o \in Orders |-> 0] /\ counted = [o \in Orders |-> 0]
    /\ avail = [a \in Assets |-> 0] /\ funds = Funds
    /\ notes = [o \in Orders |-> 0] /\ retries = [o \in Orders |-> 0]
    /\ saved = [a \in Assets |-> 0]
    /\ sync = NoSync
    /\ budget = [sweeps |-> MaxSweeps, crashes |-> MaxCrashes]

-----------------------------------------------------------------------------
(* Booking a fill under BrokerLock: a buy adds shares, a sell takes away    *)
(* what is held and no more.                                               *)

Book(by, of, side, a, q) ==
    /\ books' = [books EXCEPT ![by] = @ + 1]
    /\ counted' = [counted EXCEPT ![of] = @ + 1]
    /\ IF side = "BUY"
       THEN pos' = [pos EXCEPT ![a] = @ + q] /\ cash' = cash - q
       ELSE pos' = [pos EXCEPT ![a] = @ - Smaller(@, q)] /\ cash' = cash + q

BookNothing == UNCHANGED <<moneyVars, ledgerVars>>

Goto(o, pc) == orders' = [orders EXCEPT ![o].pc = pc]
ClearSignal(a) == signal' = [signal EXCEPT ![a] = NoOrder]

-----------------------------------------------------------------------------
(* SubmitBuyOrder and SubmitSellAllOrder up to the start of the task       *)

\* _pendingOrders.TryAdd, then the task.  A call that a guard turns away gives
\* the lock back at once and changes nothing.
Queue(o, side, size) ==
    /\ orders[o].pc = "unused"
    /\ AssetOf(o) \notin pending
    /\ pending' = pending \cup {AssetOf(o)}
    /\ orders' = [orders EXCEPT ![o].pc = "queued", ![o].side = side, ![o].size = size]
    /\ UNCHANGED <<signal, ghost, cooling, moneyVars, ledgerVars, walletVars,
                   streamVars, hostVars>>

SubmitBuy(o) ==
    /\ \E n \in 1..MaxShares : Queue(o, "BUY", n)
    /\ UNCHANGED intent

\* The shares to sell are read, capped by the caller or not, before the lock is
\* taken.
ReadShares(a) ==
    /\ intent[a] = 0 /\ a \notin cooling
    /\ \E o \in Orders : orders[o].pc = "unused" /\ AssetOf(o) = a
    /\ \E n \in 1..pos[a] : intent' = [intent EXCEPT ![a] = n]
    /\ UNCHANGED <<ownVars, moneyVars, orders, ledgerVars, walletVars, streamVars,
                   hostVars>>

SubmitSell(o) ==
    /\ intent[AssetOf(o)] > 0
    /\ Queue(o, "SELL", intent[AssetOf(o)])
    /\ intent' = [intent EXCEPT ![AssetOf(o)] = 0]

\* TryAdd fails, or a guard turns the call away.
DropSell(a) ==
    /\ intent[a] > 0
    /\ intent' = [intent EXCEPT ![a] = 0]
    /\ UNCHANGED <<ownVars, moneyVars, orders, ledgerVars, walletVars, streamVars,
                   hostVars>>

-----------------------------------------------------------------------------
(* The exchange                                                            *)

\* A FAK order matches some of its size, or nothing: a sale not more than the
\* wallet holds.  The fill is announced on the user stream, as a trade and
\* perhaps as an order event.  A bought share can be sold once it is mined.
ExchangeMatch(o) ==
    LET a == AssetOf(o)
        f == orders[o]
        most == Smaller(f.size, IF f.side = "BUY" THEN funds ELSE avail[a])
    IN
    /\ f.pc \notin {"unused", "queued"} /\ f.filled = Unmatched
    /\ Active(o) \/ ghost[a] = o
    /\ \E q \in 0..most, copies \in Copies :
          /\ orders' = [orders EXCEPT ![o].filled = q]
          /\ notes' = [notes EXCEPT ![o] = IF q = 0 THEN 0 ELSE copies]
          /\ IF f.side = "BUY"
             THEN funds' = funds - q /\ UNCHANGED avail
             ELSE funds' = funds + q /\ avail' = [avail EXCEPT ![a] = @ - q]
    /\ UNCHANGED <<ownVars, moneyVars, intent, ledgerVars, retries, hostVars>>

Mine(o) ==
    LET a == AssetOf(o) IN
    /\ orders[o].filled > 0 /\ ~orders[o].mined
    /\ orders' = [orders EXCEPT ![o].mined = TRUE]
    /\ avail' = IF orders[o].side = "BUY"
                THEN [avail EXCEPT ![a] = @ + orders[o].filled] ELSE avail
    /\ UNCHANGED <<ownVars, moneyVars, intent, ledgerVars, funds, streamVars, hostVars>>

\* What a read of the chain may return: the last sales and purchases may not be
\* mined yet.
Unmined(side)  == {o \in Orders : /\ orders[o].side = side /\ ~orders[o].mined
                                  /\ orders[o].filled > 0}
ChainShares(a) == {avail[a]} \cup
    {avail[a] + orders[o].filled : o \in {u \in Unmined("SELL") : AssetOf(u) = a}}
ChainCash == {funds} \cup {funds + orders[o].filled : o \in Unmined("BUY")}
                     \cup {funds - orders[o].filled : o \in Unmined("SELL")}

-----------------------------------------------------------------------------
(* The order task                                                          *)

\* The completion source is registered before the order is posted.  A sale the
\* exchange has no settled shares for is posted again, up to 20 times.
Post(o) ==
    /\ orders[o].pc = "queued"
    /\ Goto(o, "posting")
    /\ signal' = [signal EXCEPT ![AssetOf(o)] = o]
    /\ UNCHANGED <<pending, ghost, cooling, moneyVars, intent, ledgerVars, walletVars,
                   streamVars, hostVars>>

\* The user stream has answered, during the round trip or the 5 s wait.
TakeSignal(o) ==
    /\ orders[o].pc \in {"posting", "waiting"}
    /\ orders[o].ws # Unseen
    /\ orders' = [orders EXCEPT ![o].got = orders[o].ws, ![o].pc = "settling"]
    /\ UNCHANGED <<ownVars, moneyVars, intent, ledgerVars, walletVars, streamVars,
                   hostVars>>

\* The response carries the amounts.
FromResponse(o) ==
    /\ orders[o].pc = "posting" /\ orders[o].ws = Unseen
    /\ orders[o].filled > 0
    /\ orders' = [orders EXCEPT ![o].got = [of |-> o, qty |-> orders[o].filled],
                                ![o].pc = "settling"]
    /\ ClearSignal(AssetOf(o))
    /\ UNCHANGED <<pending, ghost, cooling, moneyVars, intent, ledgerVars, walletVars,
                   streamVars, hostVars>>

AwaitSignal(o) ==
    /\ orders[o].pc = "posting" /\ orders[o].ws = Unseen
    /\ Goto(o, "waiting")
    /\ UNCHANGED <<ownVars, moneyVars, intent, ledgerVars, walletVars, streamVars,
                   hostVars>>

\* 5 s without an event, or with one that came in too late.
Timeout(o) ==
    /\ orders[o].pc = "waiting"
    /\ Goto(o, "polling")
    /\ ClearSignal(AssetOf(o))
    /\ UNCHANGED <<pending, ghost, cooling, moneyVars, intent, ledgerVars, walletVars,
                   streamVars, hostVars>>

\* The poll finds the order matched or live, or there is no order id to poll.
PollMatched(o) ==
    /\ orders[o].pc = "polling"
    /\ \/ Goto(o, "settling")
       \/ /\ orders[o].filled > 0
          /\ orders' = [orders EXCEPT ![o].got = [of |-> o, qty |-> orders[o].filled],
                                      ![o].pc = "settling"]
    /\ UNCHANGED <<ownVars, moneyVars, intent, ledgerVars, walletVars, streamVars,
                   hostVars>>

\* Mutant of PollUnknown: the amounts of the failed poll are booked as well.
PollBoth(o) ==
    /\ orders[o].pc = "polling"
    /\ ghost' = [ghost EXCEPT ![AssetOf(o)] = o]
    /\ orders' = [orders EXCEPT ![o].pc = "settling",
                      ![o].got = IF orders[o].filled > 0
                                 THEN [of |-> o, qty |-> orders[o].filled] ELSE @]
    /\ UNCHANGED <<pending, signal, cooling, moneyVars, intent, ledgerVars, walletVars,
                   streamVars, hostVars>>

\* The poll fails or finds the order cancelled: a ghost.
PollUnknown(o) ==
    /\ orders[o].pc = "polling"
    /\ ghost' = [ghost EXCEPT ![AssetOf(o)] = o]
    /\ Goto(o, "settling")
    /\ UNCHANGED <<pending, signal, cooling, moneyVars, intent, ledgerVars, walletVars,
                   streamVars, hostVars>>

\* The signal is cleared once more, the fill is booked; a missed sale cools down
\* unless it is a ghost.
Settle(o) ==
    LET a == AssetOf(o)
        f == orders[o]
    IN
    /\ f.pc = "settling"
    /\ ClearSignal(a)
    /\ IF f.got.qty > 0
       THEN /\ Book(o, f.got.of, f.side, a, f.got.qty)
            /\ cooling' = IF f.side = "SELL" THEN cooling \ {a} ELSE cooling
       ELSE /\ BookNothing
            /\ cooling' = IF f.side = "SELL" /\ ghost[a] = NoOrder
                          THEN cooling \cup {a} ELSE cooling
    /\ Goto(o, "finally")
    /\ UNCHANGED <<pending, ghost, intent, walletVars, streamVars, hostVars>>

\* Rejected, or an exception: the fill, if there is one, goes unseen.  A sale
\* cools down, or reads the chain when its balance was short.
Fail(o) ==
    /\ orders[o].pc = "posting"
    /\ ClearSignal(AssetOf(o))
    /\ \/ Goto(o, "finally") /\ UNCHANGED cooling
       \/ /\ orders[o].side = "SELL"
          /\ \/ Goto(o, "finally") /\ cooling' = cooling \cup {AssetOf(o)}
             \/ Goto(o, "syncing") /\ UNCHANGED cooling
    /\ UNCHANGED <<pending, ghost, moneyVars, intent, ledgerVars, walletVars, streamVars,
                   hostVars>>

\* Every attempt at a sale was turned down for its fee rate.
Unanswered(o) ==
    /\ orders[o].pc = "posting" /\ orders[o].side = "SELL"
    /\ Goto(o, "finally")
    /\ UNCHANGED <<ownVars, moneyVars, intent, ledgerVars, walletVars, streamVars,
                   hostVars>>

\* Emergency sync: the position becomes what the chain said before.
EmergencyRead(o) ==
    /\ orders[o].pc = "syncing"
    /\ \/ Goto(o, "finally")
       \/ \E q \in ChainShares(AssetOf(o)) :
             orders' = [orders EXCEPT ![o].pc = "correcting", ![o].got.qty = q]
    /\ UNCHANGED <<ownVars, moneyVars, intent, ledgerVars, walletVars, streamVars,
                   hostVars>>

EmergencyWrite(o) ==
    /\ orders[o].pc = "correcting"
    /\ pos' = [pos EXCEPT ![AssetOf(o)] = orders[o].got.qty]
    /\ Goto(o, "finally")
    /\ UNCHANGED <<ownVars, cash, intent, ledgerVars, walletVars, streamVars, hostVars>>

\* Mutant of Finally: no finally block, the lock stays.
FinallyKeep(o) ==
    /\ orders[o].pc = "finally"
    /\ Goto(o, "done")
    /\ UNCHANGED <<ownVars, moneyVars, intent, ledgerVars, walletVars, streamVars,
                   hostVars>>

\* The finally block: the lock stays with a ghost of the asset.
Finally(o) ==
    LET a == AssetOf(o) IN
    /\ orders[o].pc = "finally"
    /\ Goto(o, "done")
    /\ pending' = IF ghost[a] = NoOrder THEN pending \ {a} ELSE pending
    /\ UNCHANGED <<signal, ghost, cooling, moneyVars, intent, ledgerVars, walletVars,
                   streamVars, hostVars>>

OrderStep(o) ==
    \/ Post(o) \/ TakeSignal(o) \/ FromResponse(o) \/ AwaitSignal(o) \/ Timeout(o)
    \/ PollMatched(o) \/ PollUnknown(o) \/ Settle(o) \/ Fail(o) \/ Unanswered(o)
    \/ EmergencyRead(o) \/ EmergencyWrite(o) \/ Finally(o)
=============================================================================
