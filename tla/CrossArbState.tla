------------------------------- MODULE CrossArbState -------------------------------
(***************************************************************************)
(* State of KalshiPolyCross/CrossArbExecutor.cs: what the executor keeps   *)
(* in memory (lines 106-146), what the two venues really hold, and the     *)
(* program counters of the asynchronous tasks that share that state.       *)
(*                                                                         *)
(* Data abstraction.  Every quantity is counted in units; Contract units   *)
(* make one contract or share, so that the thresholds of the code (a whole *)
(* set, half a contract, dust) are told apart without fractions.  Every    *)
(* price is one dollar unit per unit of quantity: whether a price guard    *)
(* passes is a free choice, and money is counted in the same units.        *)
(***************************************************************************)
EXTENDS Integers, FiniteSets

CONSTANTS
    Pairs,        \* cross-venue pairs
    Slots,        \* OnArbOpened callbacks that may run at once on one pair
    Contract,     \* units in one contract
    Dust,         \* quantities below this are worth less than CleanupDustUsd
    MaxContracts, \* largest entry, in contracts (_maxBetUsd)
    Overfill,     \* units a dollar-denominated Poly FAK may buy past its size
    MaxExposure,  \* _maxExposureUsd
    MaxPerPair,   \* MaxPerPairExposureUsd
    Funds,        \* cash on each venue at the start
    MaxRetries,   \* PendingReversalMaxRetries
    LostReports,  \* whether a buy may fill and still be reported as zero
    MaxOpens,     \* bound: arb callbacks in a behaviour
    MaxExits,     \* bound: book-driven exit checks
    MaxTicks,     \* bound: wakes of the monitor loop; negative for no bound
    MaxRefreshes, \* bound: balance refreshes besides those after a trade
    MaxMisreads,  \* bound: positions lists that miss a held ticker
    MaxLosses,    \* bound: connection losses
    MaxCrashes    \* bound: restarts of the process

ASSUME QuantityAssumption ==
    /\ Contract \in Nat \ {0}
    /\ Dust \in Nat
    /\ MaxContracts \in Nat
    /\ Overfill \in Nat
    /\ Funds \in Nat
    /\ MaxExposure \in Nat
    /\ MaxPerPair \in Nat
    /\ MaxRetries \in Nat
    /\ LostReports \in BOOLEAN

\* An entry task is never mistaken for an exit task.
ASSUME TaskAssumption == Slots \cap {"book", "monitor"} = {}

ASSUME BoundAssumption ==
    /\ MaxOpens \in Nat
    /\ MaxExits \in Nat
    /\ MaxTicks \in Int
    /\ MaxRefreshes \in Nat
    /\ MaxMisreads \in Nat
    /\ MaxLosses \in Nat
    /\ MaxCrashes \in Nat

VARIABLES
    inFlight,    \* _inFlight: pairs owned by an entry or an exit
    openPos,     \* _openPositions
    orphaned,    \* _orphanedPairs
    pending,     \* _pendingReversals
    cooldown,    \* pairs whose _cooldownUntil has not passed
    absent,      \* _settlementAbsentTicks
    halted,      \* _halted
    connHalted,  \* _connectionHalted
    kBal, pBal,  \* _kalshiBalanceUsd, _polyBalanceUsd
    exposure,    \* _totalExposure
    invested,    \* _perPairInvested
    journaled,   \* pairs the journal would seed entryMap with
    kVenue,      \* contracts really held on Kalshi, in units
    pVenue,      \* shares really held on Polymarket, in units
    kCash, pCash,\* cash really on each venue
    closed,      \* pairs whose market has settled
    call,        \* the entry tasks
    exit,        \* the early-exit and retry tasks
    monitor,     \* RunEarlyExitMonitorAsync
    recons,      \* post-trade reconciliations under way
    refresh,     \* RefreshBalancesAsync: one is due, one is live with what it read
    budget       \* what is left of the bounds

ownVars     == <<inFlight, openPos, orphaned, pending, cooldown, absent>>
haltVars    == <<halted, connHalted>>
moneyVars   == <<kBal, pBal, exposure, invested>>
kalshiVars  == <<kVenue, kCash>>
polyVars    == <<pVenue, pCash>>
venueVars   == <<kVenue, kCash, pVenue, pCash, closed>>
backgroundVars == <<recons, refresh>>
vars == <<inFlight, openPos, orphaned, pending, cooldown, absent, halted,
          connHalted, kBal, pBal, exposure, invested, journaled, kVenue, pVenue,
          kCash, pCash, closed, call, exit, monitor, recons, refresh, budget>>

-----------------------------------------------------------------------------
(* Tasks.  An entry task is one OnArbOpened callback; an exit task is the  *)
(* book-driven check (_earlyExitScheduled admits one per pair) or the one  *)
(* the monitor loop runs itself.                                           *)

Tasks   == Pairs \X Slots
Exiters == Pairs \X {"book", "monitor"}
PairOf(t) == t[1]

None    == [k |-> 0, p |-> 0]      \* no tracked position
NoLeg   == [leg |-> "none", qty |-> 0, attempts |-> 0]
Waiting == -1                      \* an order whose result is not back yet
Fill    == Nat \cup {Waiting}      \* what an order is reported to have filled

Position == [k : Nat, p : Nat]
Reversal == [leg : {"none", "kalshi", "poly"}, qty : Nat, attempts : Nat]

EntryPcs == {"idle", "opened", "locked", "guarded", "sized", "firing",
             "excessK", "hedgingP", "reverseK", "reverseRest", "sellOverfill",
             "excessP", "hedgeK", "hedgingK", "sellP", "sellRest", "closing"}
Outcomes == {"NONE", "DUST_ABSORBED_KALSHI", "DUST_ABSORBED_POLY",
             "REVERSED_KALSHI", "REVERSED_POLY", "HEDGE_COMPLETED", "ORPHANED"}
ExitPcs  == {"idle", "priced", "selling", "swept", "retryHeld", "retryFree"}

\* n: size; k, p: reported fills; rest: quantity still to clean up; out, got:
\* RecoveryResult; prior: the snapshot of the Poly balance, 0 if it failed.
CallRec == [pc : EntryPcs, n : Nat, k : Fill, p : Fill, rest : Nat,
            out : Outcomes, got : Nat, prior : Fill]
ExitRec == [pc : ExitPcs, pos : Position, k : Fill, p : Fill, pr : Reversal]
Idle     == [pc |-> "idle", n |-> 0, k |-> 0, p |-> 0, rest |-> 0,
             out |-> "NONE", got |-> 0, prior |-> 0]
IdleExit == [pc |-> "idle", pos |-> None, k |-> 0, p |-> 0, pr |-> NoLeg]

ReconRec == [pair : Pairs, kExp : Int, pExp : Int, kSeen : Int,
             byOrder : BOOLEAN, prior : Nat]
NoRefresh == [k |-> 0, p |-> 0, live |-> FALSE, due |-> FALSE]

-----------------------------------------------------------------------------
(* Quantities *)

Lesser(a, b)  == IF a <= b THEN a ELSE b
Floored(a)    == IF a >= 0 THEN a ELSE 0                  \* Math.Max(0m, a)
Floor(q)      == (q \div Contract) * Contract             \* whole contracts below q
Ceil(q)       == Floor(q + Contract - 1)
Whole(q)      == {Contract * i : i \in 0..(q \div Contract)}
Sizes         == {Contract * i : i \in 1..MaxContracts}
Cost(pos)     == pos.k + pos.p
Holds(p)      == openPos[p] # None

\* What an order for q may fill: nothing once the market is closed, a purchase
\* never more than the cash buys, a sale never more than is held.  Kalshi
\* trades whole contracts.
KalshiBuys(p, q)  == IF p \in closed THEN {0} ELSE Whole(Lesser(q, kCash))
PolyBuys(p, q)    == IF p \in closed THEN {0} ELSE 0..Lesser(q + Overfill, pCash)
KalshiSells(p, q) == IF p \in closed THEN {0} ELSE Whole(Lesser(q, kVenue[p]))
PolySells(p, q)   == IF p \in closed THEN {0} ELSE 0..Lesser(q, pVenue[p])
Reported(f)       == IF LostReports THEN {f, 0} ELSE {f}

BuyKalshi(p, f)  == /\ kVenue' = [kVenue EXCEPT ![p] = @ + f]
                    /\ kCash' = kCash - f
BuyPoly(p, f)    == /\ pVenue' = [pVenue EXCEPT ![p] = @ + f]
                    /\ pCash' = pCash - f
SellKalshi(p, f) == BuyKalshi(p, -f)
SellPoly(p, f)   == BuyPoly(p, -f)

-----------------------------------------------------------------------------
EntryLocked(t) == call[t].pc \notin {"idle", "opened"}
EntryFired(t)  == EntryLocked(t) /\ call[t].pc \notin {"locked", "guarded", "sized"}
ExitLocked(x)  == exit[x].pc \in {"selling", "swept", "retryHeld"}

OwnType ==
    /\ inFlight \subseteq Pairs
    /\ openPos \in [Pairs -> Position]
    /\ orphaned \subseteq Pairs
    /\ pending \in [Pairs -> Reversal]
    /\ cooldown \subseteq Pairs
    /\ absent \in [Pairs -> Nat]
HaltType == halted \in BOOLEAN /\ connHalted \in BOOLEAN
\* Sizing never reserves more than the tracked balance of either venue.
MoneyType ==
    /\ kBal \in Nat /\ pBal \in Nat
    /\ exposure \in Int
    /\ invested \in [Pairs -> Nat]
\* Neither venue lets an account go short or into debt.
VenueType ==
    /\ kVenue \in [Pairs -> Nat] /\ kCash \in Nat
    /\ pVenue \in [Pairs -> Nat] /\ pCash \in Nat
    /\ closed \subseteq Pairs
MonitorType ==
    monitor \in [pc : {"sleep", "fetch", "settle", "retries", "done"},
                 snap : [Pairs -> Position], list : SUBSET Pairs,
                 todo : SUBSET Pairs]
BackgroundType ==
    /\ recons \subseteq ReconRec
    /\ refresh \in [k : Nat, p : Nat, live : BOOLEAN, due : BOOLEAN]
BudgetType ==
    budget \in [opens : Nat, exits : Nat, ticks : Int, refreshes : Nat,
                misreads : Nat, losses : Nat, crashes : Nat]

TypeOK ==
    /\ OwnType /\ HaltType /\ MoneyType /\ VenueType
    /\ journaled \subseteq Pairs
    /\ call \in [Tasks -> CallRec]
    /\ exit \in [Exiters -> ExitRec]
    /\ MonitorType /\ BackgroundType /\ BudgetType

Init ==
    /\ inFlight = {}
    /\ openPos = [p \in Pairs |-> None]
    /\ orphaned = {}
    /\ pending = [p \in Pairs |-> NoLeg]
    /\ cooldown = {}
    /\ absent = [p \in Pairs |-> 0]
    /\ halted = FALSE
    /\ connHalted = FALSE
    /\ kBal = Funds /\ pBal = Funds
    /\ exposure = 0
    /\ invested = [p \in Pairs |-> 0]
    /\ journaled = {}
    /\ kVenue = [p \in Pairs |-> 0] /\ pVenue = [p \in Pairs |-> 0]
    /\ kCash = Funds /\ pCash = Funds
    /\ closed = {}
    /\ call = [t \in Tasks |-> Idle]
    /\ exit = [x \in Exiters |-> IdleExit]
    /\ monitor = [pc |-> "sleep", snap |-> [p \in Pairs |-> None],
                  list |-> {}, todo |-> {}]
    /\ recons = {}
    /\ refresh = NoRefresh
    /\ budget = [opens |-> MaxOpens, exits |-> MaxExits, ticks |-> MaxTicks,
                 refreshes |-> MaxRefreshes, misreads |-> MaxMisreads,
                 losses |-> MaxLosses, crashes |-> MaxCrashes]
=============================================================================
