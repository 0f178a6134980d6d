---------------------------------- MODULE LiveHost ----------------------------------
(***************************************************************************)
(* The live broker in its host, PredictionLiveProduction/Program.cs: the   *)
(* user stream hands fills to the waiting task and to ghost orders, the    *)
(* sweeper saves the state, purges old ghosts and overwrites cash and      *)
(* positions with what the chain says; a restart does the last once more.  *)
(***************************************************************************)
EXTENDS LiveBroker

\* ReconcileGhostFill asks for a ghost of the fill's asset and side.
Matches(o) == LET g == ghost[AssetOf(o)] IN
              g # NoOrder /\ orders[g].side = orders[o].side

\* The ghost is taken and booked, the lock released and the state saved.
Reconcile(o, q) ==
    LET a == AssetOf(o) IN
    /\ Book(ghost[a], o, orders[o].side, a, q)
    /\ ghost' = [ghost EXCEPT ![a] = NoOrder]
    /\ pending' = pending \ {a}
    /\ saved' = pos'

\* OnTradeMatched: some event of order o, for part of its fill, completes the
\* source registered for the asset, whoever registered it; then a ghost of the
\* asset is reconciled, or a retry is left for 3 s later.
Deliver(o) ==
    LET a == AssetOf(o)
        w == signal[a]
    IN
    /\ notes[o] > 0
    /\ notes' = [notes EXCEPT ![o] = @ - 1]
    /\ signal' = [signal EXCEPT ![a] = NoOrder]
    /\ \E q \in 1..orders[o].filled :
          /\ orders' = IF w = NoOrder THEN orders
                       ELSE [orders EXCEPT ![w].ws = [of |-> o, qty |-> q]]
          /\ IF Matches(o)
             THEN Reconcile(o, q) /\ UNCHANGED retries
             ELSE /\ retries' = [retries EXCEPT ![o] = @ + 1]
                  /\ BookNothing /\ UNCHANGED <<ghost, pending, saved>>
    /\ UNCHANGED <<cooling, intent, walletVars, sync, budget>>

RetryReconcile(o) ==
    /\ retries[o] > 0
    /\ retries' = [retries EXCEPT ![o] = @ - 1]
    /\ IF Matches(o)
       THEN \E q \in 1..orders[o].filled : Reconcile(o, q)
       ELSE BookNothing /\ UNCHANGED <<ghost, pending, saved>>
    /\ UNCHANGED <<signal, cooling, intent, orders, walletVars, notes, sync, budget>>

\* An event missed while the stream reconnects.
LoseNote(o) ==
    /\ notes[o] > 0
    /\ notes' = [notes EXCEPT ![o] = @ - 1]
    /\ UNCHANGED <<ownVars, moneyVars, intent, orders, ledgerVars, walletVars, retries,
                   hostVars>>

CoolingOver(a) ==
    /\ a \in cooling
    /\ cooling' = cooling \ {a}
    /\ UNCHANGED <<pending, signal, ghost, moneyVars, intent, orders, ledgerVars,
                   walletVars, streamVars, hostVars>>

-----------------------------------------------------------------------------
(* The sweeper                                                             *)

\* A ghost is 15 minutes old before it is purged, its task long over.
PurgeStaleGhost(a) ==
    /\ ghost[a] # NoOrder /\ orders[ghost[a]].pc = "done"
    /\ ghost' = [ghost EXCEPT ![a] = NoOrder]
    /\ pending' = pending \ {a}
    /\ UNCHANGED <<signal, cooling, moneyVars, intent, orders, ledgerVars, walletVars,
                   streamVars, hostVars>>

Sweep ==
    /\ sync.pc = "idle" /\ budget.sweeps > 0
    /\ budget' = [budget EXCEPT !.sweeps = @ - 1]
    /\ saved' = pos
    /\ sync' = [NoSync EXCEPT !.pc = "cash"]
    /\ UNCHANGED <<ownVars, moneyVars, intent, orders, ledgerVars, walletVars, streamVars>>

\* The scan of the positions still to be read.
Scan(T) == [pc |-> "scan", val |-> 0, at |-> {}, todo |-> T]

\* A read of the cash that throws ends the pass.
SyncReadCash ==
    /\ sync.pc = "cash"
    /\ \/ sync' = NoSync
       \/ \E v \in ChainCash : sync' = [sync EXCEPT !.pc = "cashRead", !.val = v]
    /\ UNCHANGED <<ownVars, moneyVars, intent, orders, ledgerVars, walletVars, streamVars,
                   saved, budget>>

SyncWriteCash ==
    /\ sync.pc = "cashRead"
    /\ cash' = sync.val
    /\ sync' = Scan(Assets)
    /\ UNCHANGED <<ownVars, pos, intent, orders, ledgerVars, walletVars, streamVars, saved,
                   budget>>

SyncRead(a) ==
    /\ sync.pc = "scan" /\ a \in sync.todo
    /\ \/ sync' = [sync EXCEPT !.todo = @ \ {a}]
       \/ \E v \in ChainShares(a) :
             sync' = [pc |-> "held", val |-> v, at |-> {a}, todo |-> sync.todo \ {a}]
    /\ UNCHANGED <<ownVars, moneyVars, intent, orders, ledgerVars, walletVars, streamVars,
                   saved, budget>>

SyncWrite ==
    /\ sync.pc = "held"
    /\ pos' = [a \in Assets |-> IF a \in sync.at THEN sync.val ELSE pos[a]]
    /\ sync' = Scan(sync.todo)
    /\ UNCHANGED <<ownVars, cash, intent, orders, ledgerVars, walletVars, streamVars, saved,
                   budget>>

SyncDone ==
    /\ sync.pc = "scan" /\ sync.todo = {}
    /\ sync' = NoSync
    /\ UNCHANGED <<ownVars, moneyVars, intent, orders, ledgerVars, walletVars, streamVars,
                   saved, budget>>

\* LoadState, then a full sync before anything is traded.
Restart ==
    /\ budget.crashes > 0
    /\ budget' = [budget EXCEPT !.crashes = @ - 1]
    /\ pending' = {} /\ cooling' = {}
    /\ signal' = [a \in Assets |-> NoOrder]
    /\ ghost' = [a \in Assets |-> NoOrder]
    /\ pos' \in [Assets -> UNION {ChainShares(a) \cup {saved[a]} : a \in Assets}]
    /\ \A a \in Assets : pos'[a] \in ChainShares(a) \cup {saved[a]}
    /\ cash' \in ChainCash
    /\ intent' = [a \in Assets |-> 0]
    /\ orders' = [o \in Orders |-> IF Active(o) THEN [orders[o] EXCEPT !.pc = "done"]
                                   ELSE orders[o]]
    /\ notes' = [o \in Orders |-> 0] /\ retries' = [o \in Orders |-> 0]
    /\ sync' = NoSync
    /\ UNCHANGED <<ledgerVars, walletVars, saved>>

-----------------------------------------------------------------------------
Next ==
    \/ \E o \in Orders : \/ SubmitBuy(o) \/ SubmitSell(o) \/ OrderStep(o)
                         \/ ExchangeMatch(o) \/ Mine(o)
                         \/ Deliver(o) \/ RetryReconcile(o) \/ LoseNote(o)
    \/ \E a \in Assets : \/ ReadShares(a) \/ DropSell(a) \/ CoolingOver(a)
                         \/ PurgeStaleGhost(a) \/ SyncRead(a)
    \/ Sweep \/ SyncReadCash \/ SyncWriteCash \/ SyncWrite \/ SyncDone
    \/ Restart

Spec == Init /\ [][Next]_vars

-----------------------------------------------------------------------------
\* An order is accounted for at most once, by its response, its signal, its poll
\* or its ghost, whatever is delivered late, twice or to a retry, and with a
\* ghost reconciled while its own task is still ending (PolymarketLiveBroker.cs
\* 198-349, 547-694, 844-914).
AccountedOnce == \A o \in Orders : books[o] <= 1

\* A locked asset has an order under way or a ghost: no race of a task's end, a
\* reconciliation and a purge leaves a lock behind (390-394, 791-795, 904, 933).
LockHasHolder ==
    \A a \in pending : \/ ghost[a] # NoOrder
                       \/ \E o \in Orders : Active(o) /\ AssetOf(o) = a

\* Locks have their holders, and no sale is larger than what is held, although what it
\* was sized by is read before the lock (416, 448).
LocksSound == TypeOK /\ LockHasHolder

=============================================================================
