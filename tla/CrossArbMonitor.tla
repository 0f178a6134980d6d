------------------------------- MODULE CrossArbMonitor ------------------------------
(***************************************************************************)
(* The background work of CrossArbExecutor.cs: the 60 s loop               *)
(* RunEarlyExitMonitorAsync (2948-3041), RefreshBalancesAsync (477-521),   *)
(* ReconcileTradeAsync (2723-2842), the connection halt (2867-2873), a     *)
(* restart with RestorePositionsFromVenuesAsync (2512-2703), and the world *)
(* outside: cooldowns run out and markets settle.                          *)
(***************************************************************************)
EXTENDS CrossArbExit

MonitorTask(p) == <<p, "monitor">>
OpenPairs == {p \in Pairs : Holds(p)}

\* The loop wakes; it goes back to sleep at once when halted or when nothing
\* is open.  It works on the positions it saw at that moment.
MonitorWake ==
    /\ monitor.pc = "sleep"
    /\ ~halted /\ ~connHalted
    /\ OpenPairs # {}
    /\ budget.ticks # 0
    /\ monitor' = [monitor EXCEPT !.pc = "fetch", !.snap = openPos]
    /\ budget' = [budget EXCEPT !.ticks = IF @ > 0 THEN @ - 1 ELSE @]
    /\ UNCHANGED <<ownVars, haltVars, moneyVars, journaled, venueVars, call,
                   exit, backgroundVars>>

\* One positions read per tick, for the pairs whose Kalshi bid is gone.  The
\* list may miss held tickers (a partial page); tickers of other pairs keep it
\* from being empty, and an empty one is MonitorExits.
MonitorFetch ==
    /\ monitor.pc = "fetch"
    /\ \E todo \in (SUBSET {p \in Pairs : monitor.snap[p] # None}) \ {{}} :
       \E missed \in SUBSET todo :
          /\ missed # {} => budget.misreads > 0
          /\ budget' = [budget EXCEPT !.misreads =
                           IF missed = {} THEN @ ELSE @ - 1]
          /\ monitor' = [monitor EXCEPT !.pc = "settle", !.todo = todo,
                            !.list = {p \in Pairs : kVenue[p] > 0} \ missed]
    /\ UNCHANGED <<ownVars, haltVars, moneyVars, journaled, venueVars, call,
                   exit, backgroundVars>>

\* SettlementConfirmTicks is 2; one in the mutant.
AbsentOnce(p) == absent[p] + 1 >= 1
Confirmed(p)  == absent[p] + 1 >= 2

\* A pair still listed resets its count; the
\* second absence settles it: untracked, its exposure given back.
SettlementCheck(p) ==
    /\ monitor.pc = "settle"
    /\ p \in monitor.todo
    /\ monitor' = [monitor EXCEPT !.todo = @ \ {p}]
    /\ IF p \in monitor.list \/ ~Confirmed(p)
       THEN /\ absent' = [absent EXCEPT ![p] = IF p \in monitor.list THEN 0 ELSE @ + 1]
            /\ UNCHANGED <<openPos, exposure, journaled, refresh>>
       ELSE /\ absent' = [absent EXCEPT ![p] = 0]
            /\ ClosePosition(p, Cost(monitor.snap[p]))
            /\ journaled' = journaled \ {p}
            /\ refresh' = [refresh EXCEPT !.due = TRUE]
    /\ UNCHANGED <<inFlight, orphaned, pending, cooldown, haltVars, kBal, pBal,
                   invested, venueVars, call, exit, recons, budget>>

\* Settlement pass over (no bid was gone, the read failed or came back empty,
\* or the list is done): check the exit of every open position.
MonitorExits ==
    /\ \/ monitor.pc = "fetch"
       \/ monitor.pc = "settle" /\ monitor.todo = {}
    /\ \E priced \in SUBSET OpenPairs :
          exit' = [x \in Exiters |->
                      IF x[2] = "monitor" /\ x[1] \in priced
                      THEN [IdleExit EXCEPT !.pc = "priced"] ELSE exit[x]]
    /\ monitor' = [monitor EXCEPT !.pc = "retries", !.list = {}, !.todo = {},
                                  !.snap = [p \in Pairs |-> None]]
    /\ UNCHANGED <<ownVars, haltVars, moneyVars, journaled, venueVars, call,
                   backgroundVars, budget>>

MonitorIdle == \A p \in Pairs : exit[MonitorTask(p)].pc = "idle"

\* Its exits done, the loop retries every queued reversal.
MonitorRetries ==
    /\ monitor.pc = "retries"
    /\ MonitorIdle
    /\ exit' = [x \in Exiters |->
                   IF x[2] = "monitor" /\ pending[x[1]] # NoLeg
                   THEN [IdleExit EXCEPT !.pc = "retryFree", !.pr = pending[x[1]]]
                   ELSE exit[x]]
    /\ monitor' = [monitor EXCEPT !.pc = "done"]
    /\ UNCHANGED <<ownVars, haltVars, moneyVars, journaled, venueVars, call,
                   backgroundVars, budget>>

MonitorSleep ==
    /\ monitor.pc = "done"
    /\ MonitorIdle
    /\ monitor' = [monitor EXCEPT !.pc = "sleep"]
    /\ UNCHANGED <<ownVars, haltVars, moneyVars, journaled, venueVars, call,
                   exit, backgroundVars, budget>>

-----------------------------------------------------------------------------
(* Balances are read from the venues, then written over the tracked ones:  *)
(* after every trade that filled, and periodically.                        *)

RefreshRead ==
    /\ ~refresh.live
    /\ refresh.due \/ budget.refreshes > 0
    /\ refresh' = [k |-> kCash, p |-> pCash, live |-> TRUE, due |-> FALSE]
    /\ budget' = [budget EXCEPT !.refreshes = IF refresh.due THEN @ ELSE @ - 1]
    /\ UNCHANGED <<ownVars, haltVars, moneyVars, journaled, venueVars, call,
                   exit, monitor, recons>>

RefreshWrite ==
    /\ refresh.live
    /\ kBal' = refresh.k
    /\ pBal' = refresh.p
    /\ refresh' = [NoRefresh EXCEPT !.due = refresh.due]
    /\ UNCHANGED <<ownVars, haltVars, exposure, invested, journaled, venueVars,
                   call, exit, monitor, recons, budget>>

-----------------------------------------------------------------------------
(* ReconcileTradeAsync: the Kalshi count comes from the entry order when it *)
(* is conclusive, else from the positions list; Poly is measured against   *)
(* the pre-trade balance.  More than half a contract of Kalshi drift, or of *)
(* Poly excess, halts the bot, and so does a read that throws; a Poly       *)
(* shortfall is put down to lag.                                           *)

KActual(r)   == IF r.byOrder THEN r.kSeen ELSE kVenue[r.pair]
KMismatch(r) == \/ 2 * (KActual(r) - r.kExp) > Contract
                \/ 2 * (r.kExp - KActual(r)) > Contract
POver(r)     == 2 * (pVenue[r.pair] - r.prior - r.pExp) > Contract

ReconcileTrade(r) ==
    /\ recons' = recons \ {r}
    /\ \E threw \in BOOLEAN : halted' = (halted \/ threw \/ KMismatch(r) \/ POver(r))
    /\ UNCHANGED <<ownVars, connHalted, moneyVars, journaled, venueVars, call,
                   exit, monitor, refresh, budget>>

-----------------------------------------------------------------------------
HaltForConnectionLoss ==
    /\ ~connHalted /\ budget.losses > 0
    /\ connHalted' = TRUE
    /\ budget' = [budget EXCEPT !.losses = @ - 1]
    /\ UNCHANGED <<ownVars, halted, moneyVars, journaled, venueVars, call, exit,
                   monitor, backgroundVars>>

ResumeFromConnectionLoss ==
    /\ connHalted
    /\ connHalted' = FALSE
    /\ UNCHANGED <<ownVars, halted, moneyVars, journaled, venueVars, call, exit,
                   monitor, backgroundVars, budget>>

CooldownExpires(p) ==
    /\ p \in cooldown
    /\ cooldown' = cooldown \ {p}
    /\ UNCHANGED <<inFlight, openPos, orphaned, pending, absent, haltVars,
                   moneyVars, journaled, venueVars, call, exit, monitor,
                   backgroundVars, budget>>

\* The market settles: Kalshi pays out and closes, the Poly shares stay on
\* chain until they are redeemed.
MarketSettles(p) ==
    /\ p \notin closed
    /\ closed' = closed \cup {p}
    /\ SellKalshi(p, kVenue[p])
    /\ UNCHANGED <<ownVars, haltVars, moneyVars, journaled, polyVars, call,
                   exit, monitor, backgroundVars, budget>>

-----------------------------------------------------------------------------
(* A crash loses every task and all memory; the next start rebuilds the    *)
(* positions from the journal and the venues.  MinRestorePolyShares is one *)
(* share.                                                                  *)

PolyHeld(p)   == pVenue[p] >= Contract
KalshiHeld(p) == kVenue[p] > 0
\* Mutant of Restored: the Kalshi leg for both.
RestoredKalshi(p) == [k |-> kVenue[p], p |-> kVenue[p]]
Restored(p)   == LET m == Lesser(kVenue[p], pVenue[p]) IN [k |-> m, p |-> m]

\* No positions, or none that could be fetched, against a journal that expects
\* some halts the bot; a Poly balance that cannot be read skips the pair.
Restart ==
    /\ budget.crashes > 0
    /\ budget' = [budget EXCEPT !.crashes = @ - 1]
    /\ \E fetched, others \in BOOLEAN, unread \in SUBSET journaled :
         LET listed == fetched /\ (others \/ \E p \in Pairs : KalshiHeld(p))
             blind == journaled # {} /\ ~listed
             known == IF blind THEN {} ELSE {p \in journaled \ unread : PolyHeld(p)}
         IN
         /\ halted' = blind
         /\ openPos' = [p \in Pairs |->
               IF p \in known /\ KalshiHeld(p) THEN Restored(p) ELSE None]
         /\ orphaned' = {p \in known : ~KalshiHeld(p)}
    /\ inFlight' = {}
    /\ pending' = [p \in Pairs |-> NoLeg]
    /\ cooldown' = {}
    /\ absent' = [p \in Pairs |-> 0]
    /\ connHalted' = FALSE
    /\ kBal' = kCash /\ pBal' = pCash
    /\ exposure' = 0
    /\ invested' = [p \in Pairs |-> 0]
    /\ call' = [t \in Tasks |-> Idle]
    /\ exit' = [x \in Exiters |-> IdleExit]
    /\ monitor' = [pc |-> "sleep", snap |-> [p \in Pairs |-> None],
                   list |-> {}, todo |-> {}]
    /\ recons' = {}
    /\ refresh' = NoRefresh
    /\ UNCHANGED <<journaled, venueVars>>
=============================================================================
