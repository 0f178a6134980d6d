------------------------------ MODULE CrossArbExecutor ------------------------------
(***************************************************************************)
(* The cross-venue executor of KalshiPolyCross as one system: entries,     *)
(* their recovery, early exits, the monitor loop, balance refreshes,       *)
(* reconciliation, halts and restarts, interleaved as their tasks are.     *)
(***************************************************************************)
EXTENDS CrossArbRecovery, CrossArbMonitor

EntryStep(t) ==
    \/ TryEnter(t) \/ EntryGuards(t) \/ LeaveUnsized(t)
    \/ ReserveBalance(t) \/ RestoreBalance(t) \/ ReserveExposure(t)
    \/ KalshiLeg(t) \/ PolyLeg(t) \/ SnapshotPoly(t) \/ LegsDone(t)
    \/ Recovery(t)
    \/ Complete(t)

ExitStep(x) ==
    \/ StartExit(x) \/ ExitKalshiLeg(x) \/ ExitPolyLeg(x) \/ ExitSweep(x)
    \/ ExitDone(x) \/ ExitMissed(x) \/ ExitPartial(x)
    \/ RetryPendingReversal(x)

MonitorStep ==
    \/ MonitorWake \/ MonitorFetch
    \/ \E p \in Pairs : SettlementCheck(p)
    \/ MonitorExits \/ MonitorRetries \/ MonitorSleep

World ==
    \/ \E p \in Pairs : CooldownExpires(p) \/ MarketSettles(p)
    \/ HaltForConnectionLoss \/ ResumeFromConnectionLoss

Next ==
    \/ \E t \in Tasks : ArbOpened(t) \/ EntryStep(t)
    \/ \E p \in Pairs : BookUpdate(p)
    \/ \E x \in Exiters : ExitStep(x)
    \/ MonitorStep
    \/ RefreshRead \/ RefreshWrite
    \/ \E r \in recons : ReconcileTrade(r)
    \/ World
    \/ Restart

Spec == Init /\ [][Next]_vars

\* Every await of a task ends (HTTP timeouts, bounded polls), so a task that
\* has started goes on; the monitor loop and spawned tasks keep running.
Fairness ==
    /\ \A t \in Tasks : WF_vars(EntryStep(t))
    /\ \A x \in Exiters : WF_vars(ExitStep(x))
    /\ WF_vars(MonitorStep)

FairSpec == Spec /\ Fairness

=============================================================================
