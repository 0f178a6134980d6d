----------------------------- MODULE CrossArbProperties -----------------------------
(***************************************************************************)
(* What the cross-venue executor promises: who owns a pair, what is        *)
(* tracked against what is held, what recovery and restarts leave behind.  *)
(***************************************************************************)
EXTENDS CrossArbExecutor

\* The tasks that believe they own a pair.
Lockers   == {t \in Tasks : EntryLocked(t)} \cup {x \in Exiters : ExitLocked(x)}
Owners(p) == {a \in Lockers : PairOf(a) = p}

\* Unhedged quantities from here on are worth flagging.
Slack == IF Dust > Contract THEN Dust ELSE Contract

\* A tracked position is really held on both venues.
Covered(p) == openPos[p].k <= kVenue[p] /\ openPos[p].p <= pVenue[p]

\* The executor as an ArbPair.
PairView == INSTANCE ArbPair WITH
    Entries <- Tasks, Exits <- Exiters,
    owners  <- [p \in Pairs |-> Owners(p)],
    open    <- [p \in Pairs |-> Holds(p)],
    starts  <- MaxCrashes - budget.crashes

-----------------------------------------------------------------------------
\* At most one entry or exit owns a pair, and _inFlight lists the owned pairs,
\* no pair more: every path out of ExecuteAsync and CheckEarlyExitAsync frees
\* its pair, and none frees the pair of another task (lines 554-560, 3184-3364).
OneOwner ==
    /\ \A p \in Pairs : \A a, b \in Owners(p) : a = b
    /\ inFlight = {p \in Pairs : Owners(p) # {}}

\* An entry past the single-entry guard (line 578) never finds the pair with a
\* tracked position until its own legs are back: nothing it awaits in between
\* lets another task open one.
EntryFromFlat ==
    \A t \in Tasks : call[t].pc \in {"guarded", "sized", "firing"} => ~Holds(PairOf(t))

\* Whatever recovery did, a tracked position is hedged: never more Kalshi than
\* Poly, and less than a contract (or dust) of Poly too many (lines 965-1192).
TrackedHedged ==
    \A p \in Pairs : /\ openPos[p].k <= openPos[p].p
                     /\ openPos[p].p - openPos[p].k < Slack

\* An entry and its recovery never sell what a tracked position counts: as long
\* as the market is open, a covered position stays covered (1730-2239).
RecoveryKeepsTracked ==
    [][\A t \in Tasks : EntryStep(t) =>
          \A p \in Pairs \ closed : Covered(p) => Covered(p)']_vars

\* An entry that ends with Kalshi contracts no tracked position counts has
\* orphaned the pair, so that no second entry builds on the naked leg
\* (1797-1811, 1912-1936, 1986-2017).
RecoveryFlagsKalshi ==
    [][\A t \in Tasks : Complete(t) =>
          LET p == PairOf(t) IN
          kVenue[p] - openPos'[p].k >= Slack => p \in orphaned']_vars

\* Whatever recovery does keeps what is tracked covered, or flags what it leaves.
RecoverySafe == RecoveryKeepsTracked /\ RecoveryFlagsKalshi

\* A trade that no hedge completed, and that is tracked as the venues hold it,
\* does not fail its own reconciliation: what was reversed or absorbed as dust
\* is accounted for (1283-1306, 2723-2800).
EntryReconciles ==
    \A r \in recons : LET p == r.pair IN
        p \notin inFlight /\ p \notin closed
        /\ openPos[p].k = r.kExp
        /\ openPos[p].k = kVenue[p] /\ openPos[p].p = pVenue[p]
        => ~KMismatch(r) /\ ~POver(r)

\* The settlement check drops a position only when its Kalshi contracts are
\* gone: one list that misses the ticker does not settle it (2983-3016).  It holds
\* for the first position of a pair; a later one may inherit a count that was never
\* reset, and is then settled by one partial list (2990).
SettlesOnlyGone ==
    [][\A p \in Pairs : SettlementCheck(p) /\ Holds(p) /\ ~Holds(p)' => kVenue[p] = 0]_vars

\* Ownership, opening and closing of every pair follow ArbPair.
PairProtocol == PairView!Spec

\* What a restart restores is really held on both venues, whatever the journal
\* says (the JOR incident, 2617-2619).
RestoreCovered == [][Restart => \A p \in Pairs : Covered(p)']_vars

\* A pair that is owned is freed again (the finally blocks of 560 and 3364).
LockReleased == \A p \in Pairs : p \in inFlight ~> p \notin inFlight

=============================================================================
