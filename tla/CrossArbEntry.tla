------------------------------- MODULE CrossArbEntry -------------------------------
(***************************************************************************)
(* OnArbOpened, ExecuteAsync and ExecuteLockedAsync of CrossArbExecutor.cs *)
(* (lines 524-1319): one action per stretch of code between two awaits or  *)
(* two locks.  The recovery of an unbalanced entry is in CrossArbRecovery. *)
(***************************************************************************)
EXTENDS CrossArbState

Goto(t, pc) == call' = [call EXCEPT ![t].pc = pc]

\* Mutant of Leave: no finally block.
LeaveOwned(t) == call' = [call EXCEPT ![t] = Idle] /\ UNCHANGED inFlight

\* The finally block of ExecuteAsync: the task is gone, the pair is free.
Leave(t) == /\ call' = [call EXCEPT ![t] = Idle]
            /\ inFlight' = inFlight \ {PairOf(t)}

Balanced(t) == LET c == call[t] IN Floor(Lesser(c.k, c.p))
\* Mutant of KExcess: the whole fill counts as excess.
KFilled(t)  == call[t].k
KExcess(t)  == call[t].k - Balanced(t)
PExcess(t)  == call[t].p - Balanced(t)

\* Mutant of Grow: only the Kalshi leg is booked.
GrowKalshi(p, q) == openPos' = [openPos EXCEPT ![p].k = @ + q]

\* What a hedge adds to the tracked position, and to a missing one.
Grow(p, q) == openPos' = [openPos EXCEPT ![p] = [k |-> @.k + q, p |-> @.p + q]]

-----------------------------------------------------------------------------
(* ExecuteAsync up to the in-flight guard: halts and orphans are read      *)
(* before the pair is owned.                                               *)
ArbOpened(t) ==
    /\ call[t].pc = "idle"
    /\ budget.opens > 0
    /\ ~halted /\ ~connHalted
    /\ PairOf(t) \notin orphaned
    /\ Goto(t, "opened")
    /\ budget' = [budget EXCEPT !.opens = @ - 1]
    /\ UNCHANGED <<ownVars, haltVars, moneyVars, journaled, venueVars, exit,
                   monitor, backgroundVars>>

\* Mutant of TryEnter: the result of TryAdd is ignored.
EnterAnyway(t) ==
    /\ call[t].pc = "opened"
    /\ Goto(t, "locked")
    /\ inFlight' = inFlight \cup {PairOf(t)}
    /\ UNCHANGED <<openPos, orphaned, pending, cooldown, absent, haltVars,
                   moneyVars, journaled, venueVars, exit, monitor,
                   backgroundVars, budget>>

\* _inFlight.TryAdd
TryEnter(t) ==
    /\ call[t].pc = "opened"
    /\ IF PairOf(t) \in inFlight
       THEN call' = [call EXCEPT ![t] = Idle] /\ UNCHANGED inFlight
       ELSE Goto(t, "locked") /\ inFlight' = inFlight \cup {PairOf(t)}
    /\ UNCHANGED <<openPos, orphaned, pending, cooldown, absent, haltVars,
                   moneyVars, journaled, venueVars, exit, monitor,
                   backgroundVars, budget>>

\* Mutant of EntryGuards: no single-entry guard.
CooldownGuard(t) ==
    /\ call[t].pc = "locked"
    /\ PairOf(t) \notin cooldown
    /\ Goto(t, "guarded")
    /\ UNCHANGED <<ownVars, haltVars, moneyVars, journaled, venueVars, exit,
                   monitor, backgroundVars, budget>>

\* Cooldown and single-entry guards; the price guards that follow them may
\* turn the call away as well (LeaveUnsized).
EntryGuards(t) ==
    /\ call[t].pc = "locked"
    /\ PairOf(t) \notin cooldown
    /\ ~Holds(PairOf(t))
    /\ Goto(t, "guarded")
    /\ UNCHANGED <<ownVars, haltVars, moneyVars, journaled, venueVars, exit,
                   monitor, backgroundVars, budget>>

LeaveUnsized(t) ==
    /\ call[t].pc \in {"locked", "guarded"}
    /\ Leave(t)
    /\ UNCHANGED <<openPos, orphaned, pending, cooldown, absent, haltVars,
                   moneyVars, journaled, venueVars, exit, monitor,
                   backgroundVars, budget>>

\* Mutant of ReserveBalance: sized by the Kalshi balance alone.
ReserveByKalshi(t) ==
    /\ call[t].pc = "guarded"
    /\ \E n \in Sizes :
          /\ n <= kBal
          /\ kBal' = kBal - n
          /\ pBal' = pBal - n
          /\ call' = [call EXCEPT ![t].pc = "sized", ![t].n = n]
    /\ UNCHANGED <<ownVars, haltVars, exposure, invested, journaled, venueVars,
                   exit, monitor, backgroundVars, budget>>

\* Sizing and the speculative reservation, one critical section.
ReserveBalance(t) ==
    /\ call[t].pc = "guarded"
    /\ \E n \in Sizes :
          /\ n <= kBal /\ n <= pBal
          /\ kBal' = kBal - n
          /\ pBal' = pBal - n
          /\ call' = [call EXCEPT ![t].pc = "sized", ![t].n = n]
    /\ UNCHANGED <<ownVars, haltVars, exposure, invested, journaled, venueVars,
                   exit, monitor, backgroundVars, budget>>

\* Minimum size, depth, blocklist, per-pair limit and exposure limit: each
\* gives the reservation back.
RestoreBalance(t) ==
    /\ call[t].pc = "sized"
    /\ kBal' = kBal + call[t].n
    /\ pBal' = pBal + call[t].n
    /\ Leave(t)
    /\ UNCHANGED <<openPos, orphaned, pending, cooldown, absent, haltVars,
                   exposure, invested, journaled, venueVars, exit, monitor,
                   backgroundVars, budget>>

\* Per-pair limit, exposure reservation, cooldown; then the Poly snapshot and
\* both orders are started together.
ReserveExposure(t) ==
    LET p == PairOf(t)
        cost == 2 * call[t].n
    IN
    /\ call[t].pc = "sized"
    /\ invested[p] + cost <= MaxPerPair
    /\ exposure + cost <= MaxExposure
    /\ exposure' = exposure + cost
    /\ cooldown' = cooldown \cup {p}
    /\ call' = [call EXCEPT ![t].pc = "firing", ![t].k = Waiting,
                            ![t].p = Waiting, ![t].prior = Waiting]
    /\ UNCHANGED <<inFlight, openPos, orphaned, pending, absent, haltVars,
                   kBal, pBal, invested, journaled, venueVars, exit, monitor,
                   backgroundVars, budget>>

-----------------------------------------------------------------------------
(* The two legs, fired together *)

KalshiLeg(t) ==
    /\ call[t].pc = "firing" /\ call[t].k = Waiting
    /\ \E f \in KalshiBuys(PairOf(t), call[t].n) : \E r \in Reported(f) :
          /\ BuyKalshi(PairOf(t), f)
          /\ call' = [call EXCEPT ![t].k = r]
    /\ UNCHANGED <<ownVars, haltVars, moneyVars, journaled, polyVars, closed,
                   exit, monitor, backgroundVars, budget>>

PolyLeg(t) ==
    /\ call[t].pc = "firing" /\ call[t].p = Waiting
    /\ \E f \in PolyBuys(PairOf(t), call[t].n) : \E r \in Reported(f) :
          /\ BuyPoly(PairOf(t), f)
          /\ call' = [call EXCEPT ![t].p = r]
    /\ UNCHANGED <<ownVars, haltVars, moneyVars, journaled, kalshiVars, closed,
                   exit, monitor, backgroundVars, budget>>

\* SnapshotPolyBalanceAsync is not awaited: it may read the balance after the
\* order it is to be compared with, or fail and leave no baseline.
SnapshotPoly(t) ==
    /\ EntryFired(t) /\ call[t].prior = Waiting
    /\ \E b \in {pVenue[PairOf(t)], 0} : call' = [call EXCEPT ![t].prior = b]
    /\ UNCHANGED <<ownVars, haltVars, moneyVars, journaled, venueVars, exit,
                   monitor, backgroundVars, budget>>

\* Both legs back: track the balanced sets; the per-day loss tripwire may
\* halt the bot; any excess goes to recovery.
LegsDone(t) ==
    LET p == PairOf(t)
        bal == Balanced(t)
    IN
    /\ call[t].pc = "firing" /\ call[t].k # Waiting /\ call[t].p # Waiting
    /\ IF bal > 0
       THEN /\ openPos' = [openPos EXCEPT ![p] = [k |-> bal, p |-> bal]]
            /\ halted' \in {halted, TRUE}
       ELSE UNCHANGED <<openPos, halted>>
    /\ call' = [call EXCEPT ![t].pc = IF KExcess(t) > 0 THEN "excessK"
                                      ELSE IF PExcess(t) > 0 THEN "excessP"
                                      ELSE "closing"]
    /\ UNCHANGED <<inFlight, orphaned, pending, cooldown, absent, connHalted,
                   moneyVars, journaled, venueVars, exit, monitor,
                   backgroundVars, budget>>

-----------------------------------------------------------------------------
(* The end of ExecuteLockedAsync *)

Missed(t) == call[t].k = 0 /\ call[t].p = 0

\* Absorbed Poly dust is folded into the tracked position.
FinalPos(t) ==
    LET pos == openPos[PairOf(t)] IN
    IF call[t].out = "DUST_ABSORBED_POLY" /\ pos # None
    THEN [pos EXCEPT !.p = @ + call[t].got]
    ELSE pos

\* The Poly shares a reconciliation expects: all that filled if recovery left
\* that leg alone.  Its mutant forgets the remainder below a whole set.
PolyBalanced(t) == Balanced(t)
PolyExpected(t) ==
    IF call[t].out \in {"DUST_ABSORBED_POLY", "REVERSED_KALSHI", "DUST_ABSORBED_KALSHI"}
    THEN call[t].p ELSE Balanced(t)

\* What ReconcileTradeAsync is told to expect, and where it looks.
ReconcileRequest(t) ==
    LET c == call[t]
        reversed == c.out = "REVERSED_KALSHI"
    IN [pair    |-> PairOf(t),
        kExp    |-> Balanced(t),
        pExp    |-> PolyExpected(t),
        byOrder |-> KExcess(t) = 0 \/ reversed,
        kSeen   |-> c.k - (IF reversed THEN c.got ELSE 0),
        prior   |-> IF c.out = "REVERSED_POLY" \/ c.prior = Waiting
                    THEN 0 ELSE c.prior]

\* A miss gives everything back; anything else keeps the exposure, leaves the
\* balances to a refresh and, if sets are held, asks for a reconciliation.
Complete(t) ==
    LET p == PairOf(t)
        n == call[t].n
    IN
    /\ call[t].pc = "closing"
    /\ openPos' = [openPos EXCEPT ![p] = FinalPos(t)]
    /\ invested' = [invested EXCEPT ![p] = @ + Cost(FinalPos(t))]
    /\ journaled' = journaled \cup {p}
    /\ IF Missed(t)
       THEN /\ exposure' = exposure - 2 * n
            /\ kBal' = kBal + n
            /\ pBal' = pBal + n
            /\ UNCHANGED backgroundVars
       ELSE /\ recons' = recons \cup
                  (IF Balanced(t) > 0 THEN {ReconcileRequest(t)} ELSE {})
            /\ refresh' = [refresh EXCEPT !.due = TRUE]
            /\ UNCHANGED <<exposure, kBal, pBal>>
    /\ Leave(t)
    /\ UNCHANGED <<orphaned, pending, cooldown, absent, haltVars, venueVars,
                   exit, monitor, budget>>
=============================================================================
