-------------------------------- MODULE CrossArbExit --------------------------------
(***************************************************************************)
(* OnBookUpdate, CheckEarlyExitAsync and RetryPendingReversalAsync of      *)
(* CrossArbExecutor.cs (lines 2921-2946, 3047-3365): both legs of a        *)
(* tracked position are sold; a leg left naked is orphaned, queued and     *)
(* retried.                                                                *)
(***************************************************************************)
EXTENDS CrossArbState

\* Mutant of Release: the pair is not freed.
ReleaseNothing(x) == exit' = [exit EXCEPT ![x] = IdleExit] /\ UNCHANGED inFlight

\* The finally block: the pair is free again.
Release(x) == /\ exit' = [exit EXCEPT ![x] = IdleExit]
              /\ inFlight' = inFlight \ {PairOf(x)}

\* Drop a tracked position and the exposure it stood for.
ClosePosition(p, cost) ==
    /\ openPos' = [openPos EXCEPT ![p] = None]
    /\ exposure' = Floored(exposure - cost)

\* Within half a contract of the whole leg.
KOk(x) == 2 * (exit[x].pos.k - exit[x].k) <= Contract
POk(x) == 2 * (exit[x].pos.p - exit[x].p) <= Contract

\* The pair's exit is priced and found worth taking (EarlyExitThreshold, the
\* depth and profit guards are free choices).
BookUpdate(p) ==
    LET x == <<p, "book">> IN
    /\ exit[x].pc = "idle"
    /\ budget.exits > 0
    /\ ~halted /\ ~connHalted
    /\ Holds(p)
    /\ exit' = [exit EXCEPT ![x].pc = "priced"]
    /\ budget' = [budget EXCEPT !.exits = @ - 1]
    /\ UNCHANGED <<ownVars, haltVars, moneyVars, journaled, venueVars, call,
                   monitor, backgroundVars>>

\* Own the pair and read the position again; give up if either is gone.
StartExit(x) ==
    LET p == PairOf(x) IN
    /\ exit[x].pc = "priced"
    /\ IF p \in inFlight \/ ~Holds(p)
       THEN exit' = [exit EXCEPT ![x] = IdleExit] /\ UNCHANGED inFlight
       ELSE /\ inFlight' = inFlight \cup {p}
            /\ exit' = [exit EXCEPT ![x] = [IdleExit EXCEPT
                            !.pc = "selling", !.pos = openPos[p],
                            !.k = Waiting, !.p = Waiting]]
    /\ UNCHANGED <<openPos, orphaned, pending, cooldown, absent, haltVars,
                   moneyVars, journaled, venueVars, call, monitor,
                   backgroundVars, budget>>

ExitKalshiLeg(x) ==
    LET p == PairOf(x) IN
    /\ exit[x].pc = "selling" /\ exit[x].k = Waiting
    /\ \E f \in KalshiSells(p, Floor(exit[x].pos.k)) :
          /\ SellKalshi(p, f)
          /\ exit' = [exit EXCEPT ![x].k = f]
    /\ UNCHANGED <<ownVars, haltVars, moneyVars, journaled, polyVars, closed,
                   call, monitor, backgroundVars, budget>>

ExitPolyLeg(x) ==
    LET p == PairOf(x) IN
    /\ exit[x].pc = "selling" /\ exit[x].p = Waiting
    /\ \E f \in PolySells(p, exit[x].pos.p) :
          /\ SellPoly(p, f)
          /\ exit' = [exit EXCEPT ![x].p = f]
    /\ UNCHANGED <<ownVars, haltVars, moneyVars, journaled, kalshiVars, closed,
                   call, monitor, backgroundVars, budget>>

\* Poly is out and Kalshi is not: sweep the rest deeper (three passes, one sale).
ExitSweep(x) ==
    LET p == PairOf(x)
        left == exit[x].pos.k - exit[x].k
    IN
    /\ exit[x].pc = "selling"
    /\ exit[x].k # Waiting /\ exit[x].p # Waiting
    /\ IF ~KOk(x) /\ POk(x)
       THEN \E f \in KalshiSells(p, Ceil(left)) :
                /\ SellKalshi(p, f)
                /\ exit' = [exit EXCEPT ![x].pc = "swept", ![x].k = @ + f]
       ELSE exit' = [exit EXCEPT ![x].pc = "swept"] /\ UNCHANGED kalshiVars
    /\ UNCHANGED <<ownVars, haltVars, moneyVars, journaled, polyVars, closed,
                   call, monitor, backgroundVars, budget>>

\* Both legs out: the position closes and the pair cools down.
ExitDone(x) ==
    LET p == PairOf(x) IN
    /\ exit[x].pc = "swept" /\ KOk(x) /\ POk(x)
    /\ ClosePosition(p, Cost(exit[x].pos))
    /\ cooldown' = cooldown \cup {p}
    /\ journaled' = journaled \ {p}
    /\ refresh' = [refresh EXCEPT !.due = TRUE]
    /\ Release(x)
    /\ UNCHANGED <<orphaned, pending, absent, haltVars, kBal, pBal, invested,
                   venueVars, call, monitor, recons, budget>>

\* Neither leg out: "leave position intact; monitor will retry".
ExitMissed(x) ==
    /\ exit[x].pc = "swept" /\ ~KOk(x) /\ ~POk(x)
    /\ Release(x)
    /\ UNCHANGED <<openPos, orphaned, pending, cooldown, absent, haltVars,
                   moneyVars, journaled, venueVars, call, monitor,
                   backgroundVars, budget>>

NakedLeg(x) ==
    IF POk(x)
    THEN [leg |-> "kalshi", qty |-> exit[x].pos.k - exit[x].k, attempts |-> 0]
    ELSE [leg |-> "poly", qty |-> exit[x].pos.p - exit[x].p, attempts |-> 0]

\* One leg out: orphan the pair, queue the naked leg and try it at once.
ExitPartial(x) ==
    LET p == PairOf(x) IN
    /\ exit[x].pc = "swept" /\ KOk(x) # POk(x)
    /\ ClosePosition(p, Cost(exit[x].pos))
    /\ orphaned' = orphaned \cup {p}
    /\ pending' = [pending EXCEPT ![p] = NakedLeg(x)]
    /\ exit' = [exit EXCEPT ![x].pc = "retryHeld", ![x].pr = NakedLeg(x)]
    /\ UNCHANGED <<inFlight, cooldown, absent, haltVars, kBal, pBal, invested,
                   journaled, venueVars, call, monitor, backgroundVars, budget>>

-----------------------------------------------------------------------------
(* RetryPendingReversalAsync: the immediate try of ExitPartial, which owns  *)
(* the pair ("retryHeld"), or one of the monitor loop, which does not       *)
(* ("retryFree").  Each works on the record it was given.                   *)

\* What one pass does with the record once f of the leg is out.
AfterRetry(p, pr, f) ==
    LET left == pr.qty - f
        tries == pr.attempts + 1
    IN
    IF left < Contract
    THEN /\ pending' = [pending EXCEPT ![p] = NoLeg]
         /\ orphaned' = orphaned \ {p}
    ELSE IF tries >= MaxRetries
    THEN pending' = [pending EXCEPT ![p] = NoLeg] /\ UNCHANGED orphaned
    ELSE /\ pending' = [pending EXCEPT ![p] =
                           [pr EXCEPT !.qty = left, !.attempts = tries]]
         /\ UNCHANGED orphaned

RetrySale(p, pr, f) ==
    IF pr.leg = "kalshi"
    THEN f \in KalshiSells(p, Ceil(pr.qty)) /\ SellKalshi(p, f) /\ UNCHANGED polyVars
    ELSE f \in PolySells(p, pr.qty) /\ SellPoly(p, f) /\ UNCHANGED kalshiVars

RetryPendingReversal(x) ==
    LET p == PairOf(x)
        pr == exit[x].pr
    IN
    /\ exit[x].pc \in {"retryHeld", "retryFree"}
    /\ \E f \in 0..Ceil(pr.qty) :
          /\ RetrySale(p, pr, f)
          /\ AfterRetry(p, pr, f)
    /\ IF exit[x].pc = "retryHeld"
       THEN Release(x)
       ELSE exit' = [exit EXCEPT ![x] = IdleExit] /\ UNCHANGED inFlight
    /\ UNCHANGED <<openPos, cooldown, absent, haltVars, moneyVars, journaled,
                   closed, call, monitor, backgroundVars, budget>>
=============================================================================
