------------------------------ MODULE CrossArbRecovery ------------------------------
(***************************************************************************)
(* RecoverUnhedgedAsync, ReverseKalshiLegAsync and OrphanPairAsync of      *)
(* CrossArbExecutor.cs (lines 1730-2239): an entry that filled unevenly is *)
(* hedged, reversed, absorbed as dust or orphaned.  Runs inside the entry  *)
(* task, which owns the pair.  The sweep attempts of ReverseKalshiLegAsync *)
(* are one sale, of any whole number of contracts.                         *)
(***************************************************************************)
EXTENDS CrossArbEntry

Finish(t, out, got) ==
    call' = [call EXCEPT ![t].pc = "closing", ![t].out = out, ![t].got = got]
KeepOrphans   == UNCHANGED orphaned
OrphanPair(p) == orphaned' = orphaned \cup {p}

\* What recovery leaves alone, whichever leg it touches.
restVars == <<inFlight, pending, cooldown, absent, haltVars, kBal, pBal,
              invested, journaled, closed, exit, monitor, backgroundVars, budget>>

-----------------------------------------------------------------------------
(* Case A: Kalshi filled more *)

AbsorbKalshiDust(t) ==
    /\ call[t].pc = "excessK"
    /\ KExcess(t) < Dust
    /\ Finish(t, "DUST_ABSORBED_KALSHI", KExcess(t))
    /\ UNCHANGED <<restVars, openPos, orphaned, exposure, kalshiVars, polyVars>>

\* A hedge is tried if the book, the net and the cost allow it and it would
\* not breach the cap; the cap is read now and charged after the fill.
StartPolyHedge(t) ==
    /\ call[t].pc = "excessK"
    /\ KExcess(t) >= Dust
    /\ exposure + KExcess(t) <= MaxExposure
    /\ Goto(t, "hedgingP")
    /\ UNCHANGED <<restVars, openPos, orphaned, exposure, kalshiVars, polyVars>>

SkipPolyHedge(t) ==
    /\ call[t].pc = "excessK"
    /\ KExcess(t) >= Dust
    /\ Goto(t, "reverseK")
    /\ UNCHANGED <<restVars, openPos, orphaned, exposure, kalshiVars, polyVars>>

\* The hedge fills short (the rest is reversed or absorbed), exactly, or over
\* (the excess is sold or absorbed); a reported zero falls back to reversing.
PolyHedge(t) ==
    LET p == PairOf(t)
        need == KExcess(t)
    IN
    /\ call[t].pc = "hedgingP"
    /\ \E f \in PolyBuys(p, need) : \E r \in Reported(f) :
        LET added == Lesser(need, r)
            short == need - added
            over  == r - added
        IN
        /\ BuyPoly(p, f)
        /\ IF r = 0
           THEN Goto(t, "reverseK") /\ UNCHANGED <<openPos, exposure>>
           ELSE /\ Grow(p, added)
                /\ exposure' = exposure + added
                /\ call' = [call EXCEPT
                      ![t].pc = IF short > 0 /\ short >= Dust THEN "reverseRest"
                                ELSE IF over > 0 /\ over >= Dust THEN "sellOverfill"
                                ELSE "closing",
                      ![t].rest = IF short > 0 THEN short ELSE over,
                      ![t].out = "HEDGE_COMPLETED", ![t].got = added]
    /\ UNCHANGED <<restVars, orphaned, kalshiVars>>

\* No hedge, or none filled: sell the Kalshi excess, orphan what is left.
ReverseKalshi(t) ==
    LET p == PairOf(t)
        want == Floor(KExcess(t))
    IN
    /\ call[t].pc = "reverseK"
    /\ \E f \in KalshiSells(p, want) :
        /\ SellKalshi(p, f)
        /\ IF f < want THEN OrphanPair(p) /\ Finish(t, "ORPHANED", f)
                       ELSE KeepOrphans /\ Finish(t, "REVERSED_KALSHI", f)
    /\ UNCHANGED <<restVars, openPos, exposure, polyVars>>

ReverseRest(t) ==
    LET p == PairOf(t)
        want == Floor(call[t].rest)
    IN
    /\ call[t].pc = "reverseRest"
    /\ \E f \in KalshiSells(p, want) :
        /\ SellKalshi(p, f)
        /\ IF f < want THEN OrphanPair(p) /\ Finish(t, "ORPHANED", call[t].got)
                       ELSE KeepOrphans /\ Finish(t, "HEDGE_COMPLETED", call[t].got)
    /\ UNCHANGED <<restVars, openPos, exposure, polyVars>>

SellHedgeOverfill(t) ==
    /\ call[t].pc = "sellOverfill"
    /\ \E f \in PolySells(PairOf(t), call[t].rest) : SellPoly(PairOf(t), f)
    /\ Finish(t, "HEDGE_COMPLETED", call[t].got)
    /\ UNCHANGED <<restVars, openPos, orphaned, exposure, kalshiVars>>

-----------------------------------------------------------------------------
(* Case B: Poly filled more *)

\* MaxHedgeOverfillFraction is a quarter.
Overfilled(t) == 4 * PExcess(t) > Balanced(t)

AbsorbPolyDust(t) ==
    /\ call[t].pc = "excessP"
    /\ PExcess(t) < Dust
    /\ Finish(t, "DUST_ABSORBED_POLY", PExcess(t))
    /\ UNCHANGED <<restVars, openPos, orphaned, exposure, kalshiVars, polyVars>>

\* ReverseExcessPolyAsync: any sale ends the recovery, none falls through.
ReverseExcessPoly(t, otherwise) ==
    \E f \in PolySells(PairOf(t), PExcess(t)) :
        /\ SellPoly(PairOf(t), f)
        /\ IF f > 0 THEN Finish(t, "REVERSED_POLY", f) ELSE Goto(t, otherwise)

GuardOverfill(t) ==
    /\ call[t].pc = "excessP"
    /\ PExcess(t) >= Dust
    /\ IF Overfilled(t)
       THEN ReverseExcessPoly(t, "hedgeK")
       ELSE Goto(t, "hedgeK") /\ UNCHANGED polyVars
    /\ UNCHANGED <<restVars, openPos, orphaned, exposure, kalshiVars>>

SkipKalshiHedge(t) ==
    /\ call[t].pc = "hedgeK"
    /\ Goto(t, "sellP")
    /\ UNCHANGED <<restVars, openPos, orphaned, exposure, kalshiVars, polyVars>>

\* Less than a share cannot be hedged; a hedge past the cap is replaced by a
\* reversal, and goes ahead if that sells nothing.
StartKalshiHedge(t) ==
    LET size == Floor(PExcess(t)) IN
    /\ call[t].pc = "hedgeK"
    /\ IF size = 0
       THEN Finish(t, "DUST_ABSORBED_POLY", PExcess(t)) /\ UNCHANGED polyVars
       ELSE IF exposure + size > MaxExposure
            THEN ReverseExcessPoly(t, "hedgingK")
            ELSE Goto(t, "hedgingK") /\ UNCHANGED polyVars
    /\ UNCHANGED <<restVars, openPos, orphaned, exposure, kalshiVars>>

KalshiHedge(t) ==
    LET p == PairOf(t) IN
    /\ call[t].pc = "hedgingK"
    /\ \E f \in KalshiBuys(p, Floor(PExcess(t))) : \E r \in Reported(f) :
        LET short == PExcess(t) - r IN
        /\ BuyKalshi(p, f)
        /\ IF r = 0
           THEN Goto(t, "sellP") /\ UNCHANGED <<openPos, exposure>>
           ELSE /\ Grow(p, r)
                /\ exposure' = exposure + r
                /\ call' = [call EXCEPT
                      ![t].pc = IF short >= Contract /\ short >= Dust
                                THEN "sellRest" ELSE "closing",
                      ![t].rest = short,
                      ![t].out = "HEDGE_COMPLETED", ![t].got = r]
    /\ UNCHANGED <<restVars, orphaned, polyVars>>

SellRest(t) ==
    LET p == PairOf(t) IN
    /\ call[t].pc = "sellRest"
    /\ \E f \in PolySells(p, call[t].rest) :
        /\ SellPoly(p, f)
        /\ IF call[t].rest - f >= Contract
           THEN OrphanPair(p) /\ Finish(t, "ORPHANED", call[t].got)
           ELSE KeepOrphans /\ Finish(t, "HEDGE_COMPLETED", call[t].got)
    /\ UNCHANGED <<restVars, openPos, exposure, kalshiVars>>

SellExcessPoly(t) ==
    LET p == PairOf(t) IN
    /\ call[t].pc = "sellP"
    /\ \E f \in PolySells(p, PExcess(t)) :
        /\ SellPoly(p, f)
        /\ IF f > 0 THEN KeepOrphans /\ Finish(t, "REVERSED_POLY", f)
                    ELSE OrphanPair(p) /\ Finish(t, "ORPHANED", 0)
    /\ UNCHANGED <<restVars, openPos, exposure, kalshiVars>>

Recovery(t) ==
    \/ AbsorbKalshiDust(t) \/ StartPolyHedge(t) \/ SkipPolyHedge(t)
    \/ PolyHedge(t) \/ ReverseKalshi(t) \/ ReverseRest(t) \/ SellHedgeOverfill(t)
    \/ AbsorbPolyDust(t) \/ GuardOverfill(t) \/ SkipKalshiHedge(t)
    \/ StartKalshiHedge(t) \/ KalshiHedge(t) \/ SellRest(t) \/ SellExcessPoly(t)
=============================================================================
