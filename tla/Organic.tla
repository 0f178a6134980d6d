------------------------------- MODULE Organic --------------------------------
(* The idle gestures of the sidecar's browser (organic.py): one loop on the board  *)
(* (OrganicActivity), one over the readers' tabs (TabOrganic).  A bet clears the   *)
(* gate of both; a gesture looks at the gate before its own small steps, and not   *)
(* before every one of them.                                                       *)
EXTENDS Sequences, FiniteSets, SequencesExt

CONSTANTS ReaderTabs, BoardPage
Hands == {"board", "tabs"}
PagesOf(h) == IF h = "board" THEN {BoardPage} ELSE ReaderTabs

VARIABLES
  gate,   \* of each loop, TRUE when it may act
  act,    \* of each loop: where it is, its page, the steps left
  slipOn,   \* of each page: none, stray, bet
  betOn,  \* the pages a bet is made on
  late    \* what each loop did since its gate was cleared
organicVars == <<gate, act, slipOn, betOn, late>>

AllPages == ReaderTabs \cup {BoardPage}
AtGate == [pc |-> "gate", page |-> BoardPage, left |-> <<>>]

\* A step, and what becomes of it when the gate is found cleared: it is skipped, the
\* gesture is left for its tidying, the turn is over, or nobody looks.
Step(do, shut) == [do |-> do, shut |-> shut]
Trim == Step("trim", "skip")
Approach == Step("move", "skip")
Rest == Step("rest", "blind")

\* tick: what a turn on the board may be.
BoardTurns == {
  <<Trim>>,
  <<Approach, Trim>>,
  <<Approach, Step("wheel", "skip"), Rest, Approach, Step("wheel", "skip"), Trim>>,
  <<Step("key", "leave"), Rest, Step("key", "leave"), Trim>>,
  <<Approach, Step("nav", "blind"), Trim>>}
\* _act: what a glance at a tab may be.  The gate is looked at again once the tab is
\* in front.
Recheck == Step("recheck", "over")
TabTurns == {
  <<Recheck, Trim>>,
  <<Recheck, Step("move", "leave"), Trim>>,
  <<Recheck, Approach, Step("wheel", "leave"), Rest, Step("wheel", "leave"), Trim>>,
  <<Recheck, Approach, Step("click", "blind"), Rest, Approach, Step("close", "blind"), Trim>>}
TurnsOf(h) == IF h = "board" THEN BoardTurns ELSE TabTurns

OrganicInit ==
  /\ gate = [h \in Hands |-> TRUE] /\ act = [h \in Hands |-> AtGate]
  /\ slipOn \in [AllPages -> {"none", "stray"}] /\ betOn = {} /\ late = [h \in Hands |-> <<>>]

(* ---- the bet ------------------------------------------------------------------ *)
\* _pause_all_organic, then the bet's slip.
Pause(p) ==
  /\ betOn = {} /\ betOn' = {p} /\ gate' = [h \in Hands |-> FALSE]
  /\ UNCHANGED <<act, slipOn, late>>
BetSlip ==
  /\ \E p \in betOn : slipOn[p] # "bet" /\ slipOn' = [slipOn EXCEPT ![p] = "bet"]
  /\ UNCHANGED <<gate, act, betOn, late>>
\* _resume_all_organic
Resume ==
  /\ betOn # {} /\ betOn' = {} /\ gate' = [h \in Hands |-> TRUE]
  /\ slipOn' = [p \in AllPages |-> IF slipOn[p] = "bet" THEN "none" ELSE slipOn[p]]
  /\ late' = [h \in Hands |-> <<>>]
  /\ UNCHANGED act

(* ---- the loops ---------------------------------------------------------------- *)
\* Mutant: the loop sleeps whether or not it is paused.
MutGatePassed(h) ==
  /\ act[h].pc = "gate" /\ act' = [act EXCEPT ![h].pc = "gap"]
  /\ UNCHANGED <<gate, slipOn, betOn, late>>
GatePassed(h) ==
  /\ act[h].pc = "gate" /\ gate[h] /\ act' = [act EXCEPT ![h].pc = "gap"]
  /\ UNCHANGED <<gate, slipOn, betOn, late>>

\* Mutant: the gate is not looked at after the gap.
MutTurn(h, p, t) ==
  /\ act[h].pc = "gap" /\ act' = [act EXCEPT ![h] = [pc |-> "act", page |-> p, left |-> t]]
  /\ late' = IF h = "tabs" /\ ~gate[h] THEN [late EXCEPT ![h] = Append(@, "raise")] ELSE late
  /\ UNCHANGED <<gate, slipOn, betOn>>
\* run: after the gap the gate is looked at again, and a turn begins, at once: with its
\* tab brought to the front.
Turn(h, p, t) ==
  /\ act[h].pc = "gap"
  /\ act' = [act EXCEPT ![h] = IF gate[h] THEN [pc |-> "act", page |-> p, left |-> t] ELSE AtGate]
  /\ UNCHANGED <<gate, slipOn, betOn, late>>

After(h, steps) == IF steps = <<>> THEN AtGate ELSE [act[h] EXCEPT !.left = steps]
\* What a step does to the slip of its page.  The first click of a popover opens a slip
\* in the place of any other, the second removes what is there, a bet's slip too.
Does(do, s) ==
  CASE do = "click" -> "stray" [] do = "close" -> "none"
    [] do = "trim" -> IF s = "stray" THEN "none" ELSE s [] OTHER -> s
Deeds == {"move", "wheel", "key", "nav", "click", "close", "trim"}

Steps(h) ==
  /\ act[h].pc = "act"
  /\ LET s == Head(act[h].left)  rest == Tail(act[h].left)  p == act[h].page IN
     IF ~gate[h] /\ s.shut # "blind"
     THEN /\ act' = [act EXCEPT ![h] = After(h, CASE s.shut = "skip" -> rest [] s.shut = "leave" -> <<Trim>>
                                                  [] s.shut = "over" -> <<>>)]
          /\ UNCHANGED <<slipOn, late>>
     ELSE /\ act' = [act EXCEPT ![h] = After(h, rest)]
          /\ slipOn' = [slipOn EXCEPT ![p] = Does(s.do, @)]
          /\ late' = IF gate[h] \/ s.do \notin Deeds THEN late ELSE [late EXCEPT ![h] = Append(@, s.do)]
  /\ UNCHANGED <<gate, betOn>>
\* A step may fail: the gesture is given up for its tidying.
StepFails(h) ==
  /\ act[h].pc = "act" /\ Head(act[h].left).do \notin {"trim", "rest", "recheck"}
  /\ gate[h] \/ Head(act[h].left).shut = "blind"
  /\ act' = [act EXCEPT ![h] = After(h, <<Trim>>)]
  /\ UNCHANGED <<gate, slipOn, betOn, late>>

Idles(h) == GatePassed(h) \/ Steps(h) \/ \E p \in PagesOf(h), t \in TurnsOf(h) : Turn(h, p, t)
OrganicNext ==
  \/ BetSlip \/ Resume \/ \E p \in AllPages : Pause(p)
  \/ \E h \in Hands : Idles(h) \/ StepFails(h)
OrganicSpec == OrganicInit /\ [][OrganicNext]_organicVars
IdleCan(h) == act[h].pc # "gate" \/ gate[h]
--------------------------------------------------------------------------------
\* Types; a loop that waits at its gate has nothing left to do.
OrganicTypeOK ==
  /\ gate \in [Hands -> BOOLEAN] /\ slipOn \in [AllPages -> {"none", "stray", "bet"}] /\ betOn \subseteq AllPages
  /\ \A h \in Hands : /\ act[h].pc \in {"gate", "gap", "act"} /\ act[h].page \in AllPages
                      /\ act[h].pc = "act" <=> act[h].left # <<>>

\* The interlock with the bets: under a bet no gesture begins, and of one begun before
\* no more lands than the steps nobody guards: the click that leaves for another page,
\* or the opening and the removal of a popover.
OnlyBegunLands ==
  /\ late["board"] \in {<<>>, <<"nav">>}
  /\ late["tabs"] \in {<<>>, <<"click">>, <<"close">>, <<"click", "close">>}

\* A bet that lasts finds both loops at their gates, and they stay there: whatever they
\* were doing comes to its end.
PausedQuiets == \A h \in Hands : <>[]~gate[h] => <>[](act[h].pc = "gate")

\* No more than a begun step of a gesture lands under a bet.
OrganicSound == OrganicTypeOK /\ OnlyBegunLands
================================================================================
