----------------------------- MODULE PinnacleBets -----------------------------
(* How the sidecar puts a bet on at Pinnacle: through the one page of the live  *)
(* board, by opening a market's Quick Bet (the slip), typing a stake and        *)
(* pressing Place Bet (pinnacle_adapter.py).  A bet is driven from scratch      *)
(* (place_bet, verify_bet_ui), or a slip is armed ahead (camp_start) and        *)
(* pressed later (camp_fire); slip_quote opens one to read its price.  These    *)
(* handlers are coroutines of one event loop: each action runs from one await   *)
(* to the next.  Around them: the idle loop of the in-play board (inplay.py),   *)
(* the reload of the session (pinnacle_session.py), the operator's manual and   *)
(* banking modes, and the host (CampManager.cs), which arms when it roves,      *)
(* fires and stops when it is camped, and sends /bet only when it is not.       *)
(* Prices are read from the page at each look and may differ at the next one.   *)
EXTENDS Integers, Sequences, FiniteSets

CONSTANTS Sels,         \* selections
          Camps,        \* bound: those the host camps on
          Floor,        \* the odds the host asks for
          MaxPress,     \* bound: presses of Place Bet, those asked again aside
          MaxRepress,   \* PINNACLE_CAMP_MAX_REPRESS
          Requote,      \* HARDVEN_CAMP_ACCEPT_REQUOTE: "0", "better" or "1"
          CampMaxSkips, \* reloads a camp may put off
          Overlap       \* the host quotes while it bets, arms or fires, and bets while it arms

ASSUME BetsAssumption ==
  /\ Floor \in 1 .. 3 /\ MaxPress \in Nat /\ MaxRepress \in Nat /\ CampMaxSkips \in Nat
  /\ Requote \in {"0", "better", "1"}
  /\ Overlap \in BOOLEAN /\ Camps \subseteq Sels

VARIABLES
  slip,    \* the selection of the open Quick Bet, or "none"
  gate,    \* what is paused: the browser's activity with the tab manager, the idle loop
  ctl,     \* in-play mode, who holds the page, a peek under way, its slip on top (history)
  camp,    \* the adapter's camp, the holds it set, the cleanup behind it
  op,      \* the handlers under way
  bets,    \* every press, and what became of it at the venue
  replies, \* what the host was told (history)
  host     \* CampManager's phase

vars == <<slip, gate, ctl, camp, op, bets, replies, host>>
Prices == 1 .. 3
Ops == {"place", "quote", "arm", "fire"}
Slips == Sels \cup {"none"}
Idle == [pc |-> "idle", want |-> "none", read |-> 0, press |-> 0, accepts |-> 0]
Busy(o) == op[o].pc # "idle"
Locked == Busy("place")      \* _bet_lock is held by place_bet and verify_bet_ui only
Last == Len(bets)

Init ==
  /\ slip = "none" /\ bets = <<>> /\ replies = {} /\ host = "roving"
  /\ gate = [browser |-> FALSE, live |-> FALSE]
  /\ ctl = [inplay |-> FALSE, mode |-> "auto", peek |-> FALSE, over |-> FALSE]
  /\ camp = [on |-> FALSE, sel |-> "none", hold |-> FALSE, hover |-> FALSE, skips |-> 0,
             cleanup |-> FALSE]
  /\ op = [o \in Ops |-> Idle]

(* ---- what freezes the page ------------------------------------------------ *)
\* The pauses are flags: whoever ends first resumes for everybody.
PauseAll(g) == [g EXCEPT !.browser = TRUE, !.live = ctl.inplay]
\* Mutant: the mode of the board is not looked at.
MutResumeAll(g) == [g EXCEPT !.browser = FALSE, !.live = FALSE]
ResumeAll(g) ==
  [g EXCEPT !.browser = ctl.inplay /\ @, !.live = FALSE]

StartInplay ==
  /\ ~ctl.inplay /\ ~\E o \in Ops : Busy(o)
  /\ ctl' = [ctl EXCEPT !.inplay = TRUE]
  /\ gate' = [browser |-> TRUE, live |-> FALSE]
  /\ slip' = "none"
  /\ UNCHANGED <<camp, op, bets, replies, host>>

StopInplay ==        \* the host lets go of its camp before
  /\ ctl.inplay /\ host = "roving" /\ ~camp.on /\ ~\E o \in Ops : Busy(o)
  /\ ctl' = [ctl EXCEPT !.inplay = FALSE, !.peek = FALSE]
  /\ gate' = [browser |-> FALSE, live |-> FALSE]
  /\ UNCHANGED <<slip, camp, op, bets, replies, host>>

\* Manual mode, and its expiry; the banking window.  One of them at a time here.
Mode(from, to) ==
  /\ ctl.mode = from
  /\ ctl' = [ctl EXCEPT !.mode = to]
  /\ gate' = IF to = "auto" THEN ResumeAll(gate) ELSE PauseAll(gate)
  /\ UNCHANGED <<slip, camp, op, bets, replies, host>>
ManualMode == Mode("auto", "manual") \/ Mode("manual", "auto")
OnBanking == Mode("auto", "banking") \/ Mode("banking", "auto")

(* ---- the camp ------------------------------------------------------------- *)
Released(c) == [c EXCEPT !.on = FALSE, !.sel = "none", !.hold = FALSE, !.hover = FALSE, !.skips = 0]
\* camp_stop: by the host, by the idle loop; it dismisses what is open.
CampStop ==
  /\ camp' = IF camp.on THEN Released(camp) ELSE camp
  /\ slip' = IF camp.on THEN "none" ELSE slip

HostStops ==
  /\ host = "camped"
  /\ CampStop
  /\ host' = "roving"
  /\ UNCHANGED <<gate, ctl, op, bets, replies>>

\* _trim_betslip, by the sweep: an armed slip is kept.
\* Mutant: the sweep takes no notice of the camp.
MutSweep ==
  /\ ctl.mode # "manual" /\ ~Locked /\ slip # "none"
  /\ slip' = "none"
  /\ UNCHANGED <<gate, ctl, camp, op, bets, replies, host>>
Sweep ==
  /\ ~camp.on /\ ctl.mode # "manual" /\ ~Locked /\ slip # "none"
  /\ slip' = "none"
  /\ UNCHANGED <<gate, ctl, camp, op, bets, replies, host>>

\* The cleanup a fired camp leaves behind it: it watches the receipt, then dismisses.
Cleanup ==
  /\ camp.cleanup
  /\ camp' = [camp EXCEPT !.cleanup = FALSE]
  /\ slip' = "none"
  /\ UNCHANGED <<gate, ctl, op, bets, replies, host>>

\* The refresh of the session reloads the page; a camp puts it off a few times.
Reload ==
  /\ ctl.mode = "auto"
  /\ IF camp.hold /\ camp.skips < CampMaxSkips
     THEN camp' = [camp EXCEPT !.skips = @ + 1] /\ UNCHANGED slip
     ELSE camp' = [camp EXCEPT !.skips = 0] /\ slip' = "none"
  /\ UNCHANGED <<gate, ctl, op, bets, replies, host>>

\* (_camp_nav_check counts the container of the slips, which is always mounted: a
\* reload ends no camp.)

(* ---- the idle loop of the in-play board ----------------------------------- *)
\* Mutant: while camped the loop does not look whether the slip is there.
MutIdleCamped == FALSE /\ UNCHANGED vars
IdleCamped ==
  /\ ctl.inplay /\ ~gate.live /\ ~ctl.peek /\ camp.hover /\ slip = "none"
  /\ CampStop
  /\ UNCHANGED <<gate, ctl, op, bets, replies, host>>

\* The gate is read when the round starts; the peek comes after its scroll.
IdleRound ==
  /\ ctl.inplay /\ ~gate.live /\ ~ctl.peek /\ ~camp.hover
  /\ ctl' = [ctl EXCEPT !.peek = TRUE]
  /\ UNCHANGED <<slip, gate, camp, op, bets, replies, host>>

PeekSlip ==
  /\ ctl.peek
  /\ \/ \E s \in Sels : slip' = s /\ ctl' = [ctl EXCEPT !.over = TRUE]
     \/ slip' = "none" /\ ctl' = [ctl EXCEPT !.peek = FALSE, !.over = FALSE]
  /\ UNCHANGED <<gate, camp, op, bets, replies, host>>

(* ---- opening a slip: _select_bet_tab, _try_select_on ---------------------- *)
At(o, r) == op' = [op EXCEPT ![o] = r]
\* The popover is read back and must be the wanted market's.
Selected(o, s) ==
  /\ op[o].pc = "select" /\ op[o].want = s
  /\ slip' = s /\ ctl' = [ctl EXCEPT !.over = FALSE]
  /\ \E p \in (IF o = "place" THEN Prices ELSE {0}) : At(o, [op[o] EXCEPT !.pc = "read", !.read = p])

Tell(o, verdict, named) ==
  replies' = replies \cup {[by |-> o, verdict |-> verdict, bet |-> op[o].press, named |-> named]}

(* ---- place_bet and verify_bet_ui ------------------------------------------ *)
MayDrive == host \in (IF Overlap THEN {"roving", "arming"} ELSE {"roving"})
Drive(s) ==
  /\ ~Locked /\ MayDrive
  /\ Overlap \/ ~Busy("quote")
  /\ At("place", [Idle EXCEPT !.pc = "select", !.want = s])
  /\ gate' = PauseAll(gate)
  /\ UNCHANGED <<slip, ctl, camp, bets, replies, host>>
PlaceBet(s) == ctl.mode # "manual" /\ Drive(s)
VerifyBetUi(s) == Drive(s)       \* the operator's own test is not refused

\* The finally of _place_via_ui: trim what is left, resume.
EndPlace(verdict, named) ==
  /\ Tell("place", verdict, named)
  /\ At("place", Idle)
  /\ slip' = "none" /\ gate' = ResumeAll(gate)
  /\ UNCHANGED <<ctl, camp, bets, host>>

PlaceSelects ==
  /\ \E s \in Sels : Selected("place", s)
  /\ UNCHANGED <<gate, camp, bets, replies, host>>

PlaceGivesUp ==      \* no row, odds moved, stake refused, verify only, no button
  /\ op["place"].pc \in {"select", "read"}
  /\ EndPlace("off", 0)

\* A press: what is open is bet on; the venue takes the order or asks again.
Pressed(o, read, posted) ==
  bets' = Append(bets, [by |-> o, want |-> op[o].want, sel |-> slip, priced |-> read >= Floor,
                        over |-> ctl.over, state |-> posted])
PlacePress ==
  /\ op["place"].pc = "read" /\ op["place"].read >= Floor
  /\ slip # "none" /\ Last < MaxPress
  /\ \E posted \in {"posted", "asked"} : Pressed("place", op["place"].read, posted)
  /\ At("place", [op["place"] EXCEPT !.pc = "wait", !.read = 0, !.press = Last + 1])
  /\ UNCHANGED <<slip, gate, ctl, camp, replies, host>>

(* ---- the venue ------------------------------------------------------------ *)
\* The answer to the POST: a bet, a refusal, or a request still to be decided.
VenueAnswers ==
  \E i \in 1 .. Last, st \in {"on", "refused", "pending"} :
    /\ bets[i].state = "posted"
    /\ bets' = [bets EXCEPT ![i].state = st]
    /\ UNCHANGED <<slip, gate, ctl, camp, op, replies, host>>

VenueDecides ==
  \E i \in 1 .. Last, st \in {"confirmed", "rejected"} :
    /\ bets[i].state = "pending"
    /\ bets' = [bets EXCEPT ![i].state = st]
    /\ UNCHANGED <<slip, gate, ctl, camp, op, replies, host>>

\* What a response the handler got says.  One may be lost on the way.
Answer(o) ==
  LET st == IF op[o].press = 0 THEN "asked" ELSE bets[op[o].press].state
  IN CASE st = "on" -> "accepted" [] st = "refused" -> "off"
       [] st \in {"pending", "confirmed", "rejected"} -> "confirm" [] OTHER -> "none"

\* _confirm_bet: the row of the bet list that carries the request's id.
\* Mutant: any row will do, the account's earlier bets among them.
MutConfirm(o) == {"confirmed", "rejected"}
Confirm(o) == {bets[op[o].press].state} \cap {"confirmed", "rejected"}

Verdicts(o) ==       \* what the host may be told once the POST is answered
  LET a == Answer(o)
  IN CASE a = "confirm" ->
            {"unknown"} \cup {IF st = "confirmed" THEN "accepted" ELSE "off" : st \in Confirm(o)}
       [] a = "none" -> {}
       [] OTHER -> {a}

PlaceAnswered ==
  /\ op["place"].pc = "wait"
  /\ \E v \in Verdicts("place") :
       EndPlace(v, IF v = "accepted" THEN op["place"].press ELSE 0)

PlaceSilence ==      \* 15 s: a prompt means nothing was sent
  /\ op["place"].pc = "wait"
  /\ EndPlace(IF bets[op["place"].press].state = "asked" THEN "off" ELSE "unknown", 0)

(* ---- slip_quote ----------------------------------------------------------- *)
\* Mutant: a camp does not keep a quote off the page.
MutSlipQuote(s) ==
  /\ ~Busy("quote") /\ ctl.mode # "manual"
  /\ Overlap \/ (host \notin {"arming", "firing"} /\ ~Locked)
  /\ At("quote", [Idle EXCEPT !.pc = "select", !.want = s])
  /\ gate' = PauseAll(gate)
  /\ UNCHANGED <<slip, ctl, camp, bets, replies, host>>
SlipQuote(s) ==
  /\ ~Busy("quote") /\ ctl.mode # "manual" /\ ~camp.on
  /\ Overlap \/ (host \notin {"arming", "firing"} /\ ~Locked)
  /\ At("quote", [Idle EXCEPT !.pc = "select", !.want = s])
  /\ gate' = PauseAll(gate)
  /\ UNCHANGED <<slip, ctl, camp, bets, replies, host>>

QuoteSelects ==
  /\ \E s \in Sels : Selected("quote", s)
  /\ UNCHANGED <<gate, camp, bets, replies, host>>

QuoteEnds ==         \* the popover is closed on every way out
  /\ Busy("quote")
  /\ At("quote", Idle) /\ slip' = "none" /\ gate' = ResumeAll(gate)
  /\ UNCHANGED <<ctl, camp, bets, replies, host>>

(* ---- camp_start ----------------------------------------------------------- *)
\* The lock is looked at, then the cleanup before this arm is awaited.
CampStart(s) ==
  /\ host = "roving" /\ ctl.inplay /\ ~Busy("arm") /\ ctl.mode # "manual" /\ ~Locked
  /\ Overlap \/ ~Busy("quote")
  /\ host' = "arming"
  /\ At("arm", [Idle EXCEPT !.pc = "clear", !.want = s])
  /\ UNCHANGED <<slip, gate, ctl, camp, bets, replies>>

ArmClears ==
  /\ op["arm"].pc = "clear" /\ ~camp.cleanup
  /\ slip' = "none"          \* a slip still open is dismissed, or the arm refused
  /\ camp' = [camp EXCEPT !.on = TRUE, !.sel = op["arm"].want]
  /\ At("arm", [op["arm"] EXCEPT !.pc = "select"])
  /\ gate' = PauseAll(gate)
  /\ UNCHANGED <<ctl, bets, replies, host>>

ArmSelects ==
  /\ \E s \in Sels : Selected("arm", s)
  /\ UNCHANGED <<gate, camp, bets, replies, host>>

\* The verify-only drive kept its slip open: the camp is held and hovered over.
ArmDone ==
  /\ op["arm"].pc = "read"
  /\ At("arm", Idle) /\ gate' = ResumeAll(gate)
  /\ camp' = [camp EXCEPT !.hold = TRUE, !.hover = ctl.inplay]
  /\ host' = "camped"
  /\ UNCHANGED <<slip, ctl, bets, replies>>

ArmFails ==          \* no row, no stake, the dialogue would not close
  /\ Busy("arm") /\ ~camp.hold
  /\ At("arm", Idle)
  /\ gate' = IF op["arm"].pc = "clear" THEN gate ELSE ResumeAll(gate)
  /\ slip' = IF op["arm"].pc = "clear" THEN slip ELSE "none"
  /\ camp' = [camp EXCEPT !.on = FALSE]
  /\ host' = "roving"
  /\ UNCHANGED <<ctl, bets, replies>>

(* ---- camp_fire ------------------------------------------------------------ *)
CampFire ==
  /\ host = "camped" /\ ~Busy("fire")
  /\ IF ctl.mode = "manual" \/ ~camp.on
     THEN UNCHANGED <<host, op>>
     ELSE /\ host' = "firing"
          /\ At("fire", [Idle EXCEPT !.pc = "look", !.want = camp.sel])
  /\ UNCHANGED <<slip, gate, ctl, camp, bets, replies>>

\* Before the press the camp stays as it is; a slip that is gone ends it.
FireLooks ==
  /\ op["fire"].pc = "look"
  /\ IF slip = "none"
     THEN CampStop /\ At("fire", Idle) /\ host' = "roving"
     ELSE /\ UNCHANGED <<slip, camp>>
          /\ \/ At("fire", [op["fire"] EXCEPT !.pc = "press"]) /\ UNCHANGED host
             \/ At("fire", Idle) /\ host' = "camped"
  /\ UNCHANGED <<gate, ctl, bets, replies>>

\* The price is read once more and the button pressed.
FirePress ==
  /\ op["fire"].pc = "press"
  /\ \/ /\ slip # "none" /\ Last < MaxPress
        /\ \E p \in {q \in Prices : q >= Floor}, posted \in {"posted", "asked"} :
             /\ Pressed("fire", p, posted)
             /\ At("fire", [op["fire"] EXCEPT !.pc = "wait", !.read = p, !.press = Last + 1])
        /\ UNCHANGED host
     \/ At("fire", Idle) /\ host' = "camped" /\ UNCHANGED bets
  /\ UNCHANGED <<slip, gate, ctl, camp, replies>>

\* Every way out of a pressed fire releases the camp; the page is cleared later.
EndFire(verdict, named) ==
  /\ Tell("fire", verdict, named)
  /\ At("fire", Idle)
  /\ camp' = [(IF camp.on THEN Released(camp) ELSE camp) EXCEPT
                !.cleanup = @ \/ camp.on]
  /\ host' = "roving"
  /\ UNCHANGED <<slip, gate, ctl, bets>>

Better(newp) == newp > op["fire"].read
TakesRequote(newp) ==
  /\ newp >= Floor
  /\ Requote = "1" \/ (Requote = "better" /\ Better(newp))
  /\ op["fire"].accepts < MaxRepress

\* The panel asks again, at a new price or one that cannot be read (0).
FireAsked ==
  /\ op["fire"].pc = "wait" /\ bets[op["fire"].press].state = "asked"
  /\ \E newp \in Prices \cup {0} :
       IF TakesRequote(newp) /\ slip # "none"
       THEN /\ \E posted \in {"posted", "asked"} : Pressed("fire", newp, posted)
            /\ At("fire", [op["fire"] EXCEPT !.read = newp, !.press = Last + 1, !.accepts = @ + 1])
            /\ UNCHANGED <<slip, gate, ctl, camp, replies, host>>
       ELSE EndFire("off", 0)

FireAnswered ==
  /\ op["fire"].pc = "wait"
  /\ \E v \in Verdicts("fire") : EndFire(v, IF v = "accepted" THEN op["fire"].press ELSE 0)

FireSilence ==       \* 15 s without an answer
  /\ op["fire"].pc = "wait" /\ Answer("fire") = "none"
  /\ EndFire("unknown", 0)

(* ---- find_bet, bet, open_bets --------------------------------------------- *)
\* The newest of the settled ones, else of the open ones, since the attempt.
Newest(S) == IF S = {} THEN 0 ELSE CHOOSE i \in S : \A j \in S : j <= i
\* The rows of a selection since the attempt; one of several legs is no row.
Listed(s, since) ==
  {i \in since .. Last : bets[i].sel = s /\ bets[i].state \in {"on", "confirmed"}}
FindBet(s, since, settled) ==
  LET first == Newest(Listed(s, since) \cap settled)
  IN IF first # 0 THEN first ELSE Newest(Listed(s, since) \ settled)

Next ==
  \/ StartInplay \/ StopInplay
  \/ ManualMode \/ OnBanking
  \/ HostStops \/ Sweep \/ Cleanup \/ Reload
  \/ IdleCamped \/ IdleRound \/ PeekSlip
  \/ PlaceSelects \/ PlaceGivesUp \/ PlacePress \/ PlaceAnswered \/ PlaceSilence
  \/ VenueAnswers \/ VenueDecides
  \/ \E s \in Sels : PlaceBet(s) \/ VerifyBetUi(s) \/ SlipQuote(s) \/ (s \in Camps /\ CampStart(s))
  \/ QuoteSelects \/ QuoteEnds
  \/ ArmClears \/ ArmSelects \/ ArmDone \/ ArmFails
  \/ CampFire \/ FireLooks \/ FirePress \/ FireAsked \/ FireAnswered \/ FireSilence

Spec == Init /\ [][Next]_vars
\* A handler that drives the page has time limits; the idle loop keeps its rounds.
DriverEnds == QuoteEnds \/ PlaceSilence \/ PlaceGivesUp \/ ArmFails
IdleLoop == IdleCamped \/ (PeekSlip /\ slip' = "none")
FairSpec == Spec /\ WF_<<op, camp>>(DriverEnds) /\ WF_<<ctl, camp>>(IdleLoop)

(* ---- properties ------------------------------------------------------------ *)
TypeOK ==
  /\ slip \in Slips
  /\ gate \in [browser : BOOLEAN, live : BOOLEAN]
  /\ ctl \in [inplay : BOOLEAN, mode : {"auto", "manual", "banking"}, peek : BOOLEAN, over : BOOLEAN]
  /\ camp \in [on : BOOLEAN, sel : Slips, hold : BOOLEAN, hover : BOOLEAN,
               skips : 0 .. CampMaxSkips, cleanup : BOOLEAN]
  /\ op \in [Ops -> [pc : {"idle", "clear", "select", "read", "look", "press", "wait"},
                     want : Slips, read : {0} \cup Prices, press : 0 .. Last,
                     accepts : 0 .. MaxRepress]]
  /\ host \in {"roving", "arming", "camped", "firing"}

\* Every press is made at a price read off the panel that is no worse than what
\* the host asked for, on the selection that was driven to or armed; only a slip
\* of the idle loop, opened over it, can take the press (camp_fire, _place_via_ui).
PressChecked ==
  \A i \in 1 .. Last : bets[i].priced /\ (bets[i].sel = bets[i].want \/ bets[i].over)

\* What the host is told of a press is true: "off" is said of none that is or may
\* come on, and an accepted one is on under the number that is named.
ToldTrue ==
  \A r \in replies :
    LET st == IF r.bet = 0 THEN "asked" ELSE bets[r.bet].state
    IN /\ r.verdict = "off" => st \in {"asked", "refused", "rejected"}
       /\ r.verdict = "accepted" => st \in {"on", "confirmed"} /\ r.named = r.bet

\* Reconciliation by selection and time finds the bet behind an unknown answer.
UnknownIsFound ==
  \A r \in replies : (r.verdict = "unknown" /\ bets[r.bet].state \in {"on", "confirmed"}) =>
    \A settled \in SUBSET (1 .. Last) :
      LET i == FindBet(bets[r.bet].sel, r.bet, settled)
      IN i >= r.bet /\ bets[i].sel = bets[r.bet].sel

\* On the live board the activities that would leave it stay paused, whichever
\* handler or mode ends.
InplayQuiet == ctl.inplay => gate.browser

\* The reload is put off and the idle loop hovers for a camp and for no other.
HoldIsCamp == (camp.hold \/ camp.hover) => camp.on

\* While a camp is held its slip stays where it is; a reload that has been put off
\* often enough and a slip of the idle loop are what can take it away.
ArmedSlipKept ==
  [][(camp.hold /\ camp'.hold /\ slip = camp.sel /\ ~ctl.peek) =>
       (slip' = slip \/ (camp.skips = CampMaxSkips /\ camp'.skips = 0))]_vars

\* A camp that has lost its slip ends, unless an operator keeps the page.
Lost == camp.hold /\ slip = "none"
LostCampEnds == []<>(~Lost \/ ctl.mode # "auto")

\* What the host is told, at once or when it asks again later, is true.
AnswersTrue == ToldTrue /\ UnknownIsFound
\* Each hold and each pause on the page has the owner it was set for.
HoldsMatched == TypeOK /\ InplayQuiet /\ HoldIsCamp
=============================================================================
