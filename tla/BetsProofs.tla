------------------------------ MODULE BetsProofs ------------------------------
(* What the handlers of the bets preserve, for any selections, odds and bounds:   *)
(* the pauses and the holds on the page match their owners, what the host is told *)
(* of a bet is true, and, when the host keeps its own steps apart, every press is *)
(* made on the selection and at the price it was asked for.                       *)
EXTENDS PinnacleBets, SequenceTheorems, WellFoundedInduction, TLAPS

States == {"posted", "asked", "on", "refused", "pending", "confirmed", "rejected"}
BetRec == [by : Ops, want : Slips, sel : Slips, priced : BOOLEAN, over : BOOLEAN, state : States]

-----------------------------------------------------------------------------
(* The presses: they are added at the end and only their states move, from posted *)
(* to an answer and from a pending request to its decision.                       *)

Moves(s) ==
  CASE s = "posted" -> {"on", "refused", "pending"} [] s = "pending" -> {"confirmed", "rejected"}
    [] OTHER -> {}
Later(b, c) ==
  /\ c.by = b.by /\ c.want = b.want /\ c.sel = b.sel /\ c.priced = b.priced /\ c.over = b.over
  /\ c.state = b.state \/ c.state \in Moves(b.state)
Added(b) == bets' = Append(bets, b) /\ b \in BetRec /\ b.state \in {"posted", "asked"}
Moved(i, st) == bets' = [bets EXCEPT ![i].state = st] /\ st \in Moves(bets[i].state)
BetsGrow ==
  /\ bets' \in Seq(BetRec) /\ Last' \in Nat /\ Last <= Last'
  /\ \A i \in 1 .. Last : Later(bets[i], bets'[i])

LEMMA BetTyped ==
  ASSUME NEW b \in BetRec
  PROVE  /\ b.by \in Ops /\ b.want \in Slips /\ b.sel \in Slips /\ b.state \in States
         /\ b.priced \in BOOLEAN /\ b.over \in BOOLEAN
BY DEF BetRec

LEMMA AddedGrows ==
  ASSUME bets \in Seq(BetRec), NEW b, Added(b)
  PROVE  /\ BetsGrow /\ Last' = Last + 1 /\ bets'[Last + 1] = b
         /\ \A i \in 1 .. Last : bets'[i] = bets[i]
<1>1. /\ bets' \in Seq(BetRec) /\ Len(bets') = Len(bets) + 1 /\ bets'[Len(bets) + 1] = b
      /\ \A i \in 1 .. Len(bets) : bets'[i] = bets[i]
  BY AppendProperties DEF Added
<1>2. Len(bets) \in Nat
  BY LenProperties
<1> QED
  BY <1>1, <1>2 DEF BetsGrow, Later, Last

LEMMA MovedGrows ==
  ASSUME bets \in Seq(BetRec), NEW i \in 1 .. Last, NEW st, Moved(i, st)
  PROVE  BetsGrow /\ Last' = Last
<1> DEFINE c == [bets[i] EXCEPT !.state = st]
           d == [bets EXCEPT ![i] = c]
<1>1. bets[i] \in BetRec /\ i \in 1 .. Len(bets)
  BY ElementOfSeq DEF Last
<1>2. st \in States
  BY DEF Moved, Moves, States
<1>3. c \in BetRec /\ Later(bets[i], c)
  BY <1>1, <1>2 DEF BetRec, Later, Moved
<1>4. bets' = d
  BY DEF Moved
<1> HIDE DEF c
<1>5. /\ d \in Seq(BetRec) /\ Len(d) = Len(bets)
      /\ \A j \in 1 .. Len(bets) : d[j] = IF j = i THEN c ELSE bets[j]
  BY <1>1, <1>3, ExceptSeq
<1> HIDE DEF d
<1>6. /\ bets' \in Seq(BetRec) /\ Len(bets') = Len(bets)
      /\ \A j \in 1 .. Len(bets) : bets'[j] = IF j = i THEN c ELSE bets[j]
  BY <1>4, <1>5
<1>7. Len(bets) \in Nat
  BY LenProperties
<1>8. \A j \in 1 .. Last : Later(bets[j], bets'[j])
  BY <1>3, <1>6 DEF Later, Last
<1> QED
  BY <1>6, <1>7, <1>8 DEF BetsGrow, Last

LEMMA SameGrows ==
  ASSUME bets \in Seq(BetRec), bets' = bets
  PROVE  BetsGrow /\ Last' = Last
<1>1. Len(bets) \in Nat
  BY LenProperties
<1> QED
  BY <1>1 DEF BetsGrow, Later, Last

LEMMA PressAdds ==
  ASSUME TypeOK, NEW o \in Ops, NEW read \in {0} \cup Prices, NEW posted \in {"posted", "asked"},
         Pressed(o, read, posted)
  PROVE  Added([by |-> o, want |-> op[o].want, sel |-> slip, priced |-> read >= Floor,
                over |-> ctl.over, state |-> posted])
<1>1. op[o].want \in Slips /\ slip \in Slips /\ ctl.over \in BOOLEAN
  BY DEF TypeOK
<1>2. (read >= Floor) \in BOOLEAN
  OBVIOUS
<1>3. posted \in States
  BY DEF States
<1> DEFINE pr == read >= Floor
<1> HIDE DEF pr
<1>4. [by |-> o, want |-> op[o].want, sel |-> slip, priced |-> pr,
       over |-> ctl.over, state |-> posted] \in BetRec
  BY <1>1, <1>2, <1>3, Zenon DEF BetRec, pr
<1> QED
  BY <1>4, Zenon DEF Added, Pressed, pr

\* What a step does with the presses.
BetsMove ==
  \/ bets' = bets
  \/ \E o \in Ops, read \in {0} \cup Prices, posted \in {"posted", "asked"} : Pressed(o, read, posted)
  \/ \E i \in 1 .. Last, st \in States : Moved(i, st)

Quietly ==
  \/ StartInplay \/ StopInplay \/ ManualMode \/ OnBanking
  \/ HostStops \/ Sweep \/ Cleanup \/ Reload \/ IdleCamped \/ IdleRound \/ PeekSlip
  \/ PlaceSelects \/ QuoteSelects \/ QuoteEnds
  \/ \E s \in Sels : PlaceBet(s) \/ VerifyBetUi(s) \/ SlipQuote(s) \/ (s \in Camps /\ CampStart(s))
  \/ ArmClears \/ ArmSelects \/ ArmDone \/ ArmFails \/ CampFire \/ FireLooks

LEMMA QuietKeeps == Quietly \/ UNCHANGED vars => bets' = bets /\ replies' = replies
<1>1. CASE \/ StartInplay \/ StopInplay \/ ManualMode \/ OnBanking \/ HostStops \/ Sweep \/ Cleanup
           \/ Reload \/ IdleCamped \/ IdleRound \/ PeekSlip \/ UNCHANGED vars
  BY <1>1, Zenon DEF StartInplay, StopInplay, ManualMode, OnBanking, Mode, HostStops, Sweep, Cleanup,
    Reload, IdleCamped, IdleRound, PeekSlip, vars
<1>2. CASE \E s \in Sels : PlaceBet(s) \/ VerifyBetUi(s) \/ SlipQuote(s) \/ (s \in Camps /\ CampStart(s))
  BY <1>2, Zenon DEF PlaceBet, VerifyBetUi, Drive, SlipQuote, CampStart
<1>3. CASE \/ PlaceSelects \/ QuoteSelects \/ QuoteEnds \/ ArmClears \/ ArmSelects \/ ArmDone \/ ArmFails
           \/ CampFire \/ FireLooks
  BY <1>3, Zenon DEF PlaceSelects, QuoteSelects, QuoteEnds, ArmClears, ArmSelects, ArmDone, ArmFails,
    CampFire, FireLooks
<1> QED
  BY <1>1, <1>2, <1>3, Zenon DEF Quietly

LEMMA BetsMoves == TypeOK /\ [Next]_vars => BetsMove
<1> SUFFICES ASSUME TypeOK, [Next]_vars PROVE BetsMove
  OBVIOUS
<1>1. CASE Quietly \/ UNCHANGED vars
  BY <1>1, QuietKeeps, Zenon DEF BetsMove
<1>2. ASSUME NEW o \in Ops, NEW read \in {0} \cup Prices,
             \E posted \in {"posted", "asked"} : Pressed(o, read, posted)
      PROVE  BetsMove
  BY <1>2, Zenon DEF BetsMove
<1>3. \A o \in Ops : op[o].read \in {0} \cup Prices
  BY DEF TypeOK
<1>4. "place" \in Ops /\ "fire" \in Ops
  BY DEF Ops
<1>5. CASE PlacePress
  BY <1>2, <1>3, <1>4, <1>5, Zenon DEF PlacePress
<1>6. CASE FirePress
  <2>1. CASE \E p \in {q \in Prices : q >= Floor}, posted \in {"posted", "asked"} : Pressed("fire", p, posted)
    BY <2>1, <1>2, <1>4, Zenon
  <2>2. CASE bets' = bets
    BY <2>2, Zenon DEF BetsMove
  <2> QED
    BY <1>6, <2>1, <2>2, Zenon DEF FirePress
<1>7. CASE FireAsked
  <2>1. CASE \E newp \in Prices \cup {0}, posted \in {"posted", "asked"} : Pressed("fire", newp, posted)
    BY <2>1, <1>2, <1>4, Zenon
  <2>2. CASE bets' = bets
    BY <2>2, Zenon DEF BetsMove
  <2> QED
    BY <1>7, <2>1, <2>2, Zenon DEF FireAsked, EndFire
<1>8. CASE VenueAnswers
  <2>1. PICK i \in 1 .. Last, st \in {"on", "refused", "pending"} :
          bets[i].state = "posted" /\ bets' = [bets EXCEPT ![i].state = st]
    BY <1>8, Zenon DEF VenueAnswers
  <2>2. Moved(i, st) /\ st \in States
    BY <2>1 DEF Moved, Moves, States
  <2> QED
    BY <2>2, Zenon DEF BetsMove
<1>9. CASE VenueDecides
  <2>1. PICK i \in 1 .. Last, st \in {"confirmed", "rejected"} :
          bets[i].state = "pending" /\ bets' = [bets EXCEPT ![i].state = st]
    BY <1>9, Zenon DEF VenueDecides
  <2>2. Moved(i, st) /\ st \in States
    BY <2>1 DEF Moved, Moves, States
  <2> QED
    BY <2>2, Zenon DEF BetsMove
<1>10. CASE PlaceGivesUp \/ PlaceAnswered \/ PlaceSilence \/ FireAnswered \/ FireSilence
  BY <1>10, Zenon DEF PlaceGivesUp, PlaceAnswered, PlaceSilence, FireAnswered, FireSilence, EndPlace,
    EndFire, BetsMove
<1> QED
  BY <1>1, <1>5, <1>6, <1>7, <1>8, <1>9, <1>10, Zenon DEF Next, Quietly

LEMMA BetsGrowing ==
  ASSUME TypeOK, bets \in Seq(BetRec), [Next]_vars
  PROVE  BetsGrow
<1>1. CASE bets' = bets
  BY <1>1, SameGrows
<1>2. CASE \E o \in Ops, read \in {0} \cup Prices, posted \in {"posted", "asked"} : Pressed(o, read, posted)
  BY <1>2, PressAdds, AddedGrows, Zenon
<1>3. CASE \E i \in 1 .. Last, st \in States : Moved(i, st)
  BY <1>3, MovedGrows, Zenon
<1> QED
  BY <1>1, <1>2, <1>3, BetsMoves DEF BetsMove

-----------------------------------------------------------------------------
(* What the host is told: a step tells at most one thing, of the press of the     *)
(* handler that ends, and the venue never takes back what it was.                 *)

TrueOf(r) ==
  LET st == IF r.bet = 0 THEN "asked" ELSE bets[r.bet].state
  IN /\ r.verdict = "off" => st \in {"asked", "refused", "rejected"}
     /\ r.verdict = "accepted" => st \in {"on", "confirmed"} /\ r.named = r.bet
Honest(r) ==
  /\ r.bet \in 0 .. Last
  /\ r.verdict = "unknown" => r.bet # 0
  /\ TrueOf(r)
Presses ==
  /\ \A o \in Ops : op[o].pc = "wait" => op[o].press \in 1 .. Last
  /\ op["place"].pc # "wait" => op["place"].press = 0
History == bets \in Seq(BetRec) /\ \A r \in replies : Honest(r)

Reply(o, verdict, named) == [by |-> o, verdict |-> verdict, bet |-> op[o].press, named |-> named]
RepliesMove ==
  \/ replies' = replies
  \/ \E r : Honest(r) /\ replies' = replies \cup {r} /\ bets' = bets

LEMMA HonestKept ==
  ASSUME NEW r, Honest(r), bets \in Seq(BetRec), BetsGrow
  PROVE  Honest(r)'
<1>1. CASE r.bet = 0
  BY <1>1 DEF Honest, TrueOf, BetsGrow
<1>2. CASE r.bet # 0
  <2>1. r.bet \in 1 .. Last /\ Last \in Nat
    BY <1>2, LenProperties DEF Honest, Last
  <2>2. Later(bets[r.bet], bets'[r.bet])
    BY <2>1 DEF BetsGrow
  <2>3. \A s \in {"asked", "refused", "rejected", "on", "confirmed"} : Moves(s) = {}
    BY DEF Moves
  <2>4. r.bet \in 0 .. Last'
    BY <2>1 DEF BetsGrow
  <2> QED
    BY <1>2, <2>2, <2>3, <2>4 DEF Honest, TrueOf, Later
<1> QED
  BY <1>1, <1>2

LEMMA ReplyHonest ==
  ASSUME NEW o \in Ops, NEW verdict, NEW named,
         op[o].press \in 0 .. Last,
         verdict = "unknown" => op[o].press # 0,
         LET st == IF op[o].press = 0 THEN "asked" ELSE bets[op[o].press].state
         IN /\ verdict = "off" => st \in {"asked", "refused", "rejected"}
            /\ verdict = "accepted" => st \in {"on", "confirmed"} /\ named = op[o].press
  PROVE  Honest(Reply(o, verdict, named))
BY DEF Honest, TrueOf, Reply

LEMMA VerdictTrue ==
  ASSUME NEW o \in Ops, op[o].press \in 1 .. Last, NEW v \in Verdicts(o)
  PROVE  /\ v \in {"off", "accepted", "unknown"}
         /\ v = "off" => bets[op[o].press].state \in {"refused", "rejected"}
         /\ v = "accepted" => bets[op[o].press].state \in {"on", "confirmed"}
<1>1. op[o].press # 0
  OBVIOUS
<1> DEFINE st == bets[op[o].press].state
<1>2. Answer(o) = CASE st = "on" -> "accepted" [] st = "refused" -> "off"
       [] st \in {"pending", "confirmed", "rejected"} -> "confirm" [] OTHER -> "none"
  BY <1>1 DEF Answer
<1>3. Confirm(o) = {st} \cap {"confirmed", "rejected"}
  BY DEF Confirm
<1> HIDE DEF st
<1>4. CASE st = "on"
  BY <1>2, <1>4 DEF Verdicts, st
<1>5. CASE st = "refused"
  BY <1>2, <1>5 DEF Verdicts, st
<1>6. CASE st \in {"pending", "confirmed", "rejected"}
  <2>1. Answer(o) = "confirm"
    BY <1>2, <1>6
  <2>2. v = "unknown" \/ \E c \in Confirm(o) : v = IF c = "confirmed" THEN "accepted" ELSE "off"
    BY <2>1 DEF Verdicts
  <2> QED
    BY <1>3, <2>2 DEF st
<1>7. CASE st \notin {"on", "refused", "pending", "confirmed", "rejected"}
  BY <1>2, <1>7 DEF Verdicts, st
<1> QED
  BY <1>4, <1>5, <1>6, <1>7

LEMMA Answered ==
  ASSUME NEW o \in Ops, op[o].press \in 1 .. Last, NEW v \in Verdicts(o)
  PROVE  Honest(Reply(o, v, IF v = "accepted" THEN op[o].press ELSE 0))
BY VerdictTrue, ReplyHonest

LEMMA RepliesMoves == bets \in Seq(BetRec) /\ Presses /\ [Next]_vars => RepliesMove
<1> SUFFICES ASSUME bets \in Seq(BetRec), Presses, [Next]_vars PROVE RepliesMove
  OBVIOUS
<1>1. CASE Quietly \/ UNCHANGED vars
  BY <1>1, QuietKeeps, Zenon DEF RepliesMove
<1>2. CASE VenueAnswers \/ VenueDecides \/ PlacePress \/ FirePress
  BY <1>2, Zenon DEF VenueAnswers, VenueDecides, PlacePress, FirePress, RepliesMove
<1>3. "place" \in Ops /\ "fire" \in Ops
  BY DEF Ops
<1>4. ASSUME NEW v, NEW n, EndPlace(v, n), Honest(Reply("place", v, n))
      PROVE  RepliesMove
  BY <1>4, Zenon DEF EndPlace, Tell, Reply, RepliesMove
<1>5. ASSUME NEW v, NEW n, EndFire(v, n), Honest(Reply("fire", v, n))
      PROVE  RepliesMove
  BY <1>5, Zenon DEF EndFire, Tell, Reply, RepliesMove
<1>6. CASE PlaceGivesUp
  <2>1. op["place"].press = 0 /\ EndPlace("off", 0)
    BY <1>6, <1>3 DEF PlaceGivesUp, Presses
  <2>2. Last \in Nat
    BY LenProperties DEF Last
  <2> QED
    BY <2>1, <2>2, <1>3, <1>4, ReplyHonest
<1>7. CASE PlaceAnswered
  <2>1. op["place"].press \in 1 .. Last
    BY <1>7, <1>3 DEF PlaceAnswered, Presses
  <2>2. PICK v \in Verdicts("place") : EndPlace(v, IF v = "accepted" THEN op["place"].press ELSE 0)
    BY <1>7, Zenon DEF PlaceAnswered
  <2> QED
    BY <2>1, <2>2, <1>3, <1>4, Answered, Zenon
<1>8. CASE PlaceSilence
  <2>1. op["place"].press \in 1 .. Last
    BY <1>8, <1>3 DEF PlaceSilence, Presses
  <2> DEFINE v == IF bets[op["place"].press].state = "asked" THEN "off" ELSE "unknown"
  <2>2. EndPlace(v, 0)
    BY <1>8, Zenon DEF PlaceSilence
  <2>3. Honest(Reply("place", v, 0))
    BY <2>1, <1>3, ReplyHonest
  <2> QED
    BY <2>2, <2>3, <1>4, Zenon
<1>9. CASE FireAsked
  <2>1. op["fire"].press \in 1 .. Last /\ bets[op["fire"].press].state = "asked"
    BY <1>9, <1>3 DEF FireAsked, Presses
  <2>2. CASE replies' = replies
    BY <2>2, Zenon DEF RepliesMove
  <2>3. CASE EndFire("off", 0)
    <3>1. Honest(Reply("fire", "off", 0))
      BY <2>1, <1>3, ReplyHonest
    <3> QED
      BY <2>3, <3>1, <1>5, Zenon
  <2> QED
    BY <1>9, <2>2, <2>3, Zenon DEF FireAsked
<1>10. CASE FireAnswered
  <2>1. op["fire"].press \in 1 .. Last
    BY <1>10, <1>3 DEF FireAnswered, Presses
  <2>2. PICK v \in Verdicts("fire") : EndFire(v, IF v = "accepted" THEN op["fire"].press ELSE 0)
    BY <1>10, Zenon DEF FireAnswered
  <2> QED
    BY <2>1, <2>2, <1>3, <1>5, Answered, Zenon
<1>11. CASE FireSilence
  <2>1. op["fire"].press \in 1 .. Last /\ EndFire("unknown", 0)
    BY <1>11, <1>3 DEF FireSilence, Presses
  <2>2. Honest(Reply("fire", "unknown", 0))
    BY <2>1, <1>3, ReplyHonest
  <2> QED
    BY <2>1, <2>2, <1>5, Zenon
<1> QED
  BY <1>1, <1>2, <1>6, <1>7, <1>8, <1>9, <1>10, <1>11, Zenon DEF Next, Quietly

LEMMA HistoryKept ==
  ASSUME TypeOK, Presses, History, [Next]_vars
  PROVE  History'
<1>1. BetsGrow
  BY BetsGrowing DEF History
<1>2. \A r \in replies : Honest(r)'
  BY <1>1, HonestKept DEF History
<1>3. CASE replies' = replies
  BY <1>1, <1>2, <1>3 DEF History, BetsGrow
<1>4. ASSUME NEW r, Honest(r), replies' = replies \cup {r}
      PROVE  History'
  <2>1. Honest(r)'
    BY <1>1, <1>4, HonestKept DEF History
  <2> QED
    BY <1>1, <1>2, <1>4, <2>1 DEF History, BetsGrow
<1> QED
  BY <1>3, <1>4, RepliesMoves, Zenon DEF RepliesMove, History

-----------------------------------------------------------------------------
(* The page: its slip, its gate and its mode.                                     *)

Gates == [browser : BOOLEAN, live : BOOLEAN]
Ctls == [inplay : BOOLEAN, mode : {"auto", "manual", "banking"}, peek : BOOLEAN, over : BOOLEAN]
Page == slip \in Slips /\ gate \in Gates /\ ctl \in Ctls /\ InplayQuiet

LEMMA PauseKept == gate \in Gates /\ ctl \in Ctls => PauseAll(gate) \in Gates /\ PauseAll(gate).browser = TRUE
BY DEF Gates, Ctls, PauseAll

LEMMA ResumeKept ==
  ASSUME gate \in Gates, ctl \in Ctls, InplayQuiet
  PROVE  ResumeAll(gate) \in Gates /\ (ctl.inplay = TRUE => ResumeAll(gate).browser = TRUE)
<1>1. CASE ctl.inplay = TRUE /\ gate.browser = TRUE
  BY <1>1 DEF Gates, ResumeAll
<1>2. CASE ctl.inplay = FALSE
  BY <1>2 DEF Gates, ResumeAll
<1>3. (ctl.inplay = TRUE /\ gate.browser = TRUE) \/ ctl.inplay = FALSE
  BY DEF Ctls, Gates, InplayQuiet
<1> QED
  BY <1>1, <1>2, <1>3

SameMode == ctl'.inplay = ctl.inplay
GateMove ==
  \/ SameMode /\ gate' \in {gate, PauseAll(gate), ResumeAll(gate)}
  \/ gate' = [browser |-> TRUE, live |-> FALSE]
  \/ gate' = [browser |-> FALSE, live |-> FALSE] /\ ctl'.inplay = FALSE
CtlMove ==
  \/ ctl' = ctl
  \/ \E b \in BOOLEAN : ctl' = [ctl EXCEPT !.over = b] \/ ctl' = [ctl EXCEPT !.peek = b]
  \/ \E m \in {"auto", "manual", "banking"} : ctl' = [ctl EXCEPT !.mode = m]
  \/ ctl' = [ctl EXCEPT !.peek = FALSE, !.over = FALSE]
  \/ ctl' = [ctl EXCEPT !.inplay = TRUE]
  \/ ctl' = [ctl EXCEPT !.inplay = FALSE, !.peek = FALSE]

LEMMA PageMoves ==
  ASSUME Page, [Next]_vars
  PROVE  slip' \in Slips /\ GateMove /\ CtlMove
<1> USE DEF Page
<1>1. CASE UNCHANGED vars
  BY <1>1 DEF vars, GateMove, CtlMove, SameMode
<1>2. CASE StartInplay \/ StopInplay
  BY <1>2 DEF StartInplay, StopInplay, Slips, Ctls, GateMove, CtlMove
<1>3. CASE ManualMode \/ OnBanking
  BY <1>3 DEF ManualMode, OnBanking, Mode, Ctls, GateMove, CtlMove, SameMode
<1>4. CASE HostStops \/ Sweep \/ Cleanup \/ Reload \/ IdleCamped \/ IdleRound
  BY <1>4 DEF HostStops, Sweep, Cleanup, Reload, IdleCamped, IdleRound, CampStop, Slips, Ctls,
    GateMove, CtlMove, SameMode
<1>5. CASE PeekSlip
  BY <1>5 DEF PeekSlip, Slips, Ctls, GateMove, CtlMove, SameMode
<1>6. CASE PlaceSelects \/ QuoteSelects \/ ArmSelects
  BY <1>6 DEF PlaceSelects, QuoteSelects, ArmSelects, Selected, Slips, Ctls, GateMove, CtlMove, SameMode
<1>7. CASE \E s \in Sels : PlaceBet(s) \/ VerifyBetUi(s) \/ SlipQuote(s) \/ (s \in Camps /\ CampStart(s))
  BY <1>7 DEF PlaceBet, VerifyBetUi, Drive, SlipQuote, CampStart, GateMove, CtlMove, SameMode
<1>8. CASE PlaceGivesUp \/ PlacePress \/ PlaceAnswered \/ PlaceSilence
  BY <1>8 DEF PlaceGivesUp, PlacePress, PlaceAnswered, PlaceSilence, EndPlace, Slips, GateMove, CtlMove,
    SameMode
<1>9. CASE VenueAnswers \/ VenueDecides \/ QuoteEnds
  BY <1>9 DEF VenueAnswers, VenueDecides, QuoteEnds, Slips, GateMove, CtlMove, SameMode
<1>10. CASE ArmClears \/ ArmDone \/ ArmFails
  BY <1>10 DEF ArmClears, ArmDone, ArmFails, Slips, GateMove, CtlMove, SameMode
<1>11. CASE CampFire \/ FireLooks \/ FirePress
  BY <1>11 DEF CampFire, FireLooks, FirePress, CampStop, Slips, GateMove, CtlMove, SameMode
<1>12. CASE FireAsked \/ FireAnswered \/ FireSilence
  BY <1>12 DEF FireAsked, FireAnswered, FireSilence, EndFire, GateMove, CtlMove, SameMode
<1> QED
  BY <1>1, <1>2, <1>3, <1>4, <1>5, <1>6, <1>7, <1>8, <1>9, <1>10, <1>11, <1>12, Zenon DEF Next

LEMMA PageKept == Page /\ [Next]_vars => Page'
<1> SUFFICES ASSUME Page, [Next]_vars PROVE Page'
  OBVIOUS
<1>1. slip' \in Slips /\ GateMove /\ CtlMove
  BY PageMoves
<1>2. ctl' \in Ctls
  BY <1>1 DEF Page, CtlMove, Ctls
<1>3. gate' \in Gates /\ (ctl'.inplay = TRUE => gate'.browser = TRUE)
  <2>1. CASE SameMode /\ gate' \in {gate, PauseAll(gate), ResumeAll(gate)}
    <3>1. gate.browser = TRUE \/ ctl.inplay = FALSE
      BY DEF Page, Ctls, Gates, InplayQuiet
    <3> QED
      BY <2>1, <3>1, PauseKept, ResumeKept DEF Page, SameMode
  <2>2. CASE gate' = [browser |-> TRUE, live |-> FALSE]
    BY <2>2 DEF Gates
  <2>3. CASE gate' = [browser |-> FALSE, live |-> FALSE] /\ ctl'.inplay = FALSE
    BY <2>3 DEF Gates
  <2> QED
    BY <1>1, <2>1, <2>2, <2>3 DEF GateMove
<1> QED
  BY <1>1, <1>2, <1>3 DEF Page, InplayQuiet, Ctls

-----------------------------------------------------------------------------
(* The camp's record and the handlers' records keep their shape.                  *)

CampRec == [on : BOOLEAN, sel : Slips, hold : BOOLEAN, hover : BOOLEAN,
            skips : 0 .. CampMaxSkips, cleanup : BOOLEAN]
Fired(c) == [(IF c.on THEN Released(c) ELSE c) EXCEPT !.cleanup = @ \/ c.on]
CampMove ==
  \/ camp' \in {camp, Released(camp), Fired(camp), [camp EXCEPT !.cleanup = FALSE],
               [camp EXCEPT !.skips = 0], [camp EXCEPT !.on = FALSE],
               [camp EXCEPT !.hold = TRUE, !.hover = ctl.inplay]}
  \/ camp.skips < CampMaxSkips /\ camp' = [camp EXCEPT !.skips = @ + 1]
  \/ \E s \in Slips : camp' = [camp EXCEPT !.on = TRUE, !.sel = s]

Pcs == {"idle", "clear", "select", "read", "look", "press", "wait"}
OpRec(n) == [pc : Pcs, want : Slips, read : {0} \cup Prices, press : 0 .. n, accepts : 0 .. MaxRepress]

LEMMA Bounds == CampMaxSkips \in Nat /\ MaxRepress \in Nat /\ 0 \in 0 .. CampMaxSkips /\ 0 \in 0 .. MaxRepress
<1>1. CampMaxSkips \in Nat /\ MaxRepress \in Nat
  BY BetsAssumption, Zenon
<1> QED
  BY <1>1

LEMMA ReleasedKept == camp \in CampRec => Released(camp) \in CampRec
BY Bounds DEF CampRec, Released, Slips

LEMMA FiredKept ==
  ASSUME camp \in CampRec
  PROVE  /\ Fired(camp) \in CampRec
         /\ camp.on = TRUE => Fired(camp) = [Released(camp) EXCEPT !.cleanup = TRUE]
         /\ camp.on = FALSE => Fired(camp) = camp
<1>1. Released(camp) \in CampRec
  BY ReleasedKept
<1>2. CASE camp.on = TRUE
  <2>1. Fired(camp) = [Released(camp) EXCEPT !.cleanup = @ \/ TRUE]
    BY <1>2 DEF Fired
  <2>2. Fired(camp) = [Released(camp) EXCEPT !.cleanup = TRUE]
    BY <2>1
  <2> QED
    BY <1>1, <1>2, <2>2 DEF CampRec
<1>3. CASE camp.on = FALSE
  <2>1. Fired(camp) = [camp EXCEPT !.cleanup = @ \/ FALSE]
    BY <1>3 DEF Fired
  <2>2. Fired(camp) = camp
    BY <2>1 DEF CampRec
  <2> QED
    BY <1>3, <2>2
<1> QED
  BY <1>2, <1>3 DEF CampRec

LEMMA CampMoves ==
  ASSUME TypeOK, [Next]_vars
  PROVE  CampMove
<1>1. \A o \in Ops : op[o].want \in Slips
  BY DEF TypeOK
<1>2. "arm" \in Ops
  BY DEF Ops
<1>3. CASE UNCHANGED vars
  BY <1>3 DEF vars, CampMove
<1>4. CASE StartInplay \/ StopInplay \/ ManualMode \/ OnBanking \/ Sweep \/ IdleRound \/ PeekSlip
  BY <1>4, Zenon DEF StartInplay, StopInplay, ManualMode, OnBanking, Mode, Sweep, IdleRound, PeekSlip, CampMove
<1>5. CASE HostStops \/ Cleanup \/ Reload \/ IdleCamped
  BY <1>5 DEF HostStops, Cleanup, Reload, IdleCamped, CampStop, CampMove
<1>6. CASE PlaceSelects \/ QuoteSelects \/ ArmSelects \/ PlaceGivesUp \/ PlacePress \/ PlaceAnswered
          \/ PlaceSilence \/ VenueAnswers \/ VenueDecides \/ QuoteEnds \/ CampFire \/ FirePress
  BY <1>6, Zenon DEF PlaceSelects, QuoteSelects, ArmSelects, PlaceGivesUp, PlacePress, PlaceAnswered,
    PlaceSilence, EndPlace, VenueAnswers, VenueDecides, QuoteEnds, CampFire, FirePress, CampMove
<1>7. CASE \E s \in Sels : PlaceBet(s) \/ VerifyBetUi(s) \/ SlipQuote(s) \/ (s \in Camps /\ CampStart(s))
  BY <1>7, Zenon DEF PlaceBet, VerifyBetUi, Drive, SlipQuote, CampStart, CampMove
<1>8. CASE ArmClears \/ ArmDone \/ ArmFails
  BY <1>1, <1>2, <1>8 DEF ArmClears, ArmDone, ArmFails, CampMove
<1>9. CASE FireLooks
  BY <1>9 DEF FireLooks, CampStop, CampMove
<1>10. CASE FireAsked \/ FireAnswered \/ FireSilence
  BY <1>10, Zenon DEF FireAsked, FireAnswered, FireSilence, EndFire, Fired, CampMove
<1> QED
  BY <1>3, <1>4, <1>5, <1>6, <1>7, <1>8, <1>9, <1>10, Zenon DEF Next

LEMMA CampKept ==
  ASSUME camp \in CampRec, ctl \in Ctls, CampMove
  PROVE  camp' \in CampRec
<1>1. Released(camp) \in CampRec /\ Fired(camp) \in CampRec
  BY ReleasedKept, FiredKept
<1>2. ctl.inplay \in BOOLEAN
  BY DEF Ctls
<1>3. CASE camp' \in {camp, Released(camp), Fired(camp)}
  BY <1>1, <1>3
<1>4. CASE camp' \in {[camp EXCEPT !.cleanup = FALSE], [camp EXCEPT !.skips = 0], [camp EXCEPT !.on = FALSE]}
  BY <1>4, Bounds DEF CampRec
<1>5. CASE camp' = [camp EXCEPT !.hold = TRUE, !.hover = ctl.inplay]
  BY <1>2, <1>5 DEF CampRec
<1>6. CASE camp.skips < CampMaxSkips /\ camp' = [camp EXCEPT !.skips = @ + 1]
  BY <1>6, Bounds DEF CampRec
<1>7. CASE \E s \in Slips : camp' = [camp EXCEPT !.on = TRUE, !.sel = s]
  BY <1>7 DEF CampRec
<1> QED
  BY <1>3, <1>4, <1>5, <1>6, <1>7 DEF CampMove

\* One handler moves at a time.
Waits(o, r, n) ==
  /\ r.pc = "wait" => r.press \in 1 .. n
  /\ o = "place" /\ r.pc # "wait" => r.press = 0
OpMove ==
  \/ op' = op
  \/ \E o \in Ops, r \in OpRec(Last') : Waits(o, r, Last') /\ op' = [op EXCEPT ![o] = r]

LEMMA IdleTyped == ASSUME NEW n \in Nat PROVE Idle \in OpRec(n) /\ Idle.pc = "idle" /\ Idle.press = 0
BY Bounds DEF Idle, OpRec, Pcs, Slips

LEMMA TypeParts ==
  TypeOK <=> /\ slip \in Slips /\ gate \in Gates /\ ctl \in Ctls /\ camp \in CampRec
             /\ op \in [Ops -> OpRec(Last)] /\ host \in {"roving", "arming", "camped", "firing"}
BY Zenon DEF TypeOK, Gates, Ctls, CampRec, OpRec, Pcs

LEMMA OpMoves ==
  ASSUME TypeOK, Presses, bets \in Seq(BetRec), [Next]_vars
  PROVE  OpMove
<1>1. /\ op \in [Ops -> OpRec(Last)] /\ camp \in CampRec /\ BetsGrow /\ Last \in Nat
  BY TypeParts, BetsGrowing, LenProperties DEF Last
<1>2. \A o \in Ops : op[o] \in OpRec(Last')
  BY <1>1 DEF BetsGrow, OpRec
<1>3. Last' \in Nat /\ Idle \in OpRec(Last') /\ \A o \in Ops : Waits(o, Idle, Last')
  BY <1>1, IdleTyped DEF BetsGrow, Waits
<1>4. ASSUME NEW o \in Ops, NEW r \in OpRec(Last'), Waits(o, r, Last'), At(o, r) PROVE OpMove
  BY <1>4, Zenon DEF At, OpMove
<1>5. "place" \in Ops /\ "quote" \in Ops /\ "arm" \in Ops /\ "fire" \in Ops
  BY DEF Ops
<1>6. CASE UNCHANGED vars
  BY <1>6 DEF vars, OpMove
<1>7. CASE \/ StartInplay \/ StopInplay \/ ManualMode \/ OnBanking \/ HostStops \/ Sweep \/ Cleanup
           \/ Reload \/ IdleCamped \/ IdleRound \/ PeekSlip \/ VenueAnswers \/ VenueDecides
  BY <1>7, Zenon DEF StartInplay, StopInplay, ManualMode, OnBanking, Mode, HostStops, Sweep, Cleanup,
    Reload, IdleCamped, IdleRound, PeekSlip, VenueAnswers, VenueDecides, OpMove
<1>8. ASSUME NEW o \in Ops, NEW s \in Sels, Selected(o, s) PROVE OpMove
  <2>1. PICK p \in (IF o = "place" THEN Prices ELSE {0}) : At(o, [op[o] EXCEPT !.pc = "read", !.read = p])
    BY <1>8, Zenon DEF Selected
  <2>2. [op[o] EXCEPT !.pc = "read", !.read = p] \in OpRec(Last')
    BY <1>2, <2>1 DEF OpRec, Pcs
  <2>3. Waits(o, [op[o] EXCEPT !.pc = "read", !.read = p], Last')
    BY <1>2, <1>8 DEF OpRec, Waits, Presses, Selected
  <2> QED
    BY <1>4, <2>1, <2>2, <2>3, Zenon
<1>9. CASE PlaceSelects \/ QuoteSelects \/ ArmSelects
  BY <1>5, <1>8, <1>9, Zenon DEF PlaceSelects, QuoteSelects, ArmSelects
<1>10. CASE \E s \in Sels : PlaceBet(s) \/ VerifyBetUi(s) \/ SlipQuote(s) \/ (s \in Camps /\ CampStart(s))
  <2>1. \A s \in Sels, pc \in {"select", "clear"} : [Idle EXCEPT !.pc = pc, !.want = s] \in OpRec(Last')
    BY <1>3 DEF OpRec, Pcs, Slips
  <2>2. PICK s \in Sels : PlaceBet(s) \/ VerifyBetUi(s) \/ SlipQuote(s) \/ (s \in Camps /\ CampStart(s))
    BY <1>10, Zenon
  <2>3. [Idle EXCEPT !.pc = "select", !.want = s] \in OpRec(Last') /\ [Idle EXCEPT !.pc = "clear", !.want = s] \in OpRec(Last')
    BY <2>1
  <2>4. \A o \in Ops : /\ Waits(o, [Idle EXCEPT !.pc = "select", !.want = s], Last')
                      /\ Waits(o, [Idle EXCEPT !.pc = "clear", !.want = s], Last')
    BY DEF Waits, Idle
  <2> QED
    BY <1>4, <1>5, <2>2, <2>3, <2>4, Zenon DEF PlaceBet, VerifyBetUi, Drive, SlipQuote, CampStart
<1>11. CASE PlaceGivesUp \/ PlaceAnswered \/ PlaceSilence \/ QuoteEnds \/ ArmDone \/ ArmFails \/ FireAnswered
           \/ FireSilence
  BY <1>3, <1>4, <1>5, <1>11, Zenon DEF PlaceGivesUp, PlaceAnswered, PlaceSilence, QuoteEnds, ArmDone,
    ArmFails, FireAnswered, FireSilence, EndPlace, EndFire
<1>12. CASE ArmClears
  <2>1. [op["arm"] EXCEPT !.pc = "select"] \in OpRec(Last')
    BY <1>2, <1>5 DEF OpRec, Pcs
  <2>2. Waits("arm", [op["arm"] EXCEPT !.pc = "select"], Last')
    BY <1>2, <1>5 DEF OpRec, Waits
  <2> QED
    BY <1>4, <1>5, <1>12, <2>1, <2>2, Zenon DEF ArmClears
<1>13. CASE CampFire
  <2>1. [Idle EXCEPT !.pc = "look", !.want = camp.sel] \in OpRec(Last')
    BY <1>3, <1>1 DEF OpRec, Pcs, CampRec
  <2>2. op' = op \/ At("fire", [Idle EXCEPT !.pc = "look", !.want = camp.sel])
    BY <1>13 DEF CampFire
  <2>3. Waits("fire", [Idle EXCEPT !.pc = "look", !.want = camp.sel], Last')
    BY DEF Waits, Idle
  <2> QED
    BY <1>4, <1>5, <2>1, <2>2, <2>3, Zenon DEF OpMove
<1>14. CASE FireLooks
  <2>1. [op["fire"] EXCEPT !.pc = "press"] \in OpRec(Last')
    BY <1>2, <1>5 DEF OpRec, Pcs
  <2>2. Waits("fire", [op["fire"] EXCEPT !.pc = "press"], Last')
    BY <1>2, <1>5 DEF OpRec, Waits
  <2> QED
    BY <1>3, <1>4, <1>5, <1>14, <2>1, <2>2, Zenon DEF FireLooks
<1>15. ASSUME NEW o \in Ops, NEW read \in {0} \cup Prices, NEW posted \in {"posted", "asked"},
              Pressed(o, read, posted)
       PROVE  Last' = Last + 1 /\ Last + 1 \in 0 .. Last' /\ Last + 1 \in 1 .. Last'
  <2>1. Last' = Last + 1
    BY <1>15, PressAdds, AddedGrows
  <2> QED
    BY <2>1, <1>1
<1>16. CASE PlacePress
  <2>1. PICK posted \in {"posted", "asked"} : Pressed("place", op["place"].read, posted)
    BY <1>16, Zenon DEF PlacePress
  <2>2. op["place"].read \in {0} \cup Prices
    BY <1>2, <1>5 DEF OpRec
  <2>3. Last + 1 \in 0 .. Last' /\ Last + 1 \in 1 .. Last'
    BY <2>1, <2>2, <1>5, <1>15
  <2>4. [op["place"] EXCEPT !.pc = "wait", !.read = 0, !.press = Last + 1] \in OpRec(Last')
    BY <1>2, <1>5, <2>3 DEF OpRec, Pcs
  <2>5. Waits("place", [op["place"] EXCEPT !.pc = "wait", !.read = 0, !.press = Last + 1], Last')
    BY <1>2, <1>5, <2>3 DEF OpRec, Waits
  <2> QED
    BY <1>4, <1>5, <1>16, <2>4, <2>5, Zenon DEF PlacePress
<1>17. CASE FirePress
  <2>1. CASE \E p \in {q \in Prices : q >= Floor}, posted \in {"posted", "asked"} :
               /\ Pressed("fire", p, posted)
               /\ At("fire", [op["fire"] EXCEPT !.pc = "wait", !.read = p, !.press = Last + 1])
    <3>1. PICK p \in Prices, posted \in {"posted", "asked"} :
               /\ Pressed("fire", p, posted)
               /\ At("fire", [op["fire"] EXCEPT !.pc = "wait", !.read = p, !.press = Last + 1])
      BY <2>1, Zenon
    <3>2. Last + 1 \in 0 .. Last' /\ Last + 1 \in 1 .. Last'
      BY <3>1, <1>5, <1>15
    <3>3. [op["fire"] EXCEPT !.pc = "wait", !.read = p, !.press = Last + 1] \in OpRec(Last')
      BY <1>2, <1>5, <3>2 DEF OpRec, Pcs
    <3>4. Waits("fire", [op["fire"] EXCEPT !.pc = "wait", !.read = p, !.press = Last + 1], Last')
      BY <1>2, <1>5, <3>2 DEF OpRec, Waits
    <3> QED
      BY <1>4, <1>5, <3>1, <3>3, <3>4, Zenon
  <2> QED
    BY <1>3, <1>4, <1>5, <1>17, <2>1, Zenon DEF FirePress
<1>18. CASE FireAsked
  <2>1. PICK newp \in Prices \cup {0} :
       IF TakesRequote(newp) /\ slip # "none"
       THEN /\ \E posted \in {"posted", "asked"} : Pressed("fire", newp, posted)
            /\ At("fire", [op["fire"] EXCEPT !.read = newp, !.press = Last + 1, !.accepts = @ + 1])
            /\ UNCHANGED <<slip, gate, ctl, camp, replies, host>>
       ELSE EndFire("off", 0)
    BY <1>18, Zenon DEF FireAsked
  <2>2. CASE EndFire("off", 0)
    BY <1>3, <1>4, <1>5, <2>2, Zenon DEF EndFire
  <2>3. CASE /\ TakesRequote(newp)
             /\ \E posted \in {"posted", "asked"} : Pressed("fire", newp, posted)
             /\ At("fire", [op["fire"] EXCEPT !.read = newp, !.press = Last + 1, !.accepts = @ + 1])
    <3>1. Last + 1 \in 0 .. Last' /\ Last + 1 \in 1 .. Last'
      BY <2>3, <1>5, <1>15
    <3>2. op["fire"].accepts + 1 \in 0 .. MaxRepress
      BY <2>3, <1>2, <1>5, Bounds DEF TakesRequote, OpRec
    <3>3. [op["fire"] EXCEPT !.read = newp, !.press = Last + 1, !.accepts = @ + 1] \in OpRec(Last')
      BY <1>2, <1>5, <3>1, <3>2 DEF OpRec
    <3>4. Waits("fire", [op["fire"] EXCEPT !.read = newp, !.press = Last + 1, !.accepts = @ + 1], Last')
      BY <1>2, <1>5, <3>1 DEF OpRec, Waits
    <3> QED
      BY <1>4, <1>5, <2>3, <3>3, <3>4, Zenon
  <2> QED
    BY <2>1, <2>2, <2>3, Zenon
<1> QED
  BY <1>6, <1>7, <1>9, <1>10, <1>11, <1>12, <1>13, <1>14, <1>16, <1>17, <1>18, Zenon DEF Next

LEMMA OpKept ==
  ASSUME TypeOK, Presses, bets \in Seq(BetRec), [Next]_vars
  PROVE  op' \in [Ops -> OpRec(Last')] /\ Presses'
<1>1. op \in [Ops -> OpRec(Last)] /\ BetsGrow /\ Last \in Nat
  BY TypeParts, BetsGrowing, LenProperties DEF Last
<1>2. \A o \in Ops : op[o] \in OpRec(Last')
  BY <1>1 DEF BetsGrow, OpRec
<1>3. \A o \in Ops : Waits(o, op[o], Last')
  BY <1>1, <1>2 DEF Presses, Waits, OpRec, BetsGrow, Ops
<1> DEFINE R == OpRec(Last')
           W(o, r) == Waits(o, r, Last')
<1>4. op \in [Ops -> R] /\ (op' = op \/ \E o \in Ops, r \in R : W(o, r) /\ op' = [op EXCEPT ![o] = r])
  BY <1>1, <1>2, OpMoves DEF OpMove
<1>5. \A o \in Ops : W(o, op[o])
  BY <1>3
<1> HIDE DEF R, W
<1>6. op' \in [Ops -> R] /\ \A o \in Ops : W(o, op'[o])
  BY <1>4, <1>5
<1>7. op' \in [Ops -> OpRec(Last')] /\ \A o \in Ops : Waits(o, op'[o], Last')
  BY <1>6, Zenon DEF R, W
<1> QED
  BY <1>7 DEF Presses, Waits, Ops

-----------------------------------------------------------------------------
(* Who holds the page: the phase of the host, the handler under way and the camp. *)

Phases ==
  /\ (host = "arming") <=> Busy("arm")
  /\ (host = "firing") <=> Busy("fire")
  /\ host \in {"roving", "arming", "camped", "firing"}
  /\ host \in {"roving", "arming"} => camp.hold = FALSE
  /\ host = "roving" => camp.on = FALSE
  /\ camp.on = TRUE => camp.hold = TRUE \/ host = "arming"
Camped ==
  /\ camp.hover = TRUE => camp.hold = TRUE
  /\ camp.hold = TRUE => camp.on = TRUE
  /\ camp.on = TRUE => ctl.inplay = TRUE /\ camp.cleanup = FALSE
  /\ Busy("arm") => ctl.inplay = TRUE
  /\ op["arm"].pc \in {"select", "read"} => camp.on = TRUE /\ camp.sel = op["arm"].want
Held == Phases /\ Camped

\* The steps that leave the camp, the host, the arm and the fire alone.
Aside ==
  /\ UNCHANGED <<camp, host>> /\ ctl'.inplay = ctl.inplay
  /\ op'["arm"] = op["arm"] /\ op'["fire"] = op["fire"]

LEMMA AsideKeeps == Held /\ Aside => Held'
BY DEF Held, Phases, Camped, Aside, Busy

LEMMA OpsDiffer == Ops = {"place", "quote", "arm", "fire"} /\ "place" # "arm" /\ "place" # "fire" /\ "quote" # "arm"
  /\ "quote" # "fire" /\ "arm" # "fire"
BY DEF Ops

LEMMA AtOne ==
  ASSUME op \in [Ops -> OpRec(Last)], NEW o \in Ops, NEW r, At(o, r)
  PROVE  op'[o] = r /\ \A x \in Ops \ {o} : op'[x] = op[x]
BY DEF At

LEMMA AsideSteps ==
  ASSUME TypeOK,
         \/ ManualMode \/ OnBanking \/ Sweep \/ IdleRound \/ PeekSlip \/ UNCHANGED vars
         \/ PlaceSelects \/ QuoteSelects \/ PlaceGivesUp \/ PlacePress \/ PlaceAnswered \/ PlaceSilence
         \/ VenueAnswers \/ VenueDecides \/ QuoteEnds
         \/ \E s \in Sels : PlaceBet(s) \/ VerifyBetUi(s) \/ SlipQuote(s)
  PROVE  Aside
<1>1. op \in [Ops -> OpRec(Last)] /\ ctl \in Ctls
  BY TypeParts
<1>2. ASSUME NEW o \in {"place", "quote"}, NEW r, At(o, r)
      PROVE  op'["arm"] = op["arm"] /\ op'["fire"] = op["fire"]
  BY <1>1, <1>2, AtOne, OpsDiffer
<1>3. CASE ManualMode \/ OnBanking \/ Sweep \/ IdleRound \/ PeekSlip
  BY <1>1, <1>3 DEF ManualMode, OnBanking, Mode, Sweep, IdleRound, PeekSlip, Aside, Ctls
<1>4. CASE UNCHANGED vars
  BY <1>4 DEF vars, Aside
<1>5. CASE PlaceSelects \/ QuoteSelects
  <2>1. ctl' = [ctl EXCEPT !.over = FALSE] /\ UNCHANGED <<camp, host>>
    BY <1>5 DEF PlaceSelects, QuoteSelects, Selected
  <2>2. op'["arm"] = op["arm"] /\ op'["fire"] = op["fire"]
    BY <1>2, <1>5, OpsDiffer, Zenon DEF PlaceSelects, QuoteSelects, Selected
  <2> QED
    BY <1>1, <2>1, <2>2 DEF Aside, Ctls
<1>6. CASE PlaceGivesUp \/ PlacePress \/ PlaceAnswered \/ PlaceSilence \/ QuoteEnds
  <2>1. UNCHANGED <<ctl, camp, host>>
    BY <1>6, Zenon DEF PlaceGivesUp, PlacePress, PlaceAnswered, PlaceSilence, QuoteEnds, EndPlace
  <2>2. op'["arm"] = op["arm"] /\ op'["fire"] = op["fire"]
    BY <1>2, <1>6, Zenon DEF PlaceGivesUp, PlacePress, PlaceAnswered, PlaceSilence, QuoteEnds, EndPlace
  <2> QED
    BY <2>1, <2>2 DEF Aside
<1>7. CASE VenueAnswers \/ VenueDecides
  BY <1>7 DEF VenueAnswers, VenueDecides, Aside
<1>8. CASE \E s \in Sels : PlaceBet(s) \/ VerifyBetUi(s) \/ SlipQuote(s)
  <2>1. UNCHANGED <<ctl, camp, host>>
    BY <1>8, Zenon DEF PlaceBet, VerifyBetUi, Drive, SlipQuote
  <2>2. op'["arm"] = op["arm"] /\ op'["fire"] = op["fire"]
    BY <1>2, <1>8, Zenon DEF PlaceBet, VerifyBetUi, Drive, SlipQuote
  <2> QED
    BY <2>1, <2>2 DEF Aside
<1> QED
  BY <1>3, <1>4, <1>5, <1>6, <1>7, <1>8, Zenon

LEMMA HeldKept ==
  ASSUME TypeOK, Held, [Next]_vars
  PROVE  Held'
<1>1. op \in [Ops -> OpRec(Last)] /\ ctl \in Ctls /\ camp \in CampRec /\ host \in {"roving", "arming", "camped", "firing"}
  BY TypeParts
<1>2. \A o \in Ops : op[o] \in OpRec(Last)
  BY <1>1
<1>3. CASE \/ ManualMode \/ OnBanking \/ Sweep \/ IdleRound \/ PeekSlip \/ UNCHANGED vars
           \/ PlaceSelects \/ QuoteSelects \/ PlaceGivesUp \/ PlacePress \/ PlaceAnswered \/ PlaceSilence
           \/ VenueAnswers \/ VenueDecides \/ QuoteEnds
           \/ \E s \in Sels : PlaceBet(s) \/ VerifyBetUi(s) \/ SlipQuote(s)
  BY <1>3, AsideSteps, AsideKeeps
<1>4. CASE StartInplay
  BY <1>1, <1>2, <1>4, OpsDiffer DEF StartInplay, Held, Phases, Camped, Busy, Ctls
<1>5. CASE StopInplay
  BY <1>1, <1>2, <1>5, OpsDiffer DEF StopInplay, Held, Phases, Camped, Busy, Ctls, CampRec
<1>6. CASE HostStops
  BY <1>1, <1>2, <1>6, OpsDiffer DEF HostStops, CampStop, Released, Held, Phases, Camped, Busy, CampRec
<1>7. CASE Cleanup
  BY <1>1, <1>2, <1>7 DEF Cleanup, Held, Phases, Camped, Busy, CampRec
<1>8. CASE Reload
  BY <1>1, <1>2, <1>8 DEF Reload, Held, Phases, Camped, Busy, CampRec
<1>9. CASE IdleCamped
  BY <1>1, <1>2, <1>9 DEF IdleCamped, CampStop, Released, Held, Phases, Camped, Busy, CampRec
<1>10. CASE \E s \in Sels : s \in Camps /\ CampStart(s)
  <2>1. PICK s \in Sels : CampStart(s)
    BY <1>10, Zenon
  <2> DEFINE r == [Idle EXCEPT !.pc = "clear", !.want = s]
  <2>2. r.pc = "clear"
    BY DEF Idle
  <2>3. At("arm", r)
    BY <2>1 DEF CampStart
  <2> HIDE DEF r
  <2>4. op'["arm"].pc = "clear" /\ op'["fire"] = op["fire"]
    BY <2>2, <2>3, <1>1, AtOne, OpsDiffer
  <2>5. host = "roving" /\ ctl.inplay = TRUE /\ host' = "arming" /\ UNCHANGED <<ctl, camp>>
    BY <2>1, <1>1 DEF CampStart, Ctls
  <2> QED
    BY <2>4, <2>5 DEF Held, Phases, Camped, Busy
<1>11. CASE ArmClears
  BY <1>1, <1>2, <1>11, OpsDiffer, AtOne DEF ArmClears, Held, Phases, Camped, Busy, CampRec, OpRec
<1>12. CASE ArmSelects
  <2>1. PICK s \in Sels : Selected("arm", s)
    BY <1>12, Zenon DEF ArmSelects
  <2>2. PICK p : At("arm", [op["arm"] EXCEPT !.pc = "read", !.read = p])
    BY <2>1 DEF Selected
  <2> DEFINE r == [op["arm"] EXCEPT !.pc = "read", !.read = p]
  <2>3. r.pc = "read" /\ r.want = op["arm"].want /\ op["arm"].pc = "select"
    BY <2>1, <1>2, OpsDiffer DEF OpRec, Selected
  <2> HIDE DEF r
  <2>4. op'["arm"].pc = "read" /\ op'["arm"].want = op["arm"].want /\ op'["fire"] = op["fire"]
    BY <2>2, <2>3, <1>1, AtOne, OpsDiffer, ZenonT(40) DEF r
  <2>5. ctl'.inplay = ctl.inplay /\ UNCHANGED <<camp, host>>
    BY <1>12, <2>1, <1>1 DEF ArmSelects, Selected, Ctls
  <2> QED
    BY <2>3, <2>4, <2>5 DEF Held, Phases, Camped, Busy
<1>13. CASE ArmDone
  BY <1>1, <1>2, <1>13, OpsDiffer, AtOne DEF ArmDone, Held, Phases, Camped, Busy, CampRec, Idle, Ctls
<1>14. CASE ArmFails
  BY <1>1, <1>2, <1>14, OpsDiffer, AtOne DEF ArmFails, Held, Phases, Camped, Busy, CampRec, Idle, Ctls
<1>15. CASE CampFire
  <2> DEFINE r == [Idle EXCEPT !.pc = "look", !.want = camp.sel]
  <2>1. host = "camped" /\ UNCHANGED <<ctl, camp>> /\ (UNCHANGED <<host, op>> \/ (host' = "firing" /\ At("fire", r)))
    BY <1>15 DEF CampFire
  <2>2. r.pc = "look"
    BY DEF Idle
  <2> HIDE DEF r
  <2>3. CASE UNCHANGED <<host, op>>
    BY <2>1, <2>3 DEF Held, Phases, Camped, Busy
  <2>4. CASE host' = "firing" /\ At("fire", r)
    <3>1. op'["fire"].pc = "look" /\ op'["arm"] = op["arm"]
      BY <2>2, <2>4, <1>1, AtOne, OpsDiffer
    <3> QED
      BY <2>1, <2>4, <3>1 DEF Held, Phases, Camped, Busy
  <2> QED
    BY <2>1, <2>3, <2>4
<1>16. ASSUME NEW r, r.pc # "idle", At("fire", r), Busy("fire"), UNCHANGED <<ctl, camp, host>> PROVE Held'
  <2>1. op'["fire"].pc # "idle" /\ op'["arm"] = op["arm"]
    BY <1>16, <1>1, AtOne, OpsDiffer
  <2> QED
    BY <1>16, <2>1 DEF Held, Phases, Camped, Busy
<1>17. ASSUME At("fire", Idle), Busy("fire"), host' = "camped", UNCHANGED <<ctl, camp>> PROVE Held'
  <2>1. op'["fire"].pc = "idle" /\ op'["arm"] = op["arm"]
    BY <1>17, <1>1, AtOne, OpsDiffer DEF Idle
  <2> QED
    BY <1>17, <2>1 DEF Held, Phases, Camped, Busy
<1>18. CASE FireLooks
  <2>1. op["fire"].pc = "look" /\ UNCHANGED ctl /\ Idle.pc = "idle"
    BY <1>18 DEF FireLooks, Idle
  <2>2. CASE CampStop /\ At("fire", Idle) /\ host' = "roving"
    <3>1. op'["fire"].pc = "idle" /\ op'["arm"] = op["arm"]
      BY <2>1, <2>2, <1>1, AtOne, OpsDiffer
    <3>2. camp'.on = FALSE /\ camp'.hold = FALSE /\ camp'.hover = FALSE
      BY <2>2, <1>1 DEF CampStop, Released, CampRec, Held, Camped
    <3> QED
      BY <2>1, <2>2, <3>1, <3>2 DEF Held, Phases, Camped, Busy
  <2>3. [op["fire"] EXCEPT !.pc = "press"].pc # "idle" /\ Busy("fire")
    BY <2>1, <1>2, OpsDiffer DEF OpRec, Busy
  <2> QED
    BY <1>18, <2>1, <2>2, <2>3, <1>16, <1>17, Zenon DEF FireLooks
<1>19. CASE FirePress
  <2>1. op["fire"].pc = "press" /\ UNCHANGED <<ctl, camp>>
    BY <1>19 DEF FirePress
  <2>2. Busy("fire") /\ \A p : [op["fire"] EXCEPT !.pc = "wait", !.read = p, !.press = Last + 1].pc # "idle"
    BY <2>1, <1>2, OpsDiffer DEF OpRec, Busy
  <2>3. (host' = host /\ \E p : At("fire", [op["fire"] EXCEPT !.pc = "wait", !.read = p, !.press = Last + 1]))
          \/ (At("fire", Idle) /\ host' = "camped")
    BY <1>19, Zenon DEF FirePress
  <2> QED
    BY <2>1, <2>2, <2>3, <1>16, <1>17, Zenon
<1>20. ASSUME NEW v, NEW n, EndFire(v, n), op["fire"].pc = "wait", ctl' = ctl PROVE Held'
  <2>1. camp' = Fired(camp) /\ host' = "roving" /\ At("fire", Idle)
    BY <1>20 DEF EndFire, Fired
  <2>2. Idle.pc = "idle"
    BY DEF Idle
  <2>3. camp'.on = FALSE /\ camp'.hold = FALSE /\ camp'.hover = FALSE
    BY <2>1, <1>1, FiredKept DEF Released, CampRec, Held, Camped
  <2>4. op'["fire"].pc = "idle" /\ op'["arm"] = op["arm"]
    BY <2>1, <2>2, <1>1, AtOne, OpsDiffer
  <2> QED
    BY <1>1, <1>20, <2>1, <2>3, <2>4 DEF Held, Phases, Camped, Busy
<1>21. CASE FireAnswered \/ FireSilence
  BY <1>20, <1>21, Zenon DEF FireAnswered, FireSilence, EndFire
<1>22. CASE FireAsked
  <2>1. CASE EndFire("off", 0)
    BY <1>20, <1>22, <2>1, Zenon DEF FireAsked, EndFire
  <2>2. CASE ~EndFire("off", 0)
    <3>1. op["fire"].pc = "wait" /\ UNCHANGED <<ctl, camp, host>> /\ \E p :
            At("fire", [op["fire"] EXCEPT !.read = p, !.press = Last + 1, !.accepts = @ + 1])
      BY <1>22, <2>2, Zenon DEF FireAsked
    <3>2. Busy("fire") /\ \A p : [op["fire"] EXCEPT !.read = p, !.press = Last + 1, !.accepts = @ + 1].pc # "idle"
      BY <3>1, <1>2, OpsDiffer DEF OpRec, Busy
    <3> QED
      BY <3>1, <3>2, <1>16, Zenon
  <2> QED
    BY <2>1, <2>2
<1> QED
  BY <1>3, <1>4, <1>5, <1>6, <1>7, <1>8, <1>9, <1>10, <1>11, <1>12, <1>13, <1>14, <1>15, <1>18, <1>19, <1>21,
    <1>22, Zenon DEF Next

-----------------------------------------------------------------------------
(* The invariant of every behaviour, and what it says to a reader.                *)

BetsInv == TypeOK /\ InplayQuiet /\ Held /\ Presses /\ History

LEMMA BetsInits == Init => BetsInv
<1> SUFFICES ASSUME Init PROVE BetsInv
  OBVIOUS
<1>1. bets = <<>> /\ Last = 0 /\ bets \in Seq(BetRec)
  BY EmptySeq DEF Init, Last
<1>2. Idle \in OpRec(0) /\ Idle.pc = "idle" /\ Idle.press = 0
  BY IdleTyped
<1>3. op = [o \in Ops |-> Idle] /\ "arm" \in Ops /\ "fire" \in Ops /\ "place" \in Ops
  BY DEF Init, Ops
<1>4. op \in [Ops -> OpRec(Last)]
  BY <1>1, <1>2, <1>3
<1>5. slip \in Slips /\ gate \in Gates /\ ctl \in Ctls
  BY DEF Init, Slips, Gates, Ctls
<1>6. camp \in CampRec
  BY Bounds DEF Init, CampRec, Slips
<1>7. host = "roving" /\ camp.hold = FALSE /\ camp.on = FALSE /\ camp.hover = FALSE /\ ctl.inplay = FALSE
  BY DEF Init
<1>8. TypeOK
  BY <1>4, <1>5, <1>6, <1>7, TypeParts
<1>9. Held /\ Presses /\ InplayQuiet
  BY <1>2, <1>3, <1>7 DEF Held, Phases, Camped, Presses, InplayQuiet, Busy
<1>10. History
  BY <1>1 DEF Init, History
<1> QED
  BY <1>8, <1>9, <1>10 DEF BetsInv

LEMMA BetsStep == BetsInv /\ [Next]_vars => BetsInv'
<1> SUFFICES ASSUME BetsInv, [Next]_vars PROVE BetsInv'
  OBVIOUS
<1> USE DEF BetsInv
<1>1. /\ slip \in Slips /\ gate \in Gates /\ ctl \in Ctls /\ camp \in CampRec
      /\ host \in {"roving", "arming", "camped", "firing"}
  BY TypeParts
<1>2. Page'
  BY <1>1, PageKept DEF Page
<1>3. camp' \in CampRec
  BY <1>1, CampMoves, CampKept
<1>4. op' \in [Ops -> OpRec(Last')] /\ Presses'
  BY OpKept DEF History
<1>5. Held'
  BY HeldKept
<1>6. TypeOK'
  <2>1. host' \in {"roving", "arming", "camped", "firing"}
    BY <1>5 DEF Held, Phases
  <2>2. (TypeOK <=> /\ slip \in Slips /\ gate \in Gates /\ ctl \in Ctls /\ camp \in CampRec
             /\ op \in [Ops -> OpRec(Last)] /\ host \in {"roving", "arming", "camped", "firing"})'
    BY Zenon DEF TypeOK, Gates, Ctls, CampRec, OpRec, Pcs
  <2> QED
    BY <1>2, <1>3, <1>4, <2>1, <2>2, Zenon DEF Page
<1>7. History'
  BY HistoryKept
<1> QED
  BY <1>2, <1>4, <1>5, <1>6, <1>7 DEF Page

LEMMA NewestIn ==
  ASSUME NEW n \in Nat, NEW S, S \subseteq 1 .. n, S # {}
  PROVE  Newest(S) \in S
<1> DEFINE D == {n - i : i \in S}
           Below == OpToRel(<, Nat)
<1>1. D \subseteq Nat /\ D # {}
  <2>1. \A i \in S : n - i \in Nat
    OBVIOUS
  <2>2. PICK i \in S : TRUE
    OBVIOUS
  <2>3. n - i \in D
    OBVIOUS
  <2> QED
    BY <2>1, <2>3
<1> HIDE DEF Below, D
<1>2. IsWellFoundedOn(Below, Nat)
  BY NatLessThanWellFounded, Zenon DEF Below
<1>3. \A x, y \in Nat : <<x, y>> \in Below <=> x < y
  BY DEF Below, OpToRel
<1>4. PICK d \in D : \A e \in D : d <= e
  <2>1. PICK d \in D : \A e \in D : ~(<<e, d>> \in Below)
    BY <1>1, <1>2, WFMin, Zenon
  <2>2. \A e \in D : d <= e
    <3> TAKE e \in D
    <3>1. e \in Nat /\ d \in Nat /\ ~(<<e, d>> \in Below)
      BY <1>1, <2>1
    <3>2. ~(e < d)
      BY <1>3, <3>1, Zenon
    <3> QED
      BY <3>1, <3>2
  <2> QED
    BY <2>2
<1> USE DEF D
<1>5. PICK i \in S : d = n - i
  OBVIOUS
<1>6. \A j \in S : j <= i
  <2> TAKE j \in S
  <2>1. n - j \in D /\ j \in Nat /\ i \in Nat
    OBVIOUS
  <2> QED
    BY <2>1, <1>4, <1>5
<1> QED
  BY <1>6, Zenon DEF Newest

LEMMA Reconciles ==
  ASSUME History
  PROVE  UnknownIsFound
<1> SUFFICES ASSUME NEW r \in replies, r.verdict = "unknown", bets[r.bet].state \in {"on", "confirmed"},
                    NEW settled \in SUBSET (1 .. Last)
             PROVE  LET i == FindBet(bets[r.bet].sel, r.bet, settled)
                    IN i >= r.bet /\ bets[i].sel = bets[r.bet].sel
  BY Zenon DEF UnknownIsFound
<1> DEFINE sel == bets[r.bet].sel
           L == Listed(sel, r.bet)
           i == FindBet(sel, r.bet, settled)
<1>1. Last \in Nat /\ r.bet \in 1 .. Last
  <2>1. bets \in Seq(BetRec) /\ r.bet \in 0 .. Last /\ r.bet # 0
    BY DEF History, Honest
  <2>2. Last \in Nat
    BY <2>1, LenProperties DEF Last
  <2> QED
    BY <2>1, <2>2
<1>2. r.bet \in L /\ L \subseteq 1 .. Last /\ \A j \in L : j >= r.bet /\ bets[j].sel = sel
  BY <1>1 DEF Listed
<1>3. i \in L
  <2>1. i = IF Newest(L \cap settled) # 0 THEN Newest(L \cap settled) ELSE Newest(L \ settled)
    BY DEF FindBet
  <2> HIDE DEF L, i, sel
  <2>2. CASE L \cap settled = {}
    <3>1. Newest(L \cap settled) = 0 /\ L \ settled # {}
      BY <1>2, <2>2 DEF Newest
    <3>2. Newest(L \ settled) \in L \ settled
      BY <1>1, <1>2, <3>1, NewestIn
    <3> QED
      BY <2>1, <3>1, <3>2
  <2>3. CASE L \cap settled # {}
    <3>1. Newest(L \cap settled) \in L \cap settled
      BY <1>1, <1>2, <2>3, NewestIn
    <3> QED
      BY <1>2, <2>1, <3>1
  <2> QED
    BY <2>2, <2>3
<1> QED
  BY <1>2, <1>3

\* At any time each pause and hold on the page matches its owner (HoldsMatched), for
\* every interleaving of bets, quotes, arms, fires, modes, reloads and the idle loop.
THEOREM HoldsAlwaysMatched == Spec => []HoldsMatched
<1>1. BetsInv => HoldsMatched
  BY TypeParts DEF BetsInv, HoldsMatched, HoldIsCamp, Held, Camped, CampRec
<1> QED
  BY <1>1, BetsInits, BetsStep, PTL DEF Spec

\* What the host is told of a press, at once or when it asks later, is true (AnswersTrue).
THEOREM AnswersAlwaysTrue == Spec => []AnswersTrue
<1>1. BetsInv => AnswersTrue
  <2> SUFFICES ASSUME BetsInv PROVE AnswersTrue
    OBVIOUS
  <2>1. UnknownIsFound
    BY Reconciles DEF BetsInv
  <2>2. ToldTrue
    BY DEF BetsInv, History, Honest, TrueOf, ToldTrue
  <2> QED
    BY <2>1, <2>2 DEF AnswersTrue
<1> QED
  BY <1>1, BetsInits, BetsStep, PTL DEF Spec

-----------------------------------------------------------------------------
(* When the host keeps its own steps apart (Overlap = FALSE), one handler at a    *)
(* time has the page, and a slip that a press relies on is the one it was opened  *)
(* for, is gone, or lies under one of the idle loop's.                            *)

SlipIs(s) == slip = s \/ slip = "none" \/ ctl.over = TRUE
Alone ==
  /\ Locked => host = "roving" /\ ~Busy("quote")
  /\ Busy("quote") => camp.on = FALSE /\ host \notin {"arming", "firing"}
Armed ==
  /\ op["place"].pc = "read" => SlipIs(op["place"].want)
  /\ op["arm"].pc = "read" => SlipIs(op["arm"].want)
  /\ camp.hold = TRUE => SlipIs(camp.sel)
  /\ Busy("fire") => SlipIs(op["fire"].want)

\* What most steps do: no slip is opened but the idle loop's.
SlipStays == slip' = "none" \/ (slip' = slip /\ ctl'.over = ctl.over) \/ ctl'.over = TRUE
CampStays == camp'.hold = TRUE => camp.hold = TRUE /\ camp'.sel = camp.sel
OnStays == camp'.on = TRUE => camp.on = TRUE

LEMMA SlipsStay == ASSUME SlipStays, NEW s, SlipIs(s) PROVE (slip = s \/ slip = "none" \/ ctl.over = TRUE)'
BY DEF SlipStays, SlipIs

\* The steps that move no handler.
LEMMA StillKeeps ==
  ASSUME Alone, Armed, SlipStays, CampStays, OnStays, op' = op,
         host' = host \/ (host = "camped" /\ host' = "roving")
  PROVE  Alone' /\ Armed'
BY DEF Alone, Armed, SlipStays, CampStays, OnStays, SlipIs, Busy, Locked

LEMMA StillSteps ==
  ASSUME TypeOK, InplayQuiet, Held,
         \/ StartInplay \/ StopInplay \/ ManualMode \/ OnBanking \/ HostStops \/ Sweep \/ Cleanup
         \/ Reload \/ IdleCamped \/ IdleRound \/ PeekSlip \/ VenueAnswers \/ VenueDecides \/ UNCHANGED vars
  PROVE  /\ SlipStays /\ CampStays /\ OnStays /\ op' = op
         /\ host' = host \/ (host = "camped" /\ host' = "roving")
<1>1. ctl \in Ctls /\ camp \in CampRec
  BY TypeParts
<1> USE DEF SlipStays, CampStays, OnStays
<1>2. CASE StartInplay \/ StopInplay \/ ManualMode \/ OnBanking \/ Sweep \/ IdleRound
  BY <1>1, <1>2 DEF StartInplay, StopInplay, ManualMode, OnBanking, Mode, Sweep, IdleRound, Ctls
<1>3. CASE PeekSlip
  BY <1>1, <1>3 DEF PeekSlip, Ctls
<1>4. CASE Cleanup \/ Reload
  BY <1>1, <1>4 DEF Cleanup, Reload, CampRec
<1>5. CASE HostStops \/ IdleCamped
  BY <1>1, <1>5 DEF HostStops, IdleCamped, CampStop, Released, CampRec
<1>6. CASE VenueAnswers \/ VenueDecides \/ UNCHANGED vars
  BY <1>6 DEF VenueAnswers, VenueDecides, vars
<1> QED
  BY <1>2, <1>3, <1>4, <1>5, <1>6, Zenon

LEMMA ApartKept ==
  ASSUME Overlap = FALSE, TypeOK, InplayQuiet, Held, Alone, Armed, [Next]_vars
  PROVE  Alone' /\ Armed'
<1>1. /\ op \in [Ops -> OpRec(Last)] /\ ctl \in Ctls /\ camp \in CampRec
      /\ Idle.pc = "idle" /\ \A o \in Ops : op[o] \in OpRec(Last)
  BY TypeParts DEF Idle
<1>2. ASSUME NEW o \in Ops, NEW r, At(o, r)
      PROVE  op'[o] = r /\ \A x \in Ops \ {o} : op'[x] = op[x]
  BY <1>1, <1>2, AtOne
<1> USE DEF SlipIs, Busy, Locked
<1>3. CASE \/ StartInplay \/ StopInplay \/ ManualMode \/ OnBanking \/ HostStops \/ Sweep \/ Cleanup
           \/ Reload \/ IdleCamped \/ IdleRound \/ PeekSlip \/ VenueAnswers \/ VenueDecides \/ UNCHANGED vars
  BY <1>3, StillSteps, StillKeeps
<1>4. ASSUME NEW o \in Ops, NEW s \in Sels, Selected(o, s), UNCHANGED <<camp, host>>, o # "fire"
      PROVE  Alone' /\ Armed'
  <2>1. PICK p : At(o, [op[o] EXCEPT !.pc = "read", !.read = p])
    BY <1>4 DEF Selected
  <2> DEFINE r == [op[o] EXCEPT !.pc = "read", !.read = p]
  <2>2. r.pc = "read" /\ r.want = op[o].want
    BY <1>1 DEF OpRec
  <2> HIDE DEF r
  <2>3. op'[o].pc = "read" /\ op'[o].want = op[o].want /\ \A x \in Ops \ {o} : op'[x] = op[x]
    BY <2>1, <2>2, <1>2 DEF r
  <2>4. op[o].pc = "select" /\ op[o].want = s /\ slip' = s
    BY <1>4 DEF Selected
  <2>5. CASE o = "place"
    BY <2>3, <2>4, <2>5, <1>4, OpsDiffer DEF Alone, Armed, Held, Phases
  <2>6. CASE o = "quote"
    BY <2>3, <2>4, <2>6, <1>4, OpsDiffer DEF Alone, Armed, Held, Phases, Camped
  <2>7. CASE o = "arm"
    BY <2>3, <2>4, <2>7, <1>4, OpsDiffer DEF Alone, Armed, Held, Phases
  <2> QED
    BY <2>5, <2>6, <2>7, <1>4, OpsDiffer
<1>5. CASE PlaceSelects \/ QuoteSelects \/ ArmSelects
  BY <1>4, <1>5, OpsDiffer, Zenon DEF PlaceSelects, QuoteSelects, ArmSelects
<1>6. ASSUME NEW o \in {"place", "quote"}, At(o, Idle), UNCHANGED <<camp, host>>, SlipStays
      PROVE  Alone' /\ Armed'
  <2>1. op'[o].pc = "idle" /\ \A x \in Ops \ {o} : op'[x] = op[x]
    BY <1>1, <1>2, <1>6, OpsDiffer
  <2>2. CASE o = "place"
    BY <2>1, <2>2, <1>6, OpsDiffer DEF Alone, Armed, SlipStays
  <2>3. CASE o = "quote"
    BY <2>1, <2>3, <1>6, OpsDiffer DEF Alone, Armed, SlipStays
  <2> QED
    BY <2>2, <2>3, <1>6
<1>7. CASE PlaceGivesUp \/ PlaceAnswered \/ PlaceSilence \/ QuoteEnds
  <2>1. UNCHANGED <<camp, host>> /\ SlipStays /\ (At("place", Idle) \/ At("quote", Idle))
    BY <1>7 DEF PlaceGivesUp, PlaceAnswered, PlaceSilence, QuoteEnds, EndPlace, SlipStays
  <2> QED
    BY <2>1, <1>6
<1>8. CASE \E s \in Sels : PlaceBet(s) \/ VerifyBetUi(s)
  <2>1. PICK s \in Sels : Drive(s)
    BY <1>8, Zenon DEF PlaceBet, VerifyBetUi
  <2>2. At("place", [Idle EXCEPT !.pc = "select", !.want = s]) /\ ~Busy("quote") /\ host = "roving"
        /\ UNCHANGED <<slip, ctl, camp, host>>
    BY <2>1 DEF Drive, MayDrive
  <2> DEFINE r == [Idle EXCEPT !.pc = "select", !.want = s]
  <2>3. r.pc = "select"
    BY DEF Idle
  <2> HIDE DEF r
  <2>4. op'["place"].pc = "select" /\ \A x \in Ops \ {"place"} : op'[x] = op[x]
    BY <2>2, <2>3, <1>2, OpsDiffer, ZenonT(40) DEF r
  <2> QED
    BY <2>2, <2>4, OpsDiffer DEF Alone, Armed
<1>9. CASE \E s \in Sels : SlipQuote(s)
  <2>1. PICK s \in Sels : SlipQuote(s)
    BY <1>9
  <2>2. At("quote", [Idle EXCEPT !.pc = "select", !.want = s]) /\ camp.on = FALSE /\ host \notin {"arming", "firing"}
        /\ UNCHANGED <<slip, ctl, camp, host>> /\ ~Locked
    BY <2>1, <1>1 DEF SlipQuote, CampRec
  <2> DEFINE r == [Idle EXCEPT !.pc = "select", !.want = s]
  <2>3. r.pc = "select"
    BY DEF Idle
  <2> HIDE DEF r
  <2>4. op'["quote"].pc = "select" /\ \A x \in Ops \ {"quote"} : op'[x] = op[x]
    BY <2>2, <2>3, <1>2, OpsDiffer, ZenonT(40) DEF r
  <2> QED
    BY <2>2, <2>4, OpsDiffer DEF Alone, Armed
<1>10. CASE \E s \in Sels : s \in Camps /\ CampStart(s)
  <2>1. PICK s \in Sels : CampStart(s)
    BY <1>10
  <2>2. At("arm", [Idle EXCEPT !.pc = "clear", !.want = s]) /\ ~Busy("quote") /\ host' = "arming" /\ ~Locked
        /\ UNCHANGED <<slip, ctl, camp>>
    BY <2>1 DEF CampStart
  <2> DEFINE r == [Idle EXCEPT !.pc = "clear", !.want = s]
  <2>3. r.pc = "clear"
    BY DEF Idle
  <2> HIDE DEF r
  <2>4. op'["arm"].pc = "clear" /\ \A x \in Ops \ {"arm"} : op'[x] = op[x]
    BY <2>2, <2>3, <1>2, OpsDiffer, ZenonT(40) DEF r
  <2> QED
    BY <2>2, <2>4, OpsDiffer DEF Alone, Armed
<1>11. CASE PlacePress
  <2>1. At("place", [op["place"] EXCEPT !.pc = "wait", !.read = 0, !.press = Last + 1]) /\ op["place"].pc = "read"
        /\ UNCHANGED <<slip, ctl, camp, host>>
    BY <1>11, Zenon DEF PlacePress
  <2> DEFINE r == [op["place"] EXCEPT !.pc = "wait", !.read = 0, !.press = Last + 1]
  <2>2. r.pc = "wait"
    BY <1>1, OpsDiffer DEF OpRec
  <2> HIDE DEF r
  <2>3. op'["place"].pc = "wait" /\ \A x \in Ops \ {"place"} : op'[x] = op[x]
    BY <2>1, <2>2, <1>2, OpsDiffer, ZenonT(40) DEF r
  <2> QED
    BY <2>1, <2>3, OpsDiffer DEF Alone, Armed
<1>12. CASE ArmClears
  <2>1. At("arm", [op["arm"] EXCEPT !.pc = "select"]) /\ op["arm"].pc = "clear" /\ slip' = "none"
        /\ UNCHANGED host
    BY <1>12, Zenon DEF ArmClears
  <2> DEFINE r == [op["arm"] EXCEPT !.pc = "select"]
  <2>2. r.pc = "select"
    BY <1>1, OpsDiffer DEF OpRec
  <2> HIDE DEF r
  <2>3. op'["arm"].pc = "select" /\ \A x \in Ops \ {"arm"} : op'[x] = op[x]
    BY <2>1, <2>2, <1>2, OpsDiffer, ZenonT(40) DEF r
  <2> QED
    BY <2>1, <2>3, OpsDiffer DEF Alone, Armed, Held, Phases
<1>13. CASE ArmDone
  <2>1. op["arm"].pc = "read" /\ At("arm", Idle) /\ host' = "camped" /\ UNCHANGED <<slip, ctl>>
        /\ camp' = [camp EXCEPT !.hold = TRUE, !.hover = ctl.inplay]
    BY <1>13, Zenon DEF ArmDone
  <2>2. camp'.sel = camp.sel /\ camp.sel = op["arm"].want /\ camp'.on = camp.on
    BY <2>1, <1>1 DEF CampRec, Held, Camped
  <2>3. op'["arm"].pc = "idle" /\ \A x \in Ops \ {"arm"} : op'[x] = op[x]
    BY <2>1, <1>1, <1>2, OpsDiffer
  <2> QED
    BY <2>1, <2>2, <2>3, OpsDiffer DEF Alone, Armed, Held, Phases
<1>14. CASE ArmFails
  <2>1. At("arm", Idle) /\ host' = "roving" /\ UNCHANGED ctl /\ (slip' = slip \/ slip' = "none")
        /\ op["arm"].pc # "idle" /\ camp' = [camp EXCEPT !.on = FALSE]
    BY <1>14 DEF ArmFails
  <2>2. camp'.on = FALSE /\ camp'.hold = camp.hold /\ camp'.sel = camp.sel
    BY <2>1, <1>1 DEF CampRec
  <2>3. op'["arm"].pc = "idle" /\ \A x \in Ops \ {"arm"} : op'[x] = op[x]
    BY <2>1, <1>1, <1>2, OpsDiffer
  <2> QED
    BY <2>1, <2>2, <2>3, OpsDiffer DEF Alone, Armed, Held, Phases
<1>15. CASE CampFire
  <2> DEFINE r == [Idle EXCEPT !.pc = "look", !.want = camp.sel]
  <2>1. /\ host = "camped" /\ UNCHANGED <<slip, ctl, camp>>
        /\ UNCHANGED <<host, op>> \/ (camp.on = TRUE /\ host' = "firing" /\ At("fire", r))
    BY <1>15, <1>1 DEF CampFire, CampRec
  <2>2. r.pc = "look" /\ r.want = camp.sel
    BY DEF Idle
  <2> HIDE DEF r
  <2>3. CASE UNCHANGED <<host, op>>
    BY <2>1, <2>3 DEF Alone, Armed
  <2>4. CASE camp.on = TRUE /\ host' = "firing" /\ At("fire", r)
    <3>1. op'["fire"].pc = "look" /\ op'["fire"].want = camp.sel /\ \A x \in Ops \ {"fire"} : op'[x] = op[x]
      BY <2>2, <2>4, <1>2, OpsDiffer
    <3> QED
      BY <2>1, <2>4, <3>1, OpsDiffer DEF Alone, Armed, Held, Phases
  <2> QED
    BY <2>1, <2>3, <2>4
<1>16. ASSUME NEW r, At("fire", r), r.pc = "idle" \/ (r.want = op["fire"].want /\ Busy("fire")),
              UNCHANGED ctl, slip' = slip \/ slip' = "none", CampStays, OnStays, Busy("fire"),
              host' \in {"roving", "camped"} \/ UNCHANGED host
       PROVE  Alone' /\ Armed'
  <2>1. op'["fire"] = r /\ \A x \in Ops \ {"fire"} : op'[x] = op[x]
    BY <1>2, <1>16, OpsDiffer
  <2>2. Alone'
    BY <2>1, <1>16, OpsDiffer DEF Alone, OnStays, Held, Phases
  <2>3. Armed'
    BY <2>1, <1>16, OpsDiffer DEF Armed, CampStays
  <2> QED
    BY <2>2, <2>3
<1>17. CASE FireLooks
  <2>1. op["fire"].pc = "look" /\ UNCHANGED ctl /\ Busy("fire")
    BY <1>17 DEF FireLooks
  <2>2. /\ slip' = slip \/ slip' = "none"
        /\ camp' = camp \/ camp' = Released(camp)
        /\ host' \in {"roving", "camped"} \/ UNCHANGED host
    BY <1>17 DEF FireLooks, CampStop
  <2>3. CampStays /\ OnStays
    BY <2>2, <1>1 DEF CampStays, OnStays, Released, CampRec
  <2> DEFINE r == [op["fire"] EXCEPT !.pc = "press"]
  <2>4. At("fire", Idle) \/ At("fire", r)
    BY <1>17, Zenon DEF FireLooks
  <2>5. r.want = op["fire"].want
    BY <1>1, OpsDiffer DEF OpRec
  <2> HIDE DEF r
  <2> QED
    BY <2>1, <2>2, <2>3, <2>4, <2>5, <1>1, <1>16
<1>18. CASE FirePress
  <2>1. op["fire"].pc = "press" /\ UNCHANGED <<slip, ctl, camp>> /\ Busy("fire")
    BY <1>18 DEF FirePress
  <2>2. CampStays /\ OnStays
    BY <2>1 DEF CampStays, OnStays
  <2>3. \/ At("fire", Idle) /\ host' = "camped"
        \/ UNCHANGED host /\ \E p : At("fire", [op["fire"] EXCEPT !.pc = "wait", !.read = p, !.press = Last + 1])
    BY <1>18, Zenon DEF FirePress
  <2>4. \A p : [op["fire"] EXCEPT !.pc = "wait", !.read = p, !.press = Last + 1].want = op["fire"].want
    BY <1>1, OpsDiffer DEF OpRec
  <2>5. CASE At("fire", Idle) /\ host' = "camped"
    BY <2>1, <2>2, <2>5, <1>1, <1>16
  <2>6. CASE UNCHANGED host /\ \E p : At("fire", [op["fire"] EXCEPT !.pc = "wait", !.read = p, !.press = Last + 1])
    BY <2>1, <2>2, <2>4, <2>6, <1>16, Zenon
  <2> QED
    BY <2>3, <2>5, <2>6
<1>19. ASSUME NEW v, NEW n, EndFire(v, n), op["fire"].pc = "wait" PROVE Alone' /\ Armed'
  <2>1. At("fire", Idle) /\ camp' = Fired(camp) /\ host' = "roving" /\ UNCHANGED <<slip, ctl>>
    BY <1>19, Zenon DEF EndFire, Fired
  <2>2. CampStays /\ OnStays
    BY <2>1, <1>1, FiredKept DEF CampStays, OnStays, Released, CampRec
  <2> QED
    BY <2>1, <2>2, <1>1, <1>16, <1>19
<1>20. CASE FireAnswered \/ FireSilence
  BY <1>19, <1>20, Zenon DEF FireAnswered, FireSilence
<1>21. CASE FireAsked
  <2>1. CASE EndFire("off", 0)
    BY <1>19, <1>21, <2>1, Zenon DEF FireAsked
  <2>2. CASE ~EndFire("off", 0)
    <3>1. op["fire"].pc = "wait" /\ UNCHANGED <<slip, ctl, camp, host>> /\ \E p :
            At("fire", [op["fire"] EXCEPT !.read = p, !.press = Last + 1, !.accepts = @ + 1])
      BY <1>21, <2>2, Zenon DEF FireAsked
    <3>2. Busy("fire") /\ \A p : [op["fire"] EXCEPT !.read = p, !.press = Last + 1, !.accepts = @ + 1].want = op["fire"].want
      BY <3>1, <1>1, OpsDiffer DEF OpRec
    <3>3. CampStays /\ OnStays
      BY <3>1 DEF CampStays, OnStays
    <3> QED
      BY <3>1, <3>2, <3>3, <1>16, Zenon
  <2> QED
    BY <2>1, <2>2
<1> QED
  BY <1>3, <1>5, <1>7, <1>8, <1>9, <1>10, <1>11, <1>12, <1>13, <1>14, <1>15, <1>17, <1>18, <1>20, <1>21, Zenon DEF Next

LEMMA PressesKept ==
  ASSUME Overlap = FALSE, TypeOK, Presses, History, Armed, PressChecked, [Next]_vars
  PROVE  PressChecked'
<1> DEFINE Good(b) == b.priced = TRUE /\ (b.sel = b.want \/ b.over = TRUE)
<1>1. bets \in Seq(BetRec) /\ BetsGrow /\ Last \in Nat
  BY BetsGrowing, LenProperties DEF History, Last
<1>2. \A i \in 1 .. Last : Good(bets[i])
  <2>1. \A i \in 1 .. Last : bets[i] \in BetRec
    BY <1>1, ElementOfSeq DEF Last
  <2> QED
    BY <2>1, BetTyped DEF PressChecked
<1>3. CASE Last' = Last
  BY <1>1, <1>2, <1>3 DEF BetsGrow, Later, PressChecked
<1>4. ASSUME NEW o \in Ops, NEW read \in {0} \cup Prices, NEW posted \in {"posted", "asked"},
             Pressed(o, read, posted), read >= Floor, slip # "none", SlipIs(op[o].want)
      PROVE  PressChecked'
  <2> DEFINE b == [by |-> o, want |-> op[o].want, sel |-> slip, priced |-> read >= Floor,
                   over |-> ctl.over, state |-> posted]
  <2>1. Added(b)
    BY <1>4, PressAdds
  <2>2. Good(b)
    BY <1>4 DEF SlipIs
  <2> HIDE DEF b
  <2>3. Last' = Last + 1 /\ bets'[Last + 1] = b /\ \A i \in 1 .. Last : bets'[i] = bets[i]
    BY <1>1, <2>1, AddedGrows
  <2> QED
    BY <1>1, <1>2, <2>2, <2>3 DEF PressChecked
<1>5. \A o \in Ops : op[o].read \in {0} \cup Prices
  BY DEF TypeOK
<1>6. CASE PlacePress
  <2>1. op["place"].read >= Floor /\ slip # "none" /\ op["place"].pc = "read"
    BY <1>6 DEF PlacePress
  <2>2. PICK posted \in {"posted", "asked"} : Pressed("place", op["place"].read, posted)
    BY <1>6, Zenon DEF PlacePress
  <2>3. SlipIs(op["place"].want)
    BY <2>1 DEF Armed
  <2> QED
    BY <1>4, <1>5, <2>1, <2>2, <2>3, OpsDiffer
<1>7. CASE FirePress
  <2>1. CASE bets' = bets
    BY <1>3, <2>1 DEF Last
  <2>2. CASE bets' # bets
    <3>1. slip # "none" /\ op["fire"].pc = "press"
      BY <1>7, <2>2, Zenon DEF FirePress
    <3>2. PICK p \in {q \in Prices : q >= Floor}, posted \in {"posted", "asked"} : Pressed("fire", p, posted)
      BY <1>7, <2>2, Zenon DEF FirePress
    <3>3. SlipIs(op["fire"].want)
      BY <3>1 DEF Armed, Busy
    <3> QED
      BY <1>4, <3>1, <3>2, <3>3, OpsDiffer
  <2> QED
    BY <2>1, <2>2
<1>8. CASE FireAsked
  <2>1. CASE bets' = bets
    BY <1>3, <2>1 DEF Last
  <2>2. CASE bets' # bets
    <3>1. op["fire"].pc = "wait"
      BY <1>8 DEF FireAsked
    <3>2. PICK newp \in Prices \cup {0} : /\ TakesRequote(newp) /\ slip # "none"
               /\ \E posted \in {"posted", "asked"} : Pressed("fire", newp, posted)
      BY <1>8, <2>2, Zenon DEF FireAsked, EndFire
    <3>3. newp >= Floor
      BY <3>2 DEF TakesRequote
    <3>4. SlipIs(op["fire"].want)
      BY <3>1 DEF Armed, Busy
    <3> QED
      BY <1>4, <3>2, <3>3, <3>4, OpsDiffer
  <2> QED
    BY <2>1, <2>2
<1>9. CASE VenueAnswers \/ VenueDecides
  <2>1. \E i \in 1 .. Last, st \in States : bets' = [bets EXCEPT ![i].state = st]
    BY <1>9 DEF VenueAnswers, VenueDecides, States
  <2> QED
    BY <1>3, <2>1 DEF Last
<1>10. CASE bets' = bets
  BY <1>3, <1>10 DEF Last
<1> QED
  BY <1>6, <1>7, <1>8, <1>9, <1>10, QuietKeeps, Zenon DEF Next, Quietly, PlaceGivesUp, PlaceAnswered,
    PlaceSilence, FireAnswered, FireSilence, EndPlace, EndFire

\* When the host keeps its steps apart, the whole is inductive.
ApartInv == BetsInv /\ Alone /\ Armed /\ PressChecked

LEMMA ApartInits == Init => ApartInv
<1> SUFFICES ASSUME Init PROVE ApartInv
  OBVIOUS
<1>1. op = [o \in Ops |-> Idle] /\ Idle.pc = "idle" /\ Last = 0 /\ camp.hold = FALSE
  BY EmptySeq DEF Init, Idle, Last
<1>2. Alone /\ Armed /\ PressChecked
  BY <1>1, OpsDiffer DEF Alone, Armed, PressChecked, Busy, Locked
<1> QED
  BY <1>2, BetsInits DEF ApartInv

LEMMA ApartStep == Overlap = FALSE /\ ApartInv /\ [Next]_vars => ApartInv'
BY BetsStep, ApartKept, PressesKept DEF ApartInv, BetsInv

LEMMA CampedSlipStays ==
  ASSUME Overlap = FALSE, ApartInv, [Next]_vars,
         camp.hold = TRUE, camp'.hold = TRUE, slip = camp.sel, ctl.peek = FALSE
  PROVE  slip' = slip \/ (camp.skips = CampMaxSkips /\ camp'.skips = 0)
<1>1. /\ ctl \in Ctls /\ camp \in CampRec
      /\ ~Busy("arm") /\ ~Busy("place") /\ ~Busy("quote")
      /\ camp.on = TRUE /\ camp.cleanup = FALSE /\ ctl.inplay = TRUE
  BY TypeParts DEF ApartInv, BetsInv, Held, Phases, Camped, Alone, Locked
<1>2. op["arm"].pc = "idle" /\ op["place"].pc = "idle" /\ op["quote"].pc = "idle"
  BY <1>1 DEF Busy
<1>3. CASE Reload
  BY <1>1, <1>3, Bounds DEF Reload, CampRec
<1>4. Released(camp).hold = FALSE
  BY <1>1 DEF Released, CampRec
<1>5. CASE HostStops \/ IdleCamped \/ FireLooks
  BY <1>1, <1>4, <1>5 DEF HostStops, IdleCamped, FireLooks, CampStop
<1>6. CASE Sweep \/ Cleanup \/ StartInplay \/ PeekSlip
  BY <1>1, <1>6 DEF Sweep, Cleanup, StartInplay, PeekSlip
<1>7. CASE PlaceSelects \/ QuoteSelects \/ ArmSelects \/ PlaceGivesUp \/ PlaceAnswered \/ PlaceSilence
         \/ QuoteEnds \/ ArmClears \/ ArmDone \/ ArmFails
  BY <1>1, <1>2, <1>7 DEF PlaceSelects, QuoteSelects, ArmSelects, Selected, PlaceGivesUp, PlaceAnswered,
    PlaceSilence, QuoteEnds, ArmClears, ArmDone, ArmFails
<1>8. CASE \/ StopInplay \/ ManualMode \/ OnBanking \/ IdleRound \/ PlacePress \/ VenueAnswers \/ VenueDecides
           \/ \E s \in Sels : PlaceBet(s) \/ VerifyBetUi(s) \/ SlipQuote(s) \/ (s \in Camps /\ CampStart(s))
           \/ CampFire \/ FirePress \/ FireAsked \/ FireAnswered \/ FireSilence \/ UNCHANGED vars
  BY <1>8, Zenon DEF StopInplay, ManualMode, OnBanking, Mode, IdleRound, PlacePress, VenueAnswers, VenueDecides,
    PlaceBet, VerifyBetUi, Drive, SlipQuote, CampStart, CampFire, FirePress, FireAsked, FireAnswered,
    FireSilence, EndFire, vars
<1> QED
  BY <1>3, <1>5, <1>6, <1>7, <1>8, Zenon DEF Next

\* When the host neither quotes while it bets, arms or fires nor bets while it arms,
\* every press is made at a checked price on the selection asked for, or on a slip
\* the idle loop opened over it (PressChecked).
THEOREM PressesChecked == ASSUME Overlap = FALSE PROVE Spec => []PressChecked
<1>1. ApartInv => PressChecked
  BY DEF ApartInv
<1>2. ApartInv /\ [Next]_vars => ApartInv'
  BY ApartStep
<1> QED
  BY <1>1, <1>2, ApartInits, PTL DEF Spec

\* Under the same hypothesis, a held slip is taken away by nothing but a reload that
\* was put off often enough and the idle loop (ArmedSlipKept).
THEOREM ArmedSlipsKept == ASSUME Overlap = FALSE PROVE Spec => ArmedSlipKept
<1>1. ApartInv /\ [Next]_vars => ApartInv'
  BY ApartStep
<1>2. ApartInv /\ [Next]_vars => [(camp.hold /\ camp'.hold /\ slip = camp.sel /\ ~ctl.peek) =>
        (slip' = slip \/ (camp.skips = CampMaxSkips /\ camp'.skips = 0))]_vars
  <2> SUFFICES ASSUME ApartInv, [Next]_vars, camp.hold, camp'.hold, slip = camp.sel, ~ctl.peek
               PROVE  slip' = slip \/ (camp.skips = CampMaxSkips /\ camp'.skips = 0)
    BY Zenon
  <2>1. ctl.peek = FALSE /\ camp.hold = TRUE
    BY TypeParts DEF ApartInv, BetsInv, Ctls, CampRec
  <2>2. camp'.hold = TRUE
    <3>1. camp' \in CampRec
      BY CampMoves, CampKept, TypeParts DEF ApartInv, BetsInv
    <3> QED
      BY <3>1 DEF CampRec
  <2> QED
    BY <2>1, <2>2, CampedSlipStays
<1> QED
  BY <1>1, <1>2, ApartInits, PTL DEF Spec, ArmedSlipKept
=============================================================================
