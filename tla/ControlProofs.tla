---------------------------- MODULE ControlProofs ----------------------------
(* What the control half of the browser's schedule preserves, for any plans, bounds and *)
(* balance actions: a stop is lifted by the operator alone, through banking windows,    *)
(* the guard's readings and restarts.                                                   *)
EXTENDS Days, TLAPS

\* What an override in memory, in the file and under a banking window must be: while a
\* stop stands (halts is true), each of the three still holds it.
Control ==
  [over : Overrides, saved : Overrides, pre : Modes, frozen : BOOLEAN]
Stops == {"paused", "halted"}
Frozen(c) == c.over.mode = "banking" /\ c.over.until # Never => c.frozen = TRUE
Holds(c) ==
  /\ c.over.mode \in Stops \cup {"banking"} /\ c.saved.mode \in Stops
  /\ c.over.mode = "banking" => c.pre \in Stops
Sound(c) == c \in Control /\ Frozen(c)
ControlInv == TypeOK /\ Sound(ctl) /\ (stopped = TRUE /\ action = "halt" => Holds(ctl))

LEMMA Constants ==
  /\ Minutes \in Nat /\ LastTime \in Nat /\ MaxCommands \in Nat
  /\ \A p \in Plans : \A w \in p : w.c \in Nat
BY LifecycleAssumption

LEMMA OverrideIs ==
  /\ Free \in Overrides
  /\ \A m \in Modes : [mode |-> m, until |-> Never] \in Overrides
  /\ \A m \in {"forced", "banking", "blockdone"}, u \in Nat : [mode |-> m, until |-> u] \in Overrides
BY DEF Free, Overrides, Modes

LEMMA SetIs ==
  ASSUME NEW c \in Control, NEW o \in Overrides
  PROVE  /\ SetOverride(c, o) \in Control
         /\ SetOverride(c, o).over = o /\ SetOverride(c, o).saved = o
         /\ SetOverride(c, o).frozen = c.frozen /\ SetOverride(c, o).pre = c.pre
BY DEF SetOverride, Control

\* An override that expires gives way to the schedule, a banking window to the stop it
\* interrupted.
LEMMA ExpiredKeeps ==
  ASSUME NEW c, Sound(c)
  PROVE  Sound(Expired(c)) /\ (Holds(c) => Holds(Expired(c)))
<1>1. c \in Control /\ Frozen(c) /\ c.over \in Overrides /\ c.pre \in Modes
  BY DEF Sound, Control
<1>2. CASE ~Due(c.over)
  BY <1>2 DEF Expired
<1>3. CASE Due(c.over) /\ c.over.mode \in {"forced", "blockdone"}
  <2>1. Expired(c) = SetOverride(c, Free)
    BY <1>3 DEF Expired
  <2>2. ~Holds(c)
    BY <1>3 DEF Holds, Stops
  <2> QED
    BY <1>1, <2>1, <2>2, SetIs, OverrideIs DEF Sound, Frozen, Free
<1>4. CASE Due(c.over) /\ c.over.mode = "banking"
  <2> DEFINE o == [mode |-> c.pre, until |-> Never]
             d == SetOverride(c, o)
             e == [d EXCEPT !.frozen = FALSE, !.pre = "none"]
  <2>1. Expired(c) = e
    BY <1>4 DEF Expired
  <2>2. o \in Overrides /\ o.mode = c.pre /\ o.until = Never
    BY <1>1, OverrideIs
  <2> HIDE DEF o
  <2>3. d \in Control /\ d.over = o /\ d.saved = o
    BY <1>1, <2>2, SetIs
  <2> HIDE DEF d
  <2>4. e \in Control /\ e.over = o /\ e.saved = o
    BY <2>3 DEF Control, Modes
  <2> HIDE DEF e
  <2>5. Holds(c) => c.pre \in Stops
    BY <1>4 DEF Holds
  <2> QED
    BY <2>1, <2>2, <2>4, <2>5 DEF Sound, Frozen, Holds, Stops
<1>5. CASE Due(c.over) /\ c.over.mode \notin {"forced", "blockdone", "banking"}
  BY <1>1, <1>5 DEF Expired
<1> QED
  BY <1>2, <1>3, <1>4, <1>5

\* A tick changes the control state by what expires, and moves its task.
LEMMA TickKeeps ==
  ASSUME TypeOK, NEW t \in Tasks, NEW c, Sound(c), Tick(t, c)
  PROVE  /\ Sound(ctl') /\ (Holds(c) => Holds(ctl'))
         /\ task' \in [Tasks -> {"idle", "start", "stop", "read"}]
BY ExpiredKeeps DEF TypeOK, Tick

\* A step that ticks leaves a sound state, when what it ticks from is sound and the stop it
\* is told of is held.
LEMMA TicksKeep ==
  ASSUME ControlInv, NEW t \in Tasks, NEW c, Sound(c), Tick(t, c),
         windows' \in Plans, open' \in BOOLEAN, up' \in BOOLEAN, ready' \in BOOLEAN,
         stopped' \in BOOLEAN, left' \in 0 .. MaxCommands, book' \in Money,
         UNCHANGED <<now, funds, kalshi, action>>,
         stopped' = TRUE /\ action = "halt" => Holds(c)
  PROVE  ControlInv'
<1>1. /\ Sound(ctl') /\ (Holds(c) => Holds(ctl'))
      /\ task' \in [Tasks -> {"idle", "start", "stop", "read"}]
  BY TickKeeps DEF ControlInv
<1>2. TypeOK'
  BY <1>1 DEF ControlInv, TypeOK, Sound, Control
<1> QED
  BY <1>1, <1>2 DEF ControlInv

LEMMA TypeParts ==
  ASSUME ControlInv
  PROVE  /\ now \in 0 .. LastTime /\ windows \in Plans /\ open \in BOOLEAN /\ up \in BOOLEAN
         /\ ready \in BOOLEAN /\ stopped \in BOOLEAN /\ left \in 0 .. MaxCommands
         /\ book \in Money /\ Sound(ctl) /\ ctl \in Control /\ ctl.over \in Overrides
         /\ ctl.saved \in Overrides /\ ctl.over.mode \in Modes
         /\ (stopped = TRUE /\ action = "halt" => Holds(ctl))
BY DEF ControlInv, TypeOK, Sound, Control, Overrides

LEMMA SetKeeps ==
  ASSUME ControlInv, NEW o \in Overrides, o.mode # "banking"
  PROVE  Sound(SetOverride(ctl, o)) /\ (o.mode \in Stops => Holds(SetOverride(ctl, o)))
BY TypeParts, SetIs DEF Sound, Frozen, Holds

\* The operator's commands.
LEMMA OperatorKeeps ==
  ASSUME ControlInv, Pause \/ Resume \/ ForceOpen \/ Banking \/ Replan
  PROVE  ControlInv'
<1>1. \A c : Command(c) => /\ left' \in 0 .. MaxCommands /\ Tick("op", c)
                           /\ UNCHANGED <<now, open, up, ready, funds, book, kalshi, action>>
  <2>1. left > 0 => left - 1 \in 0 .. MaxCommands
    BY TypeParts, Constants
  <2> QED
    BY <2>1 DEF Command, moneyVars
<1>2. "op" \in Tasks
  BY DEF Tasks
<1>3. now + Minutes \in Nat
  BY TypeParts, Constants
<1>4. CASE Pause
  <2> DEFINE o == [mode |-> "paused", until |-> Never]
  <2>1. o \in Overrides /\ o.mode # "banking" /\ o.mode \in Stops
    BY OverrideIs DEF Modes, Stops
  <2>2. Command(SetOverride(ctl, o)) /\ stopped' = TRUE /\ windows' = windows
    BY <1>4 DEF Pause
  <2> HIDE DEF o
  <2> QED
    BY <1>1, <1>2, <2>1, <2>2, SetKeeps, TypeParts, TicksKeep
<1>5. CASE Resume
  <2>1. Free \in Overrides /\ Free.mode # "banking"
    BY OverrideIs DEF Free
  <2>2. Command(SetOverride(ctl, Free)) /\ stopped' = FALSE /\ windows' = windows
    BY <1>5 DEF Resume
  <2> QED
    BY <1>1, <1>2, <2>1, <2>2, SetKeeps, TypeParts, TicksKeep
<1>6. CASE ForceOpen
  <2> DEFINE o == [mode |-> "forced", until |-> now + Minutes]
  <2>1. o \in Overrides /\ o.mode # "banking"
    BY <1>3, OverrideIs
  <2>2. Command(SetOverride(ctl, o)) /\ stopped' = FALSE /\ windows' = windows
    BY <1>6 DEF ForceOpen
  <2> HIDE DEF o
  <2> QED
    BY <1>1, <1>2, <2>1, <2>2, SetKeeps, TypeParts, TicksKeep
<1>7. CASE Banking
  <2> DEFINE o == [mode |-> "banking", until |-> now + Minutes]
             m == ctl.over.mode
             c == [ctl EXCEPT !.pre = m, !.frozen = TRUE, !.over = o]
  <2>1. o \in Overrides /\ o.mode = "banking"
    BY <1>3, OverrideIs
  <2>2. Command(c) /\ Interrupts /\ windows' = windows
    BY <1>7, Zenon DEF Banking
  <2>3. m \in Modes /\ ctl \in Control
    BY TypeParts
  <2> HIDE DEF o
  <2>4. c \in Control /\ c.over = o /\ c.saved = ctl.saved /\ c.pre = m /\ c.frozen = TRUE
    BY <2>1, <2>3 DEF Control
  <2> HIDE DEF c
  <2>5. Sound(c)
    BY <2>1, <2>4 DEF Sound, Frozen
  <2>6. stopped' \in BOOLEAN /\ (stopped' = TRUE => stopped = TRUE /\ m # "banking")
    BY <2>2, TypeParts DEF Interrupts
  <2>7. stopped' = TRUE /\ action = "halt" => Holds(c)
    BY <2>1, <2>4, <2>6, TypeParts DEF Holds
  <2> QED
    BY <1>1, <1>2, <2>2, <2>5, <2>6, <2>7, TypeParts, TicksKeep
<1>8. CASE Replan
  <2>1. windows' \in Plans /\ Command(ctl) /\ stopped' = stopped
    BY <1>8 DEF Replan
  <2> QED
    BY <1>1, <1>2, <2>1, TypeParts, TicksKeep
<1> QED
  BY <1>4, <1>5, <1>6, <1>7, <1>8

\* The guard reads a balance and may halt, or end the block.
LEMMA ReadKeeps ==
  ASSUME ControlInv, Read
  PROVE  ControlInv'
<1>1. UNCHANGED <<now, windows, open, up, ready, funds, kalshi, left, action>> /\ book' \in Money
  BY DEF Read, ControlInv, TypeOK, Money
<1>2. "guard" \in Tasks
  BY DEF Tasks
<1>3. Skip \/ (action = "end_block" /\ EndBlock) \/ (action # "end_block" /\ Halt)
  BY Zenon DEF Read
<1>4. CASE Skip
  BY <1>1, <1>2, <1>4 DEF Skip, ControlInv, TypeOK, Sound
<1>5. CASE Halt /\ ~Skip
  <2> DEFINE o == [mode |-> "halted", until |-> Never]
  <2>1. o \in Overrides /\ o.mode # "banking" /\ o.mode \in Stops
    BY OverrideIs DEF Modes, Stops
  <2>2. Tick("guard", SetOverride(ctl, o)) /\ stopped' = TRUE
    BY <1>5, Zenon DEF Halt
  <2> HIDE DEF o
  <2> QED
    BY <1>1, <1>2, <2>1, <2>2, SetKeeps, TypeParts, TicksKeep
<1>6. CASE action = "end_block" /\ EndBlock /\ ~Skip
  <2> DEFINE u == IF WindowsAt(now) = {} THEN now ELSE (CHOOSE w \in WindowsAt(now) : TRUE).c
             o == [mode |-> "blockdone", until |-> u]
  <2>1. u \in Nat
    <3>1. now \in Nat /\ windows \in Plans
      BY TypeParts, Constants
    <3>2. CASE WindowsAt(now) # {}
      <4>1. (CHOOSE w \in WindowsAt(now) : TRUE) \in WindowsAt(now)
        BY <3>2
      <4>2. WindowsAt(now) \subseteq windows
        BY DEF WindowsAt
      <4> QED
        BY <3>1, <3>2, <4>1, <4>2, Constants
    <3> QED
      BY <3>1, <3>2
  <2>2. Tick("guard", SetOverride(ctl, o)) /\ stopped' = stopped
    BY <1>6, Zenon DEF EndBlock
  <2> HIDE DEF u
  <2>3. o \in Overrides /\ o.mode # "banking"
    BY <2>1, OverrideIs
  <2>4. action # "halt"
    BY <1>6
  <2> HIDE DEF o
  <2> QED
    BY <1>1, <1>2, <2>2, <2>3, <2>4, SetKeeps, TypeParts, TicksKeep
<1> QED
  BY <1>3, <1>4, <1>5, <1>6

\* A restart lands in what the file holds, and the file holds every stop.
LEMMA RestartKeeps ==
  ASSUME ControlInv, Restart
  PROVE  ControlInv'
<1> DEFINE o == RestoreOverride(ctl.saved)
<1>1. /\ ctl' = [over |-> o, saved |-> ctl.saved, pre |-> "none", frozen |-> FALSE]
      /\ left' = left - 1 /\ left > 0 /\ open' = FALSE /\ up' = FALSE /\ ready' = FALSE
      /\ task' = [t \in Tasks |-> "idle"] /\ book' = "unknown" /\ kalshi' = "unknown"
      /\ UNCHANGED <<now, windows, funds, stopped, action>>
  BY DEF Restart
<1>2. o \in Overrides /\ o.mode # "banking" /\ (ctl.saved.mode \in Stops => o = ctl.saved)
  BY TypeParts, OverrideIs DEF RestoreOverride, Stops, Free
<1> HIDE DEF o
<1>3. ctl' \in Control /\ ctl'.over = o /\ ctl'.saved = ctl.saved
  BY <1>1, <1>2, TypeParts DEF Control, Modes
<1>4. Sound(ctl')
  BY <1>2, <1>3 DEF Sound, Frozen
<1>5. Holds(ctl) => Holds(ctl')
  BY <1>2, <1>3 DEF Holds, Stops
<1>6. left' \in 0 .. MaxCommands
  BY <1>1, TypeParts, Constants
<1>7. TypeOK'
  BY <1>1, <1>3, <1>6, TypeParts DEF TypeOK, Control, Money, ControlInv
<1> QED
  BY <1>1, <1>4, <1>5, <1>7 DEF ControlInv

\* What leaves the control state alone.
LEMMA OthersKeep ==
  ASSUME ControlInv,
         \/ Check \/ Login \/ MoneyMoves \/ PushKalshi \/ Clock \/ UNCHANGED vars
         \/ \E t \in Tasks : Started(t) \/ Stopped(t)
  PROVE  ControlInv'
<1>1. UNCHANGED <<windows, ctl, stopped, left, action>>
  BY DEF Check, Login, MoneyMoves, PushKalshi, Clock, vars, Started, Stopped, moneyVars
<1>2. now' \in 0 .. LastTime
  <2>1. now' = now \/ (now < LastTime /\ now' = now + 1)
    BY Zenon DEF Check, Login, MoneyMoves, PushKalshi, Clock, vars, Started, Stopped
  <2> QED
    BY <2>1, TypeParts, Constants
<1>3. open' \in BOOLEAN /\ up' \in BOOLEAN /\ ready' \in BOOLEAN
  BY TypeParts DEF Check, Login, MoneyMoves, PushKalshi, Clock, vars, Started, Stopped, ownVars, moneyVars
<1>4. task' \in [Tasks -> {"idle", "start", "stop", "read"}]
  BY DEF ControlInv, TypeOK, Check, Login, MoneyMoves, PushKalshi, Clock, vars, Started, Stopped, ownVars
<1>5. funds' \in Money /\ book' \in Money /\ kalshi' \in Money
  BY DEF ControlInv, TypeOK, Money, Check, Login, MoneyMoves, PushKalshi, Clock, vars, Started, Stopped,
         moneyVars
<1> QED
  BY <1>1, <1>2, <1>3, <1>4, <1>5 DEF ControlInv, TypeOK, Sound

LEMMA ControlInit == Init => ControlInv
<1> SUFFICES ASSUME Init PROVE ControlInv
  OBVIOUS
<1>1. ctl \in Control /\ ctl.over = Free
  BY OverrideIs DEF Init, Control, Modes
<1>2. TypeOK
  <2>1. 0 \in 0 .. LastTime /\ MaxCommands \in 0 .. MaxCommands
    BY Constants
  <2>2. task \in [Tasks -> {"idle", "start", "stop", "read"}]
    BY DEF Init
  <2> QED
    BY <1>1, <2>1, <2>2 DEF Init, TypeOK, Control, Money
<1>3. Sound(ctl) /\ stopped = FALSE
  BY <1>1 DEF Init, Sound, Frozen, Free
<1> QED
  BY <1>2, <1>3 DEF ControlInv

LEMMA ControlNext == ControlInv /\ [Next]_vars => ControlInv'
<1> SUFFICES ASSUME ControlInv, [Next]_vars PROVE ControlInv'
  OBVIOUS
<1>1. CASE Loop
  <2>1. Tick("loop", ctl) /\ UNCHANGED <<now, windows, open, up, ready, funds, book, kalshi, action,
                                         stopped, left>>
    BY <1>1 DEF Loop, moneyVars
  <2>2. "loop" \in Tasks
    BY DEF Tasks
  <2> QED
    BY <2>1, <2>2, TypeParts, TicksKeep
<1> QED
  BY <1>1, OperatorKeeps, ReadKeeps, RestartKeeps, OthersKeep, Zenon DEF Next

\* Commands, expiries, guard readings and restarts lose no stop, thaw no banking window and
\* give no pause an end (lifecycle.py), in the whole of which the control is a part.
THEOREM ControlHeld == DaysSpec => []ControlSound
<1>1. DaysInit => ControlInv
  BY ControlInit DEF DaysInit, ControlRests
<1>2. ControlInv /\ [DaysNext]_daysVars => ControlInv'
  BY ControlNext, Zenon DEF DaysNext, daysVars
<1>3. ControlInv => ControlSound
  BY DEF ControlInv, ControlSound, StopKept, BankingFrozen, Sound, Frozen, Holds, Stops, TypeOK
<1> QED
  BY <1>1, <1>2, <1>3, PTL DEF DaysSpec
==============================================================================
