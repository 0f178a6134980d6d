----------------------------- MODULE Lifecycle -----------------------------
(***************************************************************************)
(* The control half of PinnacleLifecycle (lifecycle.py): the operator's    *)
(* overrides, the banking window, the balance guard, the persisted control *)
(* state and restarts.  The run loop, an HTTP command and the guard each   *)
(* run tick(), which suspends while the browser starts or stops, so that   *)
(* the ticks of the three tasks interleave.  The plan is one of Plans.     *)
(***************************************************************************)
EXTENDS Integers, FiniteSets

CONSTANTS Plans,      \* sets of windows [o, c]
          Minutes,    \* length of a forced or a banking window
          LastTime,   \* bound on the clock
          MaxCommands, \* bound on the operator's commands and on restarts
          Actions     \* values of HARDVEN_BALANCE_ACTION: "halt", "end_block"

ASSUME LifecycleAssumption ==
  /\ Minutes \in Nat /\ LastTime \in Nat /\ MaxCommands \in Nat
  /\ \A p \in Plans : \A w \in p : w.o \in Nat /\ w.c \in Nat

Tasks == {"loop", "op", "guard"}
Modes == {"none", "paused", "halted", "forced", "banking", "blockdone"}
Dark == {"paused", "halted", "blockdone"}
Money == {"unknown", "low", "ok"}
Never == -1

VARIABLES now, windows,
          ctl,        \* [over, saved : [mode, until], pre : mode, frozen]
          open,       \* the lifecycle's idea of the browser
          up,         \* a browser is running
          task,       \* where each task is: idle, start, stop, read
          ready,      \* the adapter's session_ready
          funds,      \* what the wallet holds
          book, kalshi, \* what the guard knows of the two balances
          stopped,    \* history: a pause or a halt the operator has not lifted
          left,       \* commands and restarts left
          action      \* the guard's action in this deployment

vars == <<now, windows, ctl, open, up, task, ready, funds, book, kalshi, stopped, left, action>>
ownVars == <<open, up, task>>
moneyVars == <<ready, funds, book, kalshi, action>>

Free == [mode |-> "none", until |-> Never]
WindowsAt(t) == {w \in windows : w.o <= t /\ t < w.c}

\* The override in memory, and in control_state.json when it is persisted.
SetOverride(c, o) == [c EXCEPT !.over = o, !.saved = o]
Due(o) == o.until # Never /\ now >= o.until

\* The first part of a tick: a forced window and a finished block expire into
\* the schedule, a banking window into what it interrupted.
Expired(c) ==
  IF ~Due(c.over) THEN c
  ELSE CASE c.over.mode \in {"forced", "blockdone"} -> SetOverride(c, Free)
         [] c.over.mode = "banking" ->
              [SetOverride(c, [mode |-> c.pre, until |-> Never])
                 EXCEPT !.frozen = FALSE, !.pre = "none"]
         [] OTHER -> c

MutInside(c) == c.over.mode \in {"banking", "forced"} \/ WindowsAt(now) # {}
Inside(c) == \/ c.over.mode \in {"banking", "forced"}
             \/ c.over.mode \notin Dark /\ WindowsAt(now) # {}

\* A tick of task t up to its await, from the control state c.
Tick(t, c) ==
  /\ ctl' = Expired(c)
  /\ task' = [task EXCEPT ![t] = IF Inside(Expired(c)) /\ ~open THEN "start"
                                 ELSE IF ~Inside(Expired(c)) /\ open THEN "stop"
                                 ELSE "idle"]

\* The awaited browser start returns, or raises and the tick is lost.
Started(t) ==
  /\ task[t] = "start"
  /\ task' = [task EXCEPT ![t] = "idle"]
  /\ \E works \in BOOLEAN : open' = (open \/ works) /\ up' = (up \/ works)
  /\ UNCHANGED <<now, windows, ctl, moneyVars, stopped, left>>

\* The awaited stop returns: the feed is stood down.
Stopped(t) ==
  /\ task[t] = "stop"
  /\ task' = [task EXCEPT ![t] = "idle"]
  /\ open' = FALSE /\ up' = FALSE /\ ready' = FALSE
  /\ UNCHANGED <<now, windows, ctl, funds, book, kalshi, stopped, left, action>>

Loop == /\ task["loop"] = "idle"
        /\ Tick("loop", ctl)
        /\ UNCHANGED <<now, windows, open, up, moneyVars, stopped, left>>

-----------------------------------------------------------------------------
\* The operator's commands: an override, then a tick.
Command(c) == /\ task["op"] = "idle" /\ left > 0 /\ left' = left - 1
              /\ Tick("op", c)
              /\ UNCHANGED <<now, open, up, moneyVars>>

Pause == /\ Command(SetOverride(ctl, [mode |-> "paused", until |-> Never]))
         /\ stopped' = TRUE /\ UNCHANGED windows
Resume == /\ Command(SetOverride(ctl, Free))
          /\ stopped' = FALSE /\ UNCHANGED windows
ForceOpen == /\ now + Minutes <= LastTime
             /\ Command(SetOverride(ctl, [mode |-> "forced", until |-> now + Minutes]))
             /\ stopped' = FALSE /\ UNCHANGED windows
\* Banking during banking takes the first window for what it interrupts: the stop is lost.
Interrupts == stopped' = (stopped /\ ctl.over.mode # "banking")
\* Not persisted: a restart lands in what banking interrupted.
Banking ==
  /\ now + Minutes <= LastTime
  /\ Command([ctl EXCEPT !.pre = ctl.over.mode, !.frozen = TRUE,
                         !.over = [mode |-> "banking", until |-> now + Minutes]])
  /\ Interrupts /\ UNCHANGED windows
\* set_pins and apply_config: another plan, at once.
Replan == \E p \in Plans : windows' = p /\ Command(ctl) /\ UNCHANGED stopped

-----------------------------------------------------------------------------
\* check_now: a session that is not logged in has an unknown balance.
Check ==
  /\ task["guard"] = "idle"
  /\ IF ready THEN task' = [task EXCEPT !["guard"] = "read"] /\ UNCHANGED book
              ELSE book' = "unknown" /\ UNCHANGED task
  /\ UNCHANGED <<now, windows, ctl, open, up, ready, funds, kalshi, stopped, left, action>>

Breached == book' = "low" \/ kalshi = "low"

Skip == UNCHANGED <<ctl, stopped>> /\ task' = [task EXCEPT !["guard"] = "idle"]
Halt == IF ctl.over.mode = "halted" THEN Skip
        ELSE /\ Tick("guard", SetOverride(ctl, [mode |-> "halted", until |-> Never]))
             /\ stopped' = TRUE
\* Dark until the current window closes, at once over outside a window.
EndBlock ==
  IF ctl.over.mode \in {"blockdone", "halted"}
  THEN Skip
  ELSE /\ Tick("guard", SetOverride(ctl, [mode |-> "blockdone",
            until |-> IF WindowsAt(now) = {} THEN now
                      ELSE (CHOOSE w \in WindowsAt(now) : TRUE).c]))
       /\ UNCHANGED stopped

\* The balance read returns: a figure or, when it cannot be read, nothing.
Read ==
  /\ task["guard"] = "read"
  /\ \E bal \in {funds, "unknown"} : book' = bal
  /\ IF ~Breached THEN Skip
     ELSE IF action = "end_block" THEN EndBlock ELSE Halt
  /\ UNCHANGED <<now, windows, open, up, ready, funds, kalshi, left, action>>

-----------------------------------------------------------------------------
\* The process dies and starts again: what control_state.json holds is
\* applied, except a forced window that has passed and a banking window.
RestoreOverride(o) ==
  IF o.mode = "banking" \/ (o.mode = "forced" /\ (o.until = Never \/ o.until <= now))
  THEN Free ELSE o
MutRestart ==
  /\ left > 0 /\ left' = left - 1
  /\ ctl' = [over |-> Free, saved |-> Free, pre |-> "none", frozen |-> FALSE]
  /\ open' = FALSE /\ up' = FALSE /\ ready' = FALSE /\ task' = [t \in Tasks |-> "idle"]
  /\ book' = "unknown" /\ kalshi' = "unknown"
  /\ UNCHANGED <<now, windows, funds, stopped, action>>
Restart ==
  /\ left > 0 /\ left' = left - 1
  /\ ctl' = [over |-> RestoreOverride(ctl.saved), saved |-> ctl.saved,
             pre |-> "none", frozen |-> FALSE]
  /\ open' = FALSE /\ up' = FALSE /\ ready' = FALSE /\ task' = [t \in Tasks |-> "idle"]
  /\ book' = "unknown" /\ kalshi' = "unknown"
  /\ UNCHANGED <<now, windows, funds, stopped, action>>

\* The environment: login, money, the bot's report of its Kalshi cash and its
\* ageing (enough of it is the same as unknown), and the clock.
Login == /\ up /\ ~ready /\ ready' = TRUE
         /\ UNCHANGED <<now, windows, ctl, ownVars, funds, book, kalshi, stopped, left, action>>
MoneyMoves == /\ funds' \in {"low", "ok"} \ {funds}
              /\ UNCHANGED <<now, windows, ctl, ownVars, ready, book, kalshi, stopped, left, action>>
PushKalshi == /\ kalshi' \in {"unknown", "low"} \ {kalshi}
              /\ UNCHANGED <<now, windows, ctl, ownVars, ready, funds, book, stopped, left, action>>
Clock == /\ now < LastTime /\ now' = now + 1
         /\ UNCHANGED <<windows, ctl, ownVars, moneyVars, stopped, left>>

Init ==
  /\ now = 0 /\ windows \in Plans
  /\ ctl = [over |-> Free, saved |-> Free, pre |-> "none", frozen |-> FALSE]
  /\ open = FALSE /\ up = FALSE /\ task = [t \in Tasks |-> "idle"]
  /\ ready = FALSE /\ funds = "ok" /\ book = "unknown" /\ kalshi = "unknown"
  /\ stopped = FALSE /\ left = MaxCommands /\ action \in Actions

Next ==
  \/ Loop \/ Check \/ Read \/ Restart
  \/ Pause \/ Resume \/ ForceOpen \/ Banking \/ Replan
  \/ \E t \in Tasks : Started(t) \/ Stopped(t)
  \/ Login \/ MoneyMoves \/ PushKalshi \/ Clock

Spec == Init /\ [][Next]_vars
-----------------------------------------------------------------------------
\* A pause and a halt have no end.
Overrides == {o \in [mode : Modes, until : {Never} \cup Nat] :
                o.mode \in {"none", "paused", "halted"} => o.until = Never}
TypeOK ==
  /\ now \in 0 .. LastTime /\ windows \in Plans
  /\ ctl \in [over : Overrides, saved : Overrides, pre : Modes, frozen : BOOLEAN]
  /\ open \in BOOLEAN /\ up \in BOOLEAN /\ ready \in BOOLEAN /\ stopped \in BOOLEAN
  /\ task \in [Tasks -> {"idle", "start", "stop", "read"}]
  /\ funds \in Money /\ book \in Money /\ kalshi \in Money /\ left \in 0 .. MaxCommands
  /\ action \in Actions

\* _set_override and banking: a pause or a halt is lifted by the operator only,
\* whatever window the operator or the guard opens over it, and the file that a
\* restart reads still holds it, where a breach of a floor halts.
StopKept ==
  stopped /\ action = "halt" =>
             /\ ctl.over.mode \in {"paused", "halted", "banking"}
             /\ ctl.saved.mode \in {"paused", "halted"}

\* banking: nothing automatic touches the page while the window lasts.
BankingFrozen == ctl.over.mode = "banking" /\ ctl.over.until # Never => ctl.frozen

\* tick: an override that carries an end does not outlive it.
OverridesEnd == []<>~Due(ctl.over)

\* A pause, a halt or a finished block takes the browser down, although a tick
\* of another task may be starting it at that moment.
DarkComes == []<>(~up \/ ctl.over.mode \notin Dark)

\* No sequence of commands, expiries, guard readings and restarts loses a stop, thaws a
\* banking window or gives a pause an end.
ControlSound == TypeOK /\ StopKept /\ BankingFrozen
\* Overrides end, and a stop takes the browser down, whatever the tasks were at.
ControlEnds == OverridesEnd /\ DarkComes
=============================================================================
