--------------------------------- MODULE Days ----------------------------------
(* When Pinnacle's browser is up: the plan of the day (DayPlan), and what operator,  *)
(* guard and restarts make of a plan (Lifecycle).  The two share no state here (the  *)
(* plans of Lifecycle are given); a behaviour is one of one part, the other at rest. *)
EXTENDS DayPlan, Lifecycle

CONSTANTS Configs, Slates   \* the settings and the games DayPlan is checked for

VARIABLE part
daysVars == <<part, planVars, vars>>

PlanRests == k = (CHOOSE c \in Configs : TRUE) /\ slate = <<>> /\ PlanInit
ControlRests == Init /\ windows = (CHOOSE p \in Plans : TRUE) /\ action = (CHOOSE a \in Actions : TRUE)

DaysInit ==
  /\ part \in {"plan", "control"}
  /\ IF part = "plan" THEN PlanInit /\ k \in Configs /\ slate \in Slates ELSE PlanRests
  /\ IF part = "control" THEN Init ELSE ControlRests
DaysNext ==
  /\ part' = part
  /\ \/ part = "plan" /\ PlanNext /\ UNCHANGED vars
     \/ part = "control" /\ Next /\ UNCHANGED planVars
\* The loop would change something: an override is due, or the browser is not as it should be.
LoopCan == task["loop"] = "idle" /\ (Due(ctl.over) \/ Inside(Expired(ctl)) # open)
\* The clock runs, the loop wakes at least every poll cap, awaits return.
DaysFairness ==
  /\ WF_now(part = "control" /\ now < LastTime /\ now' = now + 1)
  /\ WF_vars(part = "control" /\ LoopCan /\ Loop)
  /\ \A t \in Tasks : WF_task(task[t] \in {"start", "stop"} /\ task' = [task EXCEPT ![t] = "idle"])
DaysSpec == DaysInit /\ [][DaysNext]_daysVars /\ DaysFairness
================================================================================
