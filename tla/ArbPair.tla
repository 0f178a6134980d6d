---------------------------------- MODULE ArbPair ----------------------------------
(***************************************************************************)
(* What the executor promises of a pair, whatever its tasks do: one task   *)
(* at a time owns it; only an entry that owns it opens a position, only an *)
(* exit that took it while open closes one, and the monitor may settle it. *)
(* A restart frees every pair and rediscovers what is open.                *)
(***************************************************************************)
EXTENDS Naturals

CONSTANTS Pairs, Entries, Exits

VARIABLES
    owners,  \* the tasks that own each pair
    open,    \* whether a position is tracked
    starts   \* restarts so far

vars == <<owners, open, starts>>

Init ==
    /\ owners = [p \in Pairs |-> {}]
    /\ open = [p \in Pairs |-> FALSE]
    /\ starts = 0

Acquire(p, task) ==
    /\ owners[p] = {}
    /\ task \in Exits => open[p]
    /\ owners' = [owners EXCEPT ![p] = {task}]
    /\ UNCHANGED <<open, starts>>

Open(p, task) ==
    /\ owners[p] = {task} /\ task \in Entries
    /\ open' = [open EXCEPT ![p] = TRUE]
    /\ UNCHANGED <<owners, starts>>

\* The exit may keep the pair, to flatten a leg that did not sell.
Close(p, task) ==
    /\ owners[p] = {task} /\ task \in Exits
    /\ open' = [open EXCEPT ![p] = FALSE]
    /\ owners' \in {owners, [owners EXCEPT ![p] = {}]}
    /\ UNCHANGED starts

Free(p) ==
    /\ owners' = [owners EXCEPT ![p] = {}]
    /\ UNCHANGED <<open, starts>>

Settle(p) ==
    /\ open' = [open EXCEPT ![p] = FALSE]
    /\ UNCHANGED <<owners, starts>>

Start ==
    /\ starts' = starts + 1
    /\ owners' = [p \in Pairs |-> {}]
    /\ open' \in [Pairs -> BOOLEAN]

Next ==
    \/ \E p \in Pairs, task \in Entries \cup Exits :
          Acquire(p, task) \/ Open(p, task) \/ Close(p, task)
    \/ \E p \in Pairs : Free(p) \/ Settle(p)
    \/ Start

Spec == Init /\ [][Next]_vars
=============================================================================
