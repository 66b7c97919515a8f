----------------------------- MODULE GoalStore ------------------------------
(***************************************************************************)
(* What PersistentGoalEngine promises of the goals of one agent            *)
(* (agents/persistent_goal.py): a goal that is created is kept until the   *)
(* end, and its status is what the last operation that names it has set.   *)
(* One clause is owed to crashes: a goal whose creation was cut short may  *)
(* be kept as active and out of reach of every operation.                  *)
(***************************************************************************)
CONSTANT Ids

VARIABLES
    status,    \* "none" before the creation
    stuck      \* goals that no operation reaches

Statuses == {"active", "paused", "completed", "abandoned"}

Init == status = [g \in Ids |-> "none"] /\ stuck = {}

Create(g) ==
    /\ status[g] = "none"
    /\ status' = [status EXCEPT ![g] = "active"]
    /\ UNCHANGED stuck

Change(g) ==
    /\ status[g] \in Statuses /\ g \notin stuck
    /\ \E s \in Statuses : status' = [status EXCEPT ![g] = s]
    /\ UNCHANGED stuck

CutShort(g) ==
    /\ status[g] = "active" /\ g \notin stuck
    /\ stuck' = stuck \cup {g}
    /\ UNCHANGED status

Next == \E g \in Ids : Create(g) \/ Change(g) \/ CutShort(g)

Spec == Init /\ [][Next]_<<status, stuck>>
=============================================================================
