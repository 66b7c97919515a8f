------------------------------ MODULE MCPursuit ------------------------------
\* One goal and one that may come later, a capability of each kind, a cycle and
\* one that may be left behind; a request completes the metrics or clears them.
EXTENDS Pursuit
GoalsMC == 1..2
OneGoal == {1}
PatchesMC == {Blank, [Blank EXCEPT !.progress = Full]}
=============================================================================
