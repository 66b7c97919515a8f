------------------------------- MODULE MCWork -------------------------------
\* Two tasks, the second after the first, one other goal, which reads like the
\* first task, a daemon and a request thread.
EXTENDS Work
CONSTANTS d, s
TasksMC     == 1..2
DependsOnMC == [t \in TasksMC |-> {u \in TasksMC : u < t}]
ResemblesMC == [t \in TasksMC |-> IF t = 1 THEN {1, 11} ELSE {2}]
=============================================================================
