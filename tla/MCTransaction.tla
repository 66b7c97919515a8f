--------------------------- MODULE MCTransaction ---------------------------
(* Small instances of Transaction for TLC. *)
EXTENDS Transaction, TLC

CONSTANTS t1, t2, a1, a2, c1, c2

\* Whose transactions a run has: one of each agent, or a single one.
OneEach == (t1 :> a1) @@ (t2 :> a2)
Alone   == (t1 :> a1)

\* How many operations each may stage.
TwoOps    == [t \in Txns |-> 2]
TwoAndOne == [t \in Txns |-> IF t = t1 THEN 2 ELSE 1]

\* The threads are alike.
Threads == Permutations({c1, c2})
=============================================================================
