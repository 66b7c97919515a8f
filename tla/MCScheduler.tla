---------------------------- MODULE MCScheduler ----------------------------
(* Small instances of Scheduler for TLC. *)
EXTENDS Scheduler, TLC

CONSTANTS u, n, b

\* An urgent task, a normal one and a background one.
OneOfEach == (u :> 0) @@ (n :> 1) @@ (b :> 2)
=============================================================================
