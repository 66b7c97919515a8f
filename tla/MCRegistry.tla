----------------------------- MODULE MCRegistry -----------------------------
(* A small instance of Registry for TLC. *)
EXTENDS Registry

CONSTANTS r, c, x, w
=============================================================================
