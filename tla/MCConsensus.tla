---------------------------- MODULE MCConsensus ----------------------------
(* Small instances of Consensus for TLC. *)
EXTENDS Consensus

CONSTANTS a, b, c

\* Participant lists; the last one names an agent twice.
SomeLists == {<<a, b, c>>, <<a>>, <<b, c, c>>}
=============================================================================
