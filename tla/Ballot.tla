------------------------------- MODULE Ballot -------------------------------
(***************************************************************************)
(* What a vote among agents promises, whoever counts it: one decision, made *)
(* once, and made in favour only by a quorum of different voters.           *)
(*                                                                         *)
(* The components of this system that let agents vote each keep their own  *)
(* record and count in their own way; this is the specification they are   *)
(* measured against.                                                       *)
(***************************************************************************)
EXTENDS Naturals, FiniteSets

CONSTANT Voters

VARIABLES
    outcome,   \* "none" until the ballot is called, "open" until it is decided
    quorum,    \* votes in favour that decide it
    ayes,      \* who voted in favour
    nays       \* who voted against

vars == <<outcome, quorum, ayes, nays>>

Decided == {"yes", "no"}

Init == /\ outcome = "none"
        /\ quorum = 0
        /\ ayes = {}
        /\ nays = {}

Call == /\ outcome = "none"
        /\ outcome' = "open"
        /\ quorum' \in Nat \ {0}
        /\ UNCHANGED <<ayes, nays>>

\* A voter who has not voted votes; the ballot is decided in favour by the
\* vote that completes the quorum, and by no other.
Cast(v) ==
    /\ outcome = "open"
    /\ v \notin ayes \cup nays
    /\ \/ ayes' = ayes \cup {v} /\ nays' = nays
       \/ nays' = nays \cup {v} /\ ayes' = ayes
    /\ IF Cardinality(ayes') >= quorum THEN outcome' = "yes"
                                       ELSE outcome' \in {"open", "no"}
    /\ quorum' = quorum

\* The ballot ends without the quorum: too late, or called off.
Close == /\ outcome = "open"
         /\ outcome' = "no"
         /\ UNCHANGED <<quorum, ayes, nays>>

Next == \/ Call
        \/ \E v \in Voters : Cast(v)
        \/ Close

Spec == Init /\ [][Next]_vars
=============================================================================
