----------------------------- MODULE MCEvolution -----------------------------
\* One proposal for the tool that a worker also writes and retires, and two
\* approvers, both of whom it needs.
EXTENDS Evolution
ToolOfMC == [p \in Proposals |-> CHOOSE t \in Tools : TRUE]
=============================================================================
