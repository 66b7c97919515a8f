------------------------------ MODULE MCDaemon ------------------------------
\* Two agents, of whom one can be set aside while the other one works; a
\* release of one, like the code's two of three, does not reach them both.
EXTENDS Daemon
AgentsMC == 1..2
=============================================================================
