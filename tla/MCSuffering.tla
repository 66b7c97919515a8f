---------------------------- MODULE MCSuffering ----------------------------
\* Four types, of which three may be active; the unit of severity is a third.
EXTENDS Suffering
RateMC     == [t \in {"stagnation", "threat", "failure"} |-> 1]
ObservedMC == <<"failure", "expiry">>
=============================================================================
