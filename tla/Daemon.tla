------------------------------- MODULE Daemon -------------------------------
(***************************************************************************)
(* The main loop of the daemon (agents/daemon.py) with its stall metrics,  *)
(* the workers that each pursue one goal of one agent, and the existence   *)
(* loop that gives an idle agent a goal.                                   *)
(*                                                                         *)
(* One turn of the loop is: read the host message, look at every agent,    *)
(* set the stalled ones aside, run the others in a pool, collect their     *)
(* outcomes in the order they end, release agents that cooled off.  The    *)
(* pool is left behind after a timeout: its workers go on as strays.       *)
(*                                                                         *)
(* Of the goals of an agent the loop tells apart how many are active, the  *)
(* first of them, and where among them the goal is that _goal_tracking     *)
(* names.  What a pursuit does, and where goals and tasks are kept, are    *)
(* the subjects of modules Pursuit and Work.                               *)
(***************************************************************************)
EXTENDS Naturals, FiniteSets

CONSTANTS
    Agents,        \* _CORE_AGENTS, numbered in the order of their names
    MaxGoals,      \* 2: what _cap_agent_goals leaves
    StallLimit,    \* 5 cycles without progress
    GoalCycles,    \* 8 cycles on one goal
    ReleaseEvery,  \* 10 cycles
    ReleaseCount,  \* 2 agents
    MaxEvents      \* bound: host messages, suspensions, unanswered requests,
                   \* timeouts and restarts, all together

ASSUME LimitsAssumption ==
    /\ Agents \subseteq Nat /\ IsFiniteSet(Agents)
    /\ {MaxGoals, StallLimit, GoalCycles, ReleaseEvery, ReleaseCount} \subseteq Nat \ {0}
    /\ MaxEvents \in Nat

VARIABLES
    count,      \* number of active goals of each agent
    track,      \* where the tracked goal is: "none" if nothing is tracked
    age,        \* cycles since it was first seen
    repeated,   \* the last four capabilities of _cap_history are the same
    stalled, skipped,        \* stalled_agents, skipped_agents
    cyc,        \* cycles modulo ReleaseEvery
    phase, todo, active,     \* where the loop is, agents left, agents with goals
    work,       \* the worker of each agent in the pool
    same,       \* it pursues the goal that was tracked when it started
    result,     \* its outcome
    stray,      \* agents that a worker of an abandoned pool still pursues for
    suspended,  \* agents suspended over the API
    hostFile,   \* the host has left a message
    events      \* events so far

metrics == <<track, age, repeated, stalled, skipped>>
loop    == <<cyc, phase, todo, active>>
pool    == <<work, same, result>>
env     == <<suspended, hostFile, events>>
vars    == <<count, metrics, loop, pool, stray, env>>

-----------------------------------------------------------------------------
Phases   == {"top", "host", "look", "triage", "collect", "wrap"}
Outcomes == {"complete", "abandoned", "moved", "still", "error"}
Ending   == {"complete", "abandoned"}

Least(S) == CHOOSE x \in S : \A y \in S : x <= y
Capped(n) == IF n < MaxGoals THEN n ELSE MaxGoals

\* Where the tracked goal of an agent is when its first goal has ended, and
\* when a goal was put before it.
AfterEnd(p)   == CASE p = "first" -> "gone" [] p = "second" -> "first" [] OTHER -> p
AfterAhead(p) == CASE p = "first" -> "second" [] p = "second" -> "gone" [] OTHER -> p

\* Mutant: a long time on one goal does not count.
TooLong_Never(a) == FALSE

TooLong(a) == track[a] # "none" /\ age[a] >= GoalCycles

\* Mutant: the limit of the count is one too large.
IsStalled_Late(a) == stalled[a] > StallLimit \/ repeated[a] \/ TooLong(a)

\* DaemonMetrics.is_stalled
IsStalled(a) == stalled[a] >= StallLimit \/ repeated[a] \/ TooLong(a)

AfterSkip(a) == [stalled EXCEPT ![a] = 0]

\* Mutant: agents are released only when none is active, as the code did.
ReleaseTime_Idle == cyc = 0 /\ active = {}

\* Every ReleaseEvery cycles, whether or not other agents are active.
ReleaseTime == cyc = 0

Event == events < MaxEvents /\ events' = events + 1
Fault == Event /\ UNCHANGED <<suspended, hostFile>>

\* The model's goal is refused: a path in it does not exist or is read-only.
Refused(a, n, p) ==
    /\ count' = [count EXCEPT ![a] = n]
    /\ track' = [track EXCEPT ![a] = p]

\* It is created, and its priority places it before or behind the others.
Placed(a, n, p) ==
    /\ count' = [count EXCEPT ![a] = n + 1]
    /\ track' \in {[track EXCEPT ![a] = p], [track EXCEPT ![a] = AfterAhead(p)]}

\* _assign_idle_goal, for an agent that has n goals: it keeps those it has.
AssignIdle(a, n, p) ==
    \/ Refused(a, n, p)
    \/ n = 0 /\ Placed(a, n, p)

-----------------------------------------------------------------------------
Init ==
    /\ count = [a \in Agents |-> 0]
    /\ track = [a \in Agents |-> "none"] /\ age = [a \in Agents |-> 0]
    /\ repeated = [a \in Agents |-> FALSE]
    /\ stalled = [a \in Agents |-> 0] /\ skipped = {}
    /\ cyc = 0 /\ phase = "top" /\ todo = {} /\ active = {}
    /\ work = [a \in Agents |-> "none"] /\ same = [a \in Agents |-> FALSE]
    /\ result = [a \in Agents |-> "none"]
    /\ stray = {} /\ suspended = {} /\ hostFile = FALSE /\ events = 0

\* The top of a turn: the cycle is counted; a host message is delivered to
\* every inbox and cleared, and sends every agent through the existence loop.
Begin ==
    /\ phase = "top"
    /\ cyc' = (cyc + 1) % ReleaseEvery
    /\ age' = [a \in Agents |-> IF track[a] = "none" \/ age[a] = GoalCycles THEN age[a] ELSE age[a] + 1]
    /\ todo' = Agents /\ active' = {}
    /\ phase' = IF hostFile THEN "host" ELSE "look"
    /\ hostFile' = FALSE
    /\ UNCHANGED <<count, track, repeated, stalled, skipped, pool, stray, suspended, events>>

\* _assign_idle_goal(force=True), also for an agent that has goals or is
\* suspended.
Interrupt(a) ==
    /\ phase = "host" /\ todo # {} /\ a = Least(todo)
    /\ Refused(a, count[a], track[a]) \/ Placed(a, count[a], track[a])
    /\ IF todo = {a} THEN todo' = Agents /\ phase' = "look"
                     ELSE todo' = todo \ {a} /\ UNCHANGED phase
    /\ UNCHANGED <<cyc, active, age, repeated, stalled, skipped, pool, stray, env>>

\* _agents_with_goals: an agent with a goal takes part, one without gets one
\* for the next turn; a suspended one is left alone, as is one about which
\* the server does not answer.  The agents set aside do not take part.
LookAt(a) ==
    /\ a \notin suspended
    /\ AssignIdle(a, count[a], track[a])
    /\ active' = IF count[a] = 0 \/ a \in skipped THEN active ELSE active \cup {a}
    /\ UNCHANGED env

LookPast(a) ==
    /\ \/ a \in suspended /\ UNCHANGED env
       \/ a \notin suspended /\ Fault
    /\ UNCHANGED <<count, track, active>>

Look(a) ==
    /\ phase = "look" /\ todo # {} /\ a = Least(todo)
    /\ LookAt(a) \/ LookPast(a)
    /\ IF todo = {a} THEN todo' = active' /\ phase' = "triage"
                     ELSE todo' = todo \ {a} /\ UNCHANGED phase
    /\ UNCHANGED <<cyc, age, repeated, stalled, skipped, pool, stray>>

\* A stalled agent loses its first goal, gets another one if it has none
\* left, and is set aside.
SetAside(a) ==
    /\ phase = "triage" /\ todo # {} /\ a = Least(todo) /\ IsStalled(a)
    /\ IF count[a] = 0 THEN UNCHANGED <<count, track>>
                       ELSE AssignIdle(a, count[a] - 1, AfterEnd(track[a]))
    /\ skipped' = skipped \cup {a}
    /\ stalled' = AfterSkip(a)
    /\ todo' = todo \ {a}
    /\ UNCHANGED <<cyc, phase, active, age, repeated, pool, stray, env>>

\* The pool has a thread for every agent: the worker starts at once, abandons
\* the excess goals (_cap_agent_goals) and pursues the first one.
Submit(a) ==
    /\ phase = "triage" /\ todo # {} /\ a = Least(todo) /\ ~IsStalled(a)
    /\ count' = [count EXCEPT ![a] = Capped(@)]
    /\ same' = [same EXCEPT ![a] = track[a] = "first"]
    /\ work' = [work EXCEPT ![a] = "running"]
    /\ todo' = todo \ {a}
    /\ UNCHANGED <<cyc, phase, active, metrics, result, stray, env>>

\* Every future is submitted: the loop waits for the outcomes.
Collecting ==
    /\ phase = "triage" /\ todo = {}
    /\ phase' = "collect"
    /\ UNCHANGED <<count, cyc, todo, active, metrics, pool, stray, env>>

\* A pursuit that completes or abandons its goal takes it off the list.
Ends(a, o) ==
    IF o \in Ending
    THEN /\ count[a] > 0
         /\ count' = [count EXCEPT ![a] = @ - 1]
         /\ track' = [track EXCEPT ![a] = AfterEnd(@)]
    ELSE UNCHANGED <<count, track>>

Run(a, o) ==
    /\ work[a] = "running"
    /\ Ends(a, o)
    /\ work' = [work EXCEPT ![a] = "ended"]
    /\ result' = [result EXCEPT ![a] = o]
    /\ UNCHANGED <<age, repeated, stalled, skipped, loop, same, stray, env>>

\* The worker of an abandoned pool ends: its goal may be the first of the
\* list or long over, and nobody takes the outcome.
Stray(a, o) ==
    /\ a \in stray
    /\ Ends(a, o)
    /\ stray' = stray \ {a}
    /\ UNCHANGED <<age, repeated, stalled, skipped, loop, pool, env>>

Taken(a) ==
    /\ work' = [work EXCEPT ![a] = "none"]
    /\ same' = [same EXCEPT ![a] = FALSE]
    /\ result' = [result EXCEPT ![a] = "none"]

\* record_outcome of a pursuit that did not complete its goal: the goal is
\* tracked from now on, unless it is already; without more progress than
\* before the cycle counts as stalled.
Record(a, still) ==
    /\ IF same[a]
       THEN UNCHANGED <<track, age>> /\ repeated' \in {repeated, [repeated EXCEPT ![a] = TRUE]}
       ELSE /\ track' = [track EXCEPT ![a] = IF result[a] # "abandoned" /\ count[a] > 0 THEN "first" ELSE "gone"]
            /\ age' = [age EXCEPT ![a] = 0]
            /\ repeated' = [repeated EXCEPT ![a] = FALSE]
    /\ stalled' = [stalled EXCEPT ![a] = IF still THEN @ + 1 ELSE 0]
    /\ skipped' = IF still THEN skipped ELSE skipped \ {a}

\* The loop takes an outcome: one that leaves the goal active,
Collect(a) ==
    /\ result[a] \in {"abandoned", "moved", "still"}
    /\ \/ result[a] # "moved" /\ Record(a, TRUE)
       \/ result[a] # "still" /\ Record(a, FALSE)
    /\ UNCHANGED count

\* one of a pursuit that raised,
CollectError(a) ==
    /\ result[a] = "error"
    /\ stalled' = [stalled EXCEPT ![a] = @ + 1]
    /\ UNCHANGED <<count, track, age, repeated, skipped>>

\* or a completion, after which the agent gets its next goal.
CollectCompletion(a) ==
    /\ result[a] = "complete"
    /\ AssignIdle(a, count[a], "none")
    /\ age' = [age EXCEPT ![a] = 0]
    /\ repeated' = [repeated EXCEPT ![a] = FALSE]
    /\ UNCHANGED <<stalled, skipped>>

Take(a) ==
    /\ phase = "collect" /\ work[a] = "ended"
    /\ Collect(a) \/ CollectError(a) \/ CollectCompletion(a)
    /\ Taken(a)
    /\ UNCHANGED <<loop, stray, env>>

\* The cycle times out before the loop takes the next outcome: what has ended
\* is dropped, and what still runs goes on without the pool.
Timeout ==
    /\ phase = "collect" /\ \E a \in Agents : work[a] # "none"
    /\ Fault
    /\ stray' = stray \cup {a \in Agents : work[a] = "running"}
    /\ work' = [a \in Agents |-> "none"]
    /\ same' = [a \in Agents |-> FALSE]
    /\ result' = [a \in Agents |-> "none"]
    /\ phase' = "wrap"
    /\ UNCHANGED <<count, cyc, todo, active, metrics>>

AllTaken ==
    /\ phase = "collect" /\ \A a \in Agents : work[a] = "none"
    /\ phase' = "wrap"
    /\ UNCHANGED <<count, cyc, todo, active, metrics, pool, stray, env>>

\* The end of a turn: every ReleaseEvery cycles, up to ReleaseCount agents
\* (of a set, in no order) are put back.
Wrap ==
    /\ phase = "wrap"
    /\ phase' = "top" /\ active' = {}
    /\ IF ReleaseTime
       THEN \E R \in SUBSET skipped :
                /\ R = skipped \/ Cardinality(R) = ReleaseCount
                /\ Cardinality(R) <= ReleaseCount
                /\ skipped' = skipped \ R
                /\ stalled' = [a \in Agents |-> IF a \in R THEN 0 ELSE stalled[a]]
       ELSE UNCHANGED <<skipped, stalled>>
    /\ UNCHANGED <<count, cyc, todo, track, age, repeated, pool, stray, env>>

\* The daemon dies, by its own watchdog or otherwise, and starts again: its
\* metrics and workers are gone, the goals are not.
Restart ==
    /\ Fault
    /\ track' = [a \in Agents |-> "none"] /\ age' = [a \in Agents |-> 0]
    /\ repeated' = [a \in Agents |-> FALSE]
    /\ stalled' = [a \in Agents |-> 0] /\ skipped' = {}
    /\ cyc' = 0 /\ phase' = "top" /\ todo' = {} /\ active' = {}
    /\ work' = [a \in Agents |-> "none"] /\ same' = [a \in Agents |-> FALSE]
    /\ result' = [a \in Agents |-> "none"]
    /\ stray' = {}
    /\ UNCHANGED count

\* The host leaves a message; an agent is suspended or resumed over the API.
HostWrites ==
    /\ Event /\ hostFile' = TRUE
    /\ UNCHANGED <<count, metrics, loop, pool, stray, suspended>>

Suspend(a) ==
    /\ Event /\ suspended' = suspended \cup {a}
    /\ UNCHANGED <<count, metrics, loop, pool, stray, hostFile>>

Resume(a) ==
    /\ a \in suspended /\ suspended' = suspended \ {a}
    /\ UNCHANGED <<count, metrics, loop, pool, stray, hostFile, events>>

MainLoop ==
    \/ Begin \/ Collecting \/ AllTaken \/ Wrap
    \/ \E a \in Agents : Interrupt(a) \/ Look(a) \/ SetAside(a) \/ Submit(a) \/ Take(a)
Worker(a) == \E o \in Outcomes : Run(a, o) \/ Stray(a, o)
Others ==
    \/ HostWrites \/ Timeout \/ Restart
    \/ \E a \in Agents : Suspend(a) \/ Resume(a)
Next == MainLoop \/ Others \/ \E a \in Agents : Worker(a)

Spec == Init /\ [][Next]_vars

\* The loop takes its next step, and every pursuit ends: each model call it
\* makes has a timeout.
FairSpec == Spec /\ WF_vars(MainLoop) /\ \A a \in Agents : WF_vars(Worker(a))

-----------------------------------------------------------------------------
\* Every variable keeps its type.
TypeOK ==
    /\ count \in [Agents -> 0..(MaxGoals + MaxEvents)]
    /\ track \in [Agents -> {"none", "first", "second", "gone"}]
    /\ age \in [Agents -> 0..GoalCycles] /\ repeated \in [Agents -> BOOLEAN]
    /\ stalled \in [Agents -> 0..StallLimit] /\ skipped \subseteq Agents
    /\ cyc \in 0..(ReleaseEvery - 1) /\ phase \in Phases
    /\ todo \subseteq Agents /\ active \subseteq Agents
    /\ work \in [Agents -> {"none", "running", "ended"}] /\ same \in [Agents -> BOOLEAN]
    /\ result \in [Agents -> Outcomes \cup {"none"}]
    /\ stray \subseteq Agents /\ suspended \subseteq Agents /\ hostFile \in BOOLEAN
    /\ events \in 0..MaxEvents

\* More agents are set aside than a release puts back.  Which of them it puts
\* back is the order of a set, so that it may pass over the same one for ever.
Crowded == Cardinality(skipped) > ReleaseCount

\* An agent that was set aside is put back, whatever the others do, unless
\* again and again more agents are set aside than a release puts back (the
\* release at the end of a turn).
SkippedReturn == \A a \in Agents : []<>(a \notin skipped) \/ []<>Crowded

\* No goal holds an agent for ever: while an agent has goals and is not
\* suspended, and is not passed over by the releases, its first goal keeps
\* being completed or abandoned, even if each pursuit reports progress
\* (is_stalled and the main loop).
GoalsEnd ==
    \A a \in Agents :
        \/ []<>(count[a] = 0 \/ a \in suspended)
        \/ []<>Crowded
        \/ []<><<count'[a] # count[a] \/ a \in skipped' \ skipped>>_vars

\* What the comment on the release promises: an agent that was released is
\* back in rotation, so that it pursues a goal again, if it has one.
ReleasedRun ==
    \A a \in Agents : a \in skipped ~> (work[a] = "running" \/ count[a] = 0 \/ a \in suspended)
=============================================================================
