------------------------------ MODULE Pursuit ------------------------------
(***************************************************************************)
(* How one agent pursues its goals (agents/autonomy_loop.py).  A cycle     *)
(* takes the first active goal, opens a transaction, and carries out steps *)
(* of a plan: successful steps add to the goal's progress, failing ones    *)
(* lead to another plan, to a capability being set aside, or to the end of *)
(* the goal.  At full progress the transaction is committed and the result *)
(* validated.                                                              *)
(*                                                                         *)
(* A cycle works with metrics of a goal that it has read, and writes them  *)
(* back whole when a step or the validation, which may take minutes, is    *)
(* over.  Meanwhile requests create goals and set any metrics or status;   *)
(* the daemon gives up a turn that lasts too long and starts another one   *)
(* beside the cycle that it leaves behind; the watchdog of the             *)
(* transactions ends those that last too long; and the daemon may be       *)
(* killed.                                                                 *)
(*                                                                         *)
(* A plan is the model's, so any capability may come next, or none: then   *)
(* the step is reasoned out, and writes directly.                          *)
(***************************************************************************)
EXTENDS Naturals, FiniteSets

CONSTANTS
    Goals,        \* goals by priority: 1..n, the highest first in the list
    Cycles,       \* threads that pursue for the agent
    Writes,       \* capabilities that the transaction holds back
    Outputs,      \* those that produce something else of value
    Tools,        \* the others; they are not built in, and may be broken
    Full, Gate, Back,         \* progress of a goal that is validated (1.0), of one
                  \* that has produced nothing (0.9 at most), of one rejected (0.85)
    Valued, Other, Repeated,  \* what a step adds (0.2, 0.1, 0.02)
    MaxSteps,     \* steps of a cycle (6)
    StreakLimit,  \* failures in a row that end a goal (4)
    FailLimit,    \* failures of a capability that set it aside (3)
    NullLimit,    \* results that never came, over all cycles (5)
    StrikeLimit,  \* rejected results that end a goal (5)
    Patches,      \* metrics that a request may set
    Watched,      \* goals whose discarded writes are remembered in lost
    MaxFaults,    \* bound: failing steps, refused commits, time-outs, requests, crashes
    MaxLoad       \* bound: goals and cycles left behind, together

Caps == Writes \cup Outputs \cup Tools
None == "none"

\* The metrics of a goal; what is beyond full or beyond the limit counts as that.
Metrics == [progress : 0..Full, last : Caps \cup {None}, output : BOOLEAN, strikes : 0..StrikeLimit]
Blank   == [progress |-> 0, last |-> None, output |-> FALSE, strikes |-> 0]

ASSUME PursuitAssumption ==
    /\ IsFiniteSet(Goals) /\ Goals = 1..Cardinality(Goals) /\ Watched \subseteq Goals /\ None \notin Caps
    /\ {Full, Gate, Back, Valued, Other, Repeated} \subseteq Nat /\ Back <= Gate /\ Gate < Full
    /\ MaxSteps \in Nat \ {0} /\ {MaxFaults, MaxLoad} \subseteq Nat /\ Patches \subseteq Metrics
    /\ {StreakLimit, FailLimit, NullLimit, StrikeLimit} \subseteq Nat \ {0}

VARIABLES
    status, metrics,      \* of each goal, in its file
    proof,      \* of each goal: the kinds of its recorded successful steps
    onDisk,     \* the goals of which a file is on disk
    lost,       \* history: goals of which a reported write was discarded
    earned,     \* history: goals with a product since the last rejection
    disturbed,  \* history: goals that a request has changed, or a cycle by
                \* metrics that were not those of the file any more
    at, goal,   \* of each cycle: where it is, the goal it pursues
    begun,      \* the metrics that this goal had at the beginning
    on, seen,   \* the goal of the step, the metrics that were read last
    steps, streak, fails, avoid,    \* counts, and the capabilities set aside
    txn,        \* whether it holds the name of a transaction
    open, staged,          \* the transaction, and whose writes it holds
    left,       \* cycles that the daemon does not wait for any more
    broken, nulls,         \* broken_tools.json
    missing,               \* tools that the engine does not have, or has disabled
    faults

goalVars  == <<status, metrics, proof>>
fileVars  == <<onDisk, lost, earned>>
planVars  == <<fails, avoid>>
cycleVars == <<at, goal, begun, on, seen, steps, streak, planVars, txn, left>>
txnVars   == <<open, staged>>
toolVars  == <<broken, nulls, missing>>
vars      == <<goalVars, fileVars, disturbed, cycleVars, txnVars, toolVars, faults>>

-----------------------------------------------------------------------------
Active == {g \in Goals : status[g] = "active"}
First  == CHOOSE g \in Active : \A h \in Active : h <= g
Lower(x, y) == IF x <= y THEN x ELSE y

Valuable(c) == c \in Writes \cup Outputs

\* What a successful step adds to the metrics m.
Delta(m, c) == IF c = m.last THEN Repeated ELSE IF Valuable(c) THEN Valued ELSE Other

Produced(m, c) == m.output \/ Valuable(c)

\* Mutant: progress is not cut off.
Advanced_Uncut(m, c) == m.progress + Delta(m, c)

Advanced(m, c) == Lower(IF Produced(m, c) THEN Full ELSE Gate, m.progress + Delta(m, c))

Stepped(m, c) == [m EXCEPT !.progress = Advanced(m, c), !.last = c, !.output = Produced(m, c)]

\* What a failing one leaves of them.
Stalled(m) == [m EXCEPT !.progress = Lower(IF m.output THEN Full ELSE Gate, @)]

\* A write is held back when the plan names it and a transaction is at hand.
Held(p, c, planned) == planned /\ txn[p] /\ c \in Writes

\* Whether goal g was changed since its metrics m were read.
Behind(g, m) == IF metrics[g] = m THEN {} ELSE {g}

Init ==
    /\ status \in [Goals -> {"none", "active"}] /\ metrics = [g \in Goals |-> Blank]
    /\ proof = [g \in Goals |-> {}]
    /\ onDisk = {} /\ lost = {} /\ earned = {} /\ disturbed = {} /\ left = {}
    /\ at = [p \in Cycles |-> "idle"] /\ goal = [p \in Cycles |-> 0] /\ on = [p \in Cycles |-> 0]
    /\ begun = [p \in Cycles |-> Blank] /\ seen = [p \in Cycles |-> Blank]
    /\ steps = [p \in Cycles |-> 0] /\ streak = [p \in Cycles |-> 0]
    /\ fails = [p \in Cycles |-> [c \in Caps |-> 0]] /\ avoid = [p \in Cycles |-> {}]
    /\ txn = [p \in Cycles |-> FALSE] /\ open = [p \in Cycles |-> FALSE] /\ staged = [p \in Cycles |-> {}]
    /\ broken = {} /\ nulls = [c \in Tools |-> 0] /\ missing \in SUBSET Tools /\ faults = 0

Fault == faults < MaxFaults /\ faults' = faults + 1

Goto(p, a) == at' = [at EXCEPT ![p] = a]

\* pursue_goal returns; what it held is forgotten.
Return(p) ==
    /\ Goto(p, "idle") /\ goal' = [goal EXCEPT ![p] = 0] /\ on' = [on EXCEPT ![p] = 0]
    /\ begun' = [begun EXCEPT ![p] = Blank] /\ seen' = [seen EXCEPT ![p] = Blank]
    /\ steps' = [steps EXCEPT ![p] = 0] /\ streak' = [streak EXCEPT ![p] = 0]
    /\ fails' = [fails EXCEPT ![p] = [c \in Caps |-> 0]] /\ avoid' = [avoid EXCEPT ![p] = {}]
    /\ txn' = [txn EXCEPT ![p] = FALSE] /\ left' = left \ {p}

\* The writes of the transaction are discarded, if it is still open.
Discard(p) ==
    /\ open' = [open EXCEPT ![p] = FALSE] /\ staged' = [staged EXCEPT ![p] = {}]
    /\ lost' = lost \cup (staged[p] \cap Watched)
    /\ UNCHANGED <<onDisk, earned>>

-----------------------------------------------------------------------------
(* The cycle *)

\* The goal and its plan; a transaction that cannot be opened is done without.
BeginCycle(p) ==
    /\ at[p] = "idle" /\ Active # {} /\ \A q \in Cycles \ {p} : at[q] = "idle" \/ q \in left
    /\ Goto(p, "step") /\ goal' = [goal EXCEPT ![p] = First]
    /\ begun' = [begun EXCEPT ![p] = metrics[First]] /\ avoid' = [avoid EXCEPT ![p] = broken]
    /\ \/ /\ txn' = [txn EXCEPT ![p] = TRUE]
          /\ open' = [open EXCEPT ![p] = TRUE] /\ staged' = [staged EXCEPT ![p] = {}]
          /\ lost' = lost \cup (staged[p] \cap Watched) /\ UNCHANGED faults
       \/ Fault /\ UNCHANGED <<txn, lost, txnVars>>
    /\ UNCHANGED <<goalVars, onDisk, earned, disturbed, on, seen, steps, streak, fails, left, toolVars>>

\* A planned capability is skipped: it is set aside, or turns out a ghost.
Skip(p, c) ==
    /\ at[p] = "step" /\ steps[p] < MaxSteps
    /\ \/ c \in avoid[p] /\ UNCHANGED <<streak, fails, avoid, broken>>
       \/ /\ c \in missing \ avoid[p]
          /\ streak' = [streak EXCEPT ![p] = Lower(StreakLimit, @ + 1)]
          /\ fails' = [fails EXCEPT ![p][c] = FailLimit]
          /\ avoid' = [avoid EXCEPT ![p] = @ \cup {c}] /\ broken' = broken \cup {c}
    /\ steps' = [steps EXCEPT ![p] = @ + 1]
    /\ Goto(p, IF steps[p] + 1 < MaxSteps THEN "step" ELSE "finish")
    /\ UNCHANGED <<goalVars, fileVars, disturbed, goal, begun, on, seen, txn, left, txnVars, nulls, missing, faults>>

\* A step takes the goal that is first by now, and its metrics.
StartStep(p) ==
    /\ at[p] = "step" /\ Active # {}
    /\ Goto(p, "run") /\ on' = [on EXCEPT ![p] = First] /\ seen' = [seen EXCEPT ![p] = metrics[First]]
    /\ UNCHANGED <<goalVars, fileVars, disturbed, goal, begun, steps, streak, planVars, txn, left, txnVars, toolVars, faults>>

\* All goals ended meanwhile.
NoGoal(p) ==
    /\ at[p] = "step" /\ Active = {} /\ Goto(p, "finish")
    /\ UNCHANGED <<goalVars, fileVars, disturbed, goal, begun, on, seen, steps, streak, planVars, txn, left, txnVars, toolVars, faults>>

\* The step is over.
EndStep(p) ==
    /\ Goto(p, "check") /\ steps' = [steps EXCEPT ![p] = @ + 1]
    /\ on' = [on EXCEPT ![p] = 0] /\ seen' = [seen EXCEPT ![p] = Blank]

\* The step of c succeeds, and its goal gets credit; the failures in a row are
\* over, unless a tool has returned nothing.
Succeed(p, c, planned) ==
    /\ at[p] = "run" /\ c \notin missing
    /\ planned => c \notin avoid[p]
    /\ Held(p, c, planned) => open[p]
    /\ LET g == on[p] IN
       /\ metrics' = [metrics EXCEPT ![g] = Stepped(seen[p], c)]
       /\ disturbed' = disturbed \cup Behind(g, seen[p])
       /\ proof' = [proof EXCEPT ![g] = @ \cup {IF c \in Writes THEN "file" ELSE "other"}]
       /\ earned' = IF Valuable(c) THEN earned \cup {g} ELSE earned
       /\ staged' = IF Held(p, c, planned) THEN [staged EXCEPT ![p] = @ \cup {g}] ELSE staged
       /\ onDisk' = IF c \in Writes /\ ~Held(p, c, planned) THEN onDisk \cup {g} ELSE onDisk
    /\ EndStep(p) /\ (streak' = [streak EXCEPT ![p] = 0] \/ (c \in Tools /\ UNCHANGED streak))
    /\ UNCHANGED <<status, lost, goal, begun, planVars, txn, left, open, toolVars, faults>>

\* A tool that does not answer in time returns nothing, which is counted.
Silent(c) ==
    \/ UNCHANGED nulls
    \/ c \in Tools /\ nulls' = [nulls EXCEPT ![c] = Lower(NullLimit, @ + 1)]

Mute(c) == c \in Tools \ broken /\ nulls'[c] >= NullLimit

\* A failure of c: at a limit, c is set aside for this cycle, a tool for good.
SetAside(p, c) ==
    LET worn == fails[p][c] + 1 >= FailLimit /\ c \notin avoid[p] /\ ~Mute(c) IN
    /\ fails' = [fails EXCEPT ![p][c] = Lower(FailLimit, @ + 1)]
    /\ avoid' = IF worn \/ Mute(c) THEN [avoid EXCEPT ![p] = @ \cup {c}] ELSE avoid
    /\ broken' = IF c \in Tools /\ (worn \/ Mute(c)) THEN broken \cup {c} ELSE broken
    /\ missing' = IF c \in Tools /\ worn THEN missing \cup {c} ELSE missing

\* A write fails for sure when the transaction has ended behind its back.
Failing(p, c) ==
    /\ at[p] = "run" /\ c \notin avoid[p] \cup missing
    /\ IF c \in Writes /\ txn[p] /\ ~open[p] THEN UNCHANGED faults ELSE Fault

\* A step fails, c = None when it was reasoned out, and there is another plan.
\* The metrics are written back, unless the step was refused before it ran.
Fail(p, c) ==
    /\ Failing(p, c) /\ streak[p] + 1 < StreakLimit
    /\ EndStep(p) /\ streak' = [streak EXCEPT ![p] = @ + 1]
    /\ IF c = None THEN UNCHANGED <<nulls, fails, avoid, broken, missing>>
                   ELSE Silent(c) /\ SetAside(p, c)
    /\ \/ UNCHANGED <<metrics, disturbed>>
       \/ /\ metrics' = [metrics EXCEPT ![on[p]] = Stalled(seen[p])]
          /\ disturbed' = disturbed \cup Behind(on[p], seen[p])
    /\ UNCHANGED <<status, proof, fileVars, goal, begun, txn, left, txnVars>>

\* Mutant: the writes of a goal that did not get there are kept.
Undone_Kept(p) ==
    /\ onDisk' = onDisk \cup staged[p]
    /\ open' = [open EXCEPT ![p] = FALSE] /\ staged' = [staged EXCEPT ![p] = {}] /\ UNCHANGED <<lost, earned>>

\* The transaction of a goal that did not get there is rolled back.
Undone(p) == IF txn[p] /\ open[p] THEN Discard(p) ELSE UNCHANGED <<fileVars, txnVars>>

\* Too many failures in a row: the goal gets back the metrics that it had at the
\* beginning of the cycle, and is given up.
GiveUp(p, c) ==
    /\ Failing(p, c) /\ streak[p] + 1 >= StreakLimit
    /\ status' = [status EXCEPT ![goal[p]] = "abandoned"]
    /\ \/ /\ metrics' = [metrics EXCEPT ![goal[p]] = begun[p]]
          /\ disturbed' = disturbed \cup Behind(goal[p], begun[p])
       \/ /\ metrics' = [metrics EXCEPT ![on[p]] = Stalled(seen[p]), ![goal[p]] = begun[p]]
          /\ disturbed' = disturbed \cup Behind(on[p], seen[p]) \cup Behind(goal[p], begun[p])
    /\ IF c = None THEN UNCHANGED toolVars
       ELSE Silent(c) /\ broken' = broken \cup (IF Mute(c) THEN {c} ELSE {}) /\ UNCHANGED missing
    /\ Undone(p) /\ Return(p)
    /\ UNCHANGED proof

\* After a step the metrics of the goal are read again.
Check(p) ==
    /\ at[p] = "check"
    /\ IF metrics[goal[p]].progress >= Full
       THEN Goto(p, "commit") /\ seen' = [seen EXCEPT ![p] = metrics[goal[p]]]
       ELSE Goto(p, IF steps[p] < MaxSteps THEN "step" ELSE "finish") /\ UNCHANGED seen
    /\ UNCHANGED <<goalVars, fileVars, disturbed, goal, begun, on, steps, streak, planVars, txn, left, txnVars, toolVars, faults>>

\* Full progress: the transaction is committed, whatever comes of it.
Commit(p) ==
    /\ at[p] = "commit" /\ Goto(p, "validate") /\ txn' = [txn EXCEPT ![p] = FALSE]
    /\ \/ /\ txn[p] /\ open[p] /\ open' = [open EXCEPT ![p] = FALSE]
          /\ staged' = [staged EXCEPT ![p] = {}] /\ onDisk' = onDisk \cup staged[p]
          /\ UNCHANGED <<lost, earned, faults>>
       \/ txn[p] /\ open[p] /\ Fault /\ Discard(p)
       \/ ~(txn[p] /\ open[p]) /\ UNCHANGED <<fileVars, txnVars, faults>>
    /\ UNCHANGED <<goalVars, disturbed, goal, begun, on, seen, steps, streak, planVars, left, toolVars>>

\* Something on record for goal g can be shown: files only as long as they exist.
Shown(g) == "other" \in proof[g] \/ ("file" \in proof[g] /\ g \in onDisk)

Accept(p) ==
    /\ at[p] = "validate" /\ Shown(goal[p])
    /\ status' = [status EXCEPT ![goal[p]] = "completed"] /\ Return(p)
    /\ disturbed' = disturbed \cup Behind(goal[p], seen[p])
    /\ UNCHANGED <<metrics, proof, fileVars, txnVars, toolVars, faults>>

\* Mutant: the strikes are not counted up.
Struck_Once(m) == 1

Struck(m) == Lower(StrikeLimit, m.strikes + 1)

\* Mutant: after a rejection nothing new has to be produced.
Rejected_Kept(m) == [m EXCEPT !.strikes = Struck(m), !.progress = Back]

Rejected(m) == [m EXCEPT !.strikes = Struck(m), !.progress = Back, !.output = FALSE]

\* The result is rejected, by the last time at the limit; then files that are
\* broken in themselves are deleted.
Reject(p) ==
    /\ at[p] = "validate" /\ earned' = earned \ {goal[p]}
    /\ disturbed' = disturbed \cup Behind(goal[p], seen[p])
    /\ IF Struck(seen[p]) >= StrikeLimit
       THEN /\ metrics' = [metrics EXCEPT ![goal[p]] = [seen[p] EXCEPT !.strikes = Struck(seen[p])]]
            /\ status' = [status EXCEPT ![goal[p]] = "abandoned"] /\ Return(p)
            /\ onDisk' \in {onDisk, onDisk \ {goal[p]}}
       ELSE /\ metrics' = [metrics EXCEPT ![goal[p]] = Rejected(seen[p])]
            /\ Goto(p, "finish") /\ seen' = [seen EXCEPT ![p] = Blank]
            /\ UNCHANGED <<status, onDisk, goal, begun, on, steps, streak, planVars, txn, left>>
    /\ UNCHANGED <<proof, lost, txnVars, toolVars, faults>>

Finish(p) ==
    /\ at[p] = "finish" /\ Return(p)
    /\ IF metrics[goal[p]].progress < Full THEN Undone(p) ELSE UNCHANGED <<fileVars, txnVars>>
    /\ UNCHANGED <<goalVars, disturbed, toolVars, faults>>

-----------------------------------------------------------------------------
(* The surroundings *)

Load == Cardinality({g \in Goals : status[g] # "none"}) + Cardinality(left)

CreateGoal(g) ==
    /\ status[g] = "none" /\ Load < MaxLoad /\ status' = [status EXCEPT ![g] = "active"]
    /\ UNCHANGED <<metrics, proof, fileVars, disturbed, cycleVars, txnVars, toolVars, faults>>

\* A request sets the metrics or the status of a goal, whatever they are.
Patch(g) ==
    /\ status[g] # "none" /\ Fault /\ disturbed' = disturbed \cup {g}
    /\ \/ \E m \in Patches : metrics' = [metrics EXCEPT ![g] = m] /\ UNCHANGED status
       \/ \E s \in {"paused", "completed", "abandoned"} : status' = [status EXCEPT ![g] = s] /\ UNCHANGED metrics
    /\ UNCHANGED <<proof, fileVars, cycleVars, txnVars, toolVars>>

\* The turn lasts too long; the daemon goes on without the cycle, which goes on too.
LeaveBehind(p) ==
    /\ at[p] # "idle" /\ p \notin left /\ Load < MaxLoad /\ Fault /\ left' = left \cup {p}
    /\ UNCHANGED <<goalVars, fileVars, disturbed, at, goal, begun, on, seen, steps, streak, planVars, txn, txnVars, toolVars>>

\* The coordinator's watchdog; a cycle may last longer than a transaction.
TimeOut(p) ==
    /\ open[p] /\ Fault /\ Discard(p)
    /\ UNCHANGED <<goalVars, disturbed, cycleVars, toolVars>>

\* The daemon is killed and started again.
Crash ==
    /\ \E p \in Cycles : at[p] # "idle"
    /\ Fault /\ missing' \in SUBSET Tools /\ left' = {}
    /\ at' = [p \in Cycles |-> "idle"] /\ goal' = [p \in Cycles |-> 0] /\ on' = [p \in Cycles |-> 0]
    /\ begun' = [p \in Cycles |-> Blank] /\ seen' = [p \in Cycles |-> Blank]
    /\ steps' = [p \in Cycles |-> 0] /\ streak' = [p \in Cycles |-> 0]
    /\ fails' = [p \in Cycles |-> [c \in Caps |-> 0]] /\ avoid' = [p \in Cycles |-> {}]
    /\ txn' = [p \in Cycles |-> FALSE]
    /\ UNCHANGED <<goalVars, fileVars, disturbed, txnVars, broken, nulls>>

Cycle(p) ==
    \/ BeginCycle(p) \/ StartStep(p) \/ NoGoal(p) \/ Check(p) \/ Commit(p) \/ Accept(p) \/ Reject(p) \/ Finish(p)
    \/ \E c \in Caps : Skip(p, c) \/ \E planned \in BOOLEAN : Succeed(p, c, planned)
    \/ \E c \in Caps \cup {None} : Fail(p, c) \/ GiveUp(p, c)

Next ==
    \/ \E p \in Cycles : Cycle(p) \/ LeaveBehind(p) \/ TimeOut(p)
    \/ \E g \in Goals : CreateGoal(g) \/ Patch(g)
    \/ Crash

Spec     == Init /\ [][Next]_vars
FairSpec == Spec /\ \A p \in Cycles : WF_vars(Cycle(p))

-----------------------------------------------------------------------------
(* Properties *)

\* Every variable keeps its type, and a goal is pursued whenever a cycle runs.
TypeOK ==
    /\ status \in [Goals -> {"none", "active", "paused", "completed", "abandoned"}]
    /\ metrics \in [Goals -> Metrics] /\ proof \in [Goals -> SUBSET {"file", "other"}]
    /\ onDisk \subseteq Goals /\ lost \subseteq Goals /\ earned \subseteq Goals /\ disturbed \subseteq Goals
    /\ at \in [Cycles -> {"idle", "step", "run", "check", "commit", "validate", "finish"}] /\ left \subseteq Cycles
    /\ goal \in [Cycles -> Goals \cup {0}] /\ on \in [Cycles -> Goals \cup {0}]
    /\ begun \in [Cycles -> Metrics] /\ seen \in [Cycles -> Metrics]
    /\ steps \in [Cycles -> 0..MaxSteps] /\ streak \in [Cycles -> 0..StreakLimit]
    /\ fails \in [Cycles -> [Caps -> 0..FailLimit]] /\ avoid \in [Cycles -> SUBSET Caps]
    /\ txn \in [Cycles -> BOOLEAN] /\ open \in [Cycles -> BOOLEAN] /\ staged \in [Cycles -> SUBSET Goals]
    /\ broken \subseteq Tools /\ nulls \in [Tools -> 0..NullLimit]
    /\ missing \subseteq Tools /\ faults \in 0..MaxFaults
    /\ \A p \in Cycles : (goal[p] = 0 <=> at[p] = "idle") /\ (on[p] # 0 <=> at[p] = "run")

\* A goal gets beyond the gate only with something it has produced, and after
\* a rejection only with something it has produced since ("force re-earning
\* output gate"), whatever fails and however many cycles work on it, until a
\* request changes it or a cycle writes back metrics that are outdated.
EarnedUnlessDisturbed == \A g \in Active \ disturbed : metrics[g].progress > Gate => g \in earned

\* What was held back reaches the disk only by a cycle that has found its goal
\* at full progress: the writes of a goal that is given up, cut short by a crash
\* or left for another cycle never do.
OnlyFullProgressLands ==
    [][\A p \in Cycles : \A g \in staged[p] \ staged'[p] :
          g \in onDisk' \ onDisk => goal[p] # 0 /\ seen[p].progress = Full]_vars

\* A goal for which steps of value keep succeeding ends, completed or after its
\* last strike, whatever failed, was rejected, was changed by a request or was
\* lost on the way.
CreditTo(g) == \E p \in Cycles, c \in Writes \cup Outputs, planned \in BOOLEAN : on[p] = g /\ Succeed(p, c, planned)
GoalsEnd == \A g \in Goals : []<><<CreditTo(g)>>_vars => <>[](status[g] # "active")

\* What the docstring of txn_commit says of a goal: "The goal either fully
\* happened or fully didn't".
WholeOrNothing == \A g \in Goals : status[g] = "completed" => g \notin lost
=============================================================================
