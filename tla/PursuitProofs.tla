--------------------------- MODULE PursuitProofs ----------------------------
(***************************************************************************)
(* Proofs about the pursuit of goals: types, that progress beyond the gate *)
(* is earned until a request or outdated metrics disturb the goal, that    *)
(* only full progress lands, and that ends are justified, for any number   *)
(* of goals, cycles and capabilities, any limits, and any number of        *)
(* faults.  The last part is about the main loop of the daemon around the  *)
(* pursuits (module Daemon, an instance here): types, and that an agent    *)
(* that is set aside rests until a turn of the loop puts it back.          *)
(***************************************************************************)
EXTENDS Pursuit, FiniteSetTheorems, WellFoundedInduction, TLAPS

-----------------------------------------------------------------------------
(* The first goal. *)

\* A set of numbers that is not empty has a least element.
LEMMA Smallest ==
    ASSUME NEW T \in SUBSET Nat, T # {}
    PROVE  \E m \in T : \A n \in T : m <= n
<1> DEFINE R == {ss \in Nat \X Nat : ss[1] < ss[2]}
<1>1. IsWellFoundedOn(R, Nat)
  BY NatLessThanWellFounded, Zenon DEF OpToRel
<1> HIDE DEF R
<1>2. PICK m \in T : \A n \in T : ~ (<<n, m>> \in R)
  BY <1>1, WFMin, Zenon
<1>3. \A n \in T : ~ (n < m)
  BY <1>2 DEF R
<1>4. T \subseteq Nat
  OBVIOUS
<1> QED
  BY <1>2, <1>3, <1>4

\* The goals are numbered, so of the active ones one is the first in the list.
LEMMA FirstIsActive ==
    ASSUME Active # {}
    PROVE  First \in Active
<1> DEFINE n == Cardinality(Goals)
           U == {m \in Nat : \A h \in Active : h <= m}
<1>1. n \in Nat /\ Goals = 1..n
  BY PursuitAssumption, FS_CardinalityType
<1> HIDE DEF n
<1>2. Active \subseteq 1..n
  BY <1>1 DEF Active
<1>3. n \in U
  BY <1>1, <1>2
<1>4. PICK m \in U : \A k \in U : m <= k
  <2>1. U \in SUBSET Nat /\ U # {}
    BY <1>3
  <2> HIDE DEF U
  <2> QED
    BY <2>1, Smallest
<1>5. m \in Active
  <2> SUFFICES ASSUME m \notin Active PROVE FALSE
    OBVIOUS
  <2>1. PICK h \in Active : TRUE
    OBVIOUS
  <2>2. m \in Nat /\ m # 0
    BY <1>2, <1>4, <2>1
  <2>3. m - 1 \in U
    BY <1>2, <1>4, <2>2
  <2> QED
    BY <1>4, <2>2, <2>3
<1>6. m \in Active /\ \A h \in Active : h <= m
  BY <1>4, <1>5
<1> QED
  BY <1>6 DEF First


-----------------------------------------------------------------------------
(* Types. *)

\* A cycle counts its steps up to the limit.
Bounded ==
    \A p \in Cycles :
        /\ at[p] = "idle" => steps[p] = 0
        /\ at[p] \in {"step", "run"} => steps[p] < MaxSteps

\* Types by kind of state: of the goals, their metrics, the files, the cycles,
\* what they have read, their counts, and the capabilities.
GoalTypes ==
    /\ status \in [Goals -> {"none", "active", "paused", "completed", "abandoned"}]
    /\ proof \in [Goals -> SUBSET {"file", "other"}]

MetricTypes == metrics \in [Goals -> Metrics]

FileTypes ==
    /\ onDisk \subseteq Goals /\ lost \subseteq Goals /\ earned \subseteq Goals /\ disturbed \subseteq Goals
    /\ open \in [Cycles -> BOOLEAN] /\ staged \in [Cycles -> SUBSET Goals]

CycleTypes ==
    /\ at \in [Cycles -> {"idle", "step", "run", "check", "commit", "validate", "finish"}]
    /\ goal \in [Cycles -> Goals \cup {0}] /\ on \in [Cycles -> Goals \cup {0}]
    /\ left \subseteq Cycles /\ txn \in [Cycles -> BOOLEAN]
    /\ \A p \in Cycles : (goal[p] = 0 <=> at[p] = "idle") /\ (on[p] # 0 <=> at[p] = "run")

ReadTypes == begun \in [Cycles -> Metrics] /\ seen \in [Cycles -> Metrics]

CountTypes ==
    /\ steps \in [Cycles -> 0..MaxSteps] /\ streak \in [Cycles -> 0..StreakLimit]
    /\ fails \in [Cycles -> [Caps -> 0..FailLimit]]
    /\ nulls \in [Tools -> 0..NullLimit] /\ faults \in 0..MaxFaults

ToolTypes == avoid \in [Cycles -> SUBSET Caps] /\ broken \subseteq Tools /\ missing \subseteq Tools

Types == GoalTypes /\ MetricTypes /\ FileTypes /\ CycleTypes /\ ReadTypes /\ CountTypes /\ ToolTypes

LEMMA TypeParts == TypeOK <=> Types
  BY Zenon DEF TypeOK, Types, GoalTypes, MetricTypes, FileTypes, CycleTypes, ReadTypes, CountTypes, ToolTypes

LEMMA Limits ==
    /\ Goals \subseteq Nat \ {0} /\ 0 \notin Goals /\ Watched \subseteq Goals
    /\ Full \in Nat /\ Gate \in Nat /\ Back \in Nat /\ Back <= Gate /\ Gate < Full
    /\ Valued \in Nat /\ Other \in Nat /\ Repeated \in Nat
    /\ MaxSteps \in Nat \ {0} /\ MaxFaults \in Nat /\ MaxLoad \in Nat /\ Patches \subseteq Metrics
    /\ StreakLimit \in Nat \ {0} /\ FailLimit \in Nat \ {0}
    /\ NullLimit \in Nat \ {0} /\ StrikeLimit \in Nat \ {0}
<1>1. Goals = 1..Cardinality(Goals) /\ Cardinality(Goals) \in Nat
  BY PursuitAssumption, FS_CardinalityType
<1>2. Goals \subseteq Nat \ {0} /\ 0 \notin Goals
  BY <1>1
<1> QED
  BY <1>2, PursuitAssumption

LEMMA LowerType ==
    \A x, y \in Nat : Lower(x, y) \in Nat /\ Lower(x, y) <= x /\ Lower(x, y) <= y
  BY DEF Lower

\* A count that is cut off at its limit.
LEMMA LowerCount == \A l \in Nat : \A k \in 0..l : Lower(l, k + 1) \in 0..l
  BY DEF Lower

\* Metrics, field by field.
LEMMA MetricFields ==
    \A m \in Metrics :
        /\ m.progress \in 0..Full /\ m.last \in Caps \cup {None}
        /\ m.output \in BOOLEAN /\ m.strikes \in 0..StrikeLimit
  BY DEF Metrics

LEMMA BlankType == Blank \in Metrics
  BY Limits DEF Blank, Metrics

\* What a step adds stays below full progress, and below the gate as long as
\* nothing has been produced.
LEMMA SteppedScore ==
    ASSUME NEW m \in Metrics, NEW c \in Caps
    PROVE  /\ Stepped(m, c) \in Metrics
           /\ Stepped(m, c).progress > Gate => Produced(m, c)
           /\ Stepped(m, c).output <=> Produced(m, c)
           /\ Stepped(m, c).strikes = m.strikes
<1>1. m.progress \in Nat /\ Delta(m, c) \in Nat /\ m.output \in BOOLEAN
  BY Limits, MetricFields DEF Delta
<1> DEFINE top == IF Produced(m, c) THEN Full ELSE Gate
<1>2. top \in Nat /\ top <= Full /\ (top > Gate => Produced(m, c))
  BY Limits
<1>3. Advanced(m, c) = Lower(top, m.progress + Delta(m, c))
  BY DEF Advanced
<1> HIDE DEF top
<1>4. Advanced(m, c) \in 0..Full /\ (Advanced(m, c) > Gate => Produced(m, c))
  <2>1. m.progress + Delta(m, c) \in Nat
    BY <1>1
  <2>2. Advanced(m, c) \in Nat /\ Advanced(m, c) <= top
    BY <1>2, <1>3, <2>1, LowerType
  <2> QED
    BY <1>2, <2>2, Limits
<1>5. Produced(m, c) \in BOOLEAN
  BY <1>1 DEF Produced, Valuable
<1>6. PICK a, b : a = Advanced(m, c) /\ b = Produced(m, c)
  OBVIOUS
<1>7. Stepped(m, c) = [m EXCEPT !.progress = a, !.last = c, !.output = b]
  BY <1>6 DEF Stepped
<1>8. a \in 0..Full /\ b \in BOOLEAN
  BY <1>4, <1>5, <1>6
<1>9. /\ Stepped(m, c) \in Metrics /\ Stepped(m, c).progress = a
      /\ Stepped(m, c).output = b /\ Stepped(m, c).strikes = m.strikes
  BY <1>7, <1>8 DEF Metrics
<1> QED
  BY <1>4, <1>6, <1>9

\* A failing step takes progress away at most, down to the gate when nothing
\* has been produced.
LEMMA StalledScore ==
    ASSUME NEW m \in Metrics
    PROVE  /\ Stalled(m) \in Metrics
           /\ Stalled(m).progress <= m.progress
           /\ Stalled(m).output = m.output /\ Stalled(m).strikes = m.strikes
<1> DEFINE top == IF m.output THEN Full ELSE Gate
<1>1. top \in Nat
  BY Limits
<1>2. PICK a : a = Lower(top, m.progress)
  OBVIOUS
<1>3. Stalled(m) = [m EXCEPT !.progress = a]
  BY <1>2 DEF Stalled, Metrics
<1> HIDE DEF top
<1>4. a \in 0..Full /\ a <= m.progress
  <2>1. m.progress \in Nat /\ m.progress <= Full
    BY MetricFields, Limits
  <2>2. a \in Nat /\ a <= m.progress
    BY <1>1, <1>2, <2>1, LowerType
  <2> QED
    BY <2>1, <2>2, Limits
<1> QED
  BY <1>3, <1>4 DEF Metrics

\* A strike more, the last one or not.
LEMMA StruckScore ==
    ASSUME NEW m \in Metrics
    PROVE  /\ Struck(m) \in 0..StrikeLimit
           /\ Rejected(m) \in Metrics /\ [m EXCEPT !.strikes = Struck(m)] \in Metrics
           /\ Rejected(m).progress = Back /\ Rejected(m).output = FALSE /\ Rejected(m).strikes = Struck(m)
           /\ [m EXCEPT !.strikes = Struck(m)].strikes = Struck(m)
<1>1. PICK s : s = Struck(m)
  OBVIOUS
<1>2. s \in 0..StrikeLimit
  BY <1>1, MetricFields, LowerCount, Limits DEF Struck
<1>3. Rejected(m) = [m EXCEPT !.strikes = s, !.progress = Back, !.output = FALSE]
  BY <1>1 DEF Rejected
<1>4. Back \in 0..Full
  BY Limits
<1> QED
  BY <1>1, <1>2, <1>3, <1>4 DEF Metrics

LEMMA TypeInit == Init => Types /\ Bounded
<1> SUFFICES ASSUME Init PROVE Types /\ Bounded
  OBVIOUS
<1>1. GoalTypes /\ FileTypes /\ ToolTypes
  BY DEF Init, GoalTypes, FileTypes, ToolTypes
<1>2. CycleTypes
  BY Limits DEF Init, CycleTypes
<1>3. MetricTypes /\ ReadTypes
  BY BlankType DEF Init, MetricTypes, ReadTypes
<1>4. CountTypes /\ Bounded
  BY Limits DEF Init, CountTypes, Bounded
<1> QED
  BY <1>1, <1>2, <1>3, <1>4 DEF Types

LEMMA BehindType == \A h \in Goals : \A m : Behind(h, m) \subseteq Goals
  BY DEF Behind

\* One step keeps the types of the goals.
LEMMA GoalStep == GoalTypes /\ [Next]_vars => GoalTypes'
<1> SUFFICES ASSUME GoalTypes, [Next]_vars PROVE GoalTypes'
  OBVIOUS
<1> USE DEF GoalTypes, goalVars
<1>1. ASSUME NEW p \in Cycles, BeginCycle(p)
      PROVE  GoalTypes'
  BY <1>1 DEF BeginCycle, Fault, Goto
<1>2. ASSUME NEW p \in Cycles, StartStep(p)
      PROVE  GoalTypes'
  BY <1>2 DEF StartStep, Goto
<1>3. ASSUME NEW p \in Cycles, NoGoal(p)
      PROVE  GoalTypes'
  BY <1>3 DEF NoGoal, Goto
<1>4. ASSUME NEW p \in Cycles, Check(p)
      PROVE  GoalTypes'
  BY <1>4 DEF Check, Goto
<1>5. ASSUME NEW p \in Cycles, Commit(p)
      PROVE  GoalTypes'
  BY <1>5 DEF Commit, Goto, Discard, Fault
<1>6. ASSUME NEW p \in Cycles, Accept(p)
      PROVE  GoalTypes'
  BY <1>6 DEF Accept, Return, Goto
<1>7. ASSUME NEW p \in Cycles, Reject(p)
      PROVE  GoalTypes'
  BY <1>7 DEF Reject, Return, Goto
<1>8. ASSUME NEW p \in Cycles, Finish(p)
      PROVE  GoalTypes'
  BY <1>8 DEF Finish, Return, Goto, Undone, Discard
<1>9. ASSUME NEW p \in Cycles, NEW c \in Caps, Skip(p, c)
      PROVE  GoalTypes'
  BY <1>9 DEF Skip, Goto
<1>10. ASSUME NEW p \in Cycles, NEW c \in Caps, NEW planned \in BOOLEAN, Succeed(p, c, planned)
      PROVE  GoalTypes'
  BY <1>10 DEF Succeed, EndStep, Goto
<1>11. ASSUME NEW p \in Cycles, NEW c \in Caps \cup {None}, Fail(p, c)
      PROVE  GoalTypes'
  BY <1>11 DEF Fail, Failing, Fault, EndStep, Goto, Silent, SetAside, Mute
<1>12. ASSUME NEW p \in Cycles, NEW c \in Caps \cup {None}, GiveUp(p, c)
      PROVE  GoalTypes'
  BY <1>12 DEF GiveUp, Failing, Fault, Return, Goto, Undone, Discard, Silent, Mute
<1>13. ASSUME NEW p \in Cycles, LeaveBehind(p)
      PROVE  GoalTypes'
  BY <1>13 DEF LeaveBehind, Fault
<1>14. ASSUME NEW p \in Cycles, TimeOut(p)
      PROVE  GoalTypes'
  BY <1>14 DEF TimeOut, Fault, Discard
<1>15. ASSUME NEW g \in Goals, CreateGoal(g)
      PROVE  GoalTypes'
  BY <1>15 DEF CreateGoal
<1>16. ASSUME NEW g \in Goals, Patch(g)
      PROVE  GoalTypes'
  BY <1>16 DEF Patch, Fault
<1>17. ASSUME Crash
      PROVE  GoalTypes'
  BY <1>17 DEF Crash, Fault
<1>18. CASE UNCHANGED vars
  BY <1>18 DEF vars
<1> QED
  BY <1>1, <1>2, <1>3, <1>4, <1>5, <1>6, <1>7, <1>8, <1>9, <1>10, <1>11, <1>12,
     <1>13, <1>14, <1>15, <1>16, <1>17, <1>18 DEF Next, Cycle

\* One step keeps the types of the metrics.
LEMMA MetricStep == MetricTypes /\ ReadTypes /\ [Next]_vars => MetricTypes'
<1> SUFFICES ASSUME MetricTypes, ReadTypes, [Next]_vars PROVE MetricTypes'
  OBVIOUS
<1> USE DEF MetricTypes, goalVars
<1>1. ASSUME NEW p \in Cycles, BeginCycle(p)
      PROVE  MetricTypes'
  BY <1>1 DEF BeginCycle, Fault, Goto
<1>2. ASSUME NEW p \in Cycles, StartStep(p)
      PROVE  MetricTypes'
  BY <1>2 DEF StartStep, Goto
<1>3. ASSUME NEW p \in Cycles, NoGoal(p)
      PROVE  MetricTypes'
  BY <1>3 DEF NoGoal, Goto
<1>4. ASSUME NEW p \in Cycles, Check(p)
      PROVE  MetricTypes'
  BY <1>4 DEF Check, Goto
<1>5. ASSUME NEW p \in Cycles, Commit(p)
      PROVE  MetricTypes'
  BY <1>5 DEF Commit, Goto, Discard, Fault
<1>6. ASSUME NEW p \in Cycles, Accept(p)
      PROVE  MetricTypes'
  BY <1>6 DEF Accept, Return, Goto
<1>7. ASSUME NEW p \in Cycles, Reject(p)
      PROVE  MetricTypes'
  <2>1. PICK i, m, n : i = goal[p] /\ m = Rejected(seen[p]) /\ n = [seen[p] EXCEPT !.strikes = Struck(seen[p])]
    OBVIOUS
  <2>2. m \in Metrics /\ n \in Metrics
    BY <2>1, StruckScore DEF ReadTypes
  <2>3. metrics' = [metrics EXCEPT ![i] = m] \/ metrics' = [metrics EXCEPT ![i] = n]
    BY <1>7, <2>1 DEF Reject
  <2> QED
    BY <2>2, <2>3
<1>8. ASSUME NEW p \in Cycles, Finish(p)
      PROVE  MetricTypes'
  BY <1>8 DEF Finish, Return, Goto, Undone, Discard
<1>9. ASSUME NEW p \in Cycles, NEW c \in Caps, Skip(p, c)
      PROVE  MetricTypes'
  BY <1>9 DEF Skip, Goto
<1>10. ASSUME NEW p \in Cycles, NEW c \in Caps, NEW planned \in BOOLEAN, Succeed(p, c, planned)
      PROVE  MetricTypes'
  <2>1. PICK h, m : h = on[p] /\ m = Stepped(seen[p], c)
    OBVIOUS
  <2>2. m \in Metrics
    BY <2>1, SteppedScore DEF ReadTypes
  <2>3. metrics' = [metrics EXCEPT ![h] = m]
    BY <1>10, <2>1 DEF Succeed
  <2> QED
    BY <2>2, <2>3
<1>11. ASSUME NEW p \in Cycles, NEW c \in Caps \cup {None}, Fail(p, c)
      PROVE  MetricTypes'
  <2>1. PICK h, m : h = on[p] /\ m = Stalled(seen[p])
    OBVIOUS
  <2>2. m \in Metrics
    BY <2>1, StalledScore DEF ReadTypes
  <2>3. metrics' = [metrics EXCEPT ![h] = m] \/ UNCHANGED metrics
    BY <1>11, <2>1 DEF Fail
  <2> QED
    BY <2>2, <2>3
<1>12. ASSUME NEW p \in Cycles, NEW c \in Caps \cup {None}, GiveUp(p, c)
      PROVE  MetricTypes'
  <2>1. PICK h, m : h = on[p] /\ m = Stalled(seen[p])
    OBVIOUS
  <2>2. PICK i, n : i = goal[p] /\ n = begun[p]
    OBVIOUS
  <2>3. m \in Metrics /\ n \in Metrics
    BY <2>1, <2>2, StalledScore DEF ReadTypes
  <2>4. metrics' = [metrics EXCEPT ![i] = n] \/ metrics' = [metrics EXCEPT ![h] = m, ![i] = n]
    BY <1>12, <2>1, <2>2 DEF GiveUp
  <2> QED
    BY <2>3, <2>4
<1>13. ASSUME NEW p \in Cycles, LeaveBehind(p)
      PROVE  MetricTypes'
  BY <1>13 DEF LeaveBehind, Fault
<1>14. ASSUME NEW p \in Cycles, TimeOut(p)
      PROVE  MetricTypes'
  BY <1>14 DEF TimeOut, Fault, Discard
<1>15. ASSUME NEW g \in Goals, CreateGoal(g)
      PROVE  MetricTypes'
  BY <1>15 DEF CreateGoal
<1>16. ASSUME NEW g \in Goals, Patch(g)
      PROVE  MetricTypes'
  BY <1>16, Limits DEF Patch, Fault
<1>17. ASSUME Crash
      PROVE  MetricTypes'
  BY <1>17 DEF Crash, Fault
<1>18. CASE UNCHANGED vars
  BY <1>18 DEF vars
<1> QED
  BY <1>1, <1>2, <1>3, <1>4, <1>5, <1>6, <1>7, <1>8, <1>9, <1>10, <1>11, <1>12,
     <1>13, <1>14, <1>15, <1>16, <1>17, <1>18 DEF Next, Cycle

\* One step keeps the types of the files.
LEMMA FileStep == CycleTypes /\ FileTypes /\ [Next]_vars => FileTypes'
<1> SUFFICES ASSUME CycleTypes, FileTypes, [Next]_vars PROVE FileTypes'
  OBVIOUS
<1> USE Limits DEF FileTypes, fileVars, txnVars
<1>1. ASSUME NEW p \in Cycles, BeginCycle(p)
      PROVE  FileTypes'
  BY <1>1 DEF BeginCycle, Fault, Goto
<1>2. ASSUME NEW p \in Cycles, StartStep(p)
      PROVE  FileTypes'
  BY <1>2 DEF StartStep, Goto
<1>3. ASSUME NEW p \in Cycles, NoGoal(p)
      PROVE  FileTypes'
  BY <1>3 DEF NoGoal, Goto
<1>4. ASSUME NEW p \in Cycles, Check(p)
      PROVE  FileTypes'
  BY <1>4 DEF Check, Goto
<1>5. ASSUME NEW p \in Cycles, Commit(p)
      PROVE  FileTypes'
  BY <1>5 DEF Commit, Goto, Discard, Fault
<1>6. ASSUME NEW p \in Cycles, Accept(p)
      PROVE  FileTypes'
  <2>1. Behind(goal[p], seen[p]) \subseteq Goals
    BY <1>6, BehindType DEF Accept, CycleTypes
  <2> QED
    BY <1>6, <2>1 DEF Accept
<1>7. ASSUME NEW p \in Cycles, Reject(p)
      PROVE  FileTypes'
  <2>1. Behind(goal[p], seen[p]) \subseteq Goals
    BY <1>7, BehindType DEF Reject, CycleTypes
  <2>2. onDisk' \subseteq Goals
    BY <1>7 DEF Reject
  <2> QED
    BY <1>7, <2>1, <2>2 DEF Reject
<1>8. ASSUME NEW p \in Cycles, Finish(p)
      PROVE  FileTypes'
  BY <1>8 DEF Finish, Return, Goto, Undone, Discard
<1>9. ASSUME NEW p \in Cycles, NEW c \in Caps, Skip(p, c)
      PROVE  FileTypes'
  BY <1>9 DEF Skip, Goto
<1>10. ASSUME NEW p \in Cycles, NEW c \in Caps, NEW planned \in BOOLEAN, Succeed(p, c, planned)
      PROVE  FileTypes'
  <2>1. on[p] \in Goals /\ Behind(on[p], seen[p]) \subseteq Goals
    BY <1>10, BehindType DEF Succeed, CycleTypes
  <2>2. staged' \in [Cycles -> SUBSET Goals] /\ onDisk' \subseteq Goals
    BY <1>10, <2>1 DEF Succeed
  <2> QED
    BY <1>10, <2>1, <2>2 DEF Succeed
<1>11. ASSUME NEW p \in Cycles, NEW c \in Caps \cup {None}, Fail(p, c)
      PROVE  FileTypes'
  <2>1. Behind(on[p], seen[p]) \subseteq Goals
    BY <1>11, BehindType DEF Fail, Failing, CycleTypes
  <2> QED
    BY <1>11, <2>1 DEF Fail
<1>12. ASSUME NEW p \in Cycles, NEW c \in Caps \cup {None}, GiveUp(p, c)
      PROVE  FileTypes'
  <2>1. Behind(on[p], seen[p]) \subseteq Goals /\ Behind(goal[p], begun[p]) \subseteq Goals
    BY <1>12, BehindType DEF GiveUp, Failing, CycleTypes
  <2>2. disturbed' \subseteq Goals
    BY <1>12, <2>1 DEF GiveUp
  <2> QED
    BY <1>12, <2>2 DEF GiveUp, Undone, Discard
<1>13. ASSUME NEW p \in Cycles, LeaveBehind(p)
      PROVE  FileTypes'
  BY <1>13 DEF LeaveBehind, Fault
<1>14. ASSUME NEW p \in Cycles, TimeOut(p)
      PROVE  FileTypes'
  BY <1>14 DEF TimeOut, Fault, Discard
<1>15. ASSUME NEW g \in Goals, CreateGoal(g)
      PROVE  FileTypes'
  BY <1>15 DEF CreateGoal
<1>16. ASSUME NEW g \in Goals, Patch(g)
      PROVE  FileTypes'
  BY <1>16 DEF Patch, Fault
<1>17. ASSUME Crash
      PROVE  FileTypes'
  BY <1>17 DEF Crash, Fault
<1>18. CASE UNCHANGED vars
  BY <1>18 DEF vars
<1> QED
  BY <1>1, <1>2, <1>3, <1>4, <1>5, <1>6, <1>7, <1>8, <1>9, <1>10, <1>11, <1>12,
     <1>13, <1>14, <1>15, <1>16, <1>17, <1>18 DEF Next, Cycle

\* One step keeps the types of the cycles.
LEMMA CycleStep == CycleTypes /\ [Next]_vars => CycleTypes'
<1> SUFFICES ASSUME CycleTypes, [Next]_vars PROVE CycleTypes'
  OBVIOUS
<1> USE Limits DEF CycleTypes, cycleVars
<1>1. ASSUME NEW p \in Cycles, BeginCycle(p)
      PROVE  CycleTypes'
  BY <1>1, FirstIsActive DEF BeginCycle, Fault, Goto, Active
<1>2. ASSUME NEW p \in Cycles, StartStep(p)
      PROVE  CycleTypes'
  BY <1>2, FirstIsActive DEF StartStep, Goto, Active
<1>3. ASSUME NEW p \in Cycles, NoGoal(p)
      PROVE  CycleTypes'
  BY <1>3 DEF NoGoal, Goto
<1>4. ASSUME NEW p \in Cycles, Check(p)
      PROVE  CycleTypes'
  BY <1>4 DEF Check, Goto
<1>5. ASSUME NEW p \in Cycles, Commit(p)
      PROVE  CycleTypes'
  BY <1>5 DEF Commit, Goto, Discard, Fault
<1>6. ASSUME NEW p \in Cycles, Accept(p)
      PROVE  CycleTypes'
  BY <1>6 DEF Accept, Return, Goto
<1>7. ASSUME NEW p \in Cycles, Reject(p)
      PROVE  CycleTypes'
  <2>1. CASE Return(p)
    BY <1>7, <2>1 DEF Return, Goto
  <2>2. CASE Goto(p, "finish") /\ UNCHANGED <<goal, on, txn, left>>
    BY <1>7, <2>2 DEF Reject, Goto
  <2> QED
    BY <1>7, <2>1, <2>2 DEF Reject
<1>8. ASSUME NEW p \in Cycles, Finish(p)
      PROVE  CycleTypes'
  BY <1>8 DEF Finish, Return, Goto, Undone, Discard
<1>9. ASSUME NEW p \in Cycles, NEW c \in Caps, Skip(p, c)
      PROVE  CycleTypes'
  BY <1>9 DEF Skip, Goto
<1>10. ASSUME NEW p \in Cycles, NEW c \in Caps, NEW planned \in BOOLEAN, Succeed(p, c, planned)
      PROVE  CycleTypes'
  BY <1>10 DEF Succeed, EndStep, Goto
<1>11. ASSUME NEW p \in Cycles, NEW c \in Caps \cup {None}, Fail(p, c)
      PROVE  CycleTypes'
  BY <1>11 DEF Fail, Failing, Fault, EndStep, Goto, Silent, SetAside, Mute
<1>12. ASSUME NEW p \in Cycles, NEW c \in Caps \cup {None}, GiveUp(p, c)
      PROVE  CycleTypes'
  BY <1>12 DEF GiveUp, Failing, Fault, Return, Goto, Undone, Discard, Silent, Mute
<1>13. ASSUME NEW p \in Cycles, LeaveBehind(p)
      PROVE  CycleTypes'
  BY <1>13 DEF LeaveBehind, Fault
<1>14. ASSUME NEW p \in Cycles, TimeOut(p)
      PROVE  CycleTypes'
  BY <1>14 DEF TimeOut, Fault, Discard
<1>15. ASSUME NEW g \in Goals, CreateGoal(g)
      PROVE  CycleTypes'
  BY <1>15 DEF CreateGoal
<1>16. ASSUME NEW g \in Goals, Patch(g)
      PROVE  CycleTypes'
  BY <1>16 DEF Patch, Fault
<1>17. ASSUME Crash
      PROVE  CycleTypes'
  BY <1>17 DEF Crash, Fault
<1>18. CASE UNCHANGED vars
  BY <1>18 DEF vars
<1> QED
  BY <1>1, <1>2, <1>3, <1>4, <1>5, <1>6, <1>7, <1>8, <1>9, <1>10, <1>11, <1>12,
     <1>13, <1>14, <1>15, <1>16, <1>17, <1>18 DEF Next, Cycle

\* What a cycle has read are metrics.
LEMMA ReadStep == MetricTypes /\ CycleTypes /\ ReadTypes /\ [Next]_vars => ReadTypes'
<1> SUFFICES ASSUME MetricTypes, CycleTypes, ReadTypes, [Next]_vars PROVE ReadTypes'
  OBVIOUS
<1> USE BlankType DEF ReadTypes, cycleVars
<1>1. ASSUME NEW p \in Cycles, BeginCycle(p)
      PROVE  ReadTypes'
  BY <1>1, FirstIsActive DEF BeginCycle, Fault, Goto, Active, MetricTypes
<1>2. ASSUME NEW p \in Cycles, StartStep(p)
      PROVE  ReadTypes'
  BY <1>2, FirstIsActive DEF StartStep, Goto, Active, MetricTypes
<1>3. ASSUME NEW p \in Cycles, NoGoal(p)
      PROVE  ReadTypes'
  BY <1>3 DEF NoGoal, Goto
<1>4. ASSUME NEW p \in Cycles, Check(p)
      PROVE  ReadTypes'
  BY <1>4 DEF Check, Goto, MetricTypes, CycleTypes
<1>5. ASSUME NEW p \in Cycles, Commit(p)
      PROVE  ReadTypes'
  BY <1>5 DEF Commit, Goto, Discard, Fault
<1>6. ASSUME NEW p \in Cycles, Accept(p)
      PROVE  ReadTypes'
  BY <1>6 DEF Accept, Return, Goto
<1>7. ASSUME NEW p \in Cycles, Reject(p)
      PROVE  ReadTypes'
  BY <1>7 DEF Reject, Return, Goto
<1>8. ASSUME NEW p \in Cycles, Finish(p)
      PROVE  ReadTypes'
  BY <1>8 DEF Finish, Return, Goto, Undone, Discard
<1>9. ASSUME NEW p \in Cycles, NEW c \in Caps, Skip(p, c)
      PROVE  ReadTypes'
  BY <1>9 DEF Skip, Goto
<1>10. ASSUME NEW p \in Cycles, NEW c \in Caps, NEW planned \in BOOLEAN, Succeed(p, c, planned)
      PROVE  ReadTypes'
  BY <1>10 DEF Succeed, EndStep, Goto
<1>11. ASSUME NEW p \in Cycles, NEW c \in Caps \cup {None}, Fail(p, c)
      PROVE  ReadTypes'
  BY <1>11 DEF Fail, Failing, Fault, EndStep, Goto, Silent, SetAside, Mute
<1>12. ASSUME NEW p \in Cycles, NEW c \in Caps \cup {None}, GiveUp(p, c)
      PROVE  ReadTypes'
  BY <1>12 DEF GiveUp, Failing, Fault, Return, Goto, Undone, Discard, Silent, Mute
<1>13. ASSUME NEW p \in Cycles, LeaveBehind(p)
      PROVE  ReadTypes'
  BY <1>13 DEF LeaveBehind, Fault
<1>14. ASSUME NEW p \in Cycles, TimeOut(p)
      PROVE  ReadTypes'
  BY <1>14 DEF TimeOut, Fault, Discard
<1>15. ASSUME NEW g \in Goals, CreateGoal(g)
      PROVE  ReadTypes'
  BY <1>15 DEF CreateGoal
<1>16. ASSUME NEW g \in Goals, Patch(g)
      PROVE  ReadTypes'
  BY <1>16 DEF Patch, Fault
<1>17. ASSUME Crash
      PROVE  ReadTypes'
  BY <1>17 DEF Crash, Fault
<1>18. CASE UNCHANGED vars
  BY <1>18 DEF vars
<1> QED
  BY <1>1, <1>2, <1>3, <1>4, <1>5, <1>6, <1>7, <1>8, <1>9, <1>10, <1>11, <1>12,
     <1>13, <1>14, <1>15, <1>16, <1>17, <1>18 DEF Next, Cycle

\* One step keeps the counts in their bounds.
LEMMA CountStep == CountTypes /\ Bounded /\ [Next]_vars => CountTypes'
<1> SUFFICES ASSUME CountTypes, Bounded, [Next]_vars PROVE CountTypes'
  OBVIOUS
<1> USE Limits, LowerCount DEF CountTypes, cycleVars, planVars, toolVars
<1>1. ASSUME NEW p \in Cycles, BeginCycle(p)
      PROVE  CountTypes'
  BY <1>1 DEF BeginCycle, Fault, Goto
<1>2. ASSUME NEW p \in Cycles, StartStep(p)
      PROVE  CountTypes'
  BY <1>2 DEF StartStep, Goto
<1>3. ASSUME NEW p \in Cycles, NoGoal(p)
      PROVE  CountTypes'
  BY <1>3 DEF NoGoal, Goto
<1>4. ASSUME NEW p \in Cycles, Check(p)
      PROVE  CountTypes'
  BY <1>4 DEF Check, Goto
<1>5. ASSUME NEW p \in Cycles, Commit(p)
      PROVE  CountTypes'
  BY <1>5 DEF Commit, Goto, Discard, Fault
<1>6. ASSUME NEW p \in Cycles, Accept(p)
      PROVE  CountTypes'
  BY <1>6 DEF Accept, Return, Goto
<1>7. ASSUME NEW p \in Cycles, Reject(p)
      PROVE  CountTypes'
  <2>1. CASE Return(p)
    BY <1>7, <2>1 DEF Reject, Return
  <2>2. CASE UNCHANGED <<steps, streak, fails>>
    BY <1>7, <2>2 DEF Reject
  <2> QED
    BY <1>7, <2>1, <2>2 DEF Reject, planVars
<1>8. ASSUME NEW p \in Cycles, Finish(p)
      PROVE  CountTypes'
  BY <1>8 DEF Finish, Return, Goto, Undone, Discard
<1>9. ASSUME NEW p \in Cycles, NEW c \in Caps, Skip(p, c)
      PROVE  CountTypes'
  <2>1. steps' \in [Cycles -> 0..MaxSteps] /\ streak' \in [Cycles -> 0..StreakLimit]
    BY <1>9 DEF Skip, Bounded
  <2>2. fails[p] \in [Caps -> 0..FailLimit] /\ FailLimit \in 0..FailLimit
    OBVIOUS
  <2>3. fails' = fails \/ fails' = [fails EXCEPT ![p][c] = FailLimit]
    BY <1>9 DEF Skip
  <2>4. fails' \in [Cycles -> [Caps -> 0..FailLimit]]
    BY <2>2, <2>3
  <2> QED
    BY <1>9, <2>1, <2>4 DEF Skip
<1>10. ASSUME NEW p \in Cycles, NEW c \in Caps, NEW planned \in BOOLEAN, Succeed(p, c, planned)
      PROVE  CountTypes'
  BY <1>10 DEF Succeed, EndStep, Goto, Bounded
<1>11. ASSUME NEW p \in Cycles, NEW c \in Caps \cup {None}, Fail(p, c)
      PROVE  CountTypes'
  <2>1. steps' \in [Cycles -> 0..MaxSteps] /\ streak' \in [Cycles -> 0..StreakLimit]
    BY <1>11 DEF Fail, Failing, EndStep, Bounded
  <2>2. CASE c = None
    <3>1. UNCHANGED <<nulls, fails>> /\ faults' \in 0..MaxFaults
      BY <1>11, <2>2 DEF Fail, Failing, Fault
    <3> QED
      BY <2>1, <3>1
  <2>3. CASE c # None
    <3>1. PICK k : k = Lower(FailLimit, fails[p][c] + 1)
      OBVIOUS
    <3>2. fails' = [fails EXCEPT ![p][c] = k]
      BY <1>11, <2>3, <3>1 DEF Fail, SetAside
    <3>3. c \in Caps /\ fails[p][c] \in 0..FailLimit
      BY <2>3
    <3>4. fails' \in [Cycles -> [Caps -> 0..FailLimit]]
      BY <3>1, <3>2, <3>3
    <3>5. nulls' \in [Tools -> 0..NullLimit]
      BY <1>11, <2>3 DEF Fail, Silent
    <3>6. faults' \in 0..MaxFaults
      BY <1>11 DEF Fail, Failing, Fault
    <3> QED
      BY <2>1, <3>4, <3>5, <3>6
  <2> QED
    BY <2>2, <2>3
<1>12. ASSUME NEW p \in Cycles, NEW c \in Caps \cup {None}, GiveUp(p, c)
      PROVE  CountTypes'
  BY <1>12 DEF GiveUp, Failing, Fault, Return, Goto, Undone, Discard, Silent, Mute
<1>13. ASSUME NEW p \in Cycles, LeaveBehind(p)
      PROVE  CountTypes'
  BY <1>13 DEF LeaveBehind, Fault
<1>14. ASSUME NEW p \in Cycles, TimeOut(p)
      PROVE  CountTypes'
  BY <1>14 DEF TimeOut, Fault, Discard
<1>15. ASSUME NEW g \in Goals, CreateGoal(g)
      PROVE  CountTypes'
  BY <1>15 DEF CreateGoal
<1>16. ASSUME NEW g \in Goals, Patch(g)
      PROVE  CountTypes'
  BY <1>16 DEF Patch, Fault
<1>17. ASSUME Crash
      PROVE  CountTypes'
  BY <1>17 DEF Crash, Fault
<1>18. CASE UNCHANGED vars
  BY <1>18 DEF vars
<1> QED
  BY <1>1, <1>2, <1>3, <1>4, <1>5, <1>6, <1>7, <1>8, <1>9, <1>10, <1>11, <1>12,
     <1>13, <1>14, <1>15, <1>16, <1>17, <1>18 DEF Next, Cycle

\* One step keeps the types of the capabilities.
LEMMA ToolStep == ToolTypes /\ [Next]_vars => ToolTypes'
<1> SUFFICES ASSUME ToolTypes, [Next]_vars PROVE ToolTypes'
  OBVIOUS
<1> USE DEF ToolTypes, toolVars, cycleVars, planVars, Caps
<1>1. ASSUME NEW p \in Cycles, BeginCycle(p)
      PROVE  ToolTypes'
  BY <1>1 DEF BeginCycle, Fault, Goto
<1>2. ASSUME NEW p \in Cycles, StartStep(p)
      PROVE  ToolTypes'
  BY <1>2 DEF StartStep, Goto
<1>3. ASSUME NEW p \in Cycles, NoGoal(p)
      PROVE  ToolTypes'
  BY <1>3 DEF NoGoal, Goto
<1>4. ASSUME NEW p \in Cycles, Check(p)
      PROVE  ToolTypes'
  BY <1>4 DEF Check, Goto
<1>5. ASSUME NEW p \in Cycles, Commit(p)
      PROVE  ToolTypes'
  BY <1>5 DEF Commit, Goto, Discard, Fault
<1>6. ASSUME NEW p \in Cycles, Accept(p)
      PROVE  ToolTypes'
  BY <1>6 DEF Accept, Return, Goto
<1>7. ASSUME NEW p \in Cycles, Reject(p)
      PROVE  ToolTypes'
  BY <1>7 DEF Reject, Return, Goto
<1>8. ASSUME NEW p \in Cycles, Finish(p)
      PROVE  ToolTypes'
  BY <1>8 DEF Finish, Return, Goto, Undone, Discard
<1>9. ASSUME NEW p \in Cycles, NEW c \in Caps, Skip(p, c)
      PROVE  ToolTypes'
  BY <1>9 DEF Skip, Goto
<1>10. ASSUME NEW p \in Cycles, NEW c \in Caps, NEW planned \in BOOLEAN, Succeed(p, c, planned)
      PROVE  ToolTypes'
  BY <1>10 DEF Succeed, EndStep, Goto
<1>11. ASSUME NEW p \in Cycles, NEW c \in Caps \cup {None}, Fail(p, c)
      PROVE  ToolTypes'
  BY <1>11 DEF Fail, Failing, Fault, EndStep, Goto, Silent, SetAside, Mute
<1>12. ASSUME NEW p \in Cycles, NEW c \in Caps \cup {None}, GiveUp(p, c)
      PROVE  ToolTypes'
  BY <1>12 DEF GiveUp, Failing, Fault, Return, Goto, Undone, Discard, Silent, Mute
<1>13. ASSUME NEW p \in Cycles, LeaveBehind(p)
      PROVE  ToolTypes'
  BY <1>13 DEF LeaveBehind, Fault
<1>14. ASSUME NEW p \in Cycles, TimeOut(p)
      PROVE  ToolTypes'
  BY <1>14 DEF TimeOut, Fault, Discard
<1>15. ASSUME NEW g \in Goals, CreateGoal(g)
      PROVE  ToolTypes'
  BY <1>15 DEF CreateGoal
<1>16. ASSUME NEW g \in Goals, Patch(g)
      PROVE  ToolTypes'
  BY <1>16 DEF Patch, Fault
<1>17. ASSUME Crash
      PROVE  ToolTypes'
  BY <1>17 DEF Crash, Fault
<1>18. CASE UNCHANGED vars
  BY <1>18 DEF vars
<1> QED
  BY <1>1, <1>2, <1>3, <1>4, <1>5, <1>6, <1>7, <1>8, <1>9, <1>10, <1>11, <1>12,
     <1>13, <1>14, <1>15, <1>16, <1>17, <1>18 DEF Next, Cycle

\* One step counts within the limit.
LEMMA BoundedStep == CycleTypes /\ CountTypes /\ Bounded /\ [Next]_vars => Bounded'
<1> SUFFICES ASSUME CycleTypes, CountTypes, Bounded, [Next]_vars PROVE Bounded'
  OBVIOUS
<1> USE Limits DEF CycleTypes, Bounded, cycleVars
<1>1. ASSUME NEW p \in Cycles, BeginCycle(p)
      PROVE  Bounded'
  BY <1>1 DEF BeginCycle, Fault, Goto
<1>2. ASSUME NEW p \in Cycles, StartStep(p)
      PROVE  Bounded'
  BY <1>2 DEF StartStep, Goto
<1>3. ASSUME NEW p \in Cycles, NoGoal(p)
      PROVE  Bounded'
  BY <1>3 DEF NoGoal, Goto
<1>4. ASSUME NEW p \in Cycles, Check(p)
      PROVE  Bounded'
  BY <1>4 DEF Check, Goto
<1>5. ASSUME NEW p \in Cycles, Commit(p)
      PROVE  Bounded'
  BY <1>5 DEF Commit, Goto, Discard, Fault
<1>6. ASSUME NEW p \in Cycles, Accept(p)
      PROVE  Bounded'
  <2>0. steps \in [Cycles -> 0..MaxSteps]
    BY DEF CountTypes
  <2>1. at' = [at EXCEPT ![p] = "idle"] /\ steps' = [steps EXCEPT ![p] = 0]
    BY <1>6 DEF Accept, Return, Goto
  <2> QED
    BY <2>0, <2>1, Limits
<1>7. ASSUME NEW p \in Cycles, Reject(p)
      PROVE  Bounded'
  <2>0. steps \in [Cycles -> 0..MaxSteps]
    BY DEF CountTypes
  <2>1. CASE Return(p)
    <3>1. at' = [at EXCEPT ![p] = "idle"] /\ steps' = [steps EXCEPT ![p] = 0]
      BY <2>1 DEF Return, Goto
    <3> QED
      BY <2>0, <3>1
  <2>2. CASE Goto(p, "finish") /\ UNCHANGED steps
    BY <2>2 DEF Goto
  <2> QED
    BY <1>7, <2>1, <2>2 DEF Reject
<1>8. ASSUME NEW p \in Cycles, Finish(p)
      PROVE  Bounded'
  <2>0. steps \in [Cycles -> 0..MaxSteps]
    BY DEF CountTypes
  <2>1. at' = [at EXCEPT ![p] = "idle"] /\ steps' = [steps EXCEPT ![p] = 0]
    BY <1>8 DEF Finish, Return, Goto
  <2> QED
    BY <2>0, <2>1, Limits
<1>9. ASSUME NEW p \in Cycles, NEW c \in Caps, Skip(p, c)
      PROVE  Bounded'
  BY <1>9 DEF Skip, Goto, CountTypes
<1>10. ASSUME NEW p \in Cycles, NEW c \in Caps, NEW planned \in BOOLEAN, Succeed(p, c, planned)
      PROVE  Bounded'
  BY <1>10 DEF Succeed, EndStep, Goto, CountTypes
<1>11. ASSUME NEW p \in Cycles, NEW c \in Caps \cup {None}, Fail(p, c)
      PROVE  Bounded'
  BY <1>11 DEF Fail, Failing, Fault, EndStep, Goto, Silent, SetAside, Mute, CountTypes
<1>12. ASSUME NEW p \in Cycles, NEW c \in Caps \cup {None}, GiveUp(p, c)
      PROVE  Bounded'
  <2>0. steps \in [Cycles -> 0..MaxSteps]
    BY DEF CountTypes
  <2>1. at' = [at EXCEPT ![p] = "idle"] /\ steps' = [steps EXCEPT ![p] = 0]
    BY <1>12 DEF GiveUp, Return, Goto
  <2> QED
    BY <2>0, <2>1, Limits
<1>13. ASSUME NEW p \in Cycles, LeaveBehind(p)
      PROVE  Bounded'
  BY <1>13 DEF LeaveBehind, Fault
<1>14. ASSUME NEW p \in Cycles, TimeOut(p)
      PROVE  Bounded'
  BY <1>14 DEF TimeOut, Fault, Discard
<1>15. ASSUME NEW g \in Goals, CreateGoal(g)
      PROVE  Bounded'
  BY <1>15 DEF CreateGoal
<1>16. ASSUME NEW g \in Goals, Patch(g)
      PROVE  Bounded'
  BY <1>16 DEF Patch, Fault
<1>17. ASSUME Crash
      PROVE  Bounded'
  BY <1>17 DEF Crash, Fault
<1>18. CASE UNCHANGED vars
  BY <1>18 DEF vars
<1> QED
  BY <1>1, <1>2, <1>3, <1>4, <1>5, <1>6, <1>7, <1>8, <1>9, <1>10, <1>11, <1>12,
     <1>13, <1>14, <1>15, <1>16, <1>17, <1>18 DEF Next, Cycle

\* Every variable keeps its type, and a goal is pursued whenever a cycle runs.
THEOREM Typing == Spec => []TypeOK
<1>1. Types /\ Bounded /\ [Next]_vars => (Types /\ Bounded)'
  BY GoalStep, MetricStep, FileStep, CycleStep, ReadStep, CountStep, ToolStep, BoundedStep DEF Types
<1> QED
  BY <1>1, TypeInit, TypeParts, PTL DEF Spec

-----------------------------------------------------------------------------
(* Progress beyond the gate. *)

\* A goal has a product of the time since its last rejection, or has had its
\* last strike (which leaves the metrics as they are, and ends the goal).
Merited(g) == g \in earned \/ metrics[g].strikes = StrikeLimit

\* As long as nothing has disturbed a goal, its file is right about what it has
\* produced, and the last strike has ended it.
EarnedFor(g) ==
    /\ metrics[g].output => Merited(g)
    /\ metrics[g].progress > Gate => Merited(g)
    /\ metrics[g].strikes = StrikeLimit => status[g] \notin {"none", "active"}

Earning == \A g \in Goals \ disturbed : EarnedFor(g)

\* A step that changes what EarnedFor speaks of.
Scored ==
    \/ \E p \in Cycles : Accept(p) \/ Reject(p)
    \/ \E p \in Cycles, c \in Caps, planned \in BOOLEAN : Succeed(p, c, planned)
    \/ \E p \in Cycles, c \in Caps \cup {None} : Fail(p, c) \/ GiveUp(p, c)
    \/ \E g \in Goals : CreateGoal(g) \/ Patch(g)

\* Every other step leaves it alone.
LEMMA ScoredKind == [Next]_vars => Scored \/ UNCHANGED <<goalVars, earned, disturbed>>
<1> DEFINE Goal == Scored \/ UNCHANGED <<goalVars, earned, disturbed>>
<1> SUFFICES ASSUME [Next]_vars PROVE Goal
  OBVIOUS
<1> USE DEF fileVars
<1>1. ASSUME NEW p \in Cycles, BeginCycle(p)
      PROVE  Goal
  BY <1>1 DEF BeginCycle, Fault, Goto
<1>2. ASSUME NEW p \in Cycles, StartStep(p)
      PROVE  Goal
  BY <1>2 DEF StartStep, Goto
<1>3. ASSUME NEW p \in Cycles, NoGoal(p)
      PROVE  Goal
  BY <1>3 DEF NoGoal, Goto
<1>4. ASSUME NEW p \in Cycles, Check(p)
      PROVE  Goal
  BY <1>4 DEF Check, Goto
<1>5. ASSUME NEW p \in Cycles, Commit(p)
      PROVE  Goal
  BY <1>5 DEF Commit, Goto, Discard, Fault
<1>6. ASSUME NEW p \in Cycles, Accept(p)
      PROVE  Goal
  BY <1>6 DEF Scored
<1>7. ASSUME NEW p \in Cycles, Reject(p)
      PROVE  Goal
  BY <1>7 DEF Scored
<1>8. ASSUME NEW p \in Cycles, Finish(p)
      PROVE  Goal
  BY <1>8 DEF Finish, Return, Goto, Undone, Discard
<1>9. ASSUME NEW p \in Cycles, NEW c \in Caps, Skip(p, c)
      PROVE  Goal
  BY <1>9 DEF Skip, Goto
<1>10. ASSUME NEW p \in Cycles, NEW c \in Caps, NEW planned \in BOOLEAN, Succeed(p, c, planned)
      PROVE  Goal
  BY <1>10 DEF Scored
<1>11. ASSUME NEW p \in Cycles, NEW c \in Caps \cup {None}, Fail(p, c)
      PROVE  Goal
  BY <1>11 DEF Scored
<1>12. ASSUME NEW p \in Cycles, NEW c \in Caps \cup {None}, GiveUp(p, c)
      PROVE  Goal
  BY <1>12 DEF Scored
<1>13. ASSUME NEW p \in Cycles, LeaveBehind(p)
      PROVE  Goal
  BY <1>13 DEF LeaveBehind, Fault
<1>14. ASSUME NEW p \in Cycles, TimeOut(p)
      PROVE  Goal
  BY <1>14 DEF TimeOut, Fault, Discard
<1>15. ASSUME NEW g \in Goals, CreateGoal(g)
      PROVE  Goal
  BY <1>15 DEF Scored
<1>16. ASSUME NEW g \in Goals, Patch(g)
      PROVE  Goal
  BY <1>16 DEF Scored
<1>17. ASSUME Crash
      PROVE  Goal
  BY <1>17 DEF Crash, Fault
<1>18. CASE UNCHANGED vars
  BY <1>18 DEF vars
<1> HIDE DEF Goal, fileVars
<1> QED
  BY <1>1, <1>2, <1>3, <1>4, <1>5, <1>6, <1>7, <1>8, <1>9, <1>10, <1>11, <1>12,
     <1>13, <1>14, <1>15, <1>16, <1>17, <1>18 DEF Next, Cycle

\* What has not been disturbed was written by a cycle that knew it.
LEMMA Known == \A h, g, m : g \notin Behind(h, m) /\ g = h => metrics[g] = m
  BY DEF Behind

\* A goal that is given up keeps its metrics, and that of the last step has stalled.
LEMMA GivenUp ==
    ASSUME metrics \in [Goals -> Metrics], NEW p \in Cycles, NEW c, GiveUp(p, c),
           NEW g \in Goals, g \notin disturbed', metrics'[g] # metrics[g]
    PROVE  metrics'[g] = Stalled(metrics[g])
<1>1. PICK n, k : n = Stalled(seen[p]) /\ k = begun[p]
  OBVIOUS
<1>2. \/ metrics' = [metrics EXCEPT ![goal[p]] = k] /\ g \notin Behind(goal[p], k)
      \/ /\ metrics' = [metrics EXCEPT ![on[p]] = n, ![goal[p]] = k]
         /\ g \notin Behind(on[p], seen[p]) /\ g \notin Behind(goal[p], k)
  BY <1>1 DEF GiveUp
<1>3. g # goal[p]
  BY <1>2, Known
<1>4. g = on[p] /\ metrics'[g] = n /\ g \notin Behind(on[p], seen[p])
  BY <1>2, <1>3
<1> QED
  BY <1>1, <1>4, Known

LEMMA EarningStep ==
    Types /\ Earning /\ [Next]_vars => Earning'
<1> SUFFICES ASSUME Types, Earning, [Next]_vars, NEW g \in Goals, g \notin disturbed'
             PROVE  EarnedFor(g)'
  BY DEF Earning
<1> USE DEF EarnedFor, Merited
<1>0. /\ metrics \in [Goals -> Metrics] /\ metrics[g] \in Metrics
      /\ status \in [Goals -> {"none", "active", "paused", "completed", "abandoned"}]
  BY DEF Types, GoalTypes, MetricTypes
<1>1. ASSUME NEW p \in Cycles, Accept(p)
      PROVE  EarnedFor(g)'
  <2>1. g \notin disturbed
    BY <1>1 DEF Accept
  <2>2. status'[g] \in {status[g], "completed"} /\ UNCHANGED <<metrics, earned>>
    BY <1>0, <1>1 DEF Accept, fileVars
  <2> QED
    BY <2>1, <2>2 DEF Earning
<1>2. ASSUME NEW p \in Cycles, Reject(p)
      PROVE  EarnedFor(g)'
  <2>1. g \notin disturbed /\ EarnedFor(g)
    BY <1>2 DEF Reject, Earning
  <2>2. CASE g # goal[p]
    BY <1>0, <1>2, <2>1, <2>2 DEF Reject
  <2>3. CASE g = goal[p]
    <3>1. PICK m : m = seen[p]
      OBVIOUS
    <3>2. metrics[g] = m /\ m \in Metrics
      BY <1>0, <1>2, <2>3, <3>1, Known DEF Reject
    <3>3. CASE Struck(m) >= StrikeLimit
      <4>1. metrics'[g] = [m EXCEPT !.strikes = Struck(m)] /\ status'[g] = "abandoned"
        BY <1>0, <1>2, <2>3, <3>1, <3>3 DEF Reject
      <4>2. Struck(m) = StrikeLimit
        <5>1. Struck(m) \in 0..StrikeLimit
          BY <3>2, StruckScore
        <5> QED
          BY <3>3, <5>1, Limits
      <4>3. metrics'[g].strikes = StrikeLimit
        BY <3>2, <4>1, <4>2, StruckScore
      <4> QED
        BY <4>1, <4>3
    <3>4. CASE ~(Struck(m) >= StrikeLimit)
      <4>1. metrics'[g] = Rejected(m)
        BY <1>0, <1>2, <2>3, <3>1, <3>4 DEF Reject
      <4>2. metrics'[g].progress = Back /\ metrics'[g].output = FALSE /\ metrics'[g].strikes = Struck(m)
        BY <3>2, <4>1, StruckScore
      <4>3. Struck(m) # StrikeLimit /\ ~(Back > Gate)
        <5>1. Struck(m) \in 0..StrikeLimit
          BY <3>2, StruckScore
        <5> QED
          BY <3>4, <5>1, Limits
      <4> QED
        BY <4>2, <4>3
    <3> QED
      BY <3>3, <3>4
  <2> QED
    BY <2>2, <2>3
<1>3. ASSUME NEW p \in Cycles, NEW c \in Caps, NEW planned \in BOOLEAN, Succeed(p, c, planned)
      PROVE  EarnedFor(g)'
  <2>1. g \notin disturbed /\ EarnedFor(g) /\ status' = status /\ earned \subseteq earned'
    BY <1>3 DEF Succeed, Earning
  <2>2. CASE g # on[p]
    BY <1>0, <1>3, <2>1, <2>2 DEF Succeed
  <2>3. CASE g = on[p]
    <3>1. PICK m : m = metrics[g]
      OBVIOUS
    <3>2. seen[p] = m
      BY <1>3, <2>3, <3>1, Known DEF Succeed
    <3>3. metrics'[g] = Stepped(m, c) /\ (Valuable(c) => g \in earned')
      BY <1>0, <1>3, <2>3, <3>2 DEF Succeed
    <3>4. /\ Stepped(m, c).progress > Gate => Produced(m, c)
          /\ Stepped(m, c).output <=> Produced(m, c)
          /\ Stepped(m, c).strikes = m.strikes
      BY <1>0, <3>1, SteppedScore
    <3>5. Produced(m, c) => m.output \/ Valuable(c)
      BY DEF Produced
    <3> QED
      BY <2>1, <3>1, <3>3, <3>4, <3>5
  <2> QED
    BY <2>2, <2>3
<1>4. ASSUME NEW p \in Cycles, NEW c \in Caps \cup {None}, Fail(p, c)
      PROVE  EarnedFor(g)'
  <2>1. g \notin disturbed /\ EarnedFor(g) /\ status' = status /\ earned' = earned
    BY <1>4 DEF Fail, Earning, fileVars
  <2>2. CASE metrics'[g] = metrics[g]
    BY <2>1, <2>2
  <2>3. CASE metrics'[g] # metrics[g]
    <3>1. PICK m : m = metrics[g]
      OBVIOUS
    <3>2. metrics'[g] = Stalled(m)
      BY <1>0, <1>4, <2>3, <3>1, Known DEF Fail
    <3>3. /\ Stalled(m).progress \in Nat /\ m.progress \in Nat /\ Stalled(m).progress <= m.progress
          /\ Stalled(m).output = m.output /\ Stalled(m).strikes = m.strikes
      BY <1>0, <3>1, StalledScore, MetricFields
    <3>4. Stalled(m).progress > Gate => m.progress > Gate
      BY <3>3, Limits
    <3> QED
      BY <2>1, <3>1, <3>2, <3>3, <3>4
  <2> QED
    BY <2>2, <2>3
<1>5. ASSUME NEW p \in Cycles, NEW c \in Caps \cup {None}, GiveUp(p, c)
      PROVE  EarnedFor(g)'
  <2>1. g \notin disturbed /\ EarnedFor(g) /\ earned' = earned /\ status'[g] \in {status[g], "abandoned"}
    BY <1>0, <1>5 DEF GiveUp, Earning, Undone, Discard, fileVars
  <2>2. CASE metrics'[g] = metrics[g]
    BY <2>1, <2>2
  <2>3. CASE metrics'[g] # metrics[g]
    <3>1. PICK m : m = metrics[g]
      OBVIOUS
    <3>2. metrics'[g] = Stalled(m)
      BY <1>0, <1>5, <2>3, <3>1, GivenUp
    <3>3. /\ Stalled(m).progress \in Nat /\ m.progress \in Nat /\ Stalled(m).progress <= m.progress
          /\ Stalled(m).output = m.output /\ Stalled(m).strikes = m.strikes
      BY <1>0, <3>1, StalledScore, MetricFields
    <3>4. Stalled(m).progress > Gate => m.progress > Gate
      BY <3>3, Limits
    <3> QED
      BY <2>1, <3>1, <3>2, <3>3, <3>4
  <2> QED
    BY <2>2, <2>3
<1>6. ASSUME NEW h \in Goals, CreateGoal(h)
      PROVE  EarnedFor(g)'
  <2>1. g \notin disturbed /\ EarnedFor(g) /\ UNCHANGED <<metrics, earned>>
    BY <1>6 DEF CreateGoal, Earning, fileVars
  <2>2. status'[g] = status[g] \/ status[g] = "none"
    BY <1>0, <1>6 DEF CreateGoal
  <2> QED
    BY <2>1, <2>2
<1>7. ASSUME NEW h \in Goals, Patch(h)
      PROVE  EarnedFor(g)'
  <2>1. g # h /\ g \notin disturbed /\ EarnedFor(g) /\ earned' = earned
    BY <1>7 DEF Patch, Earning, fileVars
  <2>2. metrics'[g] = metrics[g] /\ status'[g] = status[g]
    BY <1>0, <1>7, <2>1 DEF Patch
  <2> QED
    BY <2>1, <2>2
<1>8. CASE UNCHANGED <<goalVars, earned, disturbed>>
  BY <1>8 DEF Earning, goalVars
<1> HIDE DEF EarnedFor
<1> QED
  BY <1>1, <1>2, <1>3, <1>4, <1>5, <1>6, <1>7, <1>8, ScoredKind DEF Scored

LEMMA EarningInit == Init => Earning
<1> SUFFICES ASSUME Init, NEW g \in Goals PROVE EarnedFor(g)
  BY DEF Earning
<1>1. metrics[g].output = FALSE /\ metrics[g].progress = 0 /\ metrics[g].strikes = 0
  BY DEF Init, Blank
<1> QED
  BY <1>1, Limits DEF EarnedFor

\* A goal gets beyond the gate only with something it has produced, and after a
\* rejection only with something it has produced since, until a request changes
\* it or a cycle writes back metrics that are outdated.
THEOREM GateIsEarned == Spec => []EarnedUnlessDisturbed
<1>1. Earning => EarnedUnlessDisturbed
  BY DEF Earning, EarnedFor, Merited, EarnedUnlessDisturbed, Active
<1>2. Types /\ Bounded /\ Earning /\ [Next]_vars => (Types /\ Bounded /\ Earning)'
  BY GoalStep, MetricStep, FileStep, CycleStep, ReadStep, CountStep, ToolStep, BoundedStep, EarningStep DEF Types
<1> QED
  BY <1>1, <1>2, TypeInit, EarningInit, PTL DEF Spec

-----------------------------------------------------------------------------
(* What lands. *)

\* A cycle commits, and validates, a goal that it has found at full progress.
Landing == \A p \in Cycles : at[p] \in {"commit", "validate"} => goal[p] # 0 /\ seen[p].progress = Full

LEMMA LandingStep == MetricTypes /\ CycleTypes /\ ReadTypes /\ Landing /\ [Next]_vars => Landing'
<1> SUFFICES ASSUME MetricTypes, CycleTypes, ReadTypes, Landing, [Next]_vars PROVE Landing'
  OBVIOUS
<1> USE DEF Landing, CycleTypes, ReadTypes, cycleVars
<1>1. ASSUME NEW p \in Cycles, BeginCycle(p)
      PROVE  Landing'
  BY <1>1 DEF BeginCycle, Fault, Goto
<1>2. ASSUME NEW p \in Cycles, StartStep(p)
      PROVE  Landing'
  BY <1>2 DEF StartStep, Goto
<1>3. ASSUME NEW p \in Cycles, NoGoal(p)
      PROVE  Landing'
  BY <1>3 DEF NoGoal, Goto
<1>4. ASSUME NEW p \in Cycles, Check(p)
      PROVE  Landing'
  <2>1. goal[p] \in Goals
    BY <1>4 DEF Check
  <2>2. metrics[goal[p]].progress >= Full => metrics[goal[p]].progress = Full
    <3>1. metrics[goal[p]].progress \in 0..Full
      BY <2>1, MetricFields DEF MetricTypes
    <3> QED
      BY <3>1, Limits
  <2>3. PICK m : m = metrics[goal[p]]
    OBVIOUS
  <2>4. CASE m.progress >= Full
    <3>1. at' = [at EXCEPT ![p] = "commit"] /\ seen' = [seen EXCEPT ![p] = m] /\ goal' = goal
      BY <1>4, <2>3, <2>4 DEF Check, Goto
    <3>2. m.progress = Full /\ goal[p] # 0
      BY <2>1, <2>2, <2>3, <2>4, Limits
    <3> QED
      BY <3>1, <3>2
  <2>5. CASE ~(m.progress >= Full)
    <3>1. /\ at' = [at EXCEPT ![p] = "step"] \/ at' = [at EXCEPT ![p] = "finish"]
          /\ UNCHANGED <<seen, goal>>
      BY <1>4, <2>3, <2>5 DEF Check, Goto
    <3> QED
      BY <3>1
  <2> QED
    BY <2>4, <2>5
<1>5. ASSUME NEW p \in Cycles, Commit(p)
      PROVE  Landing'
  BY <1>5 DEF Commit, Goto, Discard, Fault
<1>6. ASSUME NEW p \in Cycles, Accept(p)
      PROVE  Landing'
  BY <1>6 DEF Accept, Return, Goto
<1>7. ASSUME NEW p \in Cycles, Reject(p)
      PROVE  Landing'
  BY <1>7 DEF Reject, Return, Goto
<1>8. ASSUME NEW p \in Cycles, Finish(p)
      PROVE  Landing'
  BY <1>8 DEF Finish, Return, Goto, Undone, Discard
<1>9. ASSUME NEW p \in Cycles, NEW c \in Caps, Skip(p, c)
      PROVE  Landing'
  BY <1>9 DEF Skip, Goto
<1>10. ASSUME NEW p \in Cycles, NEW c \in Caps, NEW planned \in BOOLEAN, Succeed(p, c, planned)
      PROVE  Landing'
  BY <1>10 DEF Succeed, EndStep, Goto
<1>11. ASSUME NEW p \in Cycles, NEW c \in Caps \cup {None}, Fail(p, c)
      PROVE  Landing'
  BY <1>11 DEF Fail, Failing, Fault, EndStep, Goto, Silent, SetAside, Mute
<1>12. ASSUME NEW p \in Cycles, NEW c \in Caps \cup {None}, GiveUp(p, c)
      PROVE  Landing'
  BY <1>12 DEF GiveUp, Failing, Fault, Return, Goto, Undone, Discard, Silent, Mute
<1>13. ASSUME NEW p \in Cycles, LeaveBehind(p)
      PROVE  Landing'
  BY <1>13 DEF LeaveBehind, Fault
<1>14. ASSUME NEW p \in Cycles, TimeOut(p)
      PROVE  Landing'
  BY <1>14 DEF TimeOut, Fault, Discard
<1>15. ASSUME NEW g \in Goals, CreateGoal(g)
      PROVE  Landing'
  BY <1>15 DEF CreateGoal
<1>16. ASSUME NEW g \in Goals, Patch(g)
      PROVE  Landing'
  BY <1>16 DEF Patch, Fault
<1>17. ASSUME Crash
      PROVE  Landing'
  BY <1>17 DEF Crash, Fault
<1>18. CASE UNCHANGED vars
  BY <1>18 DEF vars
<1> QED
  BY <1>1, <1>2, <1>3, <1>4, <1>5, <1>6, <1>7, <1>8, <1>9, <1>10, <1>11, <1>12,
     <1>13, <1>14, <1>15, <1>16, <1>17, <1>18 DEF Next, Cycle

\* What a step may take out of a transaction and put on the disk.
Landed ==
    \A p \in Cycles : \A g \in staged[p] \ staged'[p] :
        g \in onDisk' \ onDisk => goal[p] # 0 /\ seen[p].progress = Full

\* Only a commit does both.
LEMMA LandedStep == FileTypes /\ Landing /\ [Next]_vars => Landed
<1> SUFFICES ASSUME FileTypes, Landing, [Next]_vars PROVE Landed
  OBVIOUS
<1> USE DEF Landed, FileTypes, fileVars, txnVars
<1>1. ASSUME NEW p \in Cycles, BeginCycle(p)
      PROVE  Landed
  BY <1>1 DEF BeginCycle, Fault, Goto
<1>2. ASSUME NEW p \in Cycles, StartStep(p)
      PROVE  Landed
  BY <1>2 DEF StartStep, Goto
<1>3. ASSUME NEW p \in Cycles, NoGoal(p)
      PROVE  Landed
  BY <1>3 DEF NoGoal, Goto
<1>4. ASSUME NEW p \in Cycles, Check(p)
      PROVE  Landed
  BY <1>4 DEF Check, Goto
<1>5. ASSUME NEW p \in Cycles, Commit(p)
      PROVE  Landed
  BY <1>5 DEF Commit, Goto, Discard, Fault, Landing
<1>6. ASSUME NEW p \in Cycles, Accept(p)
      PROVE  Landed
  BY <1>6 DEF Accept, Return, Goto
<1>7. ASSUME NEW p \in Cycles, Reject(p)
      PROVE  Landed
  BY <1>7 DEF Reject, Return, Goto
<1>8. ASSUME NEW p \in Cycles, Finish(p)
      PROVE  Landed
  BY <1>8 DEF Finish, Return, Goto, Undone, Discard
<1>9. ASSUME NEW p \in Cycles, NEW c \in Caps, Skip(p, c)
      PROVE  Landed
  BY <1>9 DEF Skip, Goto
<1>10. ASSUME NEW p \in Cycles, NEW c \in Caps, NEW planned \in BOOLEAN, Succeed(p, c, planned)
      PROVE  Landed
  <2>1. \A q \in Cycles : staged[q] \subseteq staged'[q]
    BY <1>10 DEF Succeed
  <2> QED
    BY <2>1
<1>11. ASSUME NEW p \in Cycles, NEW c \in Caps \cup {None}, Fail(p, c)
      PROVE  Landed
  <2>1. UNCHANGED staged
    BY <1>11 DEF Fail
  <2> QED
    BY <2>1
<1>12. ASSUME NEW p \in Cycles, NEW c \in Caps \cup {None}, GiveUp(p, c)
      PROVE  Landed
  BY <1>12 DEF GiveUp, Failing, Fault, Return, Goto, Undone, Discard, Silent, Mute
<1>13. ASSUME NEW p \in Cycles, LeaveBehind(p)
      PROVE  Landed
  BY <1>13 DEF LeaveBehind, Fault
<1>14. ASSUME NEW p \in Cycles, TimeOut(p)
      PROVE  Landed
  BY <1>14 DEF TimeOut, Fault, Discard
<1>15. ASSUME NEW g \in Goals, CreateGoal(g)
      PROVE  Landed
  BY <1>15 DEF CreateGoal
<1>16. ASSUME NEW g \in Goals, Patch(g)
      PROVE  Landed
  <2>1. UNCHANGED staged
    BY <1>16 DEF Patch
  <2> QED
    BY <2>1
<1>17. ASSUME Crash
      PROVE  Landed
  BY <1>17 DEF Crash, Fault
<1>18. CASE UNCHANGED vars
  BY <1>18 DEF vars
<1> QED
  BY <1>1, <1>2, <1>3, <1>4, <1>5, <1>6, <1>7, <1>8, <1>9, <1>10, <1>11, <1>12,
     <1>13, <1>14, <1>15, <1>16, <1>17, <1>18 DEF Next, Cycle

\* What was held back reaches the disk only by a cycle that has found its goal
\* at full progress.
THEOREM FullProgressLands == Spec => OnlyFullProgressLands
<1>1. Init => Landing
  BY DEF Init, Landing
<1>2. Types /\ Bounded /\ Landing /\ [Next]_vars => (Types /\ Bounded /\ Landing)'
  BY GoalStep, MetricStep, FileStep, CycleStep, ReadStep, CountStep, ToolStep, BoundedStep, LandingStep DEF Types
<1>3. Types /\ Landing /\ [Next]_vars => [Landed]_vars
  BY LandedStep DEF Types
<1> QED
  BY <1>1, <1>2, <1>3, TypeInit, PTL DEF Spec, OnlyFullProgressLands, Landed

-----------------------------------------------------------------------------
(* Ends. *)

\* As long as nothing has disturbed a goal, progress stands on steps on record.
Recorded == \A g \in Goals \ disturbed : metrics[g].progress > 0 => proof[g] # {}

LEMMA RecordedStep == Types /\ Landing /\ Recorded /\ [Next]_vars => Recorded'
<1> SUFFICES ASSUME Types, Landing, Recorded, [Next]_vars, NEW g \in Goals, g \notin disturbed', proof'[g] = {}
             PROVE  ~(metrics'[g].progress > 0)
  BY DEF Recorded
<1>0. /\ metrics \in [Goals -> Metrics] /\ metrics[g] \in Metrics
      /\ proof \in [Goals -> SUBSET {"file", "other"}]
  BY DEF Types, GoalTypes, MetricTypes
<1> DEFINE Goal == ~(metrics'[g].progress > 0)
<1>a. g \notin disturbed /\ proof[g] = {} => metrics[g].progress = 0
  BY <1>0, MetricFields, Limits DEF Recorded
<1>b. \A m \in Metrics : m.progress = 0 => ~(Stalled(m).progress > 0)
  BY StalledScore, MetricFields, Limits
<1>1. ASSUME NEW p \in Cycles, Accept(p)
      PROVE  Goal
  BY <1>1, <1>a DEF Accept
<1>2. ASSUME NEW p \in Cycles, Reject(p)
      PROVE  Goal
  <2>1. proof' = proof /\ disturbed' = disturbed \cup Behind(goal[p], seen[p])
    BY <1>2 DEF Reject
  <2>2. metrics[g].progress = 0
    BY <1>a, <2>1
  <2>3. CASE g # goal[p]
    BY <1>0, <1>2, <2>2, <2>3 DEF Reject
  <2>4. CASE g = goal[p]
    <3>1. metrics[g] = seen[p]
      BY <2>1, <2>4, Known
    <3>2. seen[p].progress = Full /\ Full > 0
      BY <1>2, Limits DEF Reject, Landing
    <3> QED
      BY <2>2, <3>1, <3>2
  <2> QED
    BY <2>3, <2>4
<1>3. ASSUME NEW p \in Cycles, NEW c \in Caps, NEW planned \in BOOLEAN, Succeed(p, c, planned)
      PROVE  Goal
  <2>1. g # on[p]
    BY <1>0, <1>3 DEF Succeed
  <2>2. metrics'[g] = metrics[g] /\ proof'[g] = proof[g] /\ g \notin disturbed
    BY <1>0, <1>3, <2>1 DEF Succeed
  <2> QED
    BY <1>a, <2>2
<1>4. ASSUME NEW p \in Cycles, NEW c \in Caps \cup {None}, Fail(p, c)
      PROVE  Goal
  <2>1. g \notin disturbed /\ proof' = proof
    BY <1>4 DEF Fail
  <2>2. CASE metrics'[g] = metrics[g]
    BY <1>a, <2>1, <2>2
  <2>3. CASE metrics'[g] # metrics[g]
    <3>1. metrics'[g] = Stalled(metrics[g])
      BY <1>0, <1>4, <2>3, Known DEF Fail
    <3> QED
      BY <1>0, <1>a, <1>b, <2>1, <3>1
  <2> QED
    BY <2>2, <2>3
<1>5. ASSUME NEW p \in Cycles, NEW c \in Caps \cup {None}, GiveUp(p, c)
      PROVE  Goal
  <2>1. g \notin disturbed /\ proof' = proof
    BY <1>5 DEF GiveUp
  <2>2. CASE metrics'[g] = metrics[g]
    BY <1>a, <2>1, <2>2
  <2>3. CASE metrics'[g] # metrics[g]
    <3>1. metrics'[g] = Stalled(metrics[g])
      BY <1>0, <1>5, <2>3, GivenUp
    <3> QED
      BY <1>0, <1>a, <1>b, <2>1, <3>1
  <2> QED
    BY <2>2, <2>3
<1>6. ASSUME NEW h \in Goals, CreateGoal(h)
      PROVE  Goal
  BY <1>6, <1>a DEF CreateGoal
<1>7. ASSUME NEW h \in Goals, Patch(h)
      PROVE  Goal
  <2>1. g # h /\ g \notin disturbed /\ proof' = proof
    BY <1>7 DEF Patch
  <2>2. metrics'[g] = metrics[g]
    BY <1>0, <1>7, <2>1 DEF Patch
  <2> QED
    BY <1>a, <2>1, <2>2
<1>8. ASSUME UNCHANGED <<goalVars, earned, disturbed>>
      PROVE  Goal
  BY <1>8, <1>a DEF goalVars
<1> HIDE DEF Goal
<1>9. Goal
  BY <1>1, <1>2, <1>3, <1>4, <1>5, <1>6, <1>7, <1>8, ScoredKind DEF Scored
<1> QED
  BY <1>9 DEF Goal

\* What justifies an end: a goal that is completed had full progress, a product
\* since its last rejection, unless it has had its last strike, and a step on
\* record; and the last strike ends the goal.  Only a request or outdated
\* metrics may end it otherwise.
Justified ==
    \A g \in Goals \ disturbed' :
        /\ status'[g] = "completed" /\ status[g] # "completed" =>
             metrics[g].progress = Full /\ Merited(g) /\ proof[g] # {}
        /\ metrics'[g].strikes = StrikeLimit /\ metrics[g].strikes # StrikeLimit =>
             status'[g] = "abandoned"

LEMMA JustifiedStep == Types /\ Landing /\ Earning /\ Recorded /\ [Next]_vars => Justified
<1> SUFFICES ASSUME Types, Landing, Earning, Recorded, [Next]_vars, NEW g \in Goals, g \notin disturbed'
             PROVE  /\ status'[g] = "completed" /\ status[g] # "completed" =>
                         metrics[g].progress = Full /\ Merited(g) /\ proof[g] # {}
                    /\ metrics'[g].strikes = StrikeLimit /\ metrics[g].strikes # StrikeLimit =>
                         status'[g] = "abandoned"
  BY DEF Justified
<1> DEFINE Goal == /\ status'[g] = "completed" /\ status[g] # "completed" =>
                        metrics[g].progress = Full /\ Merited(g) /\ proof[g] # {}
                   /\ metrics'[g].strikes = StrikeLimit /\ metrics[g].strikes # StrikeLimit =>
                        status'[g] = "abandoned"
<1>0. /\ metrics \in [Goals -> Metrics] /\ metrics[g] \in Metrics
      /\ status \in [Goals -> {"none", "active", "paused", "completed", "abandoned"}]
  BY DEF Types, GoalTypes, MetricTypes
<1>1. ASSUME NEW p \in Cycles, Accept(p)
      PROVE  Goal
  <2>1. metrics' = metrics /\ g \notin disturbed /\ g \notin Behind(goal[p], seen[p])
    BY <1>1 DEF Accept
  <2>2. CASE g # goal[p]
    BY <1>0, <1>1, <2>1, <2>2 DEF Accept
  <2>3. CASE g = goal[p]
    <3>1. metrics[g].progress = Full
      BY <1>1, <2>1, <2>3, Known DEF Accept, Landing
    <3>2. Merited(g) /\ proof[g] # {}
      BY <2>1, <3>1, Limits DEF Earning, EarnedFor, Recorded
    <3> QED
      BY <2>1, <3>1, <3>2
  <2> QED
    BY <2>2, <2>3
<1>2. ASSUME NEW p \in Cycles, Reject(p)
      PROVE  Goal
  <2>1. CASE g # goal[p]
    BY <1>0, <1>2, <2>1 DEF Reject
  <2>2. CASE g = goal[p] /\ Struck(seen[p]) >= StrikeLimit
    BY <1>0, <1>2, <2>2 DEF Reject
  <2>3. CASE g = goal[p] /\ ~(Struck(seen[p]) >= StrikeLimit)
    <3>1. metrics'[g] = Rejected(seen[p]) /\ status' = status
      BY <1>0, <1>2, <2>3 DEF Reject
    <3>2. seen[p] \in Metrics
      BY DEF Types, ReadTypes
    <3>3. metrics'[g].strikes = Struck(seen[p]) /\ Struck(seen[p]) \in 0..StrikeLimit
      BY <3>1, <3>2, StruckScore
    <3>4. Struck(seen[p]) # StrikeLimit
      BY <2>3, <3>3, Limits
    <3> QED
      BY <3>1, <3>3, <3>4
  <2> QED
    BY <2>1, <2>2, <2>3
<1>3. ASSUME NEW p \in Cycles, NEW c \in Caps, NEW planned \in BOOLEAN, Succeed(p, c, planned)
      PROVE  Goal
  <2>1. status' = status /\ g \notin Behind(on[p], seen[p])
    BY <1>3 DEF Succeed
  <2>2. CASE g # on[p]
    BY <1>0, <1>3, <2>1, <2>2 DEF Succeed
  <2>3. CASE g = on[p]
    <3>1. seen[p] = metrics[g]
      BY <2>1, <2>3, Known
    <3>2. metrics'[g] = Stepped(seen[p], c)
      BY <1>0, <1>3, <2>3 DEF Succeed
    <3>3. metrics'[g].strikes = metrics[g].strikes
      BY <1>0, <3>1, <3>2, SteppedScore
    <3> QED
      BY <2>1, <3>3
  <2> QED
    BY <2>2, <2>3
<1>4. ASSUME NEW p \in Cycles, NEW c \in Caps \cup {None}, Fail(p, c)
      PROVE  Goal
  <2>1. status' = status
    BY <1>4 DEF Fail
  <2>2. metrics'[g] = metrics[g] \/ metrics'[g] = Stalled(metrics[g])
    BY <1>0, <1>4, Known DEF Fail
  <2> QED
    BY <1>0, <2>1, <2>2, StalledScore
<1>5. ASSUME NEW p \in Cycles, NEW c \in Caps \cup {None}, GiveUp(p, c)
      PROVE  Goal
  <2>1. status'[g] \in {status[g], "abandoned"}
    BY <1>0, <1>5 DEF GiveUp
  <2>2. metrics'[g] = metrics[g] \/ metrics'[g] = Stalled(metrics[g])
    BY <1>0, <1>5, GivenUp
  <2> QED
    BY <1>0, <2>1, <2>2, StalledScore
<1>6. ASSUME NEW h \in Goals, CreateGoal(h)
      PROVE  Goal
  BY <1>0, <1>6 DEF CreateGoal
<1>7. ASSUME NEW h \in Goals, Patch(h)
      PROVE  Goal
  <2>1. g # h
    BY <1>7 DEF Patch
  <2>2. metrics'[g] = metrics[g] /\ status'[g] = status[g]
    BY <1>0, <1>7, <2>1 DEF Patch
  <2> QED
    BY <2>2
<1>8. ASSUME UNCHANGED <<goalVars, earned, disturbed>>
      PROVE  Goal
  BY <1>8 DEF goalVars
<1> HIDE DEF Goal
<1>9. Goal
  BY <1>1, <1>2, <1>3, <1>4, <1>5, <1>6, <1>7, <1>8, ScoredKind DEF Scored
<1> QED
  BY <1>9 DEF Goal

\* Every end is justified, until a request changes the goal or a cycle writes
\* back metrics of it that are outdated.
THEOREM EndsAreJustified == Spec => [][Justified]_vars
<1> DEFINE Inv == Types /\ Bounded /\ Earning /\ Landing /\ Recorded
<1>1. Init => Inv
  <2>1. Init => Landing
    BY DEF Init, Landing
  <2>2. Init => Recorded
    BY DEF Init, Recorded, Blank
  <2> QED
    BY <2>1, <2>2, TypeInit, EarningInit
<1>2. Inv /\ [Next]_vars => Inv'
  <2>1. Types /\ Bounded /\ [Next]_vars => Types' /\ Bounded'
    BY GoalStep, MetricStep, FileStep, CycleStep, ReadStep, CountStep, ToolStep, BoundedStep DEF Types
  <2>2. Types /\ Landing /\ [Next]_vars => Landing'
    BY LandingStep DEF Types
  <2> QED
    BY <2>1, <2>2, EarningStep, RecordedStep
<1>3. Inv /\ [Next]_vars => [Justified]_vars
  BY JustifiedStep
<1> QED
  BY <1>1, <1>2, <1>3, PTL DEF Spec

-----------------------------------------------------------------------------
(* The main loop of the daemon, whose workers are the cycles of this module. *)

CONSTANTS Agents, MaxGoals, StallLimit, GoalCycles, ReleaseEvery, ReleaseCount, MaxEvents

VARIABLES
    count, track, age, repeated, stalled, skipped, cyc, phase, todo, active,
    work, same, result, stray, suspended, hostFile, events

Loop == INSTANCE Daemon

\* What module Daemon assumes of its constants.
LoopLimits ==
    /\ Agents \subseteq Nat /\ IsFiniteSet(Agents)
    /\ MaxGoals \in Nat \ {0} /\ StallLimit \in Nat \ {0} /\ GoalCycles \in Nat \ {0}
    /\ ReleaseEvery \in Nat \ {0} /\ ReleaseCount \in Nat \ {0} /\ MaxEvents \in Nat

Places == {"none", "first", "second", "gone"}

\* Types by kind of state: of the goals of the agents, of the turn, the pool
\* and the surroundings.
LoopGoals == count \in [Agents -> Nat] /\ track \in [Agents -> Places]

LoopAges == age \in [Agents -> 0..GoalCycles] /\ repeated \in [Agents -> BOOLEAN]

LoopTurn ==
    /\ cyc \in 0..(ReleaseEvery - 1) /\ phase \in Loop!Phases
    /\ todo \subseteq Agents /\ active \subseteq Agents /\ skipped \subseteq Agents

LoopPool ==
    /\ work \in [Agents -> {"none", "running", "ended"}] /\ same \in [Agents -> BOOLEAN]
    /\ result \in [Agents -> Loop!Outcomes \cup {"none"}] /\ stray \subseteq Agents

LoopEnv == suspended \subseteq Agents /\ hostFile \in BOOLEAN /\ events \in 0..MaxEvents

\* What stalls is below its limit as long as a worker is out for the agent, and
\* an agent that is set aside has none.
LoopStalls == stalled \in [Agents -> 0..StallLimit]

Out ==
    /\ \A a \in Agents : work[a] # "none" =>
         /\ stalled[a] < StallLimit /\ a \notin skipped
         /\ phase \in {"triage", "collect"} /\ (phase = "triage" => a \notin todo)
    /\ phase \in {"top", "host"} => active = {}
    /\ phase = "look" => \A a \in active : a \notin skipped
    /\ phase = "triage" => \A a \in todo : a \notin skipped

\* Beyond the goals that an agent is left with it has one for each message of
\* the host, of which the one that is being delivered may still give it one.
Told(a) == (IF hostFile THEN 1 ELSE 0) + (IF phase = "host" /\ a \in todo THEN 1 ELSE 0)
Goaled  == \A a \in Agents : count[a] + Told(a) <= MaxGoals + events /\ Told(a) <= events

LoopInv == LoopGoals /\ LoopAges /\ LoopTurn /\ LoopPool /\ LoopEnv /\ LoopStalls /\ Out /\ Goaled

\* The agents are taken by their numbers, and of those left one is the least.
LEMMA FirstLeft ==
    ASSUME LoopLimits, LoopTurn, todo # {}
    PROVE  Loop!Least(todo) \in todo
<1>1. todo \in SUBSET Nat
  BY DEF LoopLimits, LoopTurn
<1>2. \E m \in todo : \A k \in todo : m <= k
  BY <1>1, Smallest
<1> QED
  BY <1>2 DEF Loop!Least

LEMMA NextPlace ==
    \A q \in Places : Loop!AfterEnd(q) \in Places /\ Loop!AfterAhead(q) \in Places
  BY DEF Places, Loop!AfterEnd, Loop!AfterAhead

\* One step keeps the types of the goals,
LEMMA LoopGoalsStep == LoopLimits /\ LoopGoals /\ [Loop!Next]_(Loop!vars) => LoopGoals'
<1> SUFFICES ASSUME LoopLimits, LoopGoals, [Loop!Next]_(Loop!vars) PROVE LoopGoals'
  OBVIOUS
<1> USE NextPlace DEF LoopGoals, LoopLimits, Loop!metrics, Loop!loop, Loop!pool, Loop!env
<1>1. ASSUME Loop!Begin
      PROVE  LoopGoals'
  BY <1>1 DEF Loop!Begin
<1>2. ASSUME NEW a \in Agents, Loop!Interrupt(a)
      PROVE  LoopGoals'
  BY <1>2 DEF Loop!Interrupt, Loop!Refused, Loop!Placed
<1>3. ASSUME NEW a \in Agents, Loop!Look(a)
      PROVE  LoopGoals'
  BY <1>3 DEF Loop!Look, Loop!LookAt, Loop!LookPast, Loop!AssignIdle, Loop!Refused, Loop!Placed, Loop!Fault, Loop!Event
<1>4. ASSUME NEW a \in Agents, Loop!SetAside(a)
      PROVE  LoopGoals'
  BY <1>4 DEF Loop!SetAside, Loop!AssignIdle, Loop!Refused, Loop!Placed, Loop!AfterSkip
<1>5. ASSUME NEW a \in Agents, Loop!Submit(a)
      PROVE  LoopGoals'
  BY <1>5 DEF Loop!Submit, Loop!IsStalled, Loop!Capped
<1>6. ASSUME Loop!Collecting
      PROVE  LoopGoals'
  BY <1>6 DEF Loop!Collecting
<1>7. ASSUME NEW a \in Agents, Loop!Take(a)
      PROVE  LoopGoals'
  BY <1>7 DEF Loop!Take, Loop!Collect, Loop!CollectError, Loop!CollectCompletion, Loop!Record, Loop!Taken, Loop!AssignIdle, Loop!Refused, Loop!Placed, Places
<1>8. ASSUME Loop!AllTaken
      PROVE  LoopGoals'
  BY <1>8 DEF Loop!AllTaken
<1>9. ASSUME Loop!Wrap
      PROVE  LoopGoals'
  BY <1>9 DEF Loop!Wrap
<1>10. ASSUME NEW a \in Agents, NEW o \in Loop!Outcomes, Loop!Run(a, o)
      PROVE  LoopGoals'
  BY <1>10 DEF Loop!Run, Loop!Ends
<1>11. ASSUME NEW a \in Agents, NEW o \in Loop!Outcomes, Loop!Stray(a, o)
      PROVE  LoopGoals'
  BY <1>11 DEF Loop!Stray, Loop!Ends
<1>12. ASSUME Loop!Timeout
      PROVE  LoopGoals'
  BY <1>12 DEF Loop!Timeout, Loop!Fault, Loop!Event
<1>13. ASSUME Loop!Restart
      PROVE  LoopGoals'
  BY <1>13 DEF Loop!Restart, Loop!Fault, Loop!Event, Places
<1>14. ASSUME Loop!HostWrites
      PROVE  LoopGoals'
  BY <1>14 DEF Loop!HostWrites, Loop!Event
<1>15. ASSUME NEW a \in Agents, Loop!Suspend(a)
      PROVE  LoopGoals'
  BY <1>15 DEF Loop!Suspend, Loop!Event
<1>16. ASSUME NEW a \in Agents, Loop!Resume(a)
      PROVE  LoopGoals'
  BY <1>16 DEF Loop!Resume
<1>17. CASE UNCHANGED Loop!vars
  BY <1>17 DEF Loop!vars
<1> HIDE NextPlace DEF LoopGoals, LoopLimits, Loop!metrics, Loop!loop, Loop!pool, Loop!env
<1> QED
  BY <1>1, <1>2, <1>3, <1>4, <1>5, <1>6, <1>7, <1>8, <1>9, <1>10,
     <1>11, <1>12, <1>13, <1>14, <1>15, <1>16, <1>17
  DEF Loop!Next, Loop!MainLoop, Loop!Worker, Loop!Others

\* their ages,
LEMMA LoopAgesStep == LoopLimits /\ LoopAges /\ [Loop!Next]_(Loop!vars) => LoopAges'
<1> SUFFICES ASSUME LoopLimits, LoopAges, [Loop!Next]_(Loop!vars) PROVE LoopAges'
  OBVIOUS
<1> USE DEF LoopAges, LoopLimits, Loop!metrics, Loop!loop, Loop!pool, Loop!env
<1>1. ASSUME Loop!Begin
      PROVE  LoopAges'
  BY <1>1 DEF Loop!Begin
<1>2. ASSUME NEW a \in Agents, Loop!Interrupt(a)
      PROVE  LoopAges'
  BY <1>2 DEF Loop!Interrupt, Loop!Refused, Loop!Placed
<1>3. ASSUME NEW a \in Agents, Loop!Look(a)
      PROVE  LoopAges'
  BY <1>3 DEF Loop!Look, Loop!LookAt, Loop!LookPast, Loop!AssignIdle, Loop!Refused, Loop!Placed, Loop!Fault, Loop!Event
<1>4. ASSUME NEW a \in Agents, Loop!SetAside(a)
      PROVE  LoopAges'
  BY <1>4 DEF Loop!SetAside, Loop!AssignIdle, Loop!Refused, Loop!Placed, Loop!AfterSkip
<1>5. ASSUME NEW a \in Agents, Loop!Submit(a)
      PROVE  LoopAges'
  BY <1>5 DEF Loop!Submit, Loop!IsStalled, Loop!Capped
<1>6. ASSUME Loop!Collecting
      PROVE  LoopAges'
  BY <1>6 DEF Loop!Collecting
<1>7. ASSUME NEW a \in Agents, Loop!Take(a)
      PROVE  LoopAges'
  <2>1. age' \in {age, [age EXCEPT ![a] = 0]}
    BY <1>7 DEF Loop!Take, Loop!Collect, Loop!CollectError, Loop!CollectCompletion, Loop!Record
  <2>2. repeated' \in {repeated, [repeated EXCEPT ![a] = TRUE], [repeated EXCEPT ![a] = FALSE]}
    BY <1>7 DEF Loop!Take, Loop!Collect, Loop!CollectError, Loop!CollectCompletion, Loop!Record
  <2>3. age' \in [Agents -> 0..GoalCycles]
    BY <2>1
  <2>4. repeated' \in [Agents -> BOOLEAN]
    BY <2>2, Zenon
  <2> QED
    BY <2>3, <2>4
<1>8. ASSUME Loop!AllTaken
      PROVE  LoopAges'
  BY <1>8 DEF Loop!AllTaken
<1>9. ASSUME Loop!Wrap
      PROVE  LoopAges'
  BY <1>9 DEF Loop!Wrap
<1>10. ASSUME NEW a \in Agents, NEW o \in Loop!Outcomes, Loop!Run(a, o)
      PROVE  LoopAges'
  BY <1>10 DEF Loop!Run, Loop!Ends
<1>11. ASSUME NEW a \in Agents, NEW o \in Loop!Outcomes, Loop!Stray(a, o)
      PROVE  LoopAges'
  BY <1>11 DEF Loop!Stray, Loop!Ends
<1>12. ASSUME Loop!Timeout
      PROVE  LoopAges'
  BY <1>12 DEF Loop!Timeout, Loop!Fault, Loop!Event
<1>13. ASSUME Loop!Restart
      PROVE  LoopAges'
  BY <1>13 DEF Loop!Restart, Loop!Fault, Loop!Event
<1>14. ASSUME Loop!HostWrites
      PROVE  LoopAges'
  BY <1>14 DEF Loop!HostWrites, Loop!Event
<1>15. ASSUME NEW a \in Agents, Loop!Suspend(a)
      PROVE  LoopAges'
  BY <1>15 DEF Loop!Suspend, Loop!Event
<1>16. ASSUME NEW a \in Agents, Loop!Resume(a)
      PROVE  LoopAges'
  BY <1>16 DEF Loop!Resume
<1>17. CASE UNCHANGED Loop!vars
  BY <1>17 DEF Loop!vars
<1> HIDE DEF LoopAges, LoopLimits, Loop!metrics, Loop!loop, Loop!pool, Loop!env
<1> QED
  BY <1>1, <1>2, <1>3, <1>4, <1>5, <1>6, <1>7, <1>8, <1>9, <1>10,
     <1>11, <1>12, <1>13, <1>14, <1>15, <1>16, <1>17
  DEF Loop!Next, Loop!MainLoop, Loop!Worker, Loop!Others

\* the turn,
LEMMA LoopTurnStep == LoopLimits /\ LoopTurn /\ [Loop!Next]_(Loop!vars) => LoopTurn'
<1> SUFFICES ASSUME LoopLimits, LoopTurn, [Loop!Next]_(Loop!vars) PROVE LoopTurn'
  OBVIOUS
<1> USE DEF LoopTurn, LoopLimits, Loop!Phases, Loop!metrics, Loop!loop, Loop!pool, Loop!env
<1>1. ASSUME Loop!Begin
      PROVE  LoopTurn'
  BY <1>1 DEF Loop!Begin
<1>2. ASSUME NEW a \in Agents, Loop!Interrupt(a)
      PROVE  LoopTurn'
  BY <1>2 DEF Loop!Interrupt, Loop!Refused, Loop!Placed
<1>3. ASSUME NEW a \in Agents, Loop!Look(a)
      PROVE  LoopTurn'
  BY <1>3 DEF Loop!Look, Loop!LookAt, Loop!LookPast, Loop!AssignIdle, Loop!Refused, Loop!Placed, Loop!Fault, Loop!Event
<1>4. ASSUME NEW a \in Agents, Loop!SetAside(a)
      PROVE  LoopTurn'
  BY <1>4 DEF Loop!SetAside, Loop!AssignIdle, Loop!Refused, Loop!Placed, Loop!AfterSkip
<1>5. ASSUME NEW a \in Agents, Loop!Submit(a)
      PROVE  LoopTurn'
  BY <1>5 DEF Loop!Submit, Loop!IsStalled, Loop!Capped
<1>6. ASSUME Loop!Collecting
      PROVE  LoopTurn'
  BY <1>6 DEF Loop!Collecting
<1>7. ASSUME NEW a \in Agents, Loop!Take(a)
      PROVE  LoopTurn'
  BY <1>7 DEF Loop!Take, Loop!Collect, Loop!CollectError, Loop!CollectCompletion, Loop!Record, Loop!Taken, Loop!AssignIdle, Loop!Refused, Loop!Placed
<1>8. ASSUME Loop!AllTaken
      PROVE  LoopTurn'
  BY <1>8 DEF Loop!AllTaken
<1>9. ASSUME Loop!Wrap
      PROVE  LoopTurn'
  BY <1>9 DEF Loop!Wrap
<1>10. ASSUME NEW a \in Agents, NEW o \in Loop!Outcomes, Loop!Run(a, o)
      PROVE  LoopTurn'
  BY <1>10 DEF Loop!Run, Loop!Ends
<1>11. ASSUME NEW a \in Agents, NEW o \in Loop!Outcomes, Loop!Stray(a, o)
      PROVE  LoopTurn'
  BY <1>11 DEF Loop!Stray, Loop!Ends
<1>12. ASSUME Loop!Timeout
      PROVE  LoopTurn'
  BY <1>12 DEF Loop!Timeout, Loop!Fault, Loop!Event
<1>13. ASSUME Loop!Restart
      PROVE  LoopTurn'
  BY <1>13 DEF Loop!Restart, Loop!Fault, Loop!Event
<1>14. ASSUME Loop!HostWrites
      PROVE  LoopTurn'
  BY <1>14 DEF Loop!HostWrites, Loop!Event
<1>15. ASSUME NEW a \in Agents, Loop!Suspend(a)
      PROVE  LoopTurn'
  BY <1>15 DEF Loop!Suspend, Loop!Event
<1>16. ASSUME NEW a \in Agents, Loop!Resume(a)
      PROVE  LoopTurn'
  BY <1>16 DEF Loop!Resume
<1>17. CASE UNCHANGED Loop!vars
  BY <1>17 DEF Loop!vars
<1> HIDE DEF LoopTurn, LoopLimits, Loop!Phases, Loop!metrics, Loop!loop, Loop!pool, Loop!env
<1> QED
  BY <1>1, <1>2, <1>3, <1>4, <1>5, <1>6, <1>7, <1>8, <1>9, <1>10,
     <1>11, <1>12, <1>13, <1>14, <1>15, <1>16, <1>17
  DEF Loop!Next, Loop!MainLoop, Loop!Worker, Loop!Others

\* the pool,
LEMMA LoopPoolStep == LoopPool /\ [Loop!Next]_(Loop!vars) => LoopPool'
<1> SUFFICES ASSUME LoopPool, [Loop!Next]_(Loop!vars) PROVE LoopPool'
  OBVIOUS
<1> USE DEF LoopPool, Loop!metrics, Loop!loop, Loop!pool, Loop!env
<1>1. ASSUME Loop!Begin
      PROVE  LoopPool'
  BY <1>1 DEF Loop!Begin
<1>2. ASSUME NEW a \in Agents, Loop!Interrupt(a)
      PROVE  LoopPool'
  BY <1>2 DEF Loop!Interrupt, Loop!Refused, Loop!Placed
<1>3. ASSUME NEW a \in Agents, Loop!Look(a)
      PROVE  LoopPool'
  BY <1>3 DEF Loop!Look, Loop!LookAt, Loop!LookPast, Loop!AssignIdle, Loop!Refused, Loop!Placed, Loop!Fault, Loop!Event
<1>4. ASSUME NEW a \in Agents, Loop!SetAside(a)
      PROVE  LoopPool'
  BY <1>4 DEF Loop!SetAside, Loop!AssignIdle, Loop!Refused, Loop!Placed, Loop!AfterSkip
<1>5. ASSUME NEW a \in Agents, Loop!Submit(a)
      PROVE  LoopPool'
  BY <1>5 DEF Loop!Submit, Loop!IsStalled, Loop!Capped
<1>6. ASSUME Loop!Collecting
      PROVE  LoopPool'
  BY <1>6 DEF Loop!Collecting
<1>7. ASSUME NEW a \in Agents, Loop!Take(a)
      PROVE  LoopPool'
  BY <1>7 DEF Loop!Take, Loop!Collect, Loop!CollectError, Loop!CollectCompletion, Loop!Record, Loop!Taken, Loop!AssignIdle, Loop!Refused, Loop!Placed
<1>8. ASSUME Loop!AllTaken
      PROVE  LoopPool'
  BY <1>8 DEF Loop!AllTaken
<1>9. ASSUME Loop!Wrap
      PROVE  LoopPool'
  BY <1>9 DEF Loop!Wrap
<1>10. ASSUME NEW a \in Agents, NEW o \in Loop!Outcomes, Loop!Run(a, o)
      PROVE  LoopPool'
  BY <1>10 DEF Loop!Run, Loop!Ends
<1>11. ASSUME NEW a \in Agents, NEW o \in Loop!Outcomes, Loop!Stray(a, o)
      PROVE  LoopPool'
  BY <1>11 DEF Loop!Stray, Loop!Ends
<1>12. ASSUME Loop!Timeout
      PROVE  LoopPool'
  BY <1>12 DEF Loop!Timeout, Loop!Fault, Loop!Event
<1>13. ASSUME Loop!Restart
      PROVE  LoopPool'
  BY <1>13 DEF Loop!Restart, Loop!Fault, Loop!Event
<1>14. ASSUME Loop!HostWrites
      PROVE  LoopPool'
  BY <1>14 DEF Loop!HostWrites, Loop!Event
<1>15. ASSUME NEW a \in Agents, Loop!Suspend(a)
      PROVE  LoopPool'
  BY <1>15 DEF Loop!Suspend, Loop!Event
<1>16. ASSUME NEW a \in Agents, Loop!Resume(a)
      PROVE  LoopPool'
  BY <1>16 DEF Loop!Resume
<1>17. CASE UNCHANGED Loop!vars
  BY <1>17 DEF Loop!vars
<1> HIDE DEF LoopPool, Loop!metrics, Loop!loop, Loop!pool, Loop!env
<1> QED
  BY <1>1, <1>2, <1>3, <1>4, <1>5, <1>6, <1>7, <1>8, <1>9, <1>10,
     <1>11, <1>12, <1>13, <1>14, <1>15, <1>16, <1>17
  DEF Loop!Next, Loop!MainLoop, Loop!Worker, Loop!Others

\* and the surroundings.
LEMMA LoopEnvStep == LoopLimits /\ LoopEnv /\ [Loop!Next]_(Loop!vars) => LoopEnv'
<1> SUFFICES ASSUME LoopLimits, LoopEnv, [Loop!Next]_(Loop!vars) PROVE LoopEnv'
  OBVIOUS
<1> USE DEF LoopEnv, LoopLimits, Loop!metrics, Loop!loop, Loop!pool, Loop!env
<1>1. ASSUME Loop!Begin
      PROVE  LoopEnv'
  BY <1>1 DEF Loop!Begin
<1>2. ASSUME NEW a \in Agents, Loop!Interrupt(a)
      PROVE  LoopEnv'
  BY <1>2 DEF Loop!Interrupt, Loop!Refused, Loop!Placed
<1>3. ASSUME NEW a \in Agents, Loop!Look(a)
      PROVE  LoopEnv'
  BY <1>3 DEF Loop!Look, Loop!LookAt, Loop!LookPast, Loop!AssignIdle, Loop!Refused, Loop!Placed, Loop!Fault, Loop!Event
<1>4. ASSUME NEW a \in Agents, Loop!SetAside(a)
      PROVE  LoopEnv'
  BY <1>4 DEF Loop!SetAside, Loop!AssignIdle, Loop!Refused, Loop!Placed, Loop!AfterSkip
<1>5. ASSUME NEW a \in Agents, Loop!Submit(a)
      PROVE  LoopEnv'
  BY <1>5 DEF Loop!Submit, Loop!IsStalled, Loop!Capped
<1>6. ASSUME Loop!Collecting
      PROVE  LoopEnv'
  BY <1>6 DEF Loop!Collecting
<1>7. ASSUME NEW a \in Agents, Loop!Take(a)
      PROVE  LoopEnv'
  BY <1>7 DEF Loop!Take, Loop!Collect, Loop!CollectError, Loop!CollectCompletion, Loop!Record, Loop!Taken, Loop!AssignIdle, Loop!Refused, Loop!Placed
<1>8. ASSUME Loop!AllTaken
      PROVE  LoopEnv'
  BY <1>8 DEF Loop!AllTaken
<1>9. ASSUME Loop!Wrap
      PROVE  LoopEnv'
  BY <1>9 DEF Loop!Wrap
<1>10. ASSUME NEW a \in Agents, NEW o \in Loop!Outcomes, Loop!Run(a, o)
      PROVE  LoopEnv'
  BY <1>10 DEF Loop!Run, Loop!Ends
<1>11. ASSUME NEW a \in Agents, NEW o \in Loop!Outcomes, Loop!Stray(a, o)
      PROVE  LoopEnv'
  BY <1>11 DEF Loop!Stray, Loop!Ends
<1>12. ASSUME Loop!Timeout
      PROVE  LoopEnv'
  BY <1>12 DEF Loop!Timeout, Loop!Fault, Loop!Event
<1>13. ASSUME Loop!Restart
      PROVE  LoopEnv'
  BY <1>13 DEF Loop!Restart, Loop!Fault, Loop!Event
<1>14. ASSUME Loop!HostWrites
      PROVE  LoopEnv'
  BY <1>14 DEF Loop!HostWrites, Loop!Event
<1>15. ASSUME NEW a \in Agents, Loop!Suspend(a)
      PROVE  LoopEnv'
  BY <1>15 DEF Loop!Suspend, Loop!Event
<1>16. ASSUME NEW a \in Agents, Loop!Resume(a)
      PROVE  LoopEnv'
  BY <1>16 DEF Loop!Resume
<1>17. CASE UNCHANGED Loop!vars
  BY <1>17 DEF Loop!vars
<1> HIDE DEF LoopEnv, LoopLimits, Loop!metrics, Loop!loop, Loop!pool, Loop!env
<1> QED
  BY <1>1, <1>2, <1>3, <1>4, <1>5, <1>6, <1>7, <1>8, <1>9, <1>10,
     <1>11, <1>12, <1>13, <1>14, <1>15, <1>16, <1>17
  DEF Loop!Next, Loop!MainLoop, Loop!Worker, Loop!Others

\* A cycle that counts as stalled was started below the limit.
LEMMA LoopStallsStep == LoopLimits /\ LoopStalls /\ Out /\ [Loop!Next]_(Loop!vars) => LoopStalls'
<1> SUFFICES ASSUME LoopLimits, LoopStalls, Out, [Loop!Next]_(Loop!vars) PROVE LoopStalls'
  OBVIOUS
<1> USE DEF LoopStalls, LoopLimits, Out, Loop!metrics, Loop!loop, Loop!pool, Loop!env
<1>1. ASSUME Loop!Begin
      PROVE  LoopStalls'
  BY <1>1 DEF Loop!Begin
<1>2. ASSUME NEW a \in Agents, Loop!Interrupt(a)
      PROVE  LoopStalls'
  BY <1>2 DEF Loop!Interrupt, Loop!Refused, Loop!Placed
<1>3. ASSUME NEW a \in Agents, Loop!Look(a)
      PROVE  LoopStalls'
  BY <1>3 DEF Loop!Look, Loop!LookAt, Loop!LookPast, Loop!AssignIdle, Loop!Refused, Loop!Placed, Loop!Fault, Loop!Event
<1>4. ASSUME NEW a \in Agents, Loop!SetAside(a)
      PROVE  LoopStalls'
  BY <1>4 DEF Loop!SetAside, Loop!AssignIdle, Loop!Refused, Loop!Placed, Loop!AfterSkip
<1>5. ASSUME NEW a \in Agents, Loop!Submit(a)
      PROVE  LoopStalls'
  BY <1>5 DEF Loop!Submit, Loop!IsStalled, Loop!Capped
<1>6. ASSUME Loop!Collecting
      PROVE  LoopStalls'
  BY <1>6 DEF Loop!Collecting
<1>7. ASSUME NEW a \in Agents, Loop!Take(a)
      PROVE  LoopStalls'
  BY <1>7 DEF Loop!Take, Loop!Collect, Loop!CollectError, Loop!CollectCompletion, Loop!Record, Loop!Taken, Loop!AssignIdle, Loop!Refused, Loop!Placed
<1>8. ASSUME Loop!AllTaken
      PROVE  LoopStalls'
  BY <1>8 DEF Loop!AllTaken
<1>9. ASSUME Loop!Wrap
      PROVE  LoopStalls'
  BY <1>9 DEF Loop!Wrap
<1>10. ASSUME NEW a \in Agents, NEW o \in Loop!Outcomes, Loop!Run(a, o)
      PROVE  LoopStalls'
  BY <1>10 DEF Loop!Run, Loop!Ends
<1>11. ASSUME NEW a \in Agents, NEW o \in Loop!Outcomes, Loop!Stray(a, o)
      PROVE  LoopStalls'
  BY <1>11 DEF Loop!Stray, Loop!Ends
<1>12. ASSUME Loop!Timeout
      PROVE  LoopStalls'
  BY <1>12 DEF Loop!Timeout, Loop!Fault, Loop!Event
<1>13. ASSUME Loop!Restart
      PROVE  LoopStalls'
  BY <1>13 DEF Loop!Restart, Loop!Fault, Loop!Event
<1>14. ASSUME Loop!HostWrites
      PROVE  LoopStalls'
  BY <1>14 DEF Loop!HostWrites, Loop!Event
<1>15. ASSUME NEW a \in Agents, Loop!Suspend(a)
      PROVE  LoopStalls'
  BY <1>15 DEF Loop!Suspend, Loop!Event
<1>16. ASSUME NEW a \in Agents, Loop!Resume(a)
      PROVE  LoopStalls'
  BY <1>16 DEF Loop!Resume
<1>17. CASE UNCHANGED Loop!vars
  BY <1>17 DEF Loop!vars
<1> HIDE DEF LoopStalls, LoopLimits, Out, Loop!metrics, Loop!loop, Loop!pool, Loop!env
<1> QED
  BY <1>1, <1>2, <1>3, <1>4, <1>5, <1>6, <1>7, <1>8, <1>9, <1>10,
     <1>11, <1>12, <1>13, <1>14, <1>15, <1>16, <1>17
  DEF Loop!Next, Loop!MainLoop, Loop!Worker, Loop!Others

\* An agent is submitted when it is neither stalled nor set aside, and once.
LEMMA OutStep == LoopLimits /\ LoopStalls /\ LoopTurn /\ LoopPool /\ Out /\ [Loop!Next]_(Loop!vars) => Out'
<1> SUFFICES ASSUME LoopLimits, LoopStalls, LoopTurn, LoopPool, Out, [Loop!Next]_(Loop!vars) PROVE Out'
  OBVIOUS
<1> USE DEF LoopStalls, LoopLimits, LoopTurn, LoopPool, Out, Loop!metrics, Loop!loop, Loop!pool, Loop!env
<1>1. ASSUME Loop!Begin
      PROVE  Out'
  BY <1>1 DEF Loop!Begin
<1>2. ASSUME NEW a \in Agents, Loop!Interrupt(a)
      PROVE  Out'
  BY <1>2 DEF Loop!Interrupt, Loop!Refused, Loop!Placed
<1>3. ASSUME NEW a \in Agents, Loop!Look(a)
      PROVE  Out'
  <2>1. /\ phase = "look" /\ phase' \in {"look", "triage"} /\ (phase' = "triage" => todo' = active')
        /\ work' = work /\ stalled' = stalled /\ skipped' = skipped
    BY <1>3 DEF Loop!Look
  <2>2. \A b \in active' : b \in active \/ b \notin skipped
    BY <1>3 DEF Loop!Look, Loop!LookAt, Loop!LookPast
  <2>3. \A b \in Agents : work[b] = "none"
    BY <2>1
  <2> QED
    BY <2>1, <2>2, <2>3
<1>4. ASSUME NEW a \in Agents, Loop!SetAside(a)
      PROVE  Out'
  <2>0. phase = "triage" /\ todo # {} /\ a = Loop!Least(todo)
    BY <1>4 DEF Loop!SetAside
  <2>1. phase = "triage" /\ a \in todo
    BY <2>0, FirstLeft
  <2>2. work[a] = "none"
    BY <2>1
  <2>3. /\ skipped' = skipped \cup {a} /\ todo' = todo \ {a} /\ phase' = phase
        /\ stalled' = [stalled EXCEPT ![a] = 0] /\ work' = work
    BY <1>4 DEF Loop!SetAside, Loop!AfterSkip
  <2>4. \A b \in Agents : work'[b] # "none" => b # a /\ stalled'[b] = stalled[b]
    BY <2>2, <2>3
  <2>5. \A b \in Agents : work'[b] # "none" =>
          /\ stalled'[b] < StallLimit /\ b \notin skipped'
          /\ phase' \in {"triage", "collect"} /\ (phase' = "triage" => b \notin todo')
    BY <2>3, <2>4
  <2> QED
    BY <2>1, <2>3, <2>5
<1>5. ASSUME NEW a \in Agents, Loop!Submit(a)
      PROVE  Out'
  <2>0. phase = "triage" /\ todo # {} /\ a = Loop!Least(todo) /\ ~ (stalled[a] >= StallLimit)
    BY <1>5 DEF Loop!Submit, Loop!IsStalled
  <2>1. phase = "triage" /\ a \in todo /\ ~ (stalled[a] >= StallLimit)
    BY <2>0, FirstLeft
  <2>2. stalled[a] < StallLimit
    BY <2>1
  <2>3. /\ work' = [work EXCEPT ![a] = "running"] /\ todo' = todo \ {a}
        /\ stalled' = stalled /\ skipped' = skipped /\ phase' = phase
    BY <1>5 DEF Loop!Submit
  <2>4. \A b \in Agents : b # a => work'[b] = work[b]
    BY <2>3
  <2> QED
    BY <2>1, <2>2, <2>3, <2>4
<1>6. ASSUME Loop!Collecting
      PROVE  Out'
  BY <1>6 DEF Loop!Collecting
<1>7. ASSUME NEW a \in Agents, Loop!Take(a)
      PROVE  Out'
  BY <1>7 DEF Loop!Take, Loop!Collect, Loop!CollectError, Loop!CollectCompletion, Loop!Record, Loop!Taken, Loop!AssignIdle, Loop!Refused, Loop!Placed
<1>8. ASSUME Loop!AllTaken
      PROVE  Out'
  BY <1>8 DEF Loop!AllTaken
<1>9. ASSUME Loop!Wrap
      PROVE  Out'
  BY <1>9 DEF Loop!Wrap
<1>10. ASSUME NEW a \in Agents, NEW o \in Loop!Outcomes, Loop!Run(a, o)
      PROVE  Out'
  BY <1>10 DEF Loop!Run, Loop!Ends
<1>11. ASSUME NEW a \in Agents, NEW o \in Loop!Outcomes, Loop!Stray(a, o)
      PROVE  Out'
  BY <1>11 DEF Loop!Stray, Loop!Ends
<1>12. ASSUME Loop!Timeout
      PROVE  Out'
  BY <1>12 DEF Loop!Timeout, Loop!Fault, Loop!Event
<1>13. ASSUME Loop!Restart
      PROVE  Out'
  BY <1>13 DEF Loop!Restart, Loop!Fault, Loop!Event
<1>14. ASSUME Loop!HostWrites
      PROVE  Out'
  BY <1>14 DEF Loop!HostWrites, Loop!Event
<1>15. ASSUME NEW a \in Agents, Loop!Suspend(a)
      PROVE  Out'
  BY <1>15 DEF Loop!Suspend, Loop!Event
<1>16. ASSUME NEW a \in Agents, Loop!Resume(a)
      PROVE  Out'
  BY <1>16 DEF Loop!Resume
<1>17. CASE UNCHANGED Loop!vars
  BY <1>17 DEF Loop!vars
<1> HIDE DEF LoopStalls, LoopLimits, LoopTurn, LoopPool, Out, Loop!metrics, Loop!loop, Loop!pool, Loop!env
<1> QED
  BY <1>1, <1>2, <1>3, <1>4, <1>5, <1>6, <1>7, <1>8, <1>9, <1>10,
     <1>11, <1>12, <1>13, <1>14, <1>15, <1>16, <1>17
  DEF Loop!Next, Loop!MainLoop, Loop!Worker, Loop!Others

\* An agent that gets its only goal, or no goal, stays within the bound.
LEMMA GoaledBy ==
    ASSUME LoopLimits, LoopGoals, LoopEnv, Goaled,
           \A b \in Agents : count'[b] \in Nat /\ (count'[b] <= count[b] \/ count'[b] = 1),
           events' \in Nat, events' >= events, hostFile' => hostFile,
           phase' = "host" => phase = "host" /\ todo' \subseteq todo
    PROVE  Goaled'
<1> SUFFICES ASSUME NEW b \in Agents PROVE count'[b] + Told(b)' <= MaxGoals + events' /\ Told(b)' <= events'
  BY DEF Goaled
<1>1. Told(b) \in Nat /\ Told(b)' \in Nat /\ Told(b)' <= Told(b)
  BY DEF Told
<1>2. count[b] + Told(b) <= MaxGoals + events /\ Told(b) <= events
  BY DEF Goaled
<1>3. count[b] \in Nat /\ MaxGoals \in Nat /\ MaxGoals >= 1 /\ events \in Nat
  BY DEF LoopGoals, LoopLimits, LoopEnv
<1> QED
  BY <1>1, <1>2, <1>3

\* Only a message gives a goal to an agent that has one.
LEMMA GoaledStep == LoopLimits /\ LoopGoals /\ LoopEnv /\ LoopTurn /\ Goaled /\ [Loop!Next]_(Loop!vars) => Goaled'
<1> SUFFICES ASSUME LoopLimits, LoopGoals, LoopEnv, LoopTurn, Goaled, [Loop!Next]_(Loop!vars) PROVE Goaled'
  OBVIOUS
<1> USE DEF Loop!metrics, Loop!loop, Loop!pool, Loop!env
<1>1. ASSUME Loop!Begin
      PROVE  Goaled'
  <2>1. /\ count' = count /\ events' = events /\ hostFile' = FALSE /\ phase = "top"
        /\ phase' = "host" => hostFile
    BY <1>1 DEF Loop!Begin
  <2>2. \A b \in Agents : Told(b) \in Nat /\ Told(b)' \in Nat /\ Told(b)' <= Told(b)
    BY <2>1 DEF Told
  <2>3. \A b \in Agents : count[b] \in Nat /\ events \in Nat /\ MaxGoals \in Nat
    BY DEF LoopGoals, LoopEnv, LoopLimits
  <2> QED
    BY <2>1, <2>2, <2>3 DEF Goaled
<1>2. ASSUME NEW a \in Agents, Loop!Interrupt(a)
      PROVE  Goaled'
  <2>0. phase = "host" /\ todo # {} /\ a = Loop!Least(todo) /\ hostFile' = hostFile /\ events' = events
    BY <1>2 DEF Loop!Interrupt
  <2>1. phase' = "look" \/ (phase' = phase /\ todo' = todo \ {a})
    BY <1>2 DEF Loop!Interrupt
  <2>2. \A b \in Agents : b # a => count'[b] = count[b]
    BY <1>2 DEF Loop!Interrupt, Loop!Refused, Loop!Placed, LoopGoals
  <2>3. count'[a] \in Nat /\ count'[a] <= count[a] + 1
    BY <1>2 DEF Loop!Interrupt, Loop!Refused, Loop!Placed, LoopGoals
  <2>4. \A b \in Agents : count[b] \in Nat /\ events \in Nat /\ MaxGoals \in Nat
    BY DEF LoopGoals, LoopEnv, LoopLimits
  <2> SUFFICES ASSUME NEW b \in Agents PROVE count'[b] + Told(b)' <= MaxGoals + events' /\ Told(b)' <= events'
    BY DEF Goaled
  <2>5. Told(b) \in Nat /\ Told(b)' \in Nat /\ Told(b)' <= Told(b)
    BY <2>0, <2>1 DEF Told
  <2>6. a \in todo
    BY <2>0, FirstLeft
  <2>7. b = a => Told(b)' = Told(b) - 1
    BY <2>0, <2>1, <2>6 DEF Told
  <2>8. count[b] + Told(b) <= MaxGoals + events /\ Told(b) <= events
    BY DEF Goaled
  <2> QED
    BY <2>0, <2>2, <2>3, <2>4, <2>5, <2>7, <2>8
<1>3. ASSUME NEW a \in Agents, Loop!Look(a)
      PROVE  Goaled'
  <2>1. \A b \in Agents : count'[b] \in Nat /\ (count'[b] <= count[b] \/ count'[b] = 1)
    BY <1>3 DEF LoopGoals, LoopLimits, Loop!Look, Loop!LookAt, Loop!LookPast, Loop!AssignIdle, Loop!Refused, Loop!Placed, Loop!Fault, Loop!Event
  <2>2. events' \in Nat /\ events' >= events
    BY <1>3 DEF LoopEnv, Loop!Look, Loop!LookAt, Loop!LookPast, Loop!AssignIdle, Loop!Refused, Loop!Placed, Loop!Fault, Loop!Event
  <2>3. (hostFile' => hostFile) /\ (phase' = "host" => phase = "host" /\ todo' \subseteq todo)
    BY <1>3 DEF Loop!Look, Loop!LookAt, Loop!LookPast, Loop!AssignIdle, Loop!Refused, Loop!Placed, Loop!Fault, Loop!Event
  <2> QED
    BY <2>1, <2>2, <2>3, GoaledBy
<1>4. ASSUME NEW a \in Agents, Loop!SetAside(a)
      PROVE  Goaled'
  <2>1. \A b \in Agents : count'[b] \in Nat /\ (count'[b] <= count[b] \/ count'[b] = 1)
    BY <1>4 DEF LoopGoals, LoopLimits, Loop!SetAside, Loop!AssignIdle, Loop!Refused, Loop!Placed, Loop!AfterSkip
  <2>2. events' \in Nat /\ events' >= events
    BY <1>4 DEF LoopEnv, Loop!SetAside, Loop!AssignIdle, Loop!Refused, Loop!Placed, Loop!AfterSkip
  <2>3. (hostFile' => hostFile) /\ (phase' = "host" => phase = "host" /\ todo' \subseteq todo)
    BY <1>4 DEF Loop!SetAside, Loop!AssignIdle, Loop!Refused, Loop!Placed, Loop!AfterSkip
  <2> QED
    BY <2>1, <2>2, <2>3, GoaledBy
<1>5. ASSUME NEW a \in Agents, Loop!Submit(a)
      PROVE  Goaled'
  <2>1. \A b \in Agents : count'[b] \in Nat /\ (count'[b] <= count[b] \/ count'[b] = 1)
    BY <1>5 DEF LoopGoals, LoopLimits, Loop!Submit, Loop!IsStalled, Loop!Capped
  <2>2. events' \in Nat /\ events' >= events
    BY <1>5 DEF LoopEnv, Loop!Submit, Loop!IsStalled, Loop!Capped
  <2>3. (hostFile' => hostFile) /\ (phase' = "host" => phase = "host" /\ todo' \subseteq todo)
    BY <1>5 DEF Loop!Submit, Loop!IsStalled, Loop!Capped
  <2> QED
    BY <2>1, <2>2, <2>3, GoaledBy
<1>6. ASSUME Loop!Collecting
      PROVE  Goaled'
  <2>1. \A b \in Agents : count'[b] \in Nat /\ (count'[b] <= count[b] \/ count'[b] = 1)
    BY <1>6 DEF LoopGoals, LoopLimits, Loop!Collecting
  <2>2. events' \in Nat /\ events' >= events
    BY <1>6 DEF LoopEnv, Loop!Collecting
  <2>3. (hostFile' => hostFile) /\ (phase' = "host" => phase = "host" /\ todo' \subseteq todo)
    BY <1>6 DEF Loop!Collecting
  <2> QED
    BY <2>1, <2>2, <2>3, GoaledBy
<1>7. ASSUME NEW a \in Agents, Loop!Take(a)
      PROVE  Goaled'
  <2>1. \A b \in Agents : count'[b] \in Nat /\ (count'[b] <= count[b] \/ count'[b] = 1)
    BY <1>7 DEF LoopGoals, LoopLimits, Loop!Take, Loop!Collect, Loop!CollectError, Loop!CollectCompletion, Loop!Record, Loop!Taken, Loop!AssignIdle, Loop!Refused, Loop!Placed
  <2>2. events' \in Nat /\ events' >= events
    BY <1>7 DEF LoopEnv, Loop!Take, Loop!Collect, Loop!CollectError, Loop!CollectCompletion, Loop!Record, Loop!Taken, Loop!AssignIdle, Loop!Refused, Loop!Placed
  <2>3. (hostFile' => hostFile) /\ (phase' = "host" => phase = "host" /\ todo' \subseteq todo)
    BY <1>7 DEF Loop!Take, Loop!Collect, Loop!CollectError, Loop!CollectCompletion, Loop!Record, Loop!Taken, Loop!AssignIdle, Loop!Refused, Loop!Placed
  <2> QED
    BY <2>1, <2>2, <2>3, GoaledBy
<1>8. ASSUME Loop!AllTaken
      PROVE  Goaled'
  <2>1. \A b \in Agents : count'[b] \in Nat /\ (count'[b] <= count[b] \/ count'[b] = 1)
    BY <1>8 DEF LoopGoals, LoopLimits, Loop!AllTaken
  <2>2. events' \in Nat /\ events' >= events
    BY <1>8 DEF LoopEnv, Loop!AllTaken
  <2>3. (hostFile' => hostFile) /\ (phase' = "host" => phase = "host" /\ todo' \subseteq todo)
    BY <1>8 DEF Loop!AllTaken
  <2> QED
    BY <2>1, <2>2, <2>3, GoaledBy
<1>9. ASSUME Loop!Wrap
      PROVE  Goaled'
  <2>1. \A b \in Agents : count'[b] \in Nat /\ (count'[b] <= count[b] \/ count'[b] = 1)
    BY <1>9 DEF LoopGoals, LoopLimits, Loop!Wrap
  <2>2. events' \in Nat /\ events' >= events
    BY <1>9 DEF LoopEnv, Loop!Wrap
  <2>3. (hostFile' => hostFile) /\ (phase' = "host" => phase = "host" /\ todo' \subseteq todo)
    BY <1>9 DEF Loop!Wrap
  <2> QED
    BY <2>1, <2>2, <2>3, GoaledBy
<1>10. ASSUME NEW a \in Agents, NEW o \in Loop!Outcomes, Loop!Run(a, o)
      PROVE  Goaled'
  <2>1. \A b \in Agents : count'[b] \in Nat /\ (count'[b] <= count[b] \/ count'[b] = 1)
    BY <1>10 DEF LoopGoals, LoopLimits, Loop!Run, Loop!Ends
  <2>2. events' \in Nat /\ events' >= events
    BY <1>10 DEF LoopEnv, Loop!Run, Loop!Ends
  <2>3. (hostFile' => hostFile) /\ (phase' = "host" => phase = "host" /\ todo' \subseteq todo)
    BY <1>10 DEF Loop!Run, Loop!Ends
  <2> QED
    BY <2>1, <2>2, <2>3, GoaledBy
<1>11. ASSUME NEW a \in Agents, NEW o \in Loop!Outcomes, Loop!Stray(a, o)
      PROVE  Goaled'
  <2>1. \A b \in Agents : count'[b] \in Nat /\ (count'[b] <= count[b] \/ count'[b] = 1)
    BY <1>11 DEF LoopGoals, LoopLimits, Loop!Stray, Loop!Ends
  <2>2. events' \in Nat /\ events' >= events
    BY <1>11 DEF LoopEnv, Loop!Stray, Loop!Ends
  <2>3. (hostFile' => hostFile) /\ (phase' = "host" => phase = "host" /\ todo' \subseteq todo)
    BY <1>11 DEF Loop!Stray, Loop!Ends
  <2> QED
    BY <2>1, <2>2, <2>3, GoaledBy
<1>12. ASSUME Loop!Timeout
      PROVE  Goaled'
  <2>1. \A b \in Agents : count'[b] \in Nat /\ (count'[b] <= count[b] \/ count'[b] = 1)
    BY <1>12 DEF LoopGoals, LoopLimits, Loop!Timeout, Loop!Fault, Loop!Event
  <2>2. events' \in Nat /\ events' >= events
    BY <1>12 DEF LoopEnv, Loop!Timeout, Loop!Fault, Loop!Event
  <2>3. (hostFile' => hostFile) /\ (phase' = "host" => phase = "host" /\ todo' \subseteq todo)
    BY <1>12 DEF Loop!Timeout, Loop!Fault, Loop!Event
  <2> QED
    BY <2>1, <2>2, <2>3, GoaledBy
<1>13. ASSUME Loop!Restart
      PROVE  Goaled'
  <2>1. \A b \in Agents : count'[b] \in Nat /\ (count'[b] <= count[b] \/ count'[b] = 1)
    BY <1>13 DEF LoopGoals, LoopLimits, Loop!Restart, Loop!Fault, Loop!Event
  <2>2. events' \in Nat /\ events' >= events
    BY <1>13 DEF LoopEnv, Loop!Restart, Loop!Fault, Loop!Event
  <2>3. (hostFile' => hostFile) /\ (phase' = "host" => phase = "host" /\ todo' \subseteq todo)
    BY <1>13 DEF Loop!Restart, Loop!Fault, Loop!Event
  <2> QED
    BY <2>1, <2>2, <2>3, GoaledBy
<1>14. ASSUME Loop!HostWrites
      PROVE  Goaled'
  <2>1. count' = count /\ events' = events + 1 /\ phase' = phase /\ todo' = todo
    BY <1>14 DEF Loop!HostWrites, Loop!Event
  <2>2. \A b \in Agents : Told(b) \in Nat /\ Told(b)' \in Nat /\ Told(b)' <= Told(b) + 1
    BY <2>1 DEF Told
  <2>3. \A b \in Agents : count[b] \in Nat /\ events \in Nat /\ MaxGoals \in Nat
    BY DEF LoopGoals, LoopEnv, LoopLimits
  <2> QED
    BY <2>1, <2>2, <2>3 DEF Goaled
<1>15. ASSUME NEW a \in Agents, Loop!Suspend(a)
      PROVE  Goaled'
  <2>1. \A b \in Agents : count'[b] \in Nat /\ (count'[b] <= count[b] \/ count'[b] = 1)
    BY <1>15 DEF LoopGoals, LoopLimits, Loop!Suspend, Loop!Event
  <2>2. events' \in Nat /\ events' >= events
    BY <1>15 DEF LoopEnv, Loop!Suspend, Loop!Event
  <2>3. (hostFile' => hostFile) /\ (phase' = "host" => phase = "host" /\ todo' \subseteq todo)
    BY <1>15 DEF Loop!Suspend, Loop!Event
  <2> QED
    BY <2>1, <2>2, <2>3, GoaledBy
<1>16. ASSUME NEW a \in Agents, Loop!Resume(a)
      PROVE  Goaled'
  <2>1. \A b \in Agents : count'[b] \in Nat /\ (count'[b] <= count[b] \/ count'[b] = 1)
    BY <1>16 DEF LoopGoals, LoopLimits, Loop!Resume
  <2>2. events' \in Nat /\ events' >= events
    BY <1>16 DEF LoopEnv, Loop!Resume
  <2>3. (hostFile' => hostFile) /\ (phase' = "host" => phase = "host" /\ todo' \subseteq todo)
    BY <1>16 DEF Loop!Resume
  <2> QED
    BY <2>1, <2>2, <2>3, GoaledBy
<1>17. CASE UNCHANGED Loop!vars
  BY <1>17 DEF Loop!vars, Goaled, Told
<1> HIDE DEF Loop!metrics, Loop!loop, Loop!pool, Loop!env
<1> QED
  BY <1>1, <1>2, <1>3, <1>4, <1>5, <1>6, <1>7, <1>8, <1>9, <1>10,
     <1>11, <1>12, <1>13, <1>14, <1>15, <1>16, <1>17
  DEF Loop!Next, Loop!MainLoop, Loop!Worker, Loop!Others

LEMMA LoopInit == LoopLimits /\ Loop!Init => LoopInv
<1> SUFFICES ASSUME LoopLimits, Loop!Init PROVE LoopInv
  OBVIOUS
<1> USE DEF LoopLimits, Loop!Init
<1>1. LoopGoals /\ LoopAges /\ LoopStalls
  BY DEF LoopGoals, LoopAges, LoopStalls, Places
<1>2. LoopTurn
  BY DEF LoopTurn, Loop!Phases
<1>3. LoopPool
  BY DEF LoopPool, Loop!Outcomes
<1>4. LoopEnv
  <2>1. hostFile \in BOOLEAN
    BY Zenon
  <2>2. suspended \subseteq Agents /\ events \in 0..MaxEvents
    OBVIOUS
  <2> QED
    BY <2>1, <2>2 DEF LoopEnv
<1>5. Out
  BY DEF Out
<1>6. Goaled
  BY DEF Goaled, Told
<1> QED
  BY <1>1, <1>2, <1>3, <1>4, <1>5, <1>6 DEF LoopInv

LEMMA LoopStep == LoopLimits /\ LoopInv /\ [Loop!Next]_(Loop!vars) => LoopInv'
  BY LoopGoalsStep, LoopAgesStep, LoopTurnStep, LoopPoolStep, LoopEnvStep, LoopStallsStep,
     OutStep, GoaledStep DEF LoopInv

LEMMA LoopInvariance == ASSUME LoopLimits PROVE Loop!Spec => []LoopInv
<1>1. Loop!Init => LoopInv
  BY LoopInit
<1>2. LoopInv /\ [Loop!Next]_(Loop!vars) => LoopInv'
  BY LoopStep
<1> QED
  BY <1>1, <1>2, PTL DEF Loop!Spec

\* Every variable of the main loop keeps its type (the TypeOK that Daemon's runs
\* check): an agent has never more goals than _cap_agent_goals leaves and
\* messages of the host have come, and no count of stalled cycles passes its limit.
THEOREM LoopTyping == ASSUME LoopLimits PROVE Loop!Spec => []Loop!TypeOK
<1>1. LoopInv => Loop!TypeOK
  <2> SUFFICES ASSUME LoopInv PROVE Loop!TypeOK
    OBVIOUS
  <2>1. count \in [Agents -> 0..(MaxGoals + MaxEvents)]
    <3>1. \A a \in Agents : count[a] \in Nat /\ Told(a) \in Nat /\ count[a] + Told(a) <= MaxGoals + events
      BY DEF LoopInv, LoopGoals, Goaled, Told
    <3>2. events \in Nat /\ events <= MaxEvents /\ MaxGoals \in Nat /\ MaxEvents \in Nat
      BY DEF LoopInv, LoopEnv, LoopLimits
    <3>3. \A a \in Agents : count[a] \in 0..(MaxGoals + MaxEvents)
      BY <3>1, <3>2
    <3> QED
      BY <3>3 DEF LoopInv, LoopGoals
  <2> QED
    BY <2>1 DEF LoopInv, LoopGoals, LoopAges, LoopTurn, LoopPool, LoopEnv, LoopStalls, Places,
                Loop!TypeOK
<1> QED
  BY <1>1, LoopInvariance, PTL

\* Setting an agent aside means what it says: while it is in skipped_agents no
\* worker of the pool pursues for it.  So the line of record_outcome that takes an
\* agent with progress off the set finds none.
RestsAside == \A a \in skipped : work[a] = "none"

\* An agent is put back at the end of a turn, or by a restart.
PutBackInTurn ==
    \A a \in skipped : a \notin skipped' => phase = "wrap" \/ events' # events

\* No worker of the pool pursues for an agent that is set aside.
THEOREM AsideRests == ASSUME LoopLimits PROVE Loop!Spec => []RestsAside
<1>1. LoopInv => RestsAside
  BY DEF LoopInv, LoopTurn, Out, RestsAside
<1> QED
  BY <1>1, LoopInvariance, PTL

LEMMA PutBackStep == LoopTurn /\ LoopPool /\ LoopEnv /\ Out /\ [Loop!Next]_(Loop!vars) => PutBackInTurn
<1> SUFFICES ASSUME LoopTurn, LoopPool, LoopEnv, Out, [Loop!Next]_(Loop!vars) PROVE PutBackInTurn
  OBVIOUS
<1> USE DEF LoopTurn, LoopPool, LoopEnv, Out, PutBackInTurn, Loop!metrics, Loop!loop, Loop!pool, Loop!env
<1>1. ASSUME Loop!Begin
      PROVE  PutBackInTurn
  BY <1>1 DEF Loop!Begin
<1>2. ASSUME NEW a \in Agents, Loop!Interrupt(a)
      PROVE  PutBackInTurn
  BY <1>2 DEF Loop!Interrupt, Loop!Refused, Loop!Placed
<1>3. ASSUME NEW a \in Agents, Loop!Look(a)
      PROVE  PutBackInTurn
  BY <1>3 DEF Loop!Look, Loop!LookAt, Loop!LookPast, Loop!AssignIdle, Loop!Refused, Loop!Placed, Loop!Fault, Loop!Event
<1>4. ASSUME NEW a \in Agents, Loop!SetAside(a)
      PROVE  PutBackInTurn
  BY <1>4 DEF Loop!SetAside, Loop!AssignIdle, Loop!Refused, Loop!Placed, Loop!AfterSkip
<1>5. ASSUME NEW a \in Agents, Loop!Submit(a)
      PROVE  PutBackInTurn
  BY <1>5 DEF Loop!Submit, Loop!IsStalled, Loop!Capped
<1>6. ASSUME Loop!Collecting
      PROVE  PutBackInTurn
  BY <1>6 DEF Loop!Collecting
<1>7. ASSUME NEW a \in Agents, Loop!Take(a)
      PROVE  PutBackInTurn
  BY <1>7 DEF Loop!Take, Loop!Collect, Loop!CollectError, Loop!CollectCompletion, Loop!Record, Loop!Taken, Loop!AssignIdle, Loop!Refused, Loop!Placed
<1>8. ASSUME Loop!AllTaken
      PROVE  PutBackInTurn
  BY <1>8 DEF Loop!AllTaken
<1>9. ASSUME Loop!Wrap
      PROVE  PutBackInTurn
  BY <1>9 DEF Loop!Wrap
<1>10. ASSUME NEW a \in Agents, NEW o \in Loop!Outcomes, Loop!Run(a, o)
      PROVE  PutBackInTurn
  BY <1>10 DEF Loop!Run, Loop!Ends
<1>11. ASSUME NEW a \in Agents, NEW o \in Loop!Outcomes, Loop!Stray(a, o)
      PROVE  PutBackInTurn
  BY <1>11 DEF Loop!Stray, Loop!Ends
<1>12. ASSUME Loop!Timeout
      PROVE  PutBackInTurn
  BY <1>12 DEF Loop!Timeout, Loop!Fault, Loop!Event
<1>13. ASSUME Loop!Restart
      PROVE  PutBackInTurn
  BY <1>13 DEF Loop!Restart, Loop!Fault, Loop!Event
<1>14. ASSUME Loop!HostWrites
      PROVE  PutBackInTurn
  BY <1>14 DEF Loop!HostWrites, Loop!Event
<1>15. ASSUME NEW a \in Agents, Loop!Suspend(a)
      PROVE  PutBackInTurn
  BY <1>15 DEF Loop!Suspend, Loop!Event
<1>16. ASSUME NEW a \in Agents, Loop!Resume(a)
      PROVE  PutBackInTurn
  BY <1>16 DEF Loop!Resume
<1>17. CASE UNCHANGED Loop!vars
  BY <1>17 DEF Loop!vars
<1> HIDE DEF LoopTurn, LoopPool, LoopEnv, Out, PutBackInTurn, Loop!metrics, Loop!loop, Loop!pool, Loop!env
<1> QED
  BY <1>1, <1>2, <1>3, <1>4, <1>5, <1>6, <1>7, <1>8, <1>9, <1>10,
     <1>11, <1>12, <1>13, <1>14, <1>15, <1>16, <1>17
  DEF Loop!Next, Loop!MainLoop, Loop!Worker, Loop!Others

\* Nobody but the end of a turn, or a restart, puts an agent back.
THEOREM AsideUntilReleased == ASSUME LoopLimits PROVE Loop!Spec => [][PutBackInTurn]_(Loop!vars)
<1>1. LoopInv /\ [Loop!Next]_(Loop!vars) => [PutBackInTurn]_(Loop!vars)
  BY PutBackStep DEF LoopInv
<1> QED
  BY <1>1, LoopInvariance, PTL DEF Loop!Spec
=============================================================================
