----------------------------- MODULE WorkProofs -----------------------------
(***************************************************************************)
(* Proofs about the goal files and the task file of an agent, for any      *)
(* number of tasks, goals, request threads, requests and crashes: types;   *)
(* chains of tasks run in order and tasks move forward, whatever the lack  *)
(* of a lock and a stop in the middle of a write lose; and the goal files  *)
(* keep what the engine promises (GoalStore) until a write goes over a     *)
(* change that another engine made.                                        *)
(***************************************************************************)
EXTENDS Work, FiniteSetTheorems, WellFoundedInduction, TLAPS

-----------------------------------------------------------------------------
(* Choosing. *)

\* A set of numbers that is not empty has a least element, and Least is one.
LEMMA LeastOfSet ==
    ASSUME NEW T \in SUBSET Nat, T # {}
    PROVE  Least(T) \in T
<1> DEFINE R == {ss \in Nat \X Nat : ss[1] < ss[2]}
<1>1. IsWellFoundedOn(R, Nat)
  BY NatLessThanWellFounded, Zenon DEF OpToRel
<1> HIDE DEF R
<1>2. PICK m \in T : \A n \in T : ~ (<<n, m>> \in R)
  BY <1>1, WFMin, Zenon
<1>3. \A n \in T : ~ (n < m)
  BY <1>2 DEF R
<1>4. \A n \in T : m <= n
  BY <1>3
<1> QED
  BY <1>4 DEF Least

-----------------------------------------------------------------------------
(* The task file. *)

QueueTypes ==
    /\ queue \in [Tasks -> TaskStatuses] /\ seenQueue \in [Tasks -> TaskStatuses]
    /\ turn \in {"look", "readTasks", "expire", "claim", "report", "complete"} \cup Writing

\* A task that was begun has its predecessor completed.
Chain(q) ==
    \A t \in Tasks : q[t] \in {"assigned", "completed", "failed"} => \A d \in DependsOn[t] : q[d] = "completed"

Appended(t) == seenQueue[t] = "none" /\ queue[t] = "pending"

\* What the daemon has read differs from the task file only by the tasks that
\* were submitted meanwhile and those that it is about to fail; and while the
\* file is emptied, what is about to be written holds every task that was read.
Copied ==
    /\ turn \in {"claim", "complete"} => \A t \in Tasks : queue[t] = seenQueue[t] \/ Appended(t)
    /\ turn = "expire" =>
         \A t \in Tasks : \/ queue[t] = seenQueue[t] \/ Appended(t)
                          \/ queue[t] = "assigned" /\ seenQueue[t] = "failed" /\ t \in old
    /\ turn \in Writing =>
         \A t \in Tasks : IF seenQueue[t] = "none" THEN queue[t] \in {"none", "pending", "lost"}
                                                   ELSE queue[t] = "lost"
    /\ turn = "claiming" => held \in Tasks /\ seenQueue[held] = "assigned"

QueueInv ==
    /\ QueueTypes /\ Copied /\ Chain(queue)
    /\ turn \in {"expire", "claim", "complete"} \cup Writing => Chain(seenQueue)

\* The steps that leave the task file and the daemon's turn alone, and the others.
QueueKind ==
    \/ UNCHANGED <<queue, tasking>> /\ old \subseteq old'
    \/ \E s \in Pursuits : Pursue(s)
    \/ LookForTasks \/ ReadTasks \/ Expire \/ Claim \/ CompleteTask \/ WriteTasks \/ Choose
    \/ \E t \in Tasks : SubmitTask(t)
    \/ Crash

LEMMA QueueKinds == [Next]_vars => QueueKind
<1> SUFFICES ASSUME [Next]_vars PROVE QueueKind
  OBVIOUS
<1>1. ASSUME NEW p \in Actors, GoalStep(p) PROVE QueueKind
  BY <1>1 DEF GoalStep, Count, AppendLine, ReadIndex, WriteIndex, ReadFiles, WriteLines, QueueKind
<1>2. ASSUME NEW p \in Servers, Request(p) PROVE QueueKind
  BY <1>2 DEF Request, QueueKind
<1>3. ASSUME NEW t \in Tasks, Age(t) PROVE QueueKind
  BY <1>3 DEF Age, QueueKind
<1>4. CASE UNCHANGED vars
  BY <1>4 DEF vars, tasking, QueueKind
<1>5. CASE TaskStep \/ Crash \/ (\E s \in Pursuits : Pursue(s)) \/ (\E t \in Tasks : SubmitTask(t))
  BY <1>5 DEF TaskStep, QueueKind
<1> QED
  BY <1>1, <1>2, <1>3, <1>4, <1>5 DEF Next, DaemonStep, Actors

\* The task that is claimed may run.
LEMMA ClaimedTask ==
    ASSUME QueueTypes, Claim
    PROVE  /\ held' \in Tasks /\ seenQueue[held'] = "pending"
           /\ \A d \in DependsOn[held'] : seenQueue[d] = "completed"
           /\ seenQueue' = [seenQueue EXCEPT ![held'] = "assigned"]
<1>1. Claimable(seenQueue) \in SUBSET Nat /\ Claimable(seenQueue) # {}
  BY NamesAssumption DEF Claimable, Claim
<1>2. held' \in Claimable(seenQueue)
  BY <1>1, LeastOfSet DEF Claim
<1> QED
  BY <1>2 DEF Claimable, Offered, Ready, Claim, Claimed

\* The task that is completed was assigned, and its output is there or the goal
\* that ended resembles it.
Completes(t) ==
    /\ seenQueue[t] = "assigned" /\ (t \in Outputs \/ held \in Resembles[t])
    /\ seenQueue' = [seenQueue EXCEPT ![t] = "completed"]
    /\ turn' = "completing" /\ queue' = Emptied /\ held' = held

LEMMA CompletedTask ==
    ASSUME QueueTypes, CompleteTask
    PROVE  turn = "complete" /\ ((Idle /\ queue' = queue) \/ \E t \in Tasks : Completes(t))
<1>1. PICK D \in SUBSET Outputs, found \in BOOLEAN :
        LET done == Reported(seenQueue, D, found /\ held \in Listed) IN
        \/ done = {} /\ Idle /\ UNCHANGED queue
        \/ /\ done # {}
           /\ seenQueue' = [seenQueue EXCEPT ![Least(done)] = "completed"]
           /\ queue' = Emptied /\ turn' = "completing"
           /\ UNCHANGED held
  BY DEF CompleteTask
<1>2. PICK done : done = Reported(seenQueue, D, found /\ held \in Listed)
  OBVIOUS
<1>3. CASE done = {}
  BY <1>1, <1>2, <1>3 DEF CompleteTask
<1>4. CASE done # {}
  <2>1. /\ seenQueue' = [seenQueue EXCEPT ![Least(done)] = "completed"]
        /\ queue' = Emptied /\ turn' = "completing" /\ held' = held
    BY <1>1, <1>2, <1>4
  <2>2. done \in SUBSET Nat
    BY <1>2, NamesAssumption DEF Reported
  <2>3. Least(done) \in done
    BY <1>4, <2>2, LeastOfSet
  <2>4. PICK t : t = Least(done)
    OBVIOUS
  <2>5. t \in Tasks /\ seenQueue[t] = "assigned" /\ (t \in Outputs \/ held \in Resembles[t])
    BY <1>2, <2>3, <2>4 DEF Reported
  <2> QED
    BY <2>1, <2>4, <2>5 DEF CompleteTask, Completes
<1> QED
  BY <1>3, <1>4

\* One step keeps the types of the task file.
LEMMA QueueTypesStep == QueueTypes /\ [Next]_vars => QueueTypes'
<1> SUFFICES ASSUME QueueTypes, QueueKind PROVE QueueTypes'
  BY QueueKinds
<1> USE DEF QueueTypes, TaskStatuses, Writing, NoTasks
<1>1. CASE UNCHANGED <<queue, tasking>> /\ old \subseteq old'
  BY <1>1 DEF tasking
<1>2. ASSUME NEW s \in Pursuits, Pursue(s) PROVE QueueTypes'
  BY <1>2 DEF Pursue
<1>3. CASE LookForTasks
  BY <1>3 DEF LookForTasks, Expired
<1>4. CASE ReadTasks
  BY <1>4 DEF ReadTasks
<1>5. CASE Expire
  BY <1>5 DEF Expire, Emptied
<1>6. CASE Claim
  <2>1. seenQueue' \in [Tasks -> TaskStatuses]
    BY <1>6, ClaimedTask
  <2> QED
    BY <1>6, <2>1 DEF Claim, Emptied
<1>7. CASE CompleteTask
  <2>1. CASE Idle /\ queue' = queue
    BY <2>1 DEF Idle
  <2>2. ASSUME NEW t \in Tasks, Completes(t) PROVE QueueTypes'
    BY <2>2 DEF Completes, Emptied
  <2> QED
    BY <1>7, <2>1, <2>2, CompletedTask
<1>8. CASE WriteTasks
  BY <1>8 DEF WriteTasks, Rewritten, Idle
<1>9. CASE Choose
  BY <1>9 DEF Choose, Idle
<1>10. ASSUME NEW t \in Tasks, SubmitTask(t) PROVE QueueTypes'
  BY <1>10 DEF SubmitTask, tasking
<1>11. CASE Crash
  BY <1>11 DEF Crash, Idle
<1> HIDE DEF QueueTypes
<1> QED
  BY <1>1, <1>2, <1>3, <1>4, <1>5, <1>6, <1>7, <1>8, <1>9, <1>10, <1>11 DEF QueueKind

\* One step keeps what was read close to the file.
LEMMA CopiedStep == QueueTypes /\ Copied /\ [Next]_vars => Copied'
<1> SUFFICES ASSUME QueueTypes, Copied, QueueKind PROVE Copied'
  BY QueueKinds
<1> USE DEF QueueTypes, TaskStatuses, Writing, Copied, Appended
<1>1. CASE UNCHANGED <<queue, tasking>> /\ old \subseteq old'
  BY <1>1 DEF tasking
<1>2. ASSUME NEW s \in Pursuits, Pursue(s) PROVE Copied'
  BY <1>2 DEF Pursue, Pursuits
<1>3. CASE LookForTasks
  BY <1>3 DEF LookForTasks, Expired
<1>4. CASE ReadTasks
  BY <1>4 DEF ReadTasks
<1>5. CASE Expire
  BY <1>5 DEF Expire, Emptied
<1>6. CASE Claim
  <2>1. PICK t \in Tasks : t = held' /\ seenQueue[t] = "pending" /\ seenQueue' = [seenQueue EXCEPT ![t] = "assigned"]
    BY <1>6, ClaimedTask
  <2>2. turn = "claim" /\ turn' = "claiming" /\ queue' = Emptied
    BY <1>6 DEF Claim
  <2> QED
    BY <2>1, <2>2 DEF Emptied
<1>7. CASE CompleteTask
  <2>1. CASE Idle /\ queue' = queue
    BY <2>1 DEF Idle
  <2>2. ASSUME NEW t \in Tasks, Completes(t), turn = "complete" PROVE Copied'
    BY <2>2 DEF Completes, Emptied
  <2> QED
    BY <1>7, <2>1, <2>2, CompletedTask
<1>8. CASE WriteTasks
  BY <1>8 DEF WriteTasks, Idle
<1>9. CASE Choose
  BY <1>9 DEF Choose, Idle
<1>10. ASSUME NEW t \in Tasks, SubmitTask(t) PROVE Copied'
  BY <1>10 DEF SubmitTask, tasking
<1>11. CASE Crash
  BY <1>11 DEF Crash, Idle
<1> HIDE DEF Copied
<1> QED
  BY <1>1, <1>2, <1>3, <1>4, <1>5, <1>6, <1>7, <1>8, <1>9, <1>10, <1>11 DEF QueueKind

\* Failing stale tasks and the writes keep chains in order.
LEMMA ChainKept ==
    ASSUME QueueTypes, NEW q \in [Tasks -> TaskStatuses], Chain(q)
    PROVE  Chain(Expired(q)) /\ Chain(Rewritten(q)) /\ Chain(Emptied)
<1> USE NamesAssumption DEF Chain, TaskStatuses
<1>1. Chain(Expired(q))
  BY DEF Expired
<1>2. Chain(Rewritten(q))
  BY DEF Rewritten
<1>3. Chain(Emptied)
  BY DEF Emptied
<1> QED
  BY <1>1, <1>2, <1>3

\* One step keeps chains in order, in the file and in what was read.
LEMMA ChainsStep == QueueInv /\ [Next]_vars => QueueInv'
<1> DEFINE Goal == Chain(queue)' /\ (turn' \in {"expire", "claim", "complete"} \cup Writing => Chain(seenQueue)')
<1> SUFFICES ASSUME QueueInv, [Next]_vars PROVE Goal
  BY QueueTypesStep, CopiedStep DEF QueueInv, Writing
<1>0. QueueKind /\ QueueTypes /\ Chain(queue)
      /\ (turn \in {"expire", "claim", "complete"} \cup Writing => Chain(seenQueue))
  BY QueueKinds DEF QueueInv
<1> USE DEF Writing
<1>1. CASE UNCHANGED <<queue, tasking>> /\ old \subseteq old'
  BY <1>0, <1>1 DEF tasking, Chain
<1>2. ASSUME NEW s \in Pursuits, Pursue(s) PROVE Goal
  BY <1>0, <1>2 DEF Pursue, Chain
<1>3. CASE LookForTasks
  BY <1>0, <1>3, ChainKept DEF LookForTasks, QueueTypes, Chain
<1>4. CASE ReadTasks
  BY <1>0, <1>4 DEF ReadTasks, Chain
<1>5. CASE Expire
  BY <1>0, <1>5, ChainKept DEF Expire, QueueTypes, Chain
<1>6. CASE Claim
  <2>1. Chain(queue)'
    BY <1>0, <1>6, ChainKept DEF Claim, QueueTypes, Chain
  <2>2. PICK t \in Tasks : /\ seenQueue[t] = "pending" /\ seenQueue' = [seenQueue EXCEPT ![t] = "assigned"]
                           /\ \A d \in DependsOn[t] : seenQueue[d] = "completed"
    BY <1>0, <1>6, ClaimedTask
  <2>3. Chain(seenQueue)
    BY <1>0, <1>6 DEF Claim
  <2>4. Chain(seenQueue)'
    BY <1>0, <2>2, <2>3, NamesAssumption DEF QueueTypes, Chain
  <2> QED
    BY <2>1, <2>4
<1>7. CASE CompleteTask
  <2>1. CASE Idle /\ queue' = queue
    BY <1>0, <2>1 DEF Idle, Chain
  <2>2. ASSUME NEW t \in Tasks, Completes(t), turn = "complete" PROVE Goal
    <3>1. Chain(queue)'
      BY <1>0, <2>2, ChainKept DEF Completes, QueueTypes, Chain
    <3>2. Chain(seenQueue)'
      BY <1>0, <2>2, NamesAssumption DEF QueueTypes, Chain, Completes
    <3> QED
      BY <3>1, <3>2
  <2> QED
    BY <1>0, <1>7, <2>1, <2>2, CompletedTask
<1>8. CASE WriteTasks
  <2>1. Chain(Rewritten(seenQueue))
    BY <1>0, <1>8, ChainKept DEF WriteTasks, QueueTypes
  <2>2. queue' = Rewritten(seenQueue) /\ turn' \in {"look", "readTasks"}
    BY <1>8 DEF WriteTasks, Idle
  <2> QED
    BY <2>1, <2>2 DEF Chain
<1>9. CASE Choose
  BY <1>0, <1>9 DEF Choose, Idle, Chain
<1>10. ASSUME NEW t \in Tasks, SubmitTask(t) PROVE Goal
  <2>1. queue[t] = "none" /\ queue' = [queue EXCEPT ![t] = "pending"] /\ UNCHANGED <<turn, seenQueue>>
    BY <1>10 DEF SubmitTask, tasking
  <2>2. Chain(queue)'
    BY <1>0, <2>1, NamesAssumption DEF QueueTypes, Chain
  <2> QED
    BY <1>0, <2>1, <2>2 DEF Chain
<1>11. CASE Crash
  BY <1>0, <1>11 DEF Crash, Idle, Chain
<1> HIDE DEF Goal, Writing
<1> QED
  BY <1>0, <1>1, <1>2, <1>3, <1>4, <1>5, <1>6, <1>7, <1>8, <1>9, <1>10, <1>11 DEF QueueKind

LEMMA QueueInit == Init => QueueInv
  BY DEF Init, QueueInv, QueueTypes, Copied, Chain, TaskStatuses, NoTasks, Writing

\* A task never runs before the one it depends on, whatever is lost.
THEOREM ChainsInOrder == Spec => []ChainsRunInOrder
<1>1. QueueInv => ChainsRunInOrder
  BY DEF QueueInv, Chain, ChainsRunInOrder
<1> QED
  BY <1>1, QueueInit, ChainsStep, PTL DEF Spec

\* Tasks move forward only.  The task file is emptied and rewritten without a lock
\* from a copy, but all that this can undo is a submission, unless the daemon is
\* stopped while the file is empty: an assigned task stays so until a pursued goal
\* was completed that resembles it or its output file is there, or it has been
\* assigned for too long; what has ended stays as it ended, and what is lost stays
\* lost.  One task is claimed at a time.
MovesForward ==
    /\ \A t \in Tasks :
         /\ Kept(t) # "none" => Kept(t)' # "none"
         /\ Kept(t)' = "pending" => Kept(t) \in {"none", "pending"}
         /\ Kept(t)' = "assigned" => Kept(t) \in {"pending", "assigned"}
         /\ Kept(t)' = "completed" =>
              \/ Kept(t) = "completed"
              \/ Kept(t) = "assigned" /\ turn = "complete" /\ (t \in Outputs \/ held \in Resembles[t])
         /\ Kept(t)' = "failed" => Kept(t) = "failed" \/ (Kept(t) = "assigned" /\ t \in old)
         /\ Kept(t)' = "lost" => Kept(t) \in {"pending", "lost"} \/ (Crash /\ turn \in Writing)
    /\ \A t, u \in Tasks :
         Kept(t) # "assigned" /\ Kept(t)' = "assigned" /\ Kept(u) # "assigned" /\ Kept(u)' = "assigned"
             => t = u

\* What is kept of a task, without and with a write under way.
LEMMA KeptIs ==
    ASSUME NEW t
    PROVE  /\ turn \notin Writing => Kept(t) = queue[t]
           /\ turn \in Writing => Kept(t) = IF seenQueue[t] # "none" THEN seenQueue[t] ELSE queue[t]
           /\ turn' \notin Writing => Kept(t)' = queue'[t]
           /\ turn' \in Writing => Kept(t)' = IF seenQueue'[t] # "none" THEN seenQueue'[t] ELSE queue'[t]
  BY DEF Kept, Writing

\* If no task is changed, or one only, it is enough to look at each.
LEMMA Unmoved ==
    ASSUME \A t \in Tasks : \/ Kept(t)' = Kept(t)
                            \/ Kept(t) = "none" /\ Kept(t)' = "pending"
                            \/ Kept(t) = "pending" /\ Kept(t)' = "lost"
                            \/ Kept(t) = "assigned" /\ t \in old /\ Kept(t)' = "failed"
    PROVE  MovesForward
  BY DEF MovesForward

LEMMA ForwardStep == QueueInv /\ [Next]_vars => MovesForward
<1> SUFFICES ASSUME QueueTypes, Copied, QueueKind PROVE MovesForward
  BY QueueKinds DEF QueueInv
<1> USE DEF Writing
<1>1. CASE UNCHANGED <<queue, tasking>> /\ old \subseteq old'
  BY <1>1, KeptIs, Unmoved DEF tasking
<1>2. ASSUME NEW s \in Pursuits, Pursue(s) PROVE MovesForward
  BY <1>2, KeptIs, Unmoved DEF Pursue
<1>3. CASE LookForTasks
  BY <1>3, KeptIs, Unmoved DEF LookForTasks
<1>4. CASE ReadTasks
  BY <1>4, KeptIs, Unmoved DEF ReadTasks
<1>5. CASE Expire
  <2>1. turn = "expire" /\ turn' = "expiring" /\ queue' = Emptied /\ seenQueue' = seenQueue
    BY <1>5 DEF Expire
  <2>2. \A t \in Tasks : queue'[t] = IF queue[t] = "none" THEN "none" ELSE "lost"
    BY <2>1 DEF Emptied
  <2> QED
    BY <2>1, <2>2, KeptIs, Unmoved DEF Copied, Appended
<1>6. CASE Claim
  <2>1. PICK t \in Tasks : seenQueue[t] = "pending" /\ seenQueue' = [seenQueue EXCEPT ![t] = "assigned"]
    BY <1>6, ClaimedTask
  <2>2. turn = "claim" /\ turn' = "claiming" /\ queue' = Emptied
    BY <1>6 DEF Claim
  <2>3. \A u \in Tasks : queue'[u] = IF queue[u] = "none" THEN "none" ELSE "lost"
    BY <2>2 DEF Emptied
  <2>4. Kept(t) = "pending" /\ Kept(t)' = "assigned"
    BY <2>1, <2>2, KeptIs DEF Copied, Appended, QueueTypes
  <2>5. \A u \in Tasks : u = t \/ Kept(u)' = Kept(u) \/ (Kept(u) = "pending" /\ Kept(u)' = "lost")
    BY <2>1, <2>2, <2>3, KeptIs DEF Copied, Appended, QueueTypes
  <2> QED
    BY <2>4, <2>5 DEF MovesForward
<1>7. CASE CompleteTask
  <2>1. CASE Idle /\ queue' = queue
    BY <1>7, <2>1, CompletedTask, KeptIs, Unmoved DEF Idle
  <2>2. ASSUME NEW t \in Tasks, Completes(t), turn = "complete" PROVE MovesForward
    <3>1. \A u \in Tasks : queue'[u] = IF queue[u] = "none" THEN "none" ELSE "lost"
      BY <2>2 DEF Completes, Emptied
    <3>2. /\ seenQueue[t] = "assigned" /\ seenQueue' = [seenQueue EXCEPT ![t] = "completed"]
          /\ turn' = "completing" /\ (t \in Outputs \/ held \in Resembles[t])
      BY <2>2 DEF Completes
    <3>3. Kept(t) = "assigned" /\ Kept(t)' = "completed"
      BY <2>2, <3>2, KeptIs DEF Copied, Appended, QueueTypes
    <3>4. \A u \in Tasks : u = t \/ Kept(u)' = Kept(u) \/ (Kept(u) = "pending" /\ Kept(u)' = "lost")
      BY <2>2, <3>1, <3>2, KeptIs DEF Copied, Appended, QueueTypes
    <3> QED
      BY <2>2, <3>2, <3>3, <3>4 DEF MovesForward
  <2> QED
    BY <1>7, <2>1, <2>2, CompletedTask
<1>8. CASE WriteTasks
  <2>1. turn \in Writing /\ turn' \notin Writing /\ queue' = Rewritten(seenQueue)
    BY <1>8 DEF WriteTasks, Idle
  <2>2. \A t \in Tasks : queue'[t] = IF seenQueue[t] = "none" /\ queue[t] # "none" THEN "lost" ELSE seenQueue[t]
    BY <2>1 DEF Rewritten
  <2>3. \A t \in Tasks : Kept(t)' = Kept(t) \/ (Kept(t) = "pending" /\ Kept(t)' = "lost")
    BY <2>1, <2>2, KeptIs DEF Copied
  <2> QED
    BY <2>3, Unmoved
<1>9. CASE Choose
  BY <1>9, KeptIs, Unmoved DEF Choose, Idle
<1>10. ASSUME NEW t \in Tasks, SubmitTask(t) PROVE MovesForward
  <2>1. queue[t] = "none" /\ queue' = [queue EXCEPT ![t] = "pending"] /\ turn' = turn /\ seenQueue' = seenQueue
    BY <1>10 DEF SubmitTask, tasking
  <2>2. \A u \in Tasks : Kept(u)' = Kept(u) \/ (Kept(u) = "none" /\ Kept(u)' = "pending")
    BY <2>1, KeptIs DEF QueueTypes, Copied
  <2> QED
    BY <2>2, Unmoved
<1>11. CASE Crash
  <2>1. turn' \notin Writing /\ queue' = queue
    BY <1>11 DEF Crash, Idle
  <2>2. CASE turn \notin Writing
    BY <2>1, <2>2, KeptIs, Unmoved
  <2>3. CASE turn \in Writing
    <3>1. \A t \in Tasks : Kept(t)' = Kept(t) \/ Kept(t)' = "lost"
      BY <2>1, <2>3, KeptIs DEF Copied
    <3> QED
      BY <1>11, <2>3, <3>1 DEF MovesForward
  <2> QED
    BY <2>2, <2>3
<1> HIDE DEF Writing
<1> QED
  BY <1>1, <1>2, <1>3, <1>4, <1>5, <1>6, <1>7, <1>8, <1>9, <1>10, <1>11 DEF QueueKind

\* The safety half of AssignedEnds, for any number of tasks, requests and crashes:
\* no rewrite restarts a task or loses one that was assigned, a stop of the daemon
\* in the middle of a write excepted.
THEOREM Forward == Spec => [][MovesForward]_vars
  BY QueueInit, ChainsStep, ForwardStep, PTL DEF Spec

-----------------------------------------------------------------------------
(* The goal files: their types, and what a step may do to them. *)

Lines == Seq(Ids \X GoalStatuses)
Names(L) == {L[i][1] : i \in 1..Len(L)}

ActorTypes ==
    /\ op \in [Actors -> {"idle", "read", "write"} \cup Creating]
    /\ goal \in [Actors -> Ids \cup {None}]
    /\ want \in [Actors -> GoalStatuses \cup {"progress"}]
    /\ seenLines \in [Actors -> Lines] /\ seenIndex \in [Actors -> [Ids -> Nat]]
    /\ born \subseteq Ids
    /\ \A p \in Actors : op[p] # "idle" => goal[p] \in Ids
    /\ \A p \in Actors : op[p] = "write" => Target(p) \in 1..Len(seenLines[p])

FileTypes == lines \in Lines /\ index \in [Ids -> Nat] /\ overwritten \in BOOLEAN

RestTypes == old \subseteq Tasks /\ held \in Ids \cup {None} /\ requests \in 0..MaxRequests /\ crashes \in 0..MaxCrashes

\* A goal is made only for a task that was claimed, and only once.
Fresh ==
    /\ \A t \in Tasks : t \in born => Kept(t) \notin {"none", "pending"}
    /\ turn = "claiming" => held \notin born

\* What a step does for the goal files.
GoalKind ==
    \/ UNCHANGED <<files, actors>>
    \/ \E p \in Actors : GoalStep(p)
    \/ \E p \in Actors, g \in Ids \ born : Begin(p, "count", g, "active") /\ UNCHANGED files
    \/ \E p \in Actors, g \in Ids, s \in GoalStatuses \cup {"progress"} : Begin(p, "read", g, s) /\ UNCHANGED files
    \/ Done(Daemon) /\ UNCHANGED files

\* The goal that is pursued is listed.
LEMMA FirstListed ==
    ASSUME lines \in Lines, ActiveAt # {}
    PROVE  FirstActive \in Ids
<1> DEFINE chosen == IF Preferred = {} THEN ActiveAt ELSE Preferred
<1>1. chosen \in SUBSET Nat /\ chosen # {} /\ chosen \subseteq 1..Len(lines)
  BY DEF ActiveAt, Preferred
<1> HIDE DEF chosen
<1>2. Least(chosen) \in 1..Len(lines)
  BY <1>1, LeastOfSet
<1>3. FirstActive = lines[Least(chosen)][1]
  BY DEF FirstActive, chosen
<1> QED
  BY <1>2, <1>3 DEF Lines

LEMMA GoalKinds ==
    ASSUME QueueInv, Fresh, FileTypes, [Next]_vars
    PROVE  GoalKind
<1> USE DEF GoalStatuses
<1>1. ASSUME NEW p \in Actors, GoalStep(p) PROVE GoalKind
  BY <1>1 DEF GoalKind
<1>2. ASSUME NEW p \in Servers, Request(p) PROVE GoalKind
  <2>1. p \in Actors /\ UNCHANGED files
    BY <1>2 DEF Request, Actors
  <2>2. CASE \E g \in OtherGoals \ born : Begin(p, "count", g, "active")
    BY <2>1, <2>2 DEF GoalKind, Ids
  <2>3. CASE \E g \in Ids, s \in {"progress", "paused", "completed", "abandoned"} : Begin(p, "read", g, s)
    BY <2>1, <2>3 DEF GoalKind
  <2> QED
    BY <1>2, <2>2, <2>3 DEF Request
<1>3. ASSUME NEW s \in Pursuits, Pursue(s) PROVE GoalKind
  <2>1. FirstActive \in Ids /\ Begin(Daemon, "read", FirstActive, s) /\ UNCHANGED files
    BY <1>3, FirstListed DEF Pursue, FileTypes
  <2>2. Daemon \in Actors /\ s \in GoalStatuses \cup {"progress"}
    BY DEF Actors, Pursuits
  <2> QED
    BY <2>1, <2>2 DEF GoalKind
<1>4. CASE WriteTasks
  <2>1. CASE turn = "claiming" /\ Begin(Daemon, "count", held, "active")
    BY <1>4, <2>1 DEF WriteTasks, GoalKind, QueueInv, Copied, Fresh, Ids, Actors
  <2>2. CASE UNCHANGED actors
    BY <1>4, <2>2 DEF WriteTasks, GoalKind
  <2> QED
    BY <1>4, <2>1, <2>2 DEF WriteTasks
<1>5. CASE Choose
  <2>1. CASE UNCHANGED actors
    BY <1>5, <2>1 DEF Choose, GoalKind
  <2>2. CASE \E g \in OtherGoals \ born : Begin(Daemon, "count", g, "active")
    BY <1>5, <2>2 DEF Choose, GoalKind, Ids, Actors
  <2> QED
    BY <1>5, <2>1, <2>2 DEF Choose
<1>6. CASE LookForTasks \/ ReadTasks \/ Expire \/ Claim \/ CompleteTask
  BY <1>6 DEF LookForTasks, ReadTasks, Expire, Claim, CompleteTask, GoalKind
<1>7. ASSUME NEW t \in Tasks, SubmitTask(t) \/ Age(t) PROVE GoalKind
  BY <1>7 DEF SubmitTask, Age, GoalKind
<1>8. CASE Crash
  BY <1>8 DEF Crash, GoalKind
<1>9. CASE UNCHANGED vars
  BY <1>9 DEF vars, GoalKind
<1> QED
  BY <1>1, <1>2, <1>3, <1>4, <1>5, <1>6, <1>7, <1>8, <1>9 DEF Next, DaemonStep, TaskStep, Actors

\* One step makes no goal for a task that is not claimed.
LEMMA FreshStep == QueueInv /\ Fresh /\ [Next]_vars => Fresh'
<1> SUFFICES ASSUME QueueInv, Fresh, [Next]_vars PROVE Fresh'
  OBVIOUS
<1>1. \A t \in Tasks : Kept(t)' \in {"none", "pending"} => Kept(t) \in {"none", "pending"}
  BY ForwardStep DEF MovesForward
<1>2. CASE born' = born /\ (turn' = "claiming" => turn = "claiming" /\ held' = held)
  BY <1>1, <1>2 DEF Fresh
<1>3. ASSUME NEW p \in Actors, GoalStep(p) PROVE Fresh'
  <2>1. born' = born /\ UNCHANGED tasking
    BY <1>3 DEF GoalStep, Count, AppendLine, ReadIndex, WriteIndex, ReadFiles, WriteLines, Done
  <2> QED
    BY <1>2, <2>1 DEF tasking
<1>4. ASSUME NEW p \in Servers, Request(p) PROVE Fresh'
  <2>1. UNCHANGED tasking
    BY <1>4 DEF Request
  <2>2. CASE \E g \in OtherGoals \ born : Begin(p, "count", g, "active")
    <3>1. PICK g \in OtherGoals : born' = born \cup {g}
      BY <2>2 DEF Begin
    <3>2. g \notin Tasks
      BY NamesAssumption
    <3> QED
      BY <1>1, <2>1, <3>1, <3>2 DEF Fresh, tasking, QueueInv, Copied
  <2>3. CASE \E g \in Ids, s \in {"progress", "paused", "completed", "abandoned"} : Begin(p, "read", g, s)
    BY <1>2, <2>1, <2>3 DEF Begin, tasking
  <2> QED
    BY <1>4, <2>2, <2>3 DEF Request
<1>5. ASSUME NEW s \in Pursuits, Pursue(s) PROVE Fresh'
  BY <1>2, <1>5 DEF Pursue, Begin
<1>6. CASE WriteTasks
  <2>1. turn' \notin Writing /\ queue' = Rewritten(seenQueue)
    BY <1>6 DEF WriteTasks, Idle, Writing
  <2>2. CASE turn = "claiming" /\ Begin(Daemon, "count", held, "active")
    <3>1. held \in Tasks /\ seenQueue[held] = "assigned" /\ born' = born \cup {held}
      BY <2>2 DEF QueueInv, Copied, Begin
    <3>2. PICK h \in Tasks : h = held
      BY <3>1
    <3>3. queue'[h] = "assigned"
      BY <2>1, <3>1, <3>2 DEF Rewritten
    <3>4. Kept(h)' = "assigned"
      BY <2>1, <3>3, KeptIs
    <3> QED
      BY <1>1, <2>1, <3>1, <3>2, <3>4 DEF Fresh, Writing
  <2>3. CASE UNCHANGED actors
    BY <1>2, <2>1, <2>3 DEF actors, Writing
  <2> QED
    BY <1>6, <2>2, <2>3 DEF WriteTasks
<1>7. CASE Choose
  <2>1. turn' # "claiming"
    BY <1>7 DEF Choose, Idle
  <2>2. CASE UNCHANGED actors
    BY <1>2, <2>1, <2>2 DEF actors
  <2>3. CASE \E g \in OtherGoals \ born : Begin(Daemon, "count", g, "active")
    <3>1. PICK g \in OtherGoals : born' = born \cup {g}
      BY <2>3 DEF Begin
    <3>2. g \notin Tasks
      BY NamesAssumption
    <3> QED
      BY <1>1, <2>1, <3>1, <3>2 DEF Fresh
  <2> QED
    BY <1>7, <2>2, <2>3 DEF Choose
<1>8. CASE Claim
  <2>1. held' \in Tasks /\ seenQueue[held'] = "pending" /\ turn = "claim"
    BY <1>8, ClaimedTask DEF QueueInv, Claim
  <2>2. PICK h \in Tasks : h = held'
    BY <2>1
  <2>3. Kept(h) = "pending"
    BY <2>1, <2>2, KeptIs DEF QueueInv, Copied, Appended, Writing
  <2>4. h \notin born
    BY <2>3 DEF Fresh
  <2> QED
    BY <1>1, <1>8, <2>2, <2>4 DEF Claim, actors, Fresh
<1>9. CASE LookForTasks \/ ReadTasks \/ Expire \/ Crash
  BY <1>2, <1>9 DEF LookForTasks, ReadTasks, Expire, Crash, Idle, Done, actors
<1>10. CASE CompleteTask
  <2>1. turn' # "claiming"
    BY <1>10, CompletedTask DEF QueueInv, Idle, Completes
  <2> QED
    BY <1>2, <1>10, <2>1 DEF CompleteTask, actors
<1>11. ASSUME NEW t \in Tasks, SubmitTask(t) \/ Age(t) PROVE Fresh'
  BY <1>2, <1>11 DEF SubmitTask, Age, actors, tasking
<1>12. CASE UNCHANGED vars
  BY <1>2, <1>12 DEF vars, actors, tasking
<1> QED
  BY <1>3, <1>4, <1>5, <1>6, <1>7, <1>8, <1>9, <1>10, <1>11, <1>12 DEF Next, DaemonStep, TaskStep, Actors

\* What the end and the beginning of an operation change.
LEMMA DoneFacts ==
    ASSUME ActorTypes, NEW p \in Actors, Done(p)
    PROVE  /\ \A q \in Actors : op'[q] = IF q = p THEN "idle" ELSE op[q]
           /\ \A q \in Actors : goal'[q] = IF q = p THEN None ELSE goal[q]
           /\ \A q \in Actors : want'[q] = IF q = p THEN "active" ELSE want[q]
           /\ \A q \in Actors : seenLines'[q] = IF q = p THEN <<>> ELSE seenLines[q]
           /\ \A q \in Actors : seenIndex'[q] = IF q = p THEN [g \in Ids |-> 0] ELSE seenIndex[q]
           /\ born' = born /\ ActorTypes'
<1>1. /\ \A q \in Actors : op'[q] = IF q = p THEN "idle" ELSE op[q]
      /\ \A q \in Actors : goal'[q] = IF q = p THEN None ELSE goal[q]
      /\ \A q \in Actors : want'[q] = IF q = p THEN "active" ELSE want[q]
      /\ \A q \in Actors : seenLines'[q] = IF q = p THEN <<>> ELSE seenLines[q]
      /\ \A q \in Actors : seenIndex'[q] = IF q = p THEN [g \in Ids |-> 0] ELSE seenIndex[q]
      /\ born' = born
  BY DEF Done, ActorTypes
<1>2. <<>> \in Lines /\ [g \in Ids |-> 0] \in [Ids -> Nat]
  BY DEF Lines
<1>3. want' \in [Actors -> GoalStatuses \cup {"progress"}]
  BY DEF ActorTypes, Done, GoalStatuses
<1>4. \A q \in Actors : op'[q] = "write" => Target(q)' \in 1..Len(seenLines'[q])
  BY <1>1 DEF ActorTypes, Target
<1> QED
  BY <1>1, <1>2, <1>3, <1>4 DEF ActorTypes, Done

LEMMA BeginFacts ==
    ASSUME ActorTypes, NEW p \in Actors, NEW oo \in {"read", "count"}, NEW g \in Ids,
           NEW s \in GoalStatuses \cup {"progress"}, Begin(p, oo, g, s)
    PROVE  /\ op[p] = "idle"
           /\ \A q \in Actors : op'[q] = IF q = p THEN oo ELSE op[q]
           /\ \A q \in Actors : goal'[q] = IF q = p THEN g ELSE goal[q]
           /\ seenLines' = seenLines /\ seenIndex' = seenIndex
           /\ born' = IF oo = "count" THEN born \cup {g} ELSE born
           /\ ActorTypes'
<1>1. /\ op[p] = "idle" /\ seenLines' = seenLines /\ seenIndex' = seenIndex
      /\ \A q \in Actors : op'[q] = IF q = p THEN oo ELSE op[q]
      /\ \A q \in Actors : goal'[q] = IF q = p THEN g ELSE goal[q]
      /\ born' = IF oo = "count" THEN born \cup {g} ELSE born
  BY DEF Begin, ActorTypes
<1>2. \A q \in Actors : op'[q] = "write" => Target(q)' \in 1..Len(seenLines'[q])
  BY <1>1 DEF ActorTypes, Target
<1>3. oo \in {"idle", "read", "write"} \cup Creating
  BY DEF Creating
<1> QED
  BY <1>1, <1>2, <1>3 DEF ActorTypes, Begin

\* What the steps of an operation in the middle change.
LEMMA StepFacts ==
    ASSUME ActorTypes, FileTypes, NEW p \in Actors
    PROVE  /\ Count(p) \/ AppendLine(p) \/ ReadIndex(p) => goal' = goal /\ born' = born
           /\ Count(p) => /\ \A q \in Actors : op'[q] = IF q = p THEN "append" ELSE op[q]
                          /\ \A q \in Actors : seenLines'[q] = IF q = p THEN lines ELSE seenLines[q]
                          /\ seenIndex' = seenIndex /\ UNCHANGED files /\ op[p] = "count"
           /\ AppendLine(p) => /\ \A q \in Actors : op'[q] = IF q = p THEN "readIndex" ELSE op[q]
                               /\ seenLines' = seenLines /\ seenIndex' = seenIndex /\ index' = index /\ op[p] = "append"
           /\ ReadIndex(p) => /\ \A q \in Actors : op'[q] = IF q = p THEN "writeIndex" ELSE op[q]
                              /\ seenLines' = seenLines /\ UNCHANGED files /\ op[p] = "readIndex"
  BY DEF Count, AppendLine, ReadIndex, ActorTypes

LEMMA ReadFacts ==
    ASSUME ActorTypes, FileTypes, NEW p \in Actors, ReadFiles(p)
    PROVE  /\ op[p] = "read" /\ UNCHANGED files
           /\ \/ Done(p)
              \/ /\ index[goal[p]] \in 1..Len(lines) /\ goal' = goal /\ born' = born
                 /\ \A q \in Actors : op'[q] = IF q = p THEN "write" ELSE op[q]
                 /\ \A q \in Actors : seenLines'[q] = IF q = p THEN lines ELSE seenLines[q]
                 /\ \A q \in Actors : seenIndex'[q] = IF q = p THEN index ELSE seenIndex[q]
                 /\ want' = want /\ op' = [op EXCEPT ![p] = "write"]
                 /\ seenLines' = [seenLines EXCEPT ![p] = lines] /\ seenIndex' = [seenIndex EXCEPT ![p] = index]
  BY DEF ReadFiles, ActorTypes

\* What a new line and a rewrite make of the registry.
LEMMA AppendFacts ==
    ASSUME ActorTypes, FileTypes, NEW p \in Actors, AppendLine(p)
    PROVE  /\ goal[p] \in Ids /\ lines' \in Lines /\ Len(lines) \in Nat /\ Len(lines') = Len(lines) + 1
           /\ \A i \in 1..Len(lines) : lines'[i] = lines[i]
           /\ lines'[Len(lines) + 1] = <<goal[p], "active">>
           /\ Names(lines') = Names(lines) \cup {goal[p]}
<1>1. goal[p] \in Ids
  BY DEF ActorTypes, AppendLine
<1>2. PICK l : l = <<goal[p], "active">>
  OBVIOUS
<1>3. l \in Ids \X GoalStatuses /\ l[1] = goal[p] /\ lines' = Append(lines, l)
  BY <1>1, <1>2 DEF AppendLine, Line, GoalStatuses
<1>4. lines' \in Lines /\ Len(lines) \in Nat /\ Len(lines') = Len(lines) + 1 /\ lines'[Len(lines) + 1] = l
      /\ \A i \in 1..Len(lines) : lines'[i] = lines[i]
  BY <1>3 DEF FileTypes, Lines
<1>5. Names(lines') = Names(lines) \cup {goal[p]}
  BY <1>3, <1>4 DEF Names
<1> QED
  BY <1>1, <1>2, <1>4, <1>5

LEMMA StatusTyped ==
    ASSUME ActorTypes, NEW p \in Actors, NEW s \in GoalStatuses
    PROVE  NewStatus(p, s) \in GoalStatuses
<1>1. want[p] \in GoalStatuses \cup {"progress"}
  BY DEF ActorTypes
<1> QED
  BY <1>1 DEF NewStatus

LEMMA RewriteFacts ==
    ASSUME ActorTypes, FileTypes, NEW p \in Actors, WriteLines(p)
    PROVE  /\ Target(p) \in 1..Len(seenLines[p]) /\ Len(lines') = Len(seenLines[p]) /\ lines' \in Lines
           /\ \A i \in 1..Len(lines') : i # Target(p) => lines'[i] = seenLines[p][i]
           /\ lines'[Target(p)] = <<seenLines[p][Target(p)][1], NewStatus(p, seenLines[p][Target(p)][2])>>
           /\ \A i \in 1..Len(lines') : lines'[i][1] = seenLines[p][i][1]
           /\ Names(lines') = Names(seenLines[p])
<1>1. PICK L, k : L = seenLines[p] /\ k = Target(p)
  OBVIOUS
<1>2. L \in Lines /\ k \in 1..Len(L) /\ L[k] \in Ids \X GoalStatuses
  BY <1>1 DEF ActorTypes, WriteLines, Lines
<1>3. PICK l : l = <<L[k][1], NewStatus(p, L[k][2])>>
  OBVIOUS
<1>4. l \in Ids \X GoalStatuses /\ l[1] = L[k][1]
  BY <1>2, <1>3, StatusTyped
<1>5. lines' = [L EXCEPT ![k] = l]
  BY <1>1, <1>3 DEF WriteLines, Line
<1>6. lines' \in Lines /\ Len(lines') = Len(L) /\ lines'[k] = l /\ \A i \in 1..Len(lines') : i # k => lines'[i] = L[i]
  BY <1>2, <1>4, <1>5 DEF Lines
<1>7. \A i \in 1..Len(lines') : lines'[i][1] = L[i][1]
  BY <1>4, <1>6
<1>8. Names(lines') = Names(L)
  BY <1>6, <1>7 DEF Names
<1> QED
  BY <1>1, <1>2, <1>3, <1>6, <1>7, <1>8

\* One step keeps the types of the goal files and of who works on them.
LEMMA TypesStep == ActorTypes /\ FileTypes /\ GoalKind => ActorTypes' /\ FileTypes'
<1> SUFFICES ASSUME ActorTypes, FileTypes, GoalKind PROVE ActorTypes' /\ FileTypes'
  OBVIOUS
<1> DEFINE Goal == ActorTypes' /\ FileTypes'
<1>0. UNCHANGED files => FileTypes'
  BY DEF FileTypes, files
<1>1. CASE UNCHANGED <<files, actors>>
  BY <1>0, <1>1 DEF ActorTypes, actors, Target
<1>2. ASSUME NEW p \in Actors, Count(p) PROVE Goal
  <2>1. \A q \in Actors : op'[q] = "write" => Target(q)' \in 1..Len(seenLines'[q])
    BY <1>2, StepFacts DEF ActorTypes, Target
  <2>2. seenLines' \in [Actors -> Lines]
    BY <1>2 DEF Count, ActorTypes, FileTypes
  <2> QED
    BY <1>0, <1>2, <2>1, <2>2 DEF Count, ActorTypes, Creating
<1>3. ASSUME NEW p \in Actors, AppendLine(p) PROVE Goal
  <2>1. \A q \in Actors : op'[q] = "write" => Target(q)' \in 1..Len(seenLines'[q])
    BY <1>3, StepFacts DEF ActorTypes, Target
  <2>2. FileTypes'
    BY <1>3, AppendFacts DEF AppendLine, FileTypes
  <2> QED
    BY <1>3, <2>1, <2>2 DEF AppendLine, ActorTypes, Creating
<1>4. ASSUME NEW p \in Actors, ReadIndex(p) PROVE Goal
  <2>1. \A q \in Actors : op'[q] = "write" => q # p /\ op[q] = "write"
    BY <1>4, StepFacts
  <2>2. \A q \in Actors : q # p => seenIndex'[q] = seenIndex[q] /\ goal'[q] = goal[q] /\ seenLines'[q] = seenLines[q]
    BY <1>4 DEF ReadIndex, ActorTypes
  <2>3. \A q \in Actors : op'[q] = "write" => Target(q)' \in 1..Len(seenLines'[q])
    BY <2>1, <2>2 DEF ActorTypes, Target
  <2>4. seenIndex' \in [Actors -> [Ids -> Nat]]
    BY <1>4 DEF ReadIndex, ActorTypes, FileTypes
  <2> QED
    BY <1>0, <1>4, <2>3, <2>4 DEF ReadIndex, ActorTypes, Creating
<1>5. ASSUME NEW p \in Actors, WriteIndex(p) PROVE Goal
  <2>1. seenIndex[p] \in [Ids -> Nat] /\ LineOf(p) \in Nat
    BY DEF ActorTypes, LineOf, Lines
  <2>2. FileTypes'
    BY <1>5, <2>1 DEF WriteIndex, FileTypes
  <2> QED
    BY <1>5, <2>2, DoneFacts DEF WriteIndex
<1>6. ASSUME NEW p \in Actors, ReadFiles(p) PROVE Goal
  <2>1. CASE Done(p)
    BY <1>0, <1>6, <2>1, DoneFacts, ReadFacts
  <2>2. CASE ~Done(p)
    <3>1. /\ index[goal[p]] \in 1..Len(lines) /\ goal' = goal /\ born' = born /\ want' = want
          /\ op' = [op EXCEPT ![p] = "write"] /\ op[p] = "read"
          /\ seenLines' = [seenLines EXCEPT ![p] = lines] /\ seenIndex' = [seenIndex EXCEPT ![p] = index]
      BY <1>6, <2>2, ReadFacts
    <3>2. /\ \A q \in Actors : op'[q] = IF q = p THEN "write" ELSE op[q]
          /\ \A q \in Actors : seenLines'[q] = IF q = p THEN lines ELSE seenLines[q]
          /\ \A q \in Actors : seenIndex'[q] = IF q = p THEN index ELSE seenIndex[q]
      BY <3>1 DEF ActorTypes
    <3>3. \A q \in Actors : op'[q] = "write" => Target(q)' \in 1..Len(seenLines'[q])
      BY <3>1, <3>2 DEF ActorTypes, Target
    <3>4. \A q \in Actors : op'[q] # "idle" => goal'[q] \in Ids
      BY <3>1, <3>2 DEF ActorTypes
    <3>5. seenLines' \in [Actors -> Lines] /\ seenIndex' \in [Actors -> [Ids -> Nat]]
      BY <3>1 DEF ActorTypes, FileTypes
    <3> QED
      BY <1>0, <1>6, <3>1, <3>3, <3>4, <3>5, ReadFacts DEF ActorTypes
  <2> QED
    BY <2>1, <2>2
<1>7. ASSUME NEW p \in Actors, WriteLines(p) PROVE Goal
  <2>1. FileTypes'
    BY <1>7, RewriteFacts DEF WriteLines, FileTypes
  <2> QED
    BY <1>7, <2>1, DoneFacts DEF WriteLines
<1>8. ASSUME NEW p \in Actors, NEW g \in Ids \ born, Begin(p, "count", g, "active"), UNCHANGED files PROVE Goal
  BY <1>0, <1>8, BeginFacts DEF GoalStatuses
<1>9. ASSUME NEW p \in Actors, NEW g \in Ids, NEW s \in GoalStatuses \cup {"progress"},
             Begin(p, "read", g, s), UNCHANGED files PROVE Goal
  BY <1>0, <1>9, BeginFacts
<1>10. CASE Done(Daemon) /\ UNCHANGED files
  BY <1>0, <1>10, DoneFacts DEF Actors
<1> HIDE DEF Goal
<1>11. Goal
  BY <1>1, <1>2, <1>3, <1>4, <1>5, <1>6, <1>7, <1>8, <1>9, <1>10 DEF GoalKind, GoalStep, Goal
<1> QED
  BY <1>11 DEF Goal

-----------------------------------------------------------------------------
(* No goal has two lines. *)

NoTwice(L) == \A i, j \in 1..Len(L) : L[i][1] = L[j][1] => i = j

\* Neither the registry nor what was read of it holds a goal twice, or one that
\* was not begun; and a goal that gets its line only later is in none of them.
Lists ==
    /\ NoTwice(lines) /\ Names(lines) \subseteq born
    /\ \A p \in Actors : NoTwice(seenLines[p]) /\ Names(seenLines[p]) \subseteq born
    /\ \A p \in Actors : op[p] \in Creating => goal[p] \in born /\ goal[p] \notin Names(seenLines[p])
    /\ \A p \in Actors : op[p] \in {"count", "append"} =>
         goal[p] \notin Names(lines) /\ \A q \in Actors : goal[p] \notin Names(seenLines[q])
    /\ \A p, q \in Actors : p # q /\ op[p] \in Creating /\ op[q] \in Creating => goal[p] # goal[q]

LEMMA NoLines == Names(<<>>) = {} /\ NoTwice(<<>>)
  BY DEF Names, NoTwice

\* The end of an operation keeps to it.
LEMMA DoneLists ==
    ASSUME ActorTypes, NEW p \in Actors, Done(p), Lists, NoTwice(lines'), Names(lines') \subseteq born,
           \A q \in Actors : op[q] \in {"count", "append"} => goal[q] \notin Names(lines')
    PROVE  Lists'
<1>1. /\ \A q \in Actors : op'[q] = IF q = p THEN "idle" ELSE op[q]
      /\ \A q \in Actors : goal'[q] = IF q = p THEN None ELSE goal[q]
      /\ \A q \in Actors : seenLines'[q] = IF q = p THEN <<>> ELSE seenLines[q]
      /\ born' = born
  BY DoneFacts
<1>2. \A q \in Actors : op'[q] \in Creating => q # p /\ op[q] \in Creating /\ goal'[q] = goal[q]
  BY <1>1 DEF Creating
<1>3. \A q \in Actors : op'[q] \in {"count", "append"} => q # p /\ op[q] \in {"count", "append"} /\ goal'[q] = goal[q]
  BY <1>1
<1>4. \A q \in Actors : Names(seenLines'[q]) \subseteq Names(seenLines[q]) /\ NoTwice(seenLines'[q])
  BY <1>1, NoLines DEF Lists
<1> QED
  BY <1>1, <1>2, <1>3, <1>4 DEF Lists

LEMMA ListsStep == ActorTypes /\ FileTypes /\ Lists /\ GoalKind => Lists'
<1> SUFFICES ASSUME ActorTypes, FileTypes, Lists, GoalKind PROVE Lists'
  OBVIOUS
<1>1. CASE UNCHANGED <<files, actors>>
  BY <1>1 DEF Lists, files, actors
<1>2. ASSUME NEW p \in Actors, Count(p) PROVE Lists'
  <2>1. /\ \A q \in Actors : op'[q] = IF q = p THEN "append" ELSE op[q]
        /\ \A q \in Actors : seenLines'[q] = IF q = p THEN lines ELSE seenLines[q]
        /\ goal' = goal /\ born' = born /\ lines' = lines /\ op[p] = "count"
    BY <1>2, StepFacts DEF files
  <2>2. \A q \in Actors : (op'[q] \in Creating <=> op[q] \in Creating)
                          /\ (op'[q] \in {"count", "append"} <=> op[q] \in {"count", "append"})
    BY <2>1 DEF Creating
  <2> QED
    BY <2>1, <2>2 DEF Lists
<1>3. ASSUME NEW p \in Actors, AppendLine(p) PROVE Lists'
  <2>1. /\ \A q \in Actors : op'[q] = IF q = p THEN "readIndex" ELSE op[q]
        /\ seenLines' = seenLines /\ goal' = goal /\ born' = born /\ op[p] = "append"
    BY <1>3, StepFacts
  <2>2. \A q \in Actors : (op'[q] \in Creating <=> op[q] \in Creating)
                          /\ (op'[q] \in {"count", "append"} => op[q] \in {"count", "append"} /\ q # p)
    BY <2>1 DEF Creating
  <2>3. Len(lines) \in Nat /\ Len(lines') = Len(lines) + 1 /\ \A i \in 1..Len(lines) : lines'[i] = lines[i]
    BY <1>3, AppendFacts
  <2>4. Names(lines') = Names(lines) \cup {goal[p]} /\ goal[p] \notin Names(lines) /\ goal[p] \in born
    BY <1>3, <2>1, AppendFacts DEF Lists, Creating
  <2>5. NoTwice(lines')
    <3>1. PICK a, n : a = goal[p] /\ n = Len(lines) + 1
      OBVIOUS
    <3>2. lines'[n] = <<a, "active">>
      BY <1>3, <3>1, AppendFacts
    <3>3. lines'[n][1] = a
      BY <3>2
    <3>4. \A i \in 1..Len(lines) : lines'[i][1] # a /\ lines'[i][1] = lines[i][1]
      BY <2>3, <2>4, <3>1 DEF Names
    <3> QED
      BY <2>3, <3>1, <3>3, <3>4 DEF NoTwice, Lists
  <2>6. \A q \in Actors : op'[q] \in {"count", "append"} => goal[q] # goal[p]
    BY <2>1, <2>2 DEF Lists, Creating
  <2> QED
    BY <2>1, <2>2, <2>4, <2>5, <2>6 DEF Lists
<1>4. ASSUME NEW p \in Actors, ReadIndex(p) PROVE Lists'
  <2>1. /\ \A q \in Actors : op'[q] = IF q = p THEN "writeIndex" ELSE op[q]
        /\ seenLines' = seenLines /\ goal' = goal /\ born' = born /\ lines' = lines /\ op[p] = "readIndex"
    BY <1>4, StepFacts DEF files
  <2>2. \A q \in Actors : (op'[q] \in Creating <=> op[q] \in Creating)
                          /\ (op'[q] \in {"count", "append"} <=> op[q] \in {"count", "append"})
    BY <2>1 DEF Creating
  <2> QED
    BY <2>1, <2>2 DEF Lists
<1>5. ASSUME NEW p \in Actors, WriteIndex(p) PROVE Lists'
  BY <1>5, DoneLists DEF WriteIndex, Lists
<1>6. ASSUME NEW p \in Actors, ReadFiles(p) PROVE Lists'
  <2>1. CASE Done(p)
    BY <1>6, <2>1, DoneLists, ReadFacts DEF files, Lists
  <2>2. CASE ~Done(p)
    <3>1. /\ \A q \in Actors : op'[q] = IF q = p THEN "write" ELSE op[q]
          /\ \A q \in Actors : seenLines'[q] = IF q = p THEN lines ELSE seenLines[q]
          /\ goal' = goal /\ born' = born /\ lines' = lines
      BY <1>6, <2>2, ReadFacts DEF files
    <3>2. \A q \in Actors : (op'[q] \in Creating => op[q] \in Creating /\ q # p)
                            /\ (op'[q] \in {"count", "append"} => op[q] \in {"count", "append"})
      BY <3>1 DEF Creating
    <3> QED
      BY <3>1, <3>2 DEF Lists
  <2> QED
    BY <2>1, <2>2
<1>7. ASSUME NEW p \in Actors, WriteLines(p) PROVE Lists'
  <2>1. /\ Names(lines') = Names(seenLines[p]) /\ Len(lines') = Len(seenLines[p])
        /\ \A i \in 1..Len(lines') : lines'[i][1] = seenLines[p][i][1]
    BY <1>7, RewriteFacts
  <2>2. NoTwice(lines')
    BY <2>1 DEF NoTwice, Lists
  <2> QED
    BY <1>7, <2>1, <2>2, DoneLists DEF WriteLines, Lists
<1>8. ASSUME NEW p \in Actors, NEW g \in Ids \ born, Begin(p, "count", g, "active"), UNCHANGED files PROVE Lists'
  <2>1. /\ \A q \in Actors : op'[q] = IF q = p THEN "count" ELSE op[q]
        /\ \A q \in Actors : goal'[q] = IF q = p THEN g ELSE goal[q]
        /\ seenLines' = seenLines /\ born' = born \cup {g} /\ lines' = lines /\ op[p] = "idle"
    BY <1>8, BeginFacts DEF files, GoalStatuses
  <2>2. \A q \in Actors : (op'[q] \in Creating => op[q] \in Creating \/ q = p)
                          /\ (op'[q] \in {"count", "append"} => op[q] \in {"count", "append"} \/ q = p)
    BY <2>1 DEF Creating
  <2> QED
    BY <2>1, <2>2 DEF Lists
<1>9. ASSUME NEW p \in Actors, NEW g \in Ids, NEW s \in GoalStatuses \cup {"progress"},
             Begin(p, "read", g, s), UNCHANGED files PROVE Lists'
  <2>1. /\ \A q \in Actors : op'[q] = IF q = p THEN "read" ELSE op[q]
        /\ \A q \in Actors : goal'[q] = IF q = p THEN g ELSE goal[q]
        /\ seenLines' = seenLines /\ born' = born /\ lines' = lines
    BY <1>9, BeginFacts DEF files
  <2>2. \A q \in Actors : (op'[q] \in Creating => op[q] \in Creating /\ q # p)
                          /\ (op'[q] \in {"count", "append"} => op[q] \in {"count", "append"} /\ q # p)
    BY <2>1 DEF Creating
  <2> QED
    BY <2>1, <2>2 DEF Lists
<1>10. CASE Done(Daemon) /\ UNCHANGED files
  BY <1>10, DoneLists DEF Actors, files, Lists
<1> QED
  BY <1>1, <1>2, <1>3, <1>4, <1>5, <1>6, <1>7, <1>8, <1>9, <1>10 DEF GoalKind, GoalStep

-----------------------------------------------------------------------------
(* Types, with the bounds on lines and index. *)

\* A list without a goal twice is no longer than there are goals.
LEMMA LinesBounded ==
    ASSUME NEW L \in Lines, NoTwice(L)
    PROVE  Cardinality(Ids) \in Nat /\ Len(L) \in Nat /\ Len(L) <= Cardinality(Ids)
<1>1. Cardinality(Ids) \in Nat /\ IsFiniteSet(Ids)
  BY NamesAssumption, FS_CardinalityType
<1>2. Len(L) \in Nat /\ \A i \in 1..Len(L) : L[i][1] \in Ids
  BY DEF Lines
<1> DEFINE f == [i \in 1..Len(L) |-> L[i][1]]
<1>3. f \in Injection(1..Len(L), Ids)
  BY <1>2 DEF Injection, IsInjective, NoTwice
<1> HIDE DEF f
<1>4. IsFiniteSet(1..Len(L)) /\ Cardinality(1..Len(L)) <= Cardinality(Ids)
  BY <1>1, <1>3, FS_Injection
<1>5. Cardinality(1..Len(L)) = Len(L)
  <2>1. Len(L) \in Int /\ 1 \in Int
    BY <1>2
  <2>2. Cardinality(1..Len(L)) = IF 1 > Len(L) THEN 0 ELSE Len(L) - 1 + 1
    BY ONLY <2>1, FS_Interval
  <2> QED
    BY <1>2, <2>2
<1> QED
  BY <1>1, <1>2, <1>4, <1>5

\* So a goal that gets its line next gets one of as many.
LEMMA NextLine ==
    ASSUME NEW L \in Lines, NoTwice(L), NEW g \in Ids, g \notin Names(L)
    PROVE  Len(L) + 1 <= Cardinality(Ids)
<1>1. PICK l : l = <<g, "active">>
  OBVIOUS
<1>2. l \in Ids \X GoalStatuses /\ l[1] = g
  BY <1>1 DEF GoalStatuses
<1>3. PICK M : M = Append(L, l)
  OBVIOUS
<1>4. /\ M \in Lines /\ Len(L) \in Nat /\ Len(M) = Len(L) + 1 /\ M[Len(L) + 1] = l
      /\ \A i \in 1..Len(L) : M[i] = L[i]
  BY <1>2, <1>3 DEF Lines
<1>5. \A i \in 1..Len(L) : L[i][1] # g
  BY DEF Names
<1>6. NoTwice(M)
  <2>1. PICK n : n = Len(L) + 1
    OBVIOUS
  <2>2. M[n][1] = g /\ \A i \in 1..Len(L) : M[i][1] # g /\ M[i][1] = L[i][1]
    BY <1>2, <1>4, <1>5, <2>1
  <2> QED
    BY <1>4, <2>1, <2>2 DEF NoTwice
<1> QED
  BY <1>4, <1>6, LinesBounded

\* The index names lines that there are at most.
Bounded ==
    /\ \A g \in Ids : index[g] <= Cardinality(Ids)
    /\ \A p \in Actors, g \in Ids : seenIndex[p][g] <= Cardinality(Ids)

LEMMA BoundedStep == ActorTypes /\ FileTypes /\ Lists /\ Bounded /\ GoalKind => Bounded'
<1> SUFFICES ASSUME ActorTypes, FileTypes, Lists, Bounded, GoalKind PROVE Bounded'
  OBVIOUS
<1>0. Cardinality(Ids) \in Nat
  BY NamesAssumption, FS_CardinalityType
<1>1. ASSUME NEW p \in Actors, Done(p), index' = index PROVE Bounded'
  <2>1. \A q \in Actors : seenIndex'[q] = IF q = p THEN [g \in Ids |-> 0] ELSE seenIndex[q]
    BY <1>1, DoneFacts
  <2> QED
    BY <1>0, <1>1, <2>1 DEF Bounded
<1>2. CASE UNCHANGED <<index, seenIndex>>
  BY <1>2 DEF Bounded
<1>3. ASSUME NEW p \in Actors, Count(p) \/ AppendLine(p) PROVE Bounded'
  BY <1>2, <1>3, StepFacts DEF files
<1>4. ASSUME NEW p \in Actors, ReadIndex(p) PROVE Bounded'
  <2>1. \A q \in Actors : seenIndex'[q] = IF q = p THEN index ELSE seenIndex[q]
    BY <1>4 DEF ReadIndex, ActorTypes
  <2> QED
    BY <1>4, <2>1 DEF ReadIndex, files, Bounded
<1>5. ASSUME NEW p \in Actors, WriteIndex(p) PROVE Bounded'
  <2>1. goal[p] \in Ids /\ goal[p] \notin Names(seenLines[p]) /\ seenLines[p] \in Lines /\ NoTwice(seenLines[p])
    BY <1>5 DEF WriteIndex, ActorTypes, Lists, Creating
  <2>2. LineOf(p) <= Cardinality(Ids)
    BY <2>1, NextLine DEF LineOf
  <2>3. seenIndex[p] \in [Ids -> Nat] /\ Done(p) /\ index' = [seenIndex[p] EXCEPT ![goal[p]] = LineOf(p)]
    BY <1>5 DEF WriteIndex, ActorTypes
  <2>4. \A g \in Ids : index'[g] = IF g = goal[p] THEN LineOf(p) ELSE seenIndex[p][g]
    BY <2>1, <2>3
  <2>5. \A g \in Ids : index'[g] <= Cardinality(Ids)
    BY <2>2, <2>4 DEF Bounded
  <2>6. \A q \in Actors : seenIndex'[q] = IF q = p THEN [g \in Ids |-> 0] ELSE seenIndex[q]
    BY <2>3, DoneFacts
  <2> QED
    BY <1>0, <2>5, <2>6 DEF Bounded
<1>6. ASSUME NEW p \in Actors, ReadFiles(p) PROVE Bounded'
  <2>1. CASE Done(p)
    BY <1>1, <1>6, <2>1, ReadFacts DEF files
  <2>2. CASE ~Done(p)
    BY <1>6, <2>2, ReadFacts DEF files, Bounded
  <2> QED
    BY <2>1, <2>2
<1>7. ASSUME NEW p \in Actors, WriteLines(p) PROVE Bounded'
  BY <1>1, <1>7 DEF WriteLines
<1>8. ASSUME NEW p \in Actors, NEW g \in Ids, NEW oo \in {"read", "count"}, NEW s \in GoalStatuses \cup {"progress"},
             Begin(p, oo, g, s), UNCHANGED files PROVE Bounded'
  BY <1>2, <1>8, BeginFacts DEF files
<1>9. CASE UNCHANGED <<files, actors>>
  BY <1>2, <1>9 DEF files, actors
<1>10. CASE Done(Daemon) /\ UNCHANGED files
  BY <1>1, <1>10 DEF Actors, files
<1>11. "active" \in GoalStatuses
  BY DEF GoalStatuses
<1> QED
  BY <1>3, <1>4, <1>5, <1>6, <1>7, <1>8, <1>9, <1>10, <1>11 DEF GoalKind, GoalStep

LEMMA RestTypesStep == FileTypes /\ QueueInv /\ RestTypes /\ [Next]_vars => RestTypes'
<1> SUFFICES ASSUME FileTypes, QueueInv, RestTypes, [Next]_vars PROVE RestTypes'
  OBVIOUS
<1> USE DEF RestTypes, tasking, bounds
<1>1. ASSUME NEW p \in Actors, GoalStep(p) PROVE RestTypes'
  BY <1>1 DEF GoalStep, Count, AppendLine, ReadIndex, WriteIndex, ReadFiles, WriteLines
<1>2. ASSUME NEW p \in Servers, Request(p) PROVE RestTypes'
  <2>1. requests' = requests + 1 /\ requests < MaxRequests /\ UNCHANGED <<old, held, crashes>>
    BY <1>2 DEF Request
  <2> QED
    BY <2>1, NamesAssumption
<1>3. ASSUME NEW s \in Pursuits, Pursue(s) PROVE RestTypes'
  BY <1>3, FirstListed DEF Pursue, FileTypes
<1>4. CASE Claim
  <2>1. held' \in Ids /\ UNCHANGED <<old, requests, crashes>>
    BY <1>4, ClaimedTask DEF Claim, QueueInv, Ids
  <2> QED
    BY <2>1
<1>5. CASE CompleteTask
  <2>1. held' \in {held, None} /\ UNCHANGED <<old, requests, crashes>>
    BY <1>5, CompletedTask DEF CompleteTask, QueueInv, Idle, Completes
  <2> QED
    BY <2>1
<1>6. CASE LookForTasks \/ ReadTasks \/ Expire \/ WriteTasks \/ Choose
  <2>1. held' \in {held, None} /\ UNCHANGED <<old, requests, crashes>>
    BY <1>6 DEF LookForTasks, ReadTasks, Expire, WriteTasks, Choose, Idle
  <2> QED
    BY <2>1
<1>7. ASSUME NEW t \in Tasks, SubmitTask(t) \/ Age(t) PROVE RestTypes'
  <2>1. old' \subseteq Tasks /\ UNCHANGED <<held, requests, crashes>>
    BY <1>7 DEF SubmitTask, Age
  <2> QED
    BY <2>1
<1>8. CASE Crash
  <2>1. crashes' = crashes + 1 /\ crashes < MaxCrashes /\ held' = None /\ UNCHANGED <<old, requests>>
    BY <1>8 DEF Crash, Idle
  <2> QED
    BY <2>1, NamesAssumption
<1>9. CASE UNCHANGED vars
  BY <1>9 DEF vars
<1> QED
  BY <1>1, <1>2, <1>3, <1>4, <1>5, <1>6, <1>7, <1>8, <1>9 DEF Next, DaemonStep, TaskStep, Actors

\* Everything but the promise.
FilesInv ==
    /\ QueueInv /\ Fresh /\ ActorTypes /\ FileTypes /\ RestTypes
    /\ Lists /\ Bounded

LEMMA FilesInit == Init => FilesInv
<1> SUFFICES ASSUME Init PROVE FilesInv
  OBVIOUS
<1>1. QueueInv /\ Fresh
  BY QueueInit DEF Init, Fresh
<1>2. <<>> \in Lines /\ [g \in Ids |-> 0] \in [Ids -> Nat]
  BY DEF Lines
<1>3. ActorTypes /\ FileTypes
  BY <1>2 DEF Init, ActorTypes, FileTypes, GoalStatuses
<1>4. RestTypes
  BY NamesAssumption DEF Init, RestTypes
<1>5. Lists
  BY NoLines DEF Init, Lists, Creating
<1>6. Cardinality(Ids) \in Nat
  BY NamesAssumption, FS_CardinalityType
<1>7. Bounded
  BY <1>6 DEF Init, Bounded
<1> QED
  BY <1>1, <1>3, <1>4, <1>5, <1>7 DEF FilesInv

LEMMA FilesStep == FilesInv /\ [Next]_vars => FilesInv'
<1> SUFFICES ASSUME FilesInv, [Next]_vars PROVE FilesInv'
  OBVIOUS
<1>1. GoalKind
  BY GoalKinds DEF FilesInv
<1>2. QueueInv' /\ Fresh'
  BY ChainsStep, FreshStep DEF FilesInv
<1>3. ActorTypes' /\ FileTypes' /\ RestTypes'
  BY <1>1, TypesStep, RestTypesStep DEF FilesInv
<1>4. Lists' /\ Bounded'
  BY <1>1, ListsStep, BoundedStep DEF FilesInv
<1> QED
  BY <1>2, <1>3, <1>4 DEF FilesInv

\* Every variable keeps its type, whatever overlaps and is overwritten: the
\* registry never has more lines than there were goals, and the index names
\* no line beyond them.
THEOREM Typing == Spec => []TypeOK
<1>1. FilesInv => TypeOK
  <2> SUFFICES ASSUME FilesInv PROVE TypeOK
    OBVIOUS
  <2>1. Cardinality(Ids) \in Nat /\ Len(lines) <= Cardinality(Ids) /\ Len(lines) \in Nat
    BY LinesBounded DEF FilesInv, FileTypes, Lists
  <2>2. \A i \in 1..Len(lines) : lines[i][1] \in Ids /\ lines[i][2] \in GoalStatuses
    BY DEF FilesInv, FileTypes, Lines
  <2>3. index \in [Ids -> 0..Cardinality(Ids)]
    BY <2>1 DEF FilesInv, FileTypes, Bounded
  <2> QED
    BY <2>1, <2>2, <2>3 DEF FilesInv, FileTypes, ActorTypes, RestTypes, QueueInv, QueueTypes, TypeOK
<1> QED
  BY <1>1, FilesInit, FilesStep, PTL DEF Spec

-----------------------------------------------------------------------------
(* The goal files keep what the engine promises. *)

\* The index names the line of its goal; a goal whose line is not indexed yet is
\* active there; and an operation is about to change the line of its goal.
Indexed == \A g \in Ids : index[g] # 0 => Reaches(g)
Creation(p) ==
    op[p] \in {"readIndex", "writeIndex"} =>
        /\ LineOf(p) \in 1..Len(lines) /\ lines[LineOf(p)] = <<goal[p], "active">>
        /\ index[goal[p]] = 0
Change(p) == op[p] = "write" => seenLines[p][Target(p)][1] = goal[p] /\ index[goal[p]] # 0
Sound == overwritten \/ (Indexed /\ \A p \in Actors : Creation(p) /\ Change(p))

\* A step after which nothing is overwritten writes what it has read.
LEMMA NotOverwritten ==
    ASSUME FileTypes, GoalKind, ~overwritten'
    PROVE  /\ ~overwritten
           /\ \A p \in Actors : /\ AppendLine(p) => Len(lines) = Len(seenLines[p])
                                /\ WriteIndex(p) => index = seenIndex[p]
                                /\ WriteLines(p) => lines = seenLines[p]
  BY DEF FileTypes, GoalKind, GoalStep, files, Count, AppendLine, ReadIndex, WriteIndex, ReadFiles, WriteLines

\* An actor whose part of the state does not change keeps its part of Sound while
\* the lines it counts on are there.
LEMMA CreationKept ==
    ASSUME NEW p \in Actors, Creation(p), op'[p] \in {"readIndex", "writeIndex"} => op[p] \in {"readIndex", "writeIndex"},
           goal'[p] = goal[p], seenLines'[p] = seenLines[p],
           op'[p] \in {"readIndex", "writeIndex"} => index'[goal[p]] = index[goal[p]],
           op'[p] \in {"readIndex", "writeIndex"} /\ LineOf(p) \in 1..Len(lines) =>
              LineOf(p) \in 1..Len(lines') /\ lines'[LineOf(p)] = lines[LineOf(p)]
    PROVE  Creation(p)'
<1>1. LineOf(p)' = LineOf(p)
  BY DEF LineOf
<1> QED
  BY <1>1 DEF Creation

LEMMA ChangeKept ==
    ASSUME NEW p \in Actors, Change(p), op'[p] = "write" => op[p] = "write",
           goal'[p] = goal[p], seenLines'[p] = seenLines[p], seenIndex'[p] = seenIndex[p],
           index[goal[p]] # 0 => index'[goal[p]] # 0
    PROVE  Change(p)'
  BY DEF Change, Target

\* The end or the beginning of an operation, and other steps that leave the files
\* alone, keep to it.
LEMMA SoundQuiet ==
    ASSUME UNCHANGED files, NEW p \in Actors, Indexed, \A q \in Actors : Creation(q) /\ Change(q),
           op'[p] \notin {"readIndex", "writeIndex", "write"},
           \A q \in Actors : q # p => /\ op'[q] = op[q] /\ goal'[q] = goal[q]
                                      /\ seenLines'[q] = seenLines[q] /\ seenIndex'[q] = seenIndex[q]
    PROVE  Indexed' /\ \A q \in Actors : Creation(q)' /\ Change(q)'
<1>1. Indexed'
  BY DEF Indexed, Reaches, files
<1>2. ASSUME NEW q \in Actors PROVE Creation(q)' /\ Change(q)'
  <2>1. CASE q = p
    BY <2>1 DEF Creation, Change
  <2>2. CASE q # p
    BY <2>2, CreationKept, ChangeKept DEF files
  <2> QED
    BY <2>1, <2>2
<1> QED
  BY <1>1, <1>2

LEMMA SoundStep == ActorTypes /\ FileTypes /\ Lists /\ Sound /\ GoalKind => Sound'
<1> SUFFICES ASSUME ActorTypes, FileTypes, Lists, Sound, GoalKind, ~overwritten'
             PROVE  Indexed' /\ \A q \in Actors : Creation(q)' /\ Change(q)'
  BY DEF Sound
<1> DEFINE Goal == Indexed' /\ \A q \in Actors : Creation(q)' /\ Change(q)'
<1>0. Indexed /\ \A q \in Actors : Creation(q) /\ Change(q)
  BY NotOverwritten DEF Sound
<1>1. CASE UNCHANGED <<files, actors>>
  BY <1>0, <1>1 DEF files, actors, Indexed, Reaches, Creation, Change, LineOf, Target
<1>2. ASSUME NEW p \in Actors, Count(p) PROVE Goal
  <2>1. op'[p] = "append" /\ UNCHANGED files /\ \A q \in Actors : q # p =>
          op'[q] = op[q] /\ goal'[q] = goal[q] /\ seenLines'[q] = seenLines[q] /\ seenIndex'[q] = seenIndex[q]
    BY <1>2, StepFacts
  <2> QED
    BY <1>0, <2>1, SoundQuiet
<1>3. ASSUME NEW p \in Actors, AppendLine(p) PROVE Goal
  <2>1. /\ \A q \in Actors : op'[q] = IF q = p THEN "readIndex" ELSE op[q]
        /\ seenLines' = seenLines /\ seenIndex' = seenIndex /\ index' = index /\ goal' = goal /\ op[p] = "append"
    BY <1>3, StepFacts
  <2>2. Len(lines) \in Nat /\ Len(lines') = Len(lines) + 1 /\ \A i \in 1..Len(lines) : lines'[i] = lines[i]
    BY <1>3, AppendFacts
  <2>3. lines'[Len(lines) + 1] = <<goal[p], "active">> /\ goal[p] \in Ids
    BY <1>3, AppendFacts
  <2>4. Indexed'
    BY <1>0, <2>1, <2>2 DEF Indexed, Reaches
  <2>5. index[goal[p]] = 0
    <3>1. goal[p] \notin Names(lines)
      BY <2>1 DEF Lists
    <3> QED
      BY <1>0, <2>3, <3>1 DEF Indexed, Reaches, Names
  <2>6. Creation(p)'
    <3>1. LineOf(p)' = Len(lines) + 1
      BY <1>3, <2>1, NotOverwritten DEF LineOf
    <3> QED
      BY <2>1, <2>2, <2>3, <2>5, <3>1 DEF Creation
  <2>7. ASSUME NEW q \in Actors, q # p PROVE Creation(q)'
    BY <1>0, <2>1, <2>2, <2>7, CreationKept
  <2>8. ASSUME NEW q \in Actors PROVE Change(q)'
    BY <1>0, <2>1, ChangeKept
  <2> QED
    BY <2>4, <2>6, <2>7, <2>8
<1>4. ASSUME NEW p \in Actors, ReadIndex(p) PROVE Goal
  <2>1. /\ \A q \in Actors : op'[q] = IF q = p THEN "writeIndex" ELSE op[q]
        /\ seenLines' = seenLines /\ UNCHANGED files /\ goal' = goal /\ op[p] = "readIndex"
    BY <1>4, StepFacts
  <2>2. \A q \in Actors : q # p => seenIndex'[q] = seenIndex[q]
    BY <1>4 DEF ReadIndex, ActorTypes
  <2>3. Indexed'
    BY <1>0, <2>1 DEF Indexed, Reaches, files
  <2>4. ASSUME NEW q \in Actors PROVE Creation(q)'
    BY <1>0, <2>1, CreationKept DEF files
  <2>5. ASSUME NEW q \in Actors PROVE Change(q)'
    <3>1. CASE q = p
      BY <2>1, <3>1 DEF Change
    <3>2. CASE q # p
      BY <1>0, <2>1, <2>2, <3>2, ChangeKept DEF files
    <3> QED
      BY <3>1, <3>2
  <2> QED
    BY <2>3, <2>4, <2>5
<1>5. ASSUME NEW p \in Actors, WriteIndex(p) PROVE Goal
  <2>1. op[p] = "writeIndex" /\ Done(p) /\ lines' = lines /\ index' = [index EXCEPT ![goal[p]] = LineOf(p)]
    BY <1>5, NotOverwritten DEF WriteIndex
  <2>2. /\ \A q \in Actors : op'[q] = IF q = p THEN "idle" ELSE op[q]
        /\ \A q \in Actors : goal'[q] = IF q = p THEN None ELSE goal[q]
        /\ \A q \in Actors : seenLines'[q] = IF q = p THEN <<>> ELSE seenLines[q]
        /\ \A q \in Actors : seenIndex'[q] = IF q = p THEN [g \in Ids |-> 0] ELSE seenIndex[q]
    BY <2>1, DoneFacts
  <2>3. goal[p] \in Ids
    BY <2>1 DEF ActorTypes
  <2>4. LineOf(p) \in 1..Len(lines) /\ lines[LineOf(p)] = <<goal[p], "active">>
    BY <1>0, <2>1 DEF Creation
  <2>5. \A g \in Ids : index'[g] = IF g = goal[p] THEN LineOf(p) ELSE index[g]
    BY <2>1, <2>3 DEF FileTypes
  <2>6. Indexed'
    BY <1>0, <2>1, <2>4, <2>5 DEF Indexed, Reaches
  <2>7. ASSUME NEW q \in Actors, q # p PROVE Creation(q)' /\ Change(q)'
    <3>1. op'[q] = op[q] /\ goal'[q] = goal[q] /\ seenLines'[q] = seenLines[q] /\ seenIndex'[q] = seenIndex[q]
      BY <2>2, <2>7
    <3>2. op'[q] \in {"readIndex", "writeIndex"} => index'[goal[q]] = index[goal[q]]
      <4> SUFFICES ASSUME op[q] \in {"readIndex", "writeIndex"} PROVE index'[goal[q]] = index[goal[q]]
        BY <3>1
      <4>1. goal[q] # goal[p] /\ goal[q] \in Ids
        BY <2>1, <2>7 DEF Lists, Creating, ActorTypes
      <4> QED
        BY <2>5, <4>1
    <3>3. index[goal[q]] # 0 => index'[goal[q]] # 0
      BY <2>1, <2>3, <2>4 DEF FileTypes
    <3> QED
      BY <1>0, <2>1, <3>1, <3>2, <3>3, CreationKept, ChangeKept
  <2>8. Creation(p)' /\ Change(p)'
    BY <2>2 DEF Creation, Change
  <2> QED
    BY <2>6, <2>7, <2>8
<1>6. ASSUME NEW p \in Actors, ReadFiles(p) PROVE Goal
  <2>1. CASE Done(p)
    <3>1. op'[p] = "idle" /\ UNCHANGED files /\ \A q \in Actors : q # p =>
          op'[q] = op[q] /\ goal'[q] = goal[q] /\ seenLines'[q] = seenLines[q] /\ seenIndex'[q] = seenIndex[q]
      BY <1>6, <2>1, DoneFacts, ReadFacts
    <3> QED
      BY <1>0, <3>1, SoundQuiet
  <2>2. CASE ~Done(p)
    <3>1. /\ index[goal[p]] \in 1..Len(lines) /\ goal' = goal /\ UNCHANGED files /\ op[p] = "read"
          /\ \A q \in Actors : op'[q] = IF q = p THEN "write" ELSE op[q]
          /\ \A q \in Actors : seenLines'[q] = IF q = p THEN lines ELSE seenLines[q]
          /\ \A q \in Actors : seenIndex'[q] = IF q = p THEN index ELSE seenIndex[q]
      BY <1>6, <2>2, ReadFacts
    <3>2. Indexed'
      BY <1>0, <3>1 DEF Indexed, Reaches, files
    <3>3. ASSUME NEW q \in Actors, q # p PROVE Creation(q)' /\ Change(q)'
      BY <1>0, <3>1, <3>3, CreationKept, ChangeKept DEF files
    <3>4. Creation(p)'
      BY <3>1 DEF Creation
    <3>5. Change(p)'
      <4>1. goal[p] \in Ids /\ index[goal[p]] # 0
        BY <3>1 DEF ActorTypes
      <4>2. lines[index[goal[p]]][1] = goal[p]
        BY <1>0, <4>1 DEF Indexed, Reaches
      <4>3. Target(p)' = index[goal[p]]
        BY <3>1 DEF Target
      <4> QED
        BY <3>1, <4>1, <4>2, <4>3 DEF Change, files
    <3> QED
      BY <3>2, <3>3, <3>4, <3>5
  <2> QED
    BY <2>1, <2>2
<1>7. ASSUME NEW p \in Actors, WriteLines(p) PROVE Goal
  <2>1. op[p] = "write" /\ Done(p) /\ index' = index /\ seenLines[p] = lines
    BY <1>7, NotOverwritten DEF WriteLines
  <2>2. /\ \A q \in Actors : op'[q] = IF q = p THEN "idle" ELSE op[q]
        /\ \A q \in Actors : goal'[q] = IF q = p THEN None ELSE goal[q]
        /\ \A q \in Actors : seenLines'[q] = IF q = p THEN <<>> ELSE seenLines[q]
        /\ \A q \in Actors : seenIndex'[q] = IF q = p THEN [g \in Ids |-> 0] ELSE seenIndex[q]
    BY <2>1, DoneFacts
  <2>3. /\ Len(lines') = Len(lines) /\ \A i \in 1..Len(lines') : lines'[i][1] = lines[i][1]
        /\ \A i \in 1..Len(lines') : i # Target(p) => lines'[i] = lines[i]
    BY <1>7, <2>1, RewriteFacts
  <2>4. lines[Target(p)][1] = goal[p] /\ index[goal[p]] # 0
    BY <1>0, <2>1 DEF Change
  <2>5. Indexed'
    BY <1>0, <2>1, <2>3 DEF Indexed, Reaches
  <2>6. ASSUME NEW q \in Actors, q # p PROVE Creation(q)' /\ Change(q)'
    <3>1. op'[q] = op[q] /\ goal'[q] = goal[q] /\ seenLines'[q] = seenLines[q] /\ seenIndex'[q] = seenIndex[q]
      BY <2>2, <2>6
    <3>2. op[q] \in {"readIndex", "writeIndex"} => LineOf(q) # Target(p)
      <4> SUFFICES ASSUME op[q] \in {"readIndex", "writeIndex"} PROVE LineOf(q) # Target(p)
        OBVIOUS
      <4>1. lines[LineOf(q)] = <<goal[q], "active">> /\ index[goal[q]] = 0
        BY <1>0 DEF Creation
      <4>2. lines[LineOf(q)][1] = goal[q]
        BY <4>1
      <4> QED
        BY <2>4, <4>1, <4>2
    <3> QED
      BY <1>0, <2>1, <2>3, <3>1, <3>2, CreationKept, ChangeKept
  <2>7. Creation(p)' /\ Change(p)'
    BY <2>2 DEF Creation, Change
  <2> QED
    BY <2>5, <2>6, <2>7
<1>8. ASSUME NEW p \in Actors, NEW g \in Ids, NEW oo \in {"read", "count"}, NEW s \in GoalStatuses \cup {"progress"},
             Begin(p, oo, g, s), UNCHANGED files PROVE Goal
  <2>1. op'[p] = oo /\ \A q \in Actors : q # p =>
          op'[q] = op[q] /\ goal'[q] = goal[q] /\ seenLines'[q] = seenLines[q] /\ seenIndex'[q] = seenIndex[q]
    BY <1>8, BeginFacts
  <2> QED
    BY <1>0, <1>8, <2>1, SoundQuiet
<1>9. CASE Done(Daemon) /\ UNCHANGED files
  <2>1. Daemon \in Actors
    BY DEF Actors
  <2>2. op'[Daemon] = "idle" /\ \A q \in Actors : q # Daemon =>
          op'[q] = op[q] /\ goal'[q] = goal[q] /\ seenLines'[q] = seenLines[q] /\ seenIndex'[q] = seenIndex[q]
    BY <1>9, <2>1, DoneFacts
  <2> QED
    BY <1>0, <1>9, <2>1, <2>2, SoundQuiet
<1>10. "active" \in GoalStatuses
  BY DEF GoalStatuses
<1> HIDE DEF Goal
<1>11. Goal
  BY <1>1, <1>2, <1>3, <1>4, <1>5, <1>6, <1>7, <1>8, <1>9, <1>10 DEF GoalKind, GoalStep, Goal
<1> QED
  BY <1>11 DEF Goal

\* What holds of the goal files as long as nothing was overwritten.
Intact ==
    /\ ActorTypes /\ FileTypes /\ Lists
    /\ Indexed /\ \A p \in Actors : Creation(p) /\ Change(p)

Creates(g) == \E p \in Actors : goal[p] = g /\ op[p] \in Creating

\* The status of a goal in a list of lines.
StatusIn(L, g) ==
    IF g \in Names(L) THEN L[CHOOSE i \in 1..Len(L) : L[i][1] = g][2] ELSE "none"

LEMMA StatusOfIs ==
    \A g : StatusOf(g) = StatusIn(lines, g) /\ StatusOf(g)' = StatusIn(lines', g)
  BY DEF StatusOf, StatusIn, Listed, Names

\* It is that of its line, the only one.
LEMMA StatusOfLine ==
    ASSUME NEW L, NEW g, NoTwice(L)
    PROVE  /\ \A i \in 1..Len(L) : L[i][1] = g => StatusIn(L, g) = L[i][2]
           /\ g \notin Names(L) => StatusIn(L, g) = "none"
<1>1. ASSUME NEW i \in 1..Len(L), L[i][1] = g PROVE StatusIn(L, g) = L[i][2]
  <2>1. (CHOOSE k \in 1..Len(L) : L[k][1] = g) = i
    BY <1>1 DEF NoTwice
  <2> QED
    BY <1>1, <2>1 DEF StatusIn, Names
<1>2. g \notin Names(L) => StatusIn(L, g) = "none"
  BY DEF StatusIn
<1> QED
  BY <1>1, <1>2

\* A goal whose line is the same has the same status.
LEMMA SameLine ==
    ASSUME NEW L, NEW M, NEW g, NoTwice(L), NoTwice(M), g \in Names(L) <=> g \in Names(M),
           \A i \in 1..Len(L) : L[i][1] = g => i \in 1..Len(M) /\ M[i] = L[i]
    PROVE  StatusIn(M, g) = StatusIn(L, g)
<1>1. CASE g \in Names(L)
  <2>1. PICK i \in 1..Len(L) : L[i][1] = g
    BY <1>1 DEF Names
  <2>2. i \in 1..Len(M) /\ M[i] = L[i]
    BY <2>1
  <2> QED
    BY <2>1, <2>2, StatusOfLine
<1>2. CASE g \notin Names(L)
  BY <1>2, StatusOfLine
<1> QED
  BY <1>1, <1>2

LEMMA SameStatus == lines' = lines => [g \in Ids |-> StatusOf(g)]' = [g \in Ids |-> StatusOf(g)]
  BY StatusOfIs

LEMMA StuckIs ==
    /\ FileTypes /\ Indexed => Stuck = {g \in Names(lines) : index[g] = 0 /\ ~Creates(g)}
    /\ FileTypes' /\ Indexed' => Stuck' = {g \in Names(lines') : index'[g] = 0 /\ ~(Creates(g)')}
<1>1. FileTypes => Names(lines) \subseteq Ids /\ Listed = Names(lines)
  BY DEF FileTypes, Lines, Names, Listed
<1>2. FileTypes' => Names(lines') \subseteq Ids /\ Listed' = Names(lines')
  BY DEF FileTypes, Lines, Names, Listed
<1>3. FileTypes /\ Indexed => \A g \in Names(lines) : Reaches(g) <=> index[g] # 0
  BY <1>1 DEF Indexed, Reaches
<1>4. FileTypes' /\ Indexed' => \A g \in Names(lines') : Reaches(g)' <=> index'[g] # 0
  BY <1>2 DEF Indexed, Reaches
<1>5. ASSUME FileTypes, Indexed PROVE Stuck = {g \in Names(lines) : index[g] = 0 /\ ~Creates(g)}
  BY <1>1, <1>3, <1>5 DEF Stuck, Creates
<1>6. ASSUME FileTypes', Indexed' PROVE Stuck' = {g \in Names(lines') : index'[g] = 0 /\ ~(Creates(g)')}
  BY <1>2, <1>4, <1>6 DEF Stuck, Creates
<1> QED
  BY <1>5, <1>6

Stutter == [g \in Ids |-> StatusOf(g)]' = [g \in Ids |-> StatusOf(g)] /\ Stuck' = Stuck

\* Nothing changes for the engine while the goals that are listed keep their lines
\* and whether they are indexed or on the way to it.
LEMMA Stutters ==
    ASSUME Intact, Intact', lines' = lines, \A g \in Names(lines) : index'[g] = index[g],
           \A g \in Names(lines) : Creates(g)' <=> Creates(g)
    PROVE  Stutter
BY StuckIs, SameStatus DEF Stutter, Intact

\* The line of a new goal is its creation.
LEMMA AppendCreates ==
    ASSUME Intact, Intact', NEW p \in Actors, AppendLine(p)
    PROVE  Store!Create(goal[p])
<1>0. PICK a : a = goal[p]
  OBVIOUS
<1>1. /\ \A q \in Actors : op'[q] = IF q = p THEN "readIndex" ELSE op[q]
      /\ index' = index /\ op[p] = "append" /\ goal' = goal
  BY StepFacts DEF Intact
<1>2. /\ a \in Ids /\ Len(lines) \in Nat /\ Len(lines') = Len(lines) + 1
      /\ \A i \in 1..Len(lines) : lines'[i] = lines[i]
      /\ lines'[Len(lines) + 1] = <<a, "active">> /\ Names(lines') = Names(lines) \cup {a}
  BY <1>0, AppendFacts DEF Intact
<1>3. a \notin Names(lines) /\ NoTwice(lines) /\ NoTwice(lines')
  BY <1>0, <1>1 DEF Intact, Lists
<1>4. StatusOf(a) = "none" /\ StatusOf(a)' = "active"
  <2>1. StatusIn(lines, a) = "none"
    BY <1>3, StatusOfLine
  <2>2. PICK n : n = Len(lines) + 1
    OBVIOUS
  <2>3. n \in 1..Len(lines') /\ lines'[n][1] = a /\ lines'[n][2] = "active"
    BY <1>2, <2>2
  <2>4. StatusIn(lines', a) = "active"
    BY <1>3, <2>3, StatusOfLine
  <2> QED
    BY <2>1, <2>4, StatusOfIs
<1>5. ASSUME NEW h \in Ids, h # a PROVE StatusOf(h)' = StatusOf(h)
  <2>1. \A i \in 1..Len(lines) : i \in 1..Len(lines') /\ lines'[i] = lines[i]
    BY <1>2
  <2>2. h \in Names(lines) <=> h \in Names(lines')
    BY <1>2, <1>5
  <2> QED
    BY <1>3, <2>1, <2>2, SameLine, StatusOfIs
<1>6. Stuck' = Stuck
  <2>1. Creates(a)' /\ \A h : Creates(h)' <=> Creates(h)
    BY <1>0, <1>1 DEF Creates, Creating
  <2> QED
    BY <1>1, <1>2, <2>1, StuckIs DEF Intact
<1>7. [g \in Ids |-> StatusOf(g)]' = [[g \in Ids |-> StatusOf(g)] EXCEPT ![a] = "active"]
  BY <1>2, <1>4, <1>5
<1>8. [g \in Ids |-> StatusOf(g)][a] = "none"
  BY <1>2, <1>4
<1> QED
  BY <1>0, <1>6, <1>7, <1>8 DEF Store!Create

\* The end of an operation that is no creation concerns no creation.
LEMMA DoneCreates ==
    ASSUME ActorTypes, NEW p \in Actors, Done(p)
    PROVE  /\ \A h \in Ids : h # goal[p] => (Creates(h)' <=> Creates(h))
           /\ op[p] \notin Creating => \A h \in Ids : Creates(h)' <=> Creates(h)
<1>1. /\ \A q \in Actors : op'[q] = IF q = p THEN "idle" ELSE op[q]
      /\ \A q \in Actors : goal'[q] = IF q = p THEN None ELSE goal[q]
  BY DoneFacts
<1> QED
  BY <1>1 DEF Creates, Creating

\* The rewrite of its line is a change of the goal alone.
LEMMA WriteChanges ==
    ASSUME Intact, Intact', NEW p \in Actors, WriteLines(p), lines = seenLines[p]
    PROVE  Store!Change(goal[p])
<1>0. PICK a, k, new : a = goal[p] /\ k = Target(p) /\ new = NewStatus(p, lines[k][2])
  OBVIOUS
<1>1. op[p] = "write" /\ Done(p) /\ index' = index
  BY DEF WriteLines
<1>2. a \in Ids /\ k \in 1..Len(lines) /\ lines[k][1] = a /\ index[a] # 0
  BY <1>0, <1>1 DEF Intact, ActorTypes, Change
<1>3. /\ Len(lines') = Len(lines) /\ Names(lines') = Names(lines)
      /\ \A i \in 1..Len(lines') : i # k => lines'[i] = lines[i]
      /\ lines'[k] = <<a, new>>
  BY <1>0, <1>2, RewriteFacts DEF Intact
<1>4. lines[k][2] \in GoalStatuses /\ new \in GoalStatuses
  <2>1. lines[k][2] \in GoalStatuses
    BY <1>2 DEF Intact, FileTypes, Lines
  <2> QED
    BY <1>0, <2>1, StatusTyped DEF Intact
<1>5. lines'[k][1] = a /\ lines'[k][2] = new
  <2>1. PICK l : l = <<a, new>>
    OBVIOUS
  <2>2. l[1] = a /\ l[2] = new
    BY <2>1
  <2> QED
    BY <1>3, <2>1, <2>2
<1>6. NoTwice(lines) /\ NoTwice(lines') /\ Names(lines) \subseteq Ids /\ a \in Names(lines)
  <2>1. NoTwice(lines) /\ NoTwice(lines')
    BY DEF Intact, Lists
  <2>2. Names(lines) \subseteq Ids
    BY DEF Intact, FileTypes, Lines, Names
  <2> QED
    BY <1>2, <2>1, <2>2 DEF Names
<1>7. Stuck' = Stuck /\ a \notin Stuck
  <2>1. \A h \in Ids : Creates(h)' <=> Creates(h)
    BY <1>1, DoneCreates DEF Intact, Creating
  <2>2. Stuck' = Stuck
    BY <1>1, <1>3, <1>6, <2>1, StuckIs DEF Intact
  <2>3. a \notin Stuck
    BY <1>2, StuckIs DEF Intact
  <2> QED
    BY <2>2, <2>3
<1>8. StatusOf(a) = lines[k][2] /\ StatusOf(a)' = new
  BY <1>2, <1>3, <1>5, <1>6, StatusOfLine, StatusOfIs
<1>9. ASSUME NEW h \in Ids, h # a PROVE StatusOf(h)' = StatusOf(h)
  <2>1. \A i \in 1..Len(lines) : lines[i][1] = h => i \in 1..Len(lines') /\ lines'[i] = lines[i]
    BY <1>2, <1>3, <1>9
  <2> QED
    BY <1>3, <1>6, <2>1, SameLine, StatusOfIs
<1>10. [g \in Ids |-> StatusOf(g)]' = [[g \in Ids |-> StatusOf(g)] EXCEPT ![a] = new]
  BY <1>2, <1>8, <1>9
<1>11. [g \in Ids |-> StatusOf(g)][a] \in Store!Statuses /\ new \in Store!Statuses
  BY <1>2, <1>4, <1>8 DEF GoalStatuses, Store!Statuses
<1> QED
  BY <1>0, <1>7, <1>10, <1>11 DEF Store!Change

\* A stop of the daemon cuts a creation short, or concerns no goal.
LEMMA StopCuts ==
    ASSUME Intact, Intact', Done(Daemon), UNCHANGED files
    PROVE  Stutter \/ (goal[Daemon] \in Ids /\ Store!CutShort(goal[Daemon]))
<1>0. PICK a : a = goal[Daemon]
  OBVIOUS
<1>1. Daemon \in Actors /\ lines' = lines /\ index' = index /\ Names(lines) \subseteq Ids
  BY DEF Actors, files, Intact, FileTypes, Lines, Names
<1>2. CASE op[Daemon] \notin Creating \/ a \notin Names(lines)
  <2>1. \A h \in Names(lines) : Creates(h)' <=> Creates(h)
    BY <1>0, <1>1, <1>2, DoneCreates DEF Intact
  <2> QED
    BY <1>1, <2>1, Stutters
<1>3. CASE op[Daemon] \in Creating /\ a \in Names(lines)
  <2>1. op[Daemon] \in {"readIndex", "writeIndex"}
    BY <1>0, <1>1, <1>3 DEF Intact, Lists, Creating
  <2>2. PICK n : n = LineOf(Daemon)
    OBVIOUS
  <2>3. n \in 1..Len(lines) /\ lines[n] = <<a, "active">> /\ index[a] = 0
    BY <1>0, <1>1, <2>1, <2>2 DEF Intact, Creation
  <2>4. lines[n][1] = a /\ lines[n][2] = "active"
    BY <2>3
  <2>5. StatusOf(a) = "active"
    BY <2>3, <2>4, StatusOfLine, StatusOfIs DEF Intact, Lists
  <2>6. Creates(a) /\ a \in Ids /\ ~Creates(a)'
    <3>1. /\ \A q \in Actors : op'[q] = IF q = Daemon THEN "idle" ELSE op[q]
          /\ \A q \in Actors : goal'[q] = IF q = Daemon THEN None ELSE goal[q]
      BY <1>1, DoneFacts DEF Intact
    <3>2. \A q \in Actors : q # Daemon /\ op[q] \in Creating => goal[q] # a
      BY <1>0, <1>1, <1>3 DEF Intact, Lists
    <3> QED
      BY <1>0, <1>1, <1>3, <3>1, <3>2 DEF Creates, Creating
  <2>7. \A h \in Names(lines) : h # a => (Creates(h)' <=> Creates(h))
    BY <1>0, <1>1, DoneCreates DEF Intact
  <2>8. a \notin Stuck /\ Stuck' = Stuck \cup {a}
    BY <1>1, <1>3, <2>3, <2>6, <2>7, StuckIs DEF Intact
  <2>9. [g \in Ids |-> StatusOf(g)]' = [g \in Ids |-> StatusOf(g)]
    BY <1>1, SameStatus
  <2>10. [g \in Ids |-> StatusOf(g)][a] = "active"
    BY <2>5, <2>6
  <2> QED
    BY <1>0, <2>6, <2>8, <2>9, <2>10 DEF Store!CutShort
<1> QED
  BY <1>2, <1>3

\* Every step that overwrites nothing is one of the engine's, or leaves its goals
\* alone.
LEMMA PromiseStep ==
    ASSUME Intact, Intact', GoalKind, ~overwritten'
    PROVE  Store!Next \/ Stutter
<1> DEFINE Goal == Store!Next \/ Stutter
<1>0. Names(lines) \subseteq Ids
  BY DEF Intact, FileTypes, Lines, Names
<1>1. CASE UNCHANGED <<files, actors>>
  <2>1. \A h \in Names(lines) : Creates(h)' <=> Creates(h)
    BY <1>1 DEF actors, Creates
  <2> QED
    BY <1>1, <2>1, Stutters DEF files
<1>2. ASSUME NEW p \in Actors, Count(p) \/ ReadIndex(p) PROVE Goal
  <2>1. goal' = goal /\ UNCHANGED files
    BY <1>2 DEF Count, ReadIndex
  <2>2. \A q \in Actors : op'[q] \in Creating <=> op[q] \in Creating
    BY <1>2 DEF Count, ReadIndex, Intact, ActorTypes, Creating
  <2>3. \A h \in Names(lines) : Creates(h)' <=> Creates(h)
    BY <2>1, <2>2 DEF Creates
  <2> QED
    BY <2>1, <2>3, Stutters DEF files
<1>3. ASSUME NEW p \in Actors, AppendLine(p) PROVE Goal
  <2>1. goal[p] \in Ids
    BY <1>3, AppendFacts DEF Intact
  <2> QED
    BY <1>3, <2>1, AppendCreates DEF Store!Next
<1>4. ASSUME NEW p \in Actors, WriteIndex(p) PROVE Goal
  <2>1. PICK a : a = goal[p]
    OBVIOUS
  <2>2. op[p] = "writeIndex" /\ Done(p) /\ lines' = lines /\ index' = [index EXCEPT ![a] = LineOf(p)]
    BY <1>4, <2>1, NotOverwritten DEF WriteIndex, Intact
  <2>3. index[a] = 0 /\ Creates(a) /\ a \in Ids /\ LineOf(p) # 0
    BY <2>1, <2>2 DEF Intact, Creation, Creates, Creating, ActorTypes
  <2>4. index'[a] # 0 /\ \A h \in Ids : h # a => index'[h] = index[h]
    BY <2>2, <2>3 DEF Intact, FileTypes
  <2>5. \A h \in Ids : h # a => (Creates(h)' <=> Creates(h))
    BY <2>1, <2>2, DoneCreates DEF Intact
  <2>6. Stuck' = Stuck
    BY <1>0, <2>2, <2>3, <2>4, <2>5, StuckIs DEF Intact
  <2> QED
    BY <2>2, <2>6, SameStatus DEF Stutter
<1>5. ASSUME NEW p \in Actors, ReadFiles(p) PROVE Goal
  <2>1. CASE Done(p)
    <3>1. op[p] = "read" /\ UNCHANGED files
      BY <1>5, ReadFacts DEF Intact
    <3>2. \A h \in Names(lines) : Creates(h)' <=> Creates(h)
      BY <1>0, <2>1, <3>1, DoneCreates DEF Intact, Creating
    <3> QED
      BY <3>1, <3>2, Stutters DEF files
  <2>2. CASE ~Done(p)
    <3>1. goal' = goal /\ UNCHANGED files /\ op[p] = "read" /\ \A q \in Actors : op'[q] = IF q = p THEN "write" ELSE op[q]
      BY <1>5, <2>2, ReadFacts DEF Intact
    <3>2. \A h \in Names(lines) : Creates(h)' <=> Creates(h)
      BY <3>1 DEF Creates, Creating
    <3> QED
      BY <3>1, <3>2, Stutters DEF files
  <2> QED
    BY <2>1, <2>2
<1>6. ASSUME NEW p \in Actors, WriteLines(p) PROVE Goal
  <2>1. lines = seenLines[p]
    BY <1>6, NotOverwritten DEF Intact
  <2>2. goal[p] \in Ids
    BY <1>6 DEF WriteLines, Intact, ActorTypes
  <2> QED
    BY <1>6, <2>1, <2>2, WriteChanges DEF Store!Next
<1>7. ASSUME NEW p \in Actors, NEW g \in Ids, NEW oo \in {"read", "count"}, NEW s \in GoalStatuses \cup {"progress"},
             Begin(p, oo, g, s), UNCHANGED files, oo = "count" => g \notin born PROVE Goal
  <2>1. /\ op[p] = "idle"
        /\ \A q \in Actors : op'[q] = IF q = p THEN oo ELSE op[q]
        /\ \A q \in Actors : goal'[q] = IF q = p THEN g ELSE goal[q]
    BY <1>7, BeginFacts DEF Intact
  <2>2. oo = "count" => g \notin Names(lines)
    BY <1>7 DEF Intact, Lists
  <2>3. \A h \in Names(lines) : Creates(h)' <=> Creates(h)
    BY <2>1, <2>2 DEF Creates, Creating
  <2> QED
    BY <1>7, <2>3, Stutters DEF files
<1>8. CASE Done(Daemon) /\ UNCHANGED files
  BY <1>8, StopCuts DEF Store!Next
<1>9. "active" \in GoalStatuses
  BY DEF GoalStatuses
<1> HIDE DEF Goal
<1>10. Goal
  BY <1>1, <1>2, <1>3, <1>4, <1>5, <1>6, <1>7, <1>8, <1>9 DEF GoalKind, GoalStep, Goal
<1> QED
  BY <1>10 DEF Goal

\* Until a write goes over a change that another engine made since the file was
\* read, a goal that is created is kept, and its status is what the last operation
\* on it has set, however many engines, requests and crashes there are; a crash
\* of the daemon may leave a goal that no operation reaches, and does nothing else.
THEOREM Refinement == Spec => KeptUnlessOverwritten
<1>1. Init => Store!Init /\ Sound
  <2> SUFFICES ASSUME Init PROVE Store!Init /\ Sound
    OBVIOUS
  <2>1. Listed = {}
    BY DEF Init, Listed
  <2> QED
    BY <2>1 DEF Init, Store!Init, StatusOf, Stuck, Sound, Indexed, Creation, Change
<1>2. FilesInv /\ Sound /\ [Next]_vars => Sound'
  BY GoalKinds, SoundStep DEF FilesInv
<1>3. FilesInv /\ FilesInv' /\ Sound /\ Sound' /\ [Next]_vars
        => [Store!Next \/ overwritten']_<<[g \in Ids |-> StatusOf(g)], Stuck>>
  <2> SUFFICES ASSUME FilesInv, FilesInv', Sound, Sound', [Next]_vars, ~overwritten'
               PROVE  Store!Next \/ Stutter
    BY DEF Stutter
  <2>1. GoalKind
    BY GoalKinds DEF FilesInv
  <2>2. ~overwritten
    BY <2>1, NotOverwritten DEF FilesInv
  <2>3. Intact
    BY <2>2 DEF FilesInv, Sound, Intact
  <2>4. Intact'
    BY DEF FilesInv, Sound, Intact
  <2> QED
    BY <2>1, <2>3, <2>4, PromiseStep
<1> QED
  BY <1>1, <1>2, <1>3, FilesInit, FilesStep, PTL DEF Spec, KeptUnlessOverwritten

=============================================================================
