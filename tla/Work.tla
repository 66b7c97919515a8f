-------------------------------- MODULE Work --------------------------------
(***************************************************************************)
(* The work of one agent in its files: the goals (registry.jsonl with its  *)
(* line index, agents/persistent_goal.py) and the task queue               *)
(* (task_queue.jsonl, agents/task_queue.py), as the daemon, the API server *)
(* and the task submitter use them.                                        *)
(*                                                                         *)
(* A goal is appended and then indexed by its line number; any other       *)
(* change reads both files and rewrites the registry.  Each engine has a   *)
(* lock of its own around an operation: the server has one engine, and the *)
(* daemon makes one for each call.  The task file has no lock at all: it   *)
(* is read, changed, emptied and written again, while the submitter        *)
(* appends to it.                                                          *)
(***************************************************************************)
EXTENDS Naturals, Sequences, FiniteSets

CONSTANTS
    Tasks,        \* tasks, by the order in which they are submitted: 1..n
    DependsOn,    \* the set of tasks (one at most) that a task depends on
    Outputs,      \* tasks that name an output file
    Resembles,    \* the goals whose text contains the start of a task's text
    OtherGoals,   \* goals that the model or a request creates
    Daemon,       \* the daemon's thread that works for the agent
    Servers,      \* request threads of the API server
    MaxRequests,  \* bound: requests
    MaxCrashes    \* bound: crashes of the daemon

Ids    == Tasks \cup OtherGoals    \* the goal made for a task has its name
Actors == {Daemon} \cup Servers
None   == 0

ASSUME NamesAssumption ==
    /\ Daemon \notin Servers /\ Tasks \cap OtherGoals = {} /\ None \notin Ids
    /\ Tasks \subseteq Nat /\ IsFiniteSet(Ids)
    /\ DependsOn \in [Tasks -> SUBSET Tasks] /\ Outputs \subseteq Tasks
    /\ Resembles \in [Tasks -> SUBSET Ids] /\ MaxRequests \in Nat /\ MaxCrashes \in Nat

VARIABLES
    lines,      \* registry.jsonl: <<goal, status>> per line
    index,      \* index.json: the line of a goal, 0 if it has none
    overwritten,   \* a write went over what changed after the file was read
    op,         \* what each actor does next to the goal files
    goal, want, \* the goal it works on, and the status to set
    seenLines, seenIndex,     \* what it has read
    born,       \* goals whose creation has begun
    queue,      \* the status of each task in the task file
    old,        \* tasks assigned more than two hours ago
    turn,       \* what the daemon does next to the task file
    seenQueue,  \* what it has read of it, or is about to write
    held,       \* the goal that it has just completed, or the task it claims
    requests, crashes

files   == <<lines, index, overwritten>>
actors  == <<op, goal, want, seenLines, seenIndex, born>>
tasking == <<turn, seenQueue, held>>
bounds  == <<requests, crashes>>
vars    == <<files, actors, queue, old, tasking, bounds>>

-----------------------------------------------------------------------------
GoalStatuses == {"active", "paused", "completed", "abandoned"}
TaskStatuses == {"none", "pending", "assigned", "completed", "failed", "lost"}
Pursuits     == {"progress", "completed", "abandoned"}
Creating     == {"count", "append", "readIndex", "writeIndex"}
Writing      == {"expiring", "claiming", "completing"}
NoTasks      == [t \in Tasks |-> "none"]

Line(g, s)    == <<g, s>>
Listed        == {lines[i][1] : i \in 1..Len(lines)}
StatusOf(g)   == IF g \in Listed THEN lines[CHOOSE i \in 1..Len(lines) : lines[i][1] = g][2] ELSE "none"

\* list_active reads the registry alone; goals of tasks have the highest
\* priority, and older ones come first.
ActiveAt   == {i \in 1..Len(lines) : lines[i][2] = "active"}
Preferred  == {i \in ActiveAt : lines[i][1] \in Tasks}
Least(S)   == CHOOSE i \in S : \A j \in S : i <= j
FirstActive == lines[Least(IF Preferred = {} THEN ActiveAt ELSE Preferred)][1]

\* The lock of the server's engine; the daemon's calls share no lock.
Free(p) == p \in Servers => \A q \in Servers \ {p} : op[q] = "idle"

\* The line that a new goal gets: one more than there were at the count.
LineOf(p) == Len(seenLines[p]) + 1

\* Mutant: a task may run as soon as its predecessor is over.
Ready_Over(t, q) == \A d \in DependsOn[t] : q[d] \in {"completed", "failed"}

Ready(t, q) == \A d \in DependsOn[t] : q[d] = "completed"

Offered(t, q) == q[t] = "pending"

Claimable(q) == {t \in Tasks : Offered(t, q) /\ Ready(t, q)}

\* Mutant: an assigned task is not looked at again.
Expired_None(q) == q

\* expire_stale_tasks
Expired(q) == [t \in Tasks |-> IF q[t] = "assigned" /\ t \in old THEN "failed" ELSE q[t]]

\* The assigned tasks that count as done when the goal held was completed: the
\* output file is there (D are those whose file is) and not a template, or, for a
\* task without one, the text of the goal, if it was found, resembles the task's.
Reported(q, D, found) ==
    {t \in Tasks : q[t] = "assigned" /\ IF t \in Outputs THEN t \in D ELSE found /\ held \in Resembles[t]}

Claimed(q, t) == [q EXCEPT ![t] = "assigned"]

\* write_text empties the task file first,
Emptied == [t \in Tasks |-> IF queue[t] = "none" THEN "none" ELSE "lost"]

\* and what it then writes goes over what was appended since the file was read.
Rewritten(q) == [t \in Tasks |-> IF q[t] = "none" /\ queue[t] # "none" THEN "lost" ELSE q[t]]

Begin(p, o, g, s) ==
    /\ op[p] = "idle" /\ Free(p)
    /\ op' = [op EXCEPT ![p] = o]
    /\ goal' = [goal EXCEPT ![p] = g]
    /\ want' = [want EXCEPT ![p] = s]
    /\ born' = IF o = "count" THEN born \cup {g} ELSE born
    /\ UNCHANGED <<seenLines, seenIndex>>

Done(p) ==
    /\ op' = [op EXCEPT ![p] = "idle"]
    /\ goal' = [goal EXCEPT ![p] = None]
    /\ want' = [want EXCEPT ![p] = "active"]
    /\ seenLines' = [seenLines EXCEPT ![p] = <<>>]
    /\ seenIndex' = [seenIndex EXCEPT ![p] = [g \in Ids |-> 0]]
    /\ UNCHANGED born

-----------------------------------------------------------------------------
Init ==
    /\ lines = <<>> /\ index = [g \in Ids |-> 0] /\ overwritten = FALSE
    /\ op = [p \in Actors |-> "idle"] /\ goal = [p \in Actors |-> None]
    /\ want = [p \in Actors |-> "active"]
    /\ seenLines = [p \in Actors |-> <<>>]
    /\ seenIndex = [p \in Actors |-> [g \in Ids |-> 0]]
    /\ born = {} /\ queue = NoTasks /\ old = {}
    /\ turn = "look" /\ seenQueue = NoTasks /\ held = None
    /\ requests = 0 /\ crashes = 0

\* create(): the lines are counted, the goal is appended, the index is read
\* and written back with the goal in it.
Count(p) ==
    /\ op[p] = "count"
    /\ seenLines' = [seenLines EXCEPT ![p] = lines]
    /\ op' = [op EXCEPT ![p] = "append"]
    /\ UNCHANGED <<files, goal, want, seenIndex, born, queue, old, tasking, bounds>>

AppendLine(p) ==
    /\ op[p] = "append"
    /\ lines' = Append(lines, Line(goal[p], "active"))
    /\ overwritten' = (overwritten \/ Len(lines) # Len(seenLines[p]))
    /\ op' = [op EXCEPT ![p] = "readIndex"]
    /\ UNCHANGED <<index, goal, want, seenLines, seenIndex, born, queue, old, tasking, bounds>>

ReadIndex(p) ==
    /\ op[p] = "readIndex"
    /\ seenIndex' = [seenIndex EXCEPT ![p] = index]
    /\ op' = [op EXCEPT ![p] = "writeIndex"]
    /\ UNCHANGED <<files, goal, want, seenLines, born, queue, old, tasking, bounds>>

WriteIndex(p) ==
    /\ op[p] = "writeIndex"
    /\ index' = [seenIndex[p] EXCEPT ![goal[p]] = LineOf(p)]
    /\ overwritten' = (overwritten \/ index # seenIndex[p])
    /\ Done(p)
    /\ UNCHANGED <<lines, queue, old, tasking, bounds>>

\* update_progress, complete, abandon, pause: both files are read; a goal
\* that is not in the index is let alone, otherwise the line that the index
\* names is changed and the registry rewritten.
ReadFiles(p) ==
    /\ op[p] = "read"
    /\ IF index[goal[p]] \in 1..Len(lines)
       THEN /\ seenLines' = [seenLines EXCEPT ![p] = lines]
            /\ seenIndex' = [seenIndex EXCEPT ![p] = index]
            /\ op' = [op EXCEPT ![p] = "write"]
            /\ UNCHANGED <<goal, want, born>>
       ELSE Done(p)
    /\ UNCHANGED <<files, queue, old, tasking, bounds>>

\* Mutant: what is reported goes into the status.
NewStatus_Raw(p, s) == want[p]

NewStatus(p, s) == IF want[p] = "progress" THEN s ELSE want[p]

\* Mutant: the last line is changed.
Target_Last(p) == Len(seenLines[p])

Target(p) == seenIndex[p][goal[p]]

WriteLines(p) ==
    /\ op[p] = "write"
    /\ lines' = [seenLines[p] EXCEPT ![Target(p)] = Line(@[1], NewStatus(p, @[2]))]
    /\ overwritten' = (overwritten \/ lines # seenLines[p])
    /\ Done(p)
    /\ UNCHANGED <<index, queue, old, tasking, bounds>>

\* A request creates a goal, or reports progress or a status for one that
\* it finds by the index.
Request(p) ==
    /\ p \in Servers
    /\ requests < MaxRequests /\ requests' = requests + 1
    /\ \/ \E g \in OtherGoals \ born : Begin(p, "count", g, "active")
       \/ \E g \in Ids, s \in {"progress", "paused", "completed", "abandoned"} :
              /\ index[g] \in 1..Len(lines)
              /\ Begin(p, "read", g, s)
    /\ UNCHANGED <<files, queue, old, tasking, crashes>>

-----------------------------------------------------------------------------
Settled == op[Daemon] = "idle"
Idle == turn' = "look" /\ held' = None /\ seenQueue' = NoTasks

\* The daemon finds an active goal and pursues it: progress, or its end.
Pursue(s) ==
    /\ turn = "look" /\ Settled /\ ActiveAt # {}
    /\ Begin(Daemon, "read", FirstActive, s)
    /\ held' = IF s = "completed" THEN FirstActive ELSE None
    /\ turn' = IF s = "completed" THEN "report" ELSE "look"
    /\ UNCHANGED <<files, queue, old, seenQueue, bounds>>

\* It finds none, and looks for a task; stale ones fail first.
LookForTasks ==
    /\ turn = "look" /\ Settled /\ ActiveAt = {}
    /\ IF Expired(queue) = queue
       THEN turn' = "readTasks" /\ UNCHANGED seenQueue
       ELSE turn' = "expire" /\ seenQueue' = Expired(queue)
    /\ UNCHANGED <<files, actors, queue, old, held, bounds>>

ReadTasks ==
    /\ turn \in {"readTasks", "report"} /\ Settled
    /\ seenQueue' = queue
    /\ turn' = IF turn = "report" THEN "complete" ELSE "claim"
    /\ UNCHANGED <<files, actors, queue, old, held, bounds>>

\* The file is emptied to be written again, with the stale tasks failed,
Expire ==
    /\ turn = "expire"
    /\ queue' = Emptied /\ turn' = "expiring"
    /\ UNCHANGED <<files, actors, old, seenQueue, held, bounds>>

\* with the oldest task that may run assigned,
Claim ==
    /\ turn = "claim" /\ Claimable(seenQueue) # {}
    /\ held' = Least(Claimable(seenQueue))
    /\ seenQueue' = Claimed(seenQueue, held')
    /\ queue' = Emptied /\ turn' = "claiming"
    /\ UNCHANGED <<files, actors, old, bounds>>

\* or with the first task that is done completed, if there is one.
CompleteTask ==
    /\ turn = "complete"
    /\ \E D \in SUBSET Outputs, found \in BOOLEAN :
         LET done == Reported(seenQueue, D, found /\ held \in Listed) IN
         \/ done = {} /\ Idle /\ UNCHANGED queue
         \/ /\ done # {}
            /\ seenQueue' = [seenQueue EXCEPT ![Least(done)] = "completed"]
            /\ queue' = Emptied /\ turn' = "completing"
            /\ UNCHANGED held
    /\ UNCHANGED <<files, actors, old, bounds>>

\* The file is written.  The goal of a claimed task is created next.
WriteTasks ==
    /\ turn \in Writing
    /\ queue' = Rewritten(seenQueue)
    /\ \/ turn = "claiming" /\ Begin(Daemon, "count", held, "active") /\ Idle
       \/ turn = "completing" /\ Idle /\ UNCHANGED actors
       \/ turn = "expiring" /\ turn' = "readTasks" /\ seenQueue' = NoTasks /\ UNCHANGED <<held, actors>>
    /\ UNCHANGED <<files, old, bounds>>

\* There is no task: the model chooses a goal, if it is not refused.
Choose ==
    /\ turn = "claim" /\ Claimable(seenQueue) = {}
    /\ \/ UNCHANGED actors
       \/ \E g \in OtherGoals \ born : Begin(Daemon, "count", g, "active")
    /\ Idle
    /\ UNCHANGED <<files, queue, old, bounds>>

\* submit_task, from another process.
SubmitTask(t) ==
    /\ queue[t] = "none" /\ \A u \in Tasks : u < t => queue[u] # "none"
    /\ queue' = [queue EXCEPT ![t] = "pending"]
    /\ UNCHANGED <<files, actors, old, tasking, bounds>>

\* A task as the file says, or as the daemon is about to write.
Kept(t) == IF turn \in Writing /\ seenQueue[t] # "none" THEN seenQueue[t] ELSE queue[t]

Age(t) ==
    /\ Kept(t) = "assigned" /\ t \notin old
    /\ old' = old \cup {t}
    /\ UNCHANGED <<files, actors, queue, tasking, bounds>>

\* The daemon is killed wherever it is, also between emptying the task file and
\* writing it, and starts again.
Crash ==
    /\ crashes < MaxCrashes
    /\ crashes' = crashes + 1
    /\ Done(Daemon) /\ Idle
    /\ UNCHANGED <<files, queue, old, requests>>

GoalStep(p) == Count(p) \/ AppendLine(p) \/ ReadIndex(p) \/ WriteIndex(p) \/ ReadFiles(p) \/ WriteLines(p)
TaskStep    == LookForTasks \/ ReadTasks \/ Expire \/ Claim \/ CompleteTask \/ WriteTasks \/ Choose
DaemonStep  == GoalStep(Daemon) \/ TaskStep \/ \E s \in Pursuits : Pursue(s)
Next ==
    \/ DaemonStep \/ Crash
    \/ \E p \in Servers : GoalStep(p) \/ Request(p)
    \/ \E t \in Tasks : SubmitTask(t) \/ Age(t)

Spec == Init /\ [][Next]_vars

\* Threads go on, time passes, and no goal is pursued for ever (GoalsEnd of
\* module Daemon).
FairSpec ==
    /\ Spec
    /\ SF_vars(DaemonStep) /\ SF_vars(Pursue("completed") \/ Pursue("abandoned"))
    /\ \A p \in Servers : WF_vars(GoalStep(p))
    /\ \A t \in Tasks : WF_vars(Age(t))

-----------------------------------------------------------------------------
\* Every variable keeps its type.
TypeOK ==
    /\ Len(lines) <= Cardinality(Ids)
    /\ \A i \in 1..Len(lines) : lines[i][1] \in Ids /\ lines[i][2] \in GoalStatuses
    /\ index \in [Ids -> 0..Cardinality(Ids)]
    /\ op \in [Actors -> {"idle", "read", "write"} \cup Creating]
    /\ goal \in [Actors -> Ids \cup {None}]
    /\ want \in [Actors -> GoalStatuses \cup {"progress"}]
    /\ queue \in [Tasks -> TaskStatuses] /\ seenQueue \in [Tasks -> TaskStatuses]
    /\ old \subseteq Tasks /\ held \in Ids \cup {None} /\ born \subseteq Ids
    /\ turn \in {"look", "readTasks", "expire", "claim", "report", "complete"} \cup Writing
    /\ overwritten \in BOOLEAN /\ requests \in 0..MaxRequests /\ crashes \in 0..MaxCrashes

\* Goals that no operation reaches: the index does not name their line, and
\* their creation does not go on.
Reaches(g) == index[g] \in 1..Len(lines) /\ lines[index[g]][1] = g
Stuck == {g \in Listed : ~Reaches(g) /\ \A p \in Actors : ~(goal[p] = g /\ op[p] \in Creating)}

\* The goal files keep what the engine promises, whoever else works on them
\* and wherever the daemon is stopped, until a write goes over a change that
\* another engine made since the file was read: nothing else loses a goal or
\* leads an operation to a goal it does not name.
Store == INSTANCE GoalStore WITH status <- [g \in Ids |-> StatusOf(g)], stuck <- Stuck
KeptUnlessOverwritten ==
    Store!Init /\ [][Store!Next \/ overwritten']_<<[g \in Ids |-> StatusOf(g)], Stuck>>

\* A task never runs before the one it depends on, whatever is lost.
ChainsRunInOrder ==
    \A t \in Tasks : queue[t] \in {"assigned", "completed", "failed"} => \A d \in DependsOn[t] : queue[d] = "completed"

\* An assigned task ends, also when the daemon died with it, unless the agent
\* is held by a goal that nothing reaches.
AssignedEnds == \A t \in Tasks : Kept(t) = "assigned" ~> (Kept(t) # "assigned" \/ Stuck # {})
=============================================================================
