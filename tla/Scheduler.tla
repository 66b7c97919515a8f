----------------------------- MODULE Scheduler -----------------------------
(***************************************************************************)
(* The task scheduler (agents/scheduler.py): TaskScheduler, its priority   *)
(* queue and its worker threads, which call the model for each task.       *)
(*                                                                         *)
(* A Task is one object that everybody shares: the submitter that waits for *)
(* it, the worker that runs it, cancel() and the preemption write its      *)
(* status without a common lock.  The steps below are what a thread does   *)
(* between two calls; cancel()'s look at the status and its assignment have *)
(* no call between them and are one step.  A preempted task goes back to    *)
(* the queue while its worker is still busy with it.                       *)
(***************************************************************************)
EXTENDS Naturals, Sequences, FiniteSets, SequencesExt

CONSTANTS
    Tasks,         \* task ids (uuids, never used twice)
    Workers,       \* worker threads (_NUM_WORKERS, 4 in the code)
    Priority,      \* 0 urgent, 1 normal, 2 background
    Streaming,     \* tasks with stream_enabled
    MaxTasks,      \* tasks that _save keeps (500 in the code)
    MaxUpsets      \* bound: cancelled tasks and restarts of the server, together

Urgent     == 0
Background == 2

ASSUME TasksAssumption == /\ Priority \in [Tasks -> {Urgent, 1, Background}]
                          /\ Streaming \subseteq Tasks
ASSUME BoundsAssumption == MaxTasks \in Nat /\ MaxUpsets \in Nat
ASSUME WorkersAssumption == IsFiniteSet(Workers) /\ IsFiniteSet(Tasks)
ASSUME SomeTask == Tasks # {}

VARIABLES
    status,     \* the status of each Task, "new" before submit()
    flagged,    \* tasks whose cancelled is set
    listed,     \* _tasks, oldest first
    arriving,   \* how far submit() is with each task
    queue,      \* the tasks in the heap, in the order in which it gives them out
    running,    \* the queue's _running
    victim,     \* the task that a preemption, which has the queue's lock, has chosen
    started,    \* background tasks that have run, in the order of started_at
    pc,         \* what each worker is doing
    task,       \* the task it is doing that with
    disk,       \* the statuses in tasks.json, "open" for those that _load does not
                \* keep, "none" for a task that is not there
    sent,       \* the statuses delivered to the submitter's inbox for each task
    runs,       \* how often each task was given to the model
    preempts,   \* how often each task was preempted
    crashes     \* restarts so far

store   == <<listed, disk>>
heap    == <<queue, running, victim>>
workers == <<pc, task>>
counts  == <<sent, runs, preempts, crashes>>
vars    == <<status, flagged, store, arriving, heap, started, workers, counts>>

-----------------------------------------------------------------------------
Open     == {"queued", "running", "checkpointed"}
Final    == {"done", "failed", "cancelled"}
Statuses == {"new", "forgotten"} \cup Open \cup Final

\* submit(): the task is listed; all workers were found busy; the task may be
\* put into the queue; it has been.
Arrivals == {"none", "listed", "busy", "choosing", "ready", "put"}

\* A worker: waits in get(); has a task; is refused the model; waits for the
\* model; has the outcome; has saved it; has told the submitter.
Steps == {"idle", "got", "blocked", "calling", "ended", "saved", "told"}

AnyTask == CHOOSE t \in Tasks : TRUE

\* The queue's lock is free.
QueueFree == victim = {}

\* heappush: behind the tasks that are at least as urgent, as a smaller sequence
\* number comes first, and before the others.
Pushed(q, t) ==
    InsertAt(q, 1 + Cardinality({i \in DOMAIN q : Priority[q[i]] <= Priority[t]}), t)

\* Mutant: nothing is evicted.
Kept_All(l) == l

\* The last MaxTasks of l: _save evicts the oldest tasks, whatever their status.
Kept(l) == IF Len(l) <= MaxTasks THEN l ELSE SubSeq(l, Len(l) - MaxTasks + 1, Len(l))

\* A status as tasks.json holds it.
OnDisk(s) == IF s \in Open THEN "open" ELSE s

\* _save() with tasks l whose statuses are s.
SaveTasks(l, s) ==
    /\ listed' = Kept(l)
    /\ disk' = [t \in Tasks |-> IF t \in Range(Kept(l)) THEN OnDisk(s[t]) ELSE "none"]

\* The running background tasks, from which the preemption takes the oldest.
Candidates == {t \in running : Priority[t] = Background /\ status[t] = "running"}

Oldest(v) == \E i \in DOMAIN started :
                /\ started[i] = v
                /\ \A j \in 1..(i - 1) : started[j] \notin Candidates

\* started_at of t is set anew: t is the youngest of the tasks that have run.
StartedNow(t) ==
    IF t \in Range(started)
    THEN Append(RemoveAt(started, CHOOSE i \in DOMAIN started : started[i] = t), t)
    ELSE Append(started, t)

-----------------------------------------------------------------------------
Init ==
    /\ status = [t \in Tasks |-> "new"]
    /\ flagged = {}
    /\ listed = <<>>
    /\ arriving = [t \in Tasks |-> "none"]
    /\ queue = <<>>
    /\ running = {}
    /\ victim = {}
    /\ started = <<>>
    /\ pc = [w \in Workers |-> "idle"]
    /\ task = [w \in Workers |-> AnyTask]
    /\ disk = [t \in Tasks |-> "none"]
    /\ sent = [t \in Tasks |-> <<>>]
    /\ runs = [t \in Tasks |-> 0]
    /\ preempts = [t \in Tasks |-> 0]
    /\ crashes = 0

-----------------------------------------------------------------------------
\* submit(), under the scheduler's lock: the task is listed and saved.
Submit(t) ==
    /\ arriving[t] = "none"
    /\ status[t] = "new"
    /\ status' = [status EXCEPT ![t] = "queued"]
    /\ SaveTasks(Append(listed, t), status')
    /\ arriving' = [arriving EXCEPT ![t] = "listed"]
    /\ UNCHANGED <<flagged, heap, started, workers, counts>>

\* submit() of an urgent task: are all workers busy (running_count)?
CountRunning(t) ==
    /\ arriving[t] = "listed"
    /\ Priority[t] = Urgent
    /\ QueueFree
    /\ arriving' = [arriving EXCEPT ![t] =
                       IF Cardinality(running) >= Cardinality(Workers) THEN "busy" ELSE "ready"]
    /\ UNCHANGED <<status, flagged, store, heap, started, workers, counts>>

\* checkpoint_oldest_background(): there is nothing to preempt, or the victim is
\* chosen.  The lock is held, but a worker needs no lock to change the status.
ChooseVictim(t) ==
    /\ arriving[t] = "busy"
    /\ QueueFree
    /\ \/ /\ Candidates = {}
          /\ arriving' = [arriving EXCEPT ![t] = "ready"]
          /\ UNCHANGED victim
       \/ \E v \in Candidates :
             /\ Oldest(v)
             /\ arriving' = [arriving EXCEPT ![t] = "choosing"]
             /\ victim' = {v}
    /\ UNCHANGED <<status, flagged, store, queue, running, started, workers, counts>>

\* Mutant: the victim stays among the running tasks.
Unmark_Not(v) == running

Unmark(v) == running \ {v}

\* Mutant: the victim is not put back.
Requeued_Not(v) == queue

Requeued(v) == Pushed(queue, v)

\* checkpoint_oldest_background(): the victim goes back to the queue.
Preempt(t, v) ==
    /\ arriving[t] = "choosing"
    /\ v \in victim
    /\ status' = [status EXCEPT ![v] = "checkpointed"]
    /\ running' = Unmark(v)
    /\ queue' = Requeued(v)
    /\ victim' = {}
    /\ preempts' = [preempts EXCEPT ![v] = @ + 1]
    /\ arriving' = [arriving EXCEPT ![t] = "ready"]
    /\ UNCHANGED <<flagged, store, started, workers, sent, runs, crashes>>

\* submit(): the task enters the queue.
Put(t) ==
    /\ \/ arriving[t] = "ready"
       \/ arriving[t] = "listed" /\ Priority[t] # Urgent
    /\ QueueFree
    /\ queue' = Pushed(queue, t)
    /\ arriving' = [arriving EXCEPT ![t] = "put"]
    /\ UNCHANGED <<status, flagged, store, running, victim, started, workers, counts>>

-----------------------------------------------------------------------------
\* Mutant: the first entry is read and stays in the heap.
Popped_Not == queue

Popped == Tail(queue)

\* _worker_loop(): the worker takes the first task; it does not look whether
\* that task was cancelled, or is finished.
Take(w) ==
    LET t == Head(queue) IN
    /\ pc[w] = "idle"
    /\ queue # <<>>
    /\ QueueFree
    /\ queue' = Popped
    /\ running' = running \cup {t}
    /\ status' = IF status[t] = "checkpointed" THEN [status EXCEPT ![t] = "queued"] ELSE status
    /\ pc' = [pc EXCEPT ![w] = "got"]
    /\ task' = [task EXCEPT ![w] = t]
    /\ UNCHANGED <<flagged, store, arriving, victim, started, counts>>

\* Worker w goes on to step s, and its task gets status st.
Goes(w, s, st) ==
    /\ pc' = [pc EXCEPT ![w] = s]
    /\ status' = [status EXCEPT ![task[w]] = st]

\* The model policy of the submitting agent forbids the model.
Block(w) ==
    /\ pc[w] = "got"
    /\ Goes(w, "blocked", "failed")
    /\ UNCHANGED <<flagged, store, arriving, heap, started, task, counts>>

\* The model is called.
Start(w) ==
    /\ pc[w] = "got"
    /\ Goes(w, "calling", "running")
    /\ started' = IF Priority[task[w]] = Background THEN StartedNow(task[w]) ELSE started
    /\ runs' = [runs EXCEPT ![task[w]] = @ + 1]
    /\ UNCHANGED <<flagged, store, arriving, heap, task, sent, preempts, crashes>>

\* _run_task: the answer.  A cancelled task is done like any other.
Answer(w) ==
    /\ pc[w] = "calling"
    /\ task[w] \notin Streaming
    /\ Goes(w, "ended", "done")
    /\ UNCHANGED <<flagged, store, arriving, heap, started, task, counts>>

StreamOutcome(t) == IF t \in flagged THEN "cancelled" ELSE "done"

\* _run_task_streaming: the last chunk.
LastChunk(w) ==
    /\ pc[w] = "calling"
    /\ task[w] \in Streaming
    /\ Goes(w, "ended", StreamOutcome(task[w]))
    /\ UNCHANGED <<flagged, store, arriving, heap, started, task, counts>>

\* _run_task_streaming: the stream breaks off, because the task was cancelled or
\* the connection ended; a status that is not "running" any more is kept.
BreakOff(w) ==
    /\ pc[w] = "calling"
    /\ task[w] \in Streaming
    /\ Goes(w, "ended", IF status[task[w]] = "running" THEN StreamOutcome(task[w])
                                                       ELSE status[task[w]])
    /\ UNCHANGED <<flagged, store, arriving, heap, started, task, counts>>

\* The call fails or times out; or, after the answer, the bookkeeping raises
\* (update_usage, mark_used) and turns "done" into "failed".
Fail(w) ==
    /\ \/ pc[w] = "calling"
       \/ pc[w] = "ended" /\ status[task[w]] = "done"
    /\ Goes(w, "ended", "failed")
    /\ UNCHANGED <<flagged, store, arriving, heap, started, task, counts>>

\* The outcome is saved, under the scheduler's lock, with all the tasks as they
\* are now.  A task refused by the policy is finished then: nobody is told.
SaveOutcome(w) ==
    /\ pc[w] \in {"ended", "blocked"}
    /\ SaveTasks(listed, status)
    /\ pc' = [pc EXCEPT ![w] = IF pc[w] = "ended" THEN "saved" ELSE "told"]
    /\ UNCHANGED <<status, flagged, arriving, heap, started, task, counts>>

MayTell(w) == pc[w] = "saved"

\* The submitter is told what the status is now.
Tell(w) ==
    /\ MayTell(w)
    /\ sent' = [sent EXCEPT ![task[w]] = Append(@, status[task[w]])]
    /\ pc' = [pc EXCEPT ![w] = "told"]
    /\ UNCHANGED <<status, flagged, store, arriving, heap, started, task, runs, preempts, crashes>>

\* mark_done(): the task leaves _running, also when another worker runs it again.
MarkDone(w) ==
    /\ pc[w] = "told"
    /\ QueueFree
    /\ running' = running \ {task[w]}
    /\ pc' = [pc EXCEPT ![w] = "idle"]
    /\ task' = [task EXCEPT ![w] = AnyTask]
    /\ UNCHANGED <<status, flagged, store, arriving, queue, victim, started, counts>>

-----------------------------------------------------------------------------
\* cancel() of a task that waits: it gets its status, and stays in the queue.
CancelWaiting(t) ==
    /\ t \in Range(listed)
    /\ status[t] \in {"queued", "checkpointed"}
    /\ Cardinality(flagged \cup {t}) + crashes <= MaxUpsets
    /\ status' = [status EXCEPT ![t] = "cancelled"]
    /\ flagged' = flagged \cup {t}
    /\ SaveTasks(listed, status')
    /\ UNCHANGED <<arriving, heap, started, workers, sent, runs, preempts, crashes>>

\* cancel() of a running task.
CancelRunning(t) ==
    /\ t \in Range(listed)
    /\ status[t] = "running"
    /\ t \notin flagged
    /\ Cardinality(flagged) + crashes < MaxUpsets
    /\ flagged' = flagged \cup {t}
    /\ UNCHANGED <<status, store, arriving, heap, started, workers, counts>>

\* Mutant: a task that was not finished comes back as it was.
Reloaded_Open(s) == IF s = "open" THEN "queued" ELSE s

\* A task that was not finished cannot finish: its thread is gone (_load).
Reloaded(s) == IF s = "open" THEN "failed" ELSE s

\* The server stops and starts again.  When it stopped inside _save, tasks.json
\* cannot be parsed and every task is gone.
Restart ==
    /\ Cardinality(flagged) + crashes < MaxUpsets
    /\ crashes' = crashes + 1
    /\ \E torn \in BOOLEAN :
          LET onDisk == {t \in Tasks : disk[t] # "none" /\ ~torn}
          IN  /\ listed' = IF torn THEN <<>> ELSE listed
              /\ disk' = [t \in Tasks |-> IF t \in onDisk THEN disk[t] ELSE "none"]
              /\ status' = [t \in Tasks |-> IF t \in onDisk THEN Reloaded(disk[t])
                                            ELSE IF status[t] = "new" THEN "new"
                                            ELSE "forgotten"]
              /\ flagged' = flagged \cap onDisk
    /\ arriving' = [t \in Tasks |-> "none"]
    /\ queue' = <<>>
    /\ running' = {}
    /\ victim' = {}
    /\ started' = <<>>
    /\ pc' = [w \in Workers |-> "idle"]
    /\ task' = [w \in Workers |-> AnyTask]
    /\ UNCHANGED <<sent, runs, preempts>>

-----------------------------------------------------------------------------
Submitting(t) == \/ CountRunning(t) \/ ChooseVictim(t) \/ Put(t)
                 \/ \E v \in victim : Preempt(t, v)

Outcome(w) == Answer(w) \/ LastChunk(w) \/ BreakOff(w) \/ Fail(w)

Working(w) == \/ Block(w) \/ Start(w) \/ Outcome(w)
              \/ SaveOutcome(w) \/ Tell(w) \/ MarkDone(w)

Next ==
    \/ \E t \in Tasks : Submit(t)
    \/ \E t \in Tasks : Submitting(t)
    \/ \E w \in Workers : Take(w)
    \/ \E w \in Workers : Working(w)
    \/ \E t \in Tasks : CancelWaiting(t)
    \/ \E t \in Tasks : CancelRunning(t)
    \/ Restart

Spec == Init /\ [][Next]_vars

\* Threads inside submit() and workers go on: every call to the model has a
\* timeout.  Nobody has to submit or cancel anything.
Fairness == /\ \A t \in Tasks : WF_vars(Submitting(t))
            /\ \A w \in Workers : WF_vars(Take(w)) /\ WF_vars(Working(w))

FairSpec == Spec /\ Fairness

-----------------------------------------------------------------------------
\* Every variable has its type, and the queue's lock is held by one preemption
\* at most.
TypeOK ==
    /\ status \in [Tasks -> Statuses]
    /\ flagged \subseteq Tasks
    /\ listed \in Seq(Tasks)
    /\ Len(listed) <= MaxTasks
    /\ arriving \in [Tasks -> Arrivals]
    /\ queue \in Seq(Tasks)
    /\ running \subseteq Tasks
    /\ victim \subseteq Tasks
    /\ Cardinality(victim) <= 1
    /\ started \in Seq(Tasks)
    /\ pc \in [Workers -> Steps]
    /\ task \in [Workers -> Tasks]
    /\ disk \in [Tasks -> Final \cup {"open", "none"}]
    /\ sent \in [Tasks -> Seq(Statuses)]
    /\ runs \in [Tasks -> Nat]
    /\ preempts \in [Tasks -> Nat]
    /\ crashes \in 0..MaxUpsets

Holds(w, t) == pc[w] # "idle" /\ task[w] = t

\* The queue's books agree: no task is in the heap twice, none is in the heap and
\* counted as running, and every task counted as running is held by a worker, so
\* running_count never says more than there are busy workers, whatever
\* preemption puts back and whichever of two workers finishes it first.
BooksAgree ==
    /\ \A i, j \in DOMAIN queue : queue[i] = queue[j] => i = j
    /\ running \cap Range(queue) = {}
    /\ \A t \in running : \E w \in Workers : Holds(w, t)

\* No task is lost: one that says it waits is on its way into the queue, or in
\* it, or in the hands of a worker that is about to run it.
NoTaskIsLost ==
    \A t \in Tasks :
        status[t] \in {"queued", "checkpointed"} =>
            \/ arriving[t] \in {"listed", "busy", "choosing", "ready"}
            \/ t \in Range(queue)
            \/ \E w \in Workers : Holds(w, t) /\ pc[w] = "got"

\* A task is given to the model once, and once more for each preemption: no
\* worker runs what another has taken from the queue.
RunsAreAccounted ==
    \A t \in Tasks : runs[t] <= 1 + preempts[t]

\* What the submitter was told stays true and survives every restart, for a task
\* that was never preempted: it was saved before it was told, and told once,
\* also when cancel() came in between.
ToldIsDurable ==
    \A t \in Tasks :
        sent[t] # <<>> /\ preempts[t] = 0 =>
            \E s \in Final : /\ sent[t] = <<s>>
                             /\ status[t] \in {s, "forgotten"}
                             /\ disk[t] \in {s, "none"}

\* Every task ends for good: it is not left waiting behind workers that are
\* preempted, it does not run for ever, and a restart ends it too; and it ends as
\* its submitter was told.
EveryTaskEnds ==
    /\ []ToldIsDurable
    /\ <>[](\A t \in Tasks : status[t] \in Final \cup {"new", "forgotten"})
=============================================================================
