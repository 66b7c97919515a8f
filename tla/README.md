# A TLA+ model of AgentOS

AgentOS (hollow-agentOS) is an operating system for LLM agents. This directory
holds TLA+ modules that model its subsystems, TLC configurations that check them
on small instances, and theorems that TLAPS proves about them for every instance.

Contents: [the system](#the-system) · [the modules](#the-modules) ·
[the runs](#the-runs) · [bounds](#bounds) · [fairness](#fairness) ·
[proofs](#proofs) · [what is not shown](#what-is-not-shown) ·
[plan](#plan) · [how to run](#how-to-run)

## The system

One API server process (FastAPI, `src/api/server.py`, routes in
`src/api/agent_routes.py`) keeps the shared state; a daemon process
(`src/agents/daemon.py`) runs one cycle after another of each agent's goal loop
(`src/agents/autonomy_loop.py`) and calls the server; a control panel (`src/panel.py`)
and `submit_task.py` are processes of their own that write to the same files. Every subsystem is an object
that keeps its state in dictionaries under one `threading.Lock`, or in files that
it reads each time, writes JSON to disk, and is called from the threads of the
server's pool, from background threads of its own, and from other subsystems.

What makes this hard is the same everywhere: a request takes and releases a lock
several times and acts on what it saw before; timers act in between; events and
messages go out after the lock is released; and the server may stop between any
two of these steps, also in the middle of writing a file.

### Inventory

| component | state | operations | who calls it, whom it calls | hard behaviour | what makes it correct | module |
|---|---|---|---|---|---|---|
| transaction coordinator, `agents/transaction.py` | records with their buffered operations, last writer of each resource, a file with the last 200 records | begin, stage, commit, rollback, status, watchdog every 5 s, load | routes and the goal loop; file system, heap, message bus, event bus | commit in five locked sections with the application between them | isolation, all-or-nothing, no lost update, an end for every transaction | **Transaction** |
| consensus manager, `agents/consensus.py` | one file for each proposal, no copy in memory | propose, vote, withdraw, reaper every 10 s, get, list | routes; event bus, message bus | reaper scans without the lock; files emptied before they are written | one decision, by its quorum, announced after it is durable; nobody waits for ever | **Consensus**, **Ballot** |
| task scheduler, `agents/scheduler.py` | tasks, priority queue, running tasks, a file with the last 500 | submit, workers, preemption, cancel, load; spawn_agent | routes; Ollama, registry, bus, model manager | one Task object shared by worker, submitter, cancel and preemption without a common lock | no task lost or run without cause; outcomes told once and durable; all tasks end | **Scheduler** |
| registry and signals, `agents/registry.py`, `signals.py` | agents, token index, named locks, tombstones, one file | register, authenticate, suspend, resume, terminate, groups, SIGTERM with a grace period, SIGPAUSE, load | routes, scheduler | parent looked up outside the lock; tombstone before, events after it; a watchdog that a restart forgets | the agents stay a tree, no orphans, an active agent can authenticate, a signalled one ends | **Registry** |
| daemon, `agents/daemon.py` | stall metrics in memory, the set of agents set aside, a file with the host's message | the main loop: look, cap goals, set aside, run workers, collect, release; the watchdog that kills the process | goal loop, goals, task queue | a pool left behind by a timeout; three records that set an agent aside, one of which a release resets | an agent set aside comes back; no goal holds an agent for ever | **Daemon** |
| persistent goals, `agents/persistent_goal.py`, and task queue, `agents/task_queue.py` | for each agent a JSONL file of goals with an index of line numbers; one JSONL file of tasks | create, progress, complete, abandon, pause; submit, claim, complete, expire | daemon, routes, `submit_task.py` (another process) | two files without a common write; an engine, and so a lock, for each process and in the daemon for each call; the queue is read, changed, emptied and written without any | an operation reaches the goal it names until writes overlap; a task is worked on after its predecessor, and ends | **Work**, **GoalStore** |
| goal loop, `agents/autonomy_loop.py` | what a cycle has done; progress, flags and strikes in the goal's file; broken tools | cycle: begin, steps, commit, validate, strikes; failures set capabilities aside | goals, transactions, execution engine, model; requests set metrics and statuses | progress is kept and writes are taken back; metrics are read, kept for minutes and written back whole, beside requests and a cycle that the daemon has left behind | nothing lands before full progress, each validation is earned, goals end | **Pursuit** |
| proposals, `agents/proposals.py`; tools that agents write, `agents/live_capabilities.py`, and their sweep and loading in the daemon | proposals with votes; a directory of implementations and specifications | submit, stage, approve, reject, apply; write, test, retire, blacklist; sweep, load | routes, workers of the daemon | approve in four sections and a look without the lock; records emptied before they are written; files of a pair written one by one by several writers | only warranted changes are made; what is listed has an implementation, what is broken goes | **Evolution** |
| suffering, `agents/suffering.py` | for each agent a file of stressors with severities | add, resolve, bump, clear, escalate, assess; answers of the model, weather, good days; the panel's clear, scale, add | daemon; the panel | six writers with rules of their own on a list of at most five, one of them in another process and beside a copy that the cycle holds | stagnation is neither hidden nor talked away; what is invented fades | **Suffering** |
| execution engine, `agents/execution_engine.py` | capabilities, enabled flags | register, enable, execute | goal loop, daemon | a timeout that waits for what it timed out | | in part in **Pursuit**, **Evolution** |
| routes, `api/server.py`, `api/agent_routes.py`, `api/goal_routes.py` | none of their own | one call of a component each | everything | guards that are checked before the call | | where they add a guard or a change |
| quorum, `agents/agent_quorum.py`, `capability_quorum.py` | proposals and votes in a JSONL file | propose, vote, finalize, withdraw | self-modification | decisions from votes read earlier | | not modelled |
| event bus and message bus, `agents/events.py`, `bus.py` | subscriptions; inboxes | subscribe, emit; send, receive | everything | one object in many inboxes | | not modelled |
| checkpoints, heap, rate limits, model manager | snapshots; objects; token buckets; loaded models | save, restore; alloc, compress, swap; check; pin, evict | routes, scheduler | sequences of single calls | | not modelled |

The rest of the repository (code generation, append-only stores, distributed
modules that only their tests call, prompts and scores, user interfaces,
installation, demos) is listed in PROJECT.json with the reason for each.

## The modules

| module | models |
|---|---|
| `Transaction` | the coordinator and `POST /fs/write`, which writes outside any transaction |
| `Ballot` | abstract: one decision, once, in favour only by a quorum of different voters |
| `Consensus` | the consensus manager, which implements one `Ballot` for each proposal |
| `Scheduler` | the task scheduler: submit, queue, workers, preemption, cancel, file |
| `Registry` | the tree of agents, their tokens, termination, signals with their watchdogs |
| `Daemon` | the main loop, its metrics and its pool; the existence loop as a source of goals |
| `GoalStore` | abstract: goals are kept, and an operation changes the one it names |
| `Work` | the files of goals and tasks, under the daemon, requests and the submitter; implements `GoalStore` |
| `Pursuit` | cycles over goals, with transaction, tools, validation and strikes |
| `Evolution` | proposals, the tools agents write, the sweep and the loading of their directory |
| `Suffering` | the stressors of one agent, and what the daemon does to them |
| `TransactionProofs`, `ConsensusProofs`, `SchedulerProofs`, `RegistryProofs`, `WorkProofs`, `PursuitProofs`, `EvolutionProofs`, `SufferingProofs` | theorems about the module of that name; `PursuitProofs` also about `Daemon` |
| `MC...` | values of the constants for TLC |

The modules compose by what they assume of each other. `Daemon` takes a pursuit as one
action with the outcomes that `Pursuit` has; `Pursuit` contains the one transaction
of each cycle (begin, stage, commit, rollback, watchdog) as `Transaction` shows it
to an agent that waits; `Work` lets a pursuit end, which is `GoalsEnd` of
`Daemon` and `Pursuit`; `Suffering` sees goals complete and fail.

In all of them one action is what a thread does without giving others a chance
that matters: a section under a lock, or the step between two calls that take
time. Time itself is a set (`expired`, `old`) that something may join at any
moment, or a bounded age. `Restart`, `Crash` and `Kill` are a stop of the process
anywhere and a new start: what was in memory is gone, what was on disk is read by
the component's load.

### Transaction

A thread that runs `commit()` passes through the sections of the code in
`pc`: `CommitCheck` (status, timeout, conflict; lock released), `ReadOps` (the
copy of the operations), then for each operation `ApplyOp` and `RecordWrite` (the
last writer of the resource is recorded under the lock after the write), or
`ApplyFails` and one `UndoOp` for each operation applied, then `Finish`.
`CommitTooLate` and `CommitConflict` are the two early returns of the first
section. `Stage`, `ExplicitRollback`, `Watchdog` are single sections.
`created_at` and `last_write_time` are only compared with each other, so a moment
is the length of `journal`, the sequence of writes recorded. Files hold who wrote
them last (or that they are absent, or truncated); heap entries and messages are
kept for each transaction.

The goal loop waits for `commit()` before it does anything else with a transaction
(`autonomy_loop.py:1012-1037`); the coordinator does not enforce that. `Sequential`
says which of the two worlds a run is in. It is about each agent alone: commits of
different agents, and of two transactions of one agent, overlap in both.

What the check for conflicts can see is what the coordinator knows at that moment: of
each resource the last write that was *recorded*. `checked` (history) is the length
of `journal` at that moment, and `Unseen` says which writes of others lie outside:
those recorded after it, and those hidden behind a later one of the own agent.

### Consensus and Ballot

There is no copy of a proposal in memory: every request parses its file.
`write_text` empties the file first, so a save is two steps, and until the second
(`Save`) others find "no such proposal"; a `Restart` in between leaves the file
unreadable for ever (`lost`). `Propose`, `Vote`, `VoteTooLate`, `Withdraw` are what
happens under the lock (propose saves without it); `Emit` sends one of the events
the thread has noted for after the lock. The reaper is three actions: `Find`
(scan without lock), `Expire` (lock taken, the file read again, still pending) and
`SkipFound`. A participant list is a sequence because it may name an agent twice.

### Scheduler

A `Task` is one object shared by everyone. `submit()` is `Submit` (listed and
saved), and for an urgent task `CountRunning`, `ChooseVictim` and `Preempt`, then
`Put`; the choice of a victim and its preemption are two steps because the victim's
worker writes the status without the queue's lock. A worker goes through `Take`,
`Block` (model policy) or `Start`, one of `Answer`, `LastChunk`, `BreakOff`, `Fail`,
then `SaveOutcome`, `Tell`, `MarkDone`. `queue` is the heap as the sequence in
which it gives out its tasks. `cancel()` is `CancelWaiting` or `CancelRunning`.
`Restart` makes failed what is not finished on disk, and forgets everything if the
file was half written.

### Registry

`status`, `parent`, `depth` and `tokens` are the table and the index of tokens; each locked
section writes the file, so the disk is what memory was after the last one. A
request that registers is `LookUpParent` and `Register`; a termination is, in
the thread that makes it, `RecordTombstone`, `End` (which hands the children to
root), `Announce`. `Signal` checks and `Arm` starts the watchdog of SIGTERM, which is a
thread named after its agent; `Fire` is the end of its grace period. `TerminateGroup`
suspends or ends the members one after the other. `Restart` ensures the core agents
and indexes the tokens of active agents only; `asleep` remembers who was not.

### Daemon

`phase` walks through one turn: `Begin`, `LookAt`/`LookPast` for each agent,
`SetAside` and `Submit`, then outcomes are collected in any order, or the cycle
times out and the workers go on as strays; `Wrap` releases agents that cooled off.
Of an agent's goals the loop tells apart their number and whether the tracked one
is the first, so `count` and `track` are enough. `AssignIdle` is the existence
loop, which may be refused by its grounding checks.

### Work and GoalStore

Each operation on goals is split where the code reads or writes a file: `Count`,
`AppendLine`, `ReadIndex`, `WriteIndex` for a creation, `ReadFiles`, `WriteLines` for any
other. The server has one engine, whose lock covers an operation (`Free`); the daemon
makes an engine at each use (`daemon.py:549, 1107, 2376, 2404, 2443`), so its
operations run beside those of the server without a lock in common. `overwritten` (history)
notes when a write goes over a change made since the file was read. `Stuck` are the
goals whose line the index does not name.

The queue is read (`ReadTasks`), emptied (`Expire`, `Claim`, `CompleteTask`) and written
(`WriteTasks`) without a lock, while `SubmitTask` appends: what is appended after the
read is written over, and a `Crash` between emptying and writing leaves tasks `lost`.
When a goal was completed, the first assigned task in `Reported` counts as done: one
whose output file is there (any may be), or, for a task without one, one whose
text is found in the goal's (`Resembles`, given by the run). That may be another task's
end, or none. `turn` is what the daemon does next, so a `Crash` may come between the
claim of a task and its goal.

`GoalStore` promises that a goal is kept and that an operation changes the one it names.
The code keeps that promise only until writes overlap, so the property is the
promise with that one way out: `KeptUnlessOverwritten`.

### Pursuit

A cycle is `BeginCycle`, then steps: `Skip`, or `StartStep`, which takes the goal that is first
by then and reads its metrics, and one of `Succeed`, `Fail`, `GiveUp`, which writes them
back whole, and `Check`, which reads again; at full progress `Commit`, then `Accept` or
`Reject`, which again write metrics read before; in the end `Finish`. Between reading and
writing lie calls of the model, so anything may come in between: another cycle, which
the daemon starts beside one it has given up (`LeaveBehind`), and requests, which set any
metrics or status without looking (`Patch`; `CreateGoal`). Progress is a number with the
increments of the code; a plan is the model's, so any capability may come next.
`staged` and `onDisk` say which goals' writes are held back or done. History: `earned`,
`lost`, and `disturbed`, the goals that a request has changed or whose metrics were
outdated when a cycle wrote them back.

### Evolution

`approve()` is `Vote`, `Review`, `Look`, `StageInCall`, `Claim`, `Apply` or
`ApplyFails` and `Revert`, each a locked section or a write. A save empties the record
before it writes it (`Saving`): a look without the lock may find it empty and the call
raises (`Blind`), and a stop of the server in the middle leaves it unreadable
for good. A tool is two files (`onDisk`, `listed`), written one after the other by workers
(`Synthesize`, `WriteSpec`, `Test`) and removed one after the other (`Retire`, `Unlist`),
by the blacklist and by the daemon's `RetireBroken` and `Sweep`; an approved proposal writes
the specification only. `Hotload` changes nothing: `_hotload_dynamic_tools` calls
`ast.iter_child_nodes` (`daemon.py:197`) where only `_ast` is bound (`:157`), so every file ends in
a `NameError` that is swallowed (`:314`). That is why a plan that names a written tool
meets one the engine lacks (`Blacklist`), and why no property speaks of calling one.

### Suffering

The file is one function, `sev`, from the active types to their severities, and `held` is
the copy that a cycle works on; what can be done to them are operators (`Add`,
`Resolve`, `Bump`, `EscalateAll`, ...). One cycle of the daemon is stepwise, in the order of
the code, and each step that changes the copy saves it whole: `Escalate` (which loads);
`Observe`, once for each condition that is looked at (`Expiry` marks the place where mild
threats are dropped); `Measure`, which sets or ends stagnation; `HearHost`; then the
model's answer, any types up to `TalkLimit` of each, `AnswerAdds` before `AnswerResolves`;
`EndCycle`. Where the list is full and several are mildest, `Room` gives each possible
list. `done` and `failed` are what the code counts in the last goals of the daemon's run.
`Panel` is the host at the control panel, in a process of its own: it clears or scales
the file, adds to it past the limit, or gives a good day, at any moment; a running
cycle does not see that, and its next save undoes it. `Kill` comes between any two saves,
`KillInBump` between the two of `Measure`; `KillInSave` empties the file, which then
counts as no suffering. History: `due`, what was measured last, less the relief of
good days; `meddled`, whether the panel has written since a cycle last began.

## The runs

| run | instance | shows |
|---|---|---|
| `txn_serial` | two agents with a transaction each, of two operations and of one, on one file; two request threads, so both may commit at once; each agent waits for its own; one write outside, one restart, one record kept on disk | types; a failed commit leaves none of its files; what is applied is what was staged, in order, each once, and all of it if committed; an update is lost only where the check for conflicts cannot see it |
| `txn_race` | one transaction, two request threads that may commit, stage and roll it back at once, one write outside, one restart | staged writes are invisible; a dropped transaction leaves no trace; every open one ends |
| `cons_votes` | three agents, lists of one to three that may repeat a name, 0, 2 or 4 votes asked for, two requests at once, the reaper, a restart anywhere | types and the clamped quorum; a proposal is given up exactly when it cannot be carried, up to the names its list repeats; each is a `Ballot`; each ends, is told, and what is told is durable |
| `sched_tasks` | an urgent, a normal and a streaming background task, two workers, two tasks kept, one cancellation or restart | types; the queue's books agree; no task lost; runs accounted for; every task ends as it was told |
| `registry` | root, a core agent and another, one request thread and the watchdogs, one restart | types; depths descend; orphans are adopted; active agents authenticate; SIGTERM ends its agent |
| `daemon` | two agents with up to two goals, a release of one of them, one event of any kind | types; an agent set aside returns, and goals end, unless again and again more agents are set aside than a release puts back |
| `daemon_released` (violation) | the same, releases of both, without events | `ReleasedRun` fails: a released agent is set aside again before it may pursue anything |
| `work` | a chain of two tasks, one of them with an output file, another goal that reads like the first task, the daemon with an engine for each call, a request thread of the server, one request, one crash | types; a task never precedes what it depends on; the goal files implement `GoalStore` until writes overlap; a claimed task ends |
| `pursuit` | two goals, two cycles of which one may be left behind, a write and a tool, one fault of any kind, among them a request that sets metrics or a status | types; what nobody has disturbed passes the gate only when it was earned; nothing lands before full progress; goals end |
| `pursuit_partial` (violation) | one goal, the increments of the code, no fault | `WholeOrNothing` fails: a goal of two cycles is completed without the writes of its first |
| `evolution` | one proposal, two approvers, one tool, two workers, two faults: restarts of either process, failing applications | types; only warranted changes are applied; approved means applied; a tool listed without an implementation, or broken, does not stay |
| `suffering` | four types of which three fit, two goals looked at, one write of the panel | types; stagnation ends by a completion only, unless the host ends it, and is always seen; invented stressors fade |

The violation runs each check what a comment or the documentation says; PROJECT.json
quotes the line under "findings". Each property of the other runs has a mutant,
a variant of one definition with a plausible mistake, under which it fails; they
are the definitions marked "Mutant" before the one they replace.

### What the code does not do

Met while modelling; no run shows these.

Transactions:

- `commit()` sets the status at the end without looking again (`transaction.py:228`), so a
  rollback in between is overwritten by committed; the status stays open while
  operations are applied (`:154`), so two commits apply them twice. The
  second does not happen to a transaction whose agent waits for its commit; the first
  does, when the watchdog finds it too old meanwhile.
- The check of conflicts and the recording of writes are apart (`:163`, `:214`), so commits
  of two agents that overlap overwrite each other without a conflict, also when each
  agent waits for its own; so does a commit after a newer write of its own agent, which
  hides an older one of another (`:168`). `src/README.md:494` says that transactions make it a conflict.
  `LostOnlyUnseen` says that nothing else is lost.
- The undo after a failing operation deletes a file even if it existed before, and
  leaves heap entries and messages (`:323`), where `:146` says "all-or-nothing".
- `transaction.py:18` and `src/README.md:496` speak of 60 seconds, the code of 600 (`:35`).
- Heap keys of two agents count as one resource; a heap write outside transactions
  conflicts with nothing; only the last writer is kept (`:168`); `stage()` is accepted
  while `commit()` runs (`:129`) and what it stages is dropped; a restart in the middle
  of a commit leaves its effects under a record that says rolled_back (`:355`).

Consensus:

- A list that names an agent twice awaits it twice (`consensus.py:205`), so a proposal that
  cannot be carried stays open until its timeout. A vote that comes too late ends
  the proposal before the reaper and emits no event (`:189`). A number of votes
  above the length of the list is clamped (`:118`).

Scheduler:

- Preemption changes a status and frees no worker (`scheduler.py:183`, against `:130`), so
  the task is run twice at once; `cancel()` leaves a waiting task in the heap, which
  is run all the same (`:775`, against `:766`); running_count counts tasks, not busy
  workers (`:346`).
- `depends_on` is never waited for; the oldest tasks are dropped beyond `MAX_TASKS` even
  while they wait (`:886`); an exception before the try block ends a worker for good (`:413`).

Registry:

- A child registered after its parent ended stays under it (`registry.py:225`); an agent
  suspended at a restart cannot authenticate when it is resumed (`:551`); a restart
  forgets the watchdogs of SIGTERM; a named lock ends by its time while its holder
  works, and outlives a holder that is terminated (`:476`).

Daemon, goals and tasks:

- A release puts back `list(set)[:2]` of the core agents, who are three (`daemon.py:2560`,
  `:325`): while all three are set aside again and again, the same one may be passed
  over for ever, with its goal. `Crowded` is that case, and the one exception of
  `SkippedReturn` and `GoalsEnd`.
- The comment of the existence loop says that every cycle commits a goal
  (`daemon.py:1859`), and the grounding checks return without one (`:2035-2117`).
- "Tracked indefinitely until completed or abandoned" (`persistent_goal.py:128`): goals of
  two engines (one in the server, one for each call in the daemon) are not protected
  from each other. A goal appended between another engine's read and rewrite is lost, and
  a line number counted before another's append makes the index name a wrong line.
  `KeptUnlessOverwritten` says that nothing else loses a goal.
- A crash between line and index leaves a goal that is pursued first and that no
  operation can end (`persistent_goal.py:167`). `resume()` has no caller.
- Tasks appended while the queue is rewritten are lost (`task_queue.py:148`), and a stop after
  it was emptied loses all of them (`:135`, `:182`, `:214`); the end of a goal may be taken
  for the end of another task, or of none (`daemon.py:2501-2522`); a task whose
  predecessor failed can never be claimed (`:177`). The host's message is read and
  then cleared, and what is written in between is lost.

Pursuit:

- A request sets any metrics or status of a goal, whatever it is (`goal_routes.py:154-169`,
  without a check in `persistent_goal.py:359-402`): it can pass the gate, complete a
  goal at any progress, and abandon one that was completed.
- A cycle left behind by a turn that timed out (`daemon.py:2547`) goes on beside the next one
  and writes back metrics it has read before (`autonomy_loop.py:613`/`:742`,
  `:1018`/`:1104`): a rejection, or progress, of the other is undone.
- A goal that a request abandons at full progress is committed all the same, and writes
  of other goals that the transaction holds land with it.
- A step credits whichever goal is first by then (`autonomy_loop.py:617`). Steps that are
  reasoned out write directly, past the transaction. A goal at full progress whose
  steps are all skipped does not commit. The result of the commit is ignored
  (`:1022`). The engine's timeout waits for what it timed out (`execution_engine.py:191`).

Evolution:

- A late in_review opens a proposal again that was approved or rejected
  (`proposals.py:201`): it may be applied twice, or applied after its rejection; a failed
  application sets it to staging whatever it is by then (`:245`).
- An approved new_tool is a specification without an implementation, which the
  daemon's sweep removes (`daemon.py:2621`), against `proposals.py:20-21`. A restart of
  the server between the approval and the write leaves it approved and not applied.
- No written tool is ever loaded: `_hotload_dynamic_tools` raises a `NameError` at every file
  (`daemon.py:197`) and swallows it (`:314`), while its docstring (`:154`) and `:2587` promise
  tools in all stacks within 30 seconds. A plan that names one gives it up as broken
  (`autonomy_loop.py:878`), and the next sweep deletes it.
- `broken_tools.json` never shrinks, so a name once given up is deleted each time it is
  written again. Whoever wrote a tool is read from a variable of the environment
  that nothing sets, so anyone may retire any tool (`live_capabilities.py:1788`).

Suffering:

- A threat from the host starts at 0.55 and grows, so the expiry of threats below 0.5
  (`suffering.py:740`) reaches only those that the agent has named itself, or that good
  days have made milder.
- Stagnation is said to be capped at 0.80 "so an agent in stagnation crisis still has
  room" (`daemon.py:1275`): the bump is capped at 0.60, and escalation takes it to 1.0.
- The forced reset of a crisis needs five stressors of two types; a type is active
  once, so it never comes (`daemon.py:2161`).
- The count of capabilities looks at a directory that nothing writes
  (`/agentOS/memory/dynamic_tools`), so futility and purposelessness never set in.
- What the host changes at the panel while a cycle runs is undone by the cycle's next save
  (`panel.py:198`, `daemon.py:1215`).
- `docs/suffering_system_reference.md:137` says that custom types always escalate by 0.03 a
  day; the code lets them fade by 0.10 (`suffering.py:405`).
- A reader of the file in the middle of a save sees no suffering, and opens the
  locks of capabilities for one call.
- With the list full, a threat from the host is dropped without a word.

Components without a module:

- `agent_quorum.py`: `vote()` accepts votes on closed proposals; a decision is made from
  votes read before the lock (`:261`); each object has its own lock.
- `bus.py:85`: a broadcast is one object in all queues, so the first reader marks it read
  for all. `checkpoint.py:143`: a save consumes the unread inbox; `:243`: a restore
  writes back the locks of the time of the save.
- `ratelimit.py:324`: buckets made under a penalty keep its limits when it has ended; a
  change of any role fills all buckets.
- `memory/heap.py:197`: compression summarises without the lock and overwrites a newer
  value; `:242`: an object that is compressed and swapped out loses its original.

## Bounds

- `MaxOps`, `MaxExternal`, `MaxCrashes`: operations for each transaction, writes
  outside, restarts. Two operations make a failure after a success, an order and an
  undo; one file makes every two transactions compete. One restart is enough for
  each place where it can happen, because nothing after a restart refers to what
  was before the previous one except the disk.
- `MaxSaved = 1` with two transactions makes the truncation of the file on disk happen.
- Consensus: one proposal, because proposals share only the lock and the reaper's
  loop (the theorems are for any number of them); three agents make a majority that
  differs from all; requests 0 and 4 lie outside what the list allows; two request
  threads and the reaper make three that race.
- Scheduler: one task of each priority, two workers, so that an urgent task finds
  all workers busy and one of them preemptible, and the preempted task can be run
  by the other worker while the first is busy with it. `MaxTasks = 2` with three
  tasks makes eviction happen. `MaxUpsets` bounds cancelled tasks and restarts
  together. A task can be preempted more than once only by more urgent tasks than
  the run has; the theorems cover that.
- Registry: three agents make a chain as deep as `MaxSpawnDepth` and an orphan to
  adopt; one request thread and a watchdog for each agent are enough for two
  terminations of one agent at once.
- Daemon: the limits are scaled down (2 for 5, 8 and 10) and keep what matters of them:
  which of two rules fires first, and a release that comes after both. A release puts back
  one of two agents, as the code's two of three, so that it does not reach all. One
  event makes each kind happen at each place.
- Work: a chain of two tasks, the second with an output file; another goal, which reads
  like the first task; one request beside the daemon makes each pair of operations
  overlap; one crash, at each step.
- Pursuit: a goal needs two units, of which the gate leaves one, in cycles of two steps;
  two failures in a row, one of a capability and two strikes reach the limits. `MaxLoad`
  allows two goals and one cycle, or one goal and a cycle left behind beside another;
  `PatchesMC` are a request that completes the metrics and one that clears them.
  `pursuit_partial` has the increments of the code, in tenths.
- Evolution: two approvers, both of whom the quorum needs, so calls cross; two workers on
  one tool, so that one retires what the other writes; two faults, so that a
  failed application can be followed by a restart.
- Suffering: `TalkLimit` is the 2 of the code; of the conditions one is looked at before the
  expiry of threats, and which threats are old by then is a choice in `Observe`. The unit
  of severity is a third; three stressors fit, so the list is full with stagnation, a
  threat and a failure when weather or the panel comes. Two goals are looked at
  instead of 30, so a completion gets out of sight.
- Deadlock is not checked except in `evolution` and `suffering`: the agents may stop asking, the
  ids are finite, and the bounds end everything.

## Fairness

Every liveness property assumes only what threads do by themselves.

- `Transaction`: a thread inside `commit()` is scheduled, the clock passes a timeout,
  the watchdog's loop runs. No agent has to stage, commit or roll back.
- `Consensus`: a thread that holds the lock or has events to send goes on, the clock
  runs, the reaper visits each file. No agent has to vote.
- `Scheduler`: a thread inside `submit()` and a worker go on; each call of the model
  has a timeout, so `Working` includes its failure. Nobody has to submit or cancel.
- `Registry`: a request that has started goes on, and so does a watchdog; its grace
  period runs out. Nobody has to send a request.
- `Daemon`: the main loop takes its next step, and a pursuit ends, because each
  model call in it has a timeout.
- `Work`: the daemon takes its next step again and again although it may crash, and each
  goal is pursued to an end again and again (strong fairness, from `GoalsEnd`); a
  request that holds the lock goes on, and time passes.
- `Pursuit`: a cycle goes on. `GoalsEnd` is about a goal that gets credit for steps
  of value again and again; that is its premise, because the answers are the model's.
- `Evolution`: the daemon's turns, and the calls of approvers and workers, go on.
- `Suffering`: days pass, and the agent has its existence cycles, which it does when
  its goals have ended (`GoalsEnd`).

Except where `Work` says so, weak fairness suffices: each of these actions stays
enabled until it is taken, or until another step has done its work (the queue's lock
is free again after each `Preempt`, which is itself fair, and the number of tasks is
finite).

## Proofs

Each theorem is for every value of the constants: any number of agents, threads,
proposals, tasks, goals, stressors, restarts and faults. What they assume is in the
named `ASSUME`s of the modules: ids are not confused with each other (`NamesAssumption`,
`ThreadsAssumption`); bounds are numbers, and limits positive; sets are finite where
they are counted (workers and tasks, goals, agents of the daemon); there is
at least one transaction, agent, proposal or task where a thread must point at one.
Beyond that:

- `Registry`: groups are made of registered agents, and root is not in one
  (`GroupAssumption`); the core agents are not among those that requests name.
- `Work`: tasks are numbered and depend on tasks (`NamesAssumption`).
- `Pursuit`: goals are numbered in the order of their lines, and a rejection takes
  progress back to the gate or below, which is below full.
- `Suffering`: what is observed is predefined and never stagnation; the weather is not
  predefined; what is added, and what is measured, starts within the scale.

A theorem that needs more says so in its `ASSUME`: `Sequential` (an agent waits for its
commits, as the goal loop does). Where the code keeps a promise only
as long as something does not happen, that is in the property, as state that the
system reaches, and no assumption: a write that came too late for the check
(`Unseen`), names that a list repeats (`Repeats`), a restart (`crashes`),
writes of two engines over each other (`overwritten`), requests and outdated metrics (`disturbed`), the host (`meddled`).

The main loop of `Daemon` and the pursuits of `Pursuit` both name their parts `Init`,
`Next` and `Spec`; so `PursuitProofs` extends the one and takes the other as an
instance, `Loop == INSTANCE Daemon`, with constants and variables of the same names.
What `Daemon` assumes of its constants is the hypothesis `LoopLimits` of its theorems.

Of a liveness property, which needs fairness, the part that needs none is proved: what
a step may not do on the way to the end (the *safety half* below).

| theorem | states | argument |
|---|---|---|
| `TransactionProofs!Typing` | `[]TypeOK` | inductive as it stands; it includes that no thread runs past the operations it copied |
| `TransactionProofs!Isolation` | `[]StagedInvisible` | with `EffectsInv`: types; a commit only runs on a transaction that was begun; and nothing staged is visible. The last alone is not inductive: a commit of a transaction that does not exist would make its effects visible |
| `TransactionProofs!NoTrace` | `[]DroppedLeavesNoTrace` | whoever passes the check keeps the transaction "being committed" until its own `Finish`, which overwrites the status: so one that ended by a conflict, a timeout or a rollback has no effects unless a commit is still on it. A restart in the middle of a commit makes an end of that, so the property speaks of the time until the first one (`crashes = 0`) |
| `TransactionProofs!Undone` | `[]FailedCommitLeavesNoFile` if `Sequential` | `SerialInv`: no two threads commit one transaction; each file that holds what a committing transaction wrote is named by an operation its thread has applied and not undone (`Wrote`); a thread undoes exactly when an operation has failed. So nothing is left when the undo has reached the first operation |
| `TransactionProofs!InSequence` | `[]AppliedAsStaged` if `Sequential` | `RecordsInv`, on top: as many writes are recorded as the thread has applied, until one fails; its operations are the staged ones unless a rollback dropped those; nothing is recorded before. `JournalGrows` says what one more entry does to the counts |
| `TransactionProofs!NothingElseOverwritten` | `[]LostOnlyUnseen` if `Sequential` | `UpdatesInv`: what others have written to a resource that a commit has yet to write, since its transaction began and before its check, has a later write of its own agent behind it (`Noticed`), because the check looks at the newest write of each resource and passes only when that is old or its own. Nothing is assumed of other commits, outside writes and restarts |
| `TransactionProofs!Ending` | `[][EndsForGood]_vars`, the safety half of `OpenEnds` | `Running`: a commit works on a transaction that has a record, and undoes exactly when an operation has raised. Then only `Finish` overwrites a status that is not open, of a transaction it is itself committing; with it the watchdog can be overruled (see [what the code does not do](#what-the-code-does-not-do)) |
| `ConsensusProofs!Refinement` | `ImplementsBallot` | step simulation for each proposal: propose is `Call`, a vote is `Cast`, timeouts and withdrawals are `Close`, everything else stutters; needs that votes are sets of agents and that the quorum is a positive number (`BallotTypes`) |
| `ConsensusProofs!Typing` | `[]TypeOK` | with `TypeInv`: a proposal that was not made has no votes, without which the quorum that `Propose` sets would meet old votes |
| `ConsensusProofs!EarlyRejection` | `[]EarlyRejectionIsExact` | `ExactInv`: an open proposal can be carried by those who have not refused and as many votes as its list repeats names, and one rejected as impossible could not; `vote()` counts the list as a sequence, the proof counts it as a set and the rest |
| `ConsensusProofs!Durability` | `[]AnnouncedIsDurable`, the safety half of `EndsAndIsTold` | `DurableInv`: a verdict in a thread's outbox is of the proposal it holds, was saved, is its last and only one, and nobody else saves or announces that proposal; `ReaperInv`: the reaper does not find the next before it has told of the last |
| `SchedulerProofs!Typing` | `[](TypeOK /\ ListedIsSaved)` | inductive together: a listed task is on disk and has a status that the file can hold, which a restart reads back |
| `SchedulerProofs!BooksAgreeAlways` | `[]BooksAgree` | with `Books`: a task that submit() has not put into the queue is neither there nor running, and the chosen victim is running until it is pushed back, because the queue's lock is held; without these `Put` and `Preempt` could repeat an entry |
| `SchedulerProofs!NothingIsLost` | `[]NoTaskIsLost` | with `Waiting`: a task waits in one place only (submit(), the queue, one worker), does not run meanwhile, and nobody who is chosen for preemption waits |
| `SchedulerProofs!Accounted` | `[]RunsAreAccounted` | the same invariant, with: a task that waits has been preempted as often as it was run |
| `SchedulerProofs!Durability` | `[]ToldIsDurable`, the safety half of `EveryTaskEnds` | `Told`: a task never preempted is held by one worker, after it has waited and before anything was told of it; what that worker knows at each of its steps (`Knows`) agrees with the status, then with the disk, then with what was told |
| `RegistryProofs!Typing` | `[](TypeOK /\ ThreadsInv)` | inductive together; `ThreadsInv`: a thread works on a registered agent other than root, a watchdog on the agent it is named after, and who announces an end has made it |
| `RegistryProofs!Descent` | `[]DepthDescends` | `IInv`, of which `TreeInv`: parents are registered and less deep; a depth that was computed without the lock is still right (`Found`), because a parent that is looked up stays registered and keeps its depth; root has depth 0 and no parent |
| `RegistryProofs!Adoption` | `[]OrphansAreAdopted` | inductive with the same: `End` hands all children to root, which does not end, and only a registration that is under way can bring one under an ended parent later, as `orphaned` records |
| `RegistryProofs!Authentication` | `[]ActiveAuthenticates` | the same, with `Tokens`: the token of an agent that may act again is indexed unless the last restart found it inactive |
| `RegistryProofs!WatchdogRests` | `[][RestsWhenEnded]_vars`, the safety half of `SigtermEnds` | a watchdog comes to rest only when its agent is terminated, or at a restart |
| `RegistryProofs!Lineages` | `[]Forest` | from `TreeInv`: of any set of agents the one with the least depth (`WellFoundedInduction` gives it) has its parent outside |
| `RegistryProofs!Burial` | `[]Ledger` | the tombstone comes before the end and the end before the announcement, each in a section of its own: a thread that is about to end an agent has its tombstone on record, and the end takes the token out |
| `RegistryProofs!Finality` | `[][EndIsFinal]_vars` | with `Ledger`: every section that gives a status looks at the old one under the lock again, or registers an agent that had none |
| `WorkProofs!ChainsInOrder` | `[]ChainsRunInOrder` | `QueueInv`: what the daemon has read of the queue differs from the file by tasks appended since and those it is about to fail; while the file is empty, what will be written holds every task that was read (`Copied`) |
| `WorkProofs!Forward` | `[][MovesForward]_vars`, the safety half of `AssignedEnds` | with `QueueInv`: a rewrite takes back no claim and no end, it only loses; what it completes was in `Reported` when it was read |
| `WorkProofs!Typing` | `[]TypeOK` | that the registry has no more lines than there are goals needs `Lists`: neither it nor what anybody has read of it holds a goal twice, or one whose creation has not begun, whatever overlaps; a goal is made only for a task that was claimed (`Fresh`) |
| `WorkProofs!Refinement` | `KeptUnlessOverwritten` | `Sound`: as long as nothing was overwritten, the index names the line of its goal, a line that is not indexed yet is the last thing its creation has done, and an operation is about to change the line of its goal. Then each step is one of `GoalStore` or a stutter: the appended line is the creation, the rewritten line the operation, a crash between line and index cuts the goal off |
| `PursuitProofs!Typing` | `[]TypeOK` | with `Bounded`: the steps of a cycle stay below the limit, and a goal that has had its last strike is not pursued again; that the first goal exists is `FirstIsActive` |
| `PursuitProofs!GateIsEarned` | `[]EarnedUnlessDisturbed` | `Earning`: of a goal that nothing has disturbed, what counts as its output and any progress beyond the gate are of the time since its last rejection, or it has had its last strike, which ended it. What a cycle writes back stands on what it has read (`seen`, `begun`), and if that is outdated the write disturbs the goal |
| `PursuitProofs!FullProgressLands` | `OnlyFullProgressLands` | `Landing`: a cycle comes to its commit, and stays there, only with metrics at full progress that it has read; a rollback, a timeout and a failed commit put nothing on the disk |
| `PursuitProofs!EndsAreJustified` | `[][Justified]_vars` | with `Earning`, `Landing` and `Recorded` (progress stands on steps on record): a validation completes a goal whose metrics are those it has read, or disturbs it; the rejection that is the last abandons it in the same step |
| `PursuitProofs!LoopTyping` | `[]Loop!TypeOK` if `LoopLimits` | `LoopInv`: an agent with a worker in the pool is not set aside and has not reached the limit of stalled cycles, which the outcome may then raise by one (`Out`); its goals beyond the cap are messages of the host that were counted (`Goaled`). Without the first, a count could pass its limit; without the second the number of goals would not be bounded |
| `PursuitProofs!AsideRests` | `[]RestsAside` if `LoopLimits` | part of `Out`: who is set aside was not submitted in this turn and is not active in the next |
| `PursuitProofs!AsideUntilReleased` | `[][PutBackInTurn]_(Loop!vars)`, the safety half of `SkippedReturn` | from `Out`: an outcome is never of an agent that is set aside, so only `Wrap` and a restart put one back |
| `EvolutionProofs!Typing` | `[]TypeOK` | inductive as it stands |
| `EvolutionProofs!Warranted` | `[]AppliedIsWarranted` | `Warrant`: the copy of a proposal that `approve()` goes on with has votes of the proposal, and enough of them once it is counted (`Counted`); what is staged or being applied has passed its tests (`Tested`); votes are never taken back, and a record that has become unreadable is not staged again |
| `EvolutionProofs!Approved` | `[]ApprovedIsApplied` | inductive with the types: between the claim and the end of the write or of its reversal the call is there, and a restart of the server records what it cuts short |
| `EvolutionProofs!Approving` | `[][DulyApproved]_vars` | with `Warrant`: only `Claim` approves, the call it belongs to counted enough votes, and those are still in the record |
| `SufferingProofs!Typing` | `[]TypeOK` | `ListInv`: file and copy exceed the limit by no more than the panel has added, and are the same in a cycle that the panel has left alone; what each operator returns on a list with room, and on a full or longer one; `RestInv` |
| `SufferingProofs!Seen` | `[]StagnationIsSeen` | with the same: no operation but an assessment with a fresh completion, or a lost file, takes stagnation out or below `due`; in a full list room is made among the others (`Room`, `Mildest`); the copy speaks for the cycle, the file for the time between, if the panel has not written |
| `SufferingProofs!EarnedOff` | `StagnationIsEarnedOff` | the same invariant, step by step: all writers but the panel spare it (`Spares`) |
| `SufferingProofs!Fading` | `[][Drift]_vars`, the safety half of `InventedFade` | each operator that adds or takes away leaves the other stressors as they are (`Same`); what the two do that change a severity is in `Moves`. It speaks of steps that are not the host's, in a cycle that it has left alone |

The proofs have one lemma for each kind of action, one case for each action. Lemmas
about the operators come first where they are needed: the queue as a sequence
(`PushedAt`, `PushedKeeps`, `TailKeeps`), the journal (`JournalGrows`, `LastIsLast`), the
list of stressors (`EscalateList`, `BumpList`, ...). That a set of numbers has a least or
a greatest element, on which `CHOOSE` rests in the operators, follows from the
well-foundedness of `<` on the naturals.

Only model-checked: the liveness properties themselves (`OpenEnds`, `EndsAndIsTold`,
`EveryTaskEnds`, `SigtermEnds`, `SkippedReturn`, both `GoalsEnd`, `AssignedEnds`,
`ToolsSettle`, `InventedFade`): the prover does not handle fairness or `ENABLED`. And the two
runs that find a property violated, which no theorem can state.

## What is not shown

The modules say nothing about the content of messages, files, prompts and answers,
about how the model is chosen, or about clocks other than that timeouts pass. Within
the modelled components the following is left out: the read-only operations; in the
scheduler `spawn_agent` (except what it does to the registry), checkpoints after long
tasks, usage logs, and worker threads that die of an exception; in the registry usage
and budgets and the named locks, under which no code of the system works; in the goal
loop what makes an artifact substantial, and its reflections; in the daemon prompts
and the housekeeping of text files; of the proposals the types that write outside
the directory of tools. A stop in the middle of writing a file is modelled where the
code empties it first; the loss of a write that the operating system had accepted
is not.

What a property does not claim, although one might read it so:

- `FailedCommitLeavesNoFile` and `AppliedAsStaged` are about agents that wait for their
  commits, and about files: heap entries and messages stay. `DroppedLeavesNoTrace` takes
  the status as it is in the end: a rollback that was answered and then overwritten by a
  running commit is a committed transaction to it.
- `NoTaskIsLost` says where a waiting task is, not that it can be looked up once it was
  evicted. `RunsAreAccounted` bounds runs by preemptions: a cancelled task that is run all
  the same passes it.
- `OrphansAreAdopted` leaves out who is registered after the parent has ended, and
  `ActiveAuthenticates` who was asleep at a restart: for them it is false, as said above.
- `SigtermEnds` takes it that a tombstone can be written; an exception there would end the
  watchdog's thread.
- `AppliedIsWarranted` and `ApprovedIsApplied` do not exclude that a proposal which had ended
  is opened again by a late approval or a failed application, and applied again.
- `OnlyFullProgressLands` is about the goal of the cycle: writes that a step has made for
  another goal land with it, and a goal that a request ends at full progress still lands.
- `GoalsEnd` of `Pursuit` has a premise, credit again and again, and its run scales the
  increments; the exact ones are in `pursuit_partial`.
- `AssignedEnds` leaves out an agent that is held by a goal nothing reaches (`Stuck`).

Details that are simpler in the models than in the code: the temporary name of
`_atomic_write`, which two writers of one registry share; the completion of a task reads
the queue twice in the code and once in `Work`; the panel's reading, changing and
writing is one step of `Suffering`, it adds no type that is active already, and a
write of its own that is cut short counts as its clear; an existence cycle that the
daemon has left behind does not run beside the next one there.

Not modelled at all, and why: the quorum (the protocol of the consensus manager over
again, and little submits to it); event and message bus (one locked section per
call; the modules that emit and send model what is told); checkpoints, heap and
model manager (single calls of one agent or of an external server, without a
protocol between them; their faults are listed above); rate limits (floating-point
arithmetic over real time); code generation, stores, distribution, prompts, user
interfaces and scripts as PROJECT.json says.

## Plan

Every invariant and every action property that a run checks is stated by a theorem, that
of `Daemon` through an instance, and most liveness properties have their safety half
proved. What would come next, in this order:

1. `Suffering`: the panel's read and write as two steps, and the existence cycle that is left
   behind, so that the file has three writers at once.
2. `Evolution`: what the hot-load would have to promise once it loads; the model has the
   place for it.
3. The routes of the API server that only pass requests on, and the model manager, whose
   protocol is with an external server.
4. The liveness properties by proof, once the prover has rules for fairness: the steps that
   make each of them advance are the ones the theorems on their safety halves name.

There are about a dozen runs so that everything can be checked again in minutes.

## How to run

In this directory:

    tlc -config MCTransaction_serial.cfg MCTransaction.tla
    tlapm TransactionProofs.tla

PROJECT.json lists for each run its module, configuration and properties, for each
definition the source lines it stands for, and the hazards with the properties that
cover them.
