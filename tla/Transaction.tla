---------------------------- MODULE Transaction ----------------------------
(***************************************************************************)
(* The transaction coordinator (agents/transaction.py) and the route that  *)
(* writes a file outside any transaction (POST /fs/write, api/server.py).  *)
(*                                                                         *)
(* Requests run on the threads of the API server's pool.  The coordinator  *)
(* takes its lock several times during one commit() and applies the staged *)
(* operations between two of those sections, so a commit is a small        *)
(* program run by one member of Callers, one action per section:           *)
(*                                                                         *)
(*   CommitCheck -> ReadOps -> (ApplyOp -> RecordWrite)* -> Finish         *)
(*                          \-> ApplyFails -> UndoOp* ----/                *)
(*                                                                         *)
(* Time is not a number here.  created_at and the time of a write are only *)
(* ever compared with each other ("was this resource written after that    *)
(* transaction began?"), so a moment is the number of writes recorded so   *)
(* far: the length of journal.  The timeout is a set, expired, that a      *)
(* transaction may join at any moment.                                     *)
(***************************************************************************)
EXTENDS Naturals, Sequences, FiniteSets, SequencesExt

CONSTANTS
    Txns,          \* transaction ids (uuids, never used twice)
    Agents,        \* agent ids
    Owner,         \* the agent that begins each transaction
    Callers,       \* request threads
    Sequential,    \* whether an agent waits for commit() to return before it asks
                   \* anything else about that transaction, as the goal loop of
                   \* agents/autonomy_loop.py does; the coordinator does not ask for it
    Files,         \* paths that fs_write operations name
    Keys,          \* heap keys that memory_set operations name
    MaxOps,        \* bound: operations staged in each transaction
    MaxExternal,   \* bound: writes made outside any transaction
    MaxCrashes,    \* bound: restarts of the server
    MaxSaved       \* transactions that _save keeps (200 in the code)

ASSUME SequentialAssumption == Sequential \in BOOLEAN

ASSUME BoundsAssumption == /\ MaxOps \in [Txns -> Nat] /\ MaxExternal \in Nat
                           /\ MaxCrashes \in Nat /\ MaxSaved \in Nat

ASSUME OwnerAssumption == Txns # {} /\ Owner \in [Txns -> Agents]

\* What a file can hold that nobody's transaction or agent wrote: what was
\* there at the start, nothing, or the remains of a write that failed.
Marks == {"initial", "absent", "partial"}
ASSUME NamesAssumption == /\ Marks \cap (Txns \cup Agents) = {}
                          /\ Txns \cap Agents = {}
                          /\ "external" \notin Txns

VARIABLES
    status,     \* _txns: the status of each record, "absent" before begin
    created,    \* created_at
    ops,        \* ops_buffered
    reason,     \* rollback_reason
    begun,      \* the transactions in order of created_at
    expired,    \* transactions whose timeout_at has passed
    checked,    \* length of journal at the conflict check of each (history)
    pc,         \* the section of commit() each request thread is in
    txn,        \* the transaction it commits
    todo,       \* the operations it copied from the record
    done,       \* how many of them it has applied
    failed,     \* whether one of them has raised
    direct,     \* the file that /fs/write has written but not yet recorded
    journal,    \* every write recorded, oldest first
    epoch,      \* length of journal when the server started
    files,      \* who wrote what each file now holds
    heap,       \* which key of which agent's heap each transaction has set
    mail,       \* how many messages each transaction has sent
    events,     \* events emitted, or about to be by the thread that left the lock
    external,   \* writes outside transactions so far
    crashes     \* restarts so far

effects == <<files, heap, mail>>
writes  == <<journal, epoch>>
bounds  == <<external, crashes>>
record  == <<status, created, ops, reason>>
locals  == <<txn, todo, done, failed>>
threads == <<pc, txn, todo, done, failed>>
book    == <<begun, expired, checked>>
vars    == <<record, book, threads, direct, writes, effects, events, bounds>>

-----------------------------------------------------------------------------
\* A staged operation; its content is the transaction that staged it.  The
\* conflict key of an operation is the operation itself without its content.
FsWrites   == [type : {"fs_write"}, key : Files]
MemorySets == [type : {"memory_set"}, key : Keys]
Sends      == [type : {"message_send"}, key : {"inbox"}]
Ops        == FsWrites \cup MemorySets \cup Sends

Statuses == {"absent", "open", "committed", "rolled_back", "forgotten"}
Reasons  == {"none", "timeout", "conflict", "op_failed", "explicit", "server_restart"}

\* The sections of commit(): between its first two locks, applying an operation,
\* recording that write, undoing after a failure.
Sections == {"idle", "checked", "apply", "record", "undo"}

AnyTxn == CHOOSE t \in Txns : TRUE

\* The threads inside commit(t), past its conflict check.
Committing(t) == {c \in Callers : pc[c] # "idle" /\ txn[c] = t}

\* _resource_writes[resource]: the last write recorded since the server
\* started, 0 when there is none.
LastWrite(op) ==
    LET W == {i \in (epoch + 1)..Len(journal) : journal[i].op = op}
    IN  IF W = {} THEN 0 ELSE CHOOSE i \in W : \A j \in W : j <= i

\* Mutant: the comparison with created_at is off by one.
Conflicts_OffByOne(t) ==
    {op \in Range(ops[t]) \ Sends :
        /\ LastWrite(op) > created[t] + 1
        /\ journal[LastWrite(op)].agent # Owner[t]}

\* Messages get a key of their own each (_resource_key): they never conflict.
Conflicts(t) ==
    {op \in Range(ops[t]) \ Sends :
        /\ LastWrite(op) > created[t]
        /\ journal[LastWrite(op)].agent # Owner[t]}

\* The newest MaxSaved transactions, the ones in transactions.json.
Saved == {begun[i] : i \in {i \in DOMAIN begun : i > Len(begun) - MaxSaved}}

\* Whether a request about t can arrive now.
MayAsk(t) == Sequential => Committing(t) = {}

\* Mutant: two arguments are swapped.
Event_Swapped(name, t, by) == [event |-> name, txn |-> by, by |-> t]

Event(name, t, by) == [event |-> name, txn |-> t, by |-> by]

\* Mutants: the status is forgotten; a status that is no longer open is kept.
End_ReasonOnly(t, s, r) == status' = status /\ reason' = [reason EXCEPT ![t] = r]
End_OnlyOpen(t, s, r) ==
    /\ status' = IF status[t] = "open" THEN [status EXCEPT ![t] = s] ELSE status
    /\ reason' = [reason EXCEPT ![t] = r]

End(t, s, r) == /\ status' = [status EXCEPT ![t] = s]
                /\ reason' = [reason EXCEPT ![t] = r]

-----------------------------------------------------------------------------
Init ==
    /\ status = [t \in Txns |-> "absent"]
    /\ created = [t \in Txns |-> 0]
    /\ ops = [t \in Txns |-> <<>>]
    /\ reason = [t \in Txns |-> "none"]
    /\ begun = <<>>
    /\ expired = {}
    /\ checked = [t \in Txns |-> 0]
    /\ pc = [c \in Callers |-> "idle"]
    /\ txn = [c \in Callers |-> AnyTxn]
    /\ todo = [c \in Callers |-> <<>>]
    /\ done = [c \in Callers |-> 0]
    /\ failed = [c \in Callers |-> FALSE]
    /\ direct = {}
    /\ journal = <<>>
    /\ epoch = 0
    /\ files = [f \in Files |-> "initial"]
    /\ heap = {}
    /\ mail = [t \in Txns |-> 0]
    /\ events = {}
    /\ external = 0
    /\ crashes = 0

-----------------------------------------------------------------------------
\* begin(): a new record, created now.
Begin(t) ==
    /\ status[t] = "absent"
    /\ status' = [status EXCEPT ![t] = "open"]
    /\ created' = [created EXCEPT ![t] = Len(journal)]
    /\ begun' = Append(begun, t)
    /\ UNCHANGED <<ops, reason, expired, checked, threads, direct, writes, effects, events, bounds>>

\* stage(): buffers the operation; nothing outside the record changes.
Stage(t, op) ==
    /\ MayAsk(t)
    /\ status[t] = "open"
    /\ t \notin expired
    /\ Len(ops[t]) < MaxOps[t]
    /\ ops' = [ops EXCEPT ![t] = Append(@, op)]
    /\ UNCHANGED <<status, created, reason, book, threads, direct, writes, effects, events, bounds>>

\* The clock passes timeout_at.
TimePasses(t) ==
    /\ status[t] = "open"
    /\ t \notin expired
    /\ expired' = expired \cup {t}
    /\ UNCHANGED <<record, begun, checked, threads, direct, writes, effects, events, bounds>>

\* commit(), first locked section, of a transaction that is too late.
CommitTooLate(t) ==
    /\ MayAsk(t)
    /\ status[t] = "open"
    /\ t \in expired
    /\ End(t, "rolled_back", "timeout")
    /\ UNCHANGED <<created, ops, book, threads, direct, writes, effects, events, bounds>>

\* commit(), first locked section, of a transaction that conflicts.
CommitConflict(t) ==
    /\ MayAsk(t)
    /\ status[t] = "open"
    /\ t \notin expired
    /\ Conflicts(t) # {}
    /\ End(t, "rolled_back", "conflict")
    /\ events' = events \cup {Event("txn.conflict", t, "commit"),
                             Event("txn.rolled_back", t, "commit")}
    /\ UNCHANGED <<created, ops, book, threads, direct, writes, effects, bounds>>

\* commit(), first locked section, passed: the status stays "open" while the
\* lock is released and the agent is checkpointed.
CommitCheck(c, t) ==
    /\ MayAsk(t)
    /\ pc[c] = "idle"
    /\ status[t] = "open"
    /\ t \notin expired
    /\ Conflicts(t) = {}
    /\ pc' = [pc EXCEPT ![c] = "checked"]
    /\ txn' = [txn EXCEPT ![c] = t]
    /\ checked' = [checked EXCEPT ![t] = Len(journal)]
    /\ UNCHANGED <<record, begun, expired, todo, done, failed, direct, writes, effects, events, bounds>>

\* commit(), second locked section: the operations are copied from the record
\* as it is now, whatever its status has become.
ReadOps(c) ==
    /\ pc[c] = "checked"
    /\ pc' = [pc EXCEPT ![c] = "apply"]
    /\ todo' = [todo EXCEPT ![c] = ops[txn[c]]]
    /\ UNCHANGED <<record, book, txn, done, failed, direct, writes, effects, events, bounds>>

\* The operation that commit() is about to apply.
NextOp(c) == todo[c][done[c] + 1]

\* What an operation of transaction t does to the files, to the heap of its
\* agent, to the messages it sent (_apply_op).
Effect(t, op) ==
    /\ files' = IF op \in FsWrites THEN [files EXCEPT ![op.key] = t] ELSE files
    /\ heap' = IF op \in MemorySets THEN heap \cup {<<Owner[t], op.key, t>>} ELSE heap
    /\ mail' = IF op \in Sends THEN [mail EXCEPT ![t] = @ + 1] ELSE mail

\* commit(): one operation is applied, outside the lock.
ApplyOp(c) ==
    /\ pc[c] = "apply"
    /\ done[c] < Len(todo[c])
    /\ Effect(txn[c], NextOp(c))
    /\ pc' = [pc EXCEPT ![c] = "record"]
    /\ UNCHANGED <<record, book, locals, direct, writes, events, bounds>>

\* commit(): the write just made is recorded, under the lock.
RecordWrite(c) ==
    /\ pc[c] = "record"
    /\ journal' = Append(journal, [op |-> NextOp(c), txn |-> txn[c],
                                   agent |-> Owner[txn[c]]])
    /\ pc' = [pc EXCEPT ![c] = "apply"]
    /\ done' = [done EXCEPT ![c] = @ + 1]
    /\ UNCHANGED <<record, book, txn, todo, failed, direct, epoch, effects, events, bounds>>

\* commit(): an operation raises.  A file is opened for writing, which empties
\* it, before the write can fail.
ApplyFails(c) ==
    /\ pc[c] = "apply"
    /\ done[c] < Len(todo[c])
    /\ \/ UNCHANGED files
       \/ /\ NextOp(c) \in FsWrites
          /\ files' = [files EXCEPT ![NextOp(c).key] = "partial"]
    /\ pc' = [pc EXCEPT ![c] = "undo"]
    /\ failed' = [failed EXCEPT ![c] = TRUE]
    /\ UNCHANGED <<record, book, txn, todo, done, direct, writes, heap, mail, events, bounds>>

\* _rollback_applied, newest first: a file written is deleted, nothing else is
\* undone.
UndoOp(c) ==
    /\ pc[c] = "undo"
    /\ done[c] > 0
    /\ LET op == todo[c][done[c]]
       IN  files' = IF op \in FsWrites THEN [files EXCEPT ![op.key] = "absent"] ELSE files
    /\ done' = [done EXCEPT ![c] = @ - 1]
    /\ UNCHANGED <<record, book, pc, txn, todo, failed, direct, writes, heap, mail, events, bounds>>

\* Mutant: the undo stops one operation too early.
Finishing_LeavesOne(c) ==
    \/ pc[c] = "apply" /\ done[c] = Len(todo[c])
    \/ pc[c] = "undo" /\ done[c] <= 1

\* Mutant: the last operation is not applied.
Finishing_SkipsLast(c) ==
    \/ pc[c] = "apply" /\ done[c] + 1 >= Len(todo[c])
    \/ pc[c] = "undo" /\ done[c] = 0

\* commit() has no operation left to apply, or none left to undo.
Finishing(c) ==
    \/ pc[c] = "apply" /\ done[c] = Len(todo[c])
    \/ pc[c] = "undo" /\ done[c] = 0

\* The event that commit() emits last.
Outcome(c) == IF failed[c] THEN "txn.rolled_back" ELSE "txn.committed"

Leave(c) == /\ pc' = [pc EXCEPT ![c] = "idle"]
            /\ txn' = [txn EXCEPT ![c] = AnyTxn]
            /\ todo' = [todo EXCEPT ![c] = <<>>]
            /\ done' = [done EXCEPT ![c] = 0]
            /\ failed' = [failed EXCEPT ![c] = FALSE]

\* commit(), last locked section: the status is set whatever it has become.
Finish(c) ==
    LET t == txn[c] IN
    /\ Finishing(c)
    /\ IF failed[c] THEN End(t, "rolled_back", "op_failed")
                    ELSE End(t, "committed", reason[t])
    /\ events' = events \cup {Event(Outcome(c), t, c)}
    /\ Leave(c)
    /\ UNCHANGED <<created, ops, book, direct, writes, effects, bounds>>

\* rollback(): only an open transaction, whose operations are dropped.
Rollback(t, why) ==
    /\ status[t] = "open"
    /\ End(t, "rolled_back", why)
    /\ ops' = [ops EXCEPT ![t] = <<>>]
    /\ events' = events \cup {Event("txn.rolled_back", t, why)}
    /\ UNCHANGED <<created, book, threads, direct, writes, effects, bounds>>

ExplicitRollback(t) == MayAsk(t) /\ Rollback(t, "explicit")

\* Mutant: transactions without operations are not swept.
Watchdog_OnlyStaged(t) == t \in expired /\ ops[t] # <<>> /\ Rollback(t, "timeout")

\* The watchdog finds the open transactions that timed out, releases the lock
\* and calls rollback() on each, which looks at the status again.
Watchdog(t) == t \in expired /\ Rollback(t, "timeout")

\* POST /fs/write without a transaction writes the file, then records it.  The
\* route runs on the event loop, so there is one such request at a time.
ExternalWrite(a, f) ==
    /\ direct = {}
    /\ external < MaxExternal
    /\ files' = [files EXCEPT ![f] = a]
    /\ direct' = {[agent |-> a, file |-> f]}
    /\ external' = external + 1
    /\ UNCHANGED <<record, book, threads, writes, heap, mail, events, crashes>>

RecordExternalWrite(w) ==
    /\ w \in direct
    /\ journal' = Append(journal, [op |-> [type |-> "fs_write", key |-> w.file],
                                   txn |-> "external", agent |-> w.agent])
    /\ direct' = {}
    /\ UNCHANGED <<record, book, threads, epoch, effects, events, bounds>>

\* The files that a thread may have opened, and so emptied, but not written yet.
Writing == {NextOp(c).key : c \in {c \in Callers : /\ pc[c] = "apply"
                                                   /\ done[c] < Len(todo[c])
                                                   /\ NextOp(c) \in FsWrites}}

\* The server stops and starts again (_load).  The threads and _resource_writes
\* are lost; of the records, the saved ones come back, an open one as rolled
\* back.  Nothing comes back when the server stopped inside _save, which leaves
\* a file that does not parse.
Restart ==
    /\ crashes < MaxCrashes
    /\ crashes' = crashes + 1
    /\ \E kept \in {Saved, {}} :
          status' = [t \in Txns |-> IF status[t] = "absent" THEN "absent"
                                   ELSE IF t \notin kept THEN "forgotten"
                                   ELSE IF status[t] = "open" THEN "rolled_back"
                                   ELSE status[t]]
    /\ reason' = [t \in Txns |-> IF status[t] = "open" THEN "server_restart" ELSE reason[t]]
    /\ \E torn \in SUBSET Writing : files' = [f \in Files |-> IF f \in torn THEN "partial" ELSE files[f]]
    /\ pc' = [c \in Callers |-> "idle"]
    /\ txn' = [c \in Callers |-> AnyTxn]
    /\ todo' = [c \in Callers |-> <<>>]
    /\ done' = [c \in Callers |-> 0]
    /\ failed' = [c \in Callers |-> FALSE]
    /\ direct' = {}
    /\ epoch' = Len(journal)
    /\ UNCHANGED <<created, ops, book, journal, heap, mail, events, external>>

-----------------------------------------------------------------------------
Commit(c) == \/ ReadOps(c) \/ ApplyOp(c) \/ RecordWrite(c) \/ ApplyFails(c)
             \/ UndoOp(c) \/ Finish(c)

Next ==
    \/ \E t \in Txns : \/ Begin(t) \/ CommitTooLate(t) \/ CommitConflict(t)
                       \/ ExplicitRollback(t) \/ TimePasses(t) \/ Watchdog(t)
    \/ \E t \in Txns, op \in Ops : Stage(t, op)
    \/ \E c \in Callers, t \in Txns : CommitCheck(c, t)
    \/ \E c \in Callers : Commit(c)
    \/ \E a \in Agents, f \in Files : ExternalWrite(a, f)
    \/ \E w \in direct : RecordExternalWrite(w)
    \/ Restart

Spec == Init /\ [][Next]_vars

\* Time passes, the watchdog thread loops for ever and a thread inside a
\* request is scheduled.  Nothing obliges an agent to stage, commit or roll back.
Fairness == /\ \A t \in Txns : WF_vars(TimePasses(t)) /\ WF_vars(Watchdog(t))
            /\ \A c \in Callers : WF_vars(Commit(c))
            /\ WF_vars(\E w \in direct : RecordExternalWrite(w))

FairSpec == Spec /\ Fairness

-----------------------------------------------------------------------------
WriteRecord == [op : Ops, txn : Txns \cup {"external"}, agent : Agents]

\* A thread applies and undoes operations that it copied, and no others.
WithinOps(c) == /\ done[c] <= Len(todo[c])
                /\ (pc[c] = "record") => (done[c] < Len(todo[c]))
                /\ (pc[c] \in {"idle", "checked"}) => (done[c] = 0)

\* Every variable has its type, and no thread goes past the last of its operations.
TypeOK ==
    /\ status \in [Txns -> Statuses]
    /\ created \in [Txns -> Nat]
    /\ ops \in [Txns -> Seq(Ops)]
    /\ reason \in [Txns -> Reasons]
    /\ begun \in Seq(Txns)
    /\ expired \subseteq Txns /\ checked \in [Txns -> Nat]
    /\ pc \in [Callers -> Sections]
    /\ txn \in [Callers -> Txns]
    /\ todo \in [Callers -> Seq(Ops)]
    /\ done \in [Callers -> Nat]
    /\ failed \in [Callers -> BOOLEAN]
    /\ \A c \in Callers : WithinOps(c)
    /\ direct \subseteq [agent : Agents, file : Files]
    /\ journal \in Seq(WriteRecord)
    /\ epoch \in Nat
    /\ files \in [Files -> Txns \cup Agents \cup Marks]
    /\ heap \subseteq Agents \X Keys \X Txns
    /\ mail \in [Txns -> Nat]
    /\ events \subseteq [event : {"txn.conflict", "txn.rolled_back", "txn.committed"},
                                   txn : Txns, by : Callers \cup {"commit"} \cup Reasons]
    /\ external \in Nat /\ crashes \in Nat

\* Some operation of t has taken effect, and has not been overwritten.
Visible(t) == \/ \E f \in Files : files[f] = t
              \/ \E a \in Agents, k \in Keys : <<a, k, t>> \in heap
              \/ mail[t] > 0

\* "Staged (uncommitted) writes are invisible to all agents": nothing of a
\* transaction that is open takes effect unless commit() is running on it, past
\* its conflict check.
StagedInvisible ==
    \A t \in Txns : /\ status[t] \in {"absent", "open"}
                    /\ Committing(t) = {}
                    => ~Visible(t)

\* A transaction that ended by a conflict, a timeout or a rollback(), whose
\* commits have all returned, left nothing behind.
Clean(t) ==
    /\ status[t] = "rolled_back"
    /\ reason[t] \in {"conflict", "timeout", "explicit"}
    /\ Committing(t) = {}
    => ~Visible(t)

\* Until the server restarts, a transaction that was dropped leaves no trace once
\* every commit() of it has returned: whatever the order in which those raced, the
\* status tells whether there are effects.
DroppedLeavesNoTrace == crashes = 0 => \A t \in Txns : Clean(t)

\* A commit that failed leaves none of the files it wrote, once it returned: the
\* undo covers every file applied before the failure.  (One commit at a time.)
FailedCommitLeavesNoFile ==
    \A t \in Txns : /\ status[t] = "rolled_back"
                    /\ reason[t] = "op_failed"
                    /\ Committing(t) = {}
                    => \A f \in Files : files[f] # t

\* The writes recorded for t, as places in the journal; the write at i is the
\* Nth(t, i)-th of them.
Mine(t)   == {i \in DOMAIN journal : journal[i].txn = t}
Nth(t, i) == Cardinality({j \in Mine(t) : j <= i})

\* "All staged ops are applied atomically", "in sequence": the writes recorded
\* for a transaction are the first of the operations it staged, in that order and
\* each once, unless a rollback dropped them; and when it is committed, all of
\* them.  (One commit at a time; an agent that stages while its commit() runs
\* loses what it staged.)
AppliedAsStaged ==
    \A t \in Txns :
        /\ \A i \in Mine(t) : \/ ops[t] = <<>>
                              \/ /\ Nth(t, i) <= Len(ops[t])
                                 /\ ops[t][Nth(t, i)] = journal[i].op
        /\ status[t] = "committed" => Cardinality(Mine(t)) >= Len(ops[t])

\* The writes i and j, of transactions of different agents, to the same resource:
\* the second transaction began before the first write and did not notice it.
LostUpdate(i, j) ==
    /\ i < j
    /\ journal[i].op = journal[j].op
    /\ journal[i].op \notin Sends
    /\ journal[i].agent # journal[j].agent
    /\ journal[j].txn # "external"
    /\ created[journal[j].txn] < i
    /\ i > epoch

\* What the conflict check of t could not see of the write i: it was recorded
\* after the check, or the agent of t had itself written the resource since, and
\* _resource_writes remembers one write of each.
Unseen(t, i) ==
    \/ i > checked[t]
    \/ \E k \in DOMAIN journal : /\ i < k /\ k <= checked[t]
                                 /\ journal[k].op = journal[i].op
                                 /\ journal[k].agent = Owner[t]

\* "Two agents writing to the same file is a race condition. Transactions make it
\* a conflict instead": a transaction overwrites what another agent wrote since
\* the transaction began only in the two cases that its check cannot see, however
\* commits and outside writes overlap.  (Agents that wait for their commits.)
LostOnlyUnseen ==
    \A i, j \in DOMAIN journal : LostUpdate(i, j) => Unseen(journal[j].txn, i)

\* An open transaction ends, even if its agent never calls again: the watchdog
\* or a commit() ends it.
OpenEnds == \A t \in Txns : status[t] = "open" ~> status[t] # "open"
=============================================================================
