------------------------- MODULE TransactionProofs -------------------------
(***************************************************************************)
(* Theorems about Transaction, for every set of transactions, agents,      *)
(* threads, files and keys and every bound.                                *)
(***************************************************************************)
EXTENDS Transaction, FiniteSetTheorems, WellFoundedInduction, TLAPS

-----------------------------------------------------------------------------
\* The initial values have their types.
LEMMA TypeInit == Init => TypeOK
  BY OwnerAssumption DEF Init, TypeOK, WithinOps, AnyTxn, Statuses, Reasons, Sections, Marks

\* Every step keeps every variable in its type.
LEMMA TypeStep == TypeOK /\ [Next]_vars => TypeOK'
<1> SUFFICES ASSUME TypeOK, [Next]_vars PROVE TypeOK'
  OBVIOUS
<1> USE DEF TypeOK, record, book, locals, threads, writes, effects, bounds
<1>1. ASSUME NEW t \in Txns, Begin(t) PROVE TypeOK'
  <2>1. Len(journal) \in Nat
    OBVIOUS
  <2>2. status' \in [Txns -> Statuses] /\ created' \in [Txns -> Nat] /\ begun' \in Seq(Txns)
    BY <1>1, <2>1 DEF Begin, Statuses
  <2>. QED
    BY <1>1, <2>2 DEF Begin, WithinOps
<1>2. ASSUME NEW t \in Txns, NEW op \in Ops, Stage(t, op) PROVE TypeOK'
  <2>1. ops' \in [Txns -> Seq(Ops)]
    BY <1>2 DEF Stage
  <2>. QED
    BY <1>2, <2>1 DEF Stage, WithinOps
<1>3. ASSUME NEW t \in Txns, TimePasses(t) PROVE TypeOK'
  BY <1>3 DEF TimePasses, WithinOps
<1>4. ASSUME NEW t \in Txns, CommitTooLate(t) PROVE TypeOK'
  BY <1>4 DEF CommitTooLate, WithinOps, End, Statuses, Reasons
<1>5. ASSUME NEW t \in Txns, CommitConflict(t) PROVE TypeOK'
  BY <1>5 DEF CommitConflict, WithinOps, End, Event, Statuses, Reasons
<1>6. ASSUME NEW t \in Txns, NEW r \in {"explicit", "timeout"}, Rollback(t, r)
      PROVE  TypeOK'
  <2>1. Event("txn.rolled_back", t, r) \in
          [event : {"txn.conflict", "txn.rolled_back", "txn.committed"},
           txn : Txns, by : Callers \cup {"commit"} \cup Reasons]
    BY DEF Event, Reasons
  <2>2. /\ status' \in [Txns -> Statuses] /\ reason' \in [Txns -> Reasons]
        /\ ops' \in [Txns -> Seq(Ops)]
    BY <1>6 DEF Rollback, End, Statuses, Reasons
  <2>. QED
    BY <1>6, <2>1, <2>2 DEF Rollback, WithinOps
<1>7. ASSUME NEW c \in Callers, NEW t \in Txns, CommitCheck(c, t) PROVE TypeOK'
  <2>1. Len(journal) \in Nat
    OBVIOUS
  <2>2. checked' \in [Txns -> Nat]
    BY <1>7, <2>1 DEF CommitCheck
  <2> QED
    BY <1>7, <2>2 DEF CommitCheck, WithinOps, Sections
<1>8. ASSUME NEW c \in Callers, ReadOps(c) PROVE TypeOK'
  <2>1. todo' \in [Callers -> Seq(Ops)] /\ pc' \in [Callers -> Sections]
    BY <1>8 DEF ReadOps, Sections
  <2>2. \A d \in Callers : WithinOps(d)'
    BY <1>8 DEF ReadOps, WithinOps
  <2>. QED
    BY <1>8, <2>1, <2>2 DEF ReadOps
<1>9. ASSUME NEW c \in Callers, ApplyOp(c) PROVE TypeOK'
  <2>1. NextOp(c) \in Ops
    BY <1>9 DEF ApplyOp, NextOp
  <2>2. /\ files' \in [Files -> Txns \cup Agents \cup Marks]
        /\ heap' \subseteq Agents \X Keys \X Txns
        /\ mail' \in [Txns -> Nat]
    <3>1. Effect(txn[c], NextOp(c)) /\ txn[c] \in Txns /\ Owner[txn[c]] \in Agents
      BY <1>9, OwnerAssumption DEF ApplyOp
    <3>2. files' \in [Files -> Txns \cup Agents \cup Marks]
      BY <3>1 DEF Effect, FsWrites
    <3>3. heap' \subseteq Agents \X Keys \X Txns
      BY <3>1 DEF Effect, MemorySets
    <3>4. mail' \in [Txns -> Nat]
      BY <3>1 DEF Effect
    <3> QED
      BY <3>2, <3>3, <3>4
  <2>. QED
    BY <1>9, <2>2 DEF ApplyOp, Sections, WithinOps
<1>10. ASSUME NEW c \in Callers, RecordWrite(c) PROVE TypeOK'
  <2>1. NextOp(c) \in Ops
    BY <1>10 DEF RecordWrite, NextOp, WithinOps
  <2>2. [op |-> NextOp(c), txn |-> txn[c], agent |-> Owner[txn[c]]] \in WriteRecord
    BY <2>1, OwnerAssumption DEF WriteRecord
  <2>. QED
    <3>1. \A d \in Callers : WithinOps(d)'
      BY <1>10 DEF RecordWrite, WithinOps
    <3>2. /\ journal' \in Seq(WriteRecord) /\ pc' \in [Callers -> Sections]
          /\ done' \in [Callers -> Nat]
      BY <1>10, <2>2 DEF RecordWrite, Sections
    <3>. QED
      BY <1>10, <3>1, <3>2 DEF RecordWrite
<1>11. ASSUME NEW c \in Callers, ApplyFails(c) PROVE TypeOK'
  BY <1>11 DEF ApplyFails, WithinOps, Sections, Marks
<1>12. ASSUME NEW c \in Callers, UndoOp(c) PROVE TypeOK'
  <2>1. done' \in [Callers -> Nat] /\ \A d \in Callers : WithinOps(d)'
    BY <1>12 DEF UndoOp, WithinOps
  <2>2. files' \in [Files -> Txns \cup Agents \cup Marks]
    BY <1>12 DEF UndoOp, Marks
  <2>. QED
    BY <1>12, <2>1, <2>2 DEF UndoOp
<1>13. ASSUME NEW c \in Callers, Finish(c) PROVE TypeOK'
  <2>1. Event(Outcome(c), txn[c], c) \in
          [event : {"txn.conflict", "txn.rolled_back", "txn.committed"},
           txn : Txns, by : Callers \cup {"commit"} \cup Reasons]
    BY DEF Event, Outcome
  <2>2. status' \in [Txns -> Statuses] /\ reason' \in [Txns -> Reasons]
    BY <1>13 DEF Finish, End, Statuses, Reasons
  <2>3. /\ pc' \in [Callers -> Sections] /\ txn' \in [Callers -> Txns]
        /\ todo' \in [Callers -> Seq(Ops)] /\ done' \in [Callers -> Nat]
        /\ failed' \in [Callers -> BOOLEAN]
    <3>1. AnyTxn \in Txns
      BY OwnerAssumption DEF AnyTxn
    <3>2. Leave(c)
      BY <1>13 DEF Finish
    <3> QED
      BY <3>1, <3>2 DEF Leave, Sections
  <2>4. \A d \in Callers : WithinOps(d)'
    BY <1>13 DEF Finish, Leave, WithinOps
  <2>. QED
    BY <1>13, <2>1, <2>2, <2>3, <2>4 DEF Finish
<1>14. ASSUME NEW a \in Agents, NEW f \in Files, ExternalWrite(a, f) PROVE TypeOK'
  <2>1. files' \in [Files -> Txns \cup Agents \cup Marks] /\ direct' \subseteq [agent : Agents, file : Files]
    BY <1>14 DEF ExternalWrite
  <2>2. external' \in Nat
    BY <1>14 DEF ExternalWrite
  <2>3. \A d \in Callers : WithinOps(d)'
    BY <1>14 DEF ExternalWrite, WithinOps
  <2>. QED
    BY <1>14, <2>1, <2>2, <2>3 DEF ExternalWrite
<1>15. ASSUME NEW w \in direct, RecordExternalWrite(w) PROVE TypeOK'
  <2>1. [op |-> [type |-> "fs_write", key |-> w.file],
         txn |-> "external", agent |-> w.agent] \in WriteRecord
    BY <1>15 DEF WriteRecord, Ops, FsWrites
  <2>2. journal' \in Seq(WriteRecord) /\ direct' \subseteq [agent : Agents, file : Files]
    BY <1>15, <2>1 DEF RecordExternalWrite
  <2>3. \A d \in Callers : WithinOps(d)'
    BY <1>15 DEF RecordExternalWrite, WithinOps
  <2>. QED
    BY <1>15, <2>2, <2>3 DEF RecordExternalWrite
<1>16. ASSUME Restart PROVE TypeOK'
  <2>1. Len(journal) \in Nat
    OBVIOUS
  <2>2. status' \in [Txns -> Statuses] /\ reason' \in [Txns -> Reasons]
    BY <1>16 DEF Restart, Statuses, Reasons
  <2>3. /\ pc' \in [Callers -> Sections] /\ txn' \in [Callers -> Txns]
        /\ todo' \in [Callers -> Seq(Ops)] /\ done' \in [Callers -> Nat]
        /\ failed' \in [Callers -> BOOLEAN]
    BY <1>16, OwnerAssumption DEF Restart, AnyTxn, Sections
  <2>4. files' \in [Files -> Txns \cup Agents \cup Marks]
    BY <1>16 DEF Restart, Marks
  <2>5. \A d \in Callers : WithinOps(d)'
    BY <1>16 DEF Restart, WithinOps
  <2>. QED
    BY <1>16, <2>1, <2>2, <2>3, <2>4, <2>5 DEF Restart
<1>17. ASSUME UNCHANGED vars PROVE TypeOK'
  BY <1>17 DEF vars, WithinOps
<1>. QED
  BY <1>1, <1>2, <1>3, <1>4, <1>5, <1>6, <1>7, <1>8, <1>9, <1>10, <1>11, <1>12,
     <1>13, <1>14, <1>15, <1>16, <1>17
  DEF Next, Commit, ExplicitRollback, Watchdog

\* Every variable has its type in every reachable state.
THEOREM Typing == Spec => []TypeOK
  BY TypeInit, TypeStep, PTL DEF Spec

-----------------------------------------------------------------------------
\* A commit() runs only on a transaction that was begun.
CommitsBegun == \A c \in Callers : pc[c] # "idle" => status[txn[c]] # "absent"

\* The invariant that carries the two theorems below: what is visible of a
\* transaction was put there by a commit() that is running, or that has ended and
\* so has set the status.
EffectsInv == TypeOK /\ CommitsBegun /\ StagedInvisible

\* The steps that leave files, heap and messages as they are, and start no thread
\* and end none, make nothing visible.
LEMMA SameEffects ==
    ASSUME NEW t \in Txns, UNCHANGED effects
    PROVE  Visible(t)' <=> Visible(t)
  BY DEF Visible, effects

LEMMA EffectsInit == Init => EffectsInv
  BY TypeInit, NamesAssumption
  DEF Init, EffectsInv, CommitsBegun, StagedInvisible, Visible, Marks

\* Every step keeps the invariant.
LEMMA EffectsStep == EffectsInv /\ [Next]_vars => EffectsInv'
<1> SUFFICES ASSUME EffectsInv, [Next]_vars PROVE CommitsBegun' /\ StagedInvisible'
  BY TypeStep DEF EffectsInv
<1> USE DEF EffectsInv, TypeOK, record, book, locals, threads, writes, bounds
<1>1. ASSUME NEW t \in Txns, Begin(t) PROVE CommitsBegun' /\ StagedInvisible'
  BY <1>1, SameEffects DEF Begin, CommitsBegun, StagedInvisible, Committing
<1>2. ASSUME NEW t \in Txns, NEW op \in Ops, Stage(t, op)
      PROVE  CommitsBegun' /\ StagedInvisible'
  BY <1>2, SameEffects DEF Stage, CommitsBegun, StagedInvisible, Committing
<1>3. ASSUME NEW t \in Txns, TimePasses(t) PROVE CommitsBegun' /\ StagedInvisible'
  BY <1>3, SameEffects DEF TimePasses, CommitsBegun, StagedInvisible, Committing
<1>4. ASSUME NEW t \in Txns, CommitTooLate(t) PROVE CommitsBegun' /\ StagedInvisible'
  BY <1>4, SameEffects DEF CommitTooLate, End, CommitsBegun, StagedInvisible, Committing
<1>5. ASSUME NEW t \in Txns, CommitConflict(t) PROVE CommitsBegun' /\ StagedInvisible'
  BY <1>5, SameEffects DEF CommitConflict, End, CommitsBegun, StagedInvisible, Committing
<1>6. ASSUME NEW t \in Txns, NEW r \in {"explicit", "timeout"}, Rollback(t, r)
      PROVE  CommitsBegun' /\ StagedInvisible'
  BY <1>6, SameEffects DEF Rollback, End, CommitsBegun, StagedInvisible, Committing
<1>7. ASSUME NEW c \in Callers, NEW t \in Txns, CommitCheck(c, t)
      PROVE  CommitsBegun' /\ StagedInvisible'
  BY <1>7, SameEffects DEF CommitCheck, CommitsBegun, StagedInvisible, Committing
<1>8. ASSUME NEW c \in Callers, ReadOps(c) PROVE CommitsBegun' /\ StagedInvisible'
  BY <1>8, SameEffects DEF ReadOps, CommitsBegun, StagedInvisible, Committing
<1>9. ASSUME NEW c \in Callers, ApplyOp(c) PROVE CommitsBegun' /\ StagedInvisible'
  <2>1. CommitsBegun'
    BY <1>9 DEF ApplyOp, CommitsBegun
  <2>2. ASSUME NEW t \in Txns, Committing(t)' = {}
        PROVE  Committing(t) = {} /\ (Visible(t)' => Visible(t))
    <3>1. t # txn[c] /\ Committing(t) = {}
      BY <1>9, <2>2 DEF ApplyOp, Committing
    <3>. QED
      BY <1>9, <3>1 DEF ApplyOp, Effect, Visible
  <2>. QED
    BY <1>9, <2>1, <2>2 DEF ApplyOp, StagedInvisible
<1>10. ASSUME NEW c \in Callers, RecordWrite(c) PROVE CommitsBegun' /\ StagedInvisible'
  BY <1>10, SameEffects DEF RecordWrite, CommitsBegun, StagedInvisible, Committing
<1>11. ASSUME NEW c \in Callers, ApplyFails(c) PROVE CommitsBegun' /\ StagedInvisible'
  <2>1. ASSUME NEW t \in Txns, Visible(t)' PROVE Visible(t)
    BY <1>11, <2>1, NamesAssumption DEF ApplyFails, Visible, Marks
  <2>. QED
    BY <1>11, <2>1 DEF ApplyFails, CommitsBegun, StagedInvisible, Committing
<1>12. ASSUME NEW c \in Callers, UndoOp(c) PROVE CommitsBegun' /\ StagedInvisible'
  <2>1. ASSUME NEW t \in Txns, Visible(t)' PROVE Visible(t)
    BY <1>12, <2>1, NamesAssumption DEF UndoOp, Visible, Marks
  <2>. QED
    BY <1>12, <2>1 DEF UndoOp, CommitsBegun, StagedInvisible, Committing
<1>13. ASSUME NEW c \in Callers, Finish(c) PROVE CommitsBegun' /\ StagedInvisible'
  <2>1. status' = [status EXCEPT ![txn[c]] = IF failed[c] THEN "rolled_back" ELSE "committed"]
    BY <1>13 DEF Finish, End
  <2>2. CommitsBegun'
    BY <1>13, <2>1 DEF Finish, Leave, CommitsBegun
  <2>3. ASSUME NEW t \in Txns, t # txn[c], Committing(t)' = {} PROVE Committing(t) = {}
    BY <1>13, <2>3 DEF Finish, Leave, Committing
  <2>. QED
    BY <1>13, <2>1, <2>2, <2>3, SameEffects DEF Finish, StagedInvisible
<1>14. ASSUME NEW a \in Agents, NEW f \in Files, ExternalWrite(a, f)
       PROVE  CommitsBegun' /\ StagedInvisible'
  <2>1. ASSUME NEW t \in Txns, Visible(t)' PROVE Visible(t)
    BY <1>14, <2>1, NamesAssumption DEF ExternalWrite, Visible
  <2>. QED
    BY <1>14, <2>1 DEF ExternalWrite, CommitsBegun, StagedInvisible, Committing
<1>15. ASSUME NEW w \in direct, RecordExternalWrite(w)
       PROVE  CommitsBegun' /\ StagedInvisible'
  BY <1>15, SameEffects DEF RecordExternalWrite, CommitsBegun, StagedInvisible, Committing
<1>16. ASSUME Restart PROVE CommitsBegun' /\ StagedInvisible'
  <2>1. ASSUME NEW t \in Txns, status'[t] \in {"absent", "open"}
        PROVE  status[t] = "absent" /\ Committing(t) = {}
    BY <1>16, <2>1 DEF Restart, CommitsBegun, Committing
  <2>2. ASSUME NEW t \in Txns, Visible(t)' PROVE Visible(t)
    BY <1>16, <2>2, NamesAssumption DEF Restart, Visible, Marks
  <2>. QED
    BY <1>16, <2>1, <2>2 DEF Restart, CommitsBegun, StagedInvisible
<1>17. ASSUME UNCHANGED vars PROVE CommitsBegun' /\ StagedInvisible'
  BY <1>17, SameEffects DEF vars, CommitsBegun, StagedInvisible, Committing
<1>. QED
  BY <1>1, <1>2, <1>3, <1>4, <1>5, <1>6, <1>7, <1>8, <1>9, <1>10, <1>11, <1>12,
     <1>13, <1>14, <1>15, <1>16, <1>17
  DEF Next, Commit, ExplicitRollback, Watchdog

\* Nothing of an open transaction takes effect unless a commit() of it is past its
\* conflict check, however many threads there are and whoever else asks.
THEOREM Isolation == Spec => []StagedInvisible
<1>1. Spec => []EffectsInv
  BY EffectsInit, EffectsStep, PTL DEF Spec
<1>. QED
  BY <1>1, PTL DEF EffectsInv

-----------------------------------------------------------------------------
\* Every step other than a restart keeps AllClean: a transaction that
\* is dropped was open, and then StagedInvisible or a running commit() speaks for
\* it; a commit() that ends gives it another status or another reason.
AllClean == \A t \in Txns : Clean(t)

LEMMA TraceStep ==
    ASSUME EffectsInv, AllClean, [Next]_vars, ~Restart
    PROVE  AllClean'
<1> USE DEF AllClean, Clean, EffectsInv, TypeOK, record, book, locals, threads, writes, bounds
<1>1. ASSUME NEW t \in Txns, Begin(t) PROVE AllClean'
  BY <1>1, SameEffects DEF Begin, AllClean, Committing
<1>2. ASSUME NEW t \in Txns, NEW op \in Ops, Stage(t, op) PROVE AllClean'
  BY <1>2, SameEffects DEF Stage, AllClean, Committing
<1>3. ASSUME NEW t \in Txns, TimePasses(t) PROVE AllClean'
  BY <1>3, SameEffects DEF TimePasses, AllClean, Committing
<1>4. ASSUME NEW t \in Txns, CommitTooLate(t) PROVE AllClean'
  BY <1>4, SameEffects
  DEF CommitTooLate, End, AllClean, StagedInvisible, Committing
<1>5. ASSUME NEW t \in Txns, CommitConflict(t) PROVE AllClean'
  BY <1>5, SameEffects
  DEF CommitConflict, End, AllClean, StagedInvisible, Committing
<1>6. ASSUME NEW t \in Txns, NEW r \in {"explicit", "timeout"}, Rollback(t, r)
      PROVE  AllClean'
  BY <1>6, SameEffects
  DEF Rollback, End, AllClean, StagedInvisible, Committing
<1>7. ASSUME NEW c \in Callers, NEW t \in Txns, CommitCheck(c, t)
      PROVE  AllClean'
  BY <1>7, SameEffects DEF CommitCheck, AllClean, Committing
<1>8. ASSUME NEW c \in Callers, ReadOps(c) PROVE AllClean'
  BY <1>8, SameEffects DEF ReadOps, AllClean, Committing
<1>9. ASSUME NEW c \in Callers, ApplyOp(c) PROVE AllClean'
  <2>1. ASSUME NEW t \in Txns, Committing(t)' = {}
        PROVE  Committing(t) = {} /\ (Visible(t)' => Visible(t))
    <3>1. t # txn[c] /\ Committing(t) = {}
      BY <1>9, <2>1 DEF ApplyOp, Committing
    <3>. QED
      BY <1>9, <3>1 DEF ApplyOp, Effect, Visible
  <2>. QED
    BY <1>9, <2>1 DEF ApplyOp, AllClean
<1>10. ASSUME NEW c \in Callers, RecordWrite(c) PROVE AllClean'
  BY <1>10, SameEffects DEF RecordWrite, AllClean, Committing
<1>11. ASSUME NEW c \in Callers, ApplyFails(c) PROVE AllClean'
  <2>1. ASSUME NEW t \in Txns, Visible(t)' PROVE Visible(t)
    BY <1>11, <2>1, NamesAssumption DEF ApplyFails, Visible, Marks
  <2>. QED
    BY <1>11, <2>1 DEF ApplyFails, AllClean, Committing
<1>12. ASSUME NEW c \in Callers, UndoOp(c) PROVE AllClean'
  <2>1. ASSUME NEW t \in Txns, Visible(t)' PROVE Visible(t)
    BY <1>12, <2>1, NamesAssumption DEF UndoOp, Visible, Marks
  <2>. QED
    BY <1>12, <2>1 DEF UndoOp, AllClean, Committing
<1>13. ASSUME NEW c \in Callers, Finish(c) PROVE AllClean'
  <2>1. ASSUME NEW t \in Txns, t # txn[c], Committing(t)' = {} PROVE Committing(t) = {}
    BY <1>13, <2>1 DEF Finish, Leave, Committing
  <2>2. ASSUME NEW t \in Txns, t # txn[c]
        PROVE  status'[t] = status[t] /\ reason'[t] = reason[t]
    BY <1>13, <2>2 DEF Finish, End
  <2>3. \/ status'[txn[c]] = "committed"
        \/ reason'[txn[c]] = "op_failed"
    BY <1>13 DEF Finish, End
  <2>. QED
    BY <1>13, <2>1, <2>2, <2>3, SameEffects DEF Finish, AllClean
<1>14. ASSUME NEW a \in Agents, NEW f \in Files, ExternalWrite(a, f)
       PROVE  AllClean'
  <2>1. ASSUME NEW t \in Txns, Visible(t)' PROVE Visible(t)
    BY <1>14, <2>1, NamesAssumption DEF ExternalWrite, Visible
  <2>. QED
    BY <1>14, <2>1 DEF ExternalWrite, AllClean, Committing
<1>15. ASSUME NEW w \in direct, RecordExternalWrite(w) PROVE AllClean'
  BY <1>15, SameEffects DEF RecordExternalWrite, AllClean, Committing
<1>16. ASSUME UNCHANGED vars PROVE AllClean'
  BY <1>16, SameEffects DEF vars, AllClean, Committing
<1>. QED
  BY <1>1, <1>2, <1>3, <1>4, <1>5, <1>6, <1>7, <1>8, <1>9, <1>10, <1>11, <1>12,
     <1>13, <1>14, <1>15, <1>16
  DEF Next, Commit, ExplicitRollback, Watchdog

\* Until the server restarts, a transaction dropped by a conflict, a timeout or a
\* rollback() leaves nothing behind once the commits of it have returned, however
\* they raced.
THEOREM NoTrace == Spec => []DroppedLeavesNoTrace
<1> DEFINE Inv == EffectsInv /\ DroppedLeavesNoTrace
<1>1. Init => Inv
  BY EffectsInit DEF Init, DroppedLeavesNoTrace, Clean
<1>2. Inv /\ [Next]_vars => Inv'
  <2> SUFFICES ASSUME Inv, [Next]_vars, crashes' = 0 PROVE AllClean'
    BY EffectsStep DEF DroppedLeavesNoTrace, AllClean
  <2>1. crashes \in Nat
    BY DEF EffectsInv, TypeOK
  <2>2. ~Restart
    BY <2>1 DEF Restart
  <2>3. crashes' = crashes
    BY <2>2 DEF Next, Begin, CommitTooLate, CommitConflict, ExplicitRollback, TimePasses,
       Watchdog, Rollback, Stage, CommitCheck, Commit, ReadOps, ApplyOp, RecordWrite,
       ApplyFails, UndoOp, Finish, ExternalWrite, RecordExternalWrite, vars, bounds
  <2>. QED
    BY <2>2, <2>3, TraceStep DEF DroppedLeavesNoTrace, AllClean
<1>. QED
  BY <1>1, <1>2, PTL DEF Spec

-----------------------------------------------------------------------------
(* Agents that wait for their commits (Sequential). *)

\* No two threads commit the same transaction.
OneThread ==
    \A c, d \in Callers : pc[c] # "idle" /\ pc[d] # "idle" /\ txn[c] = txn[d] => c = d

\* Thread c wrote file f, and has not undone it.
Wrote(c, f) ==
    \E i \in 1..Len(todo[c]) :
        /\ todo[c][i] \in FsWrites /\ todo[c][i].key = f
        /\ i <= done[c] \/ (pc[c] = "record" /\ i = done[c] + 1)

\* A thread undoes because an operation failed.
Undoes(c) == failed[c] <=> pc[c] = "undo"

\* Every file that holds what a thread's transaction wrote was written by it.
Owns(c) ==
    pc[c] # "idle" => /\ reason[txn[c]] # "op_failed"
                      /\ status[txn[c]] # "committed"
                      /\ \A f \in Files : files[f] = txn[c] => Wrote(c, f)

CommitInv(c) == Undoes(c) /\ Owns(c)

\* A commit that failed has ended its transaction, and no file is left of it.
FailedInv(t) ==
    reason[t] = "op_failed" => /\ status[t] \notin {"absent", "open"}
                               /\ \A f \in Files : files[f] # t

SerialInv == /\ EffectsInv
             /\ OneThread
             /\ \A c \in Callers : CommitInv(c)
             /\ \A t \in Txns : FailedInv(t)

LEMMA SerialInit == Init => SerialInv
  BY EffectsInit DEF Init, SerialInv, OneThread, CommitInv, Undoes, Owns, FailedInv

\* Every step keeps it, if nothing is asked of a transaction while it is committed.
LEMMA SerialStep ==
    ASSUME Sequential, SerialInv, [Next]_vars
    PROVE  SerialInv'
<1>0. EffectsInv'
  BY EffectsStep DEF SerialInv
<1> SUFFICES /\ OneThread'
             /\ \A c \in Callers : CommitInv(c)'
             /\ \A t \in Txns : FailedInv(t)'
  BY <1>0 DEF SerialInv
<1> USE DEF SerialInv, EffectsInv, TypeOK, record, book, locals, threads, writes, effects, bounds
<1>1. ASSUME UNCHANGED <<threads, files, status, reason>>
      PROVE  OneThread' /\ (\A c \in Callers : CommitInv(c)') /\ \A t \in Txns : FailedInv(t)'
  BY <1>1 DEF OneThread, CommitInv, Undoes, Owns, FailedInv, Wrote
<1>2. ASSUME NEW t \in Txns, NEW s \in {"open", "rolled_back"}, status[t] \in {"absent", "open"},
             NEW r \in Reasons \ {"op_failed"},
             status' = [status EXCEPT ![t] = s], reason' = [reason EXCEPT ![t] = r],
             UNCHANGED <<threads, files>>
      PROVE  OneThread' /\ (\A c \in Callers : CommitInv(c)') /\ \A u \in Txns : FailedInv(u)'
  BY <1>2 DEF OneThread, CommitInv, Undoes, Owns, FailedInv, Wrote
<1>3. ASSUME NEW t \in Txns, Begin(t) PROVE FailedInv(t) /\ reason[t] \in Reasons \ {"op_failed"}
  BY <1>3 DEF Begin, FailedInv
<1>4. ASSUME NEW t \in Txns, Begin(t) \/ CommitTooLate(t) \/ CommitConflict(t)
                             \/ Rollback(t, "explicit") \/ Rollback(t, "timeout")
      PROVE  OneThread' /\ (\A c \in Callers : CommitInv(c)') /\ \A u \in Txns : FailedInv(u)'
  <2>1. CASE Begin(t)
    <3>1. /\ status[t] = "absent" /\ UNCHANGED <<threads, files>>
          /\ status' = [status EXCEPT ![t] = "open"] /\ reason' = [reason EXCEPT ![t] = reason[t]]
      BY <2>1 DEF Begin
    <3> QED
      BY <1>2, <1>3, <2>1, <3>1
  <2>2. CASE CommitTooLate(t)
    BY <1>2, <2>2 DEF CommitTooLate, End, Reasons
  <2>3. CASE CommitConflict(t)
    BY <1>2, <2>3 DEF CommitConflict, End, Reasons
  <2>4. CASE Rollback(t, "explicit")
    BY <1>2, <2>4 DEF Rollback, End, Reasons
  <2>5. CASE Rollback(t, "timeout")
    BY <1>2, <2>5 DEF Rollback, End, Reasons
  <2> QED
    BY <1>4, <2>1, <2>2, <2>3, <2>4, <2>5
<1>5. ASSUME NEW c \in Callers, NEW t \in Txns, CommitCheck(c, t)
      PROVE  OneThread' /\ (\A d \in Callers : CommitInv(d)') /\ \A u \in Txns : FailedInv(u)'
  <2>1. /\ Committing(t) = {} /\ status[t] = "open" /\ pc[c] = "idle"
        /\ pc' = [pc EXCEPT ![c] = "checked"] /\ txn' = [txn EXCEPT ![c] = t]
        /\ UNCHANGED <<status, reason, files, todo, done, failed>>
    BY <1>5 DEF CommitCheck, MayAsk
  <2>2. \A f \in Files : files[f] # t
    BY <2>1 DEF StagedInvisible, Visible
  <2>3. \A d \in Callers : d # c => pc'[d] = pc[d] /\ txn'[d] = txn[d] /\ (pc[d] # "idle" => txn[d] # t)
    BY <2>1 DEF Committing
  <2>4. OneThread'
    BY <2>1, <2>3 DEF OneThread
  <2>5. \A d \in Callers : CommitInv(d)'
    BY <2>1, <2>2, <2>3 DEF CommitInv, Undoes, Owns, FailedInv, Wrote
  <2> QED
    BY <2>1, <2>4, <2>5 DEF FailedInv
<1>6. ASSUME NEW c \in Callers, ReadOps(c)
      PROVE  OneThread' /\ (\A d \in Callers : CommitInv(d)') /\ \A u \in Txns : FailedInv(u)'
  <2>1. /\ pc[c] = "checked" /\ pc' = [pc EXCEPT ![c] = "apply"] /\ done[c] = 0
        /\ UNCHANGED <<status, reason, files, txn, done, failed>>
        /\ \A d \in Callers : d # c => pc'[d] = pc[d] /\ todo'[d] = todo[d]
    BY <1>6 DEF ReadOps, WithinOps
  <2>2. \A f \in Files : ~Wrote(c, f)
    BY <2>1 DEF Wrote
  <2>3. \A d \in Callers : CommitInv(d)'
    <3>1. \A d \in Callers : Undoes(d)'
      BY <2>1 DEF CommitInv, Undoes
    <3>2. \A d \in Callers : d # c => \A f \in Files : Wrote(d, f)' <=> Wrote(d, f)
      BY <2>1 DEF Wrote
    <3>3. \A d \in Callers : Owns(d)'
      BY <2>1, <2>2, <3>2 DEF CommitInv, Owns
    <3> QED
      BY <3>1, <3>3 DEF CommitInv
  <2> QED
    BY <2>1, <2>3 DEF OneThread, FailedInv
<1>7. ASSUME NEW c \in Callers, ApplyOp(c)
      PROVE  OneThread' /\ (\A d \in Callers : CommitInv(d)') /\ \A u \in Txns : FailedInv(u)'
  <2>1. /\ pc[c] = "apply" /\ pc' = [pc EXCEPT ![c] = "record"] /\ done[c] < Len(todo[c])
        /\ UNCHANGED <<status, reason, txn, todo, done, failed>>
    BY <1>7 DEF ApplyOp
  <2>2. \A f \in Files : \/ files'[f] = files[f]
                         \/ files'[f] = txn[c] /\ NextOp(c) \in FsWrites /\ NextOp(c).key = f
    BY <1>7 DEF ApplyOp, Effect
  <2>3. ASSUME NEW f \in Files, files'[f] = txn[c] PROVE Wrote(c, f)'
    <3>1. CASE files[f] = txn[c]
      BY <2>1, <3>1 DEF CommitInv, Undoes, Owns, Wrote
    <3>2. CASE NextOp(c) \in FsWrites /\ NextOp(c).key = f
      <4>1. done[c] + 1 \in 1..Len(todo[c])
        BY <2>1
      <4> QED
        BY <2>1, <3>2, <4>1 DEF NextOp, Wrote
    <3> QED
      BY <2>2, <2>3, <3>1, <3>2
  <2>4. \A d \in Callers : d # c /\ pc[d] # "idle" => txn[d] # txn[c]
    BY <2>1 DEF OneThread
  <2>5. \A d \in Callers : CommitInv(d)'
    <3>1. \A d \in Callers : Undoes(d)'
      BY <2>1 DEF CommitInv, Undoes
    <3>2. \A d \in Callers : d # c => \A f \in Files : Wrote(d, f)' <=> Wrote(d, f)
      BY <2>1 DEF Wrote
    <3>3. \A d \in Callers : Owns(d)'
      BY <2>1, <2>2, <2>3, <2>4, <3>2 DEF CommitInv, Owns
    <3> QED
      BY <3>1, <3>3 DEF CommitInv
  <2>6. \A u \in Txns : FailedInv(u)'
    BY <2>1, <2>2 DEF CommitInv, Undoes, Owns, FailedInv
  <2> QED
    BY <2>1, <2>5, <2>6 DEF OneThread
<1>8. ASSUME NEW c \in Callers, RecordWrite(c)
      PROVE  OneThread' /\ (\A d \in Callers : CommitInv(d)') /\ \A u \in Txns : FailedInv(u)'
  <2>1. /\ pc[c] = "record" /\ pc' = [pc EXCEPT ![c] = "apply"]
        /\ done' = [done EXCEPT ![c] = done[c] + 1]
        /\ UNCHANGED <<status, reason, files, txn, todo, failed>>
    BY <1>8 DEF RecordWrite
  <2>2. \A f \in Files : Wrote(c, f) => Wrote(c, f)'
    BY <2>1 DEF Wrote
  <2>3. \A d \in Callers : CommitInv(d)'
    <3>1. \A d \in Callers : Undoes(d)'
      BY <2>1 DEF CommitInv, Undoes
    <3>2. \A d \in Callers : d # c => \A f \in Files : Wrote(d, f)' <=> Wrote(d, f)
      BY <2>1 DEF Wrote
    <3>3. \A d \in Callers : Owns(d)'
      BY <2>1, <2>2, <3>2 DEF CommitInv, Owns
    <3> QED
      BY <3>1, <3>3 DEF CommitInv
  <2> QED
    BY <2>1, <2>3 DEF OneThread, FailedInv
<1>9. ASSUME NEW c \in Callers, ApplyFails(c)
      PROVE  OneThread' /\ (\A d \in Callers : CommitInv(d)') /\ \A u \in Txns : FailedInv(u)'
  <2>1. /\ pc[c] = "apply" /\ pc' = [pc EXCEPT ![c] = "undo"]
        /\ failed' = [failed EXCEPT ![c] = TRUE]
        /\ UNCHANGED <<status, reason, txn, todo, done>>
    BY <1>9 DEF ApplyFails
  <2>2. \A t \in Txns, f \in Files : files'[f] = t => files[f] = t
    BY <1>9, NamesAssumption DEF ApplyFails, Marks
  <2>3. \A d \in Callers : CommitInv(d)'
    BY <2>1, <2>2 DEF CommitInv, Undoes, Owns, Wrote
  <2> QED
    BY <2>1, <2>2, <2>3 DEF OneThread, FailedInv
<1>10. ASSUME NEW c \in Callers, UndoOp(c)
       PROVE  OneThread' /\ (\A d \in Callers : CommitInv(d)') /\ \A u \in Txns : FailedInv(u)'
  <2>1. /\ pc[c] = "undo" /\ done[c] > 0 /\ done' = [done EXCEPT ![c] = done[c] - 1]
        /\ UNCHANGED <<status, reason, pc, txn, todo, failed>>
    BY <1>10 DEF UndoOp
  <2>2. \A t \in Txns, f \in Files : files'[f] = t => files[f] = t
    BY <1>10, NamesAssumption DEF UndoOp, Marks
  <2>3. ASSUME NEW f \in Files, files'[f] = txn[c] PROVE Wrote(c, f)'
    <3>1. PICK i \in 1..Len(todo[c]) : /\ todo[c][i] \in FsWrites /\ todo[c][i].key = f
                                       /\ i <= done[c]
      <4>1. Wrote(c, f)
        BY <2>1, <2>2, <2>3 DEF CommitInv, Owns
      <4> QED
        BY <2>1, <4>1 DEF Wrote
    <3>2. i # done[c]
      BY <1>10, <2>3, <3>1, NamesAssumption DEF UndoOp, Marks
    <3> QED
      BY <2>1, <3>1, <3>2 DEF Wrote
  <2>4. \A d \in Callers : CommitInv(d)'
    <3>1. \A d \in Callers : Undoes(d)'
      BY <2>1 DEF CommitInv, Undoes
    <3>2. \A d \in Callers : d # c => \A f \in Files : Wrote(d, f)' <=> Wrote(d, f)
      BY <2>1 DEF Wrote
    <3>3. \A d \in Callers : Owns(d)'
      BY <2>1, <2>2, <2>3, <3>2 DEF CommitInv, Owns
    <3> QED
      BY <3>1, <3>3 DEF CommitInv
  <2> QED
    BY <2>1, <2>2, <2>4 DEF OneThread, FailedInv
<1>11. ASSUME NEW c \in Callers, Finish(c)
       PROVE  OneThread' /\ (\A d \in Callers : CommitInv(d)') /\ \A u \in Txns : FailedInv(u)'
  <2> PICK t : t = txn[c]
    OBVIOUS
  <2>1. /\ t \in Txns /\ pc[c] # "idle" /\ Finishing(c) /\ UNCHANGED files
        /\ \A u \in Txns \ {t} : status'[u] = status[u] /\ reason'[u] = reason[u]
        /\ IF failed[c] THEN status'[t] = "rolled_back"
                        ELSE reason'[t] = reason[t]
    BY <1>11 DEF Finish, Finishing, End
  <2>2. /\ pc'[c] = "idle" /\ failed'[c] = FALSE
        /\ \A d \in Callers : d # c => /\ pc'[d] = pc[d] /\ txn'[d] = txn[d] /\ todo'[d] = todo[d]
                                       /\ done'[d] = done[d] /\ failed'[d] = failed[d]
    BY <1>11 DEF Finish, Leave
  <2>3. \A d \in Callers : d # c /\ pc[d] # "idle" => txn[d] # t
    BY <2>1 DEF OneThread
  <2>4. OneThread'
    <3> SUFFICES ASSUME NEW d \in Callers, NEW e \in Callers,
                        pc'[d] # "idle", pc'[e] # "idle", txn'[d] = txn'[e]
                 PROVE  d = e
      BY DEF OneThread
    <3>1. d # c /\ e # c
      BY <2>2
    <3>2. pc[d] # "idle" /\ pc[e] # "idle" /\ txn[d] = txn[e]
      BY <2>2, <3>1
    <3> QED
      BY <3>2 DEF OneThread
  <2>5. \A d \in Callers : CommitInv(d)'
    <3>1. \A d \in Callers : Undoes(d)'
      BY <2>2 DEF CommitInv, Undoes
    <3>2. \A d \in Callers : d # c => \A f \in Files : Wrote(d, f)' <=> Wrote(d, f)
      BY <2>2 DEF Wrote
    <3>3. ASSUME NEW d \in Callers, pc'[d] # "idle" PROVE Owns(d)'
      <4>1. d # c /\ pc[d] = pc'[d] /\ txn'[d] = txn[d] /\ txn[d] \in Txns \ {t}
        BY <2>2, <2>3, <3>3
      <4>2. /\ reason'[txn[d]] = reason[txn[d]] /\ status'[txn[d]] = status[txn[d]]
            /\ UNCHANGED files
        BY <2>1, <4>1
      <4>3. Owns(d)
        BY DEF CommitInv
      <4> QED
        BY <3>2, <4>1, <4>2, <4>3 DEF Owns
    <3>4. \A d \in Callers : Owns(d)'
      BY <3>3 DEF Owns
    <3> QED
      BY <3>1, <3>4 DEF CommitInv
  <2>6. failed[c] => \A f \in Files : files[f] # t
    <3>1. failed[c] => pc[c] = "undo"
      BY DEF CommitInv, Undoes
    <3>2. pc[c] = "undo" => done[c] = 0
      BY <2>1 DEF Finishing
    <3>3. pc[c] = "undo" => \A f \in Files : ~Wrote(c, f)
      BY <3>2 DEF Wrote
    <3> QED
      BY <2>1, <3>1, <3>3 DEF CommitInv, Owns
  <2>7. \A u \in Txns : FailedInv(u)'
    <3> SUFFICES ASSUME NEW u \in Txns PROVE FailedInv(u)'
      OBVIOUS
    <3>1. CASE u # t
      <4>1. status'[u] = status[u] /\ reason'[u] = reason[u] /\ files' = files
        BY <2>1, <3>1
      <4>2. FailedInv(u)
        OBVIOUS
      <4> QED
        BY <4>1, <4>2 DEF FailedInv
    <3>2. CASE u = t /\ failed[c]
      <4>1. status'[t] = "rolled_back" /\ files' = files
        BY <2>1, <3>2
      <4> QED
        BY <2>6, <3>2, <4>1 DEF FailedInv
    <3>3. CASE u = t /\ ~failed[c]
      <4>1. reason'[t] = reason[t]
        BY <2>1, <3>3
      <4>2. reason[t] # "op_failed"
        BY <2>1 DEF CommitInv, Owns
      <4> QED
        BY <3>3, <4>1, <4>2 DEF FailedInv
    <3> QED
      BY <3>1, <3>2, <3>3
  <2> QED
    BY <2>4, <2>5, <2>7
<1>12. ASSUME NEW a \in Agents, NEW f \in Files, ExternalWrite(a, f)
       PROVE  OneThread' /\ (\A d \in Callers : CommitInv(d)') /\ \A u \in Txns : FailedInv(u)'
  <2>1. UNCHANGED <<threads, status, reason>>
    BY <1>12 DEF ExternalWrite
  <2>2. \A t \in Txns, g \in Files : files'[g] = t => files[g] = t
    BY <1>12, NamesAssumption DEF ExternalWrite
  <2>3. \A d \in Callers : Undoes(d)' /\ \A g \in Files : Wrote(d, g)' <=> Wrote(d, g)
    BY <2>1 DEF CommitInv, Undoes, Wrote
  <2>4. \A d \in Callers : Owns(d)'
    BY <2>1, <2>2, <2>3 DEF CommitInv, Owns
  <2> QED
    BY <2>1, <2>2, <2>3, <2>4 DEF OneThread, CommitInv, FailedInv
<1>13. ASSUME Restart
       PROVE  OneThread' /\ (\A d \in Callers : CommitInv(d)') /\ \A u \in Txns : FailedInv(u)'
  <2>1. \A d \in Callers : pc'[d] = "idle" /\ failed'[d] = FALSE
    BY <1>13 DEF Restart
  <2>2. \A t \in Txns, g \in Files : files'[g] = t => files[g] = t
    BY <1>13, NamesAssumption DEF Restart, Marks
  <2>3. \A t \in Txns : reason'[t] = "op_failed" => reason[t] = "op_failed"
    BY <1>13 DEF Restart
  <2>4. \A t \in Txns : status'[t] \in {"absent", "open"} => status[t] \in {"absent", "open"}
    BY <1>13 DEF Restart
  <2> QED
    BY <2>1, <2>2, <2>3, <2>4 DEF OneThread, CommitInv, Undoes, Owns, FailedInv
<1>14. ASSUME \/ \E t \in Txns : TimePasses(t) \/ \E op \in Ops : Stage(t, op)
              \/ \E w \in direct : RecordExternalWrite(w)
              \/ UNCHANGED vars
       PROVE  OneThread' /\ (\A d \in Callers : CommitInv(d)') /\ \A u \in Txns : FailedInv(u)'
  BY <1>1, <1>14 DEF TimePasses, Stage, RecordExternalWrite, vars
<1> QED
  BY <1>4, <1>5, <1>6, <1>7, <1>8, <1>9, <1>10, <1>11, <1>12, <1>13, <1>14
  DEF Next, Commit, ExplicitRollback, Watchdog

\* Where agents wait for their commits, a commit that failed leaves no file that it
\* wrote, however many threads commit and whatever they and the watchdog do.
THEOREM Undone ==
    ASSUME Sequential
    PROVE  Spec => []FailedCommitLeavesNoFile
<1>1. SerialInv /\ [Next]_vars => SerialInv'
  BY SerialStep
<1>2. SerialInv => FailedCommitLeavesNoFile
  BY DEF SerialInv, FailedInv, FailedCommitLeavesNoFile
<1> QED
  BY SerialInit, <1>1, <1>2, PTL DEF Spec

-----------------------------------------------------------------------------
(* The journal and the operations that were staged. *)

\* One more write is recorded: it is the last of its transaction's, and it moves
\* no other.
LEMMA JournalGrows ==
    ASSUME TypeOK, NEW r \in WriteRecord, journal' = Append(journal, r), NEW t \in Txns
    PROVE  /\ Len(journal)' = Len(journal) + 1 /\ journal'[Len(journal) + 1] = r
           /\ \A i \in DOMAIN journal : journal'[i] = journal[i]
           /\ \A i \in Mine(t) : i \in DOMAIN journal /\ Nth(t, i)' = Nth(t, i)
           /\ r.txn # t => Mine(t)' = Mine(t)
           /\ r.txn = t => /\ Mine(t)' = Mine(t) \cup {Len(journal) + 1}
                           /\ Cardinality(Mine(t))' = Cardinality(Mine(t)) + 1
                           /\ \A i : i = Len(journal) + 1 =>
                                    Nth(t, i)' = Cardinality(Mine(t)) + 1
<1> DEFINE n == Len(journal)
<1>1. n \in Nat /\ DOMAIN journal = 1..n
  BY DEF TypeOK
<1>2. /\ Len(journal') = n + 1 /\ journal'[n + 1] = r /\ DOMAIN journal' = 1..(n + 1)
      /\ \A i \in 1..n : journal'[i] = journal[i]
  BY <1>1 DEF TypeOK
<1> HIDE DEF n
<1>3. Mine(t) = {i \in 1..n : journal[i].txn = t}
  BY <1>1 DEF Mine
<1>4. Mine(t)' = {i \in 1..(n + 1) : journal'[i].txn = t}
  BY <1>2 DEF Mine
<1>5. Mine(t) \subseteq Mine(t)' /\ Mine(t)' \subseteq Mine(t) \cup {n + 1}
  BY <1>1, <1>2, <1>3, <1>4
<1>6. n + 1 \in Mine(t)' <=> r.txn = t
  BY <1>1, <1>2, <1>4
<1>7. n + 1 \notin Mine(t)
  BY <1>1, <1>3
<1>8. IsFiniteSet(Mine(t))
  <2>1. IsFiniteSet(1..n)
    BY <1>1, FS_Interval
  <2> QED
    BY <2>1, <1>3, FS_Subset
<1>9. r.txn # t => Mine(t)' = Mine(t)
  BY <1>5, <1>6
<1>10. r.txn = t => Mine(t)' = Mine(t) \cup {n + 1}
  BY <1>5, <1>6
<1>11. r.txn = t => Cardinality(Mine(t)') = Cardinality(Mine(t)) + 1
  BY <1>7, <1>8, <1>10, FS_AddElement
<1>12. ASSUME NEW i \in Mine(t) PROVE Nth(t, i)' = Nth(t, i)
  <2>1. {j \in Mine(t)' : j <= i} = {j \in Mine(t) : j <= i}
    BY <1>1, <1>3, <1>5
  <2> QED
    BY <2>1 DEF Nth
<1>13. ASSUME NEW i, i = n + 1 PROVE Nth(t, i)' = Cardinality(Mine(t)')
  <2>1. \A j \in Mine(t)' : j <= n + 1
    BY <1>1, <1>4
  <2>2. {j \in Mine(t)' : j <= i} = Mine(t)'
    BY <1>13, <2>1
  <2> QED
    BY <2>2 DEF Nth
<1> QED
  BY <1>1, <1>2, <1>3, <1>9, <1>10, <1>11, <1>12, <1>13 DEF n

\* What the writes recorded for t say about the operations it staged.
StagedAs(t) ==
    \A i \in Mine(t) : \/ ops[t] = <<>>
                       \/ Nth(t, i) <= Len(ops[t]) /\ ops[t][Nth(t, i)] = journal[i].op

\* Nothing is recorded for a transaction before a commit() of it runs, and all
\* it staged when it is committed.
RecordsOf(t) ==
    /\ StagedAs(t)
    /\ status[t] \in {"absent", "open"} /\ Committing(t) = {} => Mine(t) = {}
    /\ status[t] = "committed" => Cardinality(Mine(t)) >= Len(ops[t])

\* A thread's operations are those of its transaction, unless a rollback took
\* them away, and until one fails it has recorded those that it has applied.
Counted(c) ==
    pc[c] # "idle" =>
        /\ pc[c] # "checked" => ops[txn[c]] \in {<<>>, todo[c]}
        /\ pc[c] # "undo" => Cardinality(Mine(txn[c])) = done[c]

RecordsInv == /\ SerialInv
              /\ \A t \in Txns : RecordsOf(t)
              /\ \A c \in Callers : Counted(c)

LEMMA RecordsInit == Init => RecordsInv
<1> SUFFICES ASSUME Init PROVE RecordsInv
  OBVIOUS
<1>1. \A t \in Txns : Mine(t) = {}
  BY DEF Init, Mine
<1> QED
  BY <1>1, SerialInit DEF Init, RecordsInv, RecordsOf, StagedAs, Counted

\* A step that records nothing keeps what was recorded.
LEMMA SameRecords ==
    ASSUME UNCHANGED journal, NEW t
    PROVE  Mine(t)' = Mine(t) /\ \A i : Nth(t, i)' = Nth(t, i)
  BY DEF Mine, Nth

\* The steps that record nothing, stage nothing and start or end no commit.
LEMMA RecordsKept ==
    ASSUME RecordsInv, UNCHANGED <<journal, ops, txn, todo>>,
           \A c \in Callers : /\ (pc'[c] = "idle" <=> pc[c] = "idle")
                              /\ (pc'[c] = "checked" <=> pc[c] = "checked")
                              /\ pc'[c] # "undo" => pc[c] # "undo" /\ done'[c] = done[c],
           \A t \in Txns : /\ status'[t] \in {"absent", "open"} => status[t] \in {"absent", "open"}
                           /\ status'[t] = "committed" => status[t] = "committed"
    PROVE  (\A t \in Txns : RecordsOf(t)') /\ \A c \in Callers : Counted(c)'
<1>1. \A t \in Txns : Committing(t)' = Committing(t)
  BY DEF Committing
<1>2. \A t \in Txns : StagedAs(t)'
  BY SameRecords DEF RecordsInv, RecordsOf, StagedAs
<1>3. \A t \in Txns : RecordsOf(t)'
  BY <1>1, <1>2, SameRecords DEF RecordsInv, RecordsOf
<1>4. \A c \in Callers : Counted(c)'
  BY SameRecords DEF RecordsInv, Counted
<1> QED
  BY <1>3, <1>4

\* Every step keeps it, if nothing is asked of a transaction while it is committed.
LEMMA RecordsStep ==
    ASSUME Sequential, RecordsInv, [Next]_vars
    PROVE  RecordsInv'
<1>0. SerialInv'
  BY SerialStep DEF RecordsInv
<1> SUFFICES (\A u \in Txns : RecordsOf(u)') /\ \A d \in Callers : Counted(d)'
  BY <1>0 DEF RecordsInv
<1>a. TypeOK /\ OneThread /\ CommitsBegun
  BY DEF RecordsInv, SerialInv, EffectsInv
<1> USE DEF record, book, locals, threads, writes, effects, bounds
<1>1. ASSUME NEW t \in Txns, Begin(t) \/ CommitTooLate(t) \/ CommitConflict(t) \/ TimePasses(t)
      PROVE  (\A u \in Txns : RecordsOf(u)') /\ \A d \in Callers : Counted(d)'
  <2>1. CASE Begin(t)
    BY <1>a, <2>1, RecordsKept DEF Begin, TypeOK
  <2>2. CASE CommitTooLate(t)
    BY <1>a, <2>2, RecordsKept DEF CommitTooLate, End, TypeOK
  <2>3. CASE CommitConflict(t)
    BY <1>a, <2>3, RecordsKept DEF CommitConflict, End, TypeOK
  <2>4. CASE TimePasses(t)
    BY <2>4, RecordsKept DEF TimePasses
  <2> QED
    BY <1>1, <2>1, <2>2, <2>3, <2>4
<1>2. ASSUME NEW t \in Txns, NEW why, Rollback(t, why) PROVE (\A u \in Txns : RecordsOf(u)') /\ \A d \in Callers : Counted(d)'
  <2>1. /\ UNCHANGED <<journal, threads>> /\ ops' = [ops EXCEPT ![t] = <<>>]
        /\ status' = [status EXCEPT ![t] = "rolled_back"]
    BY <1>2 DEF Rollback, End
  <2>2. ops'[t] = <<>> /\ status'[t] = "rolled_back"
        /\ \A u \in Txns \ {t} : ops'[u] = ops[u] /\ status'[u] = status[u]
    BY <1>a, <2>1 DEF TypeOK
  <2>3. \A u \in Txns : StagedAs(u)'
    BY <2>1, <2>2, SameRecords DEF RecordsInv, RecordsOf, StagedAs
  <2>4. \A u \in Txns : RecordsOf(u)'
    BY <2>1, <2>2, <2>3, SameRecords DEF RecordsInv, RecordsOf, Committing
  <2>5. \A d \in Callers : txn[d] \in Txns
    BY <1>a DEF TypeOK
  <2>6. \A d \in Callers : Counted(d)'
    BY <2>1, <2>2, <2>5, SameRecords DEF RecordsInv, Counted
  <2> QED
    BY <2>4, <2>6
<1>3. ASSUME NEW t \in Txns, NEW op \in Ops, Stage(t, op) PROVE (\A u \in Txns : RecordsOf(u)') /\ \A d \in Callers : Counted(d)'
  <2>1. /\ UNCHANGED <<journal, threads, status>> /\ ops' = [ops EXCEPT ![t] = Append(ops[t], op)]
        /\ status[t] = "open" /\ Committing(t) = {}
    BY <1>3 DEF Stage, MayAsk
  <2>2. \A u \in Txns \ {t} : ops'[u] = ops[u]
    BY <1>a, <2>1 DEF TypeOK
  <2>3. Mine(t)' = {}
    BY <2>1, SameRecords DEF RecordsInv, RecordsOf
  <2>4. \A u \in Txns : StagedAs(u)'
    BY <2>1, <2>2, <2>3, SameRecords DEF RecordsInv, RecordsOf, StagedAs
  <2>5. \A u \in Txns : RecordsOf(u)'
    BY <2>1, <2>2, <2>3, <2>4, SameRecords DEF RecordsInv, RecordsOf, Committing
  <2>6. \A d \in Callers : pc[d] # "idle" => txn[d] \in Txns \ {t}
    BY <1>a, <2>1 DEF TypeOK, Committing
  <2>7. \A d \in Callers : Counted(d)'
    BY <2>1, <2>2, <2>6, SameRecords DEF RecordsInv, Counted
  <2> QED
    BY <2>5, <2>7
<1>4. ASSUME NEW c \in Callers, NEW t \in Txns, CommitCheck(c, t) PROVE (\A u \in Txns : RecordsOf(u)') /\ \A d \in Callers : Counted(d)'
  <2>1. /\ UNCHANGED <<journal, ops, status, todo, done>>
        /\ status[t] = "open" /\ Committing(t) = {} /\ pc[c] = "idle" /\ done[c] = 0
        /\ pc'[c] = "checked" /\ txn'[c] = t
        /\ \A d \in Callers \ {c} : pc'[d] = pc[d] /\ txn'[d] = txn[d]
    BY <1>4, <1>a DEF CommitCheck, MayAsk, TypeOK, WithinOps
  <2>2. Cardinality(Mine(t)) = 0
    BY <2>1, FS_EmptySet DEF RecordsInv, RecordsOf
  <2>3. \A u \in Txns : Committing(u)' = {} => Committing(u) = {}
    BY <2>1 DEF Committing
  <2>4. \A u \in Txns : StagedAs(u)'
    BY <2>1, SameRecords DEF RecordsInv, RecordsOf, StagedAs
  <2>5. \A u \in Txns : RecordsOf(u)'
    BY <2>1, <2>3, <2>4, SameRecords DEF RecordsInv, RecordsOf
  <2>6. \A d \in Callers : Counted(d)'
    BY <2>1, <2>2, SameRecords DEF RecordsInv, Counted
  <2> QED
    BY <2>5, <2>6
<1>5. ASSUME NEW c \in Callers, ReadOps(c) PROVE (\A u \in Txns : RecordsOf(u)') /\ \A d \in Callers : Counted(d)'
  <2>1. /\ UNCHANGED <<journal, ops, status, txn, done>> /\ pc[c] = "checked" /\ pc'[c] = "apply"
        /\ todo'[c] = ops[txn[c]]
        /\ \A d \in Callers \ {c} : pc'[d] = pc[d] /\ todo'[d] = todo[d]
    BY <1>5, <1>a DEF ReadOps, TypeOK
  <2>2. \A u \in Txns : Committing(u)' = Committing(u)
    BY <2>1 DEF Committing
  <2>3. \A u \in Txns : StagedAs(u)'
    BY <2>1, SameRecords DEF RecordsInv, RecordsOf, StagedAs
  <2>4. \A u \in Txns : RecordsOf(u)'
    BY <2>1, <2>2, <2>3, SameRecords DEF RecordsInv, RecordsOf
  <2>5. \A d \in Callers : Counted(d)'
    BY <2>1, SameRecords DEF RecordsInv, Counted
  <2> QED
    BY <2>4, <2>5
<1>6. ASSUME NEW c \in Callers, ApplyOp(c) \/ ApplyFails(c) \/ UndoOp(c) PROVE (\A u \in Txns : RecordsOf(u)') /\ \A d \in Callers : Counted(d)'
  <2>1. CASE ApplyOp(c)
    BY <1>a, <2>1, RecordsKept DEF ApplyOp, TypeOK
  <2>2. CASE ApplyFails(c)
    BY <1>a, <2>2, RecordsKept DEF ApplyFails, TypeOK
  <2>3. CASE UndoOp(c)
    BY <1>a, <2>3, RecordsKept DEF UndoOp, TypeOK
  <2> QED
    BY <1>6, <2>1, <2>2, <2>3
<1>7. ASSUME NEW c \in Callers, RecordWrite(c) PROVE (\A u \in Txns : RecordsOf(u)') /\ \A d \in Callers : Counted(d)'
  <2> PICK t : t = txn[c]
    OBVIOUS
  <2> DEFINE r == [op |-> NextOp(c), txn |-> t, agent |-> Owner[t]]
  <2> PICK n : n = Len(journal) + 1
    OBVIOUS
  <2>1. /\ UNCHANGED <<ops, status, txn, todo>> /\ pc[c] = "record" /\ pc'[c] = "apply"
        /\ done'[c] = done[c] + 1 /\ journal' = Append(journal, r)
        /\ \A d \in Callers \ {c} : pc'[d] = pc[d] /\ done'[d] = done[d]
    BY <1>7, <1>a DEF RecordWrite, TypeOK
  <2>2. /\ t \in Txns /\ status[t] # "committed" /\ NextOp(c) = todo[c][done[c] + 1]
        /\ done[c] \in Nat /\ done[c] + 1 \in 1..Len(todo[c])
        /\ ops[t] \in {<<>>, todo[c]} /\ Cardinality(Mine(t)) = done[c]
    <3>1. t \in Txns /\ todo[c] \in Seq(Ops) /\ done[c] \in Nat /\ done[c] < Len(todo[c])
      BY <1>a, <2>1 DEF TypeOK, WithinOps
    <3>2. status[t] # "committed"
      BY <2>1 DEF RecordsInv, SerialInv, CommitInv, Owns
    <3>3. ops[t] \in {<<>>, todo[c]} /\ Cardinality(Mine(t)) = done[c]
      BY <2>1 DEF RecordsInv, Counted
    <3>4. done[c] + 1 \in 1..Len(todo[c])
      BY <3>1
    <3> QED
      BY <3>1, <3>2, <3>3, <3>4 DEF NextOp
  <2>3. r \in WriteRecord
    BY <1>a, <2>2, OwnerAssumption DEF WriteRecord, TypeOK
  <2> HIDE DEF r
  <2>4. r.txn = t /\ r.op = todo[c][done[c] + 1]
    BY <2>2 DEF r
  <2>5. \A u \in Txns : Committing(u)' = Committing(u)
    BY <2>1 DEF Committing
  <2>6. \A u \in Txns \ {t} : StagedAs(u)'
    BY <1>a, <2>1, <2>3, <2>4, JournalGrows DEF RecordsInv, RecordsOf, StagedAs
  <2>7. ASSUME NEW i \in Mine(t)', ops[t] # <<>>
        PROVE  Nth(t, i)' <= Len(ops[t]) /\ ops[t][Nth(t, i)'] = journal'[i].op
    <3>1. CASE i \in Mine(t)
      BY <1>a, <2>1, <2>2, <2>3, <2>7, <3>1, JournalGrows DEF RecordsInv, RecordsOf, StagedAs
    <3>2. CASE i = n
      <4>1. Nth(t, i)' = done[c] + 1 /\ journal'[i] = r
        BY <1>a, <2>1, <2>2, <2>3, <2>4, <3>2, JournalGrows
      <4> QED
        BY <2>2, <2>4, <2>7, <4>1
    <3> QED
      BY <1>a, <2>1, <2>2, <2>3, <2>4, <3>1, <3>2, JournalGrows
  <2>8. StagedAs(t)'
    BY <2>1, <2>7 DEF StagedAs
  <2>9. c \in Committing(t)
    BY <2>1 DEF Committing
  <2>10. \A u \in Txns \ {t} : RecordsOf(u)'
    BY <1>a, <2>1, <2>3, <2>4, <2>5, <2>6, JournalGrows DEF RecordsInv, RecordsOf
  <2>11. RecordsOf(t)'
    BY <2>1, <2>2, <2>5, <2>8, <2>9 DEF RecordsOf
  <2>12. \A d \in Callers \ {c} : Counted(d)'
    <3>1. \A d \in Callers \ {c} : pc[d] # "idle" => txn[d] \in Txns \ {t}
      BY <1>a, <2>1 DEF TypeOK, OneThread
    <3> QED
      BY <1>a, <2>1, <2>3, <2>4, <3>1, JournalGrows DEF RecordsInv, Counted
  <2>13. Counted(c)'
    BY <1>a, <2>1, <2>2, <2>3, <2>4, JournalGrows DEF Counted
  <2> QED
    BY <2>10, <2>11, <2>12, <2>13
<1>8. ASSUME NEW c \in Callers, Finish(c) PROVE (\A u \in Txns : RecordsOf(u)') /\ \A d \in Callers : Counted(d)'
  <2> PICK t : t = txn[c]
    OBVIOUS
  <2>1. /\ UNCHANGED <<journal, ops>> /\ pc'[c] = "idle" /\ pc[c] \in {"apply", "undo"}
        /\ \A d \in Callers \ {c} : /\ pc'[d] = pc[d] /\ txn'[d] = txn[d]
                                    /\ todo'[d] = todo[d] /\ done'[d] = done[d]
    BY <1>8, <1>a DEF Finish, Finishing, Leave, TypeOK
  <2>2. /\ t \in Txns /\ \A u \in Txns \ {t} : status'[u] = status[u]
        /\ status'[t] \in {"rolled_back", "committed"}
        /\ status'[t] = "committed" => ~failed[c]
    BY <1>8, <1>a DEF Finish, End, TypeOK
  <2>3. \A u \in Txns \ {t} : Committing(u)' = Committing(u)
    BY <2>1 DEF Committing
  <2>4. \A u \in Txns : StagedAs(u)'
    BY <2>1, SameRecords DEF RecordsInv, RecordsOf, StagedAs
  <2>5. ASSUME status'[t] = "committed" PROVE Cardinality(Mine(t)) >= Len(ops[t])
    <3>1. pc[c] = "apply"
      BY <2>1, <2>2, <2>5 DEF RecordsInv, SerialInv, CommitInv, Undoes
    <3>2. done[c] = Len(todo[c]) /\ done[c] \in Nat
      BY <1>8, <1>a, <3>1 DEF Finish, Finishing, TypeOK
    <3>3. Cardinality(Mine(t)) = done[c] /\ ops[t] \in {<<>>, todo[c]}
      BY <3>1 DEF RecordsInv, Counted
    <3> QED
      BY <3>2, <3>3
  <2>6. \A u \in Txns : RecordsOf(u)'
    BY <2>1, <2>2, <2>3, <2>4, <2>5, SameRecords DEF RecordsInv, RecordsOf
  <2>7. \A d \in Callers : Counted(d)'
    BY <2>1, SameRecords DEF RecordsInv, Counted
  <2> QED
    BY <2>6, <2>7
<1>9. ASSUME NEW a \in Agents, NEW f \in Files, ExternalWrite(a, f) PROVE (\A u \in Txns : RecordsOf(u)') /\ \A d \in Callers : Counted(d)'
  BY <1>9, RecordsKept DEF ExternalWrite
<1>10. ASSUME NEW w \in direct, RecordExternalWrite(w) PROVE (\A u \in Txns : RecordsOf(u)') /\ \A d \in Callers : Counted(d)'
  <2> DEFINE r == [op |-> [type |-> "fs_write", key |-> w.file], txn |-> "external", agent |-> w.agent]
  <2>1. r \in WriteRecord /\ r.txn \notin Txns
    BY <1>a, NamesAssumption DEF WriteRecord, Ops, FsWrites, TypeOK
  <2>2. UNCHANGED <<ops, status, threads>> /\ journal' = Append(journal, r)
    BY <1>10 DEF RecordExternalWrite
  <2> HIDE DEF r
  <2>3. \A u \in Txns : /\ Mine(u)' = Mine(u) /\ Committing(u)' = Committing(u)
                        /\ \A i \in Mine(u) : Nth(u, i)' = Nth(u, i) /\ journal'[i] = journal[i]
    BY <1>a, <2>1, <2>2, JournalGrows DEF Committing
  <2>4. \A u \in Txns : StagedAs(u)'
    <3> SUFFICES ASSUME NEW u \in Txns PROVE StagedAs(u)'
      OBVIOUS
    <3>1. StagedAs(u)
      BY DEF RecordsInv, RecordsOf
    <3>2. ops' = ops /\ Mine(u)' = Mine(u)
      BY <2>2, <2>3
    <3>3. \A i \in Mine(u) : Nth(u, i)' = Nth(u, i) /\ journal'[i] = journal[i]
      BY <2>3
    <3> QED
      BY <3>1, <3>2, <3>3 DEF StagedAs
  <2>5. \A u \in Txns : RecordsOf(u)'
    BY <2>2, <2>3, <2>4 DEF RecordsInv, RecordsOf
  <2>6. \A d \in Callers : txn[d] \in Txns
    BY <1>a DEF TypeOK
  <2>7. \A d \in Callers : Counted(d)'
    BY <2>2, <2>3, <2>6 DEF RecordsInv, Counted
  <2> QED
    BY <2>5, <2>7
<1>11. ASSUME Restart PROVE (\A u \in Txns : RecordsOf(u)') /\ \A d \in Callers : Counted(d)'
  <2>1. UNCHANGED <<journal, ops>> /\ \A d \in Callers : pc'[d] = "idle"
    BY <1>11 DEF Restart
  <2>2. \A u \in Txns : /\ status'[u] \in {"absent", "open"} => status[u] = "absent"
                        /\ status'[u] = "committed" => status[u] = "committed"
    BY <1>11 DEF Restart
  <2>3. \A u \in Txns : status[u] = "absent" => Committing(u) = {}
    BY <1>a DEF CommitsBegun, Committing
  <2>4. \A u \in Txns : StagedAs(u)'
    BY <2>1, SameRecords DEF RecordsInv, RecordsOf, StagedAs
  <2>5. \A u \in Txns : RecordsOf(u)'
    BY <2>1, <2>2, <2>3, <2>4, SameRecords DEF RecordsInv, RecordsOf
  <2> QED
    BY <2>1, <2>5 DEF Counted
<1>12. ASSUME UNCHANGED vars PROVE (\A u \in Txns : RecordsOf(u)') /\ \A d \in Callers : Counted(d)'
  BY <1>12, RecordsKept DEF vars
<1> QED
  BY <1>1, <1>2, <1>3, <1>4, <1>5, <1>6, <1>7, <1>8, <1>9, <1>10, <1>11, <1>12
  DEF Next, Commit, ExplicitRollback, Watchdog

\* Where agents wait for their commits, what the journal holds of a transaction are
\* the first of its operations, in the order they were staged and each once, and all
\* of them when it is committed, whoever else commits or writes meanwhile.
THEOREM InSequence ==
    ASSUME Sequential
    PROVE  Spec => []AppliedAsStaged
<1>1. RecordsInv /\ [Next]_vars => RecordsInv'
  BY RecordsStep
<1>2. RecordsInv => AppliedAsStaged
  BY DEF RecordsInv, RecordsOf, StagedAs, AppliedAsStaged
<1> QED
  BY RecordsInit, <1>1, <1>2, PTL DEF Spec

-----------------------------------------------------------------------------
(* What the conflict check misses. *)

\* A bounded set of numbers has a greatest element.
LEMMA Greatest ==
    ASSUME NEW n \in Nat, NEW T \in SUBSET (1..n), T # {}
    PROVE  \E m \in T : \A k \in T : k <= m
<1> DEFINE R  == {ss \in Nat \X Nat : ss[1] < ss[2]}
           Up == {n - k : k \in T}
<1>1. IsWellFoundedOn(R, Nat)
  BY NatLessThanWellFounded, Zenon DEF OpToRel
<1>2. Up \subseteq Nat /\ Up # {}
  <2>1. \A k \in T : n - k \in Nat
    OBVIOUS
  <2> QED
    BY <2>1
<1> HIDE DEF R, Up
<1>3. PICK u \in Up : \A v \in Up : ~ (<<v, u>> \in R)
  BY <1>1, <1>2, WFMin, Zenon
<1>4. ASSUME NEW v \in Up PROVE u <= v
  <2>1. u \in Nat /\ v \in Nat /\ ~ (<<v, u>> \in R)
    BY <1>2, <1>3
  <2> QED
    BY <2>1 DEF R
<1>5. PICK m \in T : u = n - m
  BY DEF Up
<1>6. ASSUME NEW k \in T PROVE k <= m
  <2>1. n - k \in Up
    BY DEF Up
  <2> QED
    BY <1>4, <1>5, <2>1
<1> QED
  BY <1>6

\* The last write to a resource is one of the writes to it, and none is later.
LEMMA LastIsLast ==
    ASSUME TypeOK, NEW op, NEW i \in DOMAIN journal, i > epoch, journal[i].op = op
    PROVE  /\ LastWrite(op) \in DOMAIN journal /\ i <= LastWrite(op)
           /\ journal[LastWrite(op)].op = op
<1> DEFINE n == Len(journal)
           W == {k \in (epoch + 1)..n : journal[k].op = op}
<1>1. n \in Nat /\ epoch \in Nat /\ DOMAIN journal = 1..n
  BY DEF TypeOK
<1>2. i \in W /\ W \subseteq 1..n
  BY <1>1
<1>3. LastWrite(op) = CHOOSE k \in W : \A j \in W : j <= k
  BY <1>2 DEF LastWrite
<1> HIDE DEF n
<1>4. \E k \in W : \A j \in W : j <= k
  <2> HIDE DEF W
  <2> QED
    BY <1>1, <1>2, Greatest
<1>5. LastWrite(op) \in W /\ \A j \in W : j <= LastWrite(op)
  <2> HIDE DEF W
  <2> QED
    BY <1>3, <1>4
<1> QED
  BY <1>1, <1>2, <1>5

\* The write at i is one that t should notice.
Foreign(t, op, i) ==
    /\ i > epoch /\ i > created[t] /\ i <= checked[t]
    /\ journal[i].op = op /\ journal[i].agent # Owner[t]

\* The agent of t wrote the resource after i, before the check of t.
Hidden(t, op, i) ==
    \E k \in DOMAIN journal : /\ i < k /\ k <= checked[t]
                              /\ journal[k].op = op /\ journal[k].agent = Owner[t]

\* What others wrote to the resource of op, the check of t has seen.
Seen(t, op) == \A i \in DOMAIN journal : Foreign(t, op, i) => Hidden(t, op, i)

\* The operations that thread c may still apply.
Ahead(c) == IF pc[c] = "checked" THEN Range(ops[txn[c]]) ELSE Range(todo[c])

Noticed(c) ==
    pc[c] # "idle" => /\ checked[txn[c]] <= Len(journal)
                      /\ \A op \in Ahead(c) \ Sends : Seen(txn[c], op)

UpdatesInv == /\ \A c \in Callers : Noticed(c)
              /\ LostOnlyUnseen

LEMMA UpdatesInit == Init => UpdatesInv
  BY DEF Init, UpdatesInv, Noticed, LostOnlyUnseen

\* While nothing is written and no commit starts, the invariant stays: no thread
\* has more to apply.
LEMMA UpdatesKept ==
    ASSUME UpdatesInv, UNCHANGED <<journal, epoch, created, checked, txn>>,
           \A c \in Callers : pc'[c] # "idle" => pc[c] # "idle" /\ Ahead(c)' \subseteq Ahead(c)
    PROVE  UpdatesInv'
<1>1. \A c \in Callers : Noticed(c)'
  BY DEF UpdatesInv, Noticed, Seen, Foreign, Hidden
<1>2. LostOnlyUnseen'
  BY DEF UpdatesInv, LostOnlyUnseen, LostUpdate, Unseen
<1> QED
  BY <1>1, <1>2 DEF UpdatesInv

\* A write of nobody's transaction or of t is recorded: what was seen and lost
\* before stays so.
LEMMA UpdatesGrow ==
    ASSUME TypeOK, UpdatesInv, NEW r \in WriteRecord, journal' = Append(journal, r),
           UNCHANGED <<epoch, created, checked, txn>>,
           \A c \in Callers : pc'[c] # "idle" => pc[c] # "idle" /\ Ahead(c)' \subseteq Ahead(c),
           \A i \in DOMAIN journal, k \in Nat :
               k = Len(journal) + 1 /\ LostUpdate(i, k)' => Unseen(r.txn, i)
    PROVE  UpdatesInv'
<1> PICK n : n = Len(journal) + 1
  OBVIOUS
<1>1. /\ DOMAIN journal' = DOMAIN journal \cup {n} /\ n \notin DOMAIN journal /\ n \in Nat
      /\ Len(journal') = n /\ journal'[n] = r /\ Len(journal) < n /\ Len(journal) \in Nat
      /\ \A i \in DOMAIN journal : i \in Nat /\ i < n /\ journal'[i] = journal[i]
  BY DEF TypeOK
<1>2. \A c \in Callers : txn[c] \in Txns /\ checked[txn[c]] \in Nat
  BY DEF TypeOK
<1>3. ASSUME NEW c \in Callers, NEW op, pc[c] # "idle", Seen(txn[c], op), checked[txn[c]] <= Len(journal)
      PROVE  Seen(txn[c], op)'
  <2> SUFFICES ASSUME NEW i \in DOMAIN journal', Foreign(txn[c], op, i)'
               PROVE  Hidden(txn[c], op, i)'
    BY DEF Seen
  <2>1. i <= checked[txn[c]] /\ i \in Nat
    BY <1>1 DEF Foreign
  <2>2. i \in DOMAIN journal
    BY <1>1, <1>2, <1>3, <2>1
  <2>3. Foreign(txn[c], op, i)
    BY <1>1, <2>2 DEF Foreign
  <2>4. Hidden(txn[c], op, i)
    BY <1>3, <2>2, <2>3 DEF Seen
  <2> QED
    BY <1>1, <2>4 DEF Hidden
<1>4. \A c \in Callers : Noticed(c)'
  <2> SUFFICES ASSUME NEW c \in Callers, pc'[c] # "idle"
               PROVE  /\ checked[txn[c]] <= Len(journal')
                      /\ \A op \in Ahead(c)' \ Sends : Seen(txn[c], op)'
    BY DEF Noticed
  <2>1. /\ pc[c] # "idle" /\ checked[txn[c]] <= Len(journal) /\ Ahead(c)' \subseteq Ahead(c)
        /\ \A op \in Ahead(c) \ Sends : Seen(txn[c], op)
    BY DEF UpdatesInv, Noticed
  <2>2. checked[txn[c]] <= Len(journal')
    BY <1>1, <1>2, <2>1
  <2> QED
    BY <1>3, <2>1, <2>2
<1>5. ASSUME NEW t, NEW i \in DOMAIN journal, Unseen(t, i) PROVE Unseen(t, i)'
  BY <1>1, <1>5 DEF Unseen
<1>6. LostOnlyUnseen'
  <2> SUFFICES ASSUME NEW i \in DOMAIN journal', NEW j \in DOMAIN journal', LostUpdate(i, j)'
               PROVE  Unseen(journal[j].txn, i)'
    BY DEF LostOnlyUnseen
  <2>1. i \in DOMAIN journal
    BY <1>1 DEF LostUpdate
  <2>2. CASE j \in DOMAIN journal
    <3>1. LostUpdate(i, j)
      BY <1>1, <2>1, <2>2 DEF LostUpdate
    <3>2. Unseen(journal[j].txn, i) /\ journal'[j] = journal[j]
      BY <1>1, <2>1, <2>2, <3>1 DEF UpdatesInv, LostOnlyUnseen
    <3> QED
      BY <1>5, <2>1, <3>2 DEF Unseen
  <2>3. CASE j = n
    <3>1. Unseen(r.txn, i)
      BY <1>1, <2>1, <2>3
    <3>2. journal'[j] = r
      BY <1>1, <2>3
    <3> QED
      BY <1>5, <2>1, <3>1, <3>2 DEF Unseen
  <2> QED
    BY <1>1, <2>2, <2>3
<1> QED
  BY <1>4, <1>6 DEF UpdatesInv

\* A write is a transaction's or one from outside.
LEMMA Written ==
    ASSUME TypeOK, NEW j \in DOMAIN journal
    PROVE  journal[j].txn \in Txns \cup {"external"}
<1>1. journal[j] \in WriteRecord
  BY DEF TypeOK
<1> QED
  BY <1>1 DEF WriteRecord

LEMMA UpdatesStep ==
    ASSUME Sequential, RecordsInv, UpdatesInv, [Next]_vars
    PROVE  UpdatesInv'
<1>a. TypeOK /\ OneThread /\ CommitsBegun
  BY DEF RecordsInv, SerialInv, EffectsInv
<1> USE DEF record, book, locals, threads, writes, effects, bounds
<1>1. ASSUME NEW t \in Txns, Begin(t) PROVE UpdatesInv'
  <2>1. /\ UNCHANGED <<journal, epoch, checked, threads, ops>> /\ status[t] = "absent"
        /\ \A u \in Txns \ {t} : created'[u] = created[u]
    BY <1>1, <1>a DEF Begin, TypeOK
  <2>2. Committing(t) = {} /\ Mine(t) = {}
    BY <1>a, <2>1 DEF CommitsBegun, Committing, RecordsInv, RecordsOf
  <2>3. \A c \in Callers : pc[c] # "idle" => txn[c] \in Txns \ {t}
    BY <1>a, <2>2 DEF TypeOK, Committing
  <2>4. \A c \in Callers : Noticed(c)'
    BY <2>1, <2>3 DEF UpdatesInv, Noticed, Seen, Foreign, Hidden, Ahead
  <2>5. \A j \in DOMAIN journal : journal[j].txn # t /\ journal[j].txn \in Txns \cup {"external"}
    BY <1>a, <2>2, Written DEF Mine
  <2>6. LostOnlyUnseen'
    BY <2>1, <2>5 DEF UpdatesInv, LostOnlyUnseen, LostUpdate, Unseen
  <2> QED
    BY <2>4, <2>6 DEF UpdatesInv
<1>2. ASSUME NEW t \in Txns, CommitTooLate(t) \/ CommitConflict(t) \/ TimePasses(t) PROVE UpdatesInv'
  <2>1. UNCHANGED <<journal, epoch, created, checked, threads, ops>>
    BY <1>2 DEF CommitTooLate, CommitConflict, TimePasses
  <2> QED
    BY <2>1, UpdatesKept DEF Ahead
<1>3. ASSUME NEW t \in Txns, NEW why, Rollback(t, why) PROVE UpdatesInv'
  <2>1. /\ UNCHANGED <<journal, epoch, created, checked, threads>>
        /\ \A u \in Txns : ops'[u] = ops[u] \/ ops'[u] = <<>>
    BY <1>3, <1>a DEF Rollback, TypeOK
  <2>2. \A c \in Callers : txn[c] \in Txns
    BY <1>a DEF TypeOK
  <2>3. Range(<<>>) = {}
    BY DEF Range
  <2>4. \A c \in Callers : Ahead(c)' \subseteq Ahead(c)
    BY <2>1, <2>2, <2>3 DEF Ahead
  <2> QED
    BY <2>1, <2>4, UpdatesKept
<1>4. ASSUME NEW t \in Txns, NEW op \in Ops, Sequential, Stage(t, op) PROVE UpdatesInv'
  <2>1. /\ UNCHANGED <<journal, epoch, created, checked, threads, status>>
        /\ Committing(t) = {} /\ \A u \in Txns \ {t} : ops'[u] = ops[u]
    BY <1>4, <1>a DEF Stage, MayAsk, TypeOK
  <2>2. \A c \in Callers : pc[c] # "idle" => txn[c] \in Txns \ {t}
    BY <1>a, <2>1 DEF TypeOK, Committing
  <2>3. \A c \in Callers : pc'[c] # "idle" => pc[c] # "idle" /\ Ahead(c)' \subseteq Ahead(c)
    BY <2>1, <2>2 DEF Ahead
  <2> QED
    BY <2>1, <2>3, UpdatesKept
<1>5. ASSUME NEW c \in Callers, NEW t \in Txns, CommitCheck(c, t) PROVE UpdatesInv'
  <2>1. /\ UNCHANGED <<journal, epoch, created, status, ops, todo>>
        /\ status[t] = "open" /\ Conflicts(t) = {} /\ pc[c] = "idle" /\ Committing(t) = {}
        /\ pc'[c] = "checked" /\ txn'[c] = t /\ checked'[t] = Len(journal)
        /\ \A d \in Callers \ {c} : pc'[d] = pc[d] /\ txn'[d] = txn[d]
        /\ \A u \in Txns \ {t} : checked'[u] = checked[u]
    BY <1>5, <1>a DEF CommitCheck, MayAsk, TypeOK
  <2>2. Mine(t) = {}
    BY <2>1 DEF RecordsInv, RecordsOf
  <2>3. ASSUME NEW op \in Range(ops[t]) \ Sends PROVE Seen(t, op)'
    <3> SUFFICES ASSUME NEW i \in DOMAIN journal, Foreign(t, op, i)' PROVE Hidden(t, op, i)'
      BY <2>1 DEF Seen
    <3>1. i > epoch /\ i > created[t] /\ journal[i].op = op /\ journal[i].agent # Owner[t]
      BY <2>1 DEF Foreign
    <3> PICK k : k = LastWrite(op)
      OBVIOUS
    <3>2. k \in DOMAIN journal /\ i <= k /\ journal[k].op = op
      BY <1>a, <3>1, LastIsLast
    <3>3. /\ i \in Nat /\ k \in Nat /\ created[t] \in Nat /\ Len(journal) \in Nat
          /\ k <= Len(journal)
      BY <1>a, <3>2 DEF TypeOK
    <3>4. k > created[t]
      BY <3>1, <3>2, <3>3
    <3>5. journal[k].agent = Owner[t]
      BY <2>1, <3>4 DEF Conflicts
    <3>6. i # k
      BY <3>1, <3>5
    <3>7. i < k
      BY <3>2, <3>3, <3>6
    <3> QED
      BY <2>1, <3>2, <3>3, <3>5, <3>7 DEF Hidden
  <2>4. \A d \in Callers \ {c} : pc[d] # "idle" => txn[d] \in Txns \ {t}
    BY <1>a, <2>1 DEF TypeOK, Committing
  <2>5. Noticed(c)'
    <3>1. Ahead(c)' = Range(ops[t]) /\ Len(journal) \in Nat
      BY <1>a, <2>1 DEF Ahead, TypeOK
    <3>2. checked'[txn'[c]] <= Len(journal')
      BY <2>1, <3>1
    <3> SUFFICES ASSUME NEW op \in Range(ops[t]) \ Sends PROVE Seen(txn[c], op)'
      BY <3>1, <3>2 DEF Noticed
    <3>3. Seen(t, op)'
      BY <2>3
    <3> QED
      BY <2>1, <3>3 DEF Seen, Foreign, Hidden
  <2>6. \A d \in Callers \ {c} : Noticed(d)'
    BY <2>1, <2>4 DEF UpdatesInv, Noticed, Ahead, Seen, Foreign, Hidden
  <2>7. \A j \in DOMAIN journal : journal[j].txn # t /\ journal[j].txn \in Txns \cup {"external"}
    BY <1>a, <2>2, Written DEF Mine
  <2>8. LostOnlyUnseen'
    BY <2>1, <2>7 DEF UpdatesInv, LostOnlyUnseen, LostUpdate, Unseen
  <2> QED
    BY <2>5, <2>6, <2>8 DEF UpdatesInv
<1>6. ASSUME NEW c \in Callers, ReadOps(c) \/ ApplyOp(c) \/ ApplyFails(c) \/ UndoOp(c) PROVE UpdatesInv'
  <2>1. /\ UNCHANGED <<journal, epoch, created, checked, txn>>
        /\ \A d \in Callers : pc'[d] = "idle" <=> pc[d] = "idle"
    BY <1>6, <1>a DEF ReadOps, ApplyOp, ApplyFails, UndoOp, TypeOK
  <2>2. \A d \in Callers : Ahead(d)' = Ahead(d)
    BY <1>6, <1>a DEF ReadOps, ApplyOp, ApplyFails, UndoOp, TypeOK, Ahead
  <2> QED
    BY <2>1, <2>2, UpdatesKept
<1>7. ASSUME NEW c \in Callers, RecordWrite(c) PROVE UpdatesInv'
  <2> PICK t, op, n : t = txn[c] /\ op = NextOp(c) /\ n = Len(journal) + 1
    OBVIOUS
  <2> DEFINE r == [op |-> op, txn |-> t, agent |-> Owner[t]]
  <2>1. /\ UNCHANGED <<epoch, created, checked, ops, txn, todo>>
        /\ pc[c] = "record" /\ pc'[c] = "apply" /\ \A d \in Callers \ {c} : pc'[d] = pc[d]
        /\ journal' = Append(journal, r)
    BY <1>7, <1>a DEF RecordWrite, TypeOK
  <2>2. t \in Txns /\ op \in Range(todo[c]) /\ op \in Ops
    BY <1>a, <2>1 DEF TypeOK, WithinOps, NextOp, Range
  <2>3. r \in WriteRecord
    BY <2>2, OwnerAssumption DEF WriteRecord
  <2>4. \A d \in Callers : pc'[d] # "idle" => pc[d] # "idle" /\ Ahead(d)' \subseteq Ahead(d)
    BY <2>1 DEF Ahead
  <2>5. op \notin Sends => Seen(t, op)
    BY <2>1, <2>2 DEF UpdatesInv, Noticed, Ahead
  <2>6. /\ \A i \in DOMAIN journal : journal'[i] = journal[i] /\ i \in Nat
        /\ (\A k \in Nat : k = Len(journal) + 1 => journal'[k] = r) /\ checked[t] \in Nat
    BY <1>a, <2>1, <2>2 DEF TypeOK
  <2>7. ASSUME NEW i \in DOMAIN journal, NEW k \in Nat, k = Len(journal) + 1, LostUpdate(i, k)'
        PROVE  Unseen(t, i)
    <3>1. /\ journal[i].op = op /\ op \notin Sends /\ journal[i].agent # Owner[t]
          /\ created[t] < i /\ i > epoch
      BY <2>1, <2>6, <2>7 DEF LostUpdate
    <3>2. CASE i > checked[t]
      BY <3>2 DEF Unseen
    <3>3. CASE i <= checked[t]
      <4>1. Hidden(t, op, i)
        BY <1>a, <2>2, <2>5, <3>1, <3>3 DEF Seen, Foreign, TypeOK
      <4> QED
        BY <3>1, <4>1 DEF Hidden, Unseen
    <3> QED
      BY <2>6, <3>2, <3>3
  <2>8. r.txn = t
    OBVIOUS
  <2> HIDE DEF r
  <2> QED
    BY <1>a, <2>1, <2>3, <2>4, <2>7, <2>8, UpdatesGrow
<1>8. ASSUME NEW c \in Callers, Finish(c) PROVE UpdatesInv'
  <2>1. /\ UNCHANGED <<journal, epoch, created, checked, ops>> /\ pc[c] # "idle" /\ pc'[c] = "idle"
        /\ \A d \in Callers \ {c} : pc'[d] = pc[d] /\ txn'[d] = txn[d] /\ todo'[d] = todo[d]
    BY <1>8, <1>a DEF Finish, Finishing, Leave, TypeOK
  <2>2. \A d \in Callers : Noticed(d)'
    BY <2>1 DEF UpdatesInv, Noticed, Seen, Foreign, Hidden, Ahead
  <2>3. LostOnlyUnseen'
    BY <2>1 DEF UpdatesInv, LostOnlyUnseen, LostUpdate, Unseen
  <2> QED
    BY <2>2, <2>3 DEF UpdatesInv
<1>9. ASSUME NEW a \in Agents, NEW f \in Files, ExternalWrite(a, f) PROVE UpdatesInv'
  BY <1>9, UpdatesKept DEF ExternalWrite, Ahead
<1>10. ASSUME NEW w \in direct, RecordExternalWrite(w) PROVE UpdatesInv'
  <2> DEFINE r == [op |-> [type |-> "fs_write", key |-> w.file], txn |-> "external", agent |-> w.agent]
  <2>1. r \in WriteRecord /\ r.txn = "external"
    BY <1>a, NamesAssumption DEF WriteRecord, Ops, FsWrites, TypeOK
  <2>2. /\ UNCHANGED <<epoch, created, checked, threads, ops>> /\ journal' = Append(journal, r)
    BY <1>10 DEF RecordExternalWrite
  <2> HIDE DEF r
  <2>3. journal'[Len(journal) + 1] = r
    BY <1>a, <2>1, <2>2 DEF TypeOK
  <2>4. ASSUME NEW i \in DOMAIN journal, NEW k \in Nat, k = Len(journal) + 1 PROVE ~LostUpdate(i, k)'
    BY <2>1, <2>3, <2>4 DEF LostUpdate
  <2>5. \A d \in Callers : pc'[d] # "idle" => pc[d] # "idle" /\ Ahead(d)' \subseteq Ahead(d)
    BY <2>2 DEF Ahead
  <2> QED
    BY <1>a, <2>1, <2>2, <2>4, <2>5, UpdatesGrow
<1>11. ASSUME Restart PROVE UpdatesInv'
  <2>1. /\ UNCHANGED journal /\ epoch' = Len(journal) /\ \A d \in Callers : pc'[d] = "idle"
    BY <1>11 DEF Restart
  <2>2. \A i \in DOMAIN journal : ~ (i > Len(journal))
    BY <1>a DEF TypeOK
  <2>3. LostOnlyUnseen'
    BY <2>1, <2>2 DEF LostOnlyUnseen, LostUpdate
  <2> QED
    BY <2>1, <2>3 DEF UpdatesInv, Noticed
<1>12. ASSUME UNCHANGED vars PROVE UpdatesInv'
  BY <1>12, UpdatesKept DEF vars, Ahead
<1> QED
  BY <1>1, <1>2, <1>3, <1>4, <1>5, <1>6, <1>7, <1>8, <1>9, <1>10, <1>11, <1>12
  DEF Next, Commit, ExplicitRollback, Watchdog

\* Where agents wait for their commits, a transaction overwrites what another agent
\* wrote since it began only if that write was recorded after its conflict check, or
\* hidden from the check by a later write of its own agent: for any number of
\* threads that commit at once, outside writes and restarts.
THEOREM NothingElseOverwritten ==
    ASSUME Sequential
    PROVE  Spec => []LostOnlyUnseen
<1>1. RecordsInv /\ [Next]_vars => RecordsInv'
  BY RecordsStep
<1>2. RecordsInv /\ UpdatesInv /\ [Next]_vars => UpdatesInv'
  BY UpdatesStep
<1>3. UpdatesInv => LostOnlyUnseen
  BY DEF UpdatesInv
<1> QED
  BY RecordsInit, UpdatesInit, <1>1, <1>2, <1>3, PTL DEF Spec

-----------------------------------------------------------------------------
(* How transactions end. *)

\* A thread is in commit() only of a transaction that has a record, and it undoes
\* what it did exactly when an operation has raised.
Running ==
    \A c \in Callers : /\ pc[c] # "idle" => status[txn[c]] \notin {"absent", "forgotten"}
                       /\ failed[c] <=> pc[c] = "undo"

LEMMA RunningInit == Init => Running
  BY DEF Init, Running

LEMMA RunningStep == TypeOK /\ Running /\ [Next]_vars => Running'
<1> SUFFICES ASSUME TypeOK, Running, [Next]_vars PROVE Running'
  OBVIOUS
<1> USE DEF TypeOK, Running, record, book, locals, threads, Sections
<1>1. ASSUME NEW t \in Txns, Begin(t)
      PROVE  Running'
  BY <1>1 DEF Begin
<1>2. ASSUME NEW t \in Txns, CommitTooLate(t)
      PROVE  Running'
  BY <1>2 DEF CommitTooLate, End
<1>3. ASSUME NEW t \in Txns, CommitConflict(t)
      PROVE  Running'
  BY <1>3 DEF CommitConflict, End
<1>4. ASSUME NEW t \in Txns, NEW r \in {"explicit", "timeout"}, Rollback(t, r)
      PROVE  Running'
  BY <1>4 DEF Rollback, End
<1>5. ASSUME NEW c \in Callers, NEW t \in Txns, CommitCheck(c, t)
      PROVE  Running'
  BY <1>5 DEF CommitCheck
<1>6. ASSUME NEW c \in Callers, ReadOps(c)
      PROVE  Running'
  BY <1>6 DEF ReadOps
<1>7. ASSUME NEW c \in Callers, ApplyOp(c)
      PROVE  Running'
  BY <1>7 DEF ApplyOp
<1>8. ASSUME NEW c \in Callers, RecordWrite(c)
      PROVE  Running'
  BY <1>8 DEF RecordWrite
<1>9. ASSUME NEW c \in Callers, ApplyFails(c)
      PROVE  Running'
  BY <1>9 DEF ApplyFails
<1>10. ASSUME NEW c \in Callers, UndoOp(c)
      PROVE  Running'
  BY <1>10 DEF UndoOp
<1>11. ASSUME NEW c \in Callers, Finish(c)
      PROVE  Running'
  <2>1. status' = [status EXCEPT ![txn[c]] = IF failed[c] THEN "rolled_back" ELSE "committed"]
    BY <1>11 DEF Finish, End
  <2> QED
    BY <1>11, <2>1 DEF Finish, Leave
<1>12. CASE Restart
  BY <1>12 DEF Restart
<1>13. ASSUME UNCHANGED <<status, threads>>
      PROVE  Running'
  BY <1>13
<1> QED
  BY <1>1, <1>2, <1>3, <1>4, <1>5, <1>6, <1>7, <1>8, <1>9, <1>10, <1>11, <1>12, <1>13
  DEF Next, Commit, ExplicitRollback, Watchdog, Stage, TimePasses, ExternalWrite, RecordExternalWrite, vars

\* An id is used once, and what has ended does not open again.  A status that says
\* how a transaction ended changes only if a restart forgets the record, or if a
\* commit() of the transaction is still running and sets its own; it becomes
\* "committed" only when such a commit() has applied all it copied.  And the
\* operations of a transaction change only while it is open.
EndsForGood ==
    \A t \in Txns :
        /\ status'[t] = "absent" => status[t] = "absent"
        /\ status'[t] = "open" => status[t] \in {"absent", "open"}
        /\ status[t] = "forgotten" => status'[t] = "forgotten"
        /\ status[t] \in {"committed", "rolled_back"} /\ status'[t] # status[t] =>
             \/ status'[t] = "forgotten" /\ crashes' # crashes
             \/ \E c \in Committing(t) : failed[c] <=> status'[t] = "rolled_back"
        /\ status'[t] = "committed" /\ status[t] # "committed" =>
             \E c \in Committing(t) : pc[c] = "apply" /\ done[c] = Len(todo[c])
        /\ ops'[t] # ops[t] => status[t] = "open"

\* Only the last section of commit() overwrites a status that is not "open".
LEMMA EndsStep == TypeOK /\ Running /\ [Next]_vars => EndsForGood
<1> SUFFICES ASSUME TypeOK, Running, [Next]_vars PROVE EndsForGood
  OBVIOUS
<1> USE DEF TypeOK, EndsForGood, record
<1>1. ASSUME NEW t \in Txns, Begin(t)
      PROVE  EndsForGood
  BY <1>1 DEF Begin
<1>2. ASSUME NEW t \in Txns, CommitTooLate(t)
      PROVE  EndsForGood
  BY <1>2 DEF CommitTooLate, End
<1>3. ASSUME NEW t \in Txns, CommitConflict(t)
      PROVE  EndsForGood
  BY <1>3 DEF CommitConflict, End
<1>4. ASSUME NEW t \in Txns, NEW r \in {"explicit", "timeout"}, Rollback(t, r)
      PROVE  EndsForGood
  BY <1>4 DEF Rollback, End
<1>5. ASSUME NEW t \in Txns, NEW op \in Ops, Stage(t, op)
      PROVE  EndsForGood
  BY <1>5 DEF Stage
<1>6. ASSUME NEW c \in Callers, Finish(c)
      PROVE  EndsForGood
  <2>1. PICK s : s = IF failed[c] THEN "rolled_back" ELSE "committed"
    OBVIOUS
  <2>2. status' = [status EXCEPT ![txn[c]] = s] /\ UNCHANGED ops
    BY <1>6, <2>1 DEF Finish, End
  <2>3. txn[c] \in Txns /\ status[txn[c]] \notin {"absent", "forgotten"} /\ c \in Committing(txn[c])
    BY <1>6 DEF Finish, Finishing, Running, Committing
  <2>4. s \in {"rolled_back", "committed"} /\ (failed[c] <=> s = "rolled_back")
    BY <2>1
  <2>5. s = "committed" => pc[c] = "apply" /\ done[c] = Len(todo[c])
    BY <1>6, <2>4 DEF Finish, Finishing, Running
  <2>6. ASSUME NEW t \in Txns, t # txn[c] PROVE status'[t] = status[t]
    BY <2>2, <2>6
  <2>7. status'[txn[c]] = s
    BY <2>2, <2>3
  <2> QED
    BY <2>2, <2>3, <2>4, <2>5, <2>6, <2>7
<1>7. CASE Restart
  <2>1. crashes' # crashes /\ UNCHANGED ops
    BY <1>7 DEF Restart
  <2>2. \A t \in Txns : \/ status[t] = "absent" /\ status'[t] = "absent"
                        \/ status[t] # "absent" /\ status'[t] = "forgotten"
                        \/ status[t] = "open" /\ status'[t] = "rolled_back"
                        \/ status[t] \in {"committed", "rolled_back", "forgotten"} /\ status'[t] = status[t]
    BY <1>7 DEF Restart, Statuses
  <2> QED
    BY <2>1, <2>2
<1>8. ASSUME UNCHANGED <<status, ops>>
      PROVE  EndsForGood
  BY <1>8
<1> QED
  BY <1>1, <1>2, <1>3, <1>4, <1>5, <1>6, <1>7, <1>8
  DEF Next, Commit, ExplicitRollback, Watchdog, TimePasses, CommitCheck, ReadOps, ApplyOp, RecordWrite,
      ApplyFails, UndoOp, ExternalWrite, RecordExternalWrite, vars

\* A transaction that ended stays ended: what remains of OpenEnds without fairness,
\* for any number of threads and restarts.  The one thing that revises an outcome
\* is a commit() still running when a rollback(), the watchdog or another
\* commit() ended the transaction.
THEOREM Ending == Spec => [][EndsForGood]_vars
<1>1. TypeOK /\ Running /\ [Next]_vars => (TypeOK /\ Running)'
  BY TypeStep, RunningStep
<1>2. TypeOK /\ Running /\ [Next]_vars => [EndsForGood]_vars
  BY EndsStep
<1> QED
  BY TypeInit, RunningInit, <1>1, <1>2, PTL DEF Spec
=============================================================================
