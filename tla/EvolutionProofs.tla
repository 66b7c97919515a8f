-------------------------- MODULE EvolutionProofs ---------------------------
(***************************************************************************)
(* Proofs about the proposals and the tools of module Evolution: types,    *)
(* that only warranted changes are made, that what stands as approved was  *)
(* done, and how a proposal comes to be approved, for any number of        *)
(* approvers, proposals, faults and tools.                                 *)
(***************************************************************************)
EXTENDS Evolution, FiniteSetTheorems, TLAPS

-----------------------------------------------------------------------------
(* Types. *)

LEMMA TypeInit == Init => TypeOK
  BY ProposalsAssumption DEF Init, TypeOK, Statuses, Open, Stageable, Calls, Jobs, Chores

\* One step keeps the types.
LEMMA TypeStep == TypeOK /\ [Next]_vars => TypeOK'
<1> SUFFICES ASSUME TypeOK, [Next]_vars PROVE TypeOK'
  OBVIOUS
<1> USE ProposalsAssumption
    DEF TypeOK, Statuses, Open, Stageable, Calls, Jobs, Chores, engine, calls, directory, jobs, Server, Elsewhere
<1>1. ASSUME NEW p \in Proposals, Submit(p)
      PROVE  TypeOK'
  BY <1>1 DEF Submit, Becomes
<1>2. ASSUME NEW p \in Proposals, Stage(p)
      PROVE  TypeOK'
  BY <1>2 DEF Stage, Becomes, Staged
<1>3. ASSUME NEW p \in Proposals, Reject(p)
      PROVE  TypeOK'
  BY <1>3 DEF Reject, Becomes
<1>4. ASSUME NEW a \in Approvers, NEW p \in Proposals, Vote(a, p)
      PROVE  TypeOK'
  BY <1>4 DEF Vote, Goto
<1>5. ASSUME NEW a \in Approvers, Review(a)
      PROVE  TypeOK'
  BY <1>5 DEF Review, Becomes, Return, Goto, VotesKept
<1>6. ASSUME NEW a \in Approvers, Look(a)
      PROVE  TypeOK'
  BY <1>6 DEF Look, Goto
<1>7. ASSUME NEW a \in Approvers, StageInCall(a)
      PROVE  TypeOK'
  BY <1>7 DEF StageInCall, Staged, Becomes, Goto, Return
<1>8. ASSUME NEW a \in Approvers, Claim(a)
      PROVE  TypeOK'
  BY <1>8 DEF Claim, Becomes, Goto, Return
<1>9. ASSUME NEW a \in Approvers, Apply(a)
      PROVE  TypeOK'
  BY <1>9 DEF Apply, Return, Goto
<1>10. ASSUME NEW a \in Approvers, ApplyFails(a)
      PROVE  TypeOK'
  BY <1>10 DEF ApplyFails, Goto, Fault
<1>11. ASSUME NEW a \in Approvers, Revert(a)
      PROVE  TypeOK'
  BY <1>11 DEF Revert, Becomes, AfterFailure, Return, Goto
<1>12. ASSUME ServerRestart
      PROVE  TypeOK'
  BY <1>12 DEF ServerRestart, Fault, Becomes, Saving
<1>13. ASSUME NEW w \in Workers, NEW t \in Tools, Synthesize(w, t)
      PROVE  TypeOK'
  BY <1>13 DEF Synthesize, WorkerAt
<1>14. ASSUME NEW w \in Workers, WriteSpec(w)
      PROVE  TypeOK'
  BY <1>14 DEF WriteSpec, WorkerAt
<1>15. ASSUME NEW w \in Workers, Test(w)
      PROVE  TypeOK'
  BY <1>15 DEF Test, WorkerAt, Stays, NullReturn, Mismatch
<1>16. ASSUME NEW w \in Workers, NEW t \in Tools, Retire(w, t)
      PROVE  TypeOK'
  BY <1>16 DEF Retire, WorkerAt
<1>17. ASSUME NEW w \in Workers, Unlist(w)
      PROVE  TypeOK'
  BY <1>17 DEF Unlist, WorkerAt
<1>18. ASSUME NEW t \in Tools, Blacklist(t)
      PROVE  TypeOK'
  BY <1>18 DEF Blacklist
<1>19. ASSUME RetireBroken
      PROVE  TypeOK'
  BY <1>19 DEF RetireBroken
<1>20. ASSUME Sweep
      PROVE  TypeOK'
  BY <1>20 DEF Sweep, Paired
<1>21. ASSUME Hotload
      PROVE  TypeOK'
  BY <1>21 DEF Hotload
<1>22. ASSUME DaemonRestart
      PROVE  TypeOK'
  BY <1>22 DEF DaemonRestart, Fault
<1>23. CASE UNCHANGED vars
  BY <1>23 DEF vars
<1>24. ASSUME NEW a \in Approvers, Blind(a)
      PROVE  TypeOK'
  BY <1>24 DEF Blind, Return, Goto
<1> QED
  BY <1>1, <1>2, <1>3, <1>4, <1>5, <1>6, <1>7, <1>8, <1>9, <1>10,
     <1>11, <1>12, <1>13, <1>14, <1>15, <1>16, <1>17, <1>18, <1>19, <1>20,
     <1>21, <1>22, <1>23, <1>24
  DEF Next, Approval, Working, Housekeeping

\* Every variable keeps its type.
THEOREM Typing == Spec => []TypeOK
  BY TypeInit, TypeStep, PTL DEF Spec

-----------------------------------------------------------------------------
(* Warranted changes. *)

\* A copy of a proposal that approve() holds has votes of the proposal, and
\* enough of them once it is past the count.
Counted ==
    \A a \in Approvers :
        /\ call[a] # "idle" => saw[a] \subseteq votes[on[a]]
        /\ call[a] \notin {"idle", "counted"} => Enough(saw[a])

\* What is staged has passed its tests, and so has what is being applied.
Tested ==
    /\ \A p \in Proposals : status[p] = "staging" => p \in passing
    /\ \A a \in Approvers : call[a] \in {"write", "revert"} => on[a] \in passing

\* There are only finitely many votes, which can be counted.
Countable == \A p \in Proposals : IsFiniteSet(votes[p])

Warrant == Counted /\ Tested /\ Countable /\ AppliedIsWarranted

\* More votes count as more.
LEMMA MoreVotes ==
    ASSUME NEW V, NEW W, IsFiniteSet(W), V \subseteq W, Enough(V)
    PROVE  Cardinality(W) >= Quorum
<1>1. IsFiniteSet(V) /\ Cardinality(V) <= Cardinality(W)
  BY FS_Subset
<1>2. Cardinality(V) \in Nat /\ Cardinality(W) \in Nat
  BY <1>1, FS_CardinalityType
<1> QED
  BY <1>1, <1>2, ProposalsAssumption DEF Enough

LEMMA WarrantInit == Init => Warrant
  BY FS_EmptySet DEF Init, Warrant, Counted, Tested, Countable, AppliedIsWarranted

\* Votes are only added, and the status is looked at again before the approval.
LEMMA WarrantStep == TypeOK /\ Warrant /\ [Next]_vars => Warrant'
<1> SUFFICES ASSUME TypeOK, Warrant, [Next]_vars PROVE Warrant'
  OBVIOUS
<1> USE DEF TypeOK, Warrant, Counted, Tested, Countable, AppliedIsWarranted, Calls, engine, calls, directory, jobs, Server, Elsewhere
<1>1. ASSUME NEW p \in Proposals, Submit(p)
      PROVE  Warrant'
  BY <1>1 DEF Submit, Becomes
<1>2. ASSUME NEW p \in Proposals, Stage(p)
      PROVE  Warrant'
  BY <1>2 DEF Stage, Becomes, Staged
<1>3. ASSUME NEW p \in Proposals, Reject(p)
      PROVE  Warrant'
  BY <1>3 DEF Reject, Becomes
<1>4. ASSUME NEW a \in Approvers, NEW p \in Proposals, Vote(a, p)
      PROVE  Warrant'
  <2>1. \A V \in SUBSET Approvers : IsFiniteSet(V) => IsFiniteSet(V \cup {a})
    BY FS_AddElement
  <2>2. Countable'
    BY <1>4, <2>1 DEF Vote, Goto
  <2>3. Counted' /\ Tested'
    BY <1>4 DEF Vote, Goto, Open, Stageable
  <2>4. \A q \in applied : Cardinality(votes'[q]) >= Quorum
    <3> SUFFICES ASSUME NEW q \in applied PROVE Cardinality(votes'[q]) >= Quorum
      OBVIOUS
    <3>1. q \in Proposals /\ votes[q] \subseteq votes'[q]
      BY <1>4 DEF Vote
    <3> QED
      BY <3>1, <2>2, MoreVotes DEF Enough
  <2> QED
    BY <1>4, <2>2, <2>3, <2>4 DEF Vote
<1>5. ASSUME NEW a \in Approvers, Review(a)
      PROVE  Warrant'
  BY <1>5 DEF Review, Becomes, Return, Goto, VotesKept
<1>6. ASSUME NEW a \in Approvers, Look(a)
      PROVE  Warrant'
  BY <1>6 DEF Look, Goto
<1>7. ASSUME NEW a \in Approvers, StageInCall(a)
      PROVE  Warrant'
  BY <1>7 DEF StageInCall, Staged, Becomes, Goto, Return
<1>8. ASSUME NEW a \in Approvers, Claim(a)
      PROVE  Warrant'
  BY <1>8 DEF Claim, Becomes, Goto, Return
<1>9. ASSUME NEW a \in Approvers, Apply(a)
      PROVE  Warrant'
  <2>1. on[a] \in Proposals /\ on[a] \in passing /\ Cardinality(votes[on[a]]) >= Quorum
    BY <1>9, MoreVotes DEF Apply
  <2> QED
    BY <1>9, <2>1 DEF Apply, Return, Goto
<1>10. ASSUME NEW a \in Approvers, ApplyFails(a)
      PROVE  Warrant'
  BY <1>10 DEF ApplyFails, Goto, Fault
<1>11. ASSUME NEW a \in Approvers, Revert(a)
      PROVE  Warrant'
  BY <1>11 DEF Revert, Becomes, AfterFailure, Return, Goto
<1>12. ASSUME ServerRestart
      PROVE  Warrant'
  BY <1>12 DEF ServerRestart, Fault, Becomes, Saving
<1>13. ASSUME UNCHANGED Server
      PROVE  Warrant'
  BY <1>13 DEF Server
<1>14. CASE UNCHANGED vars
  BY <1>14 DEF vars
<1>15. ASSUME NEW a \in Approvers, Blind(a)
      PROVE  Warrant'
  BY <1>15 DEF Blind, Return, Goto
<1> QED
  BY <1>1, <1>2, <1>3, <1>4, <1>5, <1>6, <1>7, <1>8, <1>9, <1>10,
     <1>11, <1>12, <1>13, <1>14, <1>15
  DEF Next, Approval, Working, Housekeeping, Synthesize, WriteSpec, Test, Retire, Unlist,
      Blacklist, RetireBroken, Sweep, Hotload, DaemonRestart

\* No change is made that fewer than a quorum of approvers voted for or whose
\* test cases failed, however approve(), stage() and reject() cross.
THEOREM Warranted == Spec => []AppliedIsWarranted
<1>1. Init => TypeOK /\ Warrant
  BY TypeInit, WarrantInit
<1>2. TypeOK /\ Warrant /\ [Next]_vars => (TypeOK /\ Warrant)'
  BY TypeStep, WarrantStep
<1>3. Warrant => AppliedIsWarranted
  BY DEF Warrant
<1> QED
  BY <1>1, <1>2, <1>3, PTL DEF Spec

-----------------------------------------------------------------------------
(* Approved is applied. *)

LEMMA ApprovedInit == Init => ApprovedIsApplied
  BY DEF Init, ApprovedIsApplied

\* Who approves is about to write; a failed write takes the approval back.
LEMMA ApprovedStep == TypeOK /\ ApprovedIsApplied /\ [Next]_vars => ApprovedIsApplied'
<1> SUFFICES ASSUME TypeOK, ApprovedIsApplied, [Next]_vars PROVE ApprovedIsApplied'
  OBVIOUS
<1> USE DEF TypeOK, ApprovedIsApplied, Calls, Open, Stageable, engine, calls, directory, jobs, Server, Elsewhere
<1>1. ASSUME NEW p \in Proposals, Submit(p)
      PROVE  ApprovedIsApplied'
  BY <1>1 DEF Submit, Becomes
<1>2. ASSUME NEW p \in Proposals, Stage(p)
      PROVE  ApprovedIsApplied'
  BY <1>2 DEF Stage, Becomes, Staged
<1>3. ASSUME NEW p \in Proposals, Reject(p)
      PROVE  ApprovedIsApplied'
  BY <1>3 DEF Reject, Becomes
<1>4. ASSUME NEW a \in Approvers, NEW p \in Proposals, Vote(a, p)
      PROVE  ApprovedIsApplied'
  BY <1>4 DEF Vote, Goto
<1>5. ASSUME NEW a \in Approvers, Review(a)
      PROVE  ApprovedIsApplied'
  BY <1>5 DEF Review, Becomes, Return, Goto, VotesKept
<1>6. ASSUME NEW a \in Approvers, Look(a)
      PROVE  ApprovedIsApplied'
  BY <1>6 DEF Look, Goto
<1>7. ASSUME NEW a \in Approvers, StageInCall(a)
      PROVE  ApprovedIsApplied'
  BY <1>7 DEF StageInCall, Staged, Becomes, Goto, Return
<1>8. ASSUME NEW a \in Approvers, Claim(a)
      PROVE  ApprovedIsApplied'
  BY <1>8 DEF Claim, Becomes, Goto, Return
<1>9. ASSUME NEW a \in Approvers, Apply(a)
      PROVE  ApprovedIsApplied'
  BY <1>9 DEF Apply, Return, Goto
<1>10. ASSUME NEW a \in Approvers, ApplyFails(a)
      PROVE  ApprovedIsApplied'
  BY <1>10 DEF ApplyFails, Goto, Fault
<1>11. ASSUME NEW a \in Approvers, Revert(a)
      PROVE  ApprovedIsApplied'
  BY <1>11 DEF Revert, Becomes, AfterFailure, Return, Goto
<1>12. ASSUME ServerRestart
      PROVE  ApprovedIsApplied'
  BY <1>12 DEF ServerRestart, Fault, Becomes, Saving
<1>13. ASSUME UNCHANGED Server
      PROVE  ApprovedIsApplied'
  BY <1>13 DEF Server
<1>14. CASE UNCHANGED vars
  BY <1>14 DEF vars
<1>15. ASSUME NEW a \in Approvers, Blind(a)
      PROVE  ApprovedIsApplied'
  BY <1>15 DEF Blind, Return, Goto
<1> QED
  BY <1>1, <1>2, <1>3, <1>4, <1>5, <1>6, <1>7, <1>8, <1>9, <1>10,
     <1>11, <1>12, <1>13, <1>14, <1>15
  DEF Next, Approval, Working, Housekeeping, Synthesize, WriteSpec, Test, Retire, Unlist,
      Blacklist, RetireBroken, Sweep, Hotload, DaemonRestart

\* What stands as approved was applied, is being applied, or was cut short by a
\* restart of the server.
THEOREM Approved == Spec => []ApprovedIsApplied
<1>1. TypeOK /\ ApprovedIsApplied /\ [Next]_vars => (TypeOK /\ ApprovedIsApplied)'
  BY TypeStep, ApprovedStep
<1> QED
  BY TypeInit, ApprovedInit, <1>1, PTL DEF Spec

-----------------------------------------------------------------------------
(* How a proposal is approved. *)

\* Votes are never lost from a record that can be read, and a proposal becomes
\* approved only out of staging, with its test cases passed and a quorum of votes
\* in its record.
DulyApproved ==
    \A p \in Proposals :
        /\ status'[p] # "unreadable" => votes[p] \subseteq votes'[p]
        /\ status[p] # "approved" /\ status'[p] = "approved" =>
             status[p] = "staging" /\ p \in passing /\ Cardinality(votes[p]) >= Quorum

\* Of all the steps only Claim approves, and its call counted enough votes.
LEMMA ApprovalStep == TypeOK /\ Warrant /\ [Next]_vars => DulyApproved
<1> SUFFICES ASSUME TypeOK, Warrant, [Next]_vars PROVE DulyApproved
  OBVIOUS
<1> USE DEF TypeOK, DulyApproved, engine, calls
<1>1. ASSUME NEW p \in Proposals, Submit(p)
      PROVE  DulyApproved
  BY <1>1 DEF Submit, Becomes
<1>2. ASSUME NEW p \in Proposals, Stage(p)
      PROVE  DulyApproved
  BY <1>2 DEF Stage, Becomes, Staged
<1>3. ASSUME NEW p \in Proposals, Reject(p)
      PROVE  DulyApproved
  BY <1>3 DEF Reject, Becomes
<1>4. ASSUME NEW a \in Approvers, NEW p \in Proposals, Vote(a, p)
      PROVE  DulyApproved
  BY <1>4 DEF Vote
<1>5. ASSUME NEW a \in Approvers, Review(a)
      PROVE  DulyApproved
  BY <1>5 DEF Review, Becomes, VotesKept
<1>6. ASSUME NEW a \in Approvers, StageInCall(a)
      PROVE  DulyApproved
  BY <1>6 DEF StageInCall, Staged, Becomes
<1>7. ASSUME NEW a \in Approvers, Claim(a)
      PROVE  DulyApproved
  <2>1. saw[a] \subseteq votes[on[a]] /\ Enough(saw[a])
    BY <1>7 DEF Claim, Warrant, Counted
  <2>2. on[a] \in Proposals /\ IsFiniteSet(votes[on[a]])
    BY DEF Warrant, Countable
  <2>3. Cardinality(votes[on[a]]) >= Quorum
    BY <2>1, <2>2, MoreVotes
  <2>4. status[on[a]] = "staging" => on[a] \in passing
    BY <2>2 DEF Warrant, Tested
  <2>5. UNCHANGED votes
    BY <1>7 DEF Claim
  <2>6. \A p \in Proposals : p # on[a] => status'[p] = status[p]
    BY <1>7 DEF Claim, Becomes
  <2>7. status[on[a]] # "staging" => UNCHANGED status
    BY <1>7 DEF Claim
  <2> QED
    BY <2>2, <2>3, <2>4, <2>5, <2>6, <2>7
<1>8. ASSUME NEW a \in Approvers, Revert(a)
      PROVE  DulyApproved
  BY <1>8 DEF Revert, Becomes, AfterFailure
<1>9. CASE ServerRestart
  BY <1>9 DEF ServerRestart, Becomes
<1>10. ASSUME UNCHANGED <<status, votes>>
      PROVE  DulyApproved
  BY <1>10
<1> QED
  BY <1>1, <1>2, <1>3, <1>4, <1>5, <1>6, <1>7, <1>8, <1>9, <1>10
  DEF Next, Approval, Working, Housekeeping, Look, Blind, Apply, ApplyFails, Synthesize,
      WriteSpec, Test, Retire, Unlist, Blacklist, RetireBroken, Sweep, Hotload, DaemonRestart,
      Server, vars

\* A proposal is approved once its tests passed and a quorum of different
\* approvers is on record, in the very step that approves it; votes stay.
THEOREM Approving == Spec => [][DulyApproved]_vars
<1>1. TypeOK /\ Warrant /\ [Next]_vars => (TypeOK /\ Warrant)'
  BY TypeStep, WarrantStep
<1>2. TypeOK /\ Warrant /\ [Next]_vars => [DulyApproved]_vars
  BY ApprovalStep
<1> QED
  BY TypeInit, WarrantInit, <1>1, <1>2, PTL DEF Spec

=============================================================================
