-------------------------- MODULE ConsensusProofs --------------------------
(***************************************************************************)
(* Proofs about Consensus: its type invariant, and that each proposal is a *)
(* ballot that is decided once and carried only by its quorum, for any     *)
(* number of agents, request threads, proposals and restarts.              *)
(***************************************************************************)
EXTENDS Consensus, FiniteSetTheorems, TLAPS

\* The part of the types that the ballots need.
BallotTypes ==
    /\ status \in [Proposals -> Statuses]
    /\ required \in [Proposals -> Nat]
    /\ yes \in [Proposals -> SUBSET Agents]
    /\ no \in [Proposals -> SUBSET Agents]

LEMMA ClampedRange ==
    ASSUME NEW n \in Requests, NEW ps \in Lists
    PROVE  /\ ps \in Seq(Agents) /\ Len(ps) \in Nat
           /\ Clamped(n, ps) \in 1..Len(ps)
  BY ListsAssumption, RequestsAssumption DEF Clamped

LEMMA InitBallotTypes == Init => BallotTypes
  BY DEF Init, BallotTypes, Statuses

\* Only the four operations and the reaper touch the ballots.
LEMMA BallotTypesKept == BallotTypes /\ [Next]_vars => BallotTypes'
  <1> SUFFICES ASSUME BallotTypes, [Next]_vars PROVE BallotTypes'
    OBVIOUS
  <1> USE DEF BallotTypes, Statuses
  <1>1. ASSUME NEW c \in Callers, NEW p \in Proposals, NEW a \in Agents,
               NEW ps \in Lists, NEW n \in Requests, Propose(c, p, a, ps, n)
        PROVE  BallotTypes'
    BY <1>1, ClampedRange DEF Propose
  <1>2. ASSUME NEW c \in Callers, NEW v \in Agents, NEW p \in Proposals,
               VoteTooLate(c, v, p)
        PROVE  BallotTypes'
    BY <1>2 DEF VoteTooLate, terms
  <1>3. ASSUME NEW c \in Callers, NEW v \in Agents, NEW p \in Proposals,
               NEW accept \in BOOLEAN, Vote(c, v, p, accept)
        PROVE  BallotTypes'
    BY <1>3 DEF Vote, terms
  <1>4. ASSUME NEW c \in Callers, NEW a \in Agents, NEW p \in Proposals,
               Withdraw(c, a, p)
        PROVE  BallotTypes'
    BY <1>4 DEF Withdraw, terms
  <1>5. ASSUME NEW p \in Proposals, Expire(p) PROVE BallotTypes'
    BY <1>5 DEF Expire, terms
  <1>6. CASE UNCHANGED <<ballot, terms>>
    BY <1>6 DEF ballot, terms
  <1> HIDE DEF BallotTypes, Statuses
  <1>7. CASE Next
    BY <1>1, <1>2, <1>3, <1>4, <1>5, <1>6, <1>7
    DEF Next, TimePasses, Save, Emit, Find, SkipFound, Restart
  <1>8. CASE UNCHANGED vars
    BY <1>6, <1>8 DEF vars
  <1> QED
    BY <1>7, <1>8

-----------------------------------------------------------------------------
\* What one step may do to the ballot of p.
BallotStep(p) == [B(p)!Next]_(B(p)!vars)

LEMMA InitBallots == Init => \A p \in Proposals : B(p)!Init
  BY DEF Init, B!Init, Outcome

\* A step that leaves the record of p alone leaves its ballot alone.
LEMMA SameBallot ==
    ASSUME NEW p \in Proposals,
           status'[p] = status[p], required'[p] = required[p],
           yes'[p] = yes[p], no'[p] = no[p]
    PROVE  BallotStep(p)
  BY DEF BallotStep, B!vars, Outcome

\* A step that ends p without a quorum closes its ballot.
LEMMA ClosedBallot ==
    ASSUME NEW p \in Proposals, status[p] = "pending",
           status'[p] \in {"rejected", "expired"},
           required'[p] = required[p], yes'[p] = yes[p], no'[p] = no[p]
    PROVE  BallotStep(p)
  <1>1. Outcome(p) = "open" /\ Outcome(p)' = "no"
    BY DEF Outcome
  <1> QED
    BY <1>1 DEF BallotStep, B!Next, B!Close, B!vars

LEMMA VoteIsCast ==
    ASSUME BallotTypes, NEW c \in Callers, NEW v \in Agents, NEW p \in Proposals,
           NEW accept \in BOOLEAN, Vote(c, v, p, accept)
    PROVE  BallotStep(p)
  <1> DEFINE ayes == IF accept THEN yes[p] \cup {v} ELSE yes[p]
             nays == IF accept THEN no[p] ELSE no[p] \cup {v}
  <1>1. /\ status[p] = "pending" /\ v \notin yes[p] \cup no[p]
        /\ yes'[p] = ayes /\ no'[p] = nays /\ required'[p] = required[p]
        /\ status'[p] = IF Reached(p, ayes) THEN "accepted"
                        ELSE IF Impossible(p, ayes, nays) THEN "rejected"
                        ELSE "pending"
    BY DEF Vote, MayVote, BallotTypes, terms
  <1>2. Outcome(p) = "open"
    BY <1>1 DEF Outcome
  <1>3. IF Cardinality(yes'[p]) >= required[p] THEN Outcome(p)' = "yes"
                                               ELSE Outcome(p)' \in {"open", "no"}
    BY <1>1 DEF Outcome, Reached
  <1>4. \/ yes'[p] = yes[p] \cup {v} /\ no'[p] = no[p]
        \/ no'[p] = no[p] \cup {v} /\ yes'[p] = yes[p]
    BY <1>1
  <1>5. yes[p] = yes[p] /\ required'[p] = required[p] /\ v \notin yes[p] \cup no[p]
    BY <1>1
  <1> HIDE DEF ayes, nays
  <1>6. B(p)!Cardinality(yes'[p]) = Cardinality(yes'[p])
    BY DEF B!Cardinality, Cardinality
  <1>7. B(p)!Cast(v)
    BY <1>2, <1>3, <1>4, <1>5, <1>6 DEF B!Cast
  <1> QED
    BY <1>7 DEF BallotStep, B!Next

LEMMA ProposalIsCalled ==
    ASSUME BallotTypes, NEW c \in Callers, NEW p \in Proposals, NEW a \in Agents,
           NEW ps \in Lists, NEW n \in Requests, Propose(c, p, a, ps, n)
    PROVE  BallotStep(p)
  <1>1. /\ status[p] = "absent" /\ status'[p] = "pending"
        /\ required'[p] \in Nat \ {0}
        /\ yes'[p] = yes[p] /\ no'[p] = no[p]
    BY ClampedRange DEF Propose, BallotTypes
  <1>2. Outcome(p) = "none" /\ Outcome(p)' = "open"
    BY <1>1 DEF Outcome
  <1> QED
    BY <1>1, <1>2 DEF BallotStep, B!Next, B!Call

LEMMA BallotSteps ==
    ASSUME BallotTypes, [Next]_vars, NEW p \in Proposals
    PROVE  BallotStep(p)
  <1> USE DEF BallotTypes
  <1>1. ASSUME NEW c \in Callers, NEW q \in Proposals, NEW a \in Agents,
               NEW ps \in Lists, NEW n \in Requests, Propose(c, q, a, ps, n)
        PROVE  BallotStep(p)
    <2>1. CASE q = p
      BY <1>1, <2>1, ProposalIsCalled
    <2>2. CASE q # p
      BY <1>1, <2>2, SameBallot DEF Propose
    <2> QED
      BY <2>1, <2>2
  <1>2. ASSUME NEW c \in Callers, NEW v \in Agents, NEW q \in Proposals,
               VoteTooLate(c, v, q)
        PROVE  BallotStep(p)
    <2>1. CASE q = p
      BY <1>2, <2>1, ClosedBallot DEF VoteTooLate, MayVote, terms
    <2>2. CASE q # p
      BY <1>2, <2>2, SameBallot DEF VoteTooLate, terms
    <2> QED
      BY <2>1, <2>2
  <1>3. ASSUME NEW c \in Callers, NEW v \in Agents, NEW q \in Proposals,
               NEW accept \in BOOLEAN, Vote(c, v, q, accept)
        PROVE  BallotStep(p)
    <2>1. CASE q = p
      BY <1>3, <2>1, VoteIsCast
    <2>2. CASE q # p
      BY <1>3, <2>2, SameBallot DEF Vote, terms
    <2> QED
      BY <2>1, <2>2
  <1>4. ASSUME NEW c \in Callers, NEW a \in Agents, NEW q \in Proposals,
               Withdraw(c, a, q)
        PROVE  BallotStep(p)
    <2>1. CASE q = p
      BY <1>4, <2>1, ClosedBallot DEF Withdraw, terms
    <2>2. CASE q # p
      BY <1>4, <2>2, SameBallot DEF Withdraw, terms
    <2> QED
      BY <2>1, <2>2
  <1>5. ASSUME NEW q \in Proposals, Expire(q) PROVE BallotStep(p)
    <2>1. CASE q = p
      BY <1>5, <2>1, ClosedBallot DEF Expire, StillPending, terms
    <2>2. CASE q # p
      BY <1>5, <2>2, SameBallot DEF Expire, terms
    <2> QED
      BY <2>1, <2>2
  <1>6. CASE UNCHANGED <<ballot, terms>>
    BY <1>6, SameBallot DEF ballot, terms
  <1> QED
    BY <1>1, <1>2, <1>3, <1>4, <1>5, <1>6
    DEF Next, vars, TimePasses, Save, Emit, Find, SkipFound, Restart

-----------------------------------------------------------------------------
\* Every proposal is a ballot: called once, decided at most once, in favour only
\* by the vote that completes its quorum of different participants, and never
\* decided again, whatever requests, the reaper and restarts race over it.
THEOREM Refinement == Spec => ImplementsBallot
  <1>1. Init => BallotTypes
    BY InitBallotTypes
  <1>2. BallotTypes /\ [Next]_vars => BallotTypes'
    BY BallotTypesKept
  <1>3. Init => \A p \in Proposals : B(p)!Init
    BY InitBallots
  <1>4. BallotTypes /\ [Next]_vars => [\A p \in Proposals : [B(p)!Next]_(B(p)!vars)]_vars
    BY BallotSteps DEF BallotStep
  <1> QED
    BY <1>1, <1>2, <1>3, <1>4, PTL DEF Spec, ImplementsBallot

-----------------------------------------------------------------------------
\* The inductive invariant behind TypeOK: nobody has voted on a proposal that was
\* not made yet.
TypeInv == /\ TypeOK
           /\ \A p \in Proposals : status[p] = "absent" => yes[p] = {} /\ no[p] = {}

LEMMA EventType ==
    ASSUME NEW name \in VerdictNames \cup ToldNames, NEW p \in Proposals, NEW a \in Agents
    PROVE  Event(name, p, a) \in Events
  BY DEF Event, Events

LEMMA VerdictEventsType ==
    ASSUME NEW p \in Proposals, NEW s \in Statuses, proposer[p] \in Agents
    PROVE  VerdictEvents(p, s) \in Seq(Events)
  <1>1. /\ Event("consensus.reached", p, proposer[p]) \in Events
        /\ Event("consensus.rejected", p, proposer[p]) \in Events
    BY EventType DEF VerdictNames
  <1> QED
    BY <1>1 DEF VerdictEvents

LEMMA TypeInit == Init => TypeInv
  <1> SUFFICES ASSUME Init PROVE TypeInv
    OBVIOUS
  <1>1. AnyProposal \in Proposals /\ AnyAgent \in Agents
    BY SomeAssumption DEF AnyProposal, AnyAgent
  <1>2. /\ proposer \in [Proposals -> Agents] /\ job \in [Threads -> Proposals]
        /\ crashes \in 0..MaxCrashes
    BY <1>1, RequestsAssumption DEF Init
  <1>3. /\ participants \in [Proposals -> Seq(Agents)] /\ outbox \in [Threads -> Seq(Events)]
        /\ verdicts \in [Proposals -> Seq(VerdictNames)]
    BY DEF Init
  <1> QED
    BY <1>2, <1>3 DEF Init, TypeInv, TypeOK, Statuses, Reasons, Threads

LEMMA SavingTypes ==
    ASSUME TypeOK, NEW c \in Threads, NEW p \in Proposals, NEW evs \in Seq(Events),
           StartSave(c, p, evs)
    PROVE  /\ outbox' \in [Threads -> Seq(Events)]
           /\ saving' \subseteq Threads
           /\ job' \in [Threads -> Proposals]
  <1>1. outbox' = [outbox EXCEPT ![c] = evs] /\ outbox \in [Threads -> Seq(Events)]
    BY DEF StartSave, TypeOK
  <1>2. outbox' \in [Threads -> Seq(Events)]
    BY <1>1
  <1> QED
    BY <1>2 DEF StartSave, TypeOK

LEMMA TypeStep == TypeInv /\ [Next]_vars => TypeInv'
  <1> SUFFICES ASSUME TypeInv, [Next]_vars PROVE TypeInv'
    OBVIOUS
  <1> USE DEF TypeInv, TypeOK
  <1>1. ASSUME NEW c \in Callers, NEW p \in Proposals, NEW a \in Agents,
               NEW ps \in Lists, NEW n \in Requests, Propose(c, p, a, ps, n)
        PROVE  TypeInv'
    <2>1. ps \in Seq(Agents) /\ Len(ps) \in Nat /\ Clamped(n, ps) \in 1..Len(ps)
      BY ClampedRange
    <2>2. Event("consensus.proposed", p, a) \in Events
      BY EventType DEF ToldNames
    <2>9. ASSUME NEW i \in 1..Len(ps)
          PROVE  Event("consensus.vote_requested", p, ps[i]) \in Events
      <3>1. ps[i] \in Agents
        BY <2>1
      <3> QED
        BY <3>1, EventType DEF ToldNames
    <2>3. <<Event("consensus.proposed", p, a)>> \o
            [i \in 1..Len(ps) |-> Event("consensus.vote_requested", p, ps[i])] \in Seq(Events)
      BY <2>1, <2>2, <2>9
    <2>4. /\ outbox' \in [Threads -> Seq(Events)] /\ saving' \subseteq Threads
          /\ job' \in [Threads -> Proposals]
      BY <1>1, <2>3 DEF Propose, StartSave, Threads
    <2>5. /\ status' \in [Proposals -> Statuses] /\ proposer' \in [Proposals -> Agents]
          /\ participants' \in [Proposals -> Seq(Agents)]
          /\ required' \in [Proposals -> Nat]
      BY <1>1, <2>1 DEF Propose, Statuses
    <2>6. \A q \in Proposals :
             /\ status'[q] # "absent" => required'[q] \in 1..Len(participants'[q])
             /\ yes'[q] \cup no'[q] \subseteq Range(participants'[q])
             /\ status'[q] = "absent" => yes'[q] = {} /\ no'[q] = {}
      BY <1>1, <2>1 DEF Propose
    <2> QED
      BY <1>1, <2>4, <2>5, <2>6 DEF Propose, news
  <1>2. ASSUME NEW c \in Callers, NEW v \in Agents, NEW p \in Proposals,
               VoteTooLate(c, v, p)
        PROVE  TypeInv'
    <2>1. /\ status' \in [Proposals -> Statuses] /\ why' \in [Proposals -> Reasons]
          /\ status[p] = "pending"
      BY <1>2 DEF VoteTooLate, MayVote, Statuses, Reasons
    <2>4. <<>> \in Seq(Events)
      OBVIOUS
    <2>2. /\ outbox' \in [Threads -> Seq(Events)] /\ saving' \subseteq Threads
          /\ job' \in [Threads -> Proposals] /\ lock' \in Threads \cup {"none"}
      BY <1>2, <2>4, SavingTypes DEF VoteTooLate, Threads
    <2>3. \A q \in Proposals : status'[q] = "absent" <=> status[q] = "absent"
      BY <1>2, <2>1 DEF VoteTooLate
    <2> QED
      BY <1>2, <2>1, <2>2, <2>3 DEF VoteTooLate, terms, news
  <1>3. ASSUME NEW c \in Callers, NEW v \in Agents, NEW p \in Proposals,
               NEW accept \in BOOLEAN, Vote(c, v, p, accept)
        PROVE  TypeInv'
    <2> DEFINE ayes == IF accept THEN yes[p] \cup {v} ELSE yes[p]
               nays == IF accept THEN no[p] ELSE no[p] \cup {v}
               s    == IF Reached(p, ayes) THEN "accepted"
                       ELSE IF Impossible(p, ayes, nays) THEN "rejected"
                       ELSE "pending"
    <2>1. /\ s \in Statuses \ {"absent"}
          /\ ayes \subseteq Agents /\ nays \subseteq Agents /\ ayes \cap nays = {}
          /\ ayes \cup nays \subseteq Range(participants[p])
          /\ status[p] = "pending"
      BY <1>3 DEF Vote, MayVote, Statuses
    <2>2. <<Event("consensus.vote_cast", p, v)>> \o VerdictEvents(p, s) \in Seq(Events)
      <3>1. VerdictEvents(p, s) \in Seq(Events)
        BY <2>1, VerdictEventsType
      <3>2. Event("consensus.vote_cast", p, v) \in Events
        BY EventType DEF ToldNames
      <3> QED
        BY <3>1, <3>2
    <2>3. /\ yes' = [yes EXCEPT ![p] = ayes] /\ no' = [no EXCEPT ![p] = nays]
          /\ status' = [status EXCEPT ![p] = s]
          /\ why' = [why EXCEPT ![p] = IF s = "rejected" THEN "quorum impossible" ELSE why[p]]
          /\ StartSave(c, p, <<Event("consensus.vote_cast", p, v)>> \o VerdictEvents(p, s))
          /\ lock' = c /\ UNCHANGED <<terms, expired, found, lost, news, crashes>>
      BY <1>3 DEF Vote
    <2> HIDE DEF ayes, nays, s
    <2>4. /\ outbox' \in [Threads -> Seq(Events)] /\ saving' \subseteq Threads
          /\ job' \in [Threads -> Proposals] /\ lock' \in Threads \cup {"none"}
      BY <2>2, <2>3 DEF StartSave, Threads
    <2>5. /\ status' \in [Proposals -> Statuses] /\ why' \in [Proposals -> Reasons]
          /\ yes' \in [Proposals -> SUBSET Agents] /\ no' \in [Proposals -> SUBSET Agents]
      BY <2>1, <2>3 DEF Reasons
    <2>6. \A q \in Proposals :
             /\ status'[q] # "absent" => required[q] \in 1..Len(participants[q])
             /\ yes'[q] \cap no'[q] = {}
             /\ yes'[q] \cup no'[q] \subseteq Range(participants[q])
             /\ status'[q] = "absent" => yes'[q] = {} /\ no'[q] = {}
      BY <2>1, <2>3
    <2> QED
      BY <2>3, <2>4, <2>5, <2>6 DEF terms, news
  <1>4. ASSUME NEW c \in Callers, NEW a \in Agents, NEW p \in Proposals,
               Withdraw(c, a, p)
        PROVE  TypeInv'
    <2>1. Event("consensus.rejected", p, a) \in Events
      BY EventType DEF VerdictNames
    <2>2. /\ status' \in [Proposals -> Statuses] /\ why' \in [Proposals -> Reasons]
          /\ status[p] = "pending"
      BY <1>4 DEF Withdraw, Statuses, Reasons
    <2>5. <<Event("consensus.rejected", p, a)>> \in Seq(Events)
      BY <2>1
    <2>3. /\ outbox' \in [Threads -> Seq(Events)] /\ saving' \subseteq Threads
          /\ job' \in [Threads -> Proposals] /\ lock' \in Threads \cup {"none"}
      BY <1>4, <2>5, SavingTypes DEF Withdraw, Threads
    <2>4. \A q \in Proposals : status'[q] = "absent" <=> status[q] = "absent"
      BY <1>4, <2>2 DEF Withdraw
    <2> QED
      BY <1>4, <2>2, <2>3, <2>4 DEF Withdraw, terms, news
  <1>5. ASSUME NEW p \in Proposals, TimePasses(p) PROVE TypeInv'
    BY <1>5 DEF TimePasses, ballot, terms, threads, news
  <1>6. ASSUME NEW c \in Threads, Save(c) PROVE TypeInv'
    BY <1>6 DEF Save, ballot, terms, news
  <1>7. ASSUME NEW c \in Threads, Emit(c) PROVE TypeInv'
    <2>1. outbox[c] \in Seq(Events) /\ outbox[c] # <<>>
      BY <1>7 DEF Emit, MayEmit
    <2>2. Head(outbox[c]) \in Events /\ Tail(outbox[c]) \in Seq(Events)
      BY <2>1
    <2>3. outbox' \in [Threads -> Seq(Events)]
      BY <1>7, <2>2 DEF Emit
    <2> DEFINE e == Head(outbox[c])
    <2>4. CASE e.event \in VerdictNames
      <3>1. e.proposal \in Proposals
        BY <2>2 DEF Events
      <3>2. verdicts' = [verdicts EXCEPT ![e.proposal] = Append(@, e.event)] /\ told' = told
        BY <1>7, <2>4 DEF Emit
      <3>3. Append(verdicts[e.proposal], e.event) \in Seq(VerdictNames)
        BY <2>4, <3>1
      <3>4. verdicts' \in [Proposals -> Seq(VerdictNames)]
        BY <3>1, <3>2, <3>3
      <3> QED
        BY <1>7, <2>3, <3>2, <3>4 DEF Emit, ballot, terms
    <2>5. CASE e.event \notin VerdictNames
      <3>1. told' = told \cup {e} /\ verdicts' = verdicts
        BY <1>7, <2>5 DEF Emit
      <3> QED
        BY <1>7, <2>2, <2>3, <3>1 DEF Emit, ballot, terms
    <2> QED
      BY <2>4, <2>5
  <1>8. ASSUME NEW p \in Proposals, Find(p) PROVE TypeInv'
    BY <1>8 DEF Find, ballot, terms, news
  <1>9. ASSUME NEW p \in Proposals, Expire(p) PROVE TypeInv'
    <2>1. Event("consensus.expired", p, proposer[p]) \in Events
      BY EventType DEF VerdictNames
    <2>2. /\ status' \in [Proposals -> Statuses] /\ why' \in [Proposals -> Reasons]
          /\ status[p] = "pending"
      BY <1>9 DEF Expire, StillPending, Statuses, Reasons
    <2>5. <<Event("consensus.expired", p, proposer[p])>> \in Seq(Events)
      BY <2>1
    <2>3. /\ outbox' \in [Threads -> Seq(Events)] /\ saving' \subseteq Threads
          /\ job' \in [Threads -> Proposals] /\ lock' \in Threads \cup {"none"}
      BY <1>9, <2>5, SavingTypes DEF Expire, Threads
    <2>4. \A q \in Proposals : status'[q] = "absent" <=> status[q] = "absent"
      BY <1>9, <2>2 DEF Expire
    <2> QED
      BY <1>9, <2>2, <2>3, <2>4 DEF Expire, terms, news
  <1>10. ASSUME NEW p \in Proposals, SkipFound(p) PROVE TypeInv'
    BY <1>10 DEF SkipFound, ballot, terms, news
  <1>11. CASE Restart
    <2>1. lost' \subseteq Proposals /\ job' \in [Threads -> Proposals] /\ crashes' \in 0..MaxCrashes
      BY <1>11, RequestsAssumption DEF Restart, AnyProposal
    <2> QED
      BY <1>11, <2>1 DEF Restart, ballot, terms, news
  <1>12. CASE UNCHANGED vars
    BY <1>12 DEF vars, ballot, terms, threads, news
  <1> HIDE DEF TypeInv, TypeOK
  <1> QED
    BY <1>1, <1>2, <1>3, <1>4, <1>5, <1>6, <1>7, <1>8, <1>9, <1>10, <1>11, <1>12 DEF Next

\* Every variable keeps its type, the quorum lies within the list, and only
\* participants have voted, each one way.
THEOREM Typing == Spec => []TypeOK
  <1>1. TypeInv => TypeOK
    BY DEF TypeInv
  <1> QED
    BY <1>1, TypeInit, TypeStep, PTL DEF Spec

-----------------------------------------------------------------------------
(* Early rejection.  The code counts votes to come by the length of the list. *)

LEMMA Participants ==
    ASSUME NEW ps \in Lists
    PROVE  /\ IsFiniteSet(Range(ps)) /\ Cardinality(Range(ps)) \in Nat
           /\ Cardinality(Range(ps)) <= Len(ps) /\ Len(ps) \in Nat
  <1>1. ps \in Seq(Agents) /\ Len(ps) \in Nat
    BY ListsAssumption
  <1>2. DOMAIN ps = 1..Len(ps)
    BY <1>1
  <1>3. ps \in [1..Len(ps) -> Range(ps)]
    BY <1>1, <1>2 DEF Range
  <1>4. \A x \in Range(ps) : \E i \in 1..Len(ps) : ps[i] = x
    BY <1>2 DEF Range
  <1>5. ps \in Surjection(1..Len(ps), Range(ps))
    BY <1>3, <1>4 DEF Surjection
  <1>6. IsFiniteSet(1..Len(ps)) /\ Cardinality(1..Len(ps)) = Len(ps)
    BY <1>1, FS_Interval
  <1>7. IsFiniteSet(Range(ps)) /\ Cardinality(Range(ps)) <= Len(ps)
    BY <1>5, <1>6, FS_Surjection
  <1> QED
    BY <1>1, <1>7, FS_CardinalityType

LEMMA Less == \A a, k, l, u, x \in Int : a + (k - u) = x => a + (l - u) = x + (l - k)
  OBVIOUS

LEMMA Between == \A a, b \in Int : a >= b <=> ~(a < b)
  OBVIOUS

\* Of the participants R, those who have not rejected are the acceptances and the
\* votes to come.
LEMMA StillPossible ==
    ASSUME NEW R, IsFiniteSet(R), NEW ayes, NEW nays,
           ayes \cap nays = {}, ayes \cup nays \subseteq R
    PROVE  /\ Cardinality(R \ nays) \in Nat /\ Cardinality(R) \in Nat /\ Cardinality(ayes) \in Nat
           /\ Cardinality(ayes \cup nays) \in Nat
           /\ Cardinality(ayes) + (Cardinality(R) - Cardinality(ayes \cup nays)) = Cardinality(R \ nays)
  <1>1. IsFiniteSet(ayes) /\ IsFiniteSet(nays)
    BY FS_Subset
  <1>2. /\ Cardinality(ayes) \in Nat /\ Cardinality(nays) \in Nat /\ Cardinality(R) \in Nat
        /\ IsFiniteSet(ayes \cup nays) /\ IsFiniteSet(R \ nays)
    BY <1>1, FS_CardinalityType, FS_Subset
  <1>3. Cardinality(ayes \cup nays) = Cardinality(ayes) + Cardinality(nays) - Cardinality(ayes \cap nays)
    BY <1>1, FS_Union
  <1>4. Cardinality(ayes \cap nays) = 0
    BY FS_EmptySet
  <1>5. Cardinality(R \ nays) = Cardinality(R) - Cardinality(R \cap nays) /\ R \cap nays = nays
    BY FS_Difference
  <1>6. Cardinality(R \ nays) \in Nat /\ Cardinality(ayes \cup nays) \in Nat
    BY <1>2, FS_CardinalityType
  <1>7. /\ Cardinality(R \ nays) = Cardinality(R) - Cardinality(nays)
        /\ Cardinality(ayes \cup nays) = Cardinality(ayes) + Cardinality(nays)
    BY <1>2, <1>3, <1>4, <1>5
  <1> QED
    BY <1>2, <1>6, <1>7

\* A proposal was made with one of the lists, and has a reason only afterwards.
Made(p) == IF status[p] = "absent" THEN why[p] = "none" ELSE participants[p] \in Lists

Exact(p) ==
    LET possible == Cardinality(Range(participants[p]) \ no[p]) + Repeats(p)
    IN  /\ status[p] = "pending" => possible >= required[p]
        /\ why[p] = "quorum impossible" => possible < required[p]

ExactInv == TypeInv /\ \A p \in Proposals : Made(p) /\ Exact(p)

LEMMA ExactSame ==
    ASSUME NEW p \in Proposals, Made(p), Exact(p),
           participants'[p] = participants[p], required'[p] = required[p], no'[p] = no[p],
           \/ status'[p] = status[p]
           \/ status[p] # "absent" /\ status'[p] \in {"accepted", "rejected", "expired"},
           why'[p] \in {why[p], "withdrawn by proposer", "expired before vote cast", "ttl expired"},
           why'[p] = why[p] \/ status[p] # "absent"
    PROVE  Made(p)' /\ Exact(p)'
  BY DEF Made, Exact, Repeats

LEMMA VoteIsExact ==
    ASSUME ExactInv, NEW c \in Callers, NEW v \in Agents, NEW p \in Proposals,
           NEW accept \in BOOLEAN, Vote(c, v, p, accept)
    PROVE  Made(p)' /\ Exact(p)'
  <1> DEFINE R    == Range(participants[p])
             ayes == IF accept THEN yes[p] \cup {v} ELSE yes[p]
             nays == IF accept THEN no[p] ELSE no[p] \cup {v}
             m    == Repeats(p)
             s    == IF Reached(p, ayes) THEN "accepted"
                     ELSE IF Impossible(p, ayes, nays) THEN "rejected"
                     ELSE "pending"
  <1>1. /\ yes[p] \cap no[p] = {} /\ yes[p] \cup no[p] \subseteq R /\ v \in R /\ v \notin yes[p] \cup no[p]
        /\ status[p] = "pending" /\ participants[p] \in Lists /\ required[p] \in Nat
        /\ Cardinality(R \ no[p]) + m >= required[p] /\ why[p] # "quorum impossible"
    <2>1. /\ yes[p] \cap no[p] = {} /\ yes[p] \cup no[p] \subseteq R /\ required[p] \in Nat
      BY DEF ExactInv, TypeInv, TypeOK
    <2>2. /\ v \in R /\ v \notin yes[p] \cup no[p] /\ status[p] = "pending"
      BY DEF Vote, MayVote
    <2>3. participants[p] \in Lists /\ Cardinality(R \ no[p]) + m >= required[p]
      BY <2>2 DEF ExactInv, Made, Exact
    <2>4. why[p] = "quorum impossible" => Cardinality(R \ no[p]) + m < required[p]
      BY DEF ExactInv, Exact
    <2>5. Cardinality(R \ no[p]) + m \in Int
      <3>1. /\ IsFiniteSet(R) /\ Cardinality(R) \in Nat /\ Len(participants[p]) \in Nat
            /\ m = Len(participants[p]) - Cardinality(R)
        BY <2>3, Participants DEF Repeats
      <3> HIDE DEF R, m
      <3>2. Cardinality(R \ no[p]) \in Nat
        BY <2>1, <3>1, StillPossible
      <3> QED
        BY <3>1, <3>2
    <2>6. why[p] # "quorum impossible"
      <3> HIDE DEF R, m
      <3> QED
        <4> PICK n, k : n = Cardinality(R \ no[p]) + m /\ k = required[p]
          OBVIOUS
        <4>1. n \in Int /\ k \in Int
          BY <2>1, <2>5
        <4> QED
          BY <2>3, <2>4, <4>1, Between
    <2> QED
      BY <2>1, <2>2, <2>3, <2>6
  <1>2. /\ no'[p] = nays /\ status'[p] = s /\ UNCHANGED terms
        /\ why'[p] = IF s = "rejected" THEN "quorum impossible" ELSE why[p]
    BY DEF Vote, ExactInv, TypeInv, TypeOK
  <1>3. IsFiniteSet(R) /\ m = Len(participants[p]) - Cardinality(R) /\ Len(participants[p]) \in Nat
    BY <1>1, Participants DEF Repeats
  <1>4. ayes \cap nays = {} /\ ayes \cup nays \subseteq R
    BY <1>1
  <1> HIDE DEF R, ayes, nays, m
  <1>5. /\ Cardinality(R \ nays) \in Nat /\ Cardinality(ayes) \in Nat
        /\ Cardinality(ayes) + Remaining(p, ayes \cup nays) = Cardinality(R \ nays) + m
        /\ Cardinality(R \ nays) + m \in Int
    <2>1. /\ Cardinality(R \ nays) \in Nat /\ Cardinality(ayes) \in Nat /\ Cardinality(R) \in Nat
          /\ Cardinality(ayes \cup nays) \in Nat
          /\ Cardinality(ayes) + (Cardinality(R) - Cardinality(ayes \cup nays)) = Cardinality(R \ nays)
      BY <1>3, <1>4, StillPossible
    <2> QED
      BY <1>3, <2>1, Less DEF Remaining
  <1>6. Impossible(p, ayes, nays) <=> Cardinality(R \ nays) + m < required[p]
    BY <1>5 DEF Impossible
  <1>7. /\ s = "pending" => Cardinality(R \ nays) + m >= required[p]
        /\ s = "rejected" => Cardinality(R \ nays) + m < required[p]
        /\ s \in {"pending", "rejected", "accepted"}
    <2>1. Impossible(p, ayes, nays) <=> ~(Cardinality(R \ nays) + m >= required[p])
      <3> PICK n, k : n = Cardinality(R \ nays) + m /\ k = required[p]
        OBVIOUS
      <3>1. k \in Int
        <4>1. required[p] \in Int
          BY DEF ExactInv, TypeInv, TypeOK
        <4> QED
          BY <4>1
      <3>2. n \in Int
        BY <1>5
      <3> QED
        BY <1>6, <3>1, <3>2, Between
    <2> QED
      BY <1>6, <2>1 DEF s
  <1> HIDE DEF s
  <1>8. participants'[p] = participants[p] /\ required'[p] = required[p]
    BY <1>2 DEF terms
  <1>9. Range(participants'[p]) = R /\ Repeats(p)' = m
    BY <1>8 DEF R, m, Repeats
  <1>10. Exact(p)'
    BY <1>1, <1>2, <1>7, <1>8, <1>9 DEF Exact
  <1>11. Made(p)'
    BY <1>1, <1>2, <1>7, <1>8 DEF Made
  <1> QED
    BY <1>10, <1>11

LEMMA ProposalIsExact ==
    ASSUME ExactInv, NEW c \in Callers, NEW p \in Proposals, NEW a \in Agents,
           NEW ps \in Lists, NEW n \in Requests, Propose(c, p, a, ps, n)
    PROVE  Made(p)' /\ Exact(p)'
  <1>1. /\ status[p] = "absent" /\ why[p] = "none" /\ no[p] = {}
    BY DEF Propose, ExactInv, TypeInv, Made
  <1>2. /\ status'[p] = "pending" /\ participants'[p] = ps /\ required'[p] = Clamped(n, ps)
        /\ no'[p] = {} /\ why'[p] = "none"
    BY <1>1 DEF Propose, ExactInv, TypeInv, TypeOK
  <1>3. Len(ps) \in Nat /\ Clamped(n, ps) \in 1..Len(ps)
    BY ClampedRange
  <1>4. /\ Cardinality(Range(ps)) \in Nat /\ Range(ps) \ {} = Range(ps)
        /\ Repeats(p)' = Len(ps) - Cardinality(Range(ps))
    BY <1>2, Participants DEF Repeats
  <1>5. Cardinality(Range(ps)) + (Len(ps) - Cardinality(Range(ps))) >= Clamped(n, ps)
    BY <1>3, <1>4
  <1> QED
    BY <1>2, <1>4, <1>5 DEF Made, Exact

LEMMA ExactStep == ExactInv /\ [Next]_vars => ExactInv'
  <1> SUFFICES ASSUME ExactInv, [Next]_vars, NEW p \in Proposals
               PROVE  Made(p)' /\ Exact(p)'
    BY TypeStep DEF ExactInv
  <1>0. Made(p) /\ Exact(p)
    BY DEF ExactInv
  <1> USE DEF TypeInv, TypeOK
  <1>1. ASSUME NEW c \in Callers, NEW q \in Proposals, NEW a \in Agents,
               NEW ps \in Lists, NEW n \in Requests, Propose(c, q, a, ps, n)
        PROVE  Made(p)' /\ Exact(p)'
    <2>1. CASE q = p
      BY <1>1, <2>1, ProposalIsExact
    <2>2. CASE q # p
      BY <1>0, <1>1, <2>2, ExactSame DEF Propose
    <2> QED
      BY <2>1, <2>2
  <1>2. ASSUME NEW c \in Callers, NEW v \in Agents, NEW q \in Proposals, VoteTooLate(c, v, q)
        PROVE  Made(p)' /\ Exact(p)'
    BY <1>0, <1>2, ExactSame DEF VoteTooLate, MayVote, terms, ExactInv
  <1>3. ASSUME NEW c \in Callers, NEW v \in Agents, NEW q \in Proposals,
               NEW accept \in BOOLEAN, Vote(c, v, q, accept)
        PROVE  Made(p)' /\ Exact(p)'
    <2>1. CASE q = p
      BY <1>3, <2>1, VoteIsExact
    <2>2. CASE q # p
      <3>1. /\ no'[p] = no[p] /\ status'[p] = status[p] /\ why'[p] = why[p] /\ UNCHANGED terms
        BY <1>3, <2>2 DEF Vote, ExactInv
      <3> QED
        BY <1>0, <3>1, ExactSame DEF terms
    <2> QED
      BY <2>1, <2>2
  <1>4. ASSUME NEW c \in Callers, NEW a \in Agents, NEW q \in Proposals, Withdraw(c, a, q)
        PROVE  Made(p)' /\ Exact(p)'
    BY <1>0, <1>4, ExactSame DEF Withdraw, terms, ExactInv
  <1>5. ASSUME NEW q \in Proposals, Expire(q) PROVE Made(p)' /\ Exact(p)'
    BY <1>0, <1>5, ExactSame DEF Expire, StillPending, terms, ExactInv
  <1>6. CASE UNCHANGED <<ballot, terms>>
    BY <1>0, <1>6, ExactSame DEF ballot, terms
  <1> HIDE DEF TypeInv, TypeOK
  <1> QED
    BY <1>1, <1>2, <1>3, <1>4, <1>5, <1>6
    DEF Next, vars, TimePasses, Save, Emit, Find, SkipFound, Restart

\* A proposal that stays open can still be carried by those who have not rejected it
\* and as many votes as the list repeats names, and one that was rejected as
\* impossible could not: for any lists, and whoever votes, withdraws, ends or
\* restarts it meanwhile.
THEOREM EarlyRejection == Spec => []EarlyRejectionIsExact
  <1>1. Init => ExactInv
    BY TypeInit DEF ExactInv, Init, Made, Exact
  <1>2. ExactInv /\ [Next]_vars => ExactInv'
    BY ExactStep
  <1>3. ExactInv => EarlyRejectionIsExact
    BY DEF ExactInv, Exact, EarlyRejectionIsExact
  <1> QED
    BY <1>1, <1>2, <1>3, PTL DEF Spec

-----------------------------------------------------------------------------
(* Announcements.  A verdict is the last event that its thread has to emit; it *)
(* is about the proposal that the thread decided, which nobody saves again.    *)

Says(name, s) == \/ name = "consensus.reached" /\ s = "accepted"
                 \/ name = "consensus.rejected" /\ s = "rejected"
                 \/ name = "consensus.expired" /\ s = "expired"

\* The events evs end at the latest with the verdict s on p.
EndWith(evs, p, s) ==
    \A i \in 1..Len(evs) : evs[i].event \in VerdictNames
        => i = Len(evs) /\ evs[i].proposal = p /\ Says(evs[i].event, s)

HasVerdict(c) == \E i \in 1..Len(outbox[c]) : outbox[c][i].event \in VerdictNames

OutboxInv ==
    \A c \in Threads :
        /\ EndWith(outbox[c], job[c], status[job[c]])
        /\ HasVerdict(c) => verdicts[job[c]] = <<>> /\ job[c] \notin lost

SavingInv == \A c \in saving : verdicts[job[c]] = <<>> /\ status[job[c]] # "absent"

AloneInv == \A c, d \in Threads :
    c # d /\ HasVerdict(c) /\ (d \in saving \/ HasVerdict(d)) => job[c] # job[d]

OpenInv == \A p \in Proposals :
    /\ status[p] \in {"absent", "pending"} => verdicts[p] = <<>>
    /\ status[p] = "absent" => p \notin lost

DurableInv == OutboxInv /\ SavingInv /\ AloneInv /\ OpenInv /\ AnnouncedIsDurable

LEMMA Verdicts ==
    ASSUME NEW name, NEW s, Says(name, s)
    PROVE  s \notin {"absent", "pending"}
  BY DEF Says

\* A step that starts to save an open proposal.
LEMMA StartsToSave ==
    ASSUME TypeInv, DurableInv, NEW c \in Threads, NEW p \in Proposals, NEW s \in Statuses \ {"absent"},
           NEW evs \in Seq(Events), EndWith(evs, p, s),
           Idle(c), StartSave(c, p, evs), status[p] \in {"absent", "pending"}, p \notin lost,
           \A d \in saving : job[d] # p,
           status' = [status EXCEPT ![p] = s], UNCHANGED <<lost, verdicts>>
    PROVE  DurableInv'
  <1>1. /\ outbox \in [Threads -> Seq(Events)] /\ job \in [Threads -> Proposals] /\ saving \subseteq Threads
        /\ status \in [Proposals -> Statuses]
    BY DEF TypeInv, TypeOK
  <1>2. /\ outbox'[c] = evs /\ job'[c] = p /\ status'[p] = s /\ saving' = saving \cup {c}
        /\ \A d \in Threads \ {c} : outbox'[d] = outbox[d] /\ job'[d] = job[d]
        /\ \A q \in Proposals \ {p} : status'[q] = status[q]
    BY <1>1 DEF StartSave
  <1>3. verdicts[p] = <<>> /\ verdicts' = verdicts /\ lost' = lost
    BY DEF DurableInv, OpenInv
  <1>4. ASSUME NEW d \in Threads \ {c}, HasVerdict(d) PROVE job[d] # p
    <2>1. PICK i \in 1..Len(outbox[d]) : outbox[d][i].event \in VerdictNames
      BY <1>4 DEF HasVerdict
    <2>2. Says(outbox[d][i].event, status[job[d]])
      BY <2>1 DEF DurableInv, OutboxInv, EndWith
    <2> QED
      BY <2>2, Verdicts
  <1>5. \A d \in Threads \ {c} : HasVerdict(d)' <=> HasVerdict(d)
    BY <1>2 DEF HasVerdict
  <1>6. OutboxInv'
    <2>1. EndWith(outbox[c], job[c], status[job[c]])' /\ (HasVerdict(c) => verdicts[job[c]] = <<>> /\ job[c] \notin lost)'
      BY <1>2, <1>3 DEF EndWith
    <2>2. ASSUME NEW d \in Threads \ {c}
          PROVE  /\ EndWith(outbox[d], job[d], status[job[d]])'
                 /\ (HasVerdict(d) => verdicts[job[d]] = <<>> /\ job[d] \notin lost)'
      <3>1. EndWith(outbox[d], job[d], status[job[d]]) /\ (HasVerdict(d) => verdicts[job[d]] = <<>> /\ job[d] \notin lost)
        BY DEF DurableInv, OutboxInv
      <3>2. CASE HasVerdict(d)
        <4>1. status'[job[d]] = status[job[d]]
          BY <1>1, <1>2, <1>4, <3>2
        <4> QED
          BY <1>2, <1>3, <3>1, <4>1 DEF EndWith, HasVerdict
      <3>3. CASE ~HasVerdict(d)
        BY <1>2, <1>5, <3>3 DEF EndWith, HasVerdict
      <3> QED
        BY <3>2, <3>3
    <2> QED
      BY <2>1, <2>2 DEF OutboxInv
  <1>7. SavingInv'
    BY <1>1, <1>2, <1>3 DEF DurableInv, SavingInv
  <1>8. AloneInv'
    <2> SUFFICES ASSUME NEW d \in Threads, NEW e \in Threads, d # e,
                        HasVerdict(d)', e \in saving' \/ HasVerdict(e)'
                 PROVE  job'[d] # job'[e]
      BY DEF AloneInv
    <2>1. CASE d = c
      <3>1. e \in saving \/ HasVerdict(e)
        BY <1>2, <1>5, <2>1
      <3>2. job[e] # p
        BY <1>4, <2>1, <3>1
      <3> QED
        BY <1>2, <2>1, <3>2
    <2>2. CASE e = c
      <3>1. job[d] # p
        BY <1>4, <1>5, <2>2
      <3> QED
        BY <1>2, <2>2, <3>1
    <2>3. CASE d # c /\ e # c
      <3>1. HasVerdict(d) /\ (e \in saving \/ HasVerdict(e))
        BY <1>2, <1>5, <2>3
      <3>2. job[d] # job[e]
        BY <3>1 DEF DurableInv, AloneInv
      <3> QED
        BY <1>2, <2>3, <3>2
    <2> QED
      BY <2>1, <2>2, <2>3
  <1>9. OpenInv' /\ AnnouncedIsDurable'
    BY <1>1, <1>2, <1>3 DEF DurableInv, OpenInv, AnnouncedIsDurable
  <1> QED
    BY <1>6, <1>7, <1>8, <1>9 DEF DurableInv

\* A step that touches none of it, but that a save may end.
LEMMA NothingAnnounced ==
    ASSUME DurableInv, saving' \subseteq saving, UNCHANGED <<status, job, outbox, lost, verdicts>>
    PROVE  DurableInv'
  <1>1. \A c \in Threads : HasVerdict(c)' <=> HasVerdict(c)
    BY DEF HasVerdict
  <1>2. OutboxInv'
    BY <1>1 DEF DurableInv, OutboxInv, EndWith
  <1>3. SavingInv' /\ AloneInv' /\ OpenInv' /\ AnnouncedIsDurable'
    BY <1>1 DEF DurableInv, SavingInv, AloneInv, OpenInv, AnnouncedIsDurable
  <1> QED
    BY <1>2, <1>3 DEF DurableInv

LEMMA NoVerdict ==
    ASSUME NEW evs, NEW p, NEW s, \A i \in 1..Len(evs) : evs[i].event \in ToldNames
    PROVE  EndWith(evs, p, s)
  BY DEF EndWith, ToldNames, VerdictNames

LEMMA EmitAnnounces ==
    ASSUME TypeInv, DurableInv, NEW c \in Threads, Emit(c)
    PROVE  DurableInv'
  <1> DEFINE e == Head(outbox[c])
             n == Len(outbox[c])
             q == job[c]
  <1>1. /\ outbox \in [Threads -> Seq(Events)] /\ job \in [Threads -> Proposals] /\ saving \subseteq Threads
        /\ verdicts \in [Proposals -> Seq(VerdictNames)]
    BY DEF TypeInv, TypeOK
  <1>2. /\ outbox[c] \in Seq(Events) /\ n \in Nat \ {0} /\ e = outbox[c][1]
        /\ Tail(outbox[c]) \in Seq(Events) /\ Len(Tail(outbox[c])) = n - 1
        /\ \A i \in 1..(n - 1) : Tail(outbox[c])[i] = outbox[c][i + 1]
    <2>1. outbox[c] \in Seq(Events) /\ outbox[c] # <<>>
      BY <1>1 DEF Emit, MayEmit
    <2> QED
      BY <2>1
  <1>3. /\ c \notin saving /\ outbox' = [outbox EXCEPT ![c] = Tail(@)]
        /\ UNCHANGED <<status, job, saving, lost>>
    BY DEF Emit, MayEmit, ballot
  <1>4. EndWith(outbox[c], q, status[q])
    BY DEF DurableInv, OutboxInv
  <1>5. ASSUME NEW d \in Threads \ {c}
        PROVE  outbox'[d] = outbox[d] /\ job'[d] = job[d] /\ (HasVerdict(d)' <=> HasVerdict(d))
    BY <1>3 DEF HasVerdict
  <1>6. outbox'[c] = Tail(outbox[c]) /\ job'[c] = q
    BY <1>1, <1>3
  <1>7. EndWith(outbox[c], job[c], status[job[c]])'
    <2>1. ASSUME NEW i \in 1..(n - 1), outbox[c][i + 1].event \in VerdictNames
          PROVE  i = n - 1 /\ outbox[c][i + 1].proposal = q /\ Says(outbox[c][i + 1].event, status[q])
      <3>1. i + 1 \in 1..n
        BY <1>2
      <3>2. i + 1 = n /\ outbox[c][i + 1].proposal = q /\ Says(outbox[c][i + 1].event, status[q])
        BY <1>4, <2>1, <3>1 DEF EndWith
      <3> QED
        BY <1>2, <3>2
    <2> HIDE DEF n, q
    <2> QED
      BY <1>2, <1>3, <1>6, <2>1 DEF EndWith, q
  <1>8. HasVerdict(c)' => HasVerdict(c)
    <2>1. ASSUME NEW i \in 1..(n - 1), outbox[c][i + 1].event \in VerdictNames
          PROVE  HasVerdict(c)
      <3>1. i + 1 \in 1..n
        BY <1>2
      <3> QED
        BY <2>1, <3>1 DEF HasVerdict
    <2> QED
      BY <1>2, <1>6, <2>1 DEF HasVerdict
  <1>9. CASE e.event \notin VerdictNames
    <2>1. verdicts' = verdicts
      BY <1>9 DEF Emit
    <2>2. OutboxInv'
      <3>1. (HasVerdict(c) => verdicts[job[c]] = <<>> /\ job[c] \notin lost)'
        BY <1>3, <1>8, <2>1 DEF DurableInv, OutboxInv
      <3>2. ASSUME NEW d \in Threads \ {c}
            PROVE  /\ EndWith(outbox[d], job[d], status[job[d]])'
                   /\ (HasVerdict(d) => verdicts[job[d]] = <<>> /\ job[d] \notin lost)'
        BY <1>3, <1>5, <2>1 DEF DurableInv, OutboxInv, EndWith
      <3> QED
        BY <1>7, <3>1, <3>2 DEF OutboxInv
    <2>3. SavingInv' /\ OpenInv' /\ AnnouncedIsDurable'
      BY <1>3, <2>1 DEF DurableInv, SavingInv, OpenInv, AnnouncedIsDurable
    <2>4. AloneInv'
      BY <1>3, <1>5, <1>8 DEF DurableInv, AloneInv
    <2> QED
      BY <2>2, <2>3, <2>4 DEF DurableInv
  <1>10. CASE e.event \in VerdictNames
    <2>1. 1 = n /\ e.proposal = q /\ Says(e.event, status[q])
      <3>1. 1 \in 1..n /\ outbox[c][1].event \in VerdictNames
        BY <1>2, <1>10
      <3> HIDE DEF q
      <3> QED
        BY <1>2, <1>4, <3>1 DEF EndWith
    <2>2. HasVerdict(c)
      BY <1>2, <1>10 DEF HasVerdict
    <2>3. verdicts[q] = <<>> /\ q \notin lost /\ q \in Proposals
      BY <1>1, <2>2 DEF DurableInv, OutboxInv
    <2>4. verdicts' = [verdicts EXCEPT ![q] = <<e.event>>]
      <3>1. verdicts' = [verdicts EXCEPT ![e.proposal] = Append(@, e.event)]
        BY <1>10 DEF Emit
      <3>2. Append(<<>>, e.event) = <<e.event>>
        OBVIOUS
      <3> HIDE DEF e, q
      <3> QED
        BY <2>1, <2>3, <3>1, <3>2
    <2>5. ~HasVerdict(c)'
      BY <1>2, <1>6, <2>1 DEF HasVerdict
    <2>6. \A d \in Threads \ {c} : d \in saving \/ HasVerdict(d) => job[d] # q
      BY <2>2 DEF DurableInv, AloneInv
    <2> HIDE DEF e, n, q
    <2>7. OutboxInv'
      <3>1. ASSUME NEW d \in Threads \ {c}
            PROVE  /\ EndWith(outbox[d], job[d], status[job[d]])'
                   /\ (HasVerdict(d) => verdicts[job[d]] = <<>> /\ job[d] \notin lost)'
        BY <1>1, <1>3, <1>5, <2>3, <2>4, <2>6 DEF DurableInv, OutboxInv, EndWith
      <3> QED
        BY <1>7, <2>5, <3>1 DEF OutboxInv
    <2>8. SavingInv'
      BY <1>1, <1>3, <2>3, <2>4, <2>6 DEF DurableInv, SavingInv
    <2>9. AloneInv'
      BY <1>3, <1>5, <2>5 DEF DurableInv, AloneInv
    <2>10. OpenInv'
      BY <1>1, <1>3, <2>1, <2>3, <2>4, Verdicts DEF DurableInv, OpenInv
    <2>11. AnnouncedIsDurable'
      <3>1. \/ e.event = "consensus.reached" /\ status[q] = "accepted"
            \/ e.event = "consensus.rejected" /\ status[q] = "rejected"
            \/ e.event = "consensus.expired" /\ status[q] = "expired"
        BY <2>1 DEF Says
      <3>2. verdicts'[q] = <<e.event>> /\ \A p \in Proposals \ {q} : verdicts'[p] = verdicts[p]
        BY <1>1, <2>3, <2>4
      <3> QED
        BY <1>3, <2>3, <3>1, <3>2 DEF DurableInv, AnnouncedIsDurable
    <2> QED
      BY <2>7, <2>8, <2>9, <2>10, <2>11 DEF DurableInv
  <1> QED
    BY <1>9, <1>10

LEMMA RestartKeepsAnnouncements ==
    ASSUME TypeInv, DurableInv, Restart
    PROVE  DurableInv'
  <1>1. /\ saving' = {} /\ outbox' = [c \in Threads |-> <<>>] /\ lost' = lost \cup {job[c] : c \in saving}
        /\ UNCHANGED <<status, verdicts>>
    BY DEF Restart, ballot, news
  <1>2. \A c \in Threads : outbox'[c] = <<>> /\ ~HasVerdict(c)'
    BY <1>1 DEF HasVerdict
  <1>3. OutboxInv' /\ SavingInv' /\ AloneInv'
    BY <1>1, <1>2 DEF OutboxInv, SavingInv, AloneInv, EndWith
  <1>4. OpenInv' /\ AnnouncedIsDurable'
    BY <1>1 DEF DurableInv, SavingInv, OpenInv, AnnouncedIsDurable
  <1> QED
    BY <1>3, <1>4 DEF DurableInv

\* The reaper looks for the next old proposal when it has told of the one before.
ReaperInv == found # {} => Idle("reaper")

LEMMA ReaperStep == ReaperInv /\ [Next]_vars => ReaperInv'
  <1> SUFFICES ASSUME ReaperInv, [Next]_vars PROVE ReaperInv'
    OBVIOUS
  <1> USE ThreadsAssumption DEF ReaperInv, Idle
  <1>1. ASSUME NEW c \in Callers, NEW p \in Proposals, NEW evs, StartSave(c, p, evs), found' = found
        PROVE  ReaperInv'
    BY <1>1 DEF StartSave
  <1>2. ASSUME NEW c \in Callers, NEW p \in Proposals, NEW a \in Agents,
               NEW ps \in Lists, NEW n \in Requests, Propose(c, p, a, ps, n)
        PROVE  ReaperInv'
    BY <1>1, <1>2 DEF Propose
  <1>3. ASSUME NEW c \in Callers, NEW v \in Agents, NEW p \in Proposals, VoteTooLate(c, v, p)
        PROVE  ReaperInv'
    BY <1>1, <1>3 DEF VoteTooLate
  <1>4. ASSUME NEW c \in Callers, NEW v \in Agents, NEW p \in Proposals,
               NEW accept \in BOOLEAN, Vote(c, v, p, accept)
        PROVE  ReaperInv'
    BY <1>1, <1>4 DEF Vote
  <1>5. ASSUME NEW c \in Callers, NEW a \in Agents, NEW p \in Proposals, Withdraw(c, a, p)
        PROVE  ReaperInv'
    BY <1>1, <1>5 DEF Withdraw
  <1>6. ASSUME NEW p \in Proposals, Find(p) \/ Expire(p) \/ SkipFound(p) PROVE ReaperInv'
    BY <1>6 DEF Find, Expire, SkipFound
  <1>7. ASSUME NEW c \in Threads, Save(c) PROVE ReaperInv'
    BY <1>7 DEF Save
  <1>8. ASSUME NEW c \in Threads, Emit(c) PROVE ReaperInv'
    BY <1>8 DEF Emit, MayEmit
  <1>9. CASE Restart
    BY <1>9 DEF Restart
  <1>10. ASSUME UNCHANGED <<saving, outbox, found>> PROVE ReaperInv'
    BY <1>10
  <1> QED
    BY <1>2, <1>3, <1>4, <1>5, <1>6, <1>7, <1>8, <1>9, <1>10
    DEF Next, TimePasses, vars, threads

LEMMA DurableStep == TypeInv /\ DurableInv /\ ReaperInv /\ [Next]_vars => DurableInv'
  <1> SUFFICES ASSUME TypeInv, DurableInv, ReaperInv, [Next]_vars PROVE DurableInv'
    OBVIOUS
  <1> USE DEF TypeInv, TypeOK
  <1>1. ASSUME NEW c \in Callers, NEW p \in Proposals, NEW a \in Agents,
               NEW ps \in Lists, NEW n \in Requests, Propose(c, p, a, ps, n)
        PROVE  DurableInv'
    <2> DEFINE asked == [i \in 1..Len(ps) |-> Event("consensus.vote_requested", p, ps[i])]
               evs   == <<Event("consensus.proposed", p, a)>> \o asked
    <2>1. ps \in Seq(Agents) /\ Len(ps) \in Nat
      BY ClampedRange
    <2>2. Event("consensus.proposed", p, a) \in Events /\ Event("consensus.proposed", p, a).event \in ToldNames
      BY EventType DEF ToldNames, Event
    <2>3. ASSUME NEW i \in 1..Len(ps) PROVE asked[i] \in Events /\ asked[i].event \in ToldNames
      <3>1. ps[i] \in Agents
        BY <2>1
      <3> QED
        BY <3>1, EventType DEF ToldNames, Event
    <2>4. asked \in Seq(Events) /\ Len(asked) = Len(ps)
      BY <2>1, <2>3
    <2>5. evs \in Seq(Events) /\ Len(evs) = Len(ps) + 1
          /\ \A i \in 1..Len(evs) : evs[i] = IF i = 1 THEN Event("consensus.proposed", p, a) ELSE asked[i - 1]
      <3> HIDE DEF asked
      <3> QED
        BY <2>1, <2>2, <2>4
    <2>6. \A i \in 1..Len(evs) : evs[i].event \in ToldNames
      BY <2>1, <2>2, <2>3, <2>5
    <2>7. EndWith(evs, p, "pending")
      BY <2>6, NoVerdict
    <2>8. \A d \in saving : job[d] # p
      BY <1>1 DEF Propose, DurableInv, SavingInv
    <2>9. /\ Idle(c) /\ StartSave(c, p, evs) /\ status[p] = "absent" /\ UNCHANGED <<lost, verdicts>>
          /\ status' = [status EXCEPT ![p] = "pending"]
      BY <1>1 DEF Propose, news
    <2>10. p \notin lost
      BY <2>9 DEF DurableInv, OpenInv
    <2> HIDE DEF evs
    <2> QED
      BY <2>5, <2>7, <2>8, <2>9, <2>10, StartsToSave DEF Threads, Statuses
  <1>2. ASSUME NEW c \in Callers, NEW v \in Agents, NEW p \in Proposals, VoteTooLate(c, v, p)
        PROVE  DurableInv'
    <2>1. /\ Idle(c) /\ Readable(p) /\ status[p] = "pending" /\ StartSave(c, p, <<>>)
          /\ status' = [status EXCEPT ![p] = "expired"] /\ UNCHANGED <<lost, verdicts>>
      BY <1>2 DEF VoteTooLate, MayVote, news
    <2>2. <<>> \in Seq(Events) /\ EndWith(<<>>, p, "expired")
      BY DEF EndWith
    <2> QED
      BY <2>1, <2>2, StartsToSave DEF Readable, Threads, Statuses
  <1>3. ASSUME NEW c \in Callers, NEW v \in Agents, NEW p \in Proposals,
               NEW accept \in BOOLEAN, Vote(c, v, p, accept)
        PROVE  DurableInv'
    <2> DEFINE ayes == IF accept THEN yes[p] \cup {v} ELSE yes[p]
               nays == IF accept THEN no[p] ELSE no[p] \cup {v}
               s    == IF Reached(p, ayes) THEN "accepted"
                       ELSE IF Impossible(p, ayes, nays) THEN "rejected"
                       ELSE "pending"
               cast == Event("consensus.vote_cast", p, v)
               evs  == <<cast>> \o VerdictEvents(p, s)
    <2>1. /\ Idle(c) /\ Readable(p) /\ status[p] = "pending" /\ StartSave(c, p, evs)
          /\ status' = [status EXCEPT ![p] = s] /\ UNCHANGED <<lost, verdicts>>
      BY <1>3 DEF Vote, MayVote, news
    <2>2. s \in {"accepted", "rejected", "pending"}
      OBVIOUS
    <2>3. cast \in Events /\ cast.event \in ToldNames
      BY EventType DEF ToldNames, Event
    <2> HIDE DEF ayes, nays, s, cast
    <2>4. evs \in Seq(Events) /\ EndWith(evs, p, s)
      <3> DEFINE yea == Event("consensus.reached", p, proposer[p])
                 nay == Event("consensus.rejected", p, proposer[p])
      <3>1. /\ yea \in Events /\ yea.event = "consensus.reached" /\ yea.proposal = p
            /\ nay \in Events /\ nay.event = "consensus.rejected" /\ nay.proposal = p
        BY EventType DEF VerdictNames, Event
      <3> HIDE DEF yea, nay
      <3>2. CASE s = "accepted"
        <4>1. VerdictEvents(p, s) = <<yea>>
          BY <3>2 DEF VerdictEvents, yea
        <4>2. evs \in Seq(Events) /\ Len(evs) = 2 /\ evs[1] = cast /\ evs[2] = yea
          BY <2>3, <3>1, <4>1
        <4> HIDE DEF evs
        <4> QED
          BY <2>3, <3>1, <3>2, <4>2 DEF EndWith, Says, ToldNames, VerdictNames
      <3>3. CASE s = "rejected"
        <4>1. VerdictEvents(p, s) = <<nay>>
          BY <3>3 DEF VerdictEvents, nay
        <4>2. evs \in Seq(Events) /\ Len(evs) = 2 /\ evs[1] = cast /\ evs[2] = nay
          BY <2>3, <3>1, <4>1
        <4> HIDE DEF evs
        <4> QED
          BY <2>3, <3>1, <3>3, <4>2 DEF EndWith, Says, ToldNames, VerdictNames
      <3>4. CASE s = "pending"
        <4>1. evs = <<cast>>
          BY <3>4 DEF VerdictEvents
        <4> HIDE DEF evs
        <4> QED
          BY <2>3, <4>1 DEF EndWith, ToldNames, VerdictNames
      <3> QED
        BY <2>2, <3>2, <3>3, <3>4
    <2> HIDE DEF evs
    <2> QED
      BY <2>1, <2>2, <2>4, StartsToSave DEF Readable, Threads, Statuses
  <1>4. ASSUME NEW c \in Callers, NEW a \in Agents, NEW p \in Proposals, Withdraw(c, a, p)
        PROVE  DurableInv'
    <2> DEFINE nay == Event("consensus.rejected", p, a)
    <2>1. /\ Idle(c) /\ Readable(p) /\ status[p] = "pending" /\ StartSave(c, p, <<nay>>)
          /\ status' = [status EXCEPT ![p] = "rejected"] /\ UNCHANGED <<lost, verdicts>>
      BY <1>4 DEF Withdraw, news
    <2>2. nay \in Events /\ nay.event = "consensus.rejected" /\ nay.proposal = p
      BY EventType DEF VerdictNames, Event
    <2> HIDE DEF nay
    <2>3. <<nay>> \in Seq(Events) /\ EndWith(<<nay>>, p, "rejected")
      BY <2>2 DEF EndWith, Says
    <2> QED
      BY <2>1, <2>3, StartsToSave DEF Readable, Threads, Statuses
  <1>5. ASSUME NEW p \in Proposals, Expire(p) PROVE DurableInv'
    <2> DEFINE ev == Event("consensus.expired", p, proposer[p])
    <2>1. /\ Readable(p) /\ status[p] = "pending" /\ StartSave("reaper", p, <<ev>>)
          /\ status' = [status EXCEPT ![p] = "expired"] /\ UNCHANGED <<lost, verdicts>>
      BY <1>5 DEF Expire, StillPending, news
    <2>2. ev \in Events /\ ev.event = "consensus.expired" /\ ev.proposal = p
      BY EventType DEF VerdictNames, Event
    <2> HIDE DEF ev
    <2>3. <<ev>> \in Seq(Events) /\ EndWith(<<ev>>, p, "expired")
      BY <2>2 DEF EndWith, Says
    <2>4. Idle("reaper")
      BY <1>5 DEF Expire, ReaperInv
    <2> QED
      BY <2>1, <2>3, <2>4, StartsToSave DEF Readable, Threads, Statuses
  <1>6. ASSUME NEW c \in Threads, Save(c) PROVE DurableInv'
    BY <1>6, NothingAnnounced DEF Save, ballot, news
  <1>7. ASSUME NEW c \in Threads, Emit(c) PROVE DurableInv'
    BY <1>7, EmitAnnounces
  <1>8. CASE Restart
    BY <1>8, RestartKeepsAnnouncements
  <1>9. ASSUME NEW p \in Proposals, TimePasses(p) \/ Find(p) \/ SkipFound(p) PROVE DurableInv'
    BY <1>9, NothingAnnounced DEF TimePasses, Find, SkipFound, threads, ballot, news
  <1>10. CASE UNCHANGED vars
    BY <1>10, NothingAnnounced DEF vars, threads, ballot, news
  <1> HIDE DEF TypeInv, TypeOK
  <1> QED
    BY <1>1, <1>2, <1>3, <1>4, <1>5, <1>6, <1>7, <1>8, <1>9, <1>10 DEF Next

\* What is announced is on disk and stays there, announced once, whatever
\* requests, the reaper and restarts race.
THEOREM Durability == Spec => []AnnouncedIsDurable
  <1>1. Init => TypeInv /\ DurableInv /\ ReaperInv
    BY TypeInit DEF Init, ReaperInv, DurableInv, OutboxInv, SavingInv, AloneInv, OpenInv, AnnouncedIsDurable, EndWith, HasVerdict
  <1>2. TypeInv /\ DurableInv /\ ReaperInv /\ [Next]_vars => TypeInv' /\ DurableInv' /\ ReaperInv'
    BY TypeStep, DurableStep, ReaperStep
  <1> QED
    BY <1>1, <1>2, PTL DEF Spec, DurableInv
=============================================================================
