----------------------------- MODULE Consensus -----------------------------
(***************************************************************************)
(* The consensus manager (agents/consensus.py): an agent proposes, the      *)
(* participants it names vote, and a reaper thread ends what nobody decided *)
(* in time.                                                                *)
(*                                                                         *)
(* There is no copy in memory.  Each proposal is a file that every request *)
(* reads and writes again, under the manager's lock except in propose() and *)
(* in the reaper's scan.  The file is emptied before it is written, so a   *)
(* save is two steps: from the step that decides what to write until Save, *)
(* the file cannot be parsed and the proposal is "not found" to whoever    *)
(* reads it.  Events are emitted after the lock is released, one a step.   *)
(***************************************************************************)
EXTENDS Naturals, Sequences, FiniteSets, SequencesExt

CONSTANTS
    Proposals,     \* proposal ids (uuids, never used twice)
    Agents,        \* agent ids
    Callers,       \* request threads
    Lists,         \* participant lists that proposers send
    Requests,      \* required_votes that proposers send
    MaxCrashes     \* bound: restarts of the server

ASSUME ListsAssumption ==
    \A ps \in Lists : ps \in Seq(Agents) /\ ps # <<>>

ASSUME RequestsAssumption == Requests \subseteq Nat /\ MaxCrashes \in Nat

ASSUME SomeAssumption == Proposals # {} /\ Agents # {}

ASSUME ThreadsAssumption == "reaper" \notin Callers /\ "none" \notin Callers

VARIABLES
    status,        \* the status of each proposal, "absent" before propose()
    proposer,      \* proposer_id
    participants,  \* participants, a list that may name an agent twice
    required,      \* required_votes
    yes,           \* who accepted (votes with accept = True)
    no,            \* who rejected
    why,           \* result["reason"] of a proposal that was not accepted
    expired,       \* proposals whose expires_at has passed
    lock,          \* the thread that holds the manager's lock
    saving,        \* the threads between emptying a file and writing it
    job,           \* the proposal each thread is at work on
    outbox,        \* the events each thread has still to emit
    found,         \* the proposal that the reaper's scan has found too old, if any
    lost,          \* proposals whose file was left empty by a crash
    told,          \* proposed, vote_requested and vote_cast events emitted
    verdicts,      \* reached, rejected and expired events emitted, in order
    crashes        \* restarts so far

ballot  == <<status, yes, no, why>>
terms   == <<proposer, participants, required>>
threads == <<lock, saving, job, outbox, found>>
news    == <<told, verdicts>>
vars    == <<ballot, terms, expired, threads, lost, news, crashes>>

-----------------------------------------------------------------------------
Threads  == Callers \cup {"reaper"}
Statuses == {"absent", "pending", "accepted", "rejected", "expired"}
Resolved == {"accepted", "rejected", "expired"}
Reasons  == {"none", "quorum impossible", "withdrawn by proposer",
             "expired before vote cast", "ttl expired"}

VerdictNames == {"consensus.reached", "consensus.rejected", "consensus.expired"}
ToldNames    == {"consensus.proposed", "consensus.vote_requested",
                 "consensus.vote_cast"}
Event(name, p, a) == [event |-> name, proposal |-> p, agent |-> a]
Events == [event : VerdictNames \cup ToldNames, proposal : Proposals, agent : Agents]

AnyProposal == CHOOSE p \in Proposals : TRUE
AnyAgent    == CHOOSE a \in Agents : TRUE

\* Mutant: the number asked for is taken as it is.
Clamped_Not(n, ps) == n

\* required_votes, brought between 1 and the length of the list.
Clamped(n, ps) == IF n < 1 THEN 1
                  ELSE IF n > Len(ps) THEN Len(ps) ELSE n

\* The proposals that _load finds.
Readable(p) == /\ status[p] # "absent"
               /\ p \notin lost
               /\ \A c \in saving : job[c] # p

Idle(c) == c \notin saving /\ outbox[c] = <<>>

\* Mutant: a proposal is accepted by one vote more than required.
Reached_OneMore(p, ayes) == Cardinality(ayes) > required[p]

Reached(p, ayes) == Cardinality(ayes) >= required[p]

\* Mutant: the vote just cast is counted among those still to come.
Remaining_OffByOne(p, voted) == Len(participants[p]) + 1 - Cardinality(voted)

\* The votes still to come, counted from the length of the list.
Remaining(p, voted) == Len(participants[p]) - Cardinality(voted)

\* Even if every vote still to come accepts, the quorum is not reached.
Impossible(p, ayes, nays) ==
    Cardinality(ayes) + Remaining(p, ayes \cup nays) < required[p]

\* Thread c empties the file of p to write it again, and has events to emit
\* once it is written.
StartSave(c, p, evs) ==
    /\ saving' = saving \cup {c}
    /\ job' = [job EXCEPT ![c] = p]
    /\ outbox' = [outbox EXCEPT ![c] = evs]

\* Mutant: nobody is told of a rejection.
VerdictEvents_NotRejected(p, s) ==
    IF s = "accepted" THEN <<Event("consensus.reached", p, proposer[p])>> ELSE <<>>

\* What vote() emits after vote_cast.
VerdictEvents(p, s) ==
    IF s = "accepted" THEN <<Event("consensus.reached", p, proposer[p])>>
    ELSE IF s = "rejected" THEN <<Event("consensus.rejected", p, proposer[p])>>
    ELSE <<>>

-----------------------------------------------------------------------------
Init ==
    /\ status = [p \in Proposals |-> "absent"]
    /\ proposer = [p \in Proposals |-> AnyAgent]
    /\ participants = [p \in Proposals |-> <<>>]
    /\ required = [p \in Proposals |-> 0]
    /\ yes = [p \in Proposals |-> {}]
    /\ no = [p \in Proposals |-> {}]
    /\ why = [p \in Proposals |-> "none"]
    /\ expired = {}
    /\ lock = "none"
    /\ saving = {}
    /\ job = [c \in Threads |-> AnyProposal]
    /\ outbox = [c \in Threads |-> <<>>]
    /\ found = {}
    /\ lost = {}
    /\ told = {}
    /\ verdicts = [p \in Proposals |-> <<>>]
    /\ crashes = 0

-----------------------------------------------------------------------------
\* propose(): a new file, written without the lock; everyone in the list is
\* asked to vote.
Propose(c, p, a, ps, n) ==
    /\ Idle(c)
    /\ status[p] = "absent"
    /\ status' = [status EXCEPT ![p] = "pending"]
    /\ proposer' = [proposer EXCEPT ![p] = a]
    /\ participants' = [participants EXCEPT ![p] = ps]
    /\ required' = [required EXCEPT ![p] = Clamped(n, ps)]
    /\ StartSave(c, p, <<Event("consensus.proposed", p, a)>> \o
                       [i \in 1..Len(ps) |-> Event("consensus.vote_requested", p, ps[i])])
    /\ UNCHANGED <<yes, no, why, expired, lock, found, lost, news, crashes>>

\* Whether v may vote on p: vote() has the lock, has read the file and found
\* it pending, and v is a participant who has not voted.
MayVote(c, v, p) ==
    /\ Idle(c)
    /\ lock = "none"
    /\ Readable(p)
    /\ status[p] = "pending"
    /\ v \in Range(participants[p])
    /\ v \notin yes[p] \cup no[p]

\* vote() after expires_at: the proposal is ended here, and no event is emitted.
VoteTooLate(c, v, p) ==
    /\ MayVote(c, v, p)
    /\ p \in expired
    /\ status' = [status EXCEPT ![p] = "expired"]
    /\ why' = [why EXCEPT ![p] = "expired before vote cast"]
    /\ lock' = c
    /\ StartSave(c, p, <<>>)
    /\ UNCHANGED <<yes, no, terms, expired, found, lost, news, crashes>>

\* vote(): the vote is counted, and decides the proposal if it can.
Vote(c, v, p, accept) ==
    LET ayes == IF accept THEN yes[p] \cup {v} ELSE yes[p]
        nays == IF accept THEN no[p] ELSE no[p] \cup {v}
        s    == IF Reached(p, ayes) THEN "accepted"
                ELSE IF Impossible(p, ayes, nays) THEN "rejected"
                ELSE "pending"
    IN
    /\ MayVote(c, v, p)
    /\ p \notin expired
    /\ yes' = [yes EXCEPT ![p] = ayes]
    /\ no' = [no EXCEPT ![p] = nays]
    /\ status' = [status EXCEPT ![p] = s]
    /\ why' = [why EXCEPT ![p] = IF s = "rejected" THEN "quorum impossible" ELSE @]
    /\ lock' = c
    /\ StartSave(c, p, <<Event("consensus.vote_cast", p, v)>> \o VerdictEvents(p, s))
    /\ UNCHANGED <<terms, expired, found, lost, news, crashes>>

\* withdraw(): by the proposer, while the proposal is pending.
Withdraw(c, a, p) ==
    /\ Idle(c)
    /\ lock = "none"
    /\ Readable(p)
    /\ a = proposer[p]
    /\ status[p] = "pending"
    /\ status' = [status EXCEPT ![p] = "rejected"]
    /\ why' = [why EXCEPT ![p] = "withdrawn by proposer"]
    /\ lock' = c
    /\ StartSave(c, p, <<Event("consensus.rejected", p, a)>>)
    /\ UNCHANGED <<yes, no, terms, expired, found, lost, news, crashes>>

\* The clock passes expires_at.
TimePasses(p) ==
    /\ status[p] = "pending"
    /\ p \notin expired
    /\ expired' = expired \cup {p}
    /\ UNCHANGED <<ballot, terms, threads, lost, news, crashes>>

\* _save(): the file is whole again, and the lock is released.
Save(c) ==
    /\ c \in saving
    /\ saving' = saving \ {c}
    /\ lock' = IF lock = c THEN "none" ELSE lock
    /\ UNCHANGED <<ballot, terms, expired, job, outbox, found, lost, news, crashes>>

MayEmit(c) == outbox[c] # <<>> /\ c \notin saving

\* The next event of thread c is emitted.
Emit(c) ==
    LET e == Head(outbox[c]) IN
    /\ MayEmit(c)
    /\ outbox' = [outbox EXCEPT ![c] = Tail(@)]
    /\ IF e.event \in VerdictNames
       THEN /\ verdicts' = [verdicts EXCEPT ![e.proposal] = Append(@, e.event)]
            /\ told' = told
       ELSE /\ told' = told \cup {e}
            /\ verdicts' = verdicts
    /\ UNCHANGED <<ballot, terms, expired, lock, saving, job, found, lost, crashes>>

-----------------------------------------------------------------------------

\* What the reaper looks for.
Stale(p) == Readable(p) /\ status[p] = "pending" /\ p \in expired

\* The reaper's scan, without the lock: p is pending and too old.
Find(p) ==
    /\ Idle("reaper")
    /\ found = {}
    /\ Stale(p)
    /\ found' = {p}
    /\ UNCHANGED <<ballot, terms, expired, lock, saving, job, outbox, lost, news, crashes>>

\* What the reaper reads again under the lock.
StillPending(p) == Readable(p) /\ status[p] = "pending"

\* The reaper has the lock, and the proposal is still pending.
Expire(p) ==
    /\ p \in found
    /\ lock = "none"
    /\ StillPending(p)
    /\ status' = [status EXCEPT ![p] = "expired"]
    /\ why' = [why EXCEPT ![p] = "ttl expired"]
    /\ lock' = "reaper"
    /\ found' = {}
    /\ StartSave("reaper", p, <<Event("consensus.expired", p, proposer[p])>>)
    /\ UNCHANGED <<yes, no, terms, expired, lost, news, crashes>>

\* The reaper has the lock, but somebody was faster.
SkipFound(p) ==
    /\ p \in found
    /\ lock = "none"
    /\ ~StillPending(p)
    /\ found' = {}
    /\ UNCHANGED <<ballot, terms, expired, lock, saving, job, outbox, lost, news, crashes>>

\* The server stops and starts again: what its threads were doing is gone, and
\* a file that was being written stays empty.
Restart ==
    /\ crashes < MaxCrashes
    /\ crashes' = crashes + 1
    /\ lost' = lost \cup {job[c] : c \in saving}
    /\ lock' = "none"
    /\ saving' = {}
    /\ job' = [c \in Threads |-> AnyProposal]
    /\ outbox' = [c \in Threads |-> <<>>]
    /\ found' = {}
    /\ UNCHANGED <<ballot, terms, expired, news>>

Next ==
    \/ \E c \in Callers, p \in Proposals, a \in Agents, ps \in Lists, n \in Requests :
          Propose(c, p, a, ps, n)
    \/ \E c \in Callers, v \in Agents, p \in Proposals : VoteTooLate(c, v, p)
    \/ \E c \in Callers, v \in Agents, p \in Proposals, accept \in BOOLEAN :
          Vote(c, v, p, accept)
    \/ \E c \in Callers, a \in Agents, p \in Proposals : Withdraw(c, a, p)
    \/ \E p \in Proposals : TimePasses(p)
    \/ \E c \in Threads : Save(c)
    \/ \E c \in Threads : Emit(c)
    \/ \E p \in Proposals : Find(p)
    \/ \E p \in Proposals : Expire(p)
    \/ \E p \in Proposals : SkipFound(p)
    \/ Restart

Spec == Init /\ [][Next]_vars

\* A thread inside the manager goes on, the clock runs, and the reaper's loop
\* visits every file again and again.  No agent has to propose, vote or withdraw.
Fairness ==
    /\ \A c \in Threads : WF_vars(Save(c)) /\ WF_vars(Emit(c))
    /\ \A p \in Proposals : /\ WF_vars(TimePasses(p))
                            /\ WF_vars(Find(p))
                            /\ WF_vars(Expire(p))
                            /\ WF_vars(SkipFound(p))

FairSpec == Spec /\ Fairness

-----------------------------------------------------------------------------
\* Every variable has its type; the quorum lies between one vote and as many
\* as the list is long, nobody has voted both ways, and nobody has voted who is
\* not in the list.
TypeOK ==
    /\ status \in [Proposals -> Statuses]
    /\ proposer \in [Proposals -> Agents]
    /\ participants \in [Proposals -> Seq(Agents)]
    /\ required \in [Proposals -> Nat]
    /\ yes \in [Proposals -> SUBSET Agents]
    /\ no \in [Proposals -> SUBSET Agents]
    /\ why \in [Proposals -> Reasons]
    /\ expired \subseteq Proposals
    /\ lock \in Threads \cup {"none"}
    /\ saving \subseteq Threads
    /\ job \in [Threads -> Proposals]
    /\ outbox \in [Threads -> Seq(Events)]
    /\ found \subseteq Proposals
    /\ lost \subseteq Proposals
    /\ told \subseteq Events
    /\ verdicts \in [Proposals -> Seq(VerdictNames)]
    /\ crashes \in 0..MaxCrashes
    /\ \A p \in Proposals :
          /\ status[p] # "absent" => required[p] \in 1..Len(participants[p])
          /\ yes[p] \cap no[p] = {}
          /\ yes[p] \cup no[p] \subseteq Range(participants[p])

\* How often the list of p names somebody again: propose() takes it as it comes.
Repeats(p) == Len(participants[p]) - Cardinality(Range(participants[p]))

\* Early rejection is exact up to the names that the list repeats: a proposal that
\* stays open could still be carried by the participants who have not rejected it
\* and by the votes that vote() expects of the repeated names; and one rejected as
\* impossible could not, not even with those.  So where nobody is named twice,
\* nobody waits for the timeout of a proposal that is settled; and where somebody
\* is, a proposal may stay open that cannot be carried, but none is rejected early.
EarlyRejectionIsExact ==
    \A p \in Proposals :
        LET possible == Cardinality(Range(participants[p]) \ no[p]) + Repeats(p)
        IN  /\ status[p] = "pending" => possible >= required[p]
            /\ why[p] = "quorum impossible" => possible < required[p]

\* Whatever is announced is on disk and stays there: once consensus.reached,
\* .rejected or .expired was emitted, the file can be read and says so, through
\* every later restart; and it was announced once.
AnnouncedIsDurable ==
    \A p \in Proposals :
        verdicts[p] # <<>> =>
            /\ p \notin lost
            /\ \/ status[p] = "accepted" /\ verdicts[p] = <<"consensus.reached">>
               \/ status[p] = "rejected" /\ verdicts[p] = <<"consensus.rejected">>
               \/ status[p] = "expired" /\ verdicts[p] = <<"consensus.expired">>

\* Seen as a ballot: an accepted proposal was carried by its quorum of different
\* participants, by the vote that completed it, and no decision is ever made
\* again or undone, whatever votes, withdrawals, the reaper and restarts race.
Outcome(p) == IF status[p] = "absent" THEN "none"
              ELSE IF status[p] = "pending" THEN "open"
              ELSE IF status[p] = "accepted" THEN "yes"
              ELSE "no"

B(p) == INSTANCE Ballot WITH Voters <- Agents, outcome <- Outcome(p),
                             quorum <- required[p], ayes <- yes[p], nays <- no[p]

ImplementsBallot ==
    /\ \A p \in Proposals : B(p)!Init
    /\ [][\A p \in Proposals : [B(p)!Next]_(B(p)!vars)]_vars

\* Every proposal is decided or expires, unless a crash in the middle of a save
\* has left its file unreadable; unless the server restarts, every acceptance and
\* every rejection is announced, so the proposer that listens learns of it; and
\* what was announced stays true.
EndsAndIsTold ==
    /\ []AnnouncedIsDurable
    /\ \A p \in Proposals :
          status[p] = "pending" ~> (status[p] \in Resolved \/ p \in lost)
    /\ \A p \in Proposals :
          status[p] = "accepted" ~> (verdicts[p] = <<"consensus.reached">> \/ crashes > 0)
    /\ \A p \in Proposals :
          status[p] = "rejected" ~> (verdicts[p] = <<"consensus.rejected">> \/ crashes > 0)
=============================================================================
