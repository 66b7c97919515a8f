------------------------------ MODULE Evolution ------------------------------
(***************************************************************************)
(* How the system extends itself: the proposal engine of the API server    *)
(* (agents/proposals.py), the tools that agents write and retire in the    *)
(* daemon (agents/live_capabilities.py), and the daemon's housekeeping of  *)
(* the directory both of them write to (agents/daemon.py).                 *)
(*                                                                         *)
(* A tool is an implementation, NAME.py, and a specification, NAME.json.   *)
(* An approved proposal for a tool writes the specification alone.  The    *)
(* daemon should make an entry of its engine from the implementation, but  *)
(* its hot-load fails at every file, so a plan that names the tool finds   *)
(* nothing to call.                                                        *)
(*                                                                         *)
(* Of a proposal, the type "new_tool" is modelled: the other types apply   *)
(* outside the directory.  Votes come over the API from approvers, at the  *)
(* same time; tools are written by the workers of the daemon.              *)
(***************************************************************************)
EXTENDS Naturals, FiniteSets

CONSTANTS
    Proposals,    \* submitted proposals
    Tools,        \* names of tools that are not built in
    ToolOf,       \* the tool that a proposal names
    Quorum,       \* consensus_quorum
    Approvers,    \* callers of the API that may approve and reject
    Workers,      \* workers of the daemon
    MaxFaults     \* bound: failed writes and restarts of server and daemon

ASSUME ProposalsAssumption ==
    /\ ToolOf \in [Proposals -> Tools]
    /\ Quorum \in Nat \ {0} /\ MaxFaults \in Nat

VARIABLES
    status,    \* of each proposal, "absent" before it is submitted, "unreadable"
               \* when a stop of the server has left its file empty
    passing,   \* proposals whose test cases pass
    votes,     \* approve_votes, as they were last saved
    applied,   \* proposals whose change was made (history)
    cut,       \* proposals whose application a restart cut short (history)
    call,      \* where the approve() of each approver is
    on,        \* its proposal
    saw,       \* the votes in the copy of it that approve() holds
    onDisk,    \* tools with an implementation
    listed,    \* tools with a specification
    broken,    \* broken_tools.json
    job,       \* where the call of each worker is
    tool,      \* its tool
    chore,     \* the housekeeping step that comes next
    faults     \* faults so far

engine    == <<status, passing, votes, applied, cut>>
calls     == <<call, on, saw>>
directory == <<onDisk, listed>>
jobs      == <<job, tool>>
vars      == <<engine, calls, directory, broken, jobs, chore, faults>>

-----------------------------------------------------------------------------
Stageable == {"proposed", "in_review"}
Open     == Stageable \cup {"staging"}
Statuses == Open \cup {"absent", "approved", "rejected", "unreadable"}
Calls    == {"idle", "counted", "staging", "apply", "write", "revert"}
Jobs     == {"idle", "spec", "test", "unlist"}
Chores   == {"retire", "sweep", "load"}

\* Mutant: one vote less is enough.
Enough_Early(V) == Cardinality(V) + 1 >= Quorum

Enough(V) == Cardinality(V) >= Quorum

\* The record is loaded again under the lock before it is saved.
VotesKept(a) == votes

\* Mutant: a status nobody knows.
AfterFailure_Unknown == "apply_error"

\* Mutant: the status that a failed application leaves stays "approved".
AfterFailure_Kept == "approved"

AfterFailure == "staging"

\* Mutant: specifications that have an implementation are the ones removed.
Paired_Swapped == listed \ onDisk

\* The specifications that the sweep leaves.
Paired == listed \cap onDisk

Fault == faults < MaxFaults /\ faults' = faults + 1

-----------------------------------------------------------------------------
Init ==
    /\ status = [p \in Proposals |-> "absent"] /\ votes = [p \in Proposals |-> {}]
    /\ passing = {} /\ applied = {} /\ cut = {}
    /\ call = [a \in Approvers |-> "idle"]
    /\ on \in [Approvers -> Proposals] /\ \A a, b \in Approvers : on[a] = on[b]
    /\ saw = [a \in Approvers |-> {}]
    /\ onDisk = {} /\ listed = {} /\ broken = {}
    /\ job = [w \in Workers |-> "idle"]
    /\ tool \in [Workers -> Tools] /\ \A v, w \in Workers : tool[v] = tool[w]
    /\ chore = "retire" /\ faults = 0

Goto(a, l) == call' = [call EXCEPT ![a] = l]
Becomes(p, s) == status' = [status EXCEPT ![p] = s]
Elsewhere == UNCHANGED <<directory, broken, jobs, chore>>

Return(a) == Goto(a, "idle") /\ saw' = [saw EXCEPT ![a] = {}]

\* submit.
Submit(p) ==
    /\ status[p] = "absent"
    /\ Becomes(p, "proposed")
    /\ passing' \in {passing, passing \cup {p}}
    /\ UNCHANGED <<votes, applied, cut, calls, faults>> /\ Elsewhere

\* stage, all under the lock: the test cases decide.
Staged(p) == Becomes(p, IF p \in passing THEN "staging" ELSE "rejected")

Stage(p) ==
    /\ status[p] \in Stageable
    /\ Staged(p)
    /\ UNCHANGED <<passing, votes, applied, cut, calls, faults>> /\ Elsewhere

\* reject.
Reject(p) ==
    /\ status[p] \in Open
    /\ Becomes(p, "rejected")
    /\ UNCHANGED <<passing, votes, applied, cut, calls, faults>> /\ Elsewhere

\* approve: the vote, under the lock,
Vote(a, p) ==
    /\ call[a] = "idle" /\ status[p] \in Open
    /\ votes' = [votes EXCEPT ![p] = @ \cup {a}]
    /\ saw' = [saw EXCEPT ![a] = votes[p] \cup {a}]
    /\ on' = [on EXCEPT ![a] = p]
    /\ Goto(a, "counted")
    /\ UNCHANGED <<passing, status, applied, cut, faults>> /\ Elsewhere

\* a second locked section when the votes do not suffice: whatever happened
\* to the proposal since, it is in review,
Review(a) ==
    /\ call[a] = "counted" /\ ~Enough(saw[a])
    /\ Becomes(on[a], "in_review")
    /\ votes' = VotesKept(a)
    /\ Return(a)
    /\ UNCHANGED <<passing, applied, cut, on, faults>> /\ Elsewhere

\* a look without the lock when they do,
Look(a) ==
    /\ call[a] = "counted" /\ Enough(saw[a])
    /\ Goto(a, IF status[on[a]] \in Stageable THEN "staging" ELSE "apply")
    /\ UNCHANGED <<engine, on, saw, faults>> /\ Elsewhere

\* the staging, which raises when somebody else was faster,
StageInCall(a) ==
    /\ call[a] = "staging"
    /\ IF status[on[a]] \in Stageable
       THEN Staged(on[a]) /\ Goto(a, "apply") /\ UNCHANGED saw
       ELSE Return(a) /\ UNCHANGED status
    /\ UNCHANGED <<passing, votes, applied, cut, on, faults>> /\ Elsewhere

\* the approval, under the lock,
Claim(a) ==
    /\ call[a] = "apply"
    /\ IF status[on[a]] = "staging"
       THEN Becomes(on[a], "approved") /\ Goto(a, "write") /\ UNCHANGED saw
       ELSE Return(a) /\ UNCHANGED status
    /\ UNCHANGED <<passing, votes, applied, cut, on, faults>> /\ Elsewhere

\* the change itself, without it: _apply writes the specification,
Apply(a) ==
    /\ call[a] = "write"
    /\ listed' = listed \cup {ToolOf[on[a]]}
    /\ applied' = applied \cup {on[a]}
    /\ Return(a)
    /\ UNCHANGED <<passing, status, votes, cut, on, onDisk, broken, jobs, chore, faults>>

\* or fails to, and what was approved goes back to staging.
ApplyFails(a) ==
    /\ call[a] = "write" /\ Fault
    /\ Goto(a, "revert")
    /\ UNCHANGED <<engine, on, saw>> /\ Elsewhere

Revert(a) ==
    /\ call[a] = "revert"
    /\ Becomes(on[a], AfterFailure)
    /\ Return(a)
    /\ UNCHANGED <<passing, votes, applied, cut, on, faults>> /\ Elsewhere

\* A save of p may be under way: it empties the file before it writes.
Saving(p) ==
    \/ status[p] \in Open \cup {"absent"}
    \/ \E a \in Approvers : on[a] = p /\ (call[a] = "revert" \/ (call[a] = "counted" /\ ~Enough(saw[a])))

\* approve() reads without the lock, and raises when the file is empty just then
\* (the save of another caller comes next).
Blind(a) ==
    /\ call[a] \in {"counted", "apply"} /\ Enough(saw[a]) /\ Saving(on[a])
    /\ Return(a)
    /\ UNCHANGED <<engine, on, faults>> /\ Elsewhere

\* The server dies with its calls; the records are files, and one that is being
\* saved may stay empty.
ServerRestart ==
    /\ Fault
    /\ UNCHANGED status \/ \E p \in Proposals : Saving(p) /\ Becomes(p, "unreadable")
    /\ cut' = cut \cup {on[a] : a \in {b \in Approvers : call[b] \in {"write", "revert"}}}
    /\ call' = [a \in Approvers |-> "idle"] /\ saw' = [a \in Approvers |-> {}]
    /\ UNCHANGED <<passing, votes, applied, on>> /\ Elsewhere

-----------------------------------------------------------------------------
Server == <<engine, calls>>
WorkerAt(w, l, m) == job[w] = l /\ job' = [job EXCEPT ![w] = m]

\* synthesize_capability, once the code passed its gates: the implementation
\* is written, over another one only if that is four hours old,
Synthesize(w, t) ==
    /\ WorkerAt(w, "idle", "spec") /\ tool' = [tool EXCEPT ![w] = t]
    /\ onDisk' = onDisk \cup {t}
    /\ UNCHANGED <<Server, listed, broken, chore, faults>>

\* then the specification,
WriteSpec(w) ==
    /\ WorkerAt(w, "spec", "test")
    /\ listed' = listed \cup {tool[w]}
    /\ UNCHANGED <<Server, onDisk, broken, tool, chore, faults>>

\* and it is tried: it works or at least stays, it returns nothing, or its
\* result is not what the description promises and it is removed again.
Stays(w) == WorkerAt(w, "test", "idle") /\ UNCHANGED <<onDisk, broken>>
NullReturn(w) ==
    /\ WorkerAt(w, "test", "idle")
    /\ broken' = broken \cup {tool[w]}
    /\ UNCHANGED onDisk
Mismatch(w) ==
    /\ WorkerAt(w, "test", "unlist")
    /\ onDisk' = onDisk \ {tool[w]}
    /\ UNCHANGED broken

Test(w) ==
    /\ Stays(w) \/ NullReturn(w) \/ Mismatch(w)
    /\ UNCHANGED <<Server, listed, tool, chore, faults>>

\* retire_capability: the implementation goes first, the specification next.
Retire(w, t) ==
    /\ WorkerAt(w, "idle", "unlist") /\ tool' = [tool EXCEPT ![w] = t]
    /\ t \in onDisk
    /\ onDisk' = onDisk \ {t}
    /\ UNCHANGED <<Server, listed, broken, chore, faults>>

Unlist(w) ==
    /\ WorkerAt(w, "unlist", "idle")
    /\ listed' = listed \ {tool[w]}
    /\ UNCHANGED <<Server, onDisk, broken, tool, chore, faults>>

\* A plan names a tool that the engine does not have.
Blacklist(t) ==
    /\ broken' = broken \cup {t}
    /\ UNCHANGED <<Server, directory, jobs, chore, faults>>

-----------------------------------------------------------------------------
\* Every five turns: broken tools are deleted,
RetireBroken ==
    /\ chore = "retire" /\ chore' = "sweep"
    /\ onDisk' = onDisk \ broken
    /\ listed' = listed \ (onDisk \cap broken)
    /\ UNCHANGED <<Server, broken, jobs, faults>>

\* specifications without an implementation too,
Sweep ==
    /\ chore = "sweep" /\ chore' = "load"
    /\ listed' = Paired
    /\ UNCHANGED <<Server, onDisk, broken, jobs, faults>>

\* and implementations are read for the engine: each of them ends in a NameError,
\* which is swallowed, so none is loaded.
Hotload ==
    /\ chore = "load" /\ chore' = "retire"
    /\ UNCHANGED <<Server, directory, broken, jobs, faults>>

\* The daemon dies with its workers.
DaemonRestart ==
    /\ Fault
    /\ job' = [w \in Workers |-> "idle"] /\ chore' = "retire"
    /\ UNCHANGED <<Server, directory, broken, tool>>

Housekeeping == RetireBroken \/ Sweep \/ Hotload
Approval(a) == Review(a) \/ Look(a) \/ StageInCall(a) \/ Claim(a) \/ Apply(a) \/ Revert(a)
Working(w) == WriteSpec(w) \/ Test(w) \/ Unlist(w)

Next ==
    \/ \E p \in Proposals : Submit(p) \/ Stage(p) \/ Reject(p)
    \/ \E a \in Approvers : Approval(a) \/ Blind(a) \/ ApplyFails(a) \/ \E p \in Proposals : Vote(a, p)
    \/ \E w \in Workers : Working(w) \/ \E t \in Tools : Synthesize(w, t) \/ Retire(w, t)
    \/ \E t \in Tools : Blacklist(t)
    \/ ServerRestart \/ DaemonRestart \/ Housekeeping

Spec == Init /\ [][Next]_vars

\* The daemon's turns go on, and the calls of approvers and workers end.
FairSpec ==
    /\ Spec /\ WF_vars(Housekeeping)
    /\ \A a \in Approvers : WF_vars(Approval(a))
    /\ \A w \in Workers : WF_vars(Working(w))

-----------------------------------------------------------------------------
\* Every variable keeps its type.
TypeOK ==
    /\ status \in [Proposals -> Statuses] /\ votes \in [Proposals -> SUBSET Approvers]
    /\ passing \subseteq Proposals /\ applied \subseteq Proposals /\ cut \subseteq Proposals
    /\ call \in [Approvers -> Calls] /\ on \in [Approvers -> Proposals]
    /\ saw \in [Approvers -> SUBSET Approvers]
    /\ onDisk \subseteq Tools /\ listed \subseteq Tools /\ broken \subseteq Tools
    /\ job \in [Workers -> Jobs] /\ tool \in [Workers -> Tools]
    /\ chore \in Chores /\ faults \in 0..MaxFaults

\* No change is made to the system that fewer than a quorum of different
\* approvers voted for, or whose test cases failed, however the calls of
\* approve(), stage() and reject() cross each other.
AppliedIsWarranted == \A p \in applied : p \in passing /\ Cardinality(votes[p]) >= Quorum

\* What stands as approved was done, or is being done, or a restart of the
\* server cut it short: a failed application does not leave the record behind.
ApprovedIsApplied ==
    \A p \in Proposals :
        status[p] = "approved" =>
            p \in applied \cup cut \/ \E a \in Approvers : on[a] = p /\ call[a] \in {"write", "revert"}

\* The list of tools gets rid of what agents would call in vain: a tool that is
\* listed and has no implementation does not stay in the list, and one that was
\* found broken does not stay on the disk, whatever proposals, workers and kills
\* of the daemon leave behind.
ToolsSettle ==
    \A t \in Tools :
        /\ t \in listed \ onDisk ~> (t \notin listed \/ t \in onDisk)
        /\ t \in broken ~> t \notin onDisk
=============================================================================
