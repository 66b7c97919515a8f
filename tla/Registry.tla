------------------------------ MODULE Registry ------------------------------
(***************************************************************************)
(* The agent registry (agents/registry.py) with the signals that end or    *)
(* pause an agent (agents/signals.py), as the server's routes call them.   *)
(*                                                                         *)
(* One lock guards the table, and every locked section ends by writing it  *)
(* to disk, so a locked section is one step and the disk holds what memory *)
(* held after the last one.  What happens outside the lock is a step of    *)
(* its own: the look-up of a parent before its child is inserted, the      *)
(* tombstone before the termination, the events after it, the check of a   *)
(* signal before its effect, the watchdog's look at the status.            *)
(* Every agent has a watchdog thread of its own, that a SIGTERM starts.    *)
(***************************************************************************)
EXTENDS Naturals, FiniteSets

CONSTANTS
    Root,          \* the agent of the master token
    Core,          \* the agents that every start of the server ensures
    Others,        \* ids of the agents that requests register
    Nobody,        \* parent_id None, or an id that no agent has
    Admins,        \* agents with the capability "admin"
    Spawners,      \* agents with the capability "spawn"
    Signalled,     \* agents that signal requests name
    Group,         \* agents whose group_id is the group of the requests
    Workers,       \* request threads
    MaxSpawnDepth, \* MAX_SPAWN_DEPTH
    MaxRestarts    \* bound: restarts of the server

Ids     == {Root} \cup Core \cup Others
Threads == Workers \cup Ids        \* the thread named a is the watchdog of agent a

ASSUME NamesAssumption ==
    /\ Root \notin Core \cup Others /\ Core \cap Others = {}
    /\ Nobody \notin Ids /\ Workers \cap Ids = {}

\* Groups are made of registered agents, and root is made without one.
ASSUME GroupAssumption == Group \subseteq Ids \ {Root} /\ Signalled \subseteq Ids

ASSUME DepthAssumption == MaxSpawnDepth \in Nat \ {0} /\ MaxRestarts \in Nat

VARIABLES
    status,        \* "none" before registration
    parent,        \* parent_id
    depth,         \* spawn_depth
    tokens,        \* agents in the token index
    buried,        \* agents whose tombstone_path is set
    announced,     \* agents whose agent.terminated event is out
    op,            \* what each thread does next
    target,        \* the agent that the thread works on
    found,         \* the depth that a registration has computed
    batch,         \* members that a group termination has still to signal
    orphaned,      \* history: agents registered when their parent was already gone
    asleep,        \* history: agents that were not active at the last restart
    restarts       \* restarts so far

record  == <<status, parent, depth, tokens>>
threads == <<op, target, found, batch>>
history == <<orphaned, asleep, restarts>>
vars    == <<record, buried, announced, threads, history>>

-----------------------------------------------------------------------------
Statuses   == {"none", "active", "suspended", "terminated"}
Operations == {"idle", "register", "spawn", "tasked", "bury", "end", "announce",
               "term", "pause", "group", "waiting"}

Registered(a) == status[a] # "none"
Alive(a)      == status[a] \in {"active", "suspended"}

\* authenticate(): the master token always, another one while it is in the
\* index and its agent is active.
Authenticated(c) == c = Root \/ (c \in tokens /\ status[c] = "active")

MayManage(c, a) == Authenticated(c) /\ (c = a \/ c \in Admins)

\* An admin registers agents under any parent, a spawner only under itself.
MayCreate(c, p, o) ==
    /\ Authenticated(c)
    /\ \/ o = "register" /\ c \in Admins
       \/ o = "spawn" /\ c \in Spawners /\ p = c

\* Mutant: a child is as deep as its parent.
DepthUnder_Same(p) == IF p \in Ids THEN depth[p] ELSE 0

\* The depth of a child of p; an unknown parent counts as none.
DepthUnder(p) == IF p \in Ids THEN depth[p] + 1 ELSE 0

\* Mutant: the limit is one too large.
DepthAllowed_One(d) == d <= MaxSpawnDepth + 1

\* register() raises for a child that would be deeper.
DepthAllowed(d) == d <= MaxSpawnDepth

\* Mutant: only the active children are adopted.
Adopted_Active(a) == {x \in Ids : parent[x] = a /\ status[x] = "active"}

\* The children that root adopts when a is terminated.
Adopted(a) == {x \in Ids : parent[x] = a /\ Alive(x)}

\* A termination begins with the tombstone.
FirstStep == "bury"

AfterTombstone == "end"

\* Mutant: the watchdog spares an agent that is suspended.
WatchdogEnds_Active(a) == status[a] = "active"

\* What the watchdog asks when the grace period is over.
WatchdogEnds(a) == Alive(a)

CanPause(a) == status[a] = "active"

\* Mutant: a load indexes nobody but root.
Indexed_Root == {Root}

\* The agents whose tokens _load puts back in the index.
Indexed == {a \in Ids : status[a] = "active"}

\* Thread t is through, and forgets what it worked on.
Finish(t) ==
    /\ op' = [op EXCEPT ![t] = "idle"]
    /\ target' = [target EXCEPT ![t] = Nobody]

\* root and the core agents are ensured: a core agent that is there is made
\* active, one that is not is created.
Ensured(torn) == [a \in Ids |-> IF a \in Core THEN "active"
                               ELSE IF ~torn THEN status[a]
                               ELSE IF a = Root THEN "active" ELSE "none"]

-----------------------------------------------------------------------------
Init ==
    /\ status = [a \in Ids |-> IF a \in Others THEN "none" ELSE "active"]
    /\ parent = [a \in Ids |-> Nobody]
    /\ depth = [a \in Ids |-> IF a \in Core THEN 1 ELSE 0]
    /\ tokens = {Root} \cup Core
    /\ buried = {}
    /\ announced = {}
    /\ op = [t \in Threads |-> "idle"]
    /\ target = [t \in Threads |-> Nobody]
    /\ found = [t \in Threads |-> 0]
    /\ batch = [w \in Workers |-> {}]
    /\ orphaned = {}
    /\ asleep = {}
    /\ restarts = 0

-----------------------------------------------------------------------------
\* POST /agents/register and POST /agents/spawn: register() reads the depth of
\* the parent without the lock.
LookUpParent(w, c, p, o) ==
    /\ op[w] = "idle"
    /\ MayCreate(c, p, o)
    /\ p \in Ids => Registered(p)
    /\ DepthAllowed(DepthUnder(p))
    /\ op' = [op EXCEPT ![w] = o]
    /\ target' = [target EXCEPT ![w] = p]
    /\ found' = [found EXCEPT ![w] = DepthUnder(p)]
    /\ UNCHANGED <<record, buried, announced, batch, history>>

\* register(): the new agent is inserted, with its token, under the lock.
Register(w, x) ==
    /\ op[w] \in {"register", "spawn"}
    /\ status[x] = "none"
    /\ status' = [status EXCEPT ![x] = "active"]
    /\ parent' = [parent EXCEPT ![x] = target[w]]
    /\ depth' = [depth EXCEPT ![x] = found[w]]
    /\ tokens' = tokens \cup {x}
    /\ orphaned' = IF target[w] \in Ids /\ status[target[w]] = "terminated"
                     THEN orphaned \cup {x} ELSE orphaned
    /\ \/ op[w] = "register" /\ Finish(w)
       \/ /\ op[w] = "spawn"
          /\ op' = [op EXCEPT ![w] = "tasked"]
          /\ target' = [target EXCEPT ![w] = x]
    /\ found' = [found EXCEPT ![w] = 0]
    /\ UNCHANGED <<buried, announced, batch, asleep, restarts>>

\* spawn_agent(): the task of the child is over and the child is terminated.
SpawnEnds(w) ==
    /\ op[w] = "tasked"
    /\ op' = [op EXCEPT ![w] = FirstStep]
    /\ UNCHANGED <<record, buried, announced, target, found, batch, history>>

\* The submission of the child's task raises: the child is left as it is.
SpawnFails(w) ==
    /\ op[w] = "tasked"
    /\ Finish(w)
    /\ UNCHANGED <<record, buried, announced, found, batch, history>>

-----------------------------------------------------------------------------
\* DELETE /agents/{id}: terminate() also takes an agent that is terminated.
\* The file of the tombstone is written here, without the lock.
Terminate(w, c, a) ==
    /\ op[w] = "idle"
    /\ MayManage(c, a) /\ a # Root /\ Registered(a)
    /\ op' = [op EXCEPT ![w] = FirstStep]
    /\ target' = [target EXCEPT ![w] = a]
    /\ UNCHANGED <<record, buried, announced, found, batch, history>>

\* write_tombstone(): its path goes into the record.
RecordTombstone(t) ==
    /\ op[t] = "bury"
    /\ buried' = buried \cup {target[t]}
    /\ op' = [op EXCEPT ![t] = AfterTombstone]
    /\ UNCHANGED <<record, announced, target, found, batch, history>>

\* terminate(): the locked section.  Root adopts the children.
End(t) ==
    /\ op[t] = "end"
    /\ parent' = [x \in Ids |-> IF x \in Adopted(target[t]) THEN Root ELSE parent[x]]
    /\ status' = [status EXCEPT ![target[t]] = "terminated"]
    /\ tokens' = tokens \ {target[t]}
    /\ op' = [op EXCEPT ![t] = "announce"]
    /\ UNCHANGED <<depth, buried, announced, target, found, batch, history>>

\* agent.terminated is emitted after the lock.
Announce(t) ==
    /\ op[t] = "announce"
    /\ announced' = announced \cup {target[t]}
    /\ Finish(t)
    /\ UNCHANGED <<record, buried, found, batch, history>>

-----------------------------------------------------------------------------
\* POST /agents/{id}/suspend and /resume.  For root they change a status that
\* authenticate() never asks for, and a SIGTERM to root ends nothing: those
\* requests are left out.
Suspend(c, a) ==
    /\ a # Root /\ Authenticated(c) /\ c \in Admins /\ status[a] = "active"
    /\ status' = [status EXCEPT ![a] = "suspended"]
    /\ UNCHANGED <<parent, depth, tokens, buried, announced, threads, history>>

Resume(c, a) ==
    /\ a # Root /\ Authenticated(c) /\ c \in Admins /\ status[a] = "suspended"
    /\ status' = [status EXCEPT ![a] = "active"]
    /\ UNCHANGED <<parent, depth, tokens, buried, announced, threads, history>>

\* POST /agents/{id}/signal: signal_dispatch() refuses a terminated agent.
Signal(w, c, a, o) ==
    /\ op[w] = "idle"
    /\ o \in {"term", "pause"}
    /\ a \in Signalled \ {Root} /\ MayManage(c, a) /\ Alive(a)
    /\ op' = [op EXCEPT ![w] = o]
    /\ target' = [target EXCEPT ![w] = a]
    /\ UNCHANGED <<record, buried, announced, found, batch, history>>

\* SIGTERM starts the watchdog.  A second one while the first runs would find
\* nothing more to do than the first.
Arm(w) ==
    /\ op[w] = "term"
    /\ LET a == target[w]
           free == [op EXCEPT ![w] = "idle"]
       IN  /\ op' = IF op[a] = "idle" THEN [free EXCEPT ![a] = "waiting"] ELSE free
           /\ target' = [target EXCEPT ![w] = Nobody, ![a] = a]
    /\ UNCHANGED <<record, buried, announced, found, batch, history>>

\* SIGPAUSE, under the lock (its checkpoint is Checkpoint's Save).
Pause(w) ==
    /\ op[w] = "pause"
    /\ status' = IF CanPause(target[w]) THEN [status EXCEPT ![target[w]] = "suspended"]
                 ELSE status
    /\ Finish(w)
    /\ UNCHANGED <<parent, depth, tokens, buried, announced, found, batch, history>>

\* The grace period of a SIGTERM is over.
Fire(a) ==
    /\ op[a] = "waiting"
    /\ \/ WatchdogEnds(a) /\ op' = [op EXCEPT ![a] = FirstStep] /\ UNCHANGED target
       \/ ~WatchdogEnds(a) /\ Finish(a)
    /\ UNCHANGED <<record, buried, announced, found, batch, history>>

\* POST /agents/group/{id}/terminate: the members are read without the lock
\* and signalled one after the other.
TerminateGroup(w, c) ==
    /\ op[w] = "idle"
    /\ Authenticated(c) /\ c \in Admins
    /\ batch' = [batch EXCEPT ![w] = {a \in Group : Alive(a)}]
    /\ op' = [op EXCEPT ![w] = "group"]
    /\ UNCHANGED <<record, buried, announced, target, found, history>>

\* A member that was terminated meanwhile is passed over, unless that happens
\* between the check and the watchdog's start.
SignalMember(w, a) ==
    /\ op[w] = "group" /\ a \in batch[w]
    /\ batch' = [batch EXCEPT ![w] = @ \ {a}]
    /\ \/ op[a] = "idle" /\ op' = [op EXCEPT ![a] = "waiting"]
                        /\ target' = [target EXCEPT ![a] = a]
       \/ (op[a] # "idle" \/ status[a] = "terminated") /\ UNCHANGED <<op, target>>
    /\ UNCHANGED <<record, buried, announced, found, history>>

GroupDone(w) ==
    /\ op[w] = "group" /\ batch[w] = {}
    /\ op' = [op EXCEPT ![w] = "idle"]
    /\ UNCHANGED <<record, buried, announced, target, found, batch, history>>

-----------------------------------------------------------------------------
\* A new process: no thread survives.  _load reads the file back, and of a
\* file that a crash cut short it reads nothing.
Restart(torn) ==
    /\ restarts < MaxRestarts
    /\ restarts' = restarts + 1
    /\ status' = Ensured(torn)
    /\ tokens' = IF torn THEN {Root} \cup Core ELSE Indexed
    /\ parent' = IF torn THEN [a \in Ids |-> Nobody] ELSE parent
    /\ depth' = IF torn THEN [a \in Ids |-> IF a \in Core THEN 1 ELSE 0] ELSE depth
    /\ buried' = IF torn THEN {} ELSE buried
    /\ announced' = IF torn THEN {} ELSE announced \ Core
    /\ orphaned' = IF torn THEN {} ELSE orphaned
    /\ asleep' = IF torn THEN {} ELSE {a \in Ids : status[a] # "active"}
    /\ op' = [t \in Threads |-> "idle"]
    /\ target' = [t \in Threads |-> Nobody]
    /\ found' = [t \in Threads |-> 0]
    /\ batch' = [w \in Workers |-> {}]

-----------------------------------------------------------------------------
ThreadStep(t) == RecordTombstone(t) \/ End(t) \/ Announce(t)

WorkerStep(w) ==
    \/ \E x \in Others : Register(w, x)
    \/ SpawnEnds(w)
    \/ SpawnFails(w)
    \/ Arm(w)
    \/ Pause(w)
    \/ \E a \in Group : SignalMember(w, a)
    \/ GroupDone(w)

Request(w) ==
    \/ \E c \in Ids, p \in Ids \cup {Nobody}, o \in {"register", "spawn"} :
         LookUpParent(w, c, p, o)
    \/ \E c \in Ids, a \in Ids : Terminate(w, c, a)
    \/ \E c \in Ids, a \in Ids, o \in {"term", "pause"} : Signal(w, c, a, o)
    \/ \E c \in Ids : TerminateGroup(w, c)

Next ==
    \/ \E w \in Workers : Request(w) \/ WorkerStep(w)
    \/ \E t \in Threads : ThreadStep(t)
    \/ \E a \in Ids : Fire(a)
    \/ \E c \in Ids, a \in Ids : Suspend(c, a) \/ Resume(c, a)
    \/ \E torn \in BOOLEAN : Restart(torn)

Spec == Init /\ [][Next]_vars

\* Threads go on: a started request, a watchdog whose grace period runs out.
Fairness ==
    /\ \A w \in Workers : WF_vars(WorkerStep(w))
    /\ \A t \in Threads : WF_vars(ThreadStep(t))
    /\ \A a \in Ids : WF_vars(Fire(a))

FairSpec == Spec /\ Fairness

-----------------------------------------------------------------------------
\* Every variable has its type.
TypeOK ==
    /\ status \in [Ids -> Statuses]
    /\ parent \in [Ids -> Ids \cup {Nobody}]
    /\ depth \in [Ids -> 0..MaxSpawnDepth]
    /\ tokens \in SUBSET Ids
    /\ buried \in SUBSET Ids
    /\ announced \in SUBSET Ids
    /\ op \in [Threads -> Operations]
    /\ target \in [Threads -> Ids \cup {Nobody}]
    /\ found \in [Threads -> 0..MaxSpawnDepth]
    /\ batch \in [Workers -> SUBSET Group]
    /\ orphaned \in SUBSET Ids
    /\ asleep \in SUBSET Ids
    /\ restarts \in 0..MaxRestarts

\* Every agent is deeper than its parent, although a parent is looked up
\* before the lock is taken and children change parents: so the chain that
\* get_lineage() follows ends, and no chain is longer than MAX_SPAWN_DEPTH.
DepthDescends ==
    \A a \in Ids : Registered(a) /\ parent[a] \in Ids => depth[parent[a]] < depth[a]

\* No agent is left under a terminated parent, whatever it was doing when the
\* parent ended ("reassign children to root so they keep running"), except one
\* that was registered when its parent had ended already.
OrphansAreAdopted ==
    \A a \in Ids :
        /\ Alive(a) /\ parent[a] \in Ids /\ status[parent[a]] = "terminated"
        => a \in orphaned

\* An active agent can authenticate, unless it was not active at the last
\* restart: _load does not index the token of a suspended agent, and nothing
\* puts it back when the agent is resumed or is made active as a core agent.
ActiveAuthenticates ==
    \A a \in Ids : status[a] = "active" /\ a \notin asleep => Authenticated(a)

\* A SIGTERM ends its agent, also one that is suspended by then, unless the
\* server restarts, which takes the watchdog with it: the watchdog does not
\* rest before the agent is terminated, and it does come to rest.
SigtermEnds ==
    /\ [][\A a \in Signalled : op[a] # "idle" /\ op'[a] = "idle" /\ restarts' = restarts
                               => status'[a] = "terminated"]_vars
    /\ \A a \in Signalled : op[a] = "waiting" ~> op[a] = "idle"
=============================================================================
