--------------------------- MODULE RegistryProofs ---------------------------
(***************************************************************************)
(* Proofs about the registry: types, the tree of agents and their          *)
(* lineages, the adoption of orphans, the index of tokens, what a          *)
(* termination leaves, that it is final, and when the watchdog of a        *)
(* SIGTERM rests, for any number of agents, request threads and restarts.  *)
(***************************************************************************)
EXTENDS Registry, WellFoundedInduction, TLAPS

-----------------------------------------------------------------------------
(* The inductive invariant. *)

\* Sections in which a thread works on an agent that is registered.
Aiming == {"tasked", "bury", "end", "announce", "term", "pause", "waiting"}

\* What a watchdog thread does.
Watching == {"idle", "waiting", "bury", "end", "announce"}

\* A thread works on a registered agent, and never on root.
Aimed ==
    \A t \in Threads :
        op[t] \in Aiming => target[t] \in Ids \ {Root} /\ Registered(target[t])

\* A watchdog works on the agent it is named after.
OwnWatchdog == \A a \in Ids : op[a] \in Watching /\ (op[a] # "idle" => target[a] = a)

\* The members still to be signalled are registered.
Members == \A w \in Workers : \A a \in batch[w] : a \in Ids \ {Root} /\ Registered(a)

\* Who announces has ended the agent, and nothing brings it back.
Ended == \A t \in Threads : op[t] = "announce" => status[target[t]] = "terminated"

\* A depth that was computed without the lock is still right.
Found ==
    \A w \in Workers :
        op[w] \in {"register", "spawn"} /\ target[w] \in Ids
            => Registered(target[w]) /\ found[w] = depth[target[w]] + 1

\* Root is active at depth 0; it and the core agents have no parent.
Roots ==
    /\ status[Root] = "active" /\ depth[Root] = 0
    /\ \A a \in Core \cup {Root} : Registered(a) /\ parent[a] = Nobody

\* Parents are registered, and less deep.
Tree ==
    \A a \in Ids :
        Registered(a) /\ parent[a] \in Ids
            => Registered(parent[a]) /\ depth[parent[a]] < depth[a]

\* The token of an agent that may still act is indexed, unless a restart
\* found it inactive.
Tokens == \A a \in Ids : Alive(a) /\ a \notin asleep => a = Root \/ a \in tokens

ThreadsInv == Aimed /\ OwnWatchdog /\ Members /\ Ended
TreeInv    == Found /\ Roots /\ Tree
IInv       == TypeOK /\ ThreadsInv /\ TreeInv /\ OrphansAreAdopted /\ Tokens

-----------------------------------------------------------------------------
(* Types, and what threads work on. *)

LEMMA TypeInit == Init => TypeOK
  BY NamesAssumption, DepthAssumption DEF Init, TypeOK, Statuses, Operations, Threads, Ids

LEMMA ThreadsInit == Init => ThreadsInv
  BY NamesAssumption
     DEF Init, ThreadsInv, Aimed, OwnWatchdog, Members, Ended, Aiming, Watching, Threads, Ids

\* One step keeps the types: a depth that is computed is below the limit, and
\* what a thread works on is an agent.
LEMMA TypeStep == TypeOK /\ Aimed /\ [Next]_vars => TypeOK'
<1> SUFFICES ASSUME TypeOK, Aimed, [Next]_vars PROVE TypeOK'
  OBVIOUS
<1> USE NamesAssumption, DepthAssumption, GroupAssumption
    DEF TypeOK, Statuses, Operations, Threads, Ids, record, threads, history
<1>1. ASSUME NEW w \in Workers, NEW c \in Ids, NEW p \in Ids \cup {Nobody},
               NEW o \in {"register", "spawn"}, LookUpParent(w, c, p, o)
      PROVE  TypeOK'
  BY <1>1 DEF LookUpParent, DepthAllowed, DepthUnder
<1>2. ASSUME NEW w \in Workers, NEW c \in Ids, NEW a \in Ids, Terminate(w, c, a)
      PROVE  TypeOK'
  BY <1>2 DEF Terminate, FirstStep
<1>3. ASSUME NEW w \in Workers, NEW c \in Ids, NEW a \in Ids, NEW o \in {"term", "pause"},
               Signal(w, c, a, o)
      PROVE  TypeOK'
  BY <1>3 DEF Signal, Alive
<1>4. ASSUME NEW w \in Workers, NEW c \in Ids, TerminateGroup(w, c)
      PROVE  TypeOK'
  BY <1>4 DEF TerminateGroup, Alive
<1>5. ASSUME NEW w \in Workers, NEW x \in Others, Register(w, x)
      PROVE  TypeOK'
  BY <1>5 DEF Register, Finish
<1>6. ASSUME NEW w \in Workers, SpawnEnds(w)
      PROVE  TypeOK'
  BY <1>6 DEF SpawnEnds, FirstStep
<1>7. ASSUME NEW w \in Workers, SpawnFails(w)
      PROVE  TypeOK'
  BY <1>7 DEF SpawnFails, Finish
<1>8. ASSUME NEW w \in Workers, Arm(w)
      PROVE  TypeOK'
  BY <1>8 DEF Arm
<1>9. ASSUME NEW w \in Workers, Pause(w)
      PROVE  TypeOK'
  BY <1>9 DEF Pause, Finish, CanPause
<1>10. ASSUME NEW w \in Workers, NEW a \in Group, SignalMember(w, a)
      PROVE  TypeOK'
  BY <1>10 DEF SignalMember
<1>11. ASSUME NEW w \in Workers, GroupDone(w)
      PROVE  TypeOK'
  BY <1>11 DEF GroupDone
<1>12. ASSUME NEW t \in Threads, RecordTombstone(t)
      PROVE  TypeOK'
  BY <1>12 DEF RecordTombstone, AfterTombstone, Aimed, Aiming
<1>13. ASSUME NEW t \in Threads, End(t)
      PROVE  TypeOK'
  BY <1>13 DEF End, Adopted
<1>14. ASSUME NEW t \in Threads, Announce(t)
      PROVE  TypeOK'
  BY <1>14 DEF Announce, Finish, Aimed, Aiming
<1>15. ASSUME NEW a \in Ids, Fire(a)
      PROVE  TypeOK'
  BY <1>15 DEF Fire, FirstStep, WatchdogEnds, Finish
<1>16. ASSUME NEW c \in Ids, NEW a \in Ids, Suspend(c, a)
      PROVE  TypeOK'
  BY <1>16 DEF Suspend
<1>17. ASSUME NEW c \in Ids, NEW a \in Ids, Resume(c, a)
      PROVE  TypeOK'
  BY <1>17 DEF Resume
<1>18. ASSUME NEW torn \in BOOLEAN, Restart(torn)
      PROVE  TypeOK'
  BY <1>18 DEF Restart, Ensured, Indexed
<1>19. CASE UNCHANGED vars
  BY <1>19 DEF vars, record, threads, history
<1> HIDE NamesAssumption, DepthAssumption, GroupAssumption
    DEF TypeOK, Statuses, Operations, Threads, Ids, record, threads, history
<1> QED
  BY <1>1, <1>2, <1>3, <1>4, <1>5, <1>6, <1>7, <1>8, <1>9,
     <1>10, <1>11, <1>12, <1>13, <1>14, <1>15, <1>16, <1>17, <1>18, <1>19
  DEF Next, Request, WorkerStep, ThreadStep

\* An agent stays registered and a terminated one terminated until a restart,
\* after which no thread is left.
LEMMA ThreadsStep == TypeOK /\ ThreadsInv /\ [Next]_vars => ThreadsInv'
<1> SUFFICES ASSUME TypeOK, ThreadsInv, [Next]_vars PROVE ThreadsInv'
  OBVIOUS
<1> USE NamesAssumption, DepthAssumption, GroupAssumption
    DEF TypeOK, Statuses, Operations, Threads, Ids, record, threads, history,
        ThreadsInv, Aimed, OwnWatchdog, Members, Ended, Aiming, Watching, Registered, Alive
<1>1. ASSUME NEW w \in Workers, NEW c \in Ids, NEW p \in Ids \cup {Nobody},
               NEW o \in {"register", "spawn"}, LookUpParent(w, c, p, o)
      PROVE  ThreadsInv'
  BY <1>1 DEF LookUpParent, DepthAllowed, DepthUnder
<1>2. ASSUME NEW w \in Workers, NEW c \in Ids, NEW a \in Ids, Terminate(w, c, a)
      PROVE  ThreadsInv'
  BY <1>2 DEF Terminate, FirstStep
<1>3. ASSUME NEW w \in Workers, NEW c \in Ids, NEW a \in Ids, NEW o \in {"term", "pause"},
               Signal(w, c, a, o)
      PROVE  ThreadsInv'
  BY <1>3 DEF Signal, Alive
<1>4. ASSUME NEW w \in Workers, NEW c \in Ids, TerminateGroup(w, c)
      PROVE  ThreadsInv'
  BY <1>4 DEF TerminateGroup, Alive
<1>5. ASSUME NEW w \in Workers, NEW x \in Others, Register(w, x)
      PROVE  ThreadsInv'
  BY <1>5 DEF Register, Finish
<1>6. ASSUME NEW w \in Workers, SpawnEnds(w)
      PROVE  ThreadsInv'
  BY <1>6 DEF SpawnEnds, FirstStep
<1>7. ASSUME NEW w \in Workers, SpawnFails(w)
      PROVE  ThreadsInv'
  BY <1>7 DEF SpawnFails, Finish
<1>8. ASSUME NEW w \in Workers, Arm(w)
      PROVE  ThreadsInv'
  BY <1>8 DEF Arm
<1>9. ASSUME NEW w \in Workers, Pause(w)
      PROVE  ThreadsInv'
  BY <1>9 DEF Pause, Finish, CanPause
<1>10. ASSUME NEW w \in Workers, NEW a \in Group, SignalMember(w, a)
      PROVE  ThreadsInv'
  BY <1>10 DEF SignalMember
<1>11. ASSUME NEW w \in Workers, GroupDone(w)
      PROVE  ThreadsInv'
  BY <1>11 DEF GroupDone
<1>12. ASSUME NEW t \in Threads, RecordTombstone(t)
      PROVE  ThreadsInv'
  BY <1>12 DEF RecordTombstone, AfterTombstone
<1>13. ASSUME NEW t \in Threads, End(t)
      PROVE  ThreadsInv'
  BY <1>13 DEF End, Adopted
<1>14. ASSUME NEW t \in Threads, Announce(t)
      PROVE  ThreadsInv'
  BY <1>14 DEF Announce, Finish
<1>15. ASSUME NEW a \in Ids, Fire(a)
      PROVE  ThreadsInv'
  BY <1>15 DEF Fire, FirstStep, WatchdogEnds, Finish
<1>16. ASSUME NEW c \in Ids, NEW a \in Ids, Suspend(c, a)
      PROVE  ThreadsInv'
  BY <1>16 DEF Suspend
<1>17. ASSUME NEW c \in Ids, NEW a \in Ids, Resume(c, a)
      PROVE  ThreadsInv'
  BY <1>17 DEF Resume
<1>18. ASSUME NEW torn \in BOOLEAN, Restart(torn)
      PROVE  ThreadsInv'
  BY <1>18 DEF Restart, Ensured, Indexed
<1>19. CASE UNCHANGED vars
  BY <1>19 DEF vars, record, threads, history
<1> HIDE NamesAssumption, DepthAssumption, GroupAssumption
    DEF TypeOK, Statuses, Operations, Threads, Ids, record, threads, history,
        ThreadsInv, Aimed, OwnWatchdog, Members, Ended, Aiming, Watching, Registered, Alive
<1> QED
  BY <1>1, <1>2, <1>3, <1>4, <1>5, <1>6, <1>7, <1>8, <1>9,
     <1>10, <1>11, <1>12, <1>13, <1>14, <1>15, <1>16, <1>17, <1>18, <1>19
  DEF Next, Request, WorkerStep, ThreadStep

\* Every variable keeps its type; whatever a thread works on is registered, and an
\* agent whose end a thread is about to announce is terminated, for any number of
\* agents and threads.
THEOREM Typing == Spec => [](TypeOK /\ ThreadsInv)
<1>1. Init => TypeOK /\ ThreadsInv
  BY TypeInit, ThreadsInit
<1>2. TypeOK /\ ThreadsInv /\ [Next]_vars => (TypeOK /\ ThreadsInv)'
  BY TypeStep, ThreadsStep DEF ThreadsInv
<1> QED
  BY <1>1, <1>2, PTL DEF Spec

-----------------------------------------------------------------------------
(* The tree. *)

LEMMA TreeInit == Init => TreeInv
  BY NamesAssumption DEF Init, TreeInv, Found, Roots, Tree, Registered, Threads, Ids

\* A new agent is the parent of nobody, and is one deeper than its parent;
\* root, which adopts, is less deep than anybody who has a parent.
LEMMA TreeStep == TypeOK /\ ThreadsInv /\ TreeInv /\ [Next]_vars => TreeInv'
<1> SUFFICES ASSUME TypeOK, ThreadsInv, TreeInv, [Next]_vars PROVE TreeInv'
  OBVIOUS
<1> USE NamesAssumption, DepthAssumption, GroupAssumption
    DEF TypeOK, Statuses, Operations, Threads, Ids, record, threads, history,
        TreeInv, Found, Roots, Tree, Registered
<1>1. ASSUME NEW w \in Workers, NEW c \in Ids, NEW p \in Ids \cup {Nobody},
               NEW o \in {"register", "spawn"}, LookUpParent(w, c, p, o)
      PROVE  TreeInv'
  BY <1>1 DEF LookUpParent, DepthAllowed, DepthUnder
<1>2. ASSUME NEW w \in Workers, NEW c \in Ids, NEW a \in Ids, Terminate(w, c, a)
      PROVE  TreeInv'
  BY <1>2 DEF Terminate, FirstStep
<1>3. ASSUME NEW w \in Workers, NEW c \in Ids, NEW a \in Ids, NEW o \in {"term", "pause"},
               Signal(w, c, a, o)
      PROVE  TreeInv'
  BY <1>3 DEF Signal, Alive
<1>4. ASSUME NEW w \in Workers, NEW c \in Ids, TerminateGroup(w, c)
      PROVE  TreeInv'
  BY <1>4 DEF TerminateGroup, Alive
<1>5. ASSUME NEW w \in Workers, NEW x \in Others, Register(w, x)
      PROVE  TreeInv'
  BY <1>5 DEF Register, Finish
<1>6. ASSUME NEW w \in Workers, SpawnEnds(w)
      PROVE  TreeInv'
  BY <1>6 DEF SpawnEnds, FirstStep
<1>7. ASSUME NEW w \in Workers, SpawnFails(w)
      PROVE  TreeInv'
  BY <1>7 DEF SpawnFails, Finish
<1>8. ASSUME NEW w \in Workers, Arm(w)
      PROVE  TreeInv'
  BY <1>8 DEF Arm
<1>9. ASSUME NEW w \in Workers, Pause(w)
      PROVE  TreeInv'
  BY <1>9 DEF Pause, Finish, CanPause, ThreadsInv, Aimed, Aiming
<1>10. ASSUME NEW w \in Workers, NEW a \in Group, SignalMember(w, a)
      PROVE  TreeInv'
  BY <1>10 DEF SignalMember
<1>11. ASSUME NEW w \in Workers, GroupDone(w)
      PROVE  TreeInv'
  BY <1>11 DEF GroupDone
<1>12. ASSUME NEW t \in Threads, RecordTombstone(t)
      PROVE  TreeInv'
  BY <1>12 DEF RecordTombstone, AfterTombstone
<1>13. ASSUME NEW t \in Threads, End(t)
      PROVE  TreeInv'

  <2>1. target[t] \in Ids \ {Root} /\ Registered(target[t])
    BY <1>13 DEF End, ThreadsInv, Aimed, Aiming
  <2>2. status'[Root] = "active" /\ \A x \in Ids : Registered(x)' <=> Registered(x)
    BY <1>13, <2>1 DEF End
  <2>3. UNCHANGED <<depth, target, found>> /\ \A w \in Workers : w # t => op'[w] = op[w]
    BY <1>13 DEF End
  <2>4. op'[t] = "announce"
    BY <1>13 DEF End
  <2>5. \A x \in Ids : parent'[x] = parent[x] \/ (parent[x] = target[t] /\ parent'[x] = Root)
    BY <1>13 DEF End, Adopted
  <2>6. Found'
    BY <2>2, <2>3, <2>4
  <2>7. Roots'
    BY <2>1, <2>2, <2>3, <2>5
  <2>8. Tree'
    BY <2>1, <2>2, <2>3, <2>5
  <2> QED
    BY <2>6, <2>7, <2>8
<1>14. ASSUME NEW t \in Threads, Announce(t)
      PROVE  TreeInv'
  BY <1>14 DEF Announce, Finish
<1>15. ASSUME NEW a \in Ids, Fire(a)
      PROVE  TreeInv'
  BY <1>15 DEF Fire, FirstStep, WatchdogEnds, Finish
<1>16. ASSUME NEW c \in Ids, NEW a \in Ids, Suspend(c, a)
      PROVE  TreeInv'
  BY <1>16 DEF Suspend
<1>17. ASSUME NEW c \in Ids, NEW a \in Ids, Resume(c, a)
      PROVE  TreeInv'
  BY <1>17 DEF Resume
<1>18. ASSUME NEW torn \in BOOLEAN, Restart(torn)
      PROVE  TreeInv'
  BY <1>18 DEF Restart, Ensured, Indexed
<1>19. CASE UNCHANGED vars
  BY <1>19 DEF vars, record, threads, history
<1> HIDE NamesAssumption, DepthAssumption, GroupAssumption
    DEF TypeOK, Statuses, Operations, Threads, Ids, record, threads, history,
        TreeInv, Found, Roots, Tree, Registered
<1> QED
  BY <1>1, <1>2, <1>3, <1>4, <1>5, <1>6, <1>7, <1>8, <1>9,
     <1>10, <1>11, <1>12, <1>13, <1>14, <1>15, <1>16, <1>17, <1>18, <1>19
  DEF Next, Request, WorkerStep, ThreadStep

-----------------------------------------------------------------------------
(* Orphans. *)

LEMMA OrphansInit == Init => OrphansAreAdopted
  BY NamesAssumption DEF Init, OrphansAreAdopted, Ids

\* Who has a parent when it ends is dead or adopted by root, which never ends.
LEMMA OrphansStep == TypeOK /\ ThreadsInv /\ TreeInv /\ OrphansAreAdopted /\ [Next]_vars => OrphansAreAdopted'
<1> SUFFICES ASSUME TypeOK, ThreadsInv, TreeInv, OrphansAreAdopted, [Next]_vars PROVE OrphansAreAdopted'
  OBVIOUS
<1> USE NamesAssumption, DepthAssumption, GroupAssumption
    DEF TypeOK, Statuses, Operations, Threads, Ids, record, threads, history,
        TreeInv, Roots, Tree, Registered, Alive, OrphansAreAdopted
<1>1. ASSUME NEW w \in Workers, NEW c \in Ids, NEW p \in Ids \cup {Nobody},
               NEW o \in {"register", "spawn"}, LookUpParent(w, c, p, o)
      PROVE  OrphansAreAdopted'
  BY <1>1 DEF LookUpParent, DepthAllowed, DepthUnder
<1>2. ASSUME NEW w \in Workers, NEW c \in Ids, NEW a \in Ids, Terminate(w, c, a)
      PROVE  OrphansAreAdopted'
  BY <1>2 DEF Terminate, FirstStep
<1>3. ASSUME NEW w \in Workers, NEW c \in Ids, NEW a \in Ids, NEW o \in {"term", "pause"},
               Signal(w, c, a, o)
      PROVE  OrphansAreAdopted'
  BY <1>3 DEF Signal, Alive
<1>4. ASSUME NEW w \in Workers, NEW c \in Ids, TerminateGroup(w, c)
      PROVE  OrphansAreAdopted'
  BY <1>4 DEF TerminateGroup, Alive
<1>5. ASSUME NEW w \in Workers, NEW x \in Others, Register(w, x)
      PROVE  OrphansAreAdopted'
  BY <1>5 DEF Register, Finish
<1>6. ASSUME NEW w \in Workers, SpawnEnds(w)
      PROVE  OrphansAreAdopted'
  BY <1>6 DEF SpawnEnds, FirstStep
<1>7. ASSUME NEW w \in Workers, SpawnFails(w)
      PROVE  OrphansAreAdopted'
  BY <1>7 DEF SpawnFails, Finish
<1>8. ASSUME NEW w \in Workers, Arm(w)
      PROVE  OrphansAreAdopted'
  BY <1>8 DEF Arm
<1>9. ASSUME NEW w \in Workers, Pause(w)
      PROVE  OrphansAreAdopted'
  BY <1>9 DEF Pause, Finish, CanPause, ThreadsInv, Aimed, Aiming
<1>10. ASSUME NEW w \in Workers, NEW a \in Group, SignalMember(w, a)
      PROVE  OrphansAreAdopted'
  BY <1>10 DEF SignalMember
<1>11. ASSUME NEW w \in Workers, GroupDone(w)
      PROVE  OrphansAreAdopted'
  BY <1>11 DEF GroupDone
<1>12. ASSUME NEW t \in Threads, RecordTombstone(t)
      PROVE  OrphansAreAdopted'
  BY <1>12 DEF RecordTombstone, AfterTombstone
<1>13. ASSUME NEW t \in Threads, End(t)
      PROVE  OrphansAreAdopted'
  BY <1>13 DEF End, Adopted, ThreadsInv, Aimed, Aiming
<1>14. ASSUME NEW t \in Threads, Announce(t)
      PROVE  OrphansAreAdopted'
  BY <1>14 DEF Announce, Finish
<1>15. ASSUME NEW a \in Ids, Fire(a)
      PROVE  OrphansAreAdopted'
  BY <1>15 DEF Fire, FirstStep, WatchdogEnds, Finish
<1>16. ASSUME NEW c \in Ids, NEW a \in Ids, Suspend(c, a)
      PROVE  OrphansAreAdopted'
  BY <1>16 DEF Suspend
<1>17. ASSUME NEW c \in Ids, NEW a \in Ids, Resume(c, a)
      PROVE  OrphansAreAdopted'
  BY <1>17 DEF Resume
<1>18. ASSUME NEW torn \in BOOLEAN, Restart(torn)
      PROVE  OrphansAreAdopted'
  BY <1>18 DEF Restart, Ensured, Indexed
<1>19. CASE UNCHANGED vars
  BY <1>19 DEF vars, record, threads, history
<1> HIDE NamesAssumption, DepthAssumption, GroupAssumption
    DEF TypeOK, Statuses, Operations, Threads, Ids, record, threads, history,
        TreeInv, Roots, Tree, Registered, Alive, OrphansAreAdopted
<1> QED
  BY <1>1, <1>2, <1>3, <1>4, <1>5, <1>6, <1>7, <1>8, <1>9,
     <1>10, <1>11, <1>12, <1>13, <1>14, <1>15, <1>16, <1>17, <1>18, <1>19
  DEF Next, Request, WorkerStep, ThreadStep

-----------------------------------------------------------------------------
(* Tokens. *)

LEMMA TokensInit == Init => Tokens
  BY NamesAssumption DEF Init, Tokens, Alive, Ids

\* Tokens leave the index with the end of their agent only, and at a restart
\* which remembers whose.
LEMMA TokensStep == TypeOK /\ Tokens /\ [Next]_vars => Tokens'
<1> SUFFICES ASSUME TypeOK, Tokens, [Next]_vars PROVE Tokens'
  OBVIOUS
<1> USE NamesAssumption, DepthAssumption, GroupAssumption
    DEF TypeOK, Statuses, Operations, Threads, Ids, record, threads, history,
        Alive, Tokens
<1>1. ASSUME NEW w \in Workers, NEW c \in Ids, NEW p \in Ids \cup {Nobody},
               NEW o \in {"register", "spawn"}, LookUpParent(w, c, p, o)
      PROVE  Tokens'
  BY <1>1 DEF LookUpParent, DepthAllowed, DepthUnder
<1>2. ASSUME NEW w \in Workers, NEW c \in Ids, NEW a \in Ids, Terminate(w, c, a)
      PROVE  Tokens'
  BY <1>2 DEF Terminate, FirstStep
<1>3. ASSUME NEW w \in Workers, NEW c \in Ids, NEW a \in Ids, NEW o \in {"term", "pause"},
               Signal(w, c, a, o)
      PROVE  Tokens'
  BY <1>3 DEF Signal, Alive
<1>4. ASSUME NEW w \in Workers, NEW c \in Ids, TerminateGroup(w, c)
      PROVE  Tokens'
  BY <1>4 DEF TerminateGroup, Alive
<1>5. ASSUME NEW w \in Workers, NEW x \in Others, Register(w, x)
      PROVE  Tokens'
  BY <1>5 DEF Register, Finish
<1>6. ASSUME NEW w \in Workers, SpawnEnds(w)
      PROVE  Tokens'
  BY <1>6 DEF SpawnEnds, FirstStep
<1>7. ASSUME NEW w \in Workers, SpawnFails(w)
      PROVE  Tokens'
  BY <1>7 DEF SpawnFails, Finish
<1>8. ASSUME NEW w \in Workers, Arm(w)
      PROVE  Tokens'
  BY <1>8 DEF Arm
<1>9. ASSUME NEW w \in Workers, Pause(w)
      PROVE  Tokens'
  BY <1>9 DEF Pause, Finish, CanPause
<1>10. ASSUME NEW w \in Workers, NEW a \in Group, SignalMember(w, a)
      PROVE  Tokens'
  BY <1>10 DEF SignalMember
<1>11. ASSUME NEW w \in Workers, GroupDone(w)
      PROVE  Tokens'
  BY <1>11 DEF GroupDone
<1>12. ASSUME NEW t \in Threads, RecordTombstone(t)
      PROVE  Tokens'
  BY <1>12 DEF RecordTombstone, AfterTombstone
<1>13. ASSUME NEW t \in Threads, End(t)
      PROVE  Tokens'
  BY <1>13 DEF End, Adopted
<1>14. ASSUME NEW t \in Threads, Announce(t)
      PROVE  Tokens'
  BY <1>14 DEF Announce, Finish
<1>15. ASSUME NEW a \in Ids, Fire(a)
      PROVE  Tokens'
  BY <1>15 DEF Fire, FirstStep, WatchdogEnds, Finish
<1>16. ASSUME NEW c \in Ids, NEW a \in Ids, Suspend(c, a)
      PROVE  Tokens'
  BY <1>16 DEF Suspend
<1>17. ASSUME NEW c \in Ids, NEW a \in Ids, Resume(c, a)
      PROVE  Tokens'
  BY <1>17 DEF Resume
<1>18. ASSUME NEW torn \in BOOLEAN, Restart(torn)
      PROVE  Tokens'
  BY <1>18 DEF Restart, Ensured, Indexed
<1>19. CASE UNCHANGED vars
  BY <1>19 DEF vars, record, threads, history
<1> HIDE NamesAssumption, DepthAssumption, GroupAssumption
    DEF TypeOK, Statuses, Operations, Threads, Ids, record, threads, history,
        Alive, Tokens
<1> QED
  BY <1>1, <1>2, <1>3, <1>4, <1>5, <1>6, <1>7, <1>8, <1>9,
     <1>10, <1>11, <1>12, <1>13, <1>14, <1>15, <1>16, <1>17, <1>18, <1>19
  DEF Next, Request, WorkerStep, ThreadStep

-----------------------------------------------------------------------------
(* The theorems. *)

LEMMA InitIInv == Init => IInv
  BY TypeInit, ThreadsInit, TreeInit, OrphansInit, TokensInit DEF IInv

LEMMA StepIInv == IInv /\ [Next]_vars => IInv'
  BY TypeStep, ThreadsStep, TreeStep, OrphansStep, TokensStep DEF IInv, ThreadsInv

LEMMA Invariance == Spec => []IInv
  BY InitIInv, StepIInv, PTL DEF Spec

\* Parents are less deep than their children, although the depth of a child is
\* computed before the lock is taken: get_lineage() ends, for any number of
\* agents, requests and restarts.
THEOREM Descent == Spec => []DepthDescends
<1>1. IInv => DepthDescends
  BY DEF IInv, TreeInv, Tree, DepthDescends
<1> QED
  BY Invariance, <1>1, PTL

\* No agent that may still act is left under a terminated parent, but for one
\* registered under a parent that had ended between the look-up and the insertion.
THEOREM Adoption == Spec => []OrphansAreAdopted
<1>1. IInv => OrphansAreAdopted
  BY DEF IInv
<1> QED
  BY Invariance, <1>1, PTL

\* An active agent can authenticate unless the last restart found it inactive.
THEOREM Authentication == Spec => []ActiveAuthenticates
<1>1. IInv => ActiveAuthenticates
  BY DEF IInv, Tokens, ActiveAuthenticates, Authenticated, Alive
<1> QED
  BY Invariance, <1>1, PTL

\* The safety half of SigtermEnds: the watchdog of an agent does not come to
\* rest before the agent is terminated, whoever else ends, suspends or resumes it.
RestsWhenEnded ==
    \A a \in Signalled : op[a] # "idle" /\ op'[a] = "idle" /\ restarts' = restarts
                           => status'[a] = "terminated"

\* A watchdog rests after the announcement, or when it finds an agent that is
\* registered and not alive.
LEMMA WatchdogStep == IInv /\ [Next]_vars => RestsWhenEnded
<1> SUFFICES ASSUME IInv, [Next]_vars PROVE RestsWhenEnded
  OBVIOUS
<1> USE NamesAssumption, DepthAssumption, GroupAssumption
    DEF TypeOK, Statuses, Operations, Threads, Ids, record, threads, history,
        IInv, ThreadsInv, Aimed, OwnWatchdog, Ended, Aiming, Watching, Registered, Alive, RestsWhenEnded
<1>1. ASSUME NEW w \in Workers, NEW c \in Ids, NEW p \in Ids \cup {Nobody},
               NEW o \in {"register", "spawn"}, LookUpParent(w, c, p, o)
      PROVE  RestsWhenEnded
  BY <1>1 DEF LookUpParent, DepthAllowed, DepthUnder
<1>2. ASSUME NEW w \in Workers, NEW c \in Ids, NEW a \in Ids, Terminate(w, c, a)
      PROVE  RestsWhenEnded
  BY <1>2 DEF Terminate, FirstStep
<1>3. ASSUME NEW w \in Workers, NEW c \in Ids, NEW a \in Ids, NEW o \in {"term", "pause"},
               Signal(w, c, a, o)
      PROVE  RestsWhenEnded
  BY <1>3 DEF Signal, Alive
<1>4. ASSUME NEW w \in Workers, NEW c \in Ids, TerminateGroup(w, c)
      PROVE  RestsWhenEnded
  BY <1>4 DEF TerminateGroup, Alive
<1>5. ASSUME NEW w \in Workers, NEW x \in Others, Register(w, x)
      PROVE  RestsWhenEnded
  BY <1>5 DEF Register, Finish
<1>6. ASSUME NEW w \in Workers, SpawnEnds(w)
      PROVE  RestsWhenEnded
  BY <1>6 DEF SpawnEnds, FirstStep
<1>7. ASSUME NEW w \in Workers, SpawnFails(w)
      PROVE  RestsWhenEnded
  BY <1>7 DEF SpawnFails, Finish
<1>8. ASSUME NEW w \in Workers, Arm(w)
      PROVE  RestsWhenEnded
  BY <1>8 DEF Arm
<1>9. ASSUME NEW w \in Workers, Pause(w)
      PROVE  RestsWhenEnded
  BY <1>9 DEF Pause, Finish, CanPause
<1>10. ASSUME NEW w \in Workers, NEW a \in Group, SignalMember(w, a)
      PROVE  RestsWhenEnded
  BY <1>10 DEF SignalMember
<1>11. ASSUME NEW w \in Workers, GroupDone(w)
      PROVE  RestsWhenEnded
  BY <1>11 DEF GroupDone
<1>12. ASSUME NEW t \in Threads, RecordTombstone(t)
      PROVE  RestsWhenEnded
  BY <1>12 DEF RecordTombstone, AfterTombstone
<1>13. ASSUME NEW t \in Threads, End(t)
      PROVE  RestsWhenEnded
  BY <1>13 DEF End, Adopted
<1>14. ASSUME NEW t \in Threads, Announce(t)
      PROVE  RestsWhenEnded
  BY <1>14 DEF Announce, Finish
<1>15. ASSUME NEW a \in Ids, Fire(a)
      PROVE  RestsWhenEnded
  BY <1>15 DEF Fire, FirstStep, WatchdogEnds, Finish
<1>16. ASSUME NEW c \in Ids, NEW a \in Ids, Suspend(c, a)
      PROVE  RestsWhenEnded
  BY <1>16 DEF Suspend
<1>17. ASSUME NEW c \in Ids, NEW a \in Ids, Resume(c, a)
      PROVE  RestsWhenEnded
  BY <1>17 DEF Resume
<1>18. ASSUME NEW torn \in BOOLEAN, Restart(torn)
      PROVE  RestsWhenEnded
  BY <1>18 DEF Restart, Ensured, Indexed
<1>19. CASE UNCHANGED vars
  BY <1>19 DEF vars, record, threads, history
<1> HIDE NamesAssumption, DepthAssumption, GroupAssumption
    DEF TypeOK, Statuses, Operations, Threads, Ids, record, threads, history,
        IInv, ThreadsInv, Aimed, OwnWatchdog, Ended, Aiming, Watching, Registered, Alive, RestsWhenEnded
<1> QED
  BY <1>1, <1>2, <1>3, <1>4, <1>5, <1>6, <1>7, <1>8, <1>9,
     <1>10, <1>11, <1>12, <1>13, <1>14, <1>15, <1>16, <1>17, <1>18, <1>19
  DEF Next, Request, WorkerStep, ThreadStep

\* A watchdog rests only when its agent is terminated, or the server restarts.
THEOREM WatchdogRests == Spec => [][RestsWhenEnded]_vars
<1>1. IInv /\ [Next]_vars => [RestsWhenEnded]_vars
  BY WatchdogStep
<1> QED
  BY Invariance, <1>1, PTL DEF Spec

-----------------------------------------------------------------------------
(* Lineages, and what a termination leaves behind. *)

\* Of a set of numbers that is not empty one is the least.
LEMMA Smallest ==
    ASSUME NEW T \in SUBSET Nat, T # {}
    PROVE  \E m \in T : \A n \in T : m <= n
<1> DEFINE R == {ss \in Nat \X Nat : ss[1] < ss[2]}
<1>1. IsWellFoundedOn(R, Nat)
  BY NatLessThanWellFounded, Zenon DEF OpToRel
<1> HIDE DEF R
<1>2. PICK m \in T : \A n \in T : ~ (<<n, m>> \in R)
  BY <1>1, WFMin, Zenon
<1>3. \A n \in T : ~ (n < m)
  BY <1>2 DEF R
<1>4. T \subseteq Nat
  OBVIOUS
<1> QED
  BY <1>2, <1>3, <1>4

\* The chains of parents have an end: no set of agents holds the parents of all
\* its members, and the parent of an agent is itself in the table.
Forest ==
    /\ \A C \in SUBSET {a \in Ids : Registered(a)} :
         C # {} => \E a \in C : parent[a] \notin C
    /\ \A a \in Ids : Registered(a) /\ parent[a] \in Ids => Registered(parent[a])

\* The member that is least deep has its parent elsewhere.
LEMMA TreeIsForest == TypeOK /\ Tree => Forest
<1> SUFFICES ASSUME TypeOK, Tree PROVE Forest
  OBVIOUS
<1>1. ASSUME NEW C \in SUBSET {a \in Ids : Registered(a)}, C # {}
      PROVE  \E a \in C : parent[a] \notin C
  <2> DEFINE D == {depth[a] : a \in C}
  <2>1. \A a \in C : a \in Ids /\ Registered(a) /\ depth[a] \in Nat
    BY <1>1, DepthAssumption DEF TypeOK
  <2>2. D \in SUBSET Nat /\ D # {}
    BY <1>1, <2>1
  <2>3. PICK m \in D : \A k \in D : m <= k
    <3> HIDE DEF D
    <3> QED
      BY <2>2, Smallest
  <2>4. PICK a \in C : depth[a] = m
    BY <2>3
  <2>5. ASSUME parent[a] \in C PROVE FALSE
    <3>1. depth[parent[a]] < depth[a]
      BY <2>1, <2>4, <2>5 DEF Tree
    <3>2. depth[parent[a]] \in D /\ depth[parent[a]] \in Nat /\ depth[a] \in Nat
      BY <2>1, <2>4, <2>5
    <3>3. depth[a] <= depth[parent[a]]
      BY <2>3, <2>4, <3>2
    <3> QED
      BY <3>1, <3>2, <3>3
  <2> QED
    BY <2>4, <2>5
<1>2. \A a \in Ids : Registered(a) /\ parent[a] \in Ids => Registered(parent[a])
  BY DEF Tree
<1> QED
  BY <1>1, <1>2 DEF Forest

\* Every lineage ends at an agent without a parent, whatever registrations,
\* terminations (which give children to root) and restarts did to the tree: the
\* guard against cycles in get_lineage() never cuts a chain short.
THEOREM Lineages == Spec => []Forest
<1>1. IInv => Forest
  BY TreeIsForest DEF IInv, TreeInv
<1> QED
  BY Invariance, <1>1, PTL

\* What a termination leaves: a terminated agent has its tombstone, only such an
\* agent is announced, no token of an agent that has ended is in the index, and
\* a thread ends an agent only when its tombstone is recorded.
Ledger ==
    /\ \A a \in Ids : status[a] = "terminated" => a \in buried
    /\ \A a \in announced : status[a] = "terminated"
    /\ \A a \in tokens : Alive(a)
    /\ \A t \in Threads : op[t] \in {"end", "announce"} => target[t] \in buried

LEMMA LedgerInit == Init => Ledger
  BY NamesAssumption DEF Init, Ledger, Alive, Threads, Ids

\* The tombstone comes before the end, the end before the announcement, and a
\* restart brings back neither an agent that has ended nor its token.
LEMMA LedgerStep == IInv /\ Ledger /\ [Next]_vars => Ledger'
<1> SUFFICES ASSUME IInv, Ledger, [Next]_vars PROVE Ledger'
  OBVIOUS
<1> USE NamesAssumption, DepthAssumption, GroupAssumption
    DEF TypeOK, Statuses, Operations, Threads, Ids, record, threads, history,
        IInv, ThreadsInv, Aimed, Ended, Aiming, TreeInv, Roots, Registered, Alive, Ledger
<1>1. ASSUME NEW w \in Workers, NEW c \in Ids, NEW p \in Ids \cup {Nobody},
               NEW o \in {"register", "spawn"}, LookUpParent(w, c, p, o)
      PROVE  Ledger'
  BY <1>1 DEF LookUpParent, DepthAllowed, DepthUnder
<1>2. ASSUME NEW w \in Workers, NEW c \in Ids, NEW a \in Ids, Terminate(w, c, a)
      PROVE  Ledger'
  BY <1>2 DEF Terminate, FirstStep
<1>3. ASSUME NEW w \in Workers, NEW c \in Ids, NEW a \in Ids, NEW o \in {"term", "pause"},
               Signal(w, c, a, o)
      PROVE  Ledger'
  BY <1>3 DEF Signal, Alive
<1>4. ASSUME NEW w \in Workers, NEW c \in Ids, TerminateGroup(w, c)
      PROVE  Ledger'
  BY <1>4 DEF TerminateGroup, Alive
<1>5. ASSUME NEW w \in Workers, NEW x \in Others, Register(w, x)
      PROVE  Ledger'
  BY <1>5 DEF Register, Finish
<1>6. ASSUME NEW w \in Workers, SpawnEnds(w)
      PROVE  Ledger'
  BY <1>6 DEF SpawnEnds, FirstStep
<1>7. ASSUME NEW w \in Workers, SpawnFails(w)
      PROVE  Ledger'
  BY <1>7 DEF SpawnFails, Finish
<1>8. ASSUME NEW w \in Workers, Arm(w)
      PROVE  Ledger'
  <2> DEFINE a == target[w]
  <2>1. a \in Ids /\ w \notin Ids /\ op[w] = "term"
    BY <1>8 DEF Arm
  <2>2. \A t \in Threads : op'[t] \in {"end", "announce"} => op[t] = op'[t]
    BY <1>8, <2>1 DEF Arm
  <2>3. \A t \in Threads : op'[t] \in {"end", "announce"} => target'[t] = target[t]
    BY <1>8, <2>1, <2>2 DEF Arm, OwnWatchdog
  <2>4. \A t \in Threads : op'[t] \in {"end", "announce"} => target'[t] \in buried'
    BY <1>8, <2>2, <2>3 DEF Arm
  <2> QED
    BY <1>8, <2>4 DEF Arm
<1>9. ASSUME NEW w \in Workers, Pause(w)
      PROVE  Ledger'
  BY <1>9 DEF Pause, Finish, CanPause
<1>10. ASSUME NEW w \in Workers, NEW a \in Group, SignalMember(w, a)
      PROVE  Ledger'
  BY <1>10 DEF SignalMember
<1>11. ASSUME NEW w \in Workers, GroupDone(w)
      PROVE  Ledger'
  BY <1>11 DEF GroupDone
<1>12. ASSUME NEW t \in Threads, RecordTombstone(t)
      PROVE  Ledger'
  BY <1>12 DEF RecordTombstone, AfterTombstone
<1>13. ASSUME NEW t \in Threads, End(t)
      PROVE  Ledger'
  BY <1>13 DEF End, Adopted
<1>14. ASSUME NEW t \in Threads, Announce(t)
      PROVE  Ledger'
  BY <1>14 DEF Announce, Finish
<1>15. ASSUME NEW a \in Ids, Fire(a)
      PROVE  Ledger'
  BY <1>15 DEF Fire, FirstStep, WatchdogEnds, Finish
<1>16. ASSUME NEW c \in Ids, NEW a \in Ids, Suspend(c, a)
      PROVE  Ledger'
  BY <1>16 DEF Suspend
<1>17. ASSUME NEW c \in Ids, NEW a \in Ids, Resume(c, a)
      PROVE  Ledger'
  BY <1>17 DEF Resume
<1>18. ASSUME NEW torn \in BOOLEAN, Restart(torn)
      PROVE  Ledger'
  BY <1>18 DEF Restart, Ensured, Indexed
<1>19. CASE UNCHANGED vars
  BY <1>19 DEF vars, record, threads, history
<1> HIDE NamesAssumption, DepthAssumption, GroupAssumption
    DEF TypeOK, Statuses, Operations, Threads, Ids, record, threads, history,
        IInv, ThreadsInv, Aimed, Ended, Aiming, TreeInv, Roots, Registered, Alive, Ledger
<1> QED
  BY <1>1, <1>2, <1>3, <1>4, <1>5, <1>6, <1>7, <1>8, <1>9,
     <1>10, <1>11, <1>12, <1>13, <1>14, <1>15, <1>16, <1>17, <1>18, <1>19
  DEF Next, Request, WorkerStep, ThreadStep


\* No agent ends without a tombstone, none is announced that has not ended, and
\* none that has ended keeps its token, whatever requests, watchdogs, groups and
\* crashes there are between the three steps of a termination.
THEOREM Burial == Spec => []Ledger
<1>1. Init => IInv /\ Ledger
  BY InitIInv, LedgerInit
<1>2. IInv /\ Ledger /\ [Next]_vars => (IInv /\ Ledger)'
  BY StepIInv, LedgerStep
<1> QED
  BY <1>1, <1>2, PTL DEF Spec

\* The end of an agent is final while the server runs: no request that was
\* checked before it (a SIGPAUSE, a resume, a registration) brings it back.
EndIsFinal ==
    \A a \in Ids : status[a] = "terminated" /\ restarts' = restarts
                     => status'[a] = "terminated" /\ a \notin tokens'

LEMMA FinalStep == IInv /\ Ledger /\ [Next]_vars => EndIsFinal
<1> SUFFICES ASSUME IInv, Ledger, [Next]_vars PROVE EndIsFinal
  OBVIOUS
<1> USE NamesAssumption, DepthAssumption, GroupAssumption
    DEF TypeOK, Statuses, Operations, Threads, Ids, record, threads, history,
        IInv, ThreadsInv, Aimed, Aiming, Registered, Alive, Ledger, EndIsFinal
<1>1. ASSUME NEW w \in Workers, NEW c \in Ids, NEW p \in Ids \cup {Nobody},
               NEW o \in {"register", "spawn"}, LookUpParent(w, c, p, o)
      PROVE  EndIsFinal
  BY <1>1 DEF LookUpParent, DepthAllowed, DepthUnder
<1>2. ASSUME NEW w \in Workers, NEW c \in Ids, NEW a \in Ids, Terminate(w, c, a)
      PROVE  EndIsFinal
  BY <1>2 DEF Terminate, FirstStep
<1>3. ASSUME NEW w \in Workers, NEW c \in Ids, NEW a \in Ids, NEW o \in {"term", "pause"},
               Signal(w, c, a, o)
      PROVE  EndIsFinal
  BY <1>3 DEF Signal, Alive
<1>4. ASSUME NEW w \in Workers, NEW c \in Ids, TerminateGroup(w, c)
      PROVE  EndIsFinal
  BY <1>4 DEF TerminateGroup, Alive
<1>5. ASSUME NEW w \in Workers, NEW x \in Others, Register(w, x)
      PROVE  EndIsFinal
  BY <1>5 DEF Register, Finish
<1>6. ASSUME NEW w \in Workers, SpawnEnds(w)
      PROVE  EndIsFinal
  BY <1>6 DEF SpawnEnds, FirstStep
<1>7. ASSUME NEW w \in Workers, SpawnFails(w)
      PROVE  EndIsFinal
  BY <1>7 DEF SpawnFails, Finish
<1>8. ASSUME NEW w \in Workers, Arm(w)
      PROVE  EndIsFinal
  BY <1>8 DEF Arm
<1>9. ASSUME NEW w \in Workers, Pause(w)
      PROVE  EndIsFinal
  BY <1>9 DEF Pause, Finish, CanPause
<1>10. ASSUME NEW w \in Workers, NEW a \in Group, SignalMember(w, a)
      PROVE  EndIsFinal
  BY <1>10 DEF SignalMember
<1>11. ASSUME NEW w \in Workers, GroupDone(w)
      PROVE  EndIsFinal
  BY <1>11 DEF GroupDone
<1>12. ASSUME NEW t \in Threads, RecordTombstone(t)
      PROVE  EndIsFinal
  BY <1>12 DEF RecordTombstone, AfterTombstone
<1>13. ASSUME NEW t \in Threads, End(t)
      PROVE  EndIsFinal
  BY <1>13 DEF End, Adopted
<1>14. ASSUME NEW t \in Threads, Announce(t)
      PROVE  EndIsFinal
  BY <1>14 DEF Announce, Finish
<1>15. ASSUME NEW a \in Ids, Fire(a)
      PROVE  EndIsFinal
  BY <1>15 DEF Fire, FirstStep, WatchdogEnds, Finish
<1>16. ASSUME NEW c \in Ids, NEW a \in Ids, Suspend(c, a)
      PROVE  EndIsFinal
  BY <1>16 DEF Suspend
<1>17. ASSUME NEW c \in Ids, NEW a \in Ids, Resume(c, a)
      PROVE  EndIsFinal
  BY <1>17 DEF Resume
<1>18. ASSUME NEW torn \in BOOLEAN, Restart(torn)
      PROVE  EndIsFinal
  BY <1>18 DEF Restart, Ensured, Indexed
<1>19. CASE UNCHANGED vars
  BY <1>19 DEF vars, record, threads, history
<1> HIDE NamesAssumption, DepthAssumption, GroupAssumption
    DEF TypeOK, Statuses, Operations, Threads, Ids, record, threads, history,
        IInv, ThreadsInv, Aimed, Aiming, Registered, Alive, Ledger, EndIsFinal
<1> QED
  BY <1>1, <1>2, <1>3, <1>4, <1>5, <1>6, <1>7, <1>8, <1>9,
     <1>10, <1>11, <1>12, <1>13, <1>14, <1>15, <1>16, <1>17, <1>18, <1>19
  DEF Next, Request, WorkerStep, ThreadStep


\* A terminated agent stays so, and cannot authenticate again, until a restart
\* makes a core agent anew.
THEOREM Finality == Spec => [][EndIsFinal]_vars
<1>1. IInv /\ Ledger /\ [Next]_vars => [EndIsFinal]_vars
  BY FinalStep
<1>2. Spec => [](IInv /\ Ledger)
  BY Invariance, Burial, PTL
<1> QED
  BY <1>1, <1>2, PTL DEF Spec
=============================================================================
