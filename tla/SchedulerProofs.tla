-------------------------- MODULE SchedulerProofs --------------------------
(***************************************************************************)
(* Proofs about the task scheduler: types, the queue's books, no lost task  *)
(* and no run without a cause, for any number of tasks, workers,            *)
(* cancellations and restarts.                                             *)
(***************************************************************************)
EXTENDS Scheduler, FiniteSetTheorems, TLAPS

-----------------------------------------------------------------------------
(* Sequences. *)

NoRepeats(q) == \A i, j \in DOMAIN q : q[i] = q[j] => i = j

\* A task is pushed somewhere between the first and the last position.
LEMMA Position ==
    ASSUME NEW q \in Seq(Tasks), NEW t \in Tasks
    PROVE  Cardinality({i \in DOMAIN q : Priority[q[i]] <= Priority[t]}) \in 0..Len(q)
<1> DEFINE S == {i \in DOMAIN q : Priority[q[i]] <= Priority[t]}
<1>1. DOMAIN q = 1..Len(q) /\ Len(q) \in Nat
  OBVIOUS
<1>2. IsFiniteSet(1..Len(q)) /\ Cardinality(1..Len(q)) = Len(q)
  BY <1>1, FS_Interval
<1>3. S \subseteq 1..Len(q)
  BY <1>1
<1>4. IsFiniteSet(S) /\ Cardinality(S) <= Len(q)
  BY <1>2, <1>3, FS_Subset
<1>5. Cardinality(S) \in Nat
  BY <1>4, FS_CardinalityType
<1> QED
  BY <1>1, <1>4, <1>5

\* What heappush does to the queue, position by position.
LEMMA PushedAt ==
    ASSUME NEW q \in Seq(Tasks), NEW t \in Tasks
    PROVE  /\ Pushed(q, t) \in Seq(Tasks)
           /\ \E n \in 0..Len(q) :
                 /\ DOMAIN Pushed(q, t) = 1..(Len(q) + 1)
                 /\ \A i \in 1..(Len(q) + 1) :
                       Pushed(q, t)[i] = IF i <= n THEN q[i]
                                         ELSE IF i = n + 1 THEN t ELSE q[i - 1]
<1> DEFINE n == Cardinality({i \in DOMAIN q : Priority[q[i]] <= Priority[t]})
           a == SubSeq(q, 1, n)
           b == SubSeq(q, n + 1, Len(q))
<1>1. n \in 0..Len(q)
  BY Position
<1> HIDE DEF n
<1>2. Pushed(q, t) = SubSeq(q, 1, (1 + n) - 1) \o <<t>> \o SubSeq(q, 1 + n, Len(q))
  BY DEF Pushed, InsertAt, n
<1>3. (1 + n) - 1 = n /\ 1 + n = n + 1 /\ Len(q) \in Nat
  BY <1>1
<1>4. Pushed(q, t) = a \o <<t>> \o b
  BY <1>2, <1>3
<1>5. a \in Seq(Tasks) /\ Len(a) = n /\ \A i \in 1..n : a[i] = q[i]
  BY <1>1
<1>6. b \in Seq(Tasks) /\ Len(b) = Len(q) - n /\ \A i \in 1..(Len(q) - n) : b[i] = q[n + i]
  BY <1>1
<1> HIDE DEF a, b
<1> DEFINE c == a \o <<t>>
<1>7. c \in Seq(Tasks) /\ Len(c) = n + 1 /\ \A i \in 1..(n + 1) : c[i] = IF i <= n THEN q[i] ELSE t
  BY <1>1, <1>3, <1>5
<1> HIDE DEF c
<1>8. c \o b \in Seq(Tasks) /\ Len(c \o b) = Len(q) + 1
  <2>1. c \in Seq(Tasks) /\ b \in Seq(Tasks)
    BY <1>6, <1>7
  <2>2. c \o b \in Seq(Tasks) /\ Len(c \o b) = Len(c) + Len(b)
    BY <2>1
  <2> QED
    BY <2>2, <1>1, <1>3, <1>6, <1>7
<1>9. ASSUME NEW i \in 1..(Len(q) + 1)
      PROVE  (c \o b)[i] = IF i <= n THEN q[i] ELSE IF i = n + 1 THEN t ELSE q[i - 1]
  <2>1. CASE i <= n + 1
    <3>1. (c \o b)[i] = c[i]
      BY <2>1, <1>1, <1>3, <1>6, <1>7
    <3> QED
      BY <2>1, <3>1, <1>1, <1>3, <1>7
  <2>2. CASE i > n + 1
    <3>1. i - (n + 1) \in 1..(Len(q) - n) /\ n + (i - (n + 1)) = i - 1
      BY <2>2, <1>1, <1>3
    <3>2. (c \o b)[i] = b[i - (n + 1)]
      BY <2>2, <1>1, <1>3, <1>6, <1>7
    <3>3. b[i - (n + 1)] = q[n + (i - (n + 1))]
      BY <3>1, <1>6
    <3>4. (c \o b)[i] = q[i - 1]
      BY <3>1, <3>2, <3>3
    <3>5. ~(i <= n) /\ i # n + 1
      BY <2>2, <1>1, <1>3
    <3> QED
      BY <3>4, <3>5
  <2>3. i <= n + 1 \/ i > n + 1
    BY <1>1, <1>3
  <2> QED
    BY <2>1, <2>2, <2>3
<1>10. DOMAIN (c \o b) = 1..(Len(q) + 1)
  BY <1>8
<1>11. Pushed(q, t) = c \o b
  BY <1>4 DEF c
<1> QED
  BY <1>1, <1>8, <1>9, <1>10, <1>11

\* heappush adds the task, moves no other, and repeats none that was not there.
LEMMA PushedKeeps ==
    ASSUME NEW q \in Seq(Tasks), NEW t \in Tasks
    PROVE  /\ Pushed(q, t) \in Seq(Tasks)
           /\ Range(Pushed(q, t)) = Range(q) \cup {t}
           /\ NoRepeats(q) /\ t \notin Range(q) => NoRepeats(Pushed(q, t))
<1>1. PICK n \in 0..Len(q) :
        /\ DOMAIN Pushed(q, t) = 1..(Len(q) + 1)
        /\ \A i \in 1..(Len(q) + 1) :
              Pushed(q, t)[i] = IF i <= n THEN q[i] ELSE IF i = n + 1 THEN t ELSE q[i - 1]
  BY PushedAt
<1>2. Pushed(q, t) \in Seq(Tasks)
  BY PushedAt
<1> DEFINE p == Pushed(q, t)
<1> HIDE DEF p
<1>3. Len(q) \in Nat /\ DOMAIN q = 1..Len(q)
  OBVIOUS
<1>4. /\ DOMAIN p = 1..(Len(q) + 1)
      /\ \A i \in 1..(Len(q) + 1) :
              p[i] = IF i <= n THEN q[i] ELSE IF i = n + 1 THEN t ELSE q[i - 1]
  BY <1>1 DEF p
<1>5. Range(p) \subseteq Range(q) \cup {t}
  BY <1>3, <1>4 DEF Range
<1>6. t \in Range(p)
  <2>1. n + 1 \in DOMAIN p /\ p[n + 1] = t
    BY <1>3, <1>4
  <2> QED
    BY <2>1 DEF Range
<1>7. ASSUME NEW i \in DOMAIN q PROVE q[i] \in Range(p)
  <2>1. CASE i <= n
    <3>1. i \in DOMAIN p /\ p[i] = q[i]
      BY <2>1, <1>3, <1>4
    <3> QED
      BY <3>1 DEF Range
  <2>2. CASE i > n
    <3>1. i + 1 \in DOMAIN p /\ p[i + 1] = q[i]
      BY <2>2, <1>3, <1>4
    <3> QED
      BY <3>1 DEF Range
  <2> QED
    BY <2>1, <2>2, <1>3
<1>8. Range(p) = Range(q) \cup {t}
  BY <1>5, <1>6, <1>7 DEF Range
<1>9. ASSUME NoRepeats(q), t \notin Range(q) PROVE NoRepeats(p)
  <2>1. \A i \in DOMAIN q : q[i] # t
    BY <1>9 DEF Range
  <2>2. SUFFICES ASSUME NEW i \in DOMAIN p, NEW j \in DOMAIN p, i < j PROVE p[i] # p[j]
    BY <1>4 DEF NoRepeats
  <2>3. CASE j <= n
    BY <2>2, <2>3, <1>3, <1>4, <1>9 DEF NoRepeats
  <2>4. CASE j = n + 1
    BY <2>1, <2>2, <2>4, <1>3, <1>4
  <2>5. CASE i > n + 1
    <3>1. /\ i - 1 \in DOMAIN q /\ j - 1 \in DOMAIN q /\ i - 1 < j - 1
          /\ p[i] = q[i - 1] /\ p[j] = q[j - 1]
      BY <2>2, <2>5, <1>3, <1>4
    <3> QED
      BY <3>1, <1>9 DEF NoRepeats
  <2>6. CASE i = n + 1
    BY <2>1, <2>2, <2>6, <1>3, <1>4
  <2>7. CASE i <= n /\ j > n + 1
    BY <2>2, <2>7, <1>3, <1>4, <1>9 DEF NoRepeats
  <2> QED
    BY <2>2, <2>3, <2>4, <2>5, <2>6, <2>7, <1>3, <1>4
<1> QED
  BY <1>2, <1>8, <1>9 DEF p

\* heappop: the first task leaves, and is still nowhere else in the queue.
LEMMA TailKeeps ==
    ASSUME NEW q \in Seq(Tasks), q # <<>>, NoRepeats(q)
    PROVE  /\ Head(q) \in Range(q) /\ Head(q) \in Tasks
           /\ Tail(q) \in Seq(Tasks)
           /\ NoRepeats(Tail(q))
           /\ Range(Tail(q)) = Range(q) \ {Head(q)}
<1>1. Len(q) \in Nat \ {0} /\ DOMAIN q = 1..Len(q) /\ Head(q) = q[1]
  OBVIOUS
<1>2. /\ Tail(q) \in Seq(Tasks)
      /\ DOMAIN Tail(q) = 1..(Len(q) - 1)
      /\ \A i \in 1..(Len(q) - 1) : Tail(q)[i] = q[i + 1]
  BY <1>1
<1>3. NoRepeats(Tail(q))
  BY <1>1, <1>2 DEF NoRepeats
<1>4. ASSUME NEW i \in DOMAIN q, q[i] # q[1] PROVE q[i] \in Range(Tail(q))
  <2>1. i - 1 \in DOMAIN Tail(q) /\ Tail(q)[i - 1] = q[i]
    BY <1>1, <1>2, <1>4
  <2> QED
    BY <2>1 DEF Range
<1>5. ASSUME NEW i \in DOMAIN Tail(q)
      PROVE  Tail(q)[i] \in Range(q) /\ Tail(q)[i] # q[1]
  BY <1>1, <1>2 DEF Range, NoRepeats
<1>6. Range(Tail(q)) = Range(q) \ {Head(q)}
  BY <1>1, <1>4, <1>5 DEF Range
<1>7. Head(q) \in Range(q) /\ Head(q) \in Tasks
  BY <1>1 DEF Range
<1> QED
  BY <1>2, <1>3, <1>6, <1>7

-----------------------------------------------------------------------------
(* Types. *)

\* A task that is listed has a status, and is on disk.
ListedIsSaved == \A t \in Range(listed) : status[t] \in Open \cup Final /\ disk[t] # "none"

TypeInv == TypeOK /\ ListedIsSaved

\* _save keeps the types, and keeps what it lists.
LEMMA SaveTypes ==
    ASSUME NEW l \in Seq(Tasks), NEW s \in [Tasks -> Statuses],
           \A t \in Range(l) : s[t] \in Open \cup Final,
           SaveTasks(l, s)
    PROVE  /\ listed' \in Seq(Tasks) /\ Len(listed') <= MaxTasks
           /\ disk' \in [Tasks -> Final \cup {"open", "none"}]
           /\ \A t \in Range(listed') : t \in Range(l) /\ disk'[t] # "none"
<1> DEFINE k == Kept(l)
<1>1. Len(l) \in Nat /\ DOMAIN l = 1..Len(l) /\ MaxTasks \in Nat
  BY BoundsAssumption
<1>2. k \in Seq(Tasks) /\ Len(k) <= MaxTasks /\ Range(k) \subseteq Range(l)
  <2>1. CASE Len(l) <= MaxTasks
    BY <2>1 DEF Kept
  <2>2. CASE Len(l) > MaxTasks
    <3> DEFINE m == Len(l) - MaxTasks
    <3>1. k = SubSeq(l, m + 1, Len(l)) /\ m \in Nat
      BY <2>2, <1>1 DEF Kept
    <3>2. k \in Seq(Tasks) /\ Len(k) = MaxTasks /\ \A i \in 1..MaxTasks : k[i] = l[m + i]
      BY <3>1, <2>2, <1>1
    <3>3. \A i \in 1..MaxTasks : m + i \in DOMAIN l
      BY <2>2, <1>1
    <3>4. DOMAIN k = 1..MaxTasks
      BY <3>2
    <3>5. Range(k) \subseteq Range(l)
      BY <3>2, <3>3, <3>4 DEF Range
    <3> QED
      BY <3>2, <3>5, <1>1
  <2> QED
    BY <2>1, <2>2, <1>1
<1> HIDE DEF k
<1>3. listed' = k /\ disk' = [t \in Tasks |-> IF t \in Range(k) THEN OnDisk(s[t]) ELSE "none"]
  BY DEF SaveTasks, k
<1>4. \A t \in Range(k) : t \in Tasks /\ OnDisk(s[t]) \in Final \cup {"open"}
  BY <1>2 DEF OnDisk, Range
<1>5. "none" \notin Final \cup {"open"}
  BY DEF Final
<1> QED
  BY <1>2, <1>3, <1>4, <1>5

\* The types when a status changes to another of a task that was submitted.
LEMMA StatusTypes ==
    ASSUME TypeInv, NEW t \in Tasks, NEW s \in Open \cup Final,
           status' = [status EXCEPT ![t] = s], UNCHANGED <<listed, disk>>
    PROVE  status' \in [Tasks -> Statuses] /\ ListedIsSaved'
<1>1. status \in [Tasks -> Statuses] /\ s \in Statuses
  BY DEF TypeInv, TypeOK, Statuses
<1>2. \A x \in Range(listed) : status[x] \in Open \cup Final /\ disk[x] # "none"
  BY DEF TypeInv, ListedIsSaved
<1>3. Range(listed) \subseteq Tasks
  BY DEF TypeInv, TypeOK, Range
<1>4. \A x \in Range(listed) : status'[x] \in Open \cup Final
  BY <1>1, <1>2, <1>3
<1> QED
  BY <1>1, <1>2, <1>4 DEF ListedIsSaved, Range

\* Every step of submit() keeps the types.
LEMMA SubmitTypes ==
    ASSUME TypeInv, NEW t \in Tasks, Submit(t) \/ Submitting(t)
    PROVE  TypeInv'
<1> USE DEF TypeInv
<1>1. CASE Submit(t)
  <2>1. status' \in [Tasks -> Statuses] /\ Append(listed, t) \in Seq(Tasks)
    BY <1>1 DEF Submit, TypeOK, Statuses, Open
  <2>2. ASSUME NEW x \in Range(Append(listed, t))
        PROVE  status'[x] \in Open \cup Final
    <3>1. PICK i \in DOMAIN Append(listed, t) : x = Append(listed, t)[i]
      BY DEF Range
    <3>2. listed \in Seq(Tasks)
      BY DEF TypeOK
    <3>3. x = t \/ x \in Range(listed)
      BY <3>1, <3>2 DEF Range
    <3>4. x = t \/ (x \in Range(listed) /\ x \in Tasks)
      BY <3>2, <3>3 DEF Range
    <3> QED
      BY <3>4, <1>1 DEF Submit, TypeOK, ListedIsSaved, Open
  <2>3. /\ listed' \in Seq(Tasks) /\ Len(listed') <= MaxTasks
        /\ disk' \in [Tasks -> Final \cup {"open", "none"}]
        /\ \A x \in Range(listed') : x \in Range(Append(listed, t)) /\ disk'[x] # "none"
    BY <1>1, <2>1, <2>2, SaveTypes DEF Submit
  <2> QED
    BY <1>1, <2>1, <2>2, <2>3
    DEF Submit, TypeOK, ListedIsSaved, Arrivals, heap, workers, counts
<1>2. CASE CountRunning(t)
  BY <1>2 DEF CountRunning, TypeOK, ListedIsSaved, Arrivals, store, heap, workers, counts
<1>3. CASE ChooseVictim(t)
  <2>1. CASE victim' = victim
    BY <1>3, <2>1 DEF ChooseVictim, TypeOK, ListedIsSaved, Arrivals, store, workers, counts
  <2>2. ASSUME NEW v \in Candidates, victim' = {v}
        PROVE  TypeInv'
    <3>1. v \in Tasks
      BY <2>2 DEF Candidates, TypeOK
    <3>2. Cardinality({v}) <= 1
      <4>1. Cardinality({v}) = 1
        BY FS_Singleton
      <4> QED
        BY <4>1
    <3> QED
      <4>1. arriving' \in [Tasks -> Arrivals]
        BY <1>3 DEF ChooseVictim, Arrivals, TypeOK
      <4>2. UNCHANGED <<status, flagged, store, queue, running, started, workers, counts>>
        BY <1>3 DEF ChooseVictim
      <4>3. victim' \subseteq Tasks /\ Cardinality(victim') <= 1
        BY <2>2, <3>1, <3>2
      <4> QED
        BY <4>1, <4>2, <4>3 DEF TypeOK, ListedIsSaved, store, workers, counts
  <2> QED
    BY <1>3, <2>1, <2>2 DEF ChooseVictim
<1>4. ASSUME NEW v \in victim, Preempt(t, v) PROVE TypeInv'
  <2>1. v \in Tasks /\ Pushed(queue, v) \in Seq(Tasks)
    BY PushedKeeps DEF TypeOK
  <2>2. status' \in [Tasks -> Statuses] /\ ListedIsSaved'
    BY <1>4, <2>1, StatusTypes DEF Preempt, store, Open
  <2>3. Cardinality({}) <= 1
    BY FS_EmptySet
  <2> QED
    <3>1. arriving' \in [Tasks -> Arrivals] /\ preempts' \in [Tasks -> Nat]
      BY <1>4 DEF Preempt, TypeOK, Arrivals
    <3>2. queue' \in Seq(Tasks) /\ running' \subseteq Tasks /\ victim' = {}
      BY <1>4, <2>1 DEF Preempt, Requeued, Unmark, TypeOK
    <3>3. UNCHANGED <<flagged, store, started, workers, sent, runs, crashes>>
      BY <1>4 DEF Preempt
    <3> QED
      BY <2>2, <2>3, <3>1, <3>2, <3>3 DEF TypeOK, store, workers
<1>5. CASE Put(t)
  <2>1. Pushed(queue, t) \in Seq(Tasks)
    BY PushedKeeps DEF TypeOK
  <2> QED
    BY <1>5, <2>1 DEF Put, TypeOK, ListedIsSaved, Arrivals, store, workers, counts
<1> QED
  BY <1>1, <1>2, <1>3, <1>4, <1>5 DEF Submitting

\* Every step of a worker keeps the types.
LEMMA WorkerTypes ==
    ASSUME TypeInv, NEW w \in Workers, Take(w) \/ Working(w)
    PROVE  TypeInv'
<1> USE DEF TypeInv
<1>1. task[w] \in Tasks
  BY DEF TypeOK
<1>2. CASE Take(w)
  <2>1. Head(queue) \in Tasks /\ Tail(queue) \in Seq(Tasks)
    BY <1>2 DEF Take, TypeOK
  <2>2. status' \in [Tasks -> Statuses] /\ ListedIsSaved'
    <3>1. CASE status[Head(queue)] = "checkpointed"
      BY <1>2, <2>1, <3>1, StatusTypes DEF Take, store, Open
    <3>2. CASE status[Head(queue)] # "checkpointed"
      BY <1>2, <2>1, <3>2 DEF Take, store, TypeOK, ListedIsSaved
    <3> QED
      BY <3>1, <3>2
  <2> QED
    BY <1>2, <2>1, <2>2 DEF Take, Popped, TypeOK, Steps, store, counts
<1>3. CASE Block(w)
  <2>1. status' \in [Tasks -> Statuses] /\ ListedIsSaved'
    BY <1>1, <1>3, StatusTypes DEF Block, Goes, store, Final
  <2> QED
    BY <1>3, <2>1 DEF Block, Goes, TypeOK, Steps, store, heap, counts
<1>4. CASE Start(w)
  <2>1. status' \in [Tasks -> Statuses] /\ ListedIsSaved'
    BY <1>1, <1>4, StatusTypes DEF Start, Goes, store, Open
  <2>2. started' \in Seq(Tasks)
    <3>1. StartedNow(task[w]) \in Seq(Tasks)
      <4>1. CASE task[w] \in Range(started)
        <5> DEFINE i == CHOOSE i \in DOMAIN started : started[i] = task[w]
        <5>1. i \in 1..Len(started) /\ Len(started) \in Nat
          BY <4>1 DEF Range, TypeOK
        <5>2. RemoveAt(started, i) \in Seq(Tasks)
          <6> HIDE DEF i
          <6>1. started \in Seq(Tasks)
            BY DEF TypeOK
          <6>2. SubSeq(started, 1, i - 1) \in Seq(Tasks)
            BY <5>1, <6>1
          <6>3. SubSeq(started, i + 1, Len(started)) \in Seq(Tasks)
            BY <5>1, <6>1
          <6> QED
            BY <6>2, <6>3 DEF RemoveAt
        <5> QED
          BY <1>1, <4>1, <5>2 DEF StartedNow
      <4>2. CASE task[w] \notin Range(started)
        BY <1>1, <4>2 DEF StartedNow, TypeOK
      <4> QED
        BY <4>1, <4>2
    <3> QED
      BY <1>4, <3>1 DEF Start, TypeOK
  <2> QED
    BY <1>1, <1>4, <2>1, <2>2 DEF Start, Goes, TypeOK, Steps, store, heap
<1>5. CASE Outcome(w)
  <2>1. UNCHANGED <<listed, disk>>
    BY <1>5 DEF Outcome, Answer, LastChunk, BreakOff, Fail, store
  <2>2. status' \in [Tasks -> Statuses] /\ ListedIsSaved'
    <3>1. CASE Answer(w)
      BY <1>1, <2>1, <3>1, StatusTypes DEF Answer, Goes, Final
    <3>2. CASE LastChunk(w)
      BY <1>1, <2>1, <3>2, StatusTypes DEF LastChunk, Goes, StreamOutcome, Final
    <3>3. CASE Fail(w)
      BY <1>1, <2>1, <3>3, StatusTypes DEF Fail, Goes, Final
    <3>4. CASE BreakOff(w)
      <4>1. CASE status[task[w]] = "running"
        BY <1>1, <2>1, <3>4, <4>1, StatusTypes DEF BreakOff, Goes, StreamOutcome, Final
      <4>2. CASE status[task[w]] # "running"
        <5>1. status' = status
          BY <1>1, <3>4, <4>2 DEF BreakOff, Goes, TypeOK
        <5> QED
          BY <2>1, <5>1 DEF TypeOK, ListedIsSaved
      <4> QED
        BY <4>1, <4>2
    <3> QED
      BY <1>5, <3>1, <3>2, <3>3, <3>4 DEF Outcome
  <2>3. pc' \in [Workers -> Steps]
    <3>1. pc' = [pc EXCEPT ![w] = "ended"]
      BY <1>5 DEF Outcome, Answer, LastChunk, BreakOff, Fail, Goes
    <3> QED
      BY <3>1 DEF TypeOK, Steps
  <2>4. UNCHANGED <<flagged, store, arriving, heap, started, task, counts>>
    BY <1>5 DEF Outcome, Answer, LastChunk, BreakOff, Fail
  <2> QED
    BY <2>2, <2>3, <2>4 DEF TypeOK, store, heap, counts
<1>6. CASE SaveOutcome(w)
  <2>1. /\ listed' \in Seq(Tasks) /\ Len(listed') <= MaxTasks
        /\ disk' \in [Tasks -> Final \cup {"open", "none"}]
        /\ \A x \in Range(listed') : x \in Range(listed) /\ disk'[x] # "none"
    <3>1. \A t \in Range(listed) : status[t] \in Open \cup Final
      BY DEF ListedIsSaved
    <3> QED
      BY <1>6, <3>1, SaveTypes DEF SaveOutcome, TypeOK
  <2> QED
    BY <1>6, <2>1 DEF SaveOutcome, TypeOK, ListedIsSaved, Steps, heap, counts
<1>7. CASE Tell(w)
  BY <1>1, <1>7 DEF Tell, TypeOK, ListedIsSaved, Steps, store, heap
<1>8. CASE MarkDone(w)
  <2>1. AnyTask \in Tasks
    BY SomeTask DEF AnyTask
  <2> QED
    BY <1>8, <2>1 DEF MarkDone, TypeOK, ListedIsSaved, Steps, store, counts
<1> QED
  BY <1>2, <1>3, <1>4, <1>5, <1>6, <1>7, <1>8 DEF Working

\* Cancellations and restarts keep the types.
LEMMA UpsetTypes ==
    ASSUME TypeInv, Restart \/ \E t \in Tasks : CancelWaiting(t) \/ CancelRunning(t)
    PROVE  TypeInv'
<1> USE DEF TypeInv
<1>1. ASSUME NEW t \in Tasks, CancelWaiting(t) PROVE TypeInv'
  <2>1. status' \in [Tasks -> Statuses] /\ listed \in Seq(Tasks)
    BY <1>1 DEF CancelWaiting, TypeOK, Statuses, Final
  <2>2. \A x \in Range(listed) : status'[x] \in Open \cup Final
    BY <1>1 DEF CancelWaiting, TypeOK, ListedIsSaved, Final, Range
  <2>3. /\ listed' \in Seq(Tasks) /\ Len(listed') <= MaxTasks
        /\ disk' \in [Tasks -> Final \cup {"open", "none"}]
        /\ \A x \in Range(listed') : x \in Range(listed) /\ disk'[x] # "none"
    BY <1>1, <2>1, <2>2, SaveTypes DEF CancelWaiting
  <2> QED
    BY <1>1, <2>1, <2>2, <2>3 DEF CancelWaiting, TypeOK, ListedIsSaved, heap, workers
<1>2. ASSUME NEW t \in Tasks, CancelRunning(t) PROVE TypeInv'
  BY <1>2 DEF CancelRunning, TypeOK, ListedIsSaved, store, heap, workers, counts
<1>3. CASE Restart
  <2>1. PICK torn \in BOOLEAN :
          LET onDisk == {t \in Tasks : disk[t] # "none" /\ ~torn}
          IN  /\ listed' = IF torn THEN <<>> ELSE listed
              /\ disk' = [t \in Tasks |-> IF t \in onDisk THEN disk[t] ELSE "none"]
              /\ status' = [t \in Tasks |-> IF t \in onDisk THEN Reloaded(disk[t])
                                            ELSE IF status[t] = "new" THEN "new"
                                            ELSE "forgotten"]
              /\ flagged' = flagged \cap onDisk
    BY <1>3 DEF Restart
  <2>2. \A t \in Tasks : disk[t] # "none" => Reloaded(disk[t]) \in Final
    BY DEF TypeOK, Reloaded, Final
  <2>3. status' \in [Tasks -> Statuses] /\ disk' \in [Tasks -> Final \cup {"open", "none"}]
    BY <2>1, <2>2 DEF TypeOK, Statuses
  <2>4. listed' \in Seq(Tasks) /\ Len(listed') <= MaxTasks /\ flagged' \subseteq Tasks
    BY <2>1, BoundsAssumption DEF TypeOK
  <2>5. ListedIsSaved'
    <3>1. CASE torn
      BY <2>1, <3>1 DEF ListedIsSaved, Range
    <3>2. CASE ~torn
      BY <2>1, <2>2, <3>2 DEF ListedIsSaved, TypeOK, Range
    <3> QED
      BY <3>1, <3>2
  <2>6. crashes' \in 0..MaxUpsets
    <3>1. Cardinality(flagged) \in Nat
      BY WorkersAssumption, FS_Subset, FS_CardinalityType DEF TypeOK
    <3> QED
      BY <1>3, <3>1, BoundsAssumption DEF Restart, TypeOK
  <2>7. Cardinality({}) <= 1 /\ AnyTask \in Tasks
    BY FS_EmptySet, SomeTask DEF AnyTask
  <2> QED
    <3>1. /\ arriving' \in [Tasks -> Arrivals] /\ pc' \in [Workers -> Steps] /\ task' \in [Workers -> Tasks]
      BY <1>3, <2>7 DEF Restart, Arrivals, Steps
    <3>2. /\ queue' = <<>> /\ started' = <<>> /\ running' = {} /\ victim' = {}
          /\ UNCHANGED <<sent, runs, preempts>>
      BY <1>3 DEF Restart
    <3>3. TypeOK'
      BY <2>3, <2>4, <2>6, <2>7, <3>1, <3>2 DEF TypeOK
    <3> QED
      BY <2>5, <3>3
<1> QED
  BY <1>1, <1>2, <1>3

\* Nothing has happened yet.
LEMMA InitTypes ==
    ASSUME Init
    PROVE  TypeInv
<1>1. Cardinality({}) <= 1 /\ AnyTask \in Tasks /\ Range(<<>>) = {}
  BY FS_EmptySet, SomeTask DEF AnyTask, Range
<1> QED
  BY <1>1, BoundsAssumption
  DEF Init, TypeInv, TypeOK, ListedIsSaved, Statuses, Arrivals, Steps, Final

LEMMA TypeStep ==
    ASSUME TypeInv, [Next]_vars
    PROVE  TypeInv'
<1>1. CASE UNCHANGED vars
  BY <1>1 DEF vars, store, heap, workers, counts, TypeInv, TypeOK, ListedIsSaved
<1>2. CASE Next
  BY <1>2, SubmitTypes, WorkerTypes, UpsetTypes DEF Next
<1> QED
  BY <1>1, <1>2

\* Every variable has its type, at most MaxTasks tasks are kept, and one
\* preemption at a time has the queue's lock.  A listed task is on disk, which is
\* why a restart finds a status for each.
THEOREM Typing == Spec => [](TypeOK /\ ListedIsSaved)
<1>1. Init => TypeInv
  BY InitTypes
<1>2. TypeInv /\ [Next]_vars => TypeInv'
  BY TypeStep
<1>3. TypeInv => TypeOK /\ ListedIsSaved
  BY DEF TypeInv
<1> QED
  BY <1>1, <1>2, <1>3, PTL DEF Spec

-----------------------------------------------------------------------------
(* The queue's books. *)

\* BooksAgree, and why it stays so: a task that has not been put into the queue
\* is not there already, and what a preemption has chosen is still running when
\* it is pushed back.
Books ==
    /\ BooksAgree
    /\ \A t \in Tasks : arriving[t] # "put" => t \notin Range(queue) /\ t \notin running
    /\ victim \subseteq running

\* While neither the queue nor the workers change, the books stay right.
LEMMA BooksKept ==
    ASSUME TypeInv, Books, UNCHANGED <<queue, running, pc, task>>,
           \A t \in Tasks : arriving'[t] # "put" => arriving[t] # "put",
           victim' \subseteq running
    PROVE  Books'
  BY DEF Books, BooksAgree, Holds

LEMMA BooksSubmit ==
    ASSUME TypeInv, Books, NEW t \in Tasks, Submit(t) \/ Submitting(t)
    PROVE  Books'
<1> USE DEF TypeInv
<1>1. CASE Submit(t)
  BY <1>1, BooksKept DEF Submit, heap, workers, TypeOK, Books
<1>2. CASE CountRunning(t)
  BY <1>2, BooksKept DEF CountRunning, heap, workers, TypeOK, Books
<1>3. CASE ChooseVictim(t)
  <2>1. victim' \subseteq running
    BY <1>3 DEF ChooseVictim, Candidates, Books
  <2> QED
    BY <1>3, <2>1, BooksKept DEF ChooseVictim, workers, TypeOK
<1>4. ASSUME NEW v \in victim, Preempt(t, v) PROVE Books'
  <2>1. v \in Tasks /\ v \in running /\ queue \in Seq(Tasks)
    BY DEF Books, TypeOK
  <2>2. v \notin Range(queue) /\ NoRepeats(queue) /\ arriving[v] = "put"
    BY <2>1 DEF Books, BooksAgree, NoRepeats
  <2>3. /\ Range(queue') = Range(queue) \cup {v}
        /\ NoRepeats(queue')
    BY <1>4, <2>1, <2>2, PushedKeeps DEF Preempt, Requeued
  <2>4. running' = running \ {v} /\ victim' = {} /\ UNCHANGED <<pc, task>>
    BY <1>4 DEF Preempt, Unmark, workers
  <2>5. BooksAgree'
    BY <2>3, <2>4 DEF Books, BooksAgree, NoRepeats, Holds
  <2>6. \A x \in Tasks : arriving'[x] # "put" => x # v /\ arriving[x] # "put"
    <3>1. arriving' = [arriving EXCEPT ![t] = "ready"] /\ arriving[t] = "choosing"
      BY <1>4 DEF Preempt
    <3> QED
      BY <2>2, <3>1 DEF TypeOK
  <2> QED
    BY <2>3, <2>4, <2>5, <2>6 DEF Books
<1>5. CASE Put(t)
  <2>1. arriving[t] # "put" /\ victim = {} /\ queue \in Seq(Tasks)
    BY <1>5 DEF Put, QueueFree, TypeOK
  <2>2. t \notin Range(queue) /\ t \notin running /\ NoRepeats(queue)
    BY <2>1 DEF Books, BooksAgree, NoRepeats
  <2>3. /\ Range(queue') = Range(queue) \cup {t}
        /\ NoRepeats(queue')
    BY <1>5, <2>1, <2>2, PushedKeeps DEF Put
  <2>4. UNCHANGED <<running, victim, pc, task>>
    BY <1>5 DEF Put, workers
  <2>5. BooksAgree'
    BY <2>2, <2>3, <2>4 DEF Books, BooksAgree, NoRepeats, Holds
  <2>6. \A x \in Tasks : arriving'[x] # "put" => x # t /\ arriving[x] # "put"
    BY <1>5 DEF Put, TypeOK
  <2> QED
    BY <2>3, <2>4, <2>5, <2>6 DEF Books
<1> QED
  BY <1>1, <1>2, <1>3, <1>4, <1>5 DEF Submitting

LEMMA BooksWorker ==
    ASSUME TypeInv, Books, NEW w \in Workers, Take(w) \/ Working(w)
    PROVE  Books'
<1> USE DEF TypeInv
<1>1. CASE Take(w)
  <2> PICK t : t = Head(queue)
    OBVIOUS
  <2>1. queue \in Seq(Tasks) /\ queue # <<>> /\ NoRepeats(queue) /\ victim = {}
    BY <1>1 DEF Take, QueueFree, TypeOK, Books, BooksAgree, NoRepeats
  <2>2. /\ t \in Tasks /\ t \in Range(queue)
        /\ NoRepeats(queue') /\ Range(queue') = Range(queue) \ {t}
    BY <1>1, <2>1, TailKeeps DEF Take, Popped
  <2>3. arriving[t] = "put"
    BY <2>2 DEF Books
  <2>4. /\ running' = running \cup {t} /\ UNCHANGED <<arriving, victim>>
        /\ pc[w] = "idle" /\ pc' = [pc EXCEPT ![w] = "got"]
        /\ task' = [task EXCEPT ![w] = t]
    BY <1>1 DEF Take
  <2>5. \A x \in running' : \E y \in Workers : Holds(y, x)'
    <3>1. Holds(w, t)'
      <4>1. pc'[w] = "got" /\ task'[w] = t
        BY <2>4 DEF TypeOK
      <4> QED
        BY <4>1 DEF Holds
    <3>2. \A x \in running, y \in Workers : Holds(y, x) => Holds(y, x)'
      BY <2>4 DEF Holds, TypeOK
    <3>3. \A x \in running : \E y \in Workers : Holds(y, x)
      BY DEF Books, BooksAgree
    <3>4. \A x \in running : \E y \in Workers : Holds(y, x)'
      BY <3>2, <3>3
    <3> QED
      BY <2>4, <3>1, <3>4
  <2>6. running' \cap Range(queue') = {}
    BY <2>2, <2>4 DEF Books, BooksAgree
  <2>7. BooksAgree'
    BY <2>2, <2>5, <2>6 DEF BooksAgree, NoRepeats
  <2> QED
    BY <2>1, <2>2, <2>3, <2>4, <2>7 DEF Books
<1>2. CASE Block(w) \/ Start(w) \/ Outcome(w) \/ SaveOutcome(w) \/ Tell(w)
  <2>1. UNCHANGED <<queue, running, victim, arriving, task>>
    BY <1>2 DEF Block, Start, Outcome, Answer, LastChunk, BreakOff, Fail, SaveOutcome, Tell, heap
  <2>2. \A x \in Workers : pc[x] # "idle" => pc'[x] # "idle"
    BY <1>2 DEF Block, Start, Outcome, Answer, LastChunk, BreakOff, Fail, SaveOutcome, Tell,
                Goes, TypeOK
  <2> QED
    BY <2>1, <2>2 DEF Books, BooksAgree, Holds
<1>3. CASE MarkDone(w)
  <2>1. /\ running' = running \ {task[w]} /\ victim = {}
        /\ UNCHANGED <<queue, victim, arriving>>
        /\ pc' = [pc EXCEPT ![w] = "idle"] /\ task' = [task EXCEPT ![w] = AnyTask]
    BY <1>3 DEF MarkDone, QueueFree
  <2>2. \A x \in running', y \in Workers : Holds(y, x) => Holds(y, x)'
    BY <2>1 DEF Holds, TypeOK
  <2> QED
    BY <2>1, <2>2 DEF Books, BooksAgree
<1> QED
  BY <1>1, <1>2, <1>3 DEF Working

LEMMA BooksStep ==
    ASSUME TypeInv, Books, [Next]_vars
    PROVE  Books'
<1>1. ASSUME NEW t \in Tasks, CancelWaiting(t) \/ CancelRunning(t) PROVE Books'
  BY <1>1, BooksKept DEF CancelWaiting, CancelRunning, heap, workers, Books
<1>2. CASE Restart
  <2>1. queue' = <<>> /\ running' = {} /\ victim' = {}
    BY <1>2 DEF Restart
  <2> QED
    BY <2>1 DEF Books, BooksAgree, Range
<1>3. CASE UNCHANGED vars
  BY <1>3, BooksKept DEF vars, heap, workers, Books
<1> QED
  BY <1>1, <1>2, <1>3, BooksSubmit, BooksWorker DEF Next

\* The queue's books agree for ever: no task is queued twice, none is queued and
\* counted as running, and whatever counts as running is in a worker's hands, for
\* any number of preemptions and of workers that share a task.
THEOREM BooksAgreeAlways == Spec => []BooksAgree
<1>1. Init => TypeInv /\ Books
  <2>1. Init => Books
    BY DEF Init, Books, BooksAgree, Range
  <2> QED
    BY <2>1, InitTypes
<1>2. (TypeInv /\ Books) /\ [Next]_vars => (TypeInv /\ Books)'
  BY TypeStep, BooksStep
<1>3. Books => BooksAgree
  BY DEF Books
<1> QED
  BY <1>1, <1>2, <1>3, PTL DEF Spec

-----------------------------------------------------------------------------
(* No task is lost, and none runs without a cause. *)

Got(w, t) == Holds(w, t) /\ pc[w] = "got"
Coming(t) == arriving[t] \in {"listed", "busy", "choosing", "ready"}
Waits(t)  == t \in Range(queue) \/ \E w \in Workers : Got(w, t)

\* A task waits in one place: with submit(), in the queue, or with one worker; it
\* does not run meanwhile, and nobody preempts it.
InOnePlace(t) ==
    /\ t \in Range(queue) \/ arriving[t] # "put" \/ t \in victim => \A w \in Workers : ~Got(w, t)
    /\ \A w, x \in Workers : Got(w, t) /\ Got(x, t) => w = x
    /\ Coming(t) \/ Waits(t) => status[t] # "running"

\* A task that waits has been preempted as often as it was run.
RunsInv(t) ==
    /\ status[t] = "new" => runs[t] = 0 /\ arriving[t] = "none"
    /\ Coming(t) \/ Waits(t) => runs[t] <= preempts[t]
    /\ runs[t] <= 1 + preempts[t]

NotLost(t) == status[t] \in {"queued", "checkpointed"} => Coming(t) \/ Waits(t)

Waiting == \A t \in Tasks : InOnePlace(t) /\ RunsInv(t) /\ NotLost(t)

LEMMA WaitingSubmit ==
    ASSUME TypeInv, Books, Waiting, NEW t \in Tasks, Submit(t) \/ Submitting(t)
    PROVE  Waiting'
<1> USE DEF TypeInv
<1>1. CASE Submit(t)
  <2>1. /\ status[t] = "new" /\ arriving[t] = "none"
        /\ status' = [status EXCEPT ![t] = "queued"]
        /\ arriving' = [arriving EXCEPT ![t] = "listed"]
        /\ UNCHANGED <<queue, victim, pc, task, runs, preempts>>
    BY <1>1 DEF Submit, heap, workers, counts
  <2>2. runs[t] = 0 /\ preempts[t] \in Nat
    BY <2>1 DEF Waiting, RunsInv, TypeOK
  <2>3. ASSUME NEW x \in Tasks PROVE InOnePlace(x)' /\ RunsInv(x)' /\ NotLost(x)'
    BY <2>1, <2>2 DEF Waiting, InOnePlace, RunsInv, NotLost, Waits, Got, Holds, Coming, TypeOK
  <2> QED
    BY <2>3 DEF Waiting
<1>2. CASE CountRunning(t)
  <2>1. /\ Coming(t) /\ arriving' \in [Tasks -> Arrivals] /\ Coming(t)'
        /\ \A x \in Tasks : x # t => arriving'[x] = arriving[x]
        /\ UNCHANGED <<status, queue, victim, pc, task, runs, preempts>>
    BY <1>2 DEF CountRunning, heap, workers, counts, Coming, TypeOK, Arrivals
  <2>2. ASSUME NEW x \in Tasks PROVE InOnePlace(x)' /\ RunsInv(x)' /\ NotLost(x)'
    BY <2>1 DEF Waiting, InOnePlace, RunsInv, NotLost, Waits, Got, Holds, Coming
  <2> QED
    BY <2>2 DEF Waiting
<1>3. CASE ChooseVictim(t)
  <2>1. /\ Coming(t) /\ Coming(t)'
        /\ \A x \in Tasks : x # t => arriving'[x] = arriving[x]
        /\ UNCHANGED <<status, queue, pc, task, runs, preempts>>
        /\ victim' = victim \/ \A x \in victim' : status[x] = "running"
    BY <1>3 DEF ChooseVictim, Candidates, workers, counts, Coming, TypeOK
  <2>2. ASSUME NEW x \in Tasks PROVE InOnePlace(x)' /\ RunsInv(x)' /\ NotLost(x)'
    BY <2>1 DEF Waiting, InOnePlace, RunsInv, NotLost, Waits, Got, Holds, Coming
  <2> QED
    BY <2>2 DEF Waiting
<1>4. ASSUME NEW v \in victim, Preempt(t, v) PROVE Waiting'
  <2>1. v \in Tasks /\ Range(queue') = Range(queue) \cup {v}
    BY <1>4, PushedKeeps DEF Preempt, Requeued, TypeOK
  <2>2. /\ Coming(t) /\ arriving' = [arriving EXCEPT ![t] = "ready"]
        /\ status' = [status EXCEPT ![v] = "checkpointed"]
        /\ preempts' = [preempts EXCEPT ![v] = @ + 1]
        /\ victim' = {} /\ UNCHANGED <<pc, task, runs>>
    BY <1>4 DEF Preempt, workers, Coming
  <2>3. \A x \in Tasks : runs[x] \in Nat /\ preempts[x] \in Nat
    BY DEF TypeOK
  <2>4. (\A w \in Workers : ~Got(w, v)) /\ runs[v] <= 1 + preempts[v]
    BY <2>1 DEF Waiting, InOnePlace, RunsInv
  <2>5. status'[v] = "checkpointed" /\ preempts'[v] = preempts[v] + 1
    BY <2>1, <2>2 DEF TypeOK
  <2>6. ASSUME NEW x \in Tasks PROVE InOnePlace(x)' /\ RunsInv(x)' /\ NotLost(x)'
    <3>1. CASE x = v
      <4>1. InOnePlace(v) /\ RunsInv(v)
        BY <2>1 DEF Waiting
      <4>2. arriving'[v] # "put" => arriving[v] # "put"
        BY <2>1, <2>2 DEF Coming, TypeOK
      <4>3. InOnePlace(v)'
        BY <2>1, <2>2, <2>4, <2>5, <4>1, <4>2 DEF InOnePlace, Waits, Got, Holds
      <4>4. RunsInv(v)'
        BY <2>1, <2>2, <2>3, <2>4, <2>5 DEF RunsInv
      <4>5. NotLost(v)'
        BY <2>1 DEF NotLost, Waits
      <4> QED
        BY <3>1, <4>3, <4>4, <4>5
    <3>2. CASE x # v
      <4>1. /\ status'[x] = status[x] /\ preempts'[x] = preempts[x]
            /\ x \in Range(queue') <=> x \in Range(queue)
            /\ arriving'[x] = arriving[x] \/ (x = t /\ Coming(t)')
        BY <2>1, <2>2, <3>2 DEF TypeOK, Coming
      <4>2. InOnePlace(x) /\ RunsInv(x) /\ NotLost(x)
        BY DEF Waiting
      <4> QED
        BY <2>2, <4>1, <4>2 DEF InOnePlace, RunsInv, NotLost, Waits, Got, Holds, Coming
    <3> QED
      BY <3>1, <3>2
  <2> QED
    BY <2>6 DEF Waiting
<1>5. CASE Put(t)
  <2>1. Range(queue') = Range(queue) \cup {t}
    BY <1>5, PushedKeeps DEF Put, TypeOK
  <2>2. /\ Coming(t) /\ arriving[t] # "put" /\ arriving' = [arriving EXCEPT ![t] = "put"]
        /\ victim = {} /\ UNCHANGED <<status, victim, pc, task, runs, preempts>>
    BY <1>5 DEF Put, QueueFree, workers, counts, Coming
  <2>3. ASSUME NEW x \in Tasks PROVE InOnePlace(x)' /\ RunsInv(x)' /\ NotLost(x)'
    <3>1. InOnePlace(x) /\ RunsInv(x) /\ NotLost(x)
      BY DEF Waiting
    <3>2. CASE x = t
      BY <2>1, <2>2, <3>1, <3>2
      DEF InOnePlace, RunsInv, NotLost, Waits, Got, Holds, Coming, TypeOK
    <3>3. CASE x # t
      BY <2>1, <2>2, <3>1, <3>3
      DEF InOnePlace, RunsInv, NotLost, Waits, Got, Holds, Coming, TypeOK
    <3> QED
      BY <3>2, <3>3
  <2> QED
    BY <2>3 DEF Waiting
<1> QED
  BY <1>1, <1>2, <1>3, <1>4, <1>5 DEF Submitting

LEMMA WaitingWorker ==
    ASSUME TypeInv, Books, Waiting, NEW w \in Workers, Take(w) \/ Working(w)
    PROVE  Waiting'
<1> USE DEF TypeInv
<1>1. CASE Take(w)
  <2> PICK t : t = Head(queue)
    OBVIOUS
  <2>1. queue \in Seq(Tasks) /\ queue # <<>> /\ NoRepeats(queue)
    BY <1>1 DEF Take, TypeOK, Books, BooksAgree, NoRepeats
  <2>2. t \in Tasks /\ t \in Range(queue) /\ Range(queue') = Range(queue) \ {t}
    BY <1>1, <2>1, TailKeeps DEF Take, Popped
  <2>3. arriving[t] = "put" /\ victim = {}
    BY <1>1, <2>2 DEF Books, Take, QueueFree
  <2>4. /\ UNCHANGED <<arriving, victim, runs, preempts>>
        /\ pc[w] = "idle" /\ pc'[w] = "got" /\ task'[w] = t
        /\ \A y \in Workers : y # w => pc'[y] = pc[y] /\ task'[y] = task[y]
    BY <1>1 DEF Take, counts, TypeOK
  <2>5. /\ \A x \in Tasks : x # t => status'[x] = status[x]
        /\ status'[t] = IF status[t] = "checkpointed" THEN "queued" ELSE status[t]
    BY <1>1, <2>2 DEF Take, TypeOK
  <2>6. ASSUME NEW x \in Tasks PROVE InOnePlace(x)' /\ RunsInv(x)' /\ NotLost(x)'
    <3>1. InOnePlace(x) /\ RunsInv(x) /\ NotLost(x)
      BY DEF Waiting
    <3>2. CASE x = t
      <4>1. \A y \in Workers : ~Got(y, t)
        BY <2>2, <3>1, <3>2 DEF InOnePlace
      <4>2. \A y \in Workers : Got(y, t)' <=> y = w
        BY <2>4, <4>1 DEF Got, Holds
      <4>3. Waits(t) /\ Waits(t)'
        BY <2>2, <4>2 DEF Waits
      <4>4. InOnePlace(t)'
        BY <2>2, <2>3, <2>4, <2>5, <3>1, <3>2, <4>2, <4>3 DEF InOnePlace, Coming
      <4>5. RunsInv(t)' /\ NotLost(t)'
        BY <2>3, <2>4, <2>5, <3>1, <3>2, <4>3 DEF RunsInv, NotLost, Coming
      <4> QED
        BY <3>2, <4>4, <4>5
    <3>3. CASE x # t
      <4>1. \A y \in Workers : Got(y, x)' <=> Got(y, x)
        BY <2>4, <3>3 DEF Got, Holds
      <4>2. (Waits(x)' <=> Waits(x)) /\ (Coming(x)' <=> Coming(x))
        BY <2>2, <2>4, <3>3, <4>1 DEF Waits, Coming
      <4> QED
        BY <2>2, <2>4, <2>5, <3>1, <3>3, <4>1, <4>2 DEF InOnePlace, RunsInv, NotLost
    <3> QED
      BY <3>2, <3>3
  <2> QED
    BY <2>6 DEF Waiting
<1>2. CASE Start(w)
  <2> PICK t : t = task[w]
    OBVIOUS
  <2>1. /\ t \in Tasks /\ Got(w, t) /\ UNCHANGED <<queue, arriving, victim, task, preempts>>
        /\ pc'[w] = "calling" /\ \A y \in Workers : y # w => pc'[y] = pc[y]
    BY <1>2 DEF Start, Goes, Got, Holds, heap, TypeOK
  <2>2. /\ status'[t] = "running" /\ runs'[t] = runs[t] + 1
        /\ \A x \in Tasks : x # t => status'[x] = status[x] /\ runs'[x] = runs[x]
    BY <1>2, <2>1 DEF Start, Goes, TypeOK
  <2>3. ASSUME NEW x \in Tasks PROVE InOnePlace(x)' /\ RunsInv(x)' /\ NotLost(x)'
    <3>1. InOnePlace(x) /\ RunsInv(x) /\ NotLost(x)
      BY DEF Waiting
    <3>2. CASE x = t
      <4>1. t \notin Range(queue) /\ arriving[t] = "put" /\ \A y \in Workers : Got(y, t) => y = w
        BY <2>1, <3>1, <3>2 DEF InOnePlace
      <4>2. \A y \in Workers : ~Got(y, t)'
        BY <2>1, <4>1 DEF Got, Holds
      <4>3. ~Coming(t)' /\ ~Waits(t)'
        BY <2>1, <4>1, <4>2 DEF Waits, Coming
      <4>4. Waits(t) /\ runs[t] \in Nat /\ preempts[t] \in Nat
        BY <2>1 DEF Waits, TypeOK
      <4>5. InOnePlace(t)' /\ NotLost(t)'
        BY <2>2, <4>2, <4>3 DEF InOnePlace, NotLost
      <4>6. RunsInv(t)'
        BY <2>1, <2>2, <3>1, <3>2, <4>3, <4>4 DEF RunsInv
      <4> QED
        BY <3>2, <4>5, <4>6
    <3>3. CASE x # t
      <4>1. \A y \in Workers : Got(y, x)' <=> Got(y, x)
        BY <2>1, <3>3 DEF Got, Holds
      <4>2. (Waits(x)' <=> Waits(x)) /\ (Coming(x)' <=> Coming(x))
        BY <2>1, <4>1 DEF Waits, Coming
      <4> QED
        BY <2>1, <2>2, <3>1, <3>3, <4>1, <4>2 DEF InOnePlace, RunsInv, NotLost
    <3> QED
      BY <3>2, <3>3
  <2> QED
    BY <2>3 DEF Waiting
<1>3. CASE Block(w) \/ Outcome(w) \/ SaveOutcome(w) \/ Tell(w) \/ MarkDone(w)
  <2>1. UNCHANGED <<queue, arriving, victim, runs, preempts>>
    BY <1>3 DEF Block, Outcome, Answer, LastChunk, BreakOff, Fail, SaveOutcome, Tell, MarkDone,
                heap, counts
  <2>2. /\ pc'[w] # "got" /\ \A y \in Workers : y # w => pc'[y] = pc[y] /\ task'[y] = task[y]
    BY <1>3 DEF Block, Outcome, Answer, LastChunk, BreakOff, Fail, SaveOutcome, Tell, MarkDone,
                Goes, TypeOK
  <2>3. \A x \in Tasks : \/ status'[x] = status[x] /\ (pc[w] # "got" \/ task[w] # x)
                         \/ status'[x] \in Final
    <3>1. CASE Block(w)
      BY <3>1 DEF Block, Goes, Final, TypeOK
    <3>2. CASE Answer(w) \/ LastChunk(w) \/ Fail(w)
      BY <3>2 DEF Answer, LastChunk, Fail, Goes, StreamOutcome, Final, TypeOK
    <3>3. CASE BreakOff(w)
      BY <3>3 DEF BreakOff, Goes, StreamOutcome, Final, TypeOK
    <3>4. CASE SaveOutcome(w) \/ Tell(w) \/ MarkDone(w)
      BY <3>4 DEF SaveOutcome, Tell, MarkDone, MayTell
    <3> QED
      BY <1>3, <3>1, <3>2, <3>3, <3>4 DEF Outcome
  <2>4. ASSUME NEW x \in Tasks PROVE InOnePlace(x)' /\ RunsInv(x)' /\ NotLost(x)'
    <3>1. InOnePlace(x) /\ RunsInv(x) /\ NotLost(x)
      BY DEF Waiting
    <3>2. \A y \in Workers : Got(y, x)' => Got(y, x)
      BY <2>2 DEF Got, Holds
    <3>3. \A y \in Workers : y # w => (Got(y, x)' <=> Got(y, x))
      BY <2>2 DEF Got, Holds
    <3>4. (Waits(x)' => Waits(x)) /\ (Coming(x)' <=> Coming(x))
      BY <2>1, <3>2 DEF Waits, Coming
    <3>5. CASE status'[x] = status[x] /\ ~Got(w, x)
      <4>1. Waits(x) => Waits(x)'
        BY <2>1, <3>3, <3>5 DEF Waits
      <4> QED
        BY <2>1, <3>1, <3>2, <3>4, <3>5, <4>1 DEF InOnePlace, RunsInv, NotLost
    <3>6. CASE status'[x] \in Final
      BY <2>1, <3>1, <3>2, <3>4, <3>6 DEF InOnePlace, RunsInv, NotLost, Final
    <3> QED
      BY <2>3, <3>5, <3>6 DEF Got, Holds
  <2> QED
    BY <2>4 DEF Waiting
<1> QED
  BY <1>1, <1>2, <1>3 DEF Working

LEMMA WaitingStep ==
    ASSUME TypeInv, Books, Waiting, [Next]_vars
    PROVE  Waiting'
<1>1. ASSUME NEW t \in Tasks, CancelWaiting(t) PROVE Waiting'
  <2>1. /\ status[t] # "new" /\ status' = [status EXCEPT ![t] = "cancelled"]
        /\ UNCHANGED <<queue, arriving, victim, pc, task, runs, preempts>>
    BY <1>1 DEF CancelWaiting, heap, workers
  <2>2. ASSUME NEW x \in Tasks PROVE InOnePlace(x)' /\ RunsInv(x)' /\ NotLost(x)'
    BY <2>1 DEF Waiting, InOnePlace, RunsInv, NotLost, Waits, Got, Holds, Coming, TypeInv, TypeOK
  <2> QED
    BY <2>2 DEF Waiting
<1>2. ASSUME NEW t \in Tasks, CancelRunning(t) PROVE Waiting'
  BY <1>2 DEF CancelRunning, heap, workers, counts, Waiting, InOnePlace, RunsInv, NotLost,
              Waits, Got, Holds, Coming
<1>3. CASE Restart
  <2>1. /\ queue' = <<>> /\ victim' = {} /\ UNCHANGED <<runs, preempts>>
        /\ \A w \in Workers : pc'[w] = "idle"
        /\ \A t \in Tasks : arriving'[t] = "none"
    BY <1>3 DEF Restart
  <2>2. \A t \in Tasks : \/ status'[t] \in Final \cup {"forgotten"}
                         \/ status'[t] = "new" /\ status[t] = "new"
    <3>1. \A t \in Tasks : disk[t] # "none" => Reloaded(disk[t]) \in Final
      BY DEF TypeInv, TypeOK, Reloaded, Final
    <3> QED
      BY <1>3, <3>1 DEF Restart
  <2>3. ASSUME NEW x \in Tasks PROVE InOnePlace(x)' /\ RunsInv(x)' /\ NotLost(x)'
    <3>1. InOnePlace(x) /\ RunsInv(x) /\ NotLost(x)
      BY DEF Waiting
    <3>2. ~Waits(x)' /\ ~Coming(x)' /\ \A w \in Workers : ~Got(w, x)'
      BY <2>1 DEF Waits, Coming, Got, Range
    <3> QED
      BY <2>1, <2>2, <3>1, <3>2 DEF InOnePlace, RunsInv, NotLost, Final
  <2> QED
    BY <2>3 DEF Waiting
<1>4. CASE UNCHANGED vars
  BY <1>4 DEF vars, heap, workers, counts, Waiting, InOnePlace, RunsInv, NotLost,
              Waits, Got, Holds, Coming
<1> QED
  BY <1>1, <1>2, <1>3, <1>4, WaitingSubmit, WaitingWorker DEF Next

LEMMA WaitingAlways == Spec => [](TypeInv /\ Books /\ Waiting)
<1>1. Init => TypeInv /\ Books /\ Waiting
  <2>1. Init => Books
    BY DEF Init, Books, BooksAgree, Range
  <2>2. Init => Waiting
    BY DEF Init, Waiting, InOnePlace, RunsInv, NotLost, Waits, Got, Holds, Coming, Range
  <2> QED
    BY <2>1, <2>2, InitTypes
<1>2. (TypeInv /\ Books /\ Waiting) /\ [Next]_vars => (TypeInv /\ Books /\ Waiting)'
  BY TypeStep, BooksStep, WaitingStep
<1> QED
  BY <1>1, <1>2, PTL DEF Spec

\* No task is lost, whatever is preempted, cancelled or cut off by a restart: one
\* that says it waits is in submit(), in the queue, or with the worker that took
\* it and is about to run it.
THEOREM NothingIsLost == Spec => []NoTaskIsLost
<1>1. Waiting => NoTaskIsLost
  BY DEF Waiting, NotLost, Waits, Got, Coming, NoTaskIsLost
<1> QED
  BY <1>1, WaitingAlways, PTL

\* The model is given a task once, and once more for each preemption, although a
\* preempted task is queued again while its worker goes on with it.
THEOREM Accounted == Spec => []RunsAreAccounted
<1>1. Waiting => RunsAreAccounted
  BY DEF Waiting, RunsInv, RunsAreAccounted
<1> QED
  BY <1>1, WaitingAlways, PTL

-----------------------------------------------------------------------------
(* What was told stays true. *)

Durable(t) ==
    \E s \in Final : sent[t] = <<s>> /\ status[t] \in {s, "forgotten"} /\ disk[t] \in {s, "none"}

\* What a worker that holds a task, which was never preempted, knows of it.
Knows(w, t) ==
    /\ pc[w] # "told" => sent[t] = <<>>
    /\ pc[w] = "calling" => status[t] = "running"
    /\ pc[w] \in {"blocked", "ended", "saved", "told"} => status[t] \in Final
    /\ pc[w] = "saved" => disk[t] \in {status[t], "none"}

\* A task that was never preempted is held by one worker, after it has waited,
\* and told of when that worker has saved it.
Fresh(t) == Coming(t) \/ t \in Range(queue) \/ status[t] = "new"

ToldInv(t) ==
    preempts[t] = 0 =>
        /\ Fresh(t) => sent[t] = <<>> /\ \A w \in Workers : ~Holds(w, t)
        /\ \A w, x \in Workers : Holds(w, t) /\ Holds(x, t) => w = x
        /\ \A w \in Workers : Holds(w, t) => Knows(w, t)
        /\ sent[t] # <<>> => Durable(t)

Told == \A t \in Tasks : ToldInv(t)

\* What a save, or none, may do to the entry of t.
Saved(t) == disk'[t] = "none" \/ (disk'[t] = OnDisk(status'[t]) /\ status'[t] \in Open \cup Final)
Entry(t) == disk'[t] = disk[t] \/ Saved(t)

LEMMA SavedEntry ==
    ASSUME NEW l \in Seq(Tasks), status' \in [Tasks -> Statuses],
           \A t \in Range(l) : status'[t] \in Open \cup Final,
           SaveTasks(l, status')
    PROVE  \A t \in Tasks : Saved(t)
<1> DEFINE k == Kept(l)
<1>1. \A t \in Range(k) : t \in Range(l)
  <2>1. Len(l) \in Nat /\ DOMAIN l = 1..Len(l) /\ MaxTasks \in Nat
    BY BoundsAssumption
  <2>2. CASE Len(l) <= MaxTasks
    BY <2>2 DEF Kept
  <2>3. CASE Len(l) > MaxTasks
    <3> DEFINE m == Len(l) - MaxTasks
    <3>1. k = SubSeq(l, m + 1, Len(l)) /\ m \in Nat
      BY <2>3, <2>1 DEF Kept
    <3>2. k \in Seq(Tasks) /\ Len(k) = MaxTasks /\ \A i \in 1..MaxTasks : k[i] = l[m + i]
      BY <3>1, <2>3, <2>1
    <3>3. \A i \in 1..MaxTasks : m + i \in DOMAIN l
      BY <2>3, <2>1
    <3>4. DOMAIN k = 1..MaxTasks
      BY <3>2
    <3> QED
      BY <3>2, <3>3, <3>4 DEF Range
  <2> QED
    BY <2>1, <2>2, <2>3
<1>2. disk' = [t \in Tasks |-> IF t \in Range(k) THEN OnDisk(status'[t]) ELSE "none"]
  BY DEF SaveTasks
<1> HIDE DEF k
<1> QED
  BY <1>1, <1>2 DEF Saved

\* A step that does nothing to t but save it, or take it out of the queue or out
\* of a worker's hands, keeps what is known of it.
LEMMA ToldKept ==
    ASSUME NEW t \in Tasks, ToldInv(t), Entry(t),
           UNCHANGED <<status[t], sent[t], preempts[t]>>,
           Fresh(t)' => Fresh(t),
           \A w \in Workers : Holds(w, t)' => Holds(w, t) /\ pc'[w] = pc[w]
    PROVE  ToldInv(t)'
<1>1. ASSUME preempts[t] = 0
      PROVE  /\ (Fresh(t) => sent[t] = <<>> /\ \A w \in Workers : ~Holds(w, t))'
             /\ (\A w, x \in Workers : Holds(w, t) /\ Holds(x, t) => w = x)'
  BY <1>1 DEF ToldInv
<1>2. ASSUME preempts[t] = 0, NEW w \in Workers, Holds(w, t)' PROVE Knows(w, t)'
  <2>1. Holds(w, t) /\ Knows(w, t) /\ pc'[w] = pc[w]
    BY <1>2 DEF ToldInv
  <2> QED
    BY <2>1 DEF Knows, Entry, Saved, OnDisk, Open, Final
<1>3. ASSUME preempts[t] = 0, sent[t] # <<>> PROVE Durable(t)'
  <2>1. PICK s \in Final : sent[t] = <<s>> /\ status[t] \in {s, "forgotten"} /\ disk[t] \in {s, "none"}
    BY <1>3 DEF ToldInv, Durable
  <2>2. disk'[t] \in {s, "none"}
    BY <2>1 DEF Entry, Saved, OnDisk, Open, Final
  <2> QED
    BY <2>1, <2>2 DEF Durable
<1> QED
  BY <1>1, <1>2, <1>3 DEF ToldInv

\* A step of the worker that alone holds t, which was not told of.
LEMMA ToldByHolder ==
    ASSUME TypeInv, NEW w \in Workers, NEW t \in Tasks, Holds(w, t), ToldInv(t), pc[w] # "told",
           UNCHANGED <<preempts[t], sent[t]>>, Fresh(t)' => Fresh(t),
           \A x \in Workers : x # w => (Holds(x, t)' <=> Holds(x, t)),
           preempts[t] = 0 =>
               /\ pc'[w] = "calling" => status'[t] = "running"
               /\ pc'[w] \in {"blocked", "ended", "saved", "told"} => status'[t] \in Final
               /\ pc'[w] = "saved" => disk'[t] \in {status'[t], "none"}
    PROVE  ToldInv(t)'
<1> SUFFICES ASSUME preempts[t] = 0 PROVE ToldInv(t)'
  BY DEF ToldInv
<1>1. /\ sent[t] = <<>> /\ ~Fresh(t) /\ \A x \in Workers : Holds(x, t) => x = w
  BY DEF ToldInv, Knows
<1>2. \A x \in Workers : Holds(x, t)' => x = w
  BY <1>1
<1>3. Knows(w, t)'
  BY <1>1 DEF Knows
<1> QED
  BY <1>1, <1>2, <1>3 DEF ToldInv

\* Appending a task lists that task and no other.
LEMMA RangeOfAppend ==
    ASSUME NEW l \in Seq(Tasks), NEW t \in Tasks
    PROVE  /\ Append(l, t) \in Seq(Tasks)
           /\ \A x \in Range(Append(l, t)) : x \in Range(l) \/ x = t
  BY DEF Range

LEMMA ToldSubmit ==
    ASSUME TypeInv, Books, Waiting, Told, NEW t \in Tasks, Submit(t) \/ Submitting(t)
    PROVE  Told'
<1>0. \A x \in Tasks : ToldInv(x)
  BY DEF Told
<1> USE DEF TypeInv, TypeOK
<1>1. CASE Submit(t)
  <2>1. /\ status[t] = "new" /\ status' = [status EXCEPT ![t] = "queued"]
        /\ arriving' = [arriving EXCEPT ![t] = "listed"]
        /\ UNCHANGED <<queue, pc, task, sent, preempts>>
        /\ SaveTasks(Append(listed, t), status')
    BY <1>1 DEF Submit, heap, workers, counts
  <2>2. \A x \in Tasks : Saved(x)
    <3>1. /\ Append(listed, t) \in Seq(Tasks)
          /\ \A x \in Range(Append(listed, t)) : x \in Range(listed) \/ x = t
      BY RangeOfAppend
    <3>2. /\ status' \in [Tasks -> Statuses]
          /\ \A x \in Range(Append(listed, t)) : status'[x] \in Open \cup Final
      <4>1. status' \in [Tasks -> Statuses] /\ status'[t] \in Open
        BY <2>1 DEF Statuses, Open
      <4>2. \A x \in Range(listed) : x \in Tasks /\ status[x] \in Open \cup Final
        BY DEF ListedIsSaved, Range
      <4> QED
        BY <2>1, <3>1, <4>1, <4>2
    <3> QED
      BY <2>1, <3>1, <3>2, SavedEntry
  <2>3. ToldInv(t)'
    BY <1>0, <2>1 DEF ToldInv, Fresh, Coming, Holds
  <2>4. ASSUME NEW x \in Tasks \ {t} PROVE ToldInv(x)'
    BY <1>0, <2>1, <2>2, ToldKept DEF Entry, Fresh, Coming, Holds
  <2> QED
    BY <2>3, <2>4 DEF Told
<1>2. CASE CountRunning(t)
  <2>1. /\ UNCHANGED <<status, queue, pc, task, sent, preempts, disk>>
        /\ \A x \in Tasks : Coming(x)' => Coming(x)
    BY <1>2 DEF CountRunning, store, heap, workers, counts, Coming
  <2> QED
    BY <1>0, <2>1, ToldKept DEF Told, Entry, Fresh, Holds
<1>3. CASE ChooseVictim(t)
  <2>1. /\ UNCHANGED <<status, queue, pc, task, sent, preempts, disk>>
        /\ \A x \in Tasks : Coming(x)' => Coming(x)
    BY <1>3 DEF ChooseVictim, store, workers, counts, Coming
  <2> QED
    BY <1>0, <2>1, ToldKept DEF Told, Entry, Fresh, Holds
<1>4. ASSUME NEW v \in victim, Preempt(t, v) PROVE Told'
  <2>1. /\ v \in Tasks /\ UNCHANGED <<pc, task, sent, disk>>
        /\ queue' = Pushed(queue, v) /\ preempts' = [preempts EXCEPT ![v] = @ + 1]
        /\ status' = [status EXCEPT ![v] = "checkpointed"]
        /\ \A x \in Tasks : Coming(x)' => Coming(x)
    BY <1>4 DEF Preempt, Requeued, store, workers, Coming
  <2>2. Range(queue') = Range(queue) \cup {v}
    BY <2>1, PushedKeeps
  <2>3. ToldInv(v)'
    <3>1. preempts'[v] # 0
      BY <2>1
    <3> QED
      BY <3>1 DEF ToldInv
  <2>4. ASSUME NEW x \in Tasks \ {v} PROVE ToldInv(x)'
    BY <1>0, <2>1, <2>2, ToldKept DEF Entry, Fresh, Holds
  <2> QED
    BY <2>3, <2>4 DEF Told
<1>5. CASE Put(t)
  <2>1. /\ UNCHANGED <<status, pc, task, sent, preempts, disk>>
        /\ queue' = Pushed(queue, t) /\ Coming(t)
        /\ \A x \in Tasks : Coming(x)' => Coming(x)
    BY <1>5 DEF Put, store, workers, counts, Coming
  <2>2. Range(queue') = Range(queue) \cup {t}
    BY <2>1, PushedKeeps
  <2> QED
    BY <1>0, <2>1, <2>2, ToldKept DEF Told, Entry, Fresh, Holds
<1> QED
  BY <1>1, <1>2, <1>3, <1>4, <1>5 DEF Submitting

\* A step in which worker w goes on with its task, and nobody is told.
LEMMA ToldGoesOn ==
    ASSUME TypeInv, Told, NEW w \in Workers, pc[w] \notin {"idle", "told"}, NEW s \in Steps,
           pc' = [pc EXCEPT ![w] = s], s # "idle",
           UNCHANGED <<task, queue, arriving, sent, preempts>>,
           \A x \in Tasks : x # task[w] => status'[x] = status[x],
           \A x \in Tasks : Entry(x),
           status'[task[w]] = "new" => status[task[w]] = "new",
           preempts[task[w]] = 0 =>
               /\ s = "calling" => status'[task[w]] = "running"
               /\ s \in {"blocked", "ended", "saved", "told"} => status'[task[w]] \in Final
               /\ s = "saved" => disk'[task[w]] \in {status'[task[w]], "none"}
    PROVE  Told'
<1> PICK t : t = task[w]
  OBVIOUS
<1>1. t \in Tasks /\ Holds(w, t) /\ pc'[w] = s /\ \A x \in Workers \ {w} : pc'[x] = pc[x]
  BY DEF TypeInv, TypeOK, Holds
<1>2. \A x \in Tasks : ToldInv(x)
  BY DEF Told
<1>3. \A x \in Tasks : (Coming(x)' <=> Coming(x)) /\ \A y \in Workers \ {w} : (Holds(y, x)' <=> Holds(y, x))
  BY <1>1 DEF Coming, Holds
<1>4. ToldInv(t)'
  <2>1. Fresh(t)' => Fresh(t)
    BY <1>3, <1>1 DEF Fresh
  <2>2. preempts[t] = 0 =>
            /\ pc'[w] = "calling" => status'[t] = "running"
            /\ pc'[w] \in {"blocked", "ended", "saved", "told"} => status'[t] \in Final
            /\ pc'[w] = "saved" => disk'[t] \in {status'[t], "none"}
    BY <1>1
  <2> QED
    BY <1>1, <1>2, <1>3, <2>1, <2>2, ToldByHolder
<1>5. ASSUME NEW x \in Tasks \ {t} PROVE ToldInv(x)'
  <2>1. \A y \in Workers : Holds(y, x)' => Holds(y, x) /\ pc'[y] = pc[y]
    BY <1>1 DEF Holds
  <2>2. status'[x] = status[x]
    OBVIOUS
  <2> QED
    BY <1>2, <1>3, <2>1, <2>2, ToldKept DEF Fresh
<1> QED
  BY <1>4, <1>5 DEF Told

LEMMA ToldWorker ==
    ASSUME TypeInv, Books, Waiting, Told, NEW w \in Workers, Take(w) \/ Working(w)
    PROVE  Told'
<1>0. \A x \in Tasks : ToldInv(x)
  BY DEF Told
<1> USE DEF TypeInv, TypeOK
<1>1. CASE Take(w)
  <2> PICK t : t = Head(queue)
    OBVIOUS
  <2>1. queue \in Seq(Tasks) /\ queue # <<>> /\ NoRepeats(queue)
    BY <1>1 DEF Take, Books, BooksAgree, NoRepeats
  <2>2. t \in Tasks /\ t \in Range(queue) /\ Range(queue') = Range(queue) \ {t}
    BY <1>1, <2>1, TailKeeps DEF Take, Popped
  <2>3. arriving[t] = "put" /\ status[t] # "new"
    BY <2>2 DEF Books, Waiting, RunsInv
  <2>4. /\ UNCHANGED <<arriving, sent, preempts, disk>>
        /\ pc[w] = "idle" /\ pc'[w] = "got" /\ task'[w] = t
        /\ \A y \in Workers : y # w => pc'[y] = pc[y] /\ task'[y] = task[y]
    BY <1>1 DEF Take, store, counts
  <2>5. /\ \A x \in Tasks : x # t => status'[x] = status[x]
        /\ status'[t] # "new"
    BY <1>1, <2>2, <2>3 DEF Take
  <2>6. ToldInv(t)'
    <3>1. preempts[t] = 0 => sent[t] = <<>> /\ \A y \in Workers : ~Holds(y, t)
      BY <1>0, <2>2 DEF ToldInv, Fresh
    <3>2. ~Fresh(t)'
      BY <2>2, <2>3, <2>4, <2>5 DEF Fresh, Coming
    <3> QED
      BY <2>4, <3>1, <3>2 DEF ToldInv, Holds, Knows
  <2>7. ASSUME NEW x \in Tasks \ {t} PROVE ToldInv(x)'
    <3>1. Fresh(x)' => Fresh(x)
      BY <2>2, <2>4, <2>5 DEF Fresh, Coming
    <3>2. \A y \in Workers : Holds(y, x)' => Holds(y, x) /\ pc'[y] = pc[y]
      BY <2>4 DEF Holds
    <3> QED
      BY <1>0, <2>4, <2>5, <3>1, <3>2, ToldKept DEF Entry
  <2> QED
    BY <2>6, <2>7 DEF Told
<1>a. ASSUME preempts[task[w]] = 0, pc[w] # "idle" PROVE Knows(w, task[w])
  BY <1>0, <1>a DEF ToldInv, Holds
<1>b. UNCHANGED disk => \A x \in Tasks : Entry(x)
  BY DEF Entry
<1>2. CASE Block(w)
  <2>1. /\ pc[w] = "got" /\ pc' = [pc EXCEPT ![w] = "blocked"]
        /\ status' = [status EXCEPT ![task[w]] = "failed"]
        /\ UNCHANGED <<task, queue, arriving, sent, preempts, disk>>
    BY <1>2 DEF Block, Goes, store, heap, counts
  <2> QED
    BY <1>b, <2>1, ToldGoesOn DEF Steps, Final
<1>3. CASE Start(w)
  <2>1. /\ pc[w] = "got" /\ pc' = [pc EXCEPT ![w] = "calling"]
        /\ status' = [status EXCEPT ![task[w]] = "running"]
        /\ UNCHANGED <<task, queue, arriving, sent, preempts, disk>>
    BY <1>3 DEF Start, Goes, store, heap
  <2> QED
    BY <1>b, <2>1, ToldGoesOn DEF Steps
<1>4. CASE Outcome(w)
  <2> DEFINE Ends(s) ==
        /\ pc[w] \in {"calling", "ended"} /\ pc' = [pc EXCEPT ![w] = "ended"]
        /\ status' = [status EXCEPT ![task[w]] = s]
        /\ \/ s \in Final
           \/ s = status[task[w]] /\ pc[w] = "calling" /\ status[task[w]] # "running"
        /\ UNCHANGED <<task, queue, arriving, sent, preempts, disk>>
  <2>1. \E s : Ends(s)
    <3>1. CASE Answer(w)
      <4>1. Ends("done")
        BY <3>1 DEF Answer, Goes, Final, store, heap, counts
      <4> QED
        BY <4>1
    <3>2. StreamOutcome(task[w]) \in Final
      BY DEF StreamOutcome, Final
    <3>3. CASE LastChunk(w)
      <4>1. Ends(StreamOutcome(task[w]))
        BY <3>2, <3>3 DEF LastChunk, Goes, store, heap, counts
      <4> QED
        BY <4>1
    <3>4. CASE BreakOff(w) /\ status[task[w]] = "running"
      <4>1. Ends(StreamOutcome(task[w]))
        BY <3>2, <3>4 DEF BreakOff, Goes, store, heap, counts
      <4> QED
        BY <4>1
    <3>5. CASE BreakOff(w) /\ status[task[w]] # "running"
      <4>1. Ends(status[task[w]])
        BY <3>5 DEF BreakOff, Goes, store, heap, counts
      <4> QED
        BY <4>1
    <3>6. CASE Fail(w)
      <4>1. Ends("failed")
        BY <3>6 DEF Fail, Goes, Final, store, heap, counts
      <4> QED
        BY <4>1
    <3> QED
      BY <1>4, <3>1, <3>3, <3>4, <3>5, <3>6 DEF Outcome
  <2>a. PICK s : Ends(s)
    BY <2>1
  <2>2. preempts[task[w]] = 0 => s \in Final
    BY <1>a, <2>a DEF Knows
  <2>3. status'[task[w]] = s /\ (s = "new" => status[task[w]] = "new")
    BY <2>a DEF Final
  <2> QED
    BY <1>b, <2>a, <2>2, <2>3, ToldGoesOn DEF Steps
<1>5. CASE SaveOutcome(w)
  <2>1. /\ pc[w] \in {"ended", "blocked"} /\ UNCHANGED <<status, task, queue, arriving, sent, preempts>>
        /\ pc' = [pc EXCEPT ![w] = IF pc[w] = "ended" THEN "saved" ELSE "told"]
        /\ SaveTasks(listed, status')
    BY <1>5 DEF SaveOutcome, heap, counts
  <2>2. \A x \in Tasks : Saved(x)
    BY <2>1, SavedEntry DEF ListedIsSaved
  <2>3. \A x \in Tasks : Entry(x)
    BY <2>2 DEF Entry
  <2>4. preempts[task[w]] = 0 => status[task[w]] \in Final /\ disk'[task[w]] \in {status'[task[w]], "none"}
    BY <1>a, <2>1, <2>2 DEF Knows, Saved, OnDisk, Final, Open
  <2>5. CASE pc[w] = "ended"
    BY <2>1, <2>3, <2>4, <2>5, ToldGoesOn DEF Steps
  <2>6. CASE pc[w] = "blocked"
    BY <2>1, <2>3, <2>4, <2>6, ToldGoesOn DEF Steps
  <2> QED
    BY <2>1, <2>5, <2>6
<1>6. CASE Tell(w)
  <2> PICK t : t = task[w]
    OBVIOUS
  <2>1. /\ pc[w] = "saved" /\ pc'[w] = "told" /\ \A y \in Workers \ {w} : pc'[y] = pc[y]
        /\ t \in Tasks /\ sent' = [sent EXCEPT ![t] = Append(@, status[t])]
        /\ UNCHANGED <<status, queue, arriving, task, preempts, disk>>
    BY <1>6 DEF Tell, MayTell, store, heap
  <2>2. \A x \in Tasks : (Fresh(x)' <=> Fresh(x)) /\ \A y \in Workers : (Holds(y, x)' <=> Holds(y, x))
    BY <2>1 DEF Fresh, Coming, Holds
  <2>3. Holds(w, t)
    BY <2>1 DEF Holds
  <2>4. ToldInv(t)'
    <3> SUFFICES ASSUME preempts[t] = 0 PROVE ToldInv(t)'
      BY <2>1 DEF ToldInv
    <3>1. /\ sent[t] = <<>> /\ status[t] \in Final /\ disk[t] \in {status[t], "none"}
          /\ ~Fresh(t) /\ \A y \in Workers : Holds(y, t) => y = w
      BY <1>0, <2>1, <2>3 DEF ToldInv, Knows
    <3>2. sent'[t] = <<status[t]>>
      BY <2>1, <3>1
    <3>3. Durable(t)'
      BY <2>1, <3>1, <3>2 DEF Durable
    <3>4. Knows(w, t)'
      BY <2>1, <3>1 DEF Knows
    <3> QED
      BY <2>2, <3>1, <3>3, <3>4 DEF ToldInv
  <2>5. ASSUME NEW x \in Tasks \ {t} PROVE ToldInv(x)'
    <3>1. \A y \in Workers : Holds(y, x)' => Holds(y, x) /\ pc'[y] = pc[y]
      BY <2>1, <2>2 DEF Holds
    <3>2. sent'[x] = sent[x]
      BY <2>1
    <3> QED
      BY <1>0, <2>1, <2>2, <3>1, <3>2, ToldKept DEF Entry
  <2> QED
    BY <2>4, <2>5 DEF Told
<1>7. CASE MarkDone(w)
  <2>1. /\ pc'[w] = "idle" /\ \A y \in Workers \ {w} : pc'[y] = pc[y] /\ task'[y] = task[y]
        /\ UNCHANGED <<status, queue, arriving, sent, preempts, disk>>
    BY <1>7 DEF MarkDone, store, counts
  <2>2. \A x \in Tasks : (Fresh(x)' <=> Fresh(x)) /\ \A y \in Workers : Holds(y, x)' => Holds(y, x) /\ pc'[y] = pc[y]
    BY <2>1 DEF Fresh, Coming, Holds
  <2> QED
    BY <1>0, <2>1, <2>2, ToldKept DEF Told, Entry
<1> QED
  BY <1>1, <1>2, <1>3, <1>4, <1>5, <1>6, <1>7 DEF Working

LEMMA ToldUpset ==
    ASSUME TypeInv, Told, Restart \/ \E t \in Tasks : CancelWaiting(t) \/ CancelRunning(t)
    PROVE  Told'
<1>0. \A x \in Tasks : ToldInv(x)
  BY DEF Told
<1> USE DEF TypeInv, TypeOK
<1>1. ASSUME NEW t \in Tasks, CancelWaiting(t) PROVE Told'
  <2>1. /\ status[t] \in {"queued", "checkpointed"} /\ status' = [status EXCEPT ![t] = "cancelled"]
        /\ SaveTasks(listed, status') /\ UNCHANGED <<arriving, queue, pc, task, sent, preempts>>
    BY <1>1 DEF CancelWaiting, heap, workers
  <2>2. \A x \in Tasks : Saved(x)
    <3>1. status' \in [Tasks -> Statuses] /\ \A x \in Range(listed) : status'[x] \in Open \cup Final
      BY <2>1 DEF ListedIsSaved, Statuses, Final
    <3> QED
      BY <2>1, <3>1, SavedEntry
  <2>3. \A x \in Tasks : (Coming(x)' <=> Coming(x)) /\ \A y \in Workers : (Holds(y, x)' <=> Holds(y, x))
    BY <2>1 DEF Coming, Holds
  <2>4. ToldInv(t)'
    <3> SUFFICES ASSUME preempts[t] = 0 PROVE ToldInv(t)'
      BY <2>1 DEF ToldInv
    <3>1. /\ Fresh(t) => sent[t] = <<>> /\ \A y \in Workers : ~Holds(y, t)
          /\ \A y, x \in Workers : Holds(y, t) /\ Holds(x, t) => y = x
          /\ \A y \in Workers : Holds(y, t) => Knows(y, t)
      BY <1>0 DEF ToldInv
    <3>2. sent[t] = <<>>
      BY <1>0, <2>1 DEF ToldInv, Durable, Final
    <3>3. Fresh(t)' => Fresh(t)
      BY <2>1, <2>3 DEF Fresh
    <3>4. ASSUME NEW y \in Workers, Holds(y, t)' PROVE Knows(y, t)'
      <4>1. Knows(y, t)
        BY <2>3, <3>1, <3>4
      <4>2. pc[y] \notin {"calling", "blocked", "ended", "saved", "told"}
        BY <2>1, <4>1 DEF Knows, Final
      <4> QED
        BY <2>1, <3>2, <4>2 DEF Knows
    <3> QED
      BY <2>1, <2>3, <3>1, <3>2, <3>3, <3>4 DEF ToldInv
  <2>5. ASSUME NEW x \in Tasks \ {t} PROVE ToldInv(x)'
    <3>1. status'[x] = status[x] /\ (Fresh(x)' => Fresh(x))
      BY <2>1, <2>3 DEF Fresh
    <3> QED
      BY <1>0, <2>1, <2>2, <2>3, <3>1, ToldKept DEF Entry
  <2> QED
    BY <2>4, <2>5 DEF Told
<1>2. ASSUME NEW t \in Tasks, CancelRunning(t) PROVE Told'
  <2>1. UNCHANGED <<status, arriving, queue, pc, task, sent, preempts, disk>>
    BY <1>2 DEF CancelRunning, store, heap, workers, counts
  <2> QED
    BY <1>0, <2>1, ToldKept DEF Told, Entry, Fresh, Coming, Holds
<1>3. CASE Restart
  <2>1. PICK torn \in BOOLEAN :
          /\ disk' = [t \in Tasks |-> IF disk[t] # "none" /\ ~torn THEN disk[t] ELSE "none"]
          /\ status' = [t \in Tasks |-> IF disk[t] # "none" /\ ~torn THEN Reloaded(disk[t])
                                         ELSE IF status[t] = "new" THEN "new" ELSE "forgotten"]
    BY <1>3 DEF Restart
  <2>2. /\ \A t \in Tasks : arriving'[t] = "none"
        /\ queue' = <<>> /\ UNCHANGED <<sent, preempts>>
        /\ \A w \in Workers : pc'[w] = "idle"
    BY <1>3 DEF Restart
  <2>3. ASSUME NEW t \in Tasks, preempts[t] = 0 PROVE ToldInv(t)'
    <3>1. \A w \in Workers : ~Holds(w, t)'
      BY <2>2 DEF Holds
    <3>2. Fresh(t)' => status[t] = "new"
      <4>1. ~Coming(t)' /\ t \notin Range(queue')
        BY <2>2 DEF Coming, Range
      <4>2. Reloaded(disk[t]) # "new"
        BY DEF Reloaded, Final
      <4> QED
        BY <2>1, <4>1, <4>2 DEF Fresh
    <3>3. ASSUME sent[t] # <<>> PROVE Durable(t)'
      <4>1. PICK s \in Final : sent[t] = <<s>> /\ status[t] \in {s, "forgotten"} /\ disk[t] \in {s, "none"}
        BY <1>0, <2>3, <3>3 DEF ToldInv, Durable
      <4>2. status'[t] \in {s, "forgotten"} /\ disk'[t] \in {s, "none"}
        BY <2>1, <4>1 DEF Reloaded, Final
      <4> QED
        BY <2>2, <4>1, <4>2 DEF Durable
    <3>4. status[t] = "new" => sent[t] = <<>>
      BY <1>0, <2>3 DEF ToldInv, Fresh
    <3> QED
      BY <2>2, <3>1, <3>2, <3>3, <3>4 DEF ToldInv
  <2> QED
    BY <2>2, <2>3 DEF Told, ToldInv
<1> QED
  BY <1>1, <1>2, <1>3

LEMMA ToldStep ==
    ASSUME TypeInv, Books, Waiting, Told, [Next]_vars
    PROVE  Told'
<1>1. CASE UNCHANGED vars
  <2>1. UNCHANGED <<status, arriving, queue, pc, task, sent, preempts, disk>>
    BY <1>1 DEF vars, store, heap, workers, counts
  <2> QED
    BY <2>1, ToldKept DEF Told, Entry, Fresh, Coming, Holds
<1> QED
  BY <1>1, ToldSubmit, ToldWorker, ToldUpset DEF Next

\* What a submitter was told of a task that was never preempted was told once, is
\* what was saved before, and stays true over cancellations and restarts.
THEOREM Durability == Spec => []ToldIsDurable
<1>1. Init => Told
  BY DEF Init, Told, ToldInv, Fresh, Coming, Holds, Range
<1>2. TypeInv /\ Books /\ Waiting /\ Told /\ [Next]_vars => Told'
  BY ToldStep
<1>3. Told => ToldIsDurable
  BY DEF Told, ToldInv, Durable, ToldIsDurable
<1> QED
  BY <1>1, <1>2, <1>3, WaitingAlways, PTL DEF Spec
=============================================================================
