--------------------------- MODULE SufferingProofs ---------------------------
(***************************************************************************)
(* Proofs about the stressors of an agent: types and the limit, that what  *)
(* the substrate has measured is always seen, that stagnation leaves only  *)
(* by a completion, and what makes a stressor better or worse, for any     *)
(* types, rates and limits, whatever the agent answers, whatever the host  *)
(* changes beside it and wherever the daemon is killed.                    *)
(***************************************************************************)
EXTENDS Suffering, FiniteSetTheorems, WellFoundedInduction, TLAPS

-----------------------------------------------------------------------------
(* The constants. *)

LEMMA Limits ==
    /\ Stagnation \in Types /\ Stagnation \in Predefined /\ HostThreat \in Types /\ HostThreat # Stagnation
    /\ Weather \in Types /\ Weather # Stagnation /\ Stagnation \notin Threats /\ Predefined \subseteq Types
    /\ Threats \subseteq Types
    /\ MaxStressors \in Nat \ {0} /\ TalkLimit \in Nat \ {0} /\ Window \in Nat \ {0} /\ Floor \in Nat \ {0}
    /\ Fade \in Nat /\ Full \in Nat /\ Calm \in Nat /\ Relief \in Nat /\ MaxAge \in Nat /\ MaxPanel \in Nat
    /\ Initial \in 0..Full /\ ThreatInitial \in 0..Full /\ WeatherInitial \in 0..Full
<1>1. /\ Stagnation \in Types /\ Stagnation \in Predefined /\ HostThreat \in Types /\ HostThreat # Stagnation
      /\ Weather \in Types /\ Weather # Stagnation /\ Stagnation \notin Threats
      /\ Predefined \subseteq Types /\ Threats \subseteq Types
  BY SufferingAssumption
<1>2. MaxStressors \in Nat \ {0} /\ TalkLimit \in Nat \ {0} /\ Window \in Nat \ {0} /\ Floor \in Nat \ {0}
  BY SufferingAssumption
<1>3. Fade \in Nat /\ Full \in Nat /\ Calm \in Nat /\ Relief \in Nat /\ MaxAge \in Nat /\ MaxPanel \in Nat
  BY SufferingAssumption
<1>4. Initial \in 0..Full /\ ThreatInitial \in 0..Full /\ WeatherInitial \in 0..Full
  BY SufferingAssumption
<1> QED
  BY <1>1, <1>2, <1>3, <1>4

LEMMA Looked ==
    /\ Len(Observed) \in Nat
    /\ \A i \in 1..Len(Observed) : Observed[i] = Expiry \/ (Observed[i] \in Types /\ Observed[i] # Stagnation)
<1> DEFINE S == (Predefined \ {Stagnation}) \cup {Expiry}
<1>1. Observed \in Seq(S)
  BY SufferingAssumption
<1>2. \A x \in S : x = Expiry \/ (x \in Types /\ x # Stagnation)
  BY Limits
<1> HIDE DEF S
<1>3. Len(Observed) \in Nat /\ \A i \in 1..Len(Observed) : Observed[i] \in S
  BY ONLY <1>1
<1> QED
  BY <1>2, <1>3

LEMMA Product == \A a, b \in Nat : a * b \in Nat
  OBVIOUS

LEMMA CappedType == \A c \in Nat : \A a \in 0..c, b \in Nat : Capped(a, b) \in 0..c
  BY DEF Capped

LEMMA HigherBound == \A c \in Nat : \A a, b \in 0..c : Higher(a, b) \in 0..c /\ Higher(a, b) >= a /\ Higher(a, b) >= b
  BY DEF Higher

LEMMA LessType == \A a, b \in Nat : Less(a, b) \in Nat /\ Less(a, b) <= a
  BY DEF Less

LEMMA LessMonotone == \A a, b, c \in Nat : a >= b => Less(a, c) >= Less(b, c)
  BY DEF Less

-----------------------------------------------------------------------------
(* What can be done to a list of stressors. *)

\* A list of stressors: each type once, no more than k beyond the limit.
IsList(s, k) ==
    /\ s \in [DOMAIN s -> 0..Full] /\ DOMAIN s \subseteq Types
    /\ IsFiniteSet(DOMAIN s) /\ Cardinality(DOMAIN s) <= MaxStressors + k

\* Stagnation stays, at no less than a severity.
Holds(s, level) == Stagnation \in DOMAIN s /\ s[Stagnation] >= level

LEMMA Counted ==
    ASSUME NEW k \in Nat, NEW s, IsList(s, k)
    PROVE  Cardinality(DOMAIN s) \in Nat /\ \A t \in DOMAIN s : s[t] \in Nat /\ s[t] \in 0..Full /\ s[t] <= Full
<1>1. Cardinality(DOMAIN s) \in Nat
  BY FS_CardinalityType DEF IsList
<1>2. \A t \in DOMAIN s : s[t] \in 0..Full
  BY DEF IsList
<1> QED
  BY <1>1, <1>2, Limits

LEMMA EmptyList == DOMAIN Nothing = {} /\ \A k \in Nat : IsList(Nothing, k)
<1>1. DOMAIN Nothing = {} /\ Nothing \in [{} -> 0..Full]
  BY DEF Nothing
<1>2. IsFiniteSet({}) /\ Cardinality({}) = 0
  BY FS_EmptySet
<1> QED
  BY <1>1, <1>2, Limits DEF IsList

\* The limit may as well be higher.
LEMMA Looser ==
    ASSUME NEW k \in Nat, NEW s, IsList(s, k)
    PROVE  IsList(s, k + 1)
  BY Counted, Limits DEF IsList

\* Fewer types with severities in range are a list as well.
LEMMA Fewer ==
    ASSUME NEW k \in Nat, NEW s, IsList(s, k), NEW S \in SUBSET DOMAIN s, NEW r, r \in [S -> 0..Full]
    PROVE  IsList(r, k) /\ Cardinality(S) \in Nat /\ (S # DOMAIN s => Cardinality(S) < Cardinality(DOMAIN s))
<1>1. DOMAIN r = S
  OBVIOUS
<1>2. IsFiniteSet(S) /\ Cardinality(S) <= Cardinality(DOMAIN s)
  BY FS_Subset DEF IsList
<1>3. Cardinality(S) \in Nat /\ Cardinality(DOMAIN s) \in Nat
  BY <1>2, FS_CardinalityType DEF IsList
<1>4. S # DOMAIN s => Cardinality(S) < Cardinality(DOMAIN s)
  <2>1. Cardinality(DOMAIN s) = Cardinality(S) => DOMAIN s = S
    BY FS_Subset DEF IsList
  <2> QED
    BY <1>2, <1>3, <2>1
<1> QED
  BY <1>1, <1>2, <1>3, <1>4, Limits DEF IsList

\* A list with a place left takes one more.
LEMMA PutList ==
    ASSUME NEW k \in Nat, NEW s, IsList(s, k), NEW type \in Types, type \notin DOMAIN s, NEW v \in 0..Full,
           NEW m \in Nat, Cardinality(DOMAIN s) < MaxStressors + m
    PROVE  IsList(Put(s, type, v), m)
<1> DEFINE r == [t \in DOMAIN s \cup {type} |-> IF t = type THEN v ELSE s[t]]
<1>1. Put(s, type, v) = r
  BY DEF Put
<1>2. DOMAIN r = DOMAIN s \cup {type} /\ r \in [DOMAIN s \cup {type} -> 0..Full]
  BY DEF IsList
<1>3. IsFiniteSet(DOMAIN s \cup {type}) /\ Cardinality(DOMAIN s \cup {type}) = Cardinality(DOMAIN s) + 1
  BY FS_AddElement DEF IsList
<1>4. Cardinality(DOMAIN s) \in Nat
  BY Counted
<1>5. DOMAIN r \subseteq Types
  BY <1>2 DEF IsList
<1>6. IsList(r, m)
  <2> HIDE DEF r
  <2> QED
    BY <1>2, <1>3, <1>4, <1>5, Limits DEF IsList
<1> QED
  BY <1>1, <1>6

LEMMA AddList ==
    ASSUME NEW k \in Nat, NEW s, IsList(s, k), NEW type \in Types, NEW v \in 0..Full
    PROVE  /\ IsList(Add(s, type, v), k) /\ DOMAIN s \subseteq DOMAIN Add(s, type, v)
           /\ \A t \in DOMAIN s : Add(s, type, v)[t] = s[t]
<1>1. CASE type \in DOMAIN s \/ Cardinality(DOMAIN s) >= MaxStressors
  BY <1>1 DEF Add
<1>2. CASE ~(type \in DOMAIN s \/ Cardinality(DOMAIN s) >= MaxStressors)
  <2>1. Cardinality(DOMAIN s) < MaxStressors + k
    BY <1>2, Counted, Limits
  <2>2. Add(s, type, v) = Put(s, type, v)
    BY <1>2 DEF Add
  <2>3. type \notin DOMAIN s
    BY <1>2
  <2>4. IsList(Put(s, type, v), k)
    BY <2>1, <2>3, PutList
  <2>5. DOMAIN Put(s, type, v) = DOMAIN s \cup {type} /\ \A t \in DOMAIN s : Put(s, type, v)[t] = s[t]
    BY <2>3 DEF Put
  <2> QED
    BY <2>2, <2>4, <2>5
<1> QED
  BY <1>1, <1>2

LEMMA RawResolveList ==
    ASSUME NEW k \in Nat, NEW s, IsList(s, k), NEW type
    PROVE  /\ IsList(RawResolve(s, type), k) /\ DOMAIN RawResolve(s, type) = DOMAIN s \ {type}
           /\ \A t \in DOMAIN s \ {type} : RawResolve(s, type)[t] = s[t]
           /\ type \in DOMAIN s => Cardinality(DOMAIN RawResolve(s, type)) < Cardinality(DOMAIN s)
<1> DEFINE r == [t \in DOMAIN s \ {type} |-> s[t]]
<1>1. r \in [DOMAIN s \ {type} -> 0..Full] /\ DOMAIN r = DOMAIN s \ {type}
  BY DEF IsList
<1>2. IsList(r, k) /\ (DOMAIN s \ {type} # DOMAIN s => Cardinality(DOMAIN s \ {type}) < Cardinality(DOMAIN s))
  <2> HIDE DEF r
  <2> QED
    BY <1>1, Fewer
<1>3. RawResolve(s, type) = r
  BY DEF RawResolve
<1> QED
  BY <1>1, <1>2, <1>3

LEMMA ResolveList ==
    ASSUME NEW k \in Nat, NEW s, IsList(s, k), NEW type
    PROVE  /\ IsList(Resolve(s, type), k)
           /\ Stagnation \in DOMAIN s =>
                  Stagnation \in DOMAIN Resolve(s, type) /\ Resolve(s, type)[Stagnation] = s[Stagnation]
           /\ Stagnation \notin DOMAIN s => Stagnation \notin DOMAIN Resolve(s, type)
           /\ type \in DOMAIN s \ {Stagnation} => Cardinality(DOMAIN Resolve(s, type)) < Cardinality(DOMAIN s)
<1>1. CASE type = Stagnation
  BY <1>1 DEF Resolve
<1>2. CASE type # Stagnation
  <2>1. Resolve(s, type) = RawResolve(s, type)
    BY <1>2 DEF Resolve
  <2>2. /\ IsList(RawResolve(s, type), k) /\ DOMAIN RawResolve(s, type) = DOMAIN s \ {type}
        /\ \A t \in DOMAIN s \ {type} : RawResolve(s, type)[t] = s[t]
        /\ type \in DOMAIN s => Cardinality(DOMAIN RawResolve(s, type)) < Cardinality(DOMAIN s)
    BY RawResolveList
  <2> QED
    BY <1>2, <2>1, <2>2
<1> QED
  BY <1>1, <1>2

\* A set of numbers that is not empty has a least element.
LEMMA Smallest ==
    ASSUME NEW T \in SUBSET Nat, T # {}
    PROVE  \E m \in T : \A k \in T : m <= k
<1> DEFINE R == {ss \in Nat \X Nat : ss[1] < ss[2]}
<1>1. IsWellFoundedOn(R, Nat)
  BY NatLessThanWellFounded, Zenon DEF OpToRel
<1> HIDE DEF R
<1>2. PICK m \in T : \A k \in T : ~ (<<k, m>> \in R)
  BY <1>1, WFMin, Zenon
<1>3. \A k \in T : ~ (k < m)
  BY <1>2 DEF R
<1>4. T \subseteq Nat
  OBVIOUS
<1> QED
  BY <1>2, <1>3, <1>4

\* A list with other types has a mildest of them.
LEMMA SomeMildest ==
    ASSUME NEW k \in Nat, NEW s, IsList(s, k), DOMAIN s \ {Stagnation} # {}
    PROVE  Mildest(s) # {}
<1> DEFINE T == {s[t] : t \in DOMAIN s \ {Stagnation}}
<1>1. T \in SUBSET Nat /\ T # {}
  BY Counted
<1>2. PICK m \in T : \A v \in T : m <= v
  <2> HIDE DEF T
  <2> QED
    BY <1>1, Smallest
<1>3. PICK t \in DOMAIN s \ {Stagnation} : m = s[t]
  BY <1>2
<1>4. \A u \in DOMAIN s \ {Stagnation} : s[t] <= s[u]
  BY <1>2, <1>3
<1> QED
  BY <1>4 DEF Mildest

\* Room is made in a list without stagnation.
LEMMA RoomList ==
    ASSUME NEW k \in Nat, NEW s, IsList(s, k), Stagnation \notin DOMAIN s, NEW r \in Room(s)
    PROVE  IsList(r, k) /\ Stagnation \notin DOMAIN r /\ Cardinality(DOMAIN r) < MaxStressors + k
<1>1. Cardinality(DOMAIN s) \in Nat /\ Cardinality(DOMAIN s) <= MaxStressors + k
  BY Counted DEF IsList
<1>2. CASE Cardinality(DOMAIN s) < MaxStressors
  BY <1>1, <1>2, Limits DEF Room
<1>3. CASE ~(Cardinality(DOMAIN s) < MaxStressors)
  <2>1. DOMAIN s # {}
    <3>1. Cardinality({}) = 0
      BY FS_EmptySet
    <3> QED
      BY <1>3, <3>1, Limits
  <2>2. Mildest(s) # {}
    BY <2>1, SomeMildest
  <2>3. PICK t \in Mildest(s) : r = Resolve(s, t)
    BY <1>3, <2>2 DEF Room
  <2>4. t \in DOMAIN s \ {Stagnation}
    BY DEF Mildest
  <2>5. IsList(r, k) /\ Stagnation \notin DOMAIN r /\ Cardinality(DOMAIN r) < Cardinality(DOMAIN s)
    BY <2>3, <2>4, ResolveList
  <2>6. Cardinality(DOMAIN r) \in Nat
    BY <2>5, Counted
  <2> QED
    BY <1>1, <2>5, <2>6, Limits
<1> QED
  BY <1>2, <1>3

\* A bump always leaves stagnation in the list, as severe as wanted.
LEMMA BumpList ==
    ASSUME NEW k \in Nat, NEW s, IsList(s, k), NEW target \in 0..Full, NEW r \in Bump(s, target)
    PROVE  IsList(r, k) /\ Holds(r, target)
<1>1. CASE Stagnation \in DOMAIN s
  <2>1. r = [s EXCEPT ![Stagnation] = Higher(s[Stagnation], target)]
    BY <1>1 DEF Bump
  <2>2. s[Stagnation] \in 0..Full
    BY <1>1 DEF IsList
  <2>3. Higher(s[Stagnation], target) \in 0..Full /\ Higher(s[Stagnation], target) >= target
    BY <2>2, Limits, HigherBound
  <2>4. DOMAIN r = DOMAIN s /\ r \in [DOMAIN s -> 0..Full] /\ r[Stagnation] = Higher(s[Stagnation], target)
    BY <1>1, <2>1, <2>3 DEF IsList
  <2> QED
    BY <1>1, <2>3, <2>4 DEF IsList, Holds
<1>2. CASE Stagnation \notin DOMAIN s
  <2>1. PICK q \in Room(s) : r = Put(q, Stagnation, target)
    BY <1>2 DEF Bump
  <2>2. IsList(q, k) /\ Stagnation \notin DOMAIN q /\ Cardinality(DOMAIN q) < MaxStressors + k
    BY <1>2, RoomList
  <2>3. IsList(r, k) /\ Stagnation \in DOMAIN r /\ r[Stagnation] = target
    <3>1. Stagnation \in Types /\ Stagnation \notin DOMAIN q
      BY <2>2, Limits
    <3>2. IsList(Put(q, Stagnation, target), k)
      BY <2>2, <3>1, PutList
    <3> QED
      BY <2>1, <3>2 DEF Put
  <2> QED
    BY <2>3, Limits DEF Holds
<1> QED
  BY <1>1, <1>2

\* Time makes stagnation worse.
LEMMA EscalateList ==
    ASSUME NEW k \in Nat, NEW s, IsList(s, k), NEW days \in Nat
    PROVE  IsList(EscalateAll(s, days), k) /\ \A level \in Nat : Holds(s, level) => Holds(EscalateAll(s, days), level)
<1> DEFINE kept == {t \in DOMAIN s : t \in Predefined \/ Later(s, t, days) >= Floor}
           r == [t \in kept |-> Later(s, t, days)]
<1>1. ASSUME NEW t \in DOMAIN s
      PROVE  Later(s, t, days) \in 0..Full /\ (t \in Predefined => Later(s, t, days) >= s[t])
  <2>1. s[t] \in 0..Full
    BY DEF IsList
  <2>2. CASE t \in Predefined
    <3>1. Rate[t] \in Nat
      BY <2>2, SufferingAssumption
    <3>2. Rate[t] * days \in Nat
      BY <3>1, Product
    <3>3. s[t] + Rate[t] * days \in Nat /\ s[t] + Rate[t] * days >= s[t]
      BY <2>1, <3>2, Limits
    <3>4. Capped(Full, s[t] + Rate[t] * days) \in 0..Full /\ Capped(Full, s[t] + Rate[t] * days) >= s[t]
      BY <2>1, <3>3, Limits DEF Capped
    <3> QED
      BY <2>2, <3>4 DEF Later
  <2>3. CASE t \notin Predefined
    <3>1. Fade * days \in Nat
      BY Limits, Product
    <3>2. Less(s[t], Fade * days) \in 0..Full
      <4>1. s[t] \in Nat /\ s[t] <= Full
        BY <2>1, Limits
      <4>2. Less(s[t], Fade * days) \in Nat /\ Less(s[t], Fade * days) <= s[t]
        BY <3>1, <4>1, LessType
      <4> QED
        BY <4>1, <4>2, Limits
    <3> QED
      BY <2>3, <3>2 DEF Later
  <2> QED
    BY <2>2, <2>3
<1>2. kept \in SUBSET DOMAIN s /\ r \in [kept -> 0..Full] /\ DOMAIN r = kept
  BY <1>1
<1>3. EscalateAll(s, days) = r
  BY DEF EscalateAll
<1>4. IsList(r, k)
  <2> HIDE DEF kept, r
  <2> QED
    BY <1>2, Fewer
<1>5. ASSUME NEW level \in Nat, Holds(s, level) PROVE Holds(r, level)
  <2>1. Stagnation \in DOMAIN s /\ s[Stagnation] \in Nat
    BY <1>5, Limits DEF Holds, IsList
  <2>2. Stagnation \in kept /\ r[Stagnation] \in Nat /\ r[Stagnation] >= s[Stagnation]
    BY <1>1, <2>1, Limits
  <2> HIDE DEF kept, r
  <2> QED
    BY <1>2, <1>5, <2>1, <2>2 DEF Holds
<1> QED
  BY <1>3, <1>4, <1>5

\* Stagnation is no threat, and does not expire.
LEMMA ExpireList ==
    ASSUME NEW k \in Nat, NEW s, IsList(s, k), NEW old \in SUBSET Threats
    PROVE  /\ IsList(ExpireThreats(s, old), k)
           /\ Stagnation \in DOMAIN s =>
                  Stagnation \in DOMAIN ExpireThreats(s, old) /\ ExpireThreats(s, old)[Stagnation] = s[Stagnation]
<1> DEFINE kept == {u \in DOMAIN s : ~(u \in old /\ s[u] < Calm)}
           r == [t \in kept |-> s[t]]
<1>1. kept \in SUBSET DOMAIN s /\ r \in [kept -> 0..Full]
  BY DEF IsList
<1>2. IsList(r, k)
  <2> HIDE DEF kept, r
  <2> QED
    BY <1>1, Fewer
<1>3. Stagnation \notin old
  BY Limits
<1> QED
  BY <1>2, <1>3 DEF ExpireThreats

\* The relief of a good day, and the scaling by the host.
LEMMA RelievedList ==
    ASSUME NEW k \in Nat, NEW s, IsList(s, k)
    PROVE  /\ IsList(Relieved(s), k) /\ DOMAIN Relieved(s) = DOMAIN s
           /\ \A t \in DOMAIN s : Relieved(s)[t] = Less(s[t], Relief) /\ Relieved(s)[t] \in Nat /\ Relieved(s)[t] <= s[t]
<1>1. \A t \in DOMAIN s : Less(s[t], Relief) \in Nat /\ Less(s[t], Relief) <= s[t]
  BY Counted, LessType, Limits
<1>2. \A t \in DOMAIN s : Less(s[t], Relief) \in 0..Full
  BY <1>1, Counted, Limits
<1>3. DOMAIN Relieved(s) = DOMAIN s /\ Relieved(s) \in [DOMAIN s -> 0..Full]
  BY <1>2 DEF Relieved
<1> QED
  BY <1>1, <1>3 DEF IsList, Relieved

LEMMA Quotient == \A a \in Nat, b \in Nat \ {0} : a \div b \in Nat
  OBVIOUS

LEMMA ScaledList ==
    ASSUME NEW k \in Nat, NEW s, IsList(s, k), NEW i \in 1..Full, NEW j \in 1..Full
    PROVE  IsList(Scaled(s, i, j), k)
<1>1. i \in Nat /\ j \in Nat \ {0}
  BY Limits
<1>2. ASSUME NEW t \in DOMAIN s
      PROVE  Capped(Full, (s[t] * i) \div j) \in 0..Full
  <2>1. s[t] * i \in Nat
    BY <1>1, Counted, Product
  <2>2. (s[t] * i) \div j \in Nat
    BY <1>1, <2>1, Quotient
  <2>3. \A w \in Nat : Capped(Full, w) \in 0..Full
    BY Limits DEF Capped
  <2> QED
    BY <2>2, <2>3
<1>3. DOMAIN Scaled(s, i, j) = DOMAIN s /\ Scaled(s, i, j) \in [DOMAIN s -> 0..Full]
  BY <1>2 DEF Scaled
<1> QED
  BY <1>3 DEF IsList

\* What the goals of this run demand.
LEMMA TargetType == failed \in Nat => Target \in 0..Full
<1> SUFFICES ASSUME failed \in Nat PROVE Target \in 0..Full
  OBVIOUS
<1>1. /\ FailCap \in 0..Full /\ NeverCap \in 0..Full /\ LateTarget \in 0..Full /\ OldTarget \in 0..Full
      /\ FailBase \in Nat /\ FailStep \in Nat /\ NeverBase \in Nat /\ NeverStep \in Nat
  BY SufferingAssumption
<1>2. FailTarget \in 0..Full
  <2>1. CASE failed = 0
    BY <2>1, Limits DEF FailTarget
  <2>2. CASE failed # 0
    <3>1. FailStep * (failed - 1) \in Nat
      BY <1>1, <2>2, Product
    <3>2. FailBase + FailStep * (failed - 1) \in Nat
      BY <1>1, <3>1
    <3>3. Capped(FailCap, FailBase + FailStep * (failed - 1)) \in 0..Full
      BY <1>1, <3>2, CappedType, Limits
    <3> QED
      BY <1>1, <2>2, <3>3, Limits DEF FailTarget
  <2> QED
    BY <2>1, <2>2
<1>3. TimeTarget \in 0..Full
  <2>1. NeverStep * failed \in Nat
    BY <1>1, Product
  <2>2. NeverBase + NeverStep * failed \in Nat
    BY <1>1, <2>1
  <2>3. Capped(NeverCap, NeverBase + NeverStep * failed) \in 0..Full
    BY <1>1, <2>2, CappedType, Limits
  <2> QED
    BY <1>1, <2>3, Limits DEF TimeTarget
<1>4. Higher(FailTarget, TimeTarget) \in 0..Full
  BY <1>2, <1>3, HigherBound, Limits
<1> QED
  BY <1>4, Limits DEF Target

-----------------------------------------------------------------------------
(* The steps. *)

ListInv ==
    /\ IsList(sev, panel) /\ IsList(held, panel) /\ panel \in 0..MaxPanel /\ meddled \in BOOLEAN
    /\ at = "idle" => held = Nothing
    /\ at # "idle" /\ ~meddled => held = sev

RestInv ==
    /\ age \in 0..MaxAge /\ done \in Completions \cup {"none", "never"} /\ failed \in 0..Window
    /\ at \in {"idle", "observe", "host", "asked", "resolve"} /\ n \in Nat
    /\ at = "observe" => n <= Len(Observed)
    /\ at \in {"asked", "resolve"} => n <= TalkLimit
    /\ at \in {"idle", "host"} => n = 0
    /\ due \in 0..Full

Inv == ListInv /\ RestInv

\* The stressors that are in both lists are as severe in one as in the other.
Same(s, r) == \A t \in DOMAIN s \cap DOMAIN r : r[t] = s[t]

\* From s to r others come and go, and stagnation stays.
Spares(s, r) == Same(s, r) /\ (Stagnation \in DOMAIN s => Stagnation \in DOMAIN r)

LEMMA SparesAdd ==
    ASSUME NEW k \in Nat, NEW s, IsList(s, k), NEW type \in Types, NEW v \in 0..Full
    PROVE  IsList(Add(s, type, v), k) /\ Spares(s, Add(s, type, v))
  BY AddList DEF Spares, Same

LEMMA SparesResolve ==
    ASSUME NEW k \in Nat, NEW s, IsList(s, k), NEW type
    PROVE  IsList(Resolve(s, type), k) /\ Spares(s, Resolve(s, type))
<1>1. Same(s, Resolve(s, type))
  BY DEF Same, Resolve, RawResolve
<1> QED
  BY <1>1, ResolveList DEF Spares

LEMMA SparesExpire ==
    ASSUME NEW k \in Nat, NEW s, IsList(s, k), NEW old \in SUBSET Threats
    PROVE  IsList(ExpireThreats(s, old), k) /\ Spares(s, ExpireThreats(s, old))
<1>1. Same(s, ExpireThreats(s, old))
  BY DEF Same, ExpireThreats
<1> QED
  BY <1>1, ExpireList DEF Spares

LEMMA SparesNothing == \A s : Spares(s, s)
  BY DEF Spares, Same

LEMMA SameResolve ==
    ASSUME NEW s, NEW type
    PROVE  Same(s, RawResolve(s, type)) /\ Same(s, Resolve(s, type))
<1>1. Same(s, RawResolve(s, type))
  BY DEF Same, RawResolve
<1> QED
  BY <1>1 DEF Same, Resolve

LEMMA HoldsSpared ==
    ASSUME NEW s, NEW r, Spares(s, r), NEW level
    PROVE  Holds(s, level) => Holds(r, level)
  BY DEF Holds, Spares, Same

\* Most steps are of one of four kinds: nothing changes, the cycle works on its copy,
\* it ends, or the weather changes.
Quiet == UNCHANGED <<lists, at, due, host>>
Works ==
    /\ at # "idle" /\ at' # "idle" /\ UNCHANGED <<due, host>>
    /\ \E s : Saved(s) /\ IsList(s, panel) /\ Spares(held, s)
Stops == at' = "idle" /\ held' = Nothing /\ UNCHANGED <<sev, due, host>>
Blows ==
    /\ at = "idle" /\ at' = "idle" /\ UNCHANGED <<held, due, host>>
    /\ IsList(sev', panel) /\ Spares(sev, sev')

LEMMA Facts ==
    ASSUME Inv
    PROVE  /\ IsList(sev, panel) /\ IsList(held, panel) /\ panel \in Nat /\ meddled \in BOOLEAN
           /\ at = "idle" => held = Nothing
           /\ at # "idle" /\ ~meddled => held = sev
           /\ age \in Nat /\ n \in Nat /\ failed \in Nat /\ due \in Nat
           /\ (at = "observe" => n <= Len(Observed))
  BY Limits DEF Inv, ListInv, RestInv

LEMMA Kinds ==
    ASSUME Inv, [Next]_vars
    PROVE  \/ Quiet \/ Works \/ Stops \/ Blows
           \/ Escalate \/ Measure \/ GoodDay \/ Panel \/ KillInBump \/ KillInSave
<1>a. /\ IsList(sev, panel) /\ IsList(held, panel) /\ panel \in Nat /\ n \in Nat
      /\ (at = "observe" => n <= Len(Observed))
  BY Facts
<1>1. ASSUME Observe PROVE Works
  <2>1. n + 1 \in 1..Len(Observed) /\ at = "observe" /\ at' = at /\ due' = due /\ host' = host
    BY <1>a, <1>1, Looked DEF Observe, host
  <2>2. \E s : Saved(s) /\ IsList(s, panel) /\ Spares(held, s)
    <3>1. CASE Observed[n + 1] = Expiry
      <4>1. PICK old \in SUBSET Threats : Saved(ExpireThreats(held, old))
        BY <1>1, <3>1 DEF Observe
      <4> QED
        BY <1>a, <4>1, SparesExpire
    <3>2. CASE Observed[n + 1] # Expiry
      <4>1. Observed[n + 1] \in Types
        BY <2>1, <3>2, Looked
      <4>2. PICK s \in {held, Add(held, Observed[n + 1], Initial), Resolve(held, Observed[n + 1])} : Saved(s)
        BY <1>1, <3>2 DEF Observe
      <4>3. CASE s = held
        BY <1>a, <4>2, <4>3, SparesNothing
      <4>4. CASE s = Add(held, Observed[n + 1], Initial)
        <5>1. IsList(s, panel) /\ Spares(held, s)
          BY <1>a, <4>1, <4>4, SparesAdd, Limits
        <5> QED
          BY <4>2, <5>1
      <4>5. CASE s = Resolve(held, Observed[n + 1])
        <5>1. IsList(s, panel) /\ Spares(held, s)
          BY <1>a, <4>5, SparesResolve
        <5> QED
          BY <4>2, <5>1
      <4> QED
        BY <4>2, <4>3, <4>4, <4>5
    <3> QED
      BY <3>1, <3>2
  <2> QED
    BY <2>1, <2>2 DEF Works, host
<1>2. ASSUME HearHost PROVE Works
  <2>1. at = "host" /\ at' = "asked" /\ due' = due /\ host' = host
    BY <1>2 DEF HearHost, host
  <2>2. \E s : Saved(s) /\ IsList(s, panel) /\ Spares(held, s)
    <3>1. CASE Saved(Add(held, HostThreat, ThreatInitial))
      BY <1>a, <3>1, SparesAdd, Limits
    <3>2. CASE UNCHANGED lists
      <4>1. Saved(held)
        BY <3>2 DEF Saved, lists
      <4> QED
        BY <1>a, <4>1, SparesNothing
    <3> QED
      BY <1>2, <3>1, <3>2 DEF HearHost
  <2> QED
    BY <2>1, <2>2 DEF Works, host
<1>3. ASSUME NEW t \in Types, AnswerAdds(t) PROVE Works
  <2>1. at = "asked" /\ at' = "asked" /\ due' = due /\ host' = host /\ Saved(Add(held, t, Initial))
    BY <1>3 DEF AnswerAdds, host
  <2>2. IsList(Add(held, t, Initial), panel) /\ Spares(held, Add(held, t, Initial))
    BY <1>a, SparesAdd, Limits
  <2> QED
    BY <2>1, <2>2 DEF Works, host
<1>4. ASSUME NEW t \in Types, AnswerResolves(t) PROVE Works
  <2>1. at # "idle" /\ at' = "resolve" /\ due' = due /\ host' = host /\ Saved(Resolve(held, t))
    BY <1>4 DEF AnswerResolves, host
  <2>2. IsList(Resolve(held, t), panel) /\ Spares(held, Resolve(held, t))
    BY <1>a, SparesResolve
  <2> QED
    BY <2>1, <2>2 DEF Works, host
<1>5. ASSUME BadWeather PROVE Blows
  <2>1. IsList(Add(sev, Weather, WeatherInitial), panel) /\ Spares(sev, Add(sev, Weather, WeatherInitial))
    BY <1>a, SparesAdd, Limits
  <2> QED
    BY <1>5, <2>1 DEF BadWeather, Blows
<1>6. ASSUME EndCycle \/ Kill PROVE Stops
  BY <1>6 DEF EndCycle, Kill, Restart, Stops
<1>7. ASSUME NewGoal \/ CompleteGoal \/ FailGoal \/ Minutes \/ Day \/ UNCHANGED vars PROVE Quiet
  BY <1>7 DEF NewGoal, CompleteGoal, FailGoal, Minutes, Day, vars, lists, host, Quiet
<1> QED
  BY <1>1, <1>2, <1>3, <1>4, <1>5, <1>6, <1>7 DEF Next, Cycle

\* One step keeps the lists.
LEMMA ListStep == Inv /\ [Next]_vars => ListInv'
<1> SUFFICES ASSUME Inv, [Next]_vars PROVE ListInv'
  OBVIOUS
<1>a. /\ IsList(sev, panel) /\ IsList(held, panel) /\ panel \in Nat /\ meddled \in BOOLEAN
      /\ (at # "idle" /\ ~meddled => held = sev) /\ age \in Nat /\ failed \in Nat
  BY Facts
<1>b. ListInv
  BY DEF Inv
<1>1. ASSUME Quiet PROVE ListInv'
  BY <1>b, <1>1 DEF Quiet, lists, host, ListInv
<1>2. ASSUME Works PROVE ListInv'
  <2>1. PICK s : Saved(s) /\ IsList(s, panel)
    BY <1>2 DEF Works
  <2>2. held' = s /\ (sev' = sev \/ sev' = s) /\ (held = sev => sev' = held')
    BY <2>1 DEF Saved
  <2>3. at # "idle" /\ at' # "idle" /\ panel' = panel /\ meddled' = meddled
    BY <1>2 DEF Works, host
  <2> QED
    BY <1>a, <1>b, <2>1, <2>2, <2>3 DEF ListInv
<1>3. ASSUME Stops PROVE ListInv'
  BY <1>a, <1>b, <1>3, EmptyList DEF Stops, host, ListInv
<1>4. ASSUME Blows PROVE ListInv'
  BY <1>a, <1>b, <1>4 DEF Blows, host, ListInv
<1>5. ASSUME Escalate PROVE ListInv'
  <2>1. IsList(EscalateAll(sev, age), panel)
    BY <1>a, EscalateList
  <2> QED
    BY <1>b, <1>5, <2>1 DEF Escalate, ListInv
<1>6. ASSUME Measure PROVE ListInv'
  <2>1. at = "observe" /\ at' = "host" /\ panel' = panel /\ meddled' = meddled
    BY <1>6 DEF Measure, host
  <2>2. ASSUME NEW s, Saved(s), IsList(s, panel) PROVE ListInv'
    <3>1. held' = s /\ (sev' = sev \/ sev' = s) /\ (held = sev => sev' = held')
      BY <2>2 DEF Saved
    <3> QED
      BY <1>a, <1>b, <2>1, <2>2, <3>1 DEF ListInv
  <2>3. CASE done = "fresh"
    <3>1. Saved(RawResolve(held, Stagnation))
      BY <1>6, <2>3 DEF Measure
    <3> QED
      BY <1>a, <2>2, <3>1, RawResolveList
  <2>4. CASE done # "fresh" /\ Target > 0
    <3>1. PICK s \in Bump(held, Target) : Saved(s)
      BY <1>6, <2>4 DEF Measure
    <3>2. IsList(s, panel)
      BY <1>a, TargetType, BumpList
    <3> QED
      BY <2>2, <3>1, <3>2
  <2>5. CASE done # "fresh" /\ ~(Target > 0)
    BY <1>a, <1>b, <1>6, <2>1, <2>5 DEF Measure, lists, ListInv
  <2> QED
    BY <2>3, <2>4, <2>5
<1>7. ASSUME GoodDay PROVE ListInv'
  <2>1. IsList(Relieved(sev), panel)
    BY <1>a, RelievedList
  <2> QED
    BY <1>a, <1>b, <1>7, <2>1 DEF GoodDay, host, ListInv
<1>8. ASSUME Panel PROVE ListInv'
  <2>1. panel' = panel + 1 /\ panel' \in 0..MaxPanel /\ meddled' = TRUE /\ held' = held /\ at' = at
    BY <1>a, <1>8, Limits DEF Panel
  <2>2. IsList(held, panel + 1) /\ IsList(sev, panel + 1)
    BY <1>a, Looser
  <2>3. IsList(sev', panel + 1)
    <3>1. CASE sev' \in {Nothing, Relieved(sev)}
      <4>1. panel + 1 \in Nat
        BY <1>a
      <4> QED
        BY <2>2, <3>1, <4>1, EmptyList, RelievedList
    <3>2. ASSUME NEW k \in 1..Full, NEW j \in 1..Full, sev' = Scaled(sev, k, j) PROVE IsList(sev', panel + 1)
      <4>1. panel + 1 \in Nat
        BY <1>a
      <4> QED
        BY <2>2, <3>2, <4>1, ScaledList
    <3>3. ASSUME NEW t \in Types \ DOMAIN sev, NEW v \in 0..Full, sev' = Put(sev, t, v) PROVE IsList(sev', panel + 1)
      <4>1. panel + 1 \in Nat /\ Cardinality(DOMAIN sev) < MaxStressors + (panel + 1)
        BY <1>a, Counted, Limits DEF IsList
      <4>2. t \in Types /\ t \notin DOMAIN sev
        OBVIOUS
      <4>3. IsList(Put(sev, t, v), panel + 1)
        BY <1>a, <4>1, <4>2, PutList
      <4> QED
        BY <3>3, <4>3
    <3> QED
      BY <1>8, <3>1, <3>2, <3>3 DEF Panel
  <2> QED
    BY <1>b, <2>1, <2>2, <2>3 DEF ListInv
<1>9. ASSUME KillInBump PROVE ListInv'
  <2>1. PICK s \in Room(held) : sev' = s
    BY <1>9 DEF KillInBump
  <2>2. IsList(s, panel)
    BY <1>a, <1>9, <2>1, RoomList DEF KillInBump
  <2> QED
    BY <1>a, <1>b, <1>9, <2>1, <2>2, EmptyList DEF KillInBump, Restart, host, ListInv
<1>10. ASSUME KillInSave PROVE ListInv'
  BY <1>a, <1>b, <1>10, EmptyList DEF KillInSave, Restart, host, ListInv
<1> QED
  BY <1>1, <1>2, <1>3, <1>4, <1>5, <1>6, <1>7, <1>8, <1>9, <1>10, Kinds

\* One step keeps the other types.
LEMMA RestStep == RestInv /\ [Next]_vars => RestInv'
<1> SUFFICES ASSUME RestInv, [Next]_vars PROVE RestInv'
  OBVIOUS
<1> USE Limits, Looked DEF RestInv, Completions
<1>1. ASSUME Escalate
      PROVE  RestInv'
  BY <1>1 DEF Escalate
<1>2. ASSUME Observe
      PROVE  RestInv'
  BY <1>2 DEF Observe
<1>3. ASSUME Measure
      PROVE  RestInv'

  <2>1. Target \in 0..Full
    BY TargetType
  <2>2. due' \in 0..Full
    BY <1>3, <2>1 DEF Measure
  <2> QED
    BY <1>3, <2>2 DEF Measure
<1>4. ASSUME HearHost
      PROVE  RestInv'
  BY <1>4 DEF HearHost
<1>5. ASSUME EndCycle
      PROVE  RestInv'
  BY <1>5 DEF EndCycle
<1>6. ASSUME NEW t \in Types, AnswerAdds(t)
      PROVE  RestInv'
  BY <1>6 DEF AnswerAdds
<1>7. ASSUME NEW t \in Types, AnswerResolves(t)
      PROVE  RestInv'
  BY <1>7 DEF AnswerResolves
<1>8. ASSUME BadWeather
      PROVE  RestInv'
  BY <1>8 DEF BadWeather
<1>9. ASSUME GoodDay
      PROVE  RestInv'

  <2>1. due \in Nat /\ due <= Full
    OBVIOUS
  <2>2. Less(due, Relief) \in Nat /\ Less(due, Relief) <= due
    BY <2>1, LessType
  <2>3. due' \in 0..Full
    BY <1>9, <2>1, <2>2 DEF GoodDay
  <2> QED
    BY <1>9, <2>3 DEF GoodDay
<1>10. ASSUME NewGoal
      PROVE  RestInv'
  BY <1>10 DEF NewGoal
<1>11. ASSUME CompleteGoal
      PROVE  RestInv'
  BY <1>11 DEF CompleteGoal
<1>12. ASSUME FailGoal
      PROVE  RestInv'
  BY <1>12 DEF FailGoal
<1>13. ASSUME Minutes
      PROVE  RestInv'
  BY <1>13 DEF Minutes
<1>14. ASSUME Day
      PROVE  RestInv'
  BY <1>14 DEF Day
<1>15. ASSUME Kill
      PROVE  RestInv'
  BY <1>15 DEF Kill, Restart
<1>16. ASSUME KillInBump
      PROVE  RestInv'
  BY <1>16 DEF KillInBump, Restart
<1>17. ASSUME KillInSave
      PROVE  RestInv'
  BY <1>17 DEF KillInSave, Restart
<1>18. ASSUME Panel
      PROVE  RestInv'
  BY <1>18 DEF Panel
<1>19. CASE UNCHANGED vars
  BY <1>19 DEF vars
<1> QED
  BY <1>1, <1>2, <1>3, <1>4, <1>5, <1>6, <1>7, <1>8, <1>9, <1>10,
     <1>11, <1>12, <1>13, <1>14, <1>15, <1>16, <1>17, <1>18, <1>19
  DEF Next, Cycle

-----------------------------------------------------------------------------
(* Stagnation. *)

\* StagnationIsSeen, by Holds.
Sight == due > 0 => (at # "idle" => Holds(held, due)) /\ (~meddled => Holds(sev, due))

LEMMA InvInit == Init => Inv /\ Sight
<1> SUFFICES ASSUME Init PROVE Inv /\ Sight
  OBVIOUS
<1>1. ListInv
  <2>1. IsList(Nothing, 0) /\ 0 \in 0..MaxPanel
    BY EmptyList, Limits
  <2> QED
    BY <2>1 DEF Init, ListInv
<1>2. RestInv
  BY Limits DEF Init, RestInv, Completions
<1>3. Sight
  BY DEF Init, Sight
<1> QED
  BY <1>1, <1>2, <1>3 DEF Inv

LEMMA InvStep == Inv /\ [Next]_vars => Inv'
  BY ListStep, RestStep DEF Inv

\* Every variable keeps its type, and no more are active than the limit and what the
\* panel has added.
THEOREM Typing == Spec => []TypeOK
<1>1. Inv => TypeOK
  <2> SUFFICES ASSUME Inv PROVE TypeOK
    OBVIOUS
  <2>1. \A s \in {sev, held} :
           /\ DOMAIN s \subseteq Types /\ Cardinality(DOMAIN s) <= MaxStressors + panel
           /\ \A t \in DOMAIN s : s[t] \in 0..Full
    BY DEF Inv, ListInv, IsList
  <2> QED
    BY <2>1 DEF Inv, ListInv, RestInv, TypeOK
<1> QED
  BY <1>1, InvInit, InvStep, PTL DEF Spec

\* One step leaves what was measured in sight.
LEMMA SightStep == Inv /\ Sight /\ [Next]_vars => Sight'
<1> SUFFICES ASSUME Inv, Sight, [Next]_vars PROVE Sight'
  OBVIOUS
<1>a. /\ IsList(sev, panel) /\ IsList(held, panel) /\ panel \in Nat /\ meddled \in BOOLEAN
      /\ (at # "idle" /\ ~meddled => held = sev) /\ age \in Nat /\ failed \in Nat /\ due \in Nat
  BY Facts
<1>1. ASSUME Quiet PROVE Sight'
  BY <1>1 DEF Quiet, lists, host, Sight
<1>2. ASSUME Works PROVE Sight'
  <2>1. PICK s : Saved(s) /\ Spares(held, s)
    BY <1>2 DEF Works
  <2>2. held' = s /\ (held = sev => sev' = s)
    BY <2>1 DEF Saved
  <2>3. at # "idle" /\ meddled' = meddled /\ due' = due
    BY <1>2 DEF Works, host
  <2>4. Holds(held, due) => Holds(s, due)
    BY <2>1, HoldsSpared
  <2> QED
    BY <1>a, <2>2, <2>3, <2>4 DEF Sight
<1>3. ASSUME Stops PROVE Sight'
  BY <1>3 DEF Stops, host, Sight
<1>4. ASSUME Blows PROVE Sight'
  <2>1. Holds(sev, due) => Holds(sev', due)
    BY <1>4, HoldsSpared DEF Blows
  <2> QED
    BY <1>4, <2>1 DEF Blows, host, Sight
<1>5. ASSUME Escalate PROVE Sight'
  <2>1. sev' = EscalateAll(sev, age) /\ held' = sev' /\ due' = IF meddled THEN 0 ELSE due
    BY <1>5 DEF Escalate
  <2>2. Holds(sev, due) => Holds(EscalateAll(sev, age), due)
    BY <1>a, EscalateList
  <2>3. CASE meddled
    BY <2>1, <2>3 DEF Sight
  <2>4. CASE ~meddled
    BY <2>1, <2>2, <2>4 DEF Sight
  <2> QED
    BY <2>3, <2>4
<1>6. ASSUME Measure PROVE Sight'
  <2>1. at # "idle" /\ meddled' = meddled
    BY <1>6 DEF Measure, host
  <2>2. CASE done = "fresh"
    BY <1>6, <2>2 DEF Measure, Sight
  <2>3. CASE done # "fresh" /\ Target > 0
    <3>1. PICK s \in Bump(held, Target) : Saved(s) /\ due' = Target
      BY <1>6, <2>3 DEF Measure
    <3>2. Holds(s, Target)
      BY <1>a, TargetType, BumpList
    <3>3. held' = s /\ (held = sev => sev' = s)
      BY <3>1 DEF Saved
    <3> QED
      BY <1>a, <2>1, <3>1, <3>2, <3>3 DEF Sight
  <2>4. CASE done # "fresh" /\ ~(Target > 0)
    BY <1>6, <2>1, <2>4 DEF Measure, lists, Sight
  <2> QED
    BY <2>2, <2>3, <2>4
<1>7. ASSUME GoodDay PROVE Sight'
  <2>1. at = "idle" /\ at' = "idle" /\ meddled' = meddled /\ sev' = Relieved(sev) /\ due' = Less(due, Relief)
    BY <1>7 DEF GoodDay, host
  <2>2. ASSUME due' > 0 PROVE due > 0
    BY <1>a, <2>1, <2>2, LessType, Limits
  <2>3. ASSUME due > 0, ~meddled PROVE Holds(sev', due')
    <3>1. Stagnation \in DOMAIN sev /\ sev[Stagnation] >= due
      BY <2>3 DEF Sight, Holds
    <3>2. sev[Stagnation] \in Nat
      BY <1>a, <3>1, Counted
    <3>3. Less(sev[Stagnation], Relief) >= Less(due, Relief)
      BY <1>a, <3>1, <3>2, LessMonotone, Limits
    <3>4. Stagnation \in DOMAIN sev' /\ sev'[Stagnation] = Less(sev[Stagnation], Relief)
      BY <1>a, <2>1, <3>1, RelievedList
    <3> QED
      BY <2>1, <3>3, <3>4 DEF Holds
  <2> QED
    BY <2>1, <2>2, <2>3 DEF Sight
<1>8. ASSUME Panel PROVE Sight'
  BY <1>8 DEF Panel, Sight
<1>9. ASSUME KillInBump PROVE Sight'
  <2>1. Stagnation \notin DOMAIN held /\ at # "idle" /\ due' = due
    BY <1>9 DEF KillInBump
  <2>2. ~(due > 0)
    BY <2>1 DEF Sight, Holds
  <2> QED
    BY <2>1, <2>2 DEF Sight
<1>10. ASSUME KillInSave PROVE Sight'
  BY <1>10 DEF KillInSave, Sight
<1> QED
  BY <1>1, <1>2, <1>3, <1>4, <1>5, <1>6, <1>7, <1>8, <1>9, <1>10, Kinds

\* What an assessment has measured stays in sight until one sees a completion, in a
\* cycle whatever the host does, and in the file until the host changes it.
THEOREM Seen == Spec => []StagnationIsSeen
<1>1. Sight => StagnationIsSeen
  BY DEF Sight, Holds, StagnationIsSeen
<1> QED
  BY <1>1, InvInit, InvStep, SightStep, PTL DEF Spec

\* The step in which stagnation leaves.
LEMMA LeaveStep ==
    ASSUME Inv, [Next]_vars
    PROVE  /\ Stagnation \in DOMAIN sev /\ Stagnation \notin DOMAIN sev' =>
                 (at = "observe" /\ at' = "host" /\ done = "fresh") \/ KillInSave \/ meddled'
           /\ Stagnation \in DOMAIN held /\ Stagnation \notin DOMAIN held' =>
                 (at = "observe" /\ at' = "host" /\ done = "fresh") \/ at' = "idle"
<1> DEFINE Goal ==
       /\ Stagnation \in DOMAIN sev /\ Stagnation \notin DOMAIN sev' =>
             (at = "observe" /\ at' = "host" /\ done = "fresh") \/ KillInSave \/ meddled'
       /\ Stagnation \in DOMAIN held /\ Stagnation \notin DOMAIN held' =>
             (at = "observe" /\ at' = "host" /\ done = "fresh") \/ at' = "idle"
<1>a. /\ IsList(sev, panel) /\ IsList(held, panel) /\ panel \in Nat /\ meddled \in BOOLEAN
      /\ (at = "idle" => held = Nothing)
      /\ (at # "idle" /\ ~meddled => held = sev) /\ age \in Nat /\ failed \in Nat /\ due \in Nat
  BY Facts
<1>1. ASSUME Quiet PROVE Goal
  BY <1>1 DEF Quiet, lists
<1>2. ASSUME Works PROVE Goal
  <2>1. PICK s : Saved(s) /\ Spares(held, s)
    BY <1>2 DEF Works
  <2>2. held' = s /\ (held = sev => sev' = s)
    BY <2>1 DEF Saved
  <2>3. at # "idle" /\ meddled' = meddled
    BY <1>2 DEF Works, host
  <2> QED
    BY <1>a, <2>1, <2>2, <2>3 DEF Spares
<1>3. ASSUME Stops PROVE Goal
  BY <1>3 DEF Stops
<1>4. ASSUME Blows PROVE Goal
  BY <1>4 DEF Blows, Spares
<1>5. ASSUME Escalate PROVE Goal
  <2>1. sev' = EscalateAll(sev, age) /\ at = "idle"
    BY <1>5 DEF Escalate
  <2>2. DOMAIN held = {}
    BY <1>a, <2>1, EmptyList
  <2>3. ASSUME Stagnation \in DOMAIN sev PROVE Stagnation \in DOMAIN sev'
    <3>1. Holds(sev, 0)
      BY <1>a, <2>3, Counted DEF Holds
    <3>2. Holds(EscalateAll(sev, age), 0)
      BY <1>a, <3>1, EscalateList
    <3> QED
      BY <2>1, <3>2 DEF Holds
  <2> QED
    BY <2>2, <2>3
<1>6. ASSUME Measure PROVE Goal
  <2>1. at = "observe" /\ at' = "host" /\ meddled' = meddled
    BY <1>6 DEF Measure, host
  <2>2. CASE done = "fresh"
    BY <2>1, <2>2
  <2>3. CASE done # "fresh" /\ Target > 0
    <3>1. PICK s \in Bump(held, Target) : Saved(s)
      BY <1>6, <2>3 DEF Measure
    <3>2. Stagnation \in DOMAIN s
      BY <1>a, TargetType, BumpList DEF Holds
    <3>3. held' = s /\ (held = sev => sev' = s)
      BY <3>1 DEF Saved
    <3> QED
      BY <1>a, <2>1, <3>2, <3>3
  <2>4. CASE done # "fresh" /\ ~(Target > 0)
    BY <1>6, <2>4 DEF Measure, lists
  <2> QED
    BY <2>2, <2>3, <2>4
<1>7. ASSUME GoodDay PROVE Goal
  <2>1. DOMAIN sev' = DOMAIN sev /\ held' = held
    BY <1>a, <1>7, RelievedList DEF GoodDay
  <2> QED
    BY <2>1
<1>8. ASSUME Panel PROVE Goal
  BY <1>8 DEF Panel
<1>9. ASSUME KillInBump PROVE Goal
  <2>1. Stagnation \notin DOMAIN held /\ at # "idle" /\ at' = "idle" /\ meddled' = meddled
    BY <1>9 DEF KillInBump, Restart, host
  <2> QED
    BY <1>a, <2>1
<1>10. ASSUME KillInSave PROVE Goal
  BY <1>10 DEF KillInSave, Restart
<1>11. Goal
  <2> HIDE DEF Goal
  <2> QED
    BY <1>1, <1>2, <1>3, <1>4, <1>5, <1>6, <1>7, <1>8, <1>9, <1>10, Kinds
<1> QED
  BY <1>11

\* Until a save is cut short, stagnation leaves by nothing but an assessment that
\* sees a fresh completion, or by the host, who cannot take it from under a cycle.
THEOREM EarnedOff == Spec => StagnationIsEarnedOff
<1> DEFINE seen == at = "observe" /\ at' = "host" /\ done = "fresh"
           Left == /\ Stagnation \in DOMAIN sev /\ Stagnation \notin DOMAIN sev' => seen \/ KillInSave \/ meddled'
                   /\ Stagnation \in DOMAIN held /\ Stagnation \notin DOMAIN held' => seen \/ at' = "idle"
<1>1. Inv /\ [Next]_vars => [Left]_vars
  BY LeaveStep
<1>2. Spec => [][Left]_vars
  <2> HIDE DEF Left
  <2> QED
    BY <1>1, InvInit, InvStep, PTL DEF Spec
<1> QED
  BY <1>2 DEF StagnationIsEarnedOff

-----------------------------------------------------------------------------
(* What makes a stressor better or worse. *)

LEMMA SameRoom ==
    ASSUME NEW s, NEW r \in Room(s)
    PROVE  Same(s, r)
<1>1. r = s \/ \E t \in Mildest(s) : r = Resolve(s, t)
  BY DEF Room
<1> QED
  BY <1>1, SameResolve DEF Same

\* A bump moves stagnation alone, and upwards.
LEMMA BumpMoves ==
    ASSUME NEW k \in Nat, NEW s, IsList(s, k), NEW target \in 0..Full, NEW r \in Bump(s, target)
    PROVE  \A t \in DOMAIN s \cap DOMAIN r : r[t] = s[t] \/ (t = Stagnation /\ r[t] \in Nat /\ r[t] >= s[t])
<1>1. CASE Stagnation \in DOMAIN s
  <2>1. r = [s EXCEPT ![Stagnation] = Higher(s[Stagnation], target)]
    BY <1>1 DEF Bump
  <2>2. s[Stagnation] \in 0..Full
    BY <1>1 DEF IsList
  <2>3. Higher(s[Stagnation], target) \in 0..Full /\ Higher(s[Stagnation], target) >= s[Stagnation]
    BY <2>2, Limits, HigherBound
  <2>4. \A t \in DOMAIN s : t # Stagnation => r[t] = s[t]
    BY <2>1
  <2>5. r[Stagnation] = Higher(s[Stagnation], target)
    BY <1>1, <2>1
  <2>6. r[Stagnation] \in Nat /\ r[Stagnation] >= s[Stagnation]
    BY <2>3, <2>5, Limits
  <2> QED
    BY <2>4, <2>6
<1>2. CASE Stagnation \notin DOMAIN s
  <2>1. PICK q \in Room(s) : r = Put(q, Stagnation, target)
    BY <1>2 DEF Bump
  <2>2. Same(s, q)
    BY SameRoom
  <2>3. DOMAIN r = DOMAIN q \cup {Stagnation} /\ \A t \in DOMAIN r : t # Stagnation => r[t] = q[t]
    BY <2>1 DEF Put
  <2> QED
    BY <1>2, <2>2, <2>3 DEF Same
<1> QED
  BY <1>1, <1>2

\* In days, a stressor the agent invented loses what the rate says or is gone, and
\* no other gets better.
LEMMA EscalateMoves ==
    ASSUME NEW k \in Nat, NEW s, IsList(s, k), NEW days \in Nat, NEW t \in DOMAIN s \cap DOMAIN EscalateAll(s, days)
    PROVE  /\ s[t] \in Nat /\ EscalateAll(s, days)[t] \in Nat
           /\ t \notin Predefined => /\ EscalateAll(s, days)[t] >= Floor
                                    /\ EscalateAll(s, days)[t] + Fade * days = s[t]
                                    /\ EscalateAll(s, days)[t] <= s[t]
           /\ t \in Predefined => EscalateAll(s, days)[t] >= s[t]
<1>1. s[t] \in Nat /\ s[t] <= Full /\ Full \in Nat /\ Floor \in Nat \ {0}
  BY Limits DEF IsList
<1>2. PICK v : v = Later(s, t, days)
  OBVIOUS
<1>3. EscalateAll(s, days)[t] = v
  BY <1>2 DEF EscalateAll
<1>4. CASE t \in Predefined
  <2>1. Rate[t] \in Nat
    BY <1>4, SufferingAssumption
  <2>2. Rate[t] * days \in Nat
    BY <2>1, Product
  <2>3. PICK w : w = s[t] + Rate[t] * days
    OBVIOUS
  <2>4. w \in Nat /\ w >= s[t]
    BY <1>1, <2>2, <2>3
  <2>5. v = Capped(Full, w)
    BY <1>2, <1>4, <2>3 DEF Later
  <2>6. v \in Nat /\ v >= s[t]
    BY <1>1, <2>4, <2>5 DEF Capped
  <2> QED
    BY <1>1, <1>3, <1>4, <2>6
<1>5. CASE t \notin Predefined
  <2>1. PICK lost : lost = Fade * days
    OBVIOUS
  <2>2. lost \in Nat
    BY <2>1, Limits, Product
  <2>3. v = Less(s[t], lost)
    BY <1>2, <1>5, <2>1 DEF Later
  <2>4. v >= Floor
    BY <1>2, <1>5 DEF EscalateAll
  <2>5. v \in Nat /\ v + lost = s[t] /\ v <= s[t]
    <3>1. CASE s[t] < lost
      BY <1>1, <2>2, <2>3, <2>4, <3>1 DEF Less
    <3>2. CASE ~(s[t] < lost)
      BY <1>1, <2>2, <2>3, <3>2 DEF Less
    <3> QED
      BY <3>1, <3>2
  <2> QED
    BY <1>1, <1>3, <1>5, <2>1, <2>4, <2>5
<1> QED
  BY <1>4, <1>5

\* Where the host does not interfere, what the agent invented never gets worse, and
\* with each assessment it fades by what the days since the last one take from it,
\* until it falls below the floor and leaves; what the code knows gets better on a
\* good day and at no other time; and only an assessment makes anything worse: the
\* days of all that is known, the goals of stagnation.
Moves ==
    \A t \in DOMAIN sev \cap DOMAIN sev' :
        /\ t \notin Predefined => sev'[t] <= sev[t]
        /\ t \notin Predefined /\ at = "idle" /\ at' = "observe" =>
             sev'[t] >= Floor /\ sev'[t] + Fade * age = sev[t]
        /\ t \in Predefined => sev'[t] >= sev[t] \/ (at = "idle" /\ at' = "idle")
        /\ sev'[t] > sev[t] =>
             (at = "idle" /\ at' = "observe") \/ (t = Stagnation /\ at = "observe" /\ at' = "host")

Drift == panel' = panel /\ (meddled => at = "idle") => Moves

\* Whatever adds and resolves stressors leaves the others as they are.
LEMMA SameMoves ==
    ASSUME Inv, Same(sev, sev'), ~(at = "idle" /\ at' = "observe")
    PROVE  Moves
<1>1. \A t \in DOMAIN sev : sev[t] \in Nat
  BY Facts, Counted
<1>2. \A t \in DOMAIN sev \cap DOMAIN sev' : sev'[t] = sev[t] /\ sev[t] \in Nat
  BY <1>1 DEF Same
<1>3. \A t \in DOMAIN sev \cap DOMAIN sev' : sev'[t] <= sev[t] /\ sev'[t] >= sev[t] /\ ~(sev'[t] > sev[t])
  BY <1>2
<1> QED
  BY <1>3 DEF Moves

LEMMA DriftStep == Inv /\ [Next]_vars => Drift
<1> SUFFICES ASSUME Inv, [Next]_vars, panel' = panel, meddled => at = "idle" PROVE Moves
  BY DEF Drift
<1>a. /\ IsList(sev, panel) /\ IsList(held, panel) /\ panel \in Nat /\ age \in Nat /\ failed \in Nat
      /\ at # "idle" => held = sev
  BY Facts
<1>1. ASSUME Quiet PROVE Moves
  <2>1. Same(sev, sev') /\ at' = at
    BY <1>1 DEF Quiet, lists, Same
  <2> QED
    BY <2>1, SameMoves
<1>2. ASSUME Works PROVE Moves
  <2>1. PICK s : Saved(s) /\ Spares(held, s)
    BY <1>2 DEF Works
  <2>2. at # "idle"
    BY <1>2 DEF Works
  <2>3. Same(sev, sev')
    BY <1>a, <2>1, <2>2 DEF Saved, Spares
  <2> QED
    BY <2>2, <2>3, SameMoves
<1>3. ASSUME Stops PROVE Moves
  <2>1. Same(sev, sev') /\ at' = "idle"
    BY <1>3 DEF Stops, Same
  <2> QED
    BY <2>1, SameMoves
<1>4. ASSUME Blows PROVE Moves
  BY <1>4, SameMoves DEF Blows, Spares
<1>5. ASSUME Escalate PROVE Moves
  <2>1. at = "idle" /\ at' = "observe" /\ sev' = EscalateAll(sev, age)
    BY <1>5 DEF Escalate
  <2> SUFFICES ASSUME NEW t \in DOMAIN sev \cap DOMAIN sev'
               PROVE  /\ t \notin Predefined => sev'[t] <= sev[t]
                      /\ t \notin Predefined => sev'[t] >= Floor /\ sev'[t] + Fade * age = sev[t]
                      /\ t \in Predefined => sev'[t] >= sev[t]
    BY <2>1 DEF Moves
  <2>2. t \in DOMAIN sev \cap DOMAIN EscalateAll(sev, age) /\ sev'[t] = EscalateAll(sev, age)[t]
    BY <2>1
  <2> QED
    BY <1>a, <2>2, EscalateMoves
<1>6. ASSUME Measure PROVE Moves
  <2>1. at = "observe" /\ at' = "host"
    BY <1>6 DEF Measure
  <2>2. held = sev
    BY <1>a, <2>1
  <2>3. CASE done = "fresh"
    <3>1. sev' = RawResolve(sev, Stagnation) \/ sev' = sev
      BY <1>6, <2>2, <2>3 DEF Measure, Saved
    <3>2. Same(sev, RawResolve(sev, Stagnation)) /\ Same(sev, sev)
      BY SameResolve DEF Same
    <3> QED
      BY <2>1, <3>1, <3>2, SameMoves
  <2>4. CASE done # "fresh" /\ Target > 0
    <3>1. sev' \in Bump(sev, Target)
      BY <1>6, <2>2, <2>4 DEF Measure, Saved
    <3>2. \A t \in DOMAIN sev \cap DOMAIN sev' :
             sev'[t] = sev[t] \/ (t = Stagnation /\ sev'[t] \in Nat /\ sev'[t] >= sev[t])
      BY <1>a, <3>1, TargetType, BumpMoves
    <3>3. \A t \in DOMAIN sev : sev[t] \in Nat
      BY <1>a, Counted
    <3>4. ASSUME NEW t \in DOMAIN sev \cap DOMAIN sev'
          PROVE  /\ t \notin Predefined => sev'[t] <= sev[t]
                 /\ sev'[t] >= sev[t]
                 /\ sev'[t] > sev[t] => t = Stagnation
      <4>1. CASE sev'[t] = sev[t]
        BY <3>3, <4>1
      <4>2. CASE t = Stagnation /\ sev'[t] \in Nat /\ sev'[t] >= sev[t]
        BY <4>2, Limits
      <4> QED
        BY <3>2, <4>1, <4>2
    <3> QED
      BY <2>1, <3>4 DEF Moves
  <2>5. CASE done # "fresh" /\ ~(Target > 0)
    <3>1. Same(sev, sev')
      BY <1>6, <2>5 DEF Measure, lists, Same
    <3> QED
      BY <2>1, <3>1, SameMoves
  <2> QED
    BY <2>3, <2>4, <2>5
<1>7. ASSUME GoodDay PROVE Moves
  <2>1. at = "idle" /\ at' = "idle" /\ sev' = Relieved(sev)
    BY <1>7 DEF GoodDay
  <2> SUFFICES ASSUME NEW t \in DOMAIN sev PROVE sev'[t] <= sev[t] /\ ~(sev'[t] > sev[t])
    BY <2>1 DEF Moves
  <2>2. sev[t] \in Nat /\ sev'[t] \in Nat /\ sev'[t] <= sev[t]
    BY <1>a, <2>1, Counted, RelievedList
  <2> QED
    BY <2>2
<1>8. ASSUME Panel PROVE Moves
  BY <1>a, <1>8 DEF Panel
<1>9. ASSUME KillInBump PROVE Moves
  <2>1. at # "idle" /\ sev' \in Room(held)
    BY <1>9 DEF KillInBump
  <2>2. Same(sev, sev')
    BY <1>a, <2>1, SameRoom
  <2> QED
    BY <2>1, <2>2, SameMoves
<1>10. ASSUME KillInSave PROVE Moves
  <2>1. DOMAIN sev' = {}
    BY <1>10, EmptyList DEF KillInSave
  <2> QED
    BY <2>1 DEF Moves
<1> QED
  BY <1>1, <1>2, <1>3, <1>4, <1>5, <1>6, <1>7, <1>8, <1>9, <1>10, Kinds

\* Nothing but time, good days and the host changes how severe a stressor is, and the
\* goals how severe stagnation is: no answer of the model does.  What the agent
\* invented only fades, which is what remains of InventedFade without fairness.
THEOREM Fading == Spec => [][Drift]_vars
<1>1. Inv /\ [Next]_vars => [Drift]_vars
  BY DriftStep
<1> QED
  BY <1>1, InvInit, InvStep, PTL DEF Spec
=============================================================================
