----------------------------- MODULE Suffering -----------------------------
(***************************************************************************)
(* The stressors of one agent (agents/suffering.py) and what the daemon    *)
(* does to them (agents/daemon.py).  Each existence cycle first assesses   *)
(* the agent: time makes the stressors the code knows worse and lets those *)
(* the agent invents fade, what is observed adds and resolves some, and    *)
(* the goals of this run of the daemon decide about stagnation.  Then the  *)
(* model answers, and may add and resolve stressors itself.  Between the   *)
(* cycles come the weather and the good days.  Every change is saved at    *)
(* once, so that the daemon may be killed between any two of them.         *)
(*                                                                         *)
(* A cycle works on a copy that it has loaded at its beginning, and saves  *)
(* it whole.  Meanwhile the host may change the file in another process,   *)
(* the control panel (panel.py): the next save of the cycle undoes that.   *)
(*                                                                         *)
(* Severity is counted in a unit of choice, and time in days; the minutes  *)
(* matter only to the age of the last completed goal.                      *)
(***************************************************************************)
EXTENDS Naturals, Sequences, FiniteSets

CONSTANTS
    Types, Predefined,      \* the types of stressors, and those with a rate of escalation
    Stagnation, HostThreat, Weather,  \* three of the types
    Threats,                \* predefined or not: those that expire
    Expiry,                 \* not a type: the place of the threats among those observed
    Observed,               \* sequence of the types whose conditions are looked at, in order
    Rate, Fade,             \* per day: what a predefined type gains, what another loses
    Full, Floor, Calm,      \* the most (1.0); below Floor (0.05) a type has faded,
                            \* below Calm (0.5) an old threat expires
    Initial, ThreatInitial, WeatherInitial, Relief,   \* 0.20, 0.55, 0.10, 0.10
    FailBase, FailStep, FailCap,     \* stagnation after failures: 0.15, 0.10, 0.60
    NeverBase, NeverStep, NeverCap,  \* with nothing completed: 0.20, 0.05, 0.50
    LateTarget, OldTarget,  \* ten minutes, half an hour after a completion: 0.25, 0.45
    MaxStressors,           \* 5
    TalkLimit,              \* stressors an answer may add, and resolve (2 of each)
    Window,                 \* goals that are looked at (30)
    MaxAge,                 \* bound: days between two cycles
    MaxPanel                \* bound: writes of the panel

\* The last completed goal among those looked at: there is no goal of this
\* run, no goal of it is completed, or how long ago (5, 10, 30 minutes).
Completions == {"fresh", "recent", "late", "old"}

ASSUME SufferingAssumption ==
    /\ {Stagnation, HostThreat} \subseteq Predefined /\ Predefined \subseteq Types
    /\ HostThreat # Stagnation /\ Expiry \notin Types
    /\ Weather \in Types \ Predefined /\ Threats \subseteq Types \ {Stagnation}
    /\ Observed \in Seq((Predefined \ {Stagnation}) \cup {Expiry})
    /\ Rate \in [Predefined -> Nat] /\ {MaxStressors, TalkLimit, Window, Floor} \subseteq Nat \ {0}
    /\ {Fade, Full, Calm, Initial, ThreatInitial, WeatherInitial, Relief, FailBase, FailStep, FailCap,
        NeverBase, NeverStep, NeverCap, LateTarget, OldTarget, MaxAge, MaxPanel} \subseteq Nat
    /\ {Initial, ThreatInitial, WeatherInitial, FailCap, NeverCap, LateTarget, OldTarget} \subseteq 0..Full

VARIABLES
    sev,    \* suffering.json: the severity of each active stressor
    held,   \* the copy that a cycle works on
    age,    \* days since the stressors were last escalated
    done,   \* of the goals of this run: the last completed
    failed, \* and how many newer ones have failed or were abandoned
    at,     \* where the cycle is; "asked": the model is thinking
    n,      \* the conditions looked at, or what the answer has added or resolved
    due,    \* history: the severity the last assessment wanted for stagnation
    meddled, \* history: the panel has written since a cycle last began
    panel   \* writes of the panel so far

lists  == <<sev, held>>
host   == <<meddled, panel>>
vars   == <<lists, age, done, failed, at, n, due, host>>

Capped(a, b) == IF a < b THEN a ELSE b
Higher(a, b) == IF a < b THEN b ELSE a
Less(a, b)   == IF a < b THEN 0 ELSE a - b

----------------------------------------------------------------------------
(* What can be done to a list of stressors. *)

Nothing == [t \in {} |-> 0]

Put(s, type, severity) == [t \in DOMAIN s \cup {type} |-> IF t = type THEN severity ELSE s[t]]

\* Mutant: the limit is forgotten.
Add_Unlimited(s, type, severity) ==
    IF type \in DOMAIN s THEN s ELSE Put(s, type, severity)
\* A type is active once, and beyond the limit a new one is dropped.
Add(s, type, severity) ==
    IF type \in DOMAIN s \/ Cardinality(DOMAIN s) >= MaxStressors THEN s ELSE Put(s, type, severity)

RawResolve(s, type) == [t \in DOMAIN s \ {type} |-> s[t]]

\* Mutant: what is left to the substrate is not refused.
Resolve_Any(s, type) == RawResolve(s, type)
\* Only the daemon ends stagnation.
Resolve(s, type) == IF type = Stagnation THEN s ELSE RawResolve(s, type)

\* Those displaced from a full list: one of the mildest.
Mildest(s) == {t \in DOMAIN s \ {Stagnation} : \A u \in DOMAIN s \ {Stagnation} : s[t] <= s[u]}

\* The lists with a place for one more.
Room(s) == IF Cardinality(DOMAIN s) < MaxStressors \/ Mildest(s) = {} THEN {s}
           ELSE {Resolve(s, t) : t \in Mildest(s)}

\* Mutant: stagnation is added as the others are, if there is a place left.
Bump_Dropped(s, target) ==
    IF Stagnation \in DOMAIN s
    THEN {[s EXCEPT ![Stagnation] = Higher(@, target)]}
    ELSE {Add(s, Stagnation, target)}

\* Stagnation is at least the target; with a full list it takes the place of
\* the mildest of the others.
Bump(s, target) ==
    IF Stagnation \in DOMAIN s
    THEN {[s EXCEPT ![Stagnation] = Higher(@, target)]}
    ELSE {Put(r, Stagnation, target) : r \in Room(s)}

\* Mutant: what the agent invents gets worse as the others do.
Later_Worse(s, t, days) ==
    Capped(Full, s[t] + (IF t \in Predefined THEN Rate[t] ELSE Fade) * days)
Later(s, t, days) ==
    IF t \in Predefined THEN Capped(Full, s[t] + Rate[t] * days) ELSE Less(s[t], Fade * days)

EscalateAll(s, days) ==
    LET kept == {t \in DOMAIN s : t \in Predefined \/ Later(s, t, days) >= Floor}
    IN  [t \in kept |-> Later(s, t, days)]

Relieved(s) == [t \in DOMAIN s |-> Less(s[t], Relief)]

\* The load is brought to k units for every j, up to the top each.
Scaled(s, k, j) == [t \in DOMAIN s |-> Capped(Full, (s[t] * k) \div j)]

----------------------------------------------------------------------------
(* The assessment. *)

\* Threats that are two hours old and mild have passed.
ExpireThreats(s, old) ==
    [t \in {u \in DOMAIN s : ~(u \in old /\ s[u] < Calm)} |-> s[t]]

FailTarget  == IF failed = 0 THEN 0 ELSE Capped(FailCap, FailBase + FailStep * (failed - 1))
TimeTarget  == IF done = "never" THEN Capped(NeverCap, NeverBase + NeverStep * failed)
               ELSE IF done = "old" THEN OldTarget
               ELSE IF done = "late" THEN LateTarget ELSE 0
Target      == IF done \in {"none", "fresh"} THEN 0 ELSE Higher(FailTarget, TimeTarget)

Init == /\ sev = Nothing /\ held = Nothing /\ age = 0 /\ meddled = FALSE /\ panel = 0
        /\ done = "none" /\ failed = 0 /\ at = "idle" /\ n = 0 /\ due = 0

\* The cycle holds the stressors s from now on, and saves them if they are others.
Saved(s) == held' = s /\ sev' = IF s = held THEN sev ELSE s

\* The stressors are loaded; escalated, they are saved in any case.
Escalate ==
    /\ at = "idle" /\ at' = "observe"
    /\ sev' = EscalateAll(sev, age) /\ held' = sev' /\ age' = 0
    /\ meddled' = FALSE /\ due' = IF meddled THEN 0 ELSE due
    /\ UNCHANGED <<done, failed, n, panel>>

\* The next condition is looked at, and shows something or not.
Observe ==
    /\ at = "observe" /\ n < Len(Observed) /\ n' = n + 1
    /\ LET type == Observed[n + 1]
       IN  IF type = Expiry THEN \E old \in SUBSET Threats : Saved(ExpireThreats(held, old))
           ELSE \E s \in {held, Add(held, type, Initial), Resolve(held, type)} : Saved(s)
    /\ UNCHANGED <<age, done, failed, at, due, host>>

\* A fresh completion ends stagnation; otherwise it is as severe as measured.
Measure ==
    /\ at = "observe" /\ n = Len(Observed) /\ at' = "host" /\ n' = 0
    /\ IF done = "fresh" THEN Saved(RawResolve(held, Stagnation)) /\ due' = 0
       ELSE IF Target > 0 THEN (\E s \in Bump(held, Target) : Saved(s)) /\ due' = Target
       ELSE UNCHANGED <<lists, due>>
    /\ UNCHANGED <<age, done, failed, host>>

HearHost ==
    /\ at = "host" /\ at' = "asked"
    /\ \/ Saved(Add(held, HostThreat, ThreatInitial))
       \/ UNCHANGED lists
    /\ UNCHANGED <<age, done, failed, n, due, host>>

\* The answer adds stressors, and then resolves some; without one, a goal that
\* takes its place does neither.
AnswerAdds(t) ==
    /\ at = "asked" /\ n < TalkLimit /\ n' = n + 1
    /\ Saved(Add(held, t, Initial))
    /\ UNCHANGED <<age, done, failed, at, due, host>>

AnswerResolves(t) ==
    /\ \/ at = "asked" /\ n' = 1
       \/ at = "resolve" /\ n < TalkLimit /\ n' = n + 1
    /\ at' = "resolve"
    /\ Saved(Resolve(held, t))
    /\ UNCHANGED <<age, done, failed, due, host>>

EndCycle ==
    /\ at \in {"asked", "resolve"} /\ at' = "idle" /\ n' = 0 /\ held' = Nothing
    /\ UNCHANGED <<sev, age, done, failed, due, host>>

BadWeather ==
    /\ at = "idle"
    /\ sev' = Add(sev, Weather, WeatherInitial)
    /\ UNCHANGED <<held, age, done, failed, at, n, due, host>>

GoodDay ==
    /\ at = "idle"
    /\ sev' = Relieved(sev)
    /\ due' = Less(due, Relief)
    /\ UNCHANGED <<held, age, done, failed, at, n, host>>

\* The host clears or scales the stressors, adds one whatever the limit, or has a
\* good day; a cycle that is going on does not notice.
Panel ==
    /\ panel < MaxPanel /\ panel' = panel + 1 /\ meddled' = TRUE
    /\ \/ sev' \in {Nothing, Relieved(sev)}
       \/ \E k, j \in 1..Full : sev' = Scaled(sev, k, j)
       \/ \E t \in Types \ DOMAIN sev, v \in 0..Full : sev' = Put(sev, t, v)
    /\ UNCHANGED <<held, age, done, failed, at, n, due>>

----------------------------------------------------------------------------
(* The goals of the agent, and time. *)

NewGoal ==
    /\ done = "none" /\ done' = "never"
    /\ UNCHANGED <<lists, age, failed, at, n, due, host>>

\* The goal completed may be older than some that have failed.
CompleteGoal ==
    /\ done # "none" /\ done' = "fresh"
    /\ failed' \in 0..failed
    /\ UNCHANGED <<lists, age, at, n, due, host>>

\* With enough newer ones the last completed goal is out of sight.
FailGoal ==
    /\ done # "none" /\ failed < Window
    /\ failed' = failed + 1
    /\ done' = IF failed' = Window THEN "never" ELSE done
    /\ UNCHANGED <<lists, age, at, n, due, host>>

Minutes ==
    /\ done \in {"fresh", "recent", "late"}
    /\ done' = IF done = "fresh" THEN "recent" ELSE IF done = "recent" THEN "late" ELSE "old"
    /\ UNCHANGED <<lists, age, failed, at, n, due, host>>

Day ==
    /\ age < MaxAge
    /\ age' = age + 1
    /\ done' = IF done \in Completions THEN "old" ELSE done
    /\ UNCHANGED <<lists, failed, at, n, due, host>>

\* The daemon is killed and starts again: the goals before are not looked at.
Restart ==
    /\ done' = "none" /\ failed' = 0 /\ at' = "idle" /\ n' = 0 /\ held' = Nothing
    /\ UNCHANGED host

Kill ==
    /\ Restart /\ UNCHANGED <<sev, age, due>>

\* It had made room for stagnation, and no more.
KillInBump ==
    /\ at = "observe" /\ n = Len(Observed) /\ done # "fresh" /\ Target > 0
    /\ Stagnation \notin DOMAIN held
    /\ \E s \in Room(held) \ {held} : sev' = s
    /\ Restart /\ UNCHANGED <<age, due>>

\* In a save the file is lost.
KillInSave ==
    /\ Restart /\ sev' = Nothing /\ age' = 0 /\ due' = 0

Cycle ==
    \/ Escalate \/ Observe \/ Measure \/ HearHost \/ EndCycle
    \/ \E t \in Types : AnswerAdds(t) \/ AnswerResolves(t)

Next ==
    \/ Cycle \/ BadWeather \/ GoodDay \/ Panel
    \/ NewGoal \/ CompleteGoal \/ FailGoal \/ Minutes \/ Day
    \/ Kill \/ KillInBump \/ KillInSave

\* Days pass; the agent has its cycles, and each of them ends.
Fairness == WF_vars(Day) /\ WF_vars(Cycle)
Spec     == Init /\ [][Next]_vars /\ Fairness

----------------------------------------------------------------------------
(* Properties. *)

\* No more than MaxStressors are active but for those that the panel has added,
\* and no severity is above the top.
TypeOK ==
    /\ \A s \in {sev, held} :
          /\ DOMAIN s \subseteq Types /\ Cardinality(DOMAIN s) <= MaxStressors + panel
          /\ \A t \in DOMAIN s : s[t] \in 0..Full
    /\ age \in 0..MaxAge /\ panel \in 0..MaxPanel /\ meddled \in BOOLEAN
    /\ done \in Completions \cup {"none", "never"} /\ failed \in 0..Window
    /\ at \in {"idle", "observe", "host", "asked", "resolve"}
    /\ n \in Nat /\ (at = "observe" => n <= Len(Observed)) /\ (at \in {"asked", "resolve"} => n <= TalkLimit)
    /\ due \in 0..Full

\* "The agent cannot reach this through its own suffering_assessment": until
\* a save is cut short, which empties the file, stagnation leaves by nothing
\* but an assessment that sees a fresh completion of this run, whatever the
\* agent answers and whatever needs its place in the list.  The host may
\* remove it from the file, but not from under a cycle.
StagnationIsEarnedOff ==
    [][LET seen == at = "observe" /\ at' = "host" /\ done = "fresh"
           Leaves(s, r) == Stagnation \in DOMAIN s /\ Stagnation \notin DOMAIN r
       IN  /\ Leaves(sev, sev') => seen \/ KillInSave \/ meddled'
           /\ Leaves(held, held') => seen \/ at' = "idle"]_vars

\* "A stagnating agent should always see this signal regardless of what else
\* it has accumulated": from the assessment that measures stagnation to the
\* one that sees a completion, over restarts and answers, it is active and at
\* least as severe as measured last, but for the relief of good days: in a
\* cycle whatever the host does, and in the file until the host changes it.
StagnationIsSeen ==
    LET Visible(s) == Stagnation \in DOMAIN s /\ s[Stagnation] >= due
    IN  due > 0 => (at # "idle" => Visible(held)) /\ (~meddled => Visible(sev))

\* "Without decay, an agent can be pushed into a permanently locked state by
\* transient pressure": a stressor of a type the code does not know fades,
\* whatever else happens, once the host leaves the agent alone.
InventedFade ==
    \A t \in Types \ Predefined : (t \in DOMAIN sev) ~> (t \notin DOMAIN sev)
=============================================================================
