------------------------------ MODULE Clusters ------------------------------
(* Archetypes of activity (core/clustering.ts): the profile of a person's days *)
(* and the cascade of rules that names it, and the two writers of              *)
(* users.cluster, refreshWorkspaceClusters after a sync and                    *)
(* ensureWorkspaceClusters before a read, which only fills what is missing.    *)
(* Rates are in hundredths. An operator's model may rename the eight labels    *)
(* (refineClusterLabels): it changes no assignment and is left out.            *)
EXTENDS Integers, FiniteSets, Sequences, FiniteSetsExt, SequencesExt, TLC

CONSTANTS
  Person,      \* everybody: person -> [signup: day or -1, days: the days of activity]
  MaxDays,
  Labellers,   \* calls of the two writers
  JobDays      \* the days they may begin on

VARIABLES
  dayNow,
  label,       \* users.cluster: person -> archetype, or none
  jobs,        \* job -> [at, kind, ids: people still to write, names: what]
  mixed        \* history: two jobs have overlapped
clusterVars == <<dayNow, label, jobs, mixed>>

Archetypes == <<"daily", "weekday", "weekender", "casual", "monthly", "burst", "churned", "newbie">>
FeatureKeys == {"weekdayRate", "weekendRate", "overallRate", "recency", "burstiness", "monthlyness", "tenure"}
Shape(wd, we, all, rec, burst, month, tenure) ==
  [weekdayRate |-> wd, weekendRate |-> we, overallRate |-> all, recency |-> rec,
   burstiness |-> burst, monthlyness |-> month, tenure |-> tenure]
PROTOTYPES ==
  "daily" :> Shape(85, 65, 75, 2, 15, 5, 80) @@ "weekday" :> Shape(70, 6, 50, 5, 20, 5, 80)
  @@ "weekender" :> Shape(6, 85, 30, 8, 20, 5, 80) @@ "casual" :> Shape(22, 22, 22, 15, 25, 10, 70)
  @@ "monthly" :> Shape(8, 8, 6, 20, 20, 90, 80) @@ "burst" :> Shape(45, 45, 25, 10, 90, 10, 80)
  @@ "churned" :> Shape(20, 15, 10, 85, 30, 10, 80) @@ "newbie" :> Shape(40, 35, 40, 10, 20, 5, 5)

isWeekendDay(d) == d % 7 \in {5, 6}
Size(S) == Cardinality(S)
Clamp(n) == Max({0, Min({100, n})})
Root(n) == CHOOSE r \in 0..400 : r * r <= n /\ (r + 1) * (r + 1) > n
SumOf(s) == FoldLeft(+, 0, s)
(* The days between one day of activity and the next.                          *)
Gaps(days) ==
  LET inOrder == SelectSeq([k \in 1..MaxDays + 1 |-> k - 1], LAMBDA d : d \in days)
  IN [k \in 1..Len(inOrder) - 1 |-> inOrder[k + 1] - inOrder[k]]
(* Twice the median.                                                           *)
Median2(s) ==
  LET sorted == SortSeq(s, <)
      n == Len(s)
  IN IF n % 2 = 0 THEN sorted[n \div 2] + sorted[n \div 2 + 1] ELSE 2 * sorted[n \div 2 + 1]

burstiness(days) ==
  LET gaps == Gaps(days)
      n == Len(gaps)
      total == SumOf(gaps)
      spread == n * SumOf([k \in 1..n |-> gaps[k] * gaps[k]]) - total * total
      cv == Clamp((50 * Root(spread)) \div total)
      dense == \E d \in days : Size(days \cap d..d + 6) >= 4
      long == \E k \in 1..n : gaps[k] >= 10
  IN IF n < 2 THEN 0 ELSE IF long /\ dense THEN Max({cv, 75}) ELSE cv
\* Mutant: somebody seen once is monthly.
BugOnceIsMonthly(days, active, tenure) == IF tenure < 40 THEN 0 ELSE 100
monthlyness(days, active, tenure) ==
  LET gaps == Gaps(days)
      off == Median2(IF gaps = <<>> THEN <<tenure>> ELSE gaps) - 60
      near == 100 - Clamp((100 * (IF off < 0 THEN -off ELSE off)) \div 36)
  IN IF active < 2 \/ tenure < 40 THEN 0
     ELSE IF 100 * active < 15 * tenure THEN near ELSE near \div 4

(* Days of activity before the signup count for the rhythm, not the rates.     *)
buildActivityProfile(p, asOf) ==
  LET days == {d \in p.days : d <= asOf}
      start == IF p.signup # -1 THEN Min({p.signup, asOf})
               ELSE IF days # {} THEN Min(days) ELSE asOf
      tenure == asOf - start + 1
      since == {d \in days : d >= start}
      weekend == {d \in since : isWeekendDay(d)}
      weekends == {d \in start..asOf : isWeekendDay(d)}
      rate(n, slots) == (100 * n) \div Max({1, slots})
  IN [tenure |-> tenure, active |-> Size(since),
      weekdayActive |-> Size(since \ weekend), weekendActive |-> Size(weekend),
      weekdayRate |-> rate(Size(since \ weekend), tenure - Size(weekends)),
      weekendRate |-> rate(Size(weekend), Size(weekends)),
      overallRate |-> rate(Size(since), tenure),
      lastSeen |-> IF since = {} THEN tenure ELSE asOf - Max(days),
      burstiness |-> burstiness(days),
      monthlyness |-> monthlyness(days, Size(since), tenure)]
featuresOf(pr) ==
  Shape(pr.weekdayRate, pr.weekendRate, pr.overallRate,
        Clamp((200 * pr.lastSeen) \div Max({28, pr.tenure})),
        pr.burstiness, pr.monthlyness, Clamp((100 * pr.tenure) \div 60))
distance(a, b) == MapThenSumSet(LAMBDA k : (a[k] - b[k]) * (a[k] - b[k]), FeatureKeys)
Nearest(f) ==
  Archetypes[CHOOSE k \in DOMAIN Archetypes : \A j \in DOMAIN Archetypes :
    LET dk == distance(f, PROTOTYPES[Archetypes[k]])
        dj == distance(f, PROTOTYPES[Archetypes[j]])
    IN dk < dj \/ (dk = dj /\ k <= j)]

Share(n, pr, percent) == 100 * n >= percent * pr.active
assignArchetype(pr) ==
  CASE pr.tenure <= 14 -> "newbie"
    [] OTHER ->
  CASE pr.monthlyness >= 65 /\ pr.overallRate < 15 /\ pr.active >= 2 -> "monthly"
    [] OTHER ->
  CASE (pr.lastSeen >= 21 /\ pr.monthlyness < 50) \/ pr.active = 0 -> "churned"
    [] OTHER ->
  CASE Share(pr.weekendActive, pr, 70) /\ pr.weekendRate >= 30 /\ pr.weekdayRate < 20 -> "weekender"
    [] OTHER ->
  CASE Share(pr.weekdayActive, pr, 80) /\ pr.weekdayRate >= 28 /\ pr.weekendRate < 15 -> "weekday"
    [] OTHER ->
  CASE pr.overallRate >= 55 /\ pr.weekdayRate >= 45 /\ pr.weekendRate >= 30 -> "daily"
    [] OTHER ->
  CASE pr.burstiness >= 70 /\ pr.overallRate \in 8..54 -> "burst"
    [] OTHER ->
  CASE pr.overallRate < 8 /\ pr.lastSeen >= 14 -> "churned"
    [] OTHER -> Nearest(featuresOf(pr))
ProfileOf(p, asOf) == buildActivityProfile(Person[p], asOf)
Archetype(p, asOf) == assignArchetype(ProfileOf(p, asOf))

-----------------------------------------------------------------------------
none == "none"
Waiting == [at |-> "idle", kind |-> none, ids |-> {}, names |-> <<>>]
Through == [Waiting EXCEPT !.at = "done"]
ClustersInit ==
  /\ dayNow = 0 /\ label = [p \in DOMAIN Person |-> none]
  /\ jobs = [j \in Labellers |-> Waiting] /\ mixed = FALSE
NextDay == dayNow < MaxDays /\ dayNow' = dayNow + 1 /\ UNCHANGED <<label, jobs, mixed>>
Beside == \E k \in Labellers : jobs[k].at \notin {"idle", "done"}
\* Mutant: ensure takes everybody once somebody has no label.
BugEnsureAll(j, kind) ==
  /\ jobs[j].at = "idle" /\ dayNow \in JobDays
  /\ jobs' = [jobs EXCEPT ![j] = [Waiting EXCEPT !.at = "activity", !.kind = kind, !.ids = DOMAIN Person]]
  /\ mixed' = (mixed \/ Beside)
  /\ UNCHANGED <<dayNow, label>>
(* Both read the users, then the activity; refresh takes everybody.            *)
ReadUsers(j, kind) ==
  LET pending == {p \in DOMAIN Person : kind = "refresh" \/ label[p] = none}
  IN /\ jobs[j].at = "idle" /\ dayNow \in JobDays
     /\ jobs' = [jobs EXCEPT ![j] = IF pending = {} THEN Through
                                    ELSE [Waiting EXCEPT !.at = "activity", !.kind = kind, !.ids = pending]]
     /\ mixed' = (mixed \/ Beside)
     /\ UNCHANGED <<dayNow, label>>
ReadActivity(j) ==
  /\ jobs[j].at = "activity"
  /\ jobs' = [jobs EXCEPT ![j] = [at |-> "write", kind |-> @.kind, ids |-> @.ids,
                                  names |-> [p \in @.ids |-> Archetype(p, dayNow)]]]
  /\ UNCHANGED <<dayNow, label, mixed>>
(* writeAssignments, one person at a time, in the order the rows are read in   *)
(* (no query asks for one).                                                    *)
FirstRead(ids) == CHOOSE p \in ids : TRUE
WriteOne(j) ==
  LET p == FirstRead(jobs[j].ids)
      rest == jobs[j].ids \ {p}
  IN /\ jobs[j].at = "write"
     /\ label' = [label EXCEPT ![p] = jobs[j].names[p]]
     /\ jobs' = [jobs EXCEPT ![j] = IF rest = {} THEN Through ELSE [jobs[j] EXCEPT !.ids = rest]]
     /\ UNCHANGED <<dayNow, mixed>>
ClustersNext ==
  \/ NextDay
  \/ \E j \in Labellers : \/ \E kind \in {"refresh", "ensure"} : ReadUsers(j, kind)
                          \/ ReadActivity(j) \/ WriteOne(j)
ClustersSpec == ClustersInit /\ [][ClustersNext]_clusterVars

-----------------------------------------------------------------------------
Untouched == \A j \in Labellers : jobs[j].at = "idle"
(* A person who keeps a rhythm from the first day, a Monday, has its name on   *)
(* every day after the first two weeks, whatever weekday that is.              *)
Steady(p, in(_)) == Person[p].signup = 0 /\ \A d \in 0..dayNow : d \in Person[p].days <=> in(d)
RhythmIsNamed ==
  Untouched /\ dayNow >= 14 => \A p \in DOMAIN Person :
    /\ Steady(p, LAMBDA d : TRUE) => Archetype(p, dayNow) = "daily"
    /\ Steady(p, LAMBDA d : d % 7 < 5) => Archetype(p, dayNow) = "weekday"
    /\ Steady(p, LAMBDA d : d % 7 > 4) => Archetype(p, dayNow) = "weekender"
(* Three weeks of silence and the person is fading, unless they were only ever *)
(* seen about once a month: those stay monthly, however long ago it was.       *)
SilenceFades ==
  Untouched => \A p \in DOMAIN Person :
    LET pr == ProfileOf(p, dayNow)
    IN pr.lastSeen >= 21 /\ pr.tenure > 14 =>
         \/ Archetype(p, dayNow) = "churned"
         \/ \E k \in DOMAIN Gaps(Person[p].days) : Gaps(Person[p].days)[k] \in 21..39
(* ensureWorkspaceClusters never overwrites a label, unless another writer ran *)
(* between its reads and its writes.                                           *)
EnsureOnlyFills ==
  [][\A j \in Labellers :
       WriteOne(j) /\ jobs[j].kind = "ensure" /\ ~mixed => label[FirstRead(jobs[j].ids)] = none]_clusterVars
=============================================================================
