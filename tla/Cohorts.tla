------------------------------ MODULE Cohorts ------------------------------
(* Cohort retention (core/views/cohort-math.ts over the rows that              *)
(* core/views/cohorts.ts loads), while people join and use the product, and    *)
(* while sources bring days late. Time is counted in days; what happens on a   *)
(* day happens after its midnight. Percentages are rounded as in the code, and *)
(* the fit and the floor are compared as fractions.                            *)
EXTENDS Integers, FiniteSets, Sequences, SequencesExt, FiniteSetsExt, Functions

CONSTANTS
  Persons,
  Split,            \* person -> value of the split field, a number; 0 is "unknown"
  G,                \* days of a period of the grain
  COHORT_MIN_DAYS,
  CO_MINSIZE,
  Month,            \* days after signup that the fit leaves out (28)
  MaxClock,
  MaxLate           \* days of activity that sources bring late

VARIABLES
  clock,   \* today
  joined,  \* person -> day of signup, or none
  seen,    \* the days a person was active: <<person, day>>
  late     \* late days so far
cohortVars == <<clock, joined, seen, late>>

none == -1
CO_LEVEL == 25
COHORT_COMPARE_MAX_SERIES == 3
Top(a, b) == IF a > b THEN a ELSE b
Sum(f) == FoldFunction(+, 0, f)
(* <<F(1), .., F(n)>>                                                          *)
Listed(F(_), n) == LET s[k \in 0..n] == IF k = 0 THEN <<>> ELSE Append(s[k - 1], F(k)) IN s[n]
Round(a, b) == (2 * a + b) \div (2 * b)

(* The window: from the first day anything happened, which today bounds, to    *)
(* the day after the last, and never shorter than COHORT_MIN_DAYS.             *)
Dates == ({joined[p] : p \in Persons} \ {none}) \cup {s[2] : s \in seen}
baseDate == Min(Dates \cup {clock})
totalDays == IF Dates = {} THEN COHORT_MIN_DAYS ELSE Top(COHORT_MIN_DAYS, Max(Dates) - baseDate + 2)
\* Mutant: only whole periods (floor for ceil).
BugWholePeriods == totalDays \div G
maxPeriods == (totalDays + G - 1) \div G

SignedUp == {p \in Persons : joined[p] # none}
signupDay(p) == joined[p] - baseDate
Bucket(p) == signupDay(p) \div G
ActiveIn(p, from, to) == \E d \in from..to - 1 : <<p, d + baseDate>> \in seen

(* Least squares from period `from` on: slope is num over den.                 *)
coSlope(ret, from) ==
  LET n == Len(ret) - from
      X == 0..n - 1
      sx == Sum([x \in X |-> x])
      sy == Sum([x \in X |-> ret[from + x + 1]])
      sxy == Sum([x \in X |-> x * ret[from + x + 1]])
      sxx == Sum([x \in X |-> x * x])
  IN IF n < 3 THEN [num |-> 0, den |-> 1]
     ELSE [num |-> n * sxy - sx * sy, den |-> n * sxx - sx * sx]
(* The mean of the last five periods is under the level.                       *)
FloorIsLow(ret) ==
  LET tail == {k \in DOMAIN ret : k > Len(ret) - 5}
  IN Sum([k \in tail |-> ret[k]]) < CO_LEVEL * Cardinality(tail)
coGrade(ret, size) ==
  LET from == Top(1, Round(Month, G))
      slope == coSlope(ret, from)
      win == {k \in DOMAIN ret : k > from}
      sum == Sum([k \in win |-> ret[k]])
      base == Top(Cardinality(win), sum)   \* times the length of the window
  IN CASE size < CO_MINSIZE \/ Len(ret) < 4 -> "young"
       [] OTHER ->
            \* decay, the slope a week over the mean, is under -0.02
            IF slope.num * 7 * Cardinality(win) * 50 < -(slope.den * G * base) THEN "sliding"
            ELSE IF FloorIsLow(ret) THEN "low" ELSE "smile"

CohortOf(U, b) == {p \in U : Bucket(p) = b}
CountIn(U, b, p) ==
  LET start == (b + p - 1) * G
      end == IF start + G < totalDays THEN start + G ELSE totalDays
  IN Cardinality({u \in CohortOf(U, b) : ActiveIn(u, start, end)})
Row(U, b) ==
  LET counts == Listed(LAMBDA p : CountIn(U, b, p), maxPeriods - b)
      size == Cardinality(CohortOf(U, b))
      retention == Listed(LAMBDA p : Round(100 * counts[p], size), maxPeriods - b)
  IN [week |-> b, size |-> size, counts |-> counts, retention |-> retention,
      state |-> coGrade(retention, size)]
buildCohortRows(U) ==
  FoldLeft(LAMBDA rows, b : IF CohortOf(U, b) = {} THEN rows ELSE Append(rows, Row(U, b)),
           <<>>, [k \in 1..maxPeriods |-> k - 1])

(* The values of the split field, most people first, and the series compared:  *)
(* those asked for, or the first three.                                        *)
listSplitKeys ==
  LET count(v) == Cardinality({p \in SignedUp : Split[p] = v})
  IN SetToSortSeq({Split[p] : p \in SignedUp},
                  LAMBDA v, w : count(v) > count(w) \/ (count(v) = count(w) /\ v < w))
pickCompareSeriesKeys(requested) ==
  IF requested # <<>> THEN requested
  ELSE SubSeq(listSplitKeys, 1, Min({COHORT_COMPARE_MAX_SERIES, Len(listSplitKeys)}))
buildCompareSeries(requested) ==
  LET keys == pickCompareSeriesKeys(requested)
      of(k) == {p \in SignedUp : Split[p] = keys[k]}
  IN Listed(LAMBDA k : [size |-> Cardinality(of(k)), cohorts |-> buildCohortRows(of(k))], Len(keys))

cohortBenchmark(cohorts) ==
  LET width == Max({0} \cup {Len(cohorts[k].retention) : k \in DOMAIN cohorts})
      old(p) == {k \in DOMAIN cohorts : p <= Len(cohorts[k].retention)}
  IN Listed(LAMBDA p : Round(100 * Sum([k \in old(p) |-> cohorts[k].counts[p]]),
                             Sum([k \in old(p) |-> cohorts[k].size])), width)

-----------------------------------------------------------------------------
Init == clock = 0 /\ joined = [p \in Persons |-> none] /\ seen = {} /\ late = 0

(* A day goes by on which the people of Use used the product.                  *)
Day(Use) ==
  /\ clock < MaxClock /\ clock' = clock + 1
  /\ seen' = seen \cup {<<p, clock>> : p \in Use}
  /\ UNCHANGED <<joined, late>>
Join(p) ==
  /\ joined[p] = none /\ joined' = [joined EXCEPT ![p] = clock]
  /\ UNCHANGED <<clock, seen, late>>
(* A source brings an earlier day.                                             *)
Late(p, d) ==
  /\ late < MaxLate /\ joined[p] # none /\ d < clock /\ <<p, d>> \notin seen
  /\ seen' = seen \cup {<<p, d>>} /\ late' = late + 1
  /\ UNCHANGED <<clock, joined>>

Next ==
  \/ \E Use \in SUBSET SignedUp : Day(Use)
  \/ \E p \in Persons : Join(p) \/ \E d \in 0..MaxClock : Late(p, d)
Spec == Init /\ [][Next]_cohortVars

-----------------------------------------------------------------------------
Rows == buildCohortRows(SignedUp)
RowAt(r, b) == {r[k] : k \in {k \in DOMAIN r : r[k].week = b}}

(* Everyone who signed up is in one cohort, and, while three values of the     *)
(* split cover everyone, in one series: the series' curves add up to the       *)
(* table's.                                                                    *)
EveryoneIsCounted(rows) ==
  LET series == buildCompareSeries(<<>>)
      part(b, k) == Sum([s \in DOMAIN series |->
                           Sum([r \in RowAt(series[s].cohorts, b) |-> r.counts[k]])])
  IN /\ Sum([k \in DOMAIN rows |-> rows[k].size]) = Cardinality(SignedUp)
     /\ Len(listSplitKeys) <= COHORT_COMPARE_MAX_SERIES =>
          \A i \in DOMAIN rows : \A k \in DOMAIN rows[i].counts :
            rows[i].counts[k] = part(rows[i].week, k)

(* The benchmark of a period lies among the retentions it sums up, whichever   *)
(* cohorts are too young for the period.                                       *)
BenchmarkIsAMean(rows) ==
  LET mark == cohortBenchmark(rows)
  IN \A p \in DOMAIN mark :
       LET at == {rows[k].retention[p] : k \in {k \in DOMAIN rows : p <= Len(rows[k].retention)}}
       IN Min(at) <= mark[p] /\ mark[p] <= Max(at)

(* No day of use is lost at the edges of the window or of a period: over the   *)
(* whole table each person counts once in each period of the company they were *)
(* active in, from the period they joined in on.                               *)
NoUseIsLost(rows) ==
  LET used == {u \in SignedUp \X (0..MaxClock) :
                 \E s \in seen : /\ s[1] = u[1] /\ (s[2] - baseDate) \div G = u[2]
                                 /\ u[2] >= Bucket(u[1])}
  IN Sum([k \in DOMAIN rows |-> Sum(rows[k].counts)]) = Cardinality(used)
=============================================================================
