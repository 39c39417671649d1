----------------------------- MODULE WbrSeries -----------------------------
(* The numbers of a WBR metric (core/wbr-builder.ts): the trailing windows an  *)
(* event count is taken over, while the review day moves through the calendar, *)
(* and the weeks and the weeks of a year ago that are read off the points of a *)
(* manual metric.                                                              *)
EXTENDS DayClock, FiniteSets, FiniteSetsExt, SequencesExt

CONSTANTS
  Users,      \* person -> day of the signup
  Events,     \* <<person, day>> of the activity rows
  FirstDay,   \* the review days
  LastDay,
  MaxMissed   \* weeks a point is missing of

VARIABLES
  review,     \* the day the deck is read
  stored,     \* a manual metric's points, each by its age in weeks
  missed      \* weeks without a point
seriesVars == <<review, stored, missed>>

Week == 7
MaxWeeks == (LastDay - FirstDay) \div 7 + 1
MonthWindow == 32
Listed(F(_), n) == FoldLeft(LAMBDA s, k : Append(s, F(k)), <<>>, [k \in 1..n |-> k])
(* JavaScript's Date.UTC: a day past the end of its month is of the next, and  *)
(* a month before the first is of the year before.                             *)
DateUTC(y, month, day) == MonthStart(y + ((month - 1) \div 12), ((month - 1) % 12) + 1) + day - 1
trailingWeekStarts(now, count, yearOffset) ==
  LET c == CivilOf[now]
      end == DateUTC(c.year + yearOffset, c.month, c.day)
  IN Listed(LAMBDA k : end - Weekday(end) - (count - k) * Week, count)
\* Mutant: the months before January keep the year.
BugMonthsOfOneYear(now, n, yearOffset) ==
  LET c == CivilOf[now]
  IN Listed(LAMBDA k : DateUTC(c.year + yearOffset, ((c.month - (n - k) - 1) % 12) + 1, 1), n)
trailingMonthStarts(now, count, yearOffset) ==
  LET c == CivilOf[now] IN Listed(LAMBDA k : DateUTC(c.year + yearOffset, c.month - (count - k), 1), count)
inWindow(d, start, length) == start <= d /\ d < start + length

countSignups(starts, length) ==
  [k \in DOMAIN starts |-> Cardinality({p \in DOMAIN Users : inWindow(Users[p], starts[k], length)})]
countActives(starts, length) ==
  [k \in DOMAIN starts |-> Cardinality({e[1] : e \in {e \in Events : inWindow(e[2], starts[k], length)}})]
(* Of those who signed up before the window's end, those active in it; in per  *)
(* mille, rounded down where the code keeps two places of a percentage.        *)
countRetention(starts, length) ==
  [k \in DOMAIN starts |->
     LET cohort == {p \in DOMAIN Users : Users[p] < starts[k] + length}
         retained == {p \in cohort : \E e \in Events : e[1] = p /\ inWindow(e[2], starts[k], length)}
     IN IF cohort = {} THEN 0 ELSE (1000 * Cardinality(retained)) \div Cardinality(cohort)]
countFilteredEvents(starts, length) ==
  [k \in DOMAIN starts |-> Cardinality({e \in Events : inWindow(e[2], starts[k], length)})]
count(measure, starts, length) ==
  CASE measure = "signups" -> countSignups(starts, length)
    [] measure = "retention" -> countRetention(starts, length)
    [] measure = "actives" -> countActives(starts, length)
    [] measure = "events" -> countFilteredEvents(starts, length)
computeEventCountSeries(measure, now) ==
  [weeks |-> count(measure, trailingWeekStarts(now, 6, 0), Week),
   prevWeeks |-> count(measure, trailingWeekStarts(now, 6, -1), Week),
   months |-> count(measure, trailingMonthStarts(now, 12, 0), MonthWindow),
   prevMonths |-> count(measure, trailingMonthStarts(now, 12, -1), MonthWindow)]

(* The points of a manual metric by age, newest first, are cut by position and *)
(* turned round; a short series is padded in front.                            *)
newestFirst == SelectSeq([k \in 1..MaxWeeks |-> k - 1], LAMBDA age : age \in stored)
slice(s, from, to) == [k \in 1..Max({0, Min({to, Len(s)}) - from}) |-> s[from + k]]
Absent == -1
pad(s, n) == [k \in 1..n |-> IF k <= n - Len(s) THEN Absent ELSE s[k - (n - Len(s))]]
pointsToSeries ==
  [weeks |-> pad(Reverse(slice(newestFirst, 0, 6)), 6),
   prevWeeks |-> pad(Reverse(slice(newestFirst, 52, 58)), 6)]

-----------------------------------------------------------------------------
SeriesInit == review = FirstDay /\ stored = {} /\ missed = 0
(* A day passes; on a Monday the founder keeps the point of the week, or       *)
(* misses it.                                                                  *)
ReviewDay ==
  /\ review < LastDay /\ review' = review + 1
  /\ IF Weekday(review') # 0 THEN UNCHANGED <<stored, missed>>
     ELSE \E given \in BOOLEAN :
            /\ stored' = {a + 1 : a \in stored} \cup (IF given THEN {0} ELSE {})
            /\ missed' = missed + (IF given THEN 0 ELSE 1) /\ missed' <= MaxMissed
SeriesNext == ReviewDay
SeriesSpec == SeriesInit /\ [][SeriesNext]_seriesVars

-----------------------------------------------------------------------------
weekStarts == trailingWeekStarts(review, 6, 0)
monthStarts == trailingMonthStarts(review, 12, 0)
In(d, starts, length) == {k \in DOMAIN starts : inWindow(d, starts[k], length)}

(* The six weeks are a partition of the days from the first Monday to the day  *)
(* of the review, which is in the last of them: through leap days and new      *)
(* years no day is lost or counted in two weeks.                               *)
WeeksAreAPartition ==
  LET starts == weekStarts IN
  \A d \in starts[1]..review :
    Cardinality(In(d, starts, Week)) = 1 /\ (d = review => In(d, starts, Week) = {6})
(* Every day of the twelve months is counted in its month. The windows are 32  *)
(* days, so the first days after a shorter month are counted in that too: no   *)
(* other day is counted twice, and none three times.                           *)
Sunday == Weekday(review) = 6
MonthsHoldTheirDays ==
  Sunday =>
  LET starts == monthStarts IN
  \A d \in review - 330..review :
    LET c == CivilOf[d] IN
    \E own \in 1..12 :
      /\ starts[own] = d - c.day + 1
      /\ In(d, starts, MonthWindow) =
           {own} \cup (IF own > 1 /\ c.day <= MonthWindow - (starts[own] - starts[own - 1])
                      THEN {own - 1} ELSE {})
(* The week a year ago is the one with the same date in it (the 29th of        *)
(* February has the 1st of March), 52 or 53 weeks back.                        *)
YearAgoIsTheDate ==
  LET c == CivilOf[review]
      ago == trailingWeekStarts(review, 6, -1)
  IN /\ inWindow(DateUTC(c.year - 1, c.month, c.day), ago[6], Week)
     /\ weekStarts[6] - ago[6] \in {52 * Week, 53 * Week}
(* A manual metric's weeks of a year ago are those 52 weeks before the weeks   *)
(* shown, unless a week in between has no point: points are taken by position. *)
PointsLineUp ==
  LET s == pointsToSeries
  IN \A k \in 1..6 :
       s.weeks[k] # Absent /\ s.prevWeeks[k] # Absent
       /\ (\A a \in s.weeks[k]..s.prevWeeks[k] : a \in stored)
         => s.prevWeeks[k] = s.weeks[k] + 52
(* The measures agree with each other: a signup is of one week, and nobody     *)
(* is retained or active who did nothing (the windows change once a week).     *)
MeasuresAgree ==
  Sunday =>
  LET starts == weekStarts
      of(m) == computeEventCountSeries(m, review).weeks
      signups == of("signups")  retention == of("retention")  actives == of("actives")  events == of("events")
      since(k) == Cardinality({p \in DOMAIN Users : Users[p] >= starts[1] + (k - 1) * Week})
  IN \A k \in 1..6 : /\ signups[k] = since(k) - since(k + 1)
                    /\ retention[k] * (Cardinality(DOMAIN Users) - since(k + 1)) <= 1000 * actives[k]
                    /\ actives[k] <= events[k]
=============================================================================
