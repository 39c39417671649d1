------------------------------ MODULE DayClock ------------------------------
(* The shared day clock (core/day.ts): day number, week, time left today, the  *)
(* ladder of milestone days and the founding anniversary, in the workspace's   *)
(* home zone, while time passes. Instants are counted in units of which        *)
(* DayLength make a day of UTC; civil dates are those of the Gregorian         *)
(* calendar, a day being numbered from the first of January of FirstYear.      *)
EXTENDS Integers, Sequences, FiniteSets, FiniteSetsExt

CONSTANTS
  FirstYear,  \* the first year of the calendar
  LastYear,   \* and the last
  DayLength,  \* units of time in a day
  Zones,      \* home zones: [std, dst: Int, from, to: an instant each]
  Founders,   \* the instants a company may be founded at
  MaxInstant

VARIABLES instant, founded, homeZone
clockVars == <<instant, founded, homeZone>>

-----------------------------------------------------------------------------
(* The Gregorian calendar, in which the WBR's windows and the feeds count too. *)
Leap(y) == y % 4 = 0 /\ (y % 100 # 0 \/ y % 400 = 0)
daysInMonth(y, month) ==
  CASE month = 2 -> IF Leap(y) THEN 29 ELSE 28
    [] month \in {4, 6, 9, 11} -> 30
    [] OTHER -> 31
(* The days before a month, leap days counted, from the first of January of    *)
(* FirstYear.                                                                  *)
BeforeMonth == <<0, 31, 59, 90, 120, 151, 181, 212, 243, 273, 304, 334>>
BeforeYear(y) == LET n == y - 1 IN 365 * n + n \div 4 - n \div 100 + n \div 400
MonthStart(y, month) ==
  BeforeYear(y) - BeforeYear(FirstYear) + BeforeMonth[month] + (IF month > 2 /\ Leap(y) THEN 1 ELSE 0)
DayOf(c) == MonthStart(c.year, c.month) + c.day - 1
CivilOf[d \in 0..MonthStart(LastYear + 1, 1) - 1] ==
  LET y == CHOOSE y \in FirstYear..LastYear : MonthStart(y, 1) <= d /\ d < MonthStart(y + 1, 1)
      mo == CHOOSE mo \in 1..12 : MonthStart(y, mo) <= d /\ d < MonthStart(y, mo) + daysInMonth(y, mo)
  IN [year |-> y, month |-> mo, day |-> d - MonthStart(y, mo) + 1]
(* Monday is 0.                                                                *)
Weekday(d) == (BeforeYear(FirstYear) + d) % 7

-----------------------------------------------------------------------------

zoneOffset(t, z) == IF z.from <= t /\ t < z.to THEN z.dst ELSE z.std
civilDateInZone(t, z) == CivilOf[(t + zoneOffset(t, z)) \div DayLength]
compareCivilDates(a, b) == DayOf(a) - DayOf(b)
clampCivilDate(y, month, day) ==
  [year |-> y, month |-> month,
   day |-> IF day < daysInMonth(y, month) THEN day ELSE daysInMonth(y, month)]
addCivilDays(c, n) == CivilOf[DayOf(c) + n]
civilDaysBetween(a, b) == DayOf(b) - DayOf(a)
utcMidnightFromCivil(c) == DayOf(c) * DayLength

\* Mutant: the offset is looked up once, at the guess.
BugOneLookup(c, z) == DayOf(c) * DayLength - zoneOffset(DayOf(c) * DayLength, z)
(* The offset is looked up twice: at the guess, then at the corrected instant. *)
zonedMidnight(c, z) ==
  LET guess == DayOf(c) * DayLength
      once == guess - zoneOffset(guess, z)
  IN guess - zoneOffset(once, z)

dayNumber(f, t, z) ==
  LET n == civilDaysBetween(civilDateInZone(f, z), civilDateInZone(t, z))
  IN IF n < 0 THEN 0 ELSE n
timeLeftToday(t, z) ==
  LET left == zonedMidnight(addCivilDays(civilDateInZone(t, z), 1), z) - t
  IN IF left < 0 THEN 0 ELSE left
civilDateOfDayN(f, n, z) == addCivilDays(civilDateInZone(f, z), n)

DAY_MILESTONE_LADDER == <<100, 200, 300, 365, 500, 730, 1000>>
nextMilestoneDay(n) ==
  LET above == {i \in DOMAIN DAY_MILESTONE_LADDER : DAY_MILESTONE_LADDER[i] > n}
  IN IF above # {} THEN DAY_MILESTONE_LADDER[Min(above)]
     ELSE ((n + 1 + 99) \div 100) * 100
isDayMilestone(n) == n > 0 /\ nextMilestoneDay(n - 1) = n
(* The rungs climbed from cursor up to n.                                      *)
earnedDayMilestones(n) ==
  LET climb[cursor \in 0..n] ==
        LET next == nextMilestoneDay(cursor)
        IN IF next > n THEN {} ELSE {next} \cup climb[next]
  IN climb[0]

none == -1
anniversaryOnOrBefore(f, t, z) ==
  LET start == civilDateInZone(f, z)
      today == civilDateInZone(t, z)
      this == clampCivilDate(today.year, start.month, start.day)
      ann == IF compareCivilDates(this, today) > 0
             THEN clampCivilDate(today.year - 1, start.month, start.day) ELSE this
  IN IF compareCivilDates(today, start) < 0 \/ compareCivilDates(ann, start) <= 0
     THEN none ELSE utcMidnightFromCivil(ann)

-----------------------------------------------------------------------------
(* What workspaceDayClock answers at each instant, at a fixed founding.        *)
dayN == dayNumber(founded, instant, homeZone)
birthday == anniversaryOnOrBefore(founded, instant, homeZone)
today == DayOf(civilDateInZone(instant, homeZone))

Init == founded \in Founders /\ homeZone \in Zones /\ instant = founded
Pass == instant < MaxInstant /\ instant' = instant + 1 /\ UNCHANGED <<founded, homeZone>>
Next == Pass
Spec == Init /\ [][Next]_clockVars

-----------------------------------------------------------------------------
(* The company's day never goes back, not even through a change of the clocks, *)
(* and no day is skipped: it moves by one when the date does.                  *)
DaysAreCounted == dayN' \in {dayN, dayN + 1} /\ dayN' - dayN = today' - today

(* When the time left today has run out it is tomorrow, and not a unit before, *)
(* in a zone whose clocks do not change at midnight: there the first hour of   *)
(* the day does not exist, or comes twice.                                     *)
AtMidnight(z) == \E t \in {z.from, z.to}, o \in {z.std, z.dst} : (t + o) % DayLength = 0
CountdownReachesTomorrow ==
  AtMidnight(homeZone) \/
  LET left == timeLeftToday(instant, homeZone)
  IN /\ left > 0
     /\ DayOf(civilDateInZone(instant + left, homeZone)) = today + 1
     /\ DayOf(civilDateInZone(instant + left - 1, homeZone)) = today

(* The days the detector lists as earned are those the module celebrates on    *)
(* their day: the two walks of the ladder agree, and each is dated to the day  *)
(* it was.                                                                     *)
EarnedAreCelebrated ==
  LET earned == earnedDayMilestones(dayN)
      now == earnedDayMilestones(dayN')
  IN dayN' # dayN =>
       /\ now = earned \cup (IF isDayMilestone(dayN') THEN {dayN'} ELSE {})
       /\ \A n \in now : DayOf(civilDateOfDayN(founded, n, homeZone)) = today' - (dayN' - n)

(* A birthday comes on its own day, once in every year from the second: a      *)
(* company founded on the 29th of February has one each year too.              *)
OneBirthdayAYear ==
  birthday' # birthday =>
    LET c == civilDateInZone(instant', homeZone)
        f == civilDateInZone(founded, homeZone)
        was == IF birthday = none THEN f.year ELSE CivilOf[birthday \div DayLength].year
    IN /\ birthday' = today' * DayLength
       /\ c.year = was + 1
       /\ c.month = f.month /\ (c.day = f.day \/ (f.day = 29 /\ c.day = 28))

(* Together, of every step of the clock (computeDayClock).                     *)
ClockIsRight ==
  [][instant' # instant =>
       /\ DaysAreCounted /\ CountdownReachesTomorrow
       /\ EarnedAreCelebrated /\ OneBirthdayAYear]_clockVars
=============================================================================
