----------------------------- MODULE Milestones -----------------------------
(* Earned moments (core/milestones.ts): the detector over a workspace's facts, *)
(* and persistWorkspaceMilestones, which every good sync and every deletion of *)
(* a person runs, beside the calendar view that merges what it finds. Time is  *)
(* counted in days, in one zone (DayClock has the zones); a year has           *)
(* YearLength of them. Whether a cohort smiles is Cohorts' answer, given here. *)
EXTENDS Integers, FiniteSets, Sequences, SequencesExt, FiniteSetsExt

CONSTANTS
  Persons,
  SIGNUP_THRESHOLDS,  \* the counts of signups that are a moment
  Ladder,             \* the days of the company that are a moment
  YearLength,
  Runs,               \* calls of persistWorkspaceMilestones
  FirstActive,        \* the activity there may be at first
  Dates,              \* the days of what changes
  MaxToday,
  MaxFacts            \* changes of the facts

VARIABLES
  today,
  signup,     \* person -> day, or never
  active,     \* <<person, day>> of the activity rows
  foundedAt,  \* the founding date in the config, or never
  smileOn,    \* the day the first smiling cohort earned it, or never
  rows,       \* the workspace's milestone rows: [kind, n, at]
  runs,       \* run -> [at: stage, todo]
  facts,      \* changes so far
  overlap     \* history: a run looked at the rows while another was inserting
milestoneVars == <<today, signup, active, foundedAt, smileOn, rows, runs, facts, overlap>>

never == -1
MIN_STREAK == 2
Days == 0..MaxToday

(* A milestone of kind and number, and its row; the row keeps no key, so the   *)
(* key of a birthday is read back from the row's date.                         *)
Moment(kind, n, at) == [kind |-> kind, n |-> n, at |-> at]
YearOf(d) == d \div YearLength
milestoneKey(mo) == <<mo.kind, mo.n>>
eventMilestoneKey(row) ==
  <<row.kind, IF row.kind = "company_birthday" THEN YearOf(row.at) ELSE row.n>>

(* Signups up to asOf in order of their day, and the day of the n-th.          *)
SignedUp(su, asOf) == {p \in Persons : su[p] # never /\ su[p] <= asOf}
NthDay(su, asOf, n) ==
  Min({d \in Days : Cardinality({p \in SignedUp(su, asOf) : su[p] <= d}) >= n})
detectNthSignups(su, asOf) ==
  {Moment("nth_signup", n, NthDay(su, asOf, n)) :
     n \in {n \in SIGNUP_THRESHOLDS : n <= Cardinality(SignedUp(su, asOf))}}

(* The walk over one person's days: the run that ends at each day, and the     *)
(* first of the longest.                                                       *)
longestRunOfDays(ds) ==
  LET run[d \in Days] == IF d \notin ds THEN 0 ELSE IF d = 0 THEN 1 ELSE 1 + run[d - 1]
      best == Max({run[d] : d \in ds})
  IN [length |-> best, endedAt |-> Min({d \in ds : run[d] = best})]
\* Mutant: days to come are not left out.
BugStreakOfAll(ac, asOf) ==
  LET of(p) == {d \in Days : <<p, d>> \in ac}
      long == {r \in {longestRunOfDays(of(p)) : p \in {p \in Persons : of(p) # {}}} : r.length >= MIN_STREAK}
      best == CHOOSE r \in long : \A o \in long : r.length >= o.length
  IN IF long = {} THEN {} ELSE {Moment("longest_streak", best.length, best.endedAt)}
detectLongestStreak(ac, asOf) ==
  LET of(p) == {d \in Days : <<p, d>> \in ac /\ d <= asOf}
      found == {longestRunOfDays(of(p)) : p \in {p \in Persons : of(p) # {}}}
      long == {r \in found : r.length >= MIN_STREAK}
      best == CHOOSE r \in long : \A o \in long :
                r.length > o.length \/ (r.length = o.length /\ r.endedAt <= o.endedAt)
  IN IF long = {} THEN {} ELSE {Moment("longest_streak", best.length, best.endedAt)}

(* The configured founding, or the first signup, which may be one to come.     *)
Founding(su, fo) ==
  IF fo # never THEN fo
  ELSE IF \A p \in Persons : su[p] = never THEN never
  ELSE Min({su[p] : p \in Persons} \ {never})
detectCompanyBirthday(fo, asOf) ==
  IF fo = never \/ asOf < fo + YearLength THEN {}
  ELSE LET ann == fo + YearLength * ((asOf - fo) \div YearLength)
       IN {Moment("company_birthday", YearOf(ann), ann)}
detectCompanyDays(fo, asOf) ==
  IF fo = never THEN {} ELSE {Moment("company_day", n, fo + n) : n \in {n \in Ladder : n <= asOf - fo}}
detectFirstSmile(sm, asOf) ==
  IF sm = never THEN {} ELSE {Moment("first_smile", 1, IF sm <= asOf THEN sm ELSE asOf)}

detectMilestones(su, ac, asOf) ==
  LET fo == Founding(su, foundedAt)
  IN detectNthSignups(su, asOf) \cup detectLongestStreak(ac, asOf)
     \cup detectCompanyBirthday(fo, asOf) \cup detectCompanyDays(fo, asOf) \cup detectFirstSmile(smileOn, asOf)
keysOf(S) == {milestoneKey(mo) : mo \in S}
StoredKeys == {eventMilestoneKey(rows[k]) : k \in DOMAIN rows}

-----------------------------------------------------------------------------
NotRun == [at |-> "idle", todo |-> {}]
MilestonesInit ==
  /\ today = 0 /\ signup = [p \in Persons |-> never] /\ active \in FirstActive
  /\ foundedAt = never /\ smileOn = never /\ rows = <<>>
  /\ runs = [r \in Runs |-> NotRun] /\ facts = 0 /\ overlap = FALSE

Fact == facts < MaxFacts /\ facts' = facts + 1
(* Sources and imports write signups and activity of any day, past or to come. *)
SignUp(p, d) ==
  /\ Fact /\ signup[p] = never /\ signup' = [signup EXCEPT ![p] = d]
  /\ UNCHANGED <<today, active, foundedAt, smileOn, rows, runs, overlap>>
Act(p, d) ==
  /\ Fact /\ <<p, d>> \notin active /\ active' = active \cup {<<p, d>>}
  /\ UNCHANGED <<today, signup, foundedAt, smileOn, rows, runs, overlap>>
(* The founding date is refused when it is in the future.                      *)
SetFoundedAt(d) ==
  /\ Fact /\ (d = never \/ d <= today) /\ foundedAt' = d
  /\ UNCHANGED <<today, signup, active, smileOn, rows, runs, overlap>>
SmileOrNot(d) ==
  /\ Fact /\ smileOn' = d
  /\ UNCHANGED <<today, signup, active, foundedAt, rows, runs, overlap>>
DayGoesBy ==
  /\ today < MaxToday /\ today' = today + 1
  /\ UNCHANGED <<signup, active, foundedAt, smileOn, rows, runs, facts, overlap>>

(* detectWorkspaceMilestones reads the facts; a run that finds none is over.   *)
Detect(r, su, ac) ==
  LET found == detectMilestones(su, ac, today)
  IN /\ runs[r].at = "idle"
     /\ runs' = [runs EXCEPT ![r] =
          IF found = {} THEN [at |-> "done", todo |-> {}]
          ELSE [at |-> "detected", todo |-> found]]
(* At the end of a sync.                                                       *)
AfterSync(r) ==
  /\ Detect(r, signup, active)
  /\ UNCHANGED <<today, signup, active, foundedAt, smileOn, rows, facts, overlap>>
(* deletePerson: the person's rows go, then a run; the milestones stay.        *)
DeletePerson(r, p) ==
  /\ Fact /\ signup[p] # never
  /\ signup' = [signup EXCEPT ![p] = never] /\ active' = {a \in active : a[1] # p}
  /\ Detect(r, signup', active')
  /\ UNCHANGED <<today, foundedAt, smileOn, rows, overlap>>
(* It reads the workspace's calendar rows and keeps what has no key among      *)
(* them.                                                                       *)
LookAtRows(r) ==
  /\ runs[r].at = "detected"
  /\ runs' = [runs EXCEPT ![r] =
       [at |-> "inserting", todo |-> {mo \in @.todo : milestoneKey(mo) \notin StoredKeys}]]
  /\ overlap' = (overlap \/ \E o \in Runs \ {r} : runs[o].at = "inserting")
  /\ UNCHANGED <<today, signup, active, foundedAt, smileOn, rows, facts>>
(* It inserts them one at a time, in one order: the detector's is left out.    *)
FirstOf(todo) == CHOOSE mo \in todo : TRUE
Insert(r) ==
  LET mo == FirstOf(runs[r].todo)
  IN /\ runs[r].at = "inserting" /\ runs[r].todo # {}
     /\ rows' = Append(rows, mo)
     /\ runs' = [runs EXCEPT ![r] = [at |-> "inserting", todo |-> @.todo \ {mo}]]
     /\ UNCHANGED <<today, signup, active, foundedAt, smileOn, facts, overlap>>
(* An insert may fail, and the run with it.                                    *)
EndRun(r) ==
  /\ runs[r].at = "inserting"
  /\ runs' = [runs EXCEPT ![r] = [at |-> IF runs[r].todo = {} THEN "done" ELSE "failed", todo |-> {}]]
  /\ UNCHANGED <<today, signup, active, foundedAt, smileOn, rows, facts, overlap>>

MilestonesNext ==
  \/ \E p \in Persons : \E d \in Dates : SignUp(p, d) \/ Act(p, d)
  \/ \E d \in Dates \cup {never} : SetFoundedAt(d) \/ SmileOrNot(d)
  \/ DayGoesBy
  \/ \E r \in Runs : \/ AfterSync(r) \/ LookAtRows(r) \/ Insert(r) \/ EndRun(r)
                     \/ \E p \in Persons : DeletePerson(r, p)
MilestonesSpec == MilestonesInit /\ [][MilestonesNext]_milestoneVars

-----------------------------------------------------------------------------
Detected == detectMilestones(signup, active, today)
(* loadCalendarView, in no order: the rows, each at its place, and what is     *)
(* detected now and has no row.                                                *)
loadCalendarView ==
  {[row |-> k, shown |-> rows[k]] : k \in DOMAIN rows}
  \cup {[row |-> 0, shown |-> mo] : mo \in {mo \in Detected : milestoneKey(mo) \notin StoredKeys}}
keyOf(e) == IF e.row = 0 THEN milestoneKey(e.shown) ELSE eventMilestoneKey(e.shown)

(* A milestone has one row, as long as no run looked at the rows while another *)
(* was inserting: nothing in the table keeps a second one out.                 *)
OneRowPerKey ==
  overlap \/ \A k, l \in DOMAIN rows :
               eventMilestoneKey(rows[k]) = eventMilestoneKey(rows[l]) => k = l

(* Nothing is projected: each row was earned by the day it was written, and    *)
(* the detector finds nothing dated after today, whatever dates the sources    *)
(* bring.                                                                      *)
NothingIsProjected ==
  LET found == Detected
  IN /\ \A k \in DOMAIN rows : rows[k].at <= today
     /\ \A mo \in found : mo.at <= today

(* The calendar shows every earned milestone, and one of each: a row and its   *)
(* detection are never both listed.                                            *)
ShownOnce ==
  LET view == loadCalendarView
  IN /\ keysOf(Detected) \subseteq {keyOf(e) : e \in view}
     /\ overlap \/ \A e, f \in view : keyOf(e) = keyOf(f) => e = f

(* The longest streak is the longest stretch of days up to today on which some *)
(* person was active.                                                          *)
StreakIsLongest ==
  LET stretches == {n \in 1..MaxToday + 1 : \E p \in Persons, e \in 0..today :
                      e - n + 1 >= 0 /\ \A d \in e - n + 1..e : <<p, d>> \in active}
      told == detectLongestStreak(active, today)
  IN IF stretches \subseteq {1} THEN told = {}
     ELSE \E mo \in told : mo.n = Max(stretches)
=============================================================================
