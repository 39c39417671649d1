------------------------------ MODULE WbrLanes ------------------------------
(* The lanes of the weekly review: how a series is graded, and the finance     *)
(* lanes' series.                                                              *)
EXTENDS Integers, Sequences, FiniteSets, FiniteSetsExt, SequencesExt, Functions, TLC

(* The exception engine that grades a WBR metric (core/views/wbr-math.ts),     *)
(* over every short series of weeks against every target: a series grows week  *)
(* by week, as the deck sees it.                                               *)
CONSTANTS
  Values,     \* of a week
  MaxWeeks,
  consecutiveMissesForOff, consecutiveMissesForWatch,
  inputThinWinStdDevs, wrongWayLookbackWeeks

VARIABLES weeks, target, goodDir, type
statVars == <<weeks, target, goodDir, type>>

Hits(v, t, dir) == IF dir > 0 THEN v >= t ELSE v <= t
(* Weeks off target at the end of the series.                                  *)
Misses(w, t, dir) ==
  LET n == Len(w) IN n - Max({0} \cup {k \in 1..n : Hits(w[k], t, dir)})
SumOf(w) == FoldFunction(+, 0, w)
(* n^2 times the variance; a margin below thin standard deviations.            *)
Spread(w) == Len(w) * SumOf([k \in DOMAIN w |-> w[k] * w[k]]) - SumOf(w) * SumOf(w)
Thin(w, t) ==
  LET n == Len(w)
      margin == n * (w[n] - t)
  IN margin * margin < inputThinWinStdDevs * inputThinWinStdDevs * Spread(w)
Lookback(w) == Min({wrongWayLookbackWeeks, Len(w)})
WrongWay(w, dir) ==
  Lookback(w) >= 2 /\ (w[Len(w)] - w[Len(w) + 1 - Lookback(w)]) * dir < 0

wbrStat(w, t, dir, ty) ==
  LET miss == Misses(w, t, dir)
  IN CASE miss >= consecutiveMissesForOff -> "off"
       [] miss \in consecutiveMissesForWatch..consecutiveMissesForOff - 1 -> "watch"
       [] miss < consecutiveMissesForWatch /\ ty = "input" /\ (Thin(w, t) \/ WrongWay(w, dir)) -> "watch"
       [] OTHER -> "ok"

-----------------------------------------------------------------------------
StatInit ==
  /\ weeks \in {<<v>> : v \in Values} /\ target \in Values
  /\ goodDir \in {1, -1} /\ type \in {"input", "output"}
NextWeek(v) ==
  /\ Len(weeks) < MaxWeeks /\ weeks' = Append(weeks, v) /\ UNCHANGED <<target, goodDir, type>>
StatNext == \E v \in Values : NextWeek(v)
StatSpec == StatInit /\ [][StatNext]_statVars

-----------------------------------------------------------------------------
grade == wbrStat(weeks, target, goodDir, type)
Worse == "ok" :> 0 @@ "watch" :> 1 @@ "off" :> 2
(* An output is never kept on watch for how it hit its target, and whatever is *)
(* not discussed is on target.                                                 *)
OkIsOnTarget ==
  /\ grade = "ok" => Hits(weeks[Len(weeks)], target, goodDir)
  /\ type = "output" /\ Hits(weeks[Len(weeks)], target, goodDir) => grade = "ok"
(* Up and down are alike: a metric that should fall, seen in a mirror, is      *)
(* graded as one that should rise.                                             *)
MirrorImage ==
  grade = wbrStat([k \in DOMAIN weeks |-> -weeks[k]], -target, -goodDir, type)
(* A better last week never makes a grade worse, although it widens the wobble *)
(* a thin win is measured by.                                                  *)
BetterIsNeverWorse ==
  LET last == weeks[Len(weeks)]
      better == wbrStat([weeks EXCEPT ![Len(weeks)] = last + goodDir], target, goodDir, type)
  IN Worse[better] <= Worse[grade]

-----------------------------------------------------------------------------
(* The finance lanes of the weekly review (core/views/revenue.ts,              *)
(* core/views/revenue-math.ts), read off the weeks' snapshots of MRR and cash  *)
(* and the ledger, while weeks pass that have none.  A week's figures are its  *)
(* number, so that a value says whose it is; months, which only the demo seeds *)
(* have, rounding, and the grade of a lane (wbrStat) are left out.             *)
CONSTANTS
  Histories,     \* weeks with a snapshot when the deck is first read
  FirstWeek, LastWeek,   \* the weeks it is read in
  MaxGaps,       \* bound: weeks without a snapshot from then on
  MaxEvents      \* bound: subscriptions begun or ended from then on

VARIABLES
  thisWeek,
  mrrRows,       \* weeks with a row of mrr_snapshots
  cashRows,      \* weeks with a row of balance_snapshots
  happened,      \* subscription events: type, and the half of the week
  gaps
laneVars == <<thisWeek, mrrRows, cashRows, happened, gaps>>

subscriberCount(w) == w % 3
monthlyBurn(w) == (w % 4) - 1

Sorted(S) == SelectSeq([k \in 1..LastWeek + 1 |-> k - 1], LAMBDA w : w \in S)
Head_(s) == s[1]
Last_(s) == s[Len(s)]
lastSix(s) == IF Len(s) <= 6 THEN s ELSE SubSeq(s, Len(s) - 5, Len(s))
(* The weeks shown: six of the last nine, or all there are.                    *)
current(s) == lastSix(SelectSeq(s, LAMBDA w : Len(s) <= 6 \/ w >= Last_(s) - 8))
(* Of last year, 52 weeks before the first to 50 before the last, and one on   *)
(* either side.                                                                *)
priorYear(s, shown) ==
  IF shown = <<>> THEN <<>> ELSE SelectSeq(s, LAMBDA w : Head_(shown) - 53 <= w /\ w <= Last_(shown) - 49)
previous(s) == lastSix(priorYear(s, current(s)))
(* The week that the last one's yoy is against: itself where there is no other.*)
lastYear(now, ago) == IF ago = <<>> THEN Last_(now) ELSE Last_(ago)

countEventsInWeeks(kind, starts) ==
  [k \in DOMAIN starts |->
     Cardinality({e \in happened : e.type = kind /\ 2 * starts[k] <= e.at /\ e.at < 2 * starts[k] + 2})]
arpu(mrr, subscribers) == IF subscribers > 0 THEN mrr \div subscribers ELSE 0
runwayMonths(cash, burn) == IF burn <= 0 THEN 0 ELSE cash \div burn

mrrWeeks == current(Sorted(mrrRows))
mrrPrevWeeks == previous(Sorted(mrrRows))
cashWeeks == current(Sorted(cashRows))
cashPrevWeeks == previous(Sorted(cashRows))
lane(ws, prev) == [weeks |-> ws, prevWeeks |-> prev]
Each(F(_), s) == [k \in DOMAIN s |-> F(s[k])]
buildRevenueLanes ==
  LET months(w) == runwayMonths(w, monthlyBurn(w))
      each(w) == arpu(w, subscriberCount(w))
      of(kind) == lane(countEventsInWeeks(kind, mrrWeeks), countEventsInWeeks(kind, mrrPrevWeeks))
  IN [mrr |-> lane(mrrWeeks, mrrPrevWeeks), new |-> of("new"), churned |-> of("churned"),
      arpu |-> lane(Each(each, mrrWeeks), Each(each, mrrPrevWeeks)),
      runway |-> lane(Each(months, cashWeeks), Each(months, cashPrevWeeks))]
NoLane == lane(<<>>, <<>>)
loadRevenueLanes ==
  IF mrrRows = {} /\ cashRows = {} THEN [l \in DOMAIN buildRevenueLanes |-> NoLane] ELSE buildRevenueLanes

-----------------------------------------------------------------------------
LanesInit ==
  /\ thisWeek = FirstWeek /\ mrrRows \in Histories /\ cashRows = mrrRows /\ happened = {} /\ gaps = 0
(* A week begins, and its snapshots are taken or missed.                       *)
WeekBegins ==
  /\ thisWeek < LastWeek /\ thisWeek' = thisWeek + 1 /\ UNCHANGED happened
  /\ \E mrr \in BOOLEAN, cash \in BOOLEAN :
       /\ mrrRows' = mrrRows \cup (IF mrr THEN {thisWeek'} ELSE {})
       /\ cashRows' = cashRows \cup (IF cash THEN {thisWeek'} ELSE {})
       /\ gaps' = gaps + (IF mrr /\ cash THEN 0 ELSE 1) /\ gaps' <= MaxGaps
Subscription(kind, half) ==
  /\ Cardinality(happened) < MaxEvents
  /\ happened' = happened \cup {[type |-> kind, at |-> 2 * thisWeek + half]}
  /\ UNCHANGED <<thisWeek, mrrRows, cashRows, gaps>>
LanesNext == WeekBegins \/ \E kind \in {"new", "churned"}, half \in {0, 1} : Subscription(kind, half)

-----------------------------------------------------------------------------
Sum(s) == FoldLeft(LAMBDA x, y : x + y, 0, s)
(* The lanes of one source agree in their weeks, the last of them the newest   *)
(* there is; every subscription of a week that is shown counts once; and once  *)
(* there are more than six snapshots no week is shown as both years'.          *)
LanesAgree ==
  LET l == loadRevenueLanes IN
  /\ \A name \in {"new", "churned", "arpu"} :
       Len(l[name].weeks) = Len(l.mrr.weeks) /\ Len(l[name].prevWeeks) = Len(l.mrr.prevWeeks)
  /\ mrrRows # {} => \A w \in mrrRows : w <= Last_(l.mrr.weeks)
  /\ \A s \in {Sorted(mrrRows), Sorted(cashRows)} :
       Len(s) > 6 => ToSet(current(s)) \cap ToSet(previous(s)) = {}
  /\ Sum(l.new.weeks) + Sum(l.churned.weeks) = Cardinality({e \in happened : e.at \div 2 \in ToSet(l.mrr.weeks)})
(* "This week vs. same week last year": when the week 52 before the newest one *)
(* has its snapshot, the yoy of a lane is against that week (seriesWowYoy over *)
(* priorYear).                                                                 *)
SameWeekLastYear ==
  \A s \in {Sorted(mrrRows), Sorted(cashRows)} :
    s # <<>> /\ Last_(s) - 52 \in ToSet(s) => lastYear(current(s), previous(s)) = Last_(s) - 52
=============================================================================
