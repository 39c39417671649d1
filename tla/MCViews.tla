------------------------------ MODULE MCViews ------------------------------
(* The read models on small instances, one part per behaviour: the day clock;  *)
(* the windows of a WBR metric; its grade; the deck under its writers;         *)
(* the finance lanes; milestones; cohorts; presence; archetypes; and what      *)
(* three snapshot connectors store: a calendar feed and its lines, a bank,     *)
(* GitHub.                                                                     *)
EXTENDS DayClock, WbrSeries, WbrDeck, TLC

VARIABLES
  part,
  day, signup, active, foundedAt, smileOn, rows, runs, facts, overlap,
  clock, joined, seen, late,
  weeks, target, goodDir, type,
  profile, homeCity, hourNow, rowsIn,
  dayNow, label, jobs, mixed,
  occurring, polledAt, loop, sync, calendar, lines, inEvent, block, parsed,
  balance, ledger, bankWeek, payments, pulls, pull, snapshots, before,
  releases, stars, hubWeek, hub, shown, hubPoints, syncs, said, torn,
  thisWeek, mrrRows, cashRows, happened, gaps
momentVars == <<day, signup, active, foundedAt, smileOn, rows, runs, facts, overlap>>
cohortVars == <<clock, joined, seen, late>>
statVars == <<weeks, target, goodDir, type>>
presenceVars == <<profile, homeCity, hourNow, rowsIn>>
clusterVars == <<dayNow, label, jobs, mixed>>
feedVars == <<occurring, polledAt, loop, sync, calendar, lines, inEvent, block, parsed>>
bankVars == <<balance, ledger, bankWeek, payments, pulls, pull, snapshots, before>>
laneVars == <<thisWeek, mrrRows, cashRows, happened, gaps>>
hubVars == <<releases, stars, hubWeek, hub, shown, hubPoints, syncs, said, torn>>

(* DayClock: a zone that changes its clocks in the morning of spring and       *)
(* autumn, one that does so at midnight, one that does not; founded on a leap  *)
(* day or not.                                                                 *)
Zone(s, d, f, t) == [std |-> s, dst |-> d, from |-> f, to |-> t]
MCZones == {Zone(0, 0, 0, 0), Zone(1, 2, 1808, 2400), Zone(-1, 0, 1809, 2400)}
MCFounders == {239, 120}

(* WbrSeries: from the end of 2023 over a leap day into 2025.                  *)
On(y, month, d) == DayOf([year |-> y, month |-> month, day |-> d])
MCUsers == "ann" :> On(2024, 1, 30) @@ "bob" :> On(2024, 3, 1) @@ "cy" :> On(2024, 3, 4)
MCEvents == {<<"ann", On(2024, 1, 31)>>, <<"ann", On(2024, 2, 1)>>, <<"bob", On(2024, 2, 29)>>,
             <<"cy", On(2024, 3, 5)>>, <<"cy", On(2024, 3, 12)>>}
MCFirstDay == On(2023, 12, 20)
MCLastDay == On(2025, 2, 26)

(* Milestones: activity of two persons over three days.                        *)
Both(S, T) == ({"ann"} \X S) \cup ({"bob"} \X T)
MCActive == {{}, Both({0, 2}, {2}), Both({0, 1}, {1, 2})}
Mo == INSTANCE Milestones
  WITH today <- day, Persons <- {"ann", "bob"}, SIGNUP_THRESHOLDS <- {2}, Ladder <- {1}, YearLength <- 2,
       Runs <- {"r1", "r2"}, FirstActive <- MCActive, Dates <- {0, 2}, MaxToday <- 2, MaxFacts <- 2

(* Cohorts of three days, the last one cut short in a window of four or five.  *)
MCSplit == "ann" :> 1 @@ "bob" :> 0 @@ "cy" :> 1
Co == INSTANCE Cohorts
  WITH Persons <- {"ann", "bob", "cy"}, Split <- MCSplit, G <- 3, COHORT_MIN_DAYS <- 3, CO_MINSIZE <- 2,
       Month <- 3, MaxClock <- 4, MaxLate <- 1

(* WbrDeck: "a" is a metric of the founder's, "s" and "a" may be starters.      *)
P(week, value) == [at |-> week, value |-> value]
Wish(op, id, src, given) == [op |-> op, id |-> id, src |-> src, points |-> given, order |-> <<>>]
View == Wish("view", "none", "none", <<>>)
MCWishes ==
  "o1" :> {Wish("define", "a", "count", <<P(1, 1)>>), View}
  @@ "o2" :> {Wish("define", "a", "manual", <<P(1, 2), P(1, 3)>>),
              Wish("edit", "a", "none", <<>>), Wish("retire", "a", "none", <<>>),
              [Wish("reorder", "none", "none", <<>>) EXCEPT !.order = <<"s", "a">>],
              Wish("import", "a", "none", <<P(1, 2), P(2, 1)>>),
              Wish("accept", "none", "none", <<>>)}
  @@ "o3" :> {[Wish("accept", "none", "none", <<>>) EXCEPT !.order = <<"s">>], Wish("edit", "a", "count", <<>>),
              Wish("retire", "s", "none", <<>>), Wish("import", "a", "none", <<P(2, 1), P(2, 2)>>)}

(* Presence: Warsaw's zone has no city of its own, Manila's no country.        *)
Trait(c, z, d) == [country |-> c, timezone |-> z, device |-> d]
MCTraits == {Trait("FR", "null", "null"), Trait("BE", "Paris", "null"), Trait("PL", "null", "London"),
             Trait("null", "Manila", "London"), Trait("null", "null", "null"), Trait("PL", "null", "null")}
MCHomes == {[label |-> "Paris", timezone |-> "Paris"], [label |-> "Gdansk", timezone |-> "Warsaw"]}
MCCountries == "FR" :> "Paris" @@ "PL" :> "Warsaw" @@ "GB" :> "London" @@ "BE" :> "Brussels"
MCCities == "Paris" :> [city |-> "Paris", country |-> "FR"] @@ "London" :> [city |-> "London", country |-> "GB"]
Pr == INSTANCE Presence
  WITH Persons <- {"ann", "bob"}, Traits <- MCTraits, Homes <- MCHomes, COUNTRY_TIMEZONES <- MCCountries,
       CITY_BY_TIMEZONE <- MCCities, Hour <- 1, MaxTime <- 2, MaxRows <- 3

(* Clusters: somebody of every rhythm, somebody who signed up late, somebody   *)
(* who stopped.                                                                *)
Who(s, S) == [signup |-> s, days |-> S]
MCPerson ==
  "bu" :> Who(10, (3..7) \cup (25..29)) @@ "d" :> Who(0, 0..70) @@ "go" :> Who(-1, {5, 6, 9, 20})
  @@ "mo" :> Who(0, {0, 30}) @@ "wd" :> Who(0, {d \in 0..40 : d % 7 < 5}) @@ "we" :> Who(0, {d \in 0..70 : d % 7 > 4})
Cl == INSTANCE Clusters
  WITH Person <- MCPerson, MaxDays <- 70,
       Labellers <- {"j1", "j2"}, JobDays <- {69}

(* Feed: rules of every frequency, with an end or a count or none, from a      *)
(* month's last day and from before the clocks change.                         *)
Summertime == Zone(1, 2, On(2020, 3, 29) * 4, On(2020, 10, 25) * 4)
Rule(f, i, c, u, b) == [freq |-> f, interval |-> i, count |-> c, until |-> u, byDays |-> b]
Easter == On(2020, 4, 2) * 4
MCFeedEvents ==
  {[start |-> s * 4 + t, zone |-> z, rule |-> r] :
     s \in {On(2020, 3, 25), On(2020, 1, 31)}, t \in {0, 3},
     z \in {Zone(0, 0, 0, 0), Summertime},
     r \in {Rule("none", 1, 0, -1, {}), Rule("DAILY", 1, 0, -1, {}), Rule("DAILY", 3, 4, -1, {}),
            Rule("DAILY", 2, 0, Easter, {}), Rule("WEEKLY", 1, 0, -1, {}), Rule("WEEKLY", 2, 0, -1, {}),
            Rule("WEEKLY", 2, 0, -1, {0, 3}), Rule("WEEKLY", 1, 5, -1, {1, 4, 6}),
            Rule("WEEKLY", 1, 0, Easter, {2}), Rule("MONTHLY", 1, 0, -1, {}),
            Rule("MONTHLY", 2, 3, -1, {}), Rule("YEARLY", 1, 0, -1, {})}}
MCFeedNows == {On(2020, 4, 10) * 4, On(2021, 2, 1) * 4}
Once == [start |-> On(2020, 3, 25) * 4, zone |-> Zone(0, 0, 0, 0), rule |-> Rule("none", 1, 0, -1, {})]
Account(id, cash) == [id |-> id, cash |-> cash]
Sn == INSTANCE Snapshots
  WITH FeedEvents <- MCFeedEvents, FeedNows <- MCFeedNows, LOOKBACK <- 120, LOOKAHEAD <- 240,
       Lifetime <- 1600, MAX_OCCURRENCES <- 8, MaxLines <- 5,
       Accounts <- <<Account("chk", TRUE), Account("card", FALSE), Account("sav", TRUE)>>,
       Amounts <- {1, -2}, BANK_PAGE_SIZE <- 1, MAX_PAGES <- 3, MaxPayments <- 2, MaxPulls <- 2, MaxBankWeek <- 2,
       RELEASES <- 1, Weeks <- 2, MaxReleases <- 2, MaxHubWeek <- 3, MaxSyncs <- 2

(* WbrLanes: series of up to five weeks of small values; of revenue, nothing   *)
(* yet, a year and more of weeks, one or two missing.                          *)
MCHistories == {{}, 0..50, 0..50 \ {3}, 0..50 \ {4, 48}, {0, 3, 50}, 44..50}
Ln == INSTANCE WbrLanes
  WITH Values <- 0..3, MaxWeeks <- 5, consecutiveMissesForOff <- 2, consecutiveMissesForWatch <- 1,
       inputThinWinStdDevs <- 1, wrongWayLookbackWeeks <- 3,
       Histories <- MCHistories, FirstWeek <- 50, LastWeek <- 57, MaxGaps <- 1, MaxEvents <- 1

-----------------------------------------------------------------------------
ViewsInit ==
  /\ part \in {"clock", "series", "moments", "cohorts", "deck", "stat", "presence", "clusters", "feed", "lines", "bank", "hub", "lanes"}
  /\ SeriesInit /\ Co!Init /\ DeckInit /\ Cl!ClustersInit
  /\ IF part = "clock" THEN Init ELSE founded = 239 /\ homeZone = Zone(0, 0, 0, 0) /\ instant = founded
  /\ IF part = "moments" THEN Mo!MilestonesInit ELSE Mo!MilestonesInit /\ active = {}
  /\ IF part = "stat" THEN Ln!StatInit
     ELSE weeks = <<0>> /\ target = 0 /\ goodDir = 1 /\ type = "input"
  /\ Sn!FeedInit /\ (part # "feed" => occurring = Once /\ polledAt = On(2020, 4, 10) * 4) /\ Sn!BankInit /\ Sn!GitHubInit /\ Ln!LanesInit /\ (part # "lanes" => mrrRows = {})
  /\ IF part = "presence" THEN Pr!Init
     ELSE /\ profile = [p \in {"ann", "bob"} |-> [country |-> "null", timezone |-> "null"]]
          /\ homeCity = [label |-> "Paris", timezone |-> "Paris"] /\ hourNow = 0 /\ rowsIn = <<>>

snapshotVars == <<feedVars, bankVars, hubVars, laneVars>>
Rest1 == <<part, momentVars, cohortVars, deckVars>>
Rest2 == <<statVars, presenceVars, clusterVars, snapshotVars>>
ClockPart == part = "clock" /\ Next /\ UNCHANGED <<seriesVars, Rest1, Rest2>>
SeriesPart == part = "series" /\ SeriesNext /\ UNCHANGED <<clockVars, Rest1, Rest2>>
Days == <<clockVars, seriesVars, part>>
MomentPart == part = "moments" /\ Mo!MilestonesNext /\ UNCHANGED <<Days, cohortVars, deckVars, Rest2>>
CohortPart == part = "cohorts" /\ Co!Next /\ UNCHANGED <<Days, momentVars, deckVars, Rest2>>
DeckPart == part = "deck" /\ DeckNext /\ UNCHANGED <<Days, momentVars, cohortVars, Rest2>>
StatPart == part = "stat" /\ Ln!StatNext /\ UNCHANGED <<clockVars, seriesVars, Rest1, presenceVars, clusterVars, snapshotVars>>
PresencePart == part = "presence" /\ Pr!Next /\ UNCHANGED <<clockVars, seriesVars, Rest1, statVars, clusterVars, snapshotVars>>
ClusterPart == part = "clusters" /\ Cl!ClustersNext /\ UNCHANGED <<clockVars, seriesVars, Rest1, statVars, presenceVars, snapshotVars>>
Others == <<clockVars, seriesVars, Rest1, statVars, presenceVars, clusterVars>>
FeedPart == part = "feed" /\ Sn!Sync /\ UNCHANGED <<Others, bankVars, hubVars, laneVars>>
LinesPart == part = "lines" /\ Sn!Parse /\ UNCHANGED <<Others, bankVars, hubVars, laneVars>>
BankPart == part = "bank" /\ Sn!BankNext /\ UNCHANGED <<Others, feedVars, hubVars, laneVars>>
HubPart == part = "hub" /\ Sn!GitHubNext /\ UNCHANGED <<Others, feedVars, bankVars, laneVars>>
LanePart == part = "lanes" /\ Ln!LanesNext /\ UNCHANGED <<Others, feedVars, bankVars, hubVars>>

ViewsNext ==
  \/ ClockPart \/ SeriesPart \/ MomentPart \/ CohortPart
  \/ DeckPart \/ StatPart \/ PresencePart \/ ClusterPart
  \/ FeedPart \/ LinesPart \/ BankPart \/ HubPart \/ LanePart
viewsVars == <<clockVars, seriesVars, Rest1, Rest2>>
ViewsSpec == ViewsInit /\ [][ViewsNext]_viewsVars
(* The finance lanes alone.                                                    *)
LanesSpec == ViewsInit /\ part = "lanes" /\ [][LanePart]_viewsVars

-----------------------------------------------------------------------------
(* Each part's properties are stated in its module; of a part that is not the  *)
(* one running nothing is asked.                                               *)

(* The windows of a metric: trailing weeks partition their days, months hold   *)
(* theirs, a year ago is the same date and the same point, and the counts of a *)
(* week agree with each other (wbr-builder.ts:168-366); a metric that is not   *)
(* discussed is on target, up and down are graded alike, and a better week is  *)
(* not a worse grade (wbrStat); the finance lanes agree in their weeks, and    *)
(* count each subscription once (loadRevenueSeries).                           *)
WbrHolds ==
  /\ part = "series" =>
       /\ WeeksAreAPartition /\ MonthsHoldTheirDays /\ YearAgoIsTheDate
       /\ PointsLineUp /\ MeasuresAgree
  /\ part = "stat" => Ln!OkIsOnTarget /\ Ln!MirrorImage /\ Ln!BetterIsNeverWorse
  /\ part = "lanes" => Ln!LanesAgree
(* The calendar shows of a feed's rule what it means, at the start's wall      *)
(* clock, once, and of one sync, and an event has its own lines (ics.ts); a    *)
(* bank's snapshot is what was there when nothing moved, and leaves nothing    *)
(* out when something did (mercury.ts); what a GitHub sync answered ok for is  *)
(* written, and the weeks of commits survive a 202 (github.ts).                *)
SnapshotsHold ==
  /\ part = "feed" => Sn!WallClockIsKept /\ Sn!RuleIsFollowed /\ Sn!MonthsAreNotSkipped /\ Sn!CalendarIsOneSync
  /\ part = "lines" => Sn!EventsAreTheirOwn
  /\ part = "bank" => Sn!QuietPullIsTrue /\ Sn!NothingIsLeftOut
  /\ part = "hub" => Sn!AnsweredIsWritten /\ Sn!CommitsSurvive /\ Sn!ReleasesAreOfOnePage
(* A milestone has one row and one place in the calendar, none is of the       *)
(* future, and the longest streak is the longest (persistWorkspaceMilestones,  *)
(* mergeCalendarMilestones, detectMilestones).                                 *)
MilestonesHold ==
  part = "moments" =>
    Mo!OneRowPerKey /\ Mo!ShownOnce /\ Mo!NothingIsProjected /\ Mo!StreakIsLongest
(* Everyone is in one cohort and one series, the benchmark lies among the      *)
(* curves, and no day of use is lost at an edge (buildCohortRows,              *)
(* cohortBenchmark, cohortWindow).                                             *)
CohortsHold ==
  part = "cohorts" =>
    LET table == Co!Rows
    IN Co!EveryoneIsCounted(table) /\ Co!BenchmarkIsAMean(table) /\ Co!NoUseIsLost(table)
(* "This week vs. same week last year" in the finance lanes.                   *)
SameWeekLastYear == Ln!SameWeekLastYear
(* The cities and the unplaced add up, online is who did something in the last *)
(* hour of data, the home city is listed with its zone's people, and what is   *)
(* stored places a person as before (computePresence, resolveGeography).       *)
PresenceHolds ==
  part = "presence" =>
    Pr!EveryoneIsPlacedOnce /\ Pr!OnlineIsReal /\ Pr!HomeIsListed /\ Pr!PlacedForGood
(* A rhythm kept from the first day has its name, and three weeks of silence   *)
(* fade who was not monthly (assignArchetype).                                 *)
ArchetypesFit == part = "clusters" => Cl!RhythmIsNamed /\ Cl!SilenceFades
(* An imported value is stored, and ensureWorkspaceClusters overwrites no      *)
(* label (importManualCsv, writeAssignments).                                  *)
WritesOnlyFill == ImportedIsStored /\ Cl!EnsureOnlyFills
=============================================================================
