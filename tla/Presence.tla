------------------------------ MODULE Presence ------------------------------
(* Who is online, by city (core/presence.ts), over activity that comes live or *)
(* late, and the cities people are placed in (core/geography.ts). A city row   *)
(* is told apart by its city, country and zone; names are those of the zones.  *)
EXTENDS Integers, FiniteSets, Sequences, FiniteSetsExt, Functions, TLC

CONSTANTS
  Persons,
  Traits,      \* what sources may say of a person: [country, timezone, device]
  Homes,       \* home cities, [label, timezone], or NoHome
  COUNTRY_TIMEZONES,  \* country -> its representative zone
  CITY_BY_TIMEZONE,   \* zone -> [city, country]
  Hour,        \* units of time in an hour
  MaxTime,
  MaxRows

VARIABLES
  profile,     \* person -> [country, timezone], as stored
  homeCity,
  hourNow,     \* the time
  rowsIn       \* activity rows in the order of their ids: [who, at]
presenceVars == <<profile, homeCity, hourNow, rowsIn>>

null == "null"
never == -100
NoHome == [label |-> null, timezone |-> null]
or(a, b) == IF a # null THEN a ELSE b
timezoneFromCountry(c) == IF c \in DOMAIN COUNTRY_TIMEZONES THEN COUNTRY_TIMEZONES[c] ELSE null
countryFromTimezone(z) == IF z \in DOMAIN CITY_BY_TIMEZONE THEN CITY_BY_TIMEZONE[z].country ELSE null
resolveGeography(t) ==
  LET zone == or(t.timezone, or(t.device, timezoneFromCountry(t.country)))
  IN [country |-> or(t.country, countryFromTimezone(zone)), timezone |-> zone]
City(city, country, zone) == [city |-> city, country |-> country, timezone |-> zone]
Nowhere == City(null, null, null)
cityForGeography(g) ==
  LET fallback == timezoneFromCountry(g.country)
  IN IF g.timezone = null THEN Nowhere
     ELSE IF g.timezone \in DOMAIN CITY_BY_TIMEZONE
     THEN City(CITY_BY_TIMEZONE[g.timezone].city,
               or(g.country, CITY_BY_TIMEZONE[g.timezone].country), g.timezone)
     ELSE IF fallback \in DOMAIN CITY_BY_TIMEZONE
     THEN City(CITY_BY_TIMEZONE[fallback].city, g.country, g.timezone)
     ELSE City(g.timezone, g.country, g.timezone)
(* A stored person has no device zone any more.                                *)
cityOf(p) ==
  cityForGeography(resolveGeography([country |-> profile[p].country, timezone |-> profile[p].timezone,
                                     device |-> null]))

\* Mutant: T is the time of the first row.
BugFirstRow == IF rowsIn = <<>> THEN never ELSE rowsIn[1].at
(* T is the time of the row that came last, not the latest time.               *)
lastDataAsOf == IF rowsIn = <<>> THEN never ELSE rowsIn[Len(rowsIn)].at
inTrailingHour(t, at) == at - Hour < t /\ t <= at
onlinePersonIds(at) == {rowsIn[k].who : k \in {k \in DOMAIN rowsIn : inTrailingHour(rowsIn[k].at, at)}}
matchesHome(c) == c.timezone = homeCity.timezone \/ c.city = homeCity.label
Bucket(c) == {p \in Persons : cityOf(p) = c}
computePresence(asOf) ==
  LET now == IF asOf = never THEN {} ELSE onlinePersonIds(asOf)
      prev == IF asOf = never THEN {} ELSE onlinePersonIds(asOf - Hour)
      cities == {cityOf(p) : p \in Persons} \ {Nowhere}
      counts(S) == [users |-> Cardinality(S), online |-> Cardinality(S \cap now),
                    came |-> Cardinality((S \cap now) \ prev), dropped |-> Cardinality((S \cap prev) \ now)]
      row(c) == [city |-> c, home |-> homeCity # NoHome /\ matchesHome(c)]
                @@ counts(Bucket(c))
      rows == {row(c) : c \in cities}
      placed == cityForGeography(resolveGeography([country |-> null, timezone |-> homeCity.timezone, device |-> null]))
      empty == [city |-> City(homeCity.label, placed.country, homeCity.timezone), home |-> TRUE] @@ counts({})
  IN [cities |-> rows \cup (IF homeCity = NoHome \/ \E r \in rows : r.home THEN {} ELSE {empty}),
      unplaced |-> counts(Bucket(Nowhere)),
      all |-> counts(Persons)]

-----------------------------------------------------------------------------
Init ==
  /\ \E t \in [Persons -> Traits] : profile = [p \in Persons |-> resolveGeography(t[p])]
  /\ homeCity \in Homes /\ hourNow = 0 /\ rowsIn = <<>>
(* Sources deliver what happened earlier too.                                  *)
Ingest(p, t) ==
  /\ Len(rowsIn) < MaxRows /\ t <= hourNow
  /\ rowsIn' = Append(rowsIn, [who |-> p, at |-> t]) /\ UNCHANGED <<profile, homeCity, hourNow>>
Tick == hourNow < MaxTime /\ hourNow' = hourNow + 1 /\ UNCHANGED <<profile, homeCity, rowsIn>>
Next == Tick \/ \E p \in Persons, t \in 0..MaxTime : Ingest(p, t)
Spec == Init /\ [][Next]_presenceVars

-----------------------------------------------------------------------------
Tally(pr, field) == MapThenSumSet(LAMBDA r : r[field], pr.cities) + pr.unplaced[field]
(* Nobody is dropped or counted twice: the cities and the unplaced add up.     *)
EveryoneIsPlacedOnce ==
  LET pr == computePresence(lastDataAsOf)
  IN \A f \in {"users", "online", "came", "dropped"} : Tally(pr, f) = pr.all[f]
(* Online is real activity, never a guess about the time: with rows that came  *)
(* in order, those online are those of the last hour before the latest row.    *)
OnlineIsReal ==
  (\A j, k \in DOMAIN rowsIn : j < k => rowsIn[j].at <= rowsIn[k].at) /\ rowsIn # <<>> =>
    onlinePersonIds(lastDataAsOf) =
      {p \in Persons : \E k \in DOMAIN rowsIn : rowsIn[k].who = p
         /\ rowsIn[k].at > Max({rowsIn[j].at : j \in DOMAIN rowsIn}) - Hour}
(* The home city has a row even when nobody lives in it, and everybody who     *)
(* shares its zone is counted at home.                                         *)
HomeIsListed ==
  homeCity # NoHome =>
    LET home == {r \in computePresence(lastDataAsOf).cities : r.home}
    IN /\ home # {}
       /\ \A p \in Persons : profile[p].timezone = homeCity.timezone => \E r \in home : r.city = cityOf(p)
(* What is stored of a person places them as what was first said did: placing  *)
(* it again changes nothing, and only who has no zone at all is unplaced.      *)
PlacedForGood ==
  \A t \in Traits :
    LET g == resolveGeography(t)
        again == resolveGeography([country |-> g.country, timezone |-> g.timezone, device |-> null])
    IN /\ again = g /\ cityForGeography(again) = cityForGeography(g)
       /\ (t.timezone # null => g.timezone = t.timezone)
       /\ (t.timezone = null /\ t.device # null => g.timezone = t.device)
       /\ (cityForGeography(g) = Nowhere <=> g.timezone = null)
=============================================================================
