SPECIFICATION LanesSpec
CONSTANTS
  DayLength = 4
  FirstYear = 2020
  LastYear = 2025
  Zones <- MCZones
  Founders <- MCFounders
  MaxInstant = 2420
  Users <- MCUsers
  Events <- MCEvents
  FirstDay <- MCFirstDay
  LastDay <- MCLastDay
  MaxMissed = 1
  Metrics = {"a", "s"}
  Starters = {"a", "s"}
  Ops = {"o1", "o2", "o3"}
  Wishes <- MCWishes
INVARIANT SameWeekLastYear
CHECK_DEADLOCK FALSE
