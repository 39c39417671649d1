SPECIFICATION IngestSpec
CONSTANTS
  Events = {1, 2, 3, 4}
  TimeOf <- Tied
  MaxTime = 3
  Styles = {"link", "above", "from"}
  PageSize = 2
  PersonPages = 2
  MaxPages = 3
  MaxStops = 1
  Tracks = {a, b, c}
  Flushes = {f}
  MaxBatch = 2
  MaxRetries = 2
  MaxFaults = 3
INVARIANTS NoGap PersonsFirst KeptAndCountedOnce
PROPERTIES EventuallyComplete PullIsComplete EveryoneIsServed
CHECK_DEADLOCK FALSE
