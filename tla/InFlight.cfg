\* Any two writers beside a deletion, one handler failing; two triggers of a source
\* beside a lifecycle call, one failure or one restart.
SPECIFICATION InFlightSpec
CONSTANTS
  cus = cus
  person_cus = person_cus
  Persons = {cus, person_cus}
  Twin <- TwoSpellings
  Emails = {mail}
  NoEmail = NoEmail
  Writers = {r1, r2}
  Kinds = {"event", "identify", "batch", "csvUsers", "person", "activities", "revenue"}
  Events = {x}
  Deletions = {d1}
  Old = Old
  Nobody = Nobody
  MaxFailures = 1
  Keys = {"posthog"}
  Incremental = {"posthog"}
  EnvKeys = {}
  Connected = {"posthog"}
  Slots = {s1, s2}
  NoSlot = NoSlot
  Requests = {r1, r2}
  Ops = {o1}
  OpKinds <- All
  MaxDay = 2
  MaxFaults = 1
  MaxCrashes = 1
VIEW InFlightView
CONSTRAINT OneMishap
SYMMETRY Names
INVARIANTS ErasureHolds AcceptedHasUser IInv StateMatchesAnswer
PROPERTIES NightlyReconciles
CHECK_DEADLOCK FALSE
