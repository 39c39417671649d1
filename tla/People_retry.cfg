\* A deletion fails before its tombstones, and is asked for again.
SPECIFICATION MCSpec
CONSTANTS
  cus = cus
  person_cus = person_cus
  Persons = {cus, person_cus}
  Twin <- TwoSpellings
  Emails = {mail}
  NoEmail = NoEmail
  Writers = {}
  Kinds = {"event", "identify", "batch", "csvUsers", "person", "activities", "revenue"}
  Events = {x}
  Deletions = {d1, d2}
  Old = Old
  Nobody = Nobody
  MaxFailures = 1
INVARIANT RetryTombstones
CHECK_DEADLOCK FALSE
