\* Overlapping handlers, edits, faults and a deletion around one draft.
SPECIFICATION Spec
CONSTANTS
  ann = ann
  Requests = {r1, r2, r3, r4}
  Drafts = {d1}
  People = {ann}
  PersonOf <- OnePerson
  Bodies = {b1, b2}
  Outcomes = {replied}
  Actors = {admin, writer}
  Writers = {admin, writer}
  Approvers = {admin}
  Kinds = {"queue", "approve", "send", "edit", "outcome"}
  Concurrent = TRUE
  Faults = TRUE
  None = None
VIEW Live
CONSTRAINT OneSideCall
SYMMETRY RequestSymmetry
INVARIANTS NothingSendsUnapproved RecordsAreTrue CalmMailsOnce
PROPERTIES Promised CalmSentIsFinal
CHECK_DEADLOCK FALSE
