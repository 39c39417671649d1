\* Two sends of one approval overlap.
SPECIFICATION Spec
CONSTANTS
  ann = ann
  Requests = {r1, r2, r3, r4}
  Drafts = {d1}
  People = {ann}
  PersonOf <- OnePerson
  Bodies = {b1}
  Outcomes = {replied}
  Actors = {admin, writer}
  Writers = {admin, writer}
  Approvers = {admin}
  Kinds = {"queue", "approve", "send"}
  Concurrent = TRUE
  Faults = FALSE
  None = None
SYMMETRY RequestSymmetry
INVARIANT OneMailPerApproval
CHECK_DEADLOCK FALSE
