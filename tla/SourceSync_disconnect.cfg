SPECIFICATION SyncSpec
CONSTANTS
  Keys = {"ics"}
  Incremental = {}
  EnvKeys = {}
  Connected = {"ics"}
  Slots = {s1, s2}
  NoSlot = NoSlot
  Requests = {r1}
  Ops = {o1}
  OpKinds <- OnlyDisconnect
  MaxDay = 1
  MaxFaults = 0
  HasUser = TRUE
  MaxCrashes = 0
INVARIANT DisconnectRemovesState
CHECK_DEADLOCK FALSE
