SPECIFICATION LiveSpec
CONSTANTS
  Keys = {"ics"}
  Incremental = {}
  EnvKeys = {}
  Connected = {"ics"}
  Slots = {s1, s2}
  NoSlot = NoSlot
  Requests = {r1}
  Ops = {o1}
  OpKinds <- PauseOrClear
  MaxDay = 1
  MaxFaults = 1
  MaxCrashes = 1
  HasUser = TRUE
PROPERTIES EverythingSettles MailPromiseKept SendSettles
CHECK_DEADLOCK FALSE
