SPECIFICATION Spec
CONSTANTS
  ann = ann
  ben = ben
  cid = cid
  first = first
  second = second
  User = {ann, ben}
  Match = {first}
  Members <- MCOneMembers
  Scheduler = Scheduler
  Idle = Idle
  NoMatch = NoMatch
  MaxFaults = 0
  MaxCrashes = 0
INVARIANTS
  IntroducedMeansDelivered
CHECK_DEADLOCK FALSE
