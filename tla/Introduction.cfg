SPECIFICATION MCFairSpec
CONSTANTS
  ann = ann
  ben = ben
  cid = cid
  first = first
  second = second
  User = {ann, ben, cid}
  Match = {first, second}
  Members <- MCTwoMembers
  Scheduler = Scheduler
  Idle = Idle
  NoMatch = NoMatch
  MaxFaults = 1
  MaxCrashes = 1
INVARIANTS
  IInv
  MarkedOnlyAfterTrying
  RepeatsAreAccountedFor
PROPERTIES
  EveryMatchIsIntroduced
CHECK_DEADLOCK FALSE
