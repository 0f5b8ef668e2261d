SPECIFICATION MCFairSpec
CONSTANTS
  Cell <- MCCell
  Text <- MCText
  CellFromString <- MCCellFromString
  String <- MCString
  Distance <- MCDistance
  Measurable <- MCMeasurable
  Profile <- MCProfiles
  ann = ann
  ben = ben
  User = {ann, ben}
  Request = {r1}
  NoSignal = NoSignal
  NoRequest = NoRequest
  NoPair = NoPair
  Scheduler = Scheduler
  Idle = Idle
  MaxUploads = 2
  MaxRemovals = 1
  MaxFaults = 0
  MaxCrashes = 1
  MaxIntroFaults = 0
INVARIANTS
  BrokerInvariant
  NobodyIsFlooded
  ToldOnlyOfPartners
PROPERTIES
  PairsMeet
  MembersStay
  ImplementsMeetings
CHECK_DEADLOCK FALSE
