SPECIFICATION Spec
CONSTANTS
  Cell <- MCCell
  Text <- MCText
  CellFromString <- MCCellFromString
  String <- MCString
  Distance <- MCDistance
  Measurable <- MCMeasurable
  Profile <- MCTwoProfiles
  User = {u1, u2}
  Request = {r1, r2}
  NoSignal = NoSignal
  NoRequest = NoRequest
  NoPair = NoPair
  MaxUploads = 2
  MaxRemovals = 0
  MaxFaults = 0
  MaxCrashes = 0
INVARIANTS
  UploadsMatchImmediately
CHECK_DEADLOCK FALSE
