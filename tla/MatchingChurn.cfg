SPECIFICATION Spec
CONSTANTS
  Cell <- MCCell
  Text <- MCText
  CellFromString <- MCCellFromString
  String <- MCString
  Distance <- MCDistance
  Measurable <- MCMeasurable
  Profile <- MCSpelledProfiles
  User = {u1, u2}
  Request = {r1, r2}
  NoSignal = NoSignal
  NoRequest = NoRequest
  NoPair = NoPair
  MaxUploads = 3
  MaxRemovals = 2
  MaxFaults = 1
  MaxCrashes = 1
SYMMETRY MCSymmetry
INVARIANTS
  TypeOK
  IInv
PROPERTIES
  ImplementsLedger
CHECK_DEADLOCK FALSE
