SPECIFICATION Spec
CONSTANTS
  Cell <- MCCell
  Text <- MCText
  CellFromString <- MCCellFromString
  String <- MCString
  Distance <- MCDistance
  Measurable <- MCMeasurable
  Profile <- MCFourProfiles
  User = {u1, u2, u3}
  Request = {r1, r2}
  NoSignal = NoSignal
  NoRequest = NoRequest
  NoPair = NoPair
  MaxUploads = 3
  MaxRemovals = 0
  MaxFaults = 0
  MaxCrashes = 0
SYMMETRY MCSymmetry
INVARIANTS
  OneIntroductionPerPair
  MatchedHasPartner
  EveryMatchWasMutual
  RealtimeFindsMutual
  SweepFindsMutual
CHECK_DEADLOCK FALSE
