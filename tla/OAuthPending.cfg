SPECIFICATION FairSpec
CONSTANTS
  Flow = {f1}
  Person = {p1, p2}
  Callback = {c1, c2}
  NoCallback = NoCallback
  MaxCallbacks = 4
  MaxCrashes = 1
INVARIANTS
  IInv
  OneResult
  SessionsAreBacked
PROPERTIES
  AnswersAreFinal
  PendingIsForgotten
  ImplementsMailbox
CHECK_DEADLOCK FALSE
