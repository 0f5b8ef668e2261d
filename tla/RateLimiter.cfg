SPECIFICATION FairSpec
CONSTANTS
  letters = letters
  digits = digits
  Session = {digits, letters}
  MaxRequests = 3
  Limit = 1
  Parsed <- MCParsed
  NoNumber = NoNumber
  NoCounter = NoCounter
  NoRequest = NoRequest
  NoSweep = NoSweep
  MaxMinute = 2
INVARIANTS
  IInv
  LimitHolds
  RejectedOnlyAtLimit
PROPERTIES
  EarlyNumbersLeave
  ImplementsFixedWindow
CHECK_DEADLOCK FALSE
