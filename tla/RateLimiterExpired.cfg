SPECIFICATION Spec
CONSTANTS
  letters = letters
  digits = digits
  Session = {digits, letters}
  MaxRequests = 3
  Limit = 1
  Parsed <- MCParsed
  NoNumber = NoNumber
  NoCounter = NoCounter
  NoRequest = NoRequest
  NoSweep = NoSweep
  MaxMinute = 1
PROPERTIES
  OnlyExpiredAreRemoved
CHECK_DEADLOCK FALSE
