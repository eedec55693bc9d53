SPECIFICATION SessionSpec
CONSTANTS
  Accounts <- OddAccounts
  TreeOp = {"Get"}
  DevInfo = {TRUE, FALSE}
  TreeCode = {200}
  UserCode = {200}
  MaxStarts = 2
  MaxGeneric = 1
  MaxItems = 1
  MaxCmds = 1
  MaxNest = 1
  MaxSequence = 1
  MaxPackets = 2
  MaxServerCmds = 1
  MaxFaults = 1
  HeaderCode = {212}
  RequestCode = {200, 401}
  StaleRef = {0}
INVARIANTS
  SessionTypeOK
  SessionKeepsRequests
PROPERTY EndLosesNothing
CHECK_DEADLOCK FALSE
