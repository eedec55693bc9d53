SPECIFICATION FairSpec
CONSTANTS
  Accounts <- FullAccount
  TreeOp = {"Get"}
  DevInfo = {TRUE, FALSE}
  TreeCode = {200}
  UserCode = {200}
  MaxStarts = 1
  MaxGeneric = 0
  MaxItems = 1
  MaxCmds = 2
  MaxNest = 2
  MaxSequence = 2
  MaxPackets = 5
  MaxServerCmds = 2
  MaxFaults = 1
  HeaderCode = {401}
  RequestCode = {401}
  StaleRef = {0}
PROPERTY SessionEnds
CHECK_DEADLOCK FALSE
