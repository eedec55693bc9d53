SPECIFICATION SessionSpec
CONSTANTS
  Accounts <- GoodAccounts
  TreeOp = {"Add", "Get"}
  DevInfo = {TRUE}
  TreeCode = {200}
  UserCode = {200, 304, 214}
  MaxStarts = 1
  MaxGeneric = 0
  MaxItems = 2
  MaxCmds = 4
  MaxNest = 2
  MaxSequence = 2
  MaxPackets = 2
  MaxServerCmds = 4
  MaxFaults = 0
  HeaderCode = {}
  RequestCode = {401}
  StaleRef = {99}
INVARIANT SequenceObeysUser
CHECK_DEADLOCK FALSE
