SPECIFICATION FairAuthSpec
CONSTANTS
  SrvNonce = {"n1", "n2"}
  Length3 <- Whole
  CltNonce = {"c1", "c2"}
  Accounts <- MCAccounts
  Asks = {"basic", "digest"}
  MaxFaults = 2
PROPERTY NotificationAccepted
CHECK_DEADLOCK FALSE
