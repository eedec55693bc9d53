SPECIFICATION FairAuthSpec
CONSTANTS
  SrvNonce = {"n1", "n2"}
  Length3 <- Whole
  CltNonce = {"c1", "c2"}
  Accounts <- MCAccounts
  Asks = {"basic", "digest"}
  MaxFaults = 3
INVARIANTS
  AuthTypeOK
  NoncesStored
PROPERTIES
  ServerRefusedOnce
  ClientRefusedOnce
  Authenticates
CHECK_DEADLOCK FALSE
