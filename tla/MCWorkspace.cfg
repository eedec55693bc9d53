SPECIFICATION Spec
CONSTANTS
  Size = 4
  MaxQueue = 3
  MaxMsg = 5
  Replies <- Sent
INVARIANTS
  WorkspaceTypeOK
  NothingLeftBehind
  SuccessLeavesNothing
PROPERTIES
  PacketWhole
  RepliesOnly
