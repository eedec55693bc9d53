SPECIFICATION ElemSpec
CONSTANTS
  Request = {r1, r2, r3}
  Status = {st}
  Results = {rs}
  MsgRef <- AllRefs
  MaxMessageId = 3
  MaxElem = 3
INVARIANTS
  ElemTypeOK
  NoRequestLost
  AnswerReachesItsRequest
PROPERTY DeliversRequests
CHECK_DEADLOCK FALSE
