CONSTANTS
  Segment <- MCSegment
  Text <- MCText
  Empty = ""
  TrimSpace <- MCTrimSpace
  Actor <- MCActor
  NoActor = ""
  Holder <- MCHolder
  NoHolder = ""
  IdemKey = {"k1"}
  NoKey = NoKey
  NoID = NoID
  Nil = Nil
  GeneratedIDs <- MCGeneratedIDs
  IDSourceFails = TRUE
  Second = 1
  DefaultLockTTL = 2
  MaxLockTTL = 2
  RegisterRequests <- NoRequests
  CreateRequests <- MCCreates
  UpdateRequests <- MCUpdates
  BatchRequests <- NoRequests
  AcquireRequests <- MCAcquires
  RenewRequests <- NoRequests
  ReleaseRequests <- NoRequests
  Thread <- MCThread
  ReadOps = {"GetDocumentHistory"}
  MaxEvents = 4
  MaxClock = 0
SPECIFICATION MCThreadsSpec
INVARIANTS
  DecisionsSeeSettledState
  ReadsAreOfOneMoment
PROPERTIES
  EveryCallReturns
