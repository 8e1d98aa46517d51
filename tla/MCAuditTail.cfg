CONSTANTS
  Segment <- MCSegment
  Text <- MCText
  Empty = ""
  TrimSpace <- MCTrimSpace
  Actor <- MCActor
  NoActor = ""
  Holder <- MCHolder
  NoHolder = ""
  IdemKey = {}
  NoKey = NoKey
  NoID = NoID
  Nil = Nil
  GeneratedIDs <- MCGeneratedIDs
  IDSourceFails = FALSE
  Second = 1
  DefaultLockTTL = 1
  MaxLockTTL = 1
  RegisterRequests <- MCRegister
  CreateRequests <- MCCreate
  UpdateRequests <- NoRequests
  BatchRequests <- MCBatch
  AcquireRequests <- MCAcquire
  RenewRequests <- NoRequests
  ReleaseRequests <- NoRequests
  AnyType = AnyType
  Filters <- MCFilters
  MaxEvents = 6
  MaxClock = 1
SPECIFICATION MCTailSpec
INVARIANTS
  TailIsExact
  NoSilentLoss
PROPERTIES
  CatchesUp
