CONSTANTS
  Segment <- MCSegment
  Text <- MCText
  Empty = ""
  TrimSpace <- MCTrimSpace
  Actor <- MCActor
  NoActor = ""
  Holder <- MCHolder
  NoHolder = ""
  IdemKey = {"k1"}
  NoKey = NoKey
  NoID = NoID
  Nil = Nil
  GeneratedIDs <- MCGeneratedIDs
  IDSourceFails = FALSE
  Second = 1
  DefaultLockTTL = 2
  MaxLockTTL = 3
  RegisterRequests <- MCRegister
  CreateRequests <- MCCreate
  UpdateRequests <- MCUpdate
  BatchRequests <- NoRequests
  AcquireRequests <- NoRequests
  RenewRequests <- NoRequests
  ReleaseRequests <- NoRequests
  MaxEvents = 5
  MaxClock = 3
SPECIFICATION MCSpec
INVARIANTS
  DifferentBodyConflicts
