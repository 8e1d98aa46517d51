CONSTANTS
  Segment <- MCSegment
  Text <- MCText
  Empty = ""
  TrimSpace <- MCTrimSpace
  Actor <- MCActor
  NoActor = ""
  Holder <- MCHolder
  NoHolder = ""
  IdemKey = {}
  NoKey = NoKey
  NoID = NoID
  Nil = Nil
  GeneratedIDs <- MCGeneratedIDs
  IDSourceFails = FALSE
  Second = 1
  DefaultLockTTL = 1
  MaxLockTTL = 2
  RegisterRequests <- MCRegister
  CreateRequests <- MCCreate
  UpdateRequests <- MCUpdate
  BatchRequests <- MCBatch
  AcquireRequests <- NoRequests
  RenewRequests <- NoRequests
  ReleaseRequests <- NoRequests
  MaxEvents = 7
  MaxClock = 1
VIEW MCView
SPECIFICATION MCSpec
INVARIANTS
  TypeOK
  HistoryIsComplete
  AuditTellsHistory
  AuditIsOrdered
  ListingIsExact
PROPERTIES
  PastIsNeverRewritten
  BatchIsAtomic
