CONSTANTS
  Segment <- MCSegment
  Text <- MCText
  Empty = ""
  TrimSpace <- MCTrimSpace
  Actor <- MCActor
  NoActor = ""
  Holder <- MCHolder
  NoHolder = ""
  IdemKey = {}
  NoKey = NoKey
  NoID = NoID
  Nil = Nil
  GeneratedIDs <- MCGeneratedIDs
  IDSourceFails = FALSE
  Second = 2
  DefaultLockTTL = 2
  MaxLockTTL = 4
  RegisterRequests <- MCRegister
  CreateRequests <- MCCreate
  UpdateRequests <- NoRequests
  BatchRequests <- NoRequests
  AcquireRequests <- MCAcquire
  RenewRequests <- MCRenew
  ReleaseRequests <- MCRelease
  MaxEvents = 7
  MaxClock = 4
VIEW MCView
SPECIFICATION MCLocksSpec
INVARIANTS
  AuditIsOrdered
  LeaseLogIsLegal
  LockTableMatchesLog
PROPERTIES
  NoLeaseIsStolen
  ImplementsLeaseTable
