CONSTANTS
  Segment <- MCSegment
  Text <- MCText
  Empty = ""
  TrimSpace <- MCTrimSpace
  Actor <- MCActor
  NoActor = ""
  Holder <- MCHolder
  NoHolder = ""
  IdemKey = {"k1"}
  NoKey = NoKey
  NoID = NoID
  Nil = Nil
  GeneratedIDs <- MCGeneratedIDs
  IDSourceFails = FALSE
  Second = 1
  DefaultLockTTL = 1
  MaxLockTTL = 1
  RegisterRequests <- NoRequests
  CreateRequests <- NoRequests
  UpdateRequests <- NoRequests
  BatchRequests <- NoRequests
  AcquireRequests <- MCAcquire
  RenewRequests <- NoRequests
  ReleaseRequests <- NoRequests
  AnyType = AnyType
  Word = 16
  Undecodable = Undecodable
  HttpRequests <- MCHttpRequests
  MaxEvents = 9
  MaxClock = 9
  Reaping = TRUE
SPECIFICATION MCLifecycleSpec
CHECK_DEADLOCK FALSE
INVARIANTS
  AtMostOneLateSweep
PROPERTIES
  ExpiredAreReaped
  ShutdownEnds
