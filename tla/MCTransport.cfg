CONSTANTS
  Segment <- MCSegment
  Text <- MCText
  Empty = ""
  TrimSpace <- MCTrimSpace
  Actor <- MCActor
  NoActor = ""
  Holder <- MCHolder
  NoHolder = ""
  IdemKey = {"k1"}
  NoKey = NoKey
  NoID = NoID
  Nil = Nil
  GeneratedIDs <- MCGeneratedIDs
  IDSourceFails = FALSE
  Second = 3
  DefaultLockTTL = 1
  MaxLockTTL = 3
  RegisterRequests <- MCRegister
  CreateRequests <- MCCreate
  UpdateRequests <- MCUpdate
  BatchRequests <- MCBatch
  AcquireRequests <- MCAcquire
  RenewRequests <- MCRenew
  ReleaseRequests <- MCRelease
  AnyType = AnyType
  Word = 16
  Undecodable = Undecodable
  HttpRequests <- MCHttpRequests
  MaxEvents = 4
  MaxClock = 1
SPECIFICATION MCTransportSpec
PROPERTIES
  StatusTellsEffect
  LeasesAreUsable
