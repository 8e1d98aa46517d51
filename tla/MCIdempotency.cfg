CONSTANTS
  Segment <- MCSegment
  Text <- MCText
  Empty = ""
  TrimSpace <- MCTrimSpace
  Actor <- MCActor
  NoActor = ""
  Holder <- MCHolder
  NoHolder = ""
  IdemKey = {"k1", "k2"}
  NoKey = NoKey
  NoID = NoID
  Nil = Nil
  GeneratedIDs <- MCGeneratedIDs
  IDSourceFails = TRUE
  Second = 1
  DefaultLockTTL = 1
  MaxLockTTL = 3
  RegisterRequests <- MCRegister
  CreateRequests <- MCCreate
  UpdateRequests <- MCUpdate
  BatchRequests <- MCBatch
  AcquireRequests <- MCAcquire
  RenewRequests <- MCRenew
  ReleaseRequests <- MCRelease
  MaxEvents = 6
  MaxClock = 2
SPECIFICATION MCSpec
INVARIANTS
  OneEffectPerKey
  RecordedAnswersAreTrue
PROPERTIES
  AnswersAreFinal
  RefusalsChangeNothing
