CONSTANTS
  Segment <- MCSegment
  Text <- MCText
  Empty = ""
  TrimSpace <- MCTrimSpace
  Actor <- MCActor
  NoActor = ""
  Holder <- ClientHolder
  NoHolder = ""
  IdemKey <- ClientKey
  NoKey = NoKey
  NoID = NoID
  Nil = Nil
  GeneratedIDs <- MCGeneratedIDs
  IDSourceFails = FALSE
  Second = 1
  DefaultLockTTL = 2
  MaxLockTTL = 2
  RegisterRequests <- NoRequests
  CreateRequests <- NoRequests
  UpdateRequests <- MCUpdate
  BatchRequests <- NoRequests
  AcquireRequests <- MCAcquire
  RenewRequests <- MCRenew
  ReleaseRequests <- MCRelease
  AnyType = AnyType
  Word = 16
  Undecodable = Undecodable
  HttpRequests <- MCHttpRequests
  MaxEvents = 9
  MaxClock = 2
  Client <- MCClient
  script <- MCScript
  MaxCopies = 2
  Steady = {"c6"}
SPECIFICATION MCClientsSpec
CHECK_DEADLOCK FALSE
INVARIANTS
  RetriesAgree
  BeliefsAreTrue
  UpdatesAreAsTold
PROPERTIES
  NobodyWaitsForever
