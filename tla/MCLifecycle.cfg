SPECIFICATION LifecycleSpec
CONSTANTS
  MaxRequests = 3
  MaxParts = 3
  Frames = 3
  BufferNum = 6
  SplitterOutputs = 4
  s1 = s1
  s2 = s2
  Ssrc = {s1, s2}
  MaxKeys = 2
  Policies <- MCPolicies
  MaxStreams = 2
  MaxPackets = 1
  Standard <- MCStandard
  Others <- MCOthers
  NUM_RAND_TESTS = 1
  Objects = {"o1"}
  soft_limit = 3
  MODULUS = 24
  Limits = {2, 3, 4, 7, 9}
  MaxUses = 20
INVARIANTS
  SnapshotTypeOK
  ReplyIsOneFreshPicture
  ImageIsAtMostOnePicture
  PartsTypeOK
  BuffersConserved
  QueueNeverEmptyAtGet
  SetUpInOrder
  MemoryIsOwned
  KernelIsTested
  ExpiresAtItsLimit
PROPERTIES
  NoWriteWhileSending
  RequestIsCaptured
  SleeperIsServed
  ServiceSpec
  EncoderIsFed
  ReplacementKeepsState
CHECK_DEADLOCK FALSE
