SPECIFICATION FairSpec
CONSTANTS
  Ports <- MCPorts
  Ssrcs <- MCSsrcs
  MaxCasts = 2
  MaxSegments = 2
  MaxSeq = 3
INVARIANTS
  TypeOK
  CalmContextHasOneUser
  CalmPacketsAreInOrder
  CalmStartsWithHeaderAndKeyFrame
PROPERTY CastIsStreamed
CHECK_DEADLOCK FALSE
