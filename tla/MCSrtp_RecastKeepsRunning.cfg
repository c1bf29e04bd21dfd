SPECIFICATION Spec
CONSTANTS
  Ports <- MCPorts
  Ssrcs <- MCSsrcs
  MaxCasts = 2
  MaxSegments = 2
  MaxSeq = 3
INVARIANT RecastKeepsRunning
CHECK_DEADLOCK FALSE
