SPECIFICATION Spec
CONSTANTS
  Ports <- MCPorts
  Ssrcs <- MCSsrcs
  MaxCasts = 2
  MaxSegments = 2
  MaxSeq = 3
INVARIANT PacketsAreProtected
CHECK_DEADLOCK FALSE
