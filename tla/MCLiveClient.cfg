SPECIFICATION VideoFairSpec
CONSTANT Fds <- MCFds
INVARIANTS
  TypeOK
  CleanStartIsKeyFrame
PROPERTY LiveClientIsServed
CHECK_DEADLOCK FALSE
