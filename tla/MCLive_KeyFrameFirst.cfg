SPECIFICATION FairSpec
CONSTANT Fds <- MCFds
INVARIANT KeyFrameFirst
CHECK_DEADLOCK FALSE
