SPECIFICATION FairSpec
CONSTANT Fds <- MCFds
PROPERTY LiveIsStreamed
CHECK_DEADLOCK FALSE
