\* A thread that waits for a silent device may wait for ever once the owner has
\* let go of it.
SPECIFICATION FairSpec
INVARIANT TypeOK
INVARIANT KernelOwnsRequest
PROPERTY PingPongSpec
PROPERTY StopEnds
CHECK_DEADLOCK FALSE
