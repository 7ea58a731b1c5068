\* Four handles: one stream on a pin of its own and a handle of another thread,
\* or both streams on their filters; and a third case where handles run out.
\* The thread ends with the session.
SPECIFICATION FairSpec
CONSTANTS
    Handles = {h1, h2, h3, h4}
    Nil = Nil
    MaxAttempts = 2
INVARIANT TypeOK
INVARIANT KernelOwnsRequest
INVARIANT NothingLeaks
INVARIANT PinsAreOpen
INVARIANT OthersAreSpared
PROPERTY StopEnds
CHECK_DEADLOCK FALSE
