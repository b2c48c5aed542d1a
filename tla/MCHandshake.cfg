\* Three requests: one being answered, one listed behind it, one arriving.
CONSTANT MaxReq = 3
SPECIFICATION FairSpec
INVARIANTS TypeOK FrameAlive NoLostWakeup ExitNoticeLast
PROPERTY EveryRequestAnswered
\* A session ends, or waits for its peers for ever.
CHECK_DEADLOCK FALSE
