CONSTANTS
  Waiters = {w1, w2}
  None = none
  BufferSize = 1
  MaxMessages = 2
  MaxDrops = 1
SPECIFICATION FairSpec
INVARIANTS
  WaiterIsSubscribed
  ReplyIsLive
  ReplyIsKept
  NothingLeaks
PROPERTY EveryCallReturns
\* Every call returns and the bounds on messages and drops are used up.
CHECK_DEADLOCK FALSE
