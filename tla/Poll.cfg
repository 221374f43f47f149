SPECIFICATION FairSpec
CONSTANTS
  FifoDepth = 3
  Burst = 1
  Slack = 1
  MaxSent = 7
  BufSizes = {0, 2, 3}
INVARIANTS TypeOK InOrder FitsBuffer
PROPERTIES KeepsAll GetsThrough
