SPECIFICATION FairSpec
CONSTANTS
  Depth = 7
  FifoDepth = 3
  Peers <- Slow
  MaxSent = 5
  BootBytes = {0, 7}
PROPERTY OutchReturns
