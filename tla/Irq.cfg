SPECIFICATION FairSpec
CONSTANTS
  Depth = 5
  FifoDepth = 3
  Peers <- BurstyOrSlow
  MaxSent = 6
  BootBytes = {0, 7}
INVARIANTS TypeOK BufferOwned PromptEchoInOrder BufferSafe NoWedge
PROPERTIES AllEchoed Drains
