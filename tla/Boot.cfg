SPECIFICATION Spec
CONSTANTS
  Start = 2
  MemSize = 8
  NotWritten = NotWritten
  Base = 4
  Refused = Refused
  ProgEnd = 24
  HeapStart = 6
  HeapEnd = 20
  Bdos = 40
  Header = 4
  NextSize = 2
  Sizes = {1, 3, 5}
  Empty = Empty
  HexFiles <- Files
  VecStarts <- EvenStarts
INVARIANTS ImageFaithful StoredIntact HeapApart HeapWhole OwnHandler
