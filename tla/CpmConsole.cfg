SPECIFICATION Spec
CONSTANTS
  Size = 3
  Chars = {97, 98}
  Newline = 10
  RegBytes = {0, 5}
  BootBytes = {0, 97}
  MaxCalls = 4
INVARIANTS GetsReturnsLine CellsKept
