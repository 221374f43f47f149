SPECIFICATION OutputSpec
CONSTANTS
  Half = 64
  IntHalf = 8
  NUMLTH = 3
  Power <- Powers
  Formats <- AllFormats
  Positions <- AllPositions
  Moves <- Bytes
  Params <- Bytes
INVARIANTS PlaceExists DigitsRight CountRight FieldRight TerminalObeys
