SPECIFICATION ScreenSpec
CONSTANTS
  PortH = 3
  PortW = 4
  MaxLineLen = 2
  MaxLineCount = 2
  ArrayLines = 4
  InitSize = 1
  TmpBufLen = 2
  TextChars = {"a"}
  PromptChars = {"q"}
  Nul = Nul
  Junk = Junk
  NoLine = NoLine
  Wild = Wild
  BootCurLine = {NoLine}
  Blank = Blank
  Noise = Noise
  Lost = Lost
INVARIANT CursorInPort
