SPECIFICATION Spec
CONSTANTS
  PortH = 3
  PortW = 4
  MaxLineLen = 3
  MaxLineCount = 2
  ArrayLines = 4
  InitSize = 2
  TmpBufLen = 2
  TextChars = {"a"}
  PromptChars = {}
  Nul = Nul
  Junk = Junk
  NoLine = NoLine
  Wild = Wild
  BootCurLine = {NoLine, Wild}
PROPERTY RightOnLine
