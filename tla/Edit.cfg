SPECIFICATION QuitSpec
CONSTANTS
  PortH = 2
  PortW = 3
  MaxLineLen = 2
  MaxLineCount = 1
  ArrayLines = 3
  InitSize = 1
  TmpBufLen = 3
  TextChars = {"a", "b"}
  PromptChars = {"q", "!"}
  Nul = Nul
  Junk = Junk
  NoLine = NoLine
  Wild = Wild
  BootCurLine = {NoLine}
INVARIANTS TypeOK CursorOnText CurLineCached BufferSafe CursorWithinLine TextTyped HeapAccounted
PROPERTIES QuitOnlyOnCommand QuitWorks ImplementsDoc
