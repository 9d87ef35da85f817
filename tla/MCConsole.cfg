SPECIFICATION Spec
CONSTANTS
  Letters <- OneLetter
  Upper <- UpperOfA
  FRAMEBUFFER_ROW_LENGTH = 3
  FRAMEBUFFER_COL_LENGTH = 3
  MAX_LINE_LENGTH = 3
  MAX_HISTORY = 3
  PROMPT_LENGTH = 1
  PathLengths = {3}
  CommandRows = {1}
  MaxRow = 2
INVARIANT TypeOK
INVARIANT CursorOnLine
PROPERTY EditsAtCursor
PROPERTY ImplementsCommandLine
 
