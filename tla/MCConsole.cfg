SPECIFICATION Spec
CONSTANTS
  NL = "nl"
  CR = "cr"
  BS = "bs"
  TAB = "tab"
  TAB_STOP = 2
  SPACE = " "
  Printed <- MCPrinted
  Keys <- MCKeys
  KLOG_SIZE = 3
  KB_BUF_SIZE = 3
  OutSizes = {2, 3}
  Cols = 3
  Rows = 2
  MaxEvents = 4
INVARIANTS CursorRight SnapshotRight ScreenRight
PROPERTIES LineWhole LineTaken
CHECK_DEADLOCK FALSE
