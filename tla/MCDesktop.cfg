SPECIFICATION Spec
CONSTANTS
  SECONDS = 2
  Chips <- MCChips
  POLLS = 2
  MaxUpdates = 2
  W = 4
  H = 2
  CUR_W = 2
  CUR_H = 1
  Console <- MCConsole
  Clock <- MCClock
  Moves <- MCMoves
  BYTE = 16
  MaxMoves = 2
  MaxChars = 1
INVARIANTS MouseRight PointerOnTop
PROPERTIES TimeRight PointerFollows
