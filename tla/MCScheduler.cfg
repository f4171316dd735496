SPECIFICATION Spec
CONSTANTS
  Boot = Boot
  Procs = {p1, p2}
  NULL = NULL
  Junk = Junk
  MaxDepth = 4
INVARIANTS
  LostExplained
  ExitHolds
  RingThreeContext
  NoDangling
  PromptAwake
PROPERTIES
  ReadyRuns
  PromptReturns
CHECK_DEADLOCK FALSE
