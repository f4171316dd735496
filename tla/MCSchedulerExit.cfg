SPECIFICATION Spec
CONSTANTS
  Boot = Boot
  Procs = {p1, p2}
  NULL = NULL
  Junk = Junk
  MaxDepth = 4
INVARIANT ExitIsForGood
CHECK_DEADLOCK FALSE
