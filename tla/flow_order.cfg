SPECIFICATION Spec
CONSTANTS
  Programs <- MCOptional
  MaxDepth = 8
  MaxRounds = 4
  Unset = Unset
INVARIANT SameInEveryRun
CHECK_DEADLOCK FALSE
