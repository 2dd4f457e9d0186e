SPECIFICATION Spec
CONSTANTS
  Programs <- MCPrograms
  MaxDepth = 8
  MaxRounds = 4
  Unset = Unset
INVARIANTS FlowIsSound FlowIsComplete NoCallIsLost
CHECK_DEADLOCK FALSE
