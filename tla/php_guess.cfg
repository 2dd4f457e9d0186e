CONSTANTS
  Nothing = Nothing
  Builtins <- MCBuiltins
  Files <- MCFiles
  Roots <- MCRoots
  Calls <- StaleCalls
SPECIFICATION Spec
INVARIANTS GuessesNothing
CHECK_DEADLOCK FALSE
