CONSTANTS
  Nothing = Nothing
  Builtins <- MCBuiltins
  Files <- MCFiles
  Roots <- MCRoots
  Calls <- MCCalls
SPECIFICATION Spec
INVARIANTS OrderIsIrrelevant FindsTheNearest MagicIsLastResort BindsAsPhpDoes AnswersOfThisProject HeldNamesAreCertain
CHECK_DEADLOCK FALSE
