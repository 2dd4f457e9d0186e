CONSTANTS
  crate = crate
  hollow = hollow
  f = f
  g = g
  std = std
  l = l
  m = m
  NoSymbol = NoSymbol
  NoFile = NoFile
  Nothing = Nothing
  Pids = {1}
  Workspaces = {crate, hollow}
  Local = {l, m}
  IndexOf <- MCIndexOf
  MaxPrepares = 4
  MaxKills = 2
SPECIFICATION Spec
INVARIANTS OkIsWhole UnavailableIsSilent AnswersAreDefinitions
PROPERTIES IndexingEnds
CHECK_DEADLOCK FALSE
