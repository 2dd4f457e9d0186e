CONSTANTS
  crate = crate
  hollow = hollow
  f = f
  g = g
  std = std
  l = l
  m = m
  NoSymbol = NoSymbol
  NoFile = NoFile
  Nothing = Nothing
  Pids = {1}
  Workspaces = {crate, hollow}
  Local = {l, m}
  IndexOf <- MCIndexOf
  MaxPrepares = 2
  MaxKills = 1
SPECIFICATION Spec
INVARIANTS IndexIsOfRoot
CHECK_DEADLOCK FALSE
