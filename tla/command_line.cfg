CONSTANTS
  a = a
  b = b
  c = c
  x = x
  y = y
  py = py
  go = go
  yaml = yaml
  Files = {a, b, c}
  Procs = {1, 2}
  Missing = Missing
  Torn = Torn
  Rendered = Rendered
  Unset = Unset
  NotString = NotString
  StartDisks <- Disks
  Jobs <- CommandLines
  MaxCommands = 3
  AnalysisFile = c
  FreshDisks <- MCFreshDisks
  MaxAfter = 1
  ALL <- MCALL
  Graphs <- MCGraphs
  Requests <- MCRequests
SPECIFICATION ScriptSpec
INVARIANTS MergeHoldsItsInputs StrictIsSound DiffReconstructs StrictAgreesWithSaved RequestedAreThere MetricsAreSums
PROPERTIES OutputOnlyAfterSuccess
CHECK_DEADLOCK FALSE
