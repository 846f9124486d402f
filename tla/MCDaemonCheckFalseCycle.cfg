SPECIFICATION CheckSpec
CONSTANTS
  Parts = {"analysis"}
  File <- Files
  Written <- Writes
  Text = {"a", "b", "long"}
  Size <- Length
  Second = 2
  Grain = 2
  MaxTime = 2
  BusyEdits = {FALSE}
  Nothing = Nothing
  NoStat = NoStat
  Modules <- Three
  Projects <- All
  Module <- Cycle
  Name <- TwoNames
  Programs <- Cycles
  Orders <- AnalysisOrders
  MaxIterations = 20
  Null = Null
  Absent = Absent
  Unwatched = Unwatched
INVARIANTS
  CyclesAreReal
CHECK_DEADLOCK FALSE
