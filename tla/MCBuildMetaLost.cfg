SPECIFICATION BuildSpec
CONSTANTS
  Parts = {"cache"}
  SCC <- BranchesSCCs
  Worker = {w1, w2}
  Deps <- Branches
  OldDeps <- BranchesOld
  Size <- BranchesSizes
  LongPole = 2
  Hash = {"h0", "h1"}
  NoHash = NoHash
  Recorded = {"h0"}
  MayBlock = {}
  MaxCrashes = 0
  MaxLost = 0
  Module <- PairModules
  Imports <- PairImports
  Order <- PairOrder
  Source <- PairSource
  Nothing = Nothing
  Faults = {"metaLost"}
  MaxFaults = 1
  MaxRuns = 4
INVARIANTS
  LostMetaOnlyCostsTime
