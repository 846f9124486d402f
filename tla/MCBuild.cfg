SPECIFICATION BuildSpec
CONSTANTS
  Parts = {"build", "cache"}
  SCC <- BranchesSCCs
  Worker = {w1, w2}
  Deps <- Branches
  OldDeps <- BranchesOld
  Size <- BranchesSizes
  LongPole = 2
  Hash = {"h0", "h1"}
  NoHash = NoHash
  Recorded = {"h0"}
  MayBlock = {}
  MaxCrashes = 0
  MaxLost = 0
  Module <- WholeModules
  Imports <- WholeImports
  Order <- WholeOrder
  Source <- WholeSource
  Nothing = Nothing
  Faults = {"noWrite", "metaLost", "exLost", "crash"}
  MaxFaults = 1
  MaxRuns = 5
INVARIANTS
  CacheTypeOK
  MetaDescribesData
  NothingToRecheck
  FaultsAreHarmless
  WorkersAgree
  LoadedIsClosed
  FreshIsJustified
PROPERTIES
  FinalIsFinal
  ImplementsTopoBuild
