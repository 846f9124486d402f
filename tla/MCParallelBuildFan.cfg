SPECIFICATION FairSpec
CONSTANTS
  SCC <- FanSCCs
  Worker = {w1, w2}
  Deps <- Fan
  OldDeps <- Fan
  Size <- FanSizes
  LongPole = 1
  Hash = {"h0"}
  NoHash = NoHash
  Recorded = {"h0"}
  MayBlock = {2}
  MaxCrashes = 1
  MaxLost = 1
INVARIANTS
  TypeOK
  DependenciesFirst
  GoodBuildIsComplete
  FreeMeansFree
PROPERTIES
  BuildEnds
