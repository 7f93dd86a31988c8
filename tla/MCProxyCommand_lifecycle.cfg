CONSTANTS
  V4 = "v4"
  V6 = "v6"
  Families <- MCFamilies
  CliConfigs <- MCCliConfigs
  FileConfigs <- MCFileConfigs
  Served <- MCServed
  Sticky <- MCSticky
  MaxChunks <- MCMaxChunks
  Window = 1
SPECIFICATION FairSpec
INVARIANTS TypeOK NoBlindRedirect GenuineError CleanMeansWhole
PROPERTIES RunReturns OutageEnds BothEnd
CHECK_DEADLOCK FALSE
