SPECIFICATION FairSpec
CONSTANTS
  Configs <- MCConfigs
  FileSets <- MCFileSets
  Slot = {r1, r2}
INVARIANTS
  TypeOK
  CleanExit
  LostToWriteTimeout
PROPERTIES
  DrainAcceptsNone
  CutForCause
  SignalEnds
