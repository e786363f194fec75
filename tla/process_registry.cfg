SPECIFICATION FairSpec
CONSTANTS
  Configs <- MCConfigs
  FileSets <- MCFileSets
  Slot = {r1, r2}
INVARIANT RegistryHoldsLoaded
