SPECIFICATION Spec
CONSTANTS
  Configs <- MCConfigs
  Ratios <- MCRatios
  FlushThreshold = 2
  Targets = {2, 3}
  MaxStored = 8
INVARIANTS
  TierMergeKeepsCaps
  TierMergeGrows
  EveryTurnShrinks
PROPERTIES
  ForceStopsAtTarget
  MaintenanceReclaims
