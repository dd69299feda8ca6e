SPECIFICATION Spec
CONSTANTS
  Configs <- MCConfigs
  weth = weth
  Torn = Torn
  MaxPending = 2
  MaxCrashes = 2
  MaxReruns = 1
INVARIANTS
  TypeOK
  RecordedIsDeployed
  FinishedIsComplete
  LossesAreBounded
PROPERTIES
  CompleteIsLeftAlone
  DeploymentEnds
CHECK_DEADLOCK FALSE
