SPECIFICATION FairSpec
CONSTANTS
  Count = 3
  Trys = 2
  Versions <- TwoVersions
  Current = 1
  Factory = 1
  MaxUpgrades = 2
  MaxCommands = 2
  MaxFaults = 2
INVARIANTS
  TornIsBad
  RunningUntouched
  SwitchComplete
PROPERTIES
  ComesUp
