SPECIFICATION IntakeSpec
CONSTANTS
  Numbers <- Boundaries
  UIntMax = 7
  ULongMax = 7
  LongMax = 3
  ULLongMax = 15
  Default <- Defaults
  Inputs <- CommandInputs
  SizeMax = 15
  Probes <- ProbeInputs
  Paths <- AllPaths
  Root <- TheRoot
  LinkPlaces <- Places
  LinkTargets <- Targets
  RegularFiles <- AFile
CHECK_DEADLOCK FALSE
INVARIANTS
  RefusedOnlyForTimeout
  EnvironmentIsUsed
  TokensAreArguments
  OnlyLastEmpty
  CommandIsUnderstood
  TransferInside
  MadeInside
