SPECIFICATION FairSpec
CONSTANTS
  a = a
  b = b
  p = p
  all = all
  Node = {a, b, p}
  Multicast = all
  Sifs = 1
  Slot = 2
  Aifsn = 2
  DataTime = 3
  ControlTime = 2
  MaxPropagationDelay = 2
  PhyRxStart = 1
  transmissionLimit = 2
  cwMin = 1
  cwMax = 1
  cwMinMulticast = 1
  useRts = FALSE
  useModulationParameters = FALSE
  Hears <- HiddenHears
  Workload <- BothWays
  MaxErrors = 1
INVARIANTS
  TypeOK
  FaultFree
  TimersFollowState
  ContendsWhenFree
  AcknowledgesCurrent
PROPERTY
  MacServiceSpec
CHECK_DEADLOCK FALSE
