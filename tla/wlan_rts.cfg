SPECIFICATION FairSpec
CONSTANTS
  a = a
  b = b
  p = p
  all = all
  Node = {a, b, p}
  Multicast = all
  Sifs = 1
  Slot = 2
  Aifsn = 2
  DataTime = 3
  ControlTime = 2
  MaxPropagationDelay = 2
  PhyRxStart = 1
  transmissionLimit = 2
  cwMin = 1
  cwMax = 3
  cwMinMulticast = 1
  useRts = TRUE
  useModulationParameters = TRUE
  Hears <- HiddenHears
  Workload <- Uplink
  MaxErrors = 1
INVARIANTS
  FaultFree
  TimersFollowState
  OneFrameAtATime
PROPERTY
  MacServiceSpec
CHECK_DEADLOCK FALSE
