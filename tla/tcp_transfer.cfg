SPECIFICATION Spec
CONSTANTS
  Client = Client
  Server = Server
  Iss <- MCIss
  ActiveOpeners = {Client}
  PassiveOpeners = {Server}
  MaxSend <- Send_2_0
  FirstClosers = {Client}
  EarlyClosers = {Client}
  Aborters = {}
  DelayedAcks = TRUE
  DUPTHRESH = 1
  MAX_REXMIT_COUNT = 1
  MaxSynRexmit = 1
  MaxCwnd = 2
  MaxFaults = 1
INVARIANTS
  TypeOK
  NoFault
  Agreement
  FinAcked
  RexmitArmed
  TimersMatchState
  FinInSequence
PROPERTY ImplementsService
CHECK_DEADLOCK FALSE
