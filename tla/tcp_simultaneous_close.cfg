SPECIFICATION Spec
CONSTANTS
  Client = Client
  Server = Server
  Iss <- MCIss
  ActiveOpeners = {Client}
  PassiveOpeners = {Server}
  MaxSend <- Send_1_0
  FirstClosers = {Client, Server}
  EarlyClosers = {Client}
  Aborters = {}
  DelayedAcks = TRUE
  DUPTHRESH = 1
  MAX_REXMIT_COUNT = 1
  MaxSynRexmit = 1
  MaxCwnd = 2
  MaxFaults = 1
INVARIANTS
  TeardownInv
  TransferInv
  IndicationOrder
PROPERTY ImplementsService
CHECK_DEADLOCK FALSE
