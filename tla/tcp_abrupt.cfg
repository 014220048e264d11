SPECIFICATION Spec
CONSTANTS
  Client = Client
  Server = Server
  Iss <- MCIss
  ActiveOpeners = {Client, Server}
  PassiveOpeners = {Server}
  MaxSend <- Send_1_0
  FirstClosers = {Client}
  EarlyClosers = {}
  Aborters = {Client}
  DelayedAcks = FALSE
  DUPTHRESH = 1
  MAX_REXMIT_COUNT = 0
  MaxSynRexmit = 1
  MaxCwnd = 2
  MaxFaults = 1
INVARIANTS
  NoFault
  IndicationOrder
  SocketAgrees
PROPERTY ImplementsService
CHECK_DEADLOCK FALSE
