SPECIFICATION FairSpec
CONSTANTS
  Client = Client
  Server = Server
  Iss <- MCIss
  ActiveOpeners = {Client}
  PassiveOpeners = {Server}
  MaxSend <- Send_1_0
  FirstClosers = {Client}
  EarlyClosers = {}
  Aborters = {}
  DelayedAcks = TRUE
  DUPTHRESH = 3
  MAX_REXMIT_COUNT = 1
  MaxSynRexmit = 1
  MaxCwnd = 2
  MaxFaults = 1
PROPERTIES
  DataArrives
  CloseCompletes
CHECK_DEADLOCK FALSE
