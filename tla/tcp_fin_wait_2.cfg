SPECIFICATION FairSpec
CONSTANTS
  Client = Client
  Server = Server
  Iss <- MCIss
  ActiveOpeners = {Client}
  PassiveOpeners = {Server}
  MaxSend <- Send_1_0
  FirstClosers = {Client}
  EarlyClosers = {}
  Aborters = {}
  DelayedAcks = TRUE
  DUPTHRESH = 1
  MAX_REXMIT_COUNT = 1
  MaxSynRexmit = 1
  MaxCwnd = 2
  MaxFaults = 2
PROPERTY
  CloseCompletes
CHECK_DEADLOCK FALSE
