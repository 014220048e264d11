SPECIFICATION FairSpec
CONSTANTS
  Client = Client
  Server = Server
  Iss <- MCIss
  ActiveOpeners = {Client}
  PassiveOpeners = {Server}
  MaxSend <- Send_1_0
  FirstClosers = {Client, Server}
  EarlyClosers = {}
  Aborters = {}
  DelayedAcks = TRUE
  DUPTHRESH = 1
  MAX_REXMIT_COUNT = 1
  MaxSynRexmit = 1
  MaxCwnd = 2
  MaxFaults = 0
PROPERTY
  TimeWaitEnds
CHECK_DEADLOCK FALSE
