SPECIFICATION Spec
CONSTANTS
  Client = Client
  Server = Server
  Iss <- MCIss
  ActiveOpeners = {Client, Server}
  PassiveOpeners = {}
  MaxSend <- Send_1_1
  FirstClosers = {Client}
  EarlyClosers = {}
  Aborters = {}
  DelayedAcks = FALSE
  DUPTHRESH = 1
  MAX_REXMIT_COUNT = 0
  MaxSynRexmit = 1
  MaxCwnd = 2
  MaxFaults = 0
INVARIANT SetupCompletes
CHECK_DEADLOCK FALSE
