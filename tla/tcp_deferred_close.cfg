SPECIFICATION Spec
CONSTANTS
  Client = Client
  Server = Server
  Iss <- MCIss
  ActiveOpeners = {Client}
  PassiveOpeners = {Server}
  MaxSend <- Send_2_0
  FirstClosers = {Client, Server}
  EarlyClosers = {}
  Aborters = {}
  DelayedAcks = FALSE
  DUPTHRESH = 1
  MAX_REXMIT_COUNT = 1
  MaxSynRexmit = 1
  MaxCwnd = 2
  MaxFaults = 0
INVARIANT HalfClose
CHECK_DEADLOCK FALSE
