CONSTANTS
    sta1 = sta1
    ap1 = ap1
    ap2 = ap2
    Station = {sta1}
    AP = {ap1, ap2}
    NoAP = NoAP
    numAuthSteps = 4
    Channels <- TwoChannels
    ChannelOf <- Apart
    activeScan = TRUE
    MaxFaults = 5
SPECIFICATION FairSpec
INVARIANTS TypeOK FaultFree OneTimer AssociationAgreed
PROPERTY Associates
CHECK_DEADLOCK FALSE
