\* Two datagrams across a router, with address resolution at every hop.
CONSTANTS
  h1 = h1
  r = r
  h2 = h2
  a1 = a1
  r1 = r1
  r2 = r2
  b2 = b2
  none = none
  Node = {h1, r, h2}
  Interface = {a1, r1, r2, b2}
  NoAddress = none
  NodeOf <- MCNodeOf
  LinkOf <- MCLinkOf
  Router = {r}
  OutIe <- MCOutIe
  Gateway <- MCGateway
  Mtu <- MCMtu
  RetryCount = 2
  Flow <- MCFlow
  Mortal = {h1, r, h2}
  MaxDisturbances = 2
SPECIFICATION FairSpec
INVARIANTS
  TypeOK
  TimerFollowsEntry
  WaitingIsResolving
  BindingReachable
  ReassemblyExact
  NoSecondDelivery
PROPERTY NextHopService
CHECK_DEADLOCK FALSE
