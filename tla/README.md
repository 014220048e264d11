# Formal models of the university network's protocol stack

The repository is a course project: a simulated university network
(`src/Final_task/university.ned`, `omnetpp.ini`), the exercises that led to it
(`src/Projekt2`, `src/INET_Exercises`, Matlab scripts) and the INET framework
(`src/inet`) whose protocol models the network runs.  What the network measures
is produced by those protocol models, and they are where the control logic is:
connection state machines, retransmission, timers, queues.  These modules model
the ones the scenario depends on, TCP first: its HTTP and FTP traffic runs over
`TCPNewReno` between `TCPBasicClientApp` and `TCPGenericSrvApp`, through
Ethernet, PPP and an 802.11g access point.

Everything runs in one event queue.  A handler runs to its end without being
interrupted; what interleaves are the handlers: of segments in the order the
network delivers them, of timers, and of the commands of applications.  So one
handler is one action.

## Inventory

| Part (below `src/inet/src` unless noted) | State | Operations | Hard behaviour | What makes it correct |
|---|---|---|---|---|
| TCP connection: `transport/tcp/TCPConnection*.cc`, `flavours/TCPBaseAlg.cc`, `TCPNewReno.cc` | the TCB (`TCPStateVariables`), the FSM, seven timers | OPEN, SEND, CLOSE, ABORT; `process_RCV_SEGMENT`; six timeouts | loss, reordering, duplicates, early retransmission timeouts, deferred CLOSE, simultaneous open and close, resets | two ordered streams; ends agree on what is acknowledged; timers fit the state; every close ends |
| TCP send queue: `queues/TCPVirtualDataSendQueue.cc` | an interval of sequence numbers | enqueue, createSegmentWithBytes, discardUpTo | bounds at SYN and FIN | the asserts hold |
| TCP receive queue: `queues/TCPVirtualDataRcvQueue.cc`, `TCPMsgBasedRcvQueue.cc` | ordered list of regions | insert, merge, extract | overlap, adjacency, wraparound | is a set of bytes |
| SACK queue: `TCPSACKRexmitQueue.cc` | regions with sacked/rexmitted bits | enqueue, discard, setSacked | partial overlap | covers [snd_una, snd_max) without gaps |
| TCP demultiplexer: `TCP.cc` | maps of connections | lookup, fork, add, remove | forked connections, node shutdown | one connection per socket pair |
| Sockets: `transport/contract/TCPSocket.cc` | `sockstate`, callbacks | commands, `processMessage` | indications that race commands | agrees with the connection |
| TCP applications: `applications/tcpapp` | requests left, timer, session | connect, request, close, reconnect | delayed replies, failure in a session | sessions end and start again |
| ARP: `networklayer/arp/ARP.cc` | cache, pending entries, timers | resolve, answer, time out, flush | late answers, node restart | a pending entry has a timer; nobody waits for ever |
| Reassembly: `networklayer/ipv4/IPv4FragBuf.cc`, `base/ReassemblyBuffer.cc` | buffers of regions | add fragment, purge | order, overlap, duplicates | complete exactly when all bytes are there |
| IPv4, ICMP, routing table: `networklayer/ipv4/IPv4.cc`, `ICMP.cc`, `RoutingTable.cc` | queues of datagrams that wait for a MAC address, fragment counter | send, forward, deliver, start, stop | ARP's signals against new datagrams; node restart | nobody waits without a resolution; no datagram overtakes another |
| 802.11 MAC: `linklayer/ieee80211/mac/Ieee80211Mac.cc` | DCF state machine, backoff, NAV, retries | send, receive, timers | collisions, ACK timeout against reception | a frame is delivered once or given up |
| Radio: `linklayer/radio/Radio.cc` | radio state, the frame being received, noise | start and end of transmission and reception | collisions; sending while receiving | the MAC learns when the medium is free |
| 802.11 management: `linklayer/ieee80211/mgmt` | AP list, association, timers; stations of the AP | scan, authenticate, associate; AP restart | timeouts that race answers, roaming | station and AP agree; the agent never waits without a timer |
| Ethernet MAC, switch: `linklayer/ethernet` | CSMA/CD state, pause, address table | transmit, collide, back off | collision races | frames are sent or dropped |
| PPP and queues: `linklayer/ppp/PPP.cc`, `base/PassiveQueueBase.cc` | request counter, queue | request, enqueue, clear | interface down while a request is open | the NIC never stalls with a full queue |
| UDP applications: `applications/udpapp`, `src/INET_Exercises/VoIPApp.cc` | streams and timers | start, send, stop | node shutdown | a stream ends |
| Exercise modules: `src/Projekt2/Sender.cc`, `Receiver.cc` | counter, generator state | timer, message | end of the run | sends exactly `max`; generator never 0 |
| Node life cycle: `status/NodeStatus.cc`, `base/LifecycleController.cc` | node state | start, shut down, crash | operations in several stages | no timer of a node that is down |
| Other INET protocols (SCTP, OSPF, BGP, RIP, IPv6, MPLS, DHCP, MANET, ...) | - | - | - | not used by the network |

How they interact: an application calls `TCPSocket`, which sends command
messages to `TCP`; `TCP` finds the `TCPConnection` and calls
`processAppCommand`.  Segments come from IP to `processTCPSegment`, timers to
`processTimer`; each of the three computes an event code and hands it to
`performStateTransition`.  The connection calls its `TCPAlgorithm` at fixed
points (`receivedDataAck`, `receiveSeqChanged`, ...), and the algorithm calls
back (`sendData`, `retransmitOneSegment`, `sendAck`).  Indications go back to
the socket as messages.

Below TCP, `IPv4` calls `ARP` for the MAC address of the next hop and queues the
datagram until ARP's signal (`completed`, `failed`) comes back, in the same
event.  On a wireless interface the frame goes to the management module, which
is also the passive queue from which `Ieee80211Mac` fetches frames; the MAC hands
frames to the `Radio` and hears of the medium through change notifications.  The
agent of a station asks its management module to scan, authenticate and
associate, and acts on the confirmations alone.

The hazards of the code, line by line, are in `PROJECT.json`; each names the
properties that watch it or says what is missing.

## Modules

| Module | What it is |
|---|---|
| `TCPState` | the FSM table of `performStateTransition` |
| `TCPConnection` | two connections with their sockets and send queues, and the network between them; one action per command, timeout and kind of segment |
| `TCPService` | the abstract specification: one byte stream per direction |
| `TCPSafety` | type invariant, safety properties, refinement mapping, liveness |
| `MCTCP` | values of the constants for TLC |
| `TCPInvariant` | the inductive invariant `TeardownInv` of connection teardown |
| `TCPConnection_proofs` | proof of the type invariant |
| `TCPSending_proofs`, `TCPTeardown_proofs` | proof of `TeardownInv`, and what follows from it |
| `TCPTransfer` | the inductive invariant `TransferInv` of the transfer, and the assumption `ClosesInSynSent` |
| `TCPTransfer_proofs` | proof of `TransferInv`, and what follows from it |
| `TCPService_proofs` | proof of what `TCPService` promises |
| `IPv4Network` | nodes, interfaces, links and routing tables: constants, with what the code computes from them |
| `ARP` | the cache, the retry timers and the ARP packets in flight, as operators |
| `ReassemblyBuffer` | the region list, as operators on a record |
| `IPv4` | sending, forwarding, reassembly, the next-hop queues; calls `ARP` in the same step |
| `NextHopQueue` | the abstract specification of the next-hop queues |
| `IPv4Safety`, `MCIPv4` | properties and refinement mapping; values for TLC |
| `IPv4_proofs` | proofs about `ARP` and `IPv4` |
| `Ieee80211Mac` | the state machine of one station's MAC, as operators on a record |
| `Wlan` | stations with radios on one channel and a clock |
| `MacService` | the abstract specification: queues, frames handed up, frames finished |
| `WlanSafety`, `MCWlan` | properties and refinement mapping; values for TLC |
| `WlanInvariant` | the inductive invariant `DeliveryInv` of the delivery of frames, and the assumptions `Spaced` and `Numbered` |
| `Wlan_proofs` | proofs about `Ieee80211Mac` and `Wlan`, and that they implement `MacService` |
| `Ieee80211MgmtAP`, `Ieee80211MgmtSTA` | the handlers of the access point, and of the station with its agent |
| `Association` | stations and access points over a MAC that keeps order but may give up |
| `AssociationSafety`, `MCAssociation` | properties; values for TLC |
| `Association_proofs` | proofs about `Association` |

### How TCPConnection corresponds to the code

`conn[e]` is the `TCPConnection` object of end `e`: its `fsm`, the
`TCPStateVariables` that the control depends on, the set of `timers` that are
scheduled, the send queue `[bufStart, bufEnd)`, the receive queue as the set of
units above `rcv_nxt`, and `sockstate` of the `TCPSocket`.  `ind` is the history
of indications and `delivered` counts the units the application was given.
`fault` records that an `ASSERT` failed or a `cRuntimeError` was thrown
(`scheduleAt` on a scheduled timer, a setup timer in the wrong state).

A handler is an operator from record to record that follows the code's
statements; `out` collects what it passes to `sendToIP`, and `event` is the
`TCPEventCode` that `PerformStateTransition` consumes.  The actions are

| Action | Code |
|---|---|
| `OpenActive`, `OpenPassive`, `Send`, `Close`, `Abort` | `process_OPEN_ACTIVE` ... `process_ABORT` |
| `ReceiveWhileClosed`, `ReceiveInListen`, `ReceiveInSynSent` | `segmentArrivalWhileClosed`, `processSegmentInListen`, `processSegmentInSynSent` |
| `ReceiveUnacceptable`, `ReceiveRst`, `ReceiveUnexpectedSyn`, `ReceiveSegment` | `processSegment1stThru8th`: first step, second step, fourth step, the rest |
| `SynRexmitTimeout`, `ConnEstabTimeout`, `MSLTimeout`, `RexmitTimeout`, `DelayedAckTimeout` | the `process_TIMEOUT_*` handlers and the timers of `TCPBaseAlg`, `TCPNewReno` |
| `Lose`, second disjunct of `Take` | the network loses a segment, or delivers it and keeps a copy |

There is no action for FIN_WAIT_2's timer because no statement schedules it.

### Abstractions of the TCP modules

* One unit of data is one full-sized segment.
* The congestion window and the peer's window are one parameter `w` of a step,
  between 1 and `MaxCwnd`: `sendData` may go `w` units beyond `snd_una`.  Which
  value slow start would compute is not modelled, so every property holds
  whatever it is.  The receive window does not close, hence no PERSIST timer.
* No SACK, timestamps, window scaling, limited transmit, urgent data; the passive
  end does not fork.  Segments carry at most one unit.
* Sequence numbers do not wrap.
* `net[e]` is a set: segments arrive in any order; equal segments in flight are
  one.  Loss, duplication and a timeout before its time cost one of `MaxFaults`.
* The timeouts exceed a round trip (`Quiet`): a timer that expires while
  segments are in flight is a fault.  2MSL only expires when the network is
  empty, and CONN_ESTAB (75 s) only after the SYN retransmissions that fit in it.
* Applications do not `send()` after their own `close()` and do not close twice
  (both throw).

### How IPv4 and ARP correspond to the code

`arpCache[n][a]` is the entry of node `n` for address `a`: `none` when the map has
none, `pending`, `valid`, or `expired` when `lastUpdate + cacheTimeout` has passed
(the code compares the times when it looks the entry up).  `arpTimer` holds the
entries whose timer message is scheduled; it is a variable of its own because in
the code it is one, reached through a pointer.  `pendingPackets[n][a]` is IPv4's
queue of the same name, `fragbuf[n]` its reassembly buffers by datagram.

| Action | Code |
|---|---|
| `SendDatagram` | `handlePacketFromHL`, `datagramLocalOut`, `routeUnicastPacket`, `fragmentAndSend`, `sendDatagramToOutput` for every fragment, with `startAddressResolution` |
| `ReceiveDatagram` | `handleIncomingDatagram`: local delivery with `reassembleAndDeliver`, forwarding, or drop |
| `ReceiveARP` | `processARPPacket`, the answer it sends, and `arpResolutionCompleted` through the signal |
| `Timeout` | `requestTimedOut`: resend, or fail and `arpResolutionTimedOut` |
| `Expire` | `cacheTimeout` passes for an entry |
| `Stop`, `Start` | the life cycle operations of both modules, which run in one stage |

`arpWire` only grows: an ARP packet may be received at any later time, after a
restart, again, or never.  A frame with a datagram is received once, or again at
the cost of one of `MaxDisturbances` (a link-layer retransmission without a
duplicate filter), or never.  An interface stands for its IPv4 and its MAC
address.  `arrived` and `heard` are histories for the properties.  A purge of stale
buffers may take any subset of them, whenever a fragment arrives: their ages are
not modelled.

### How the 802.11 MAC corresponds to the code

`mac[n]` is one `Ieee80211Mac`: the FSM state, the transmission queue, the retry
counter, `backoff` and `backoffPeriod`, the NAV (`endReserve`) and the other self
messages as the ticks they have left, the duplicate filter, the radio state it was
told.  `handleWithFSM` makes one event transition and then every transition
without an event that is enabled: the operators `Idle`, `Defer`, `WaitAIFS`,
`Receive` are these chains, named by the state they enter, and `AIFSOver`,
`BackoffOver`, `handleLowerMsg`, ... are the event transitions that lead into them.

`Wlan` adds the `Radio` of each station (`recvBuff`, the frame being received,
noise), the frames in the air and time.  `Tick` is only enabled when no timer and
no radio event is due, which makes the model as urgent as the event queue.  A
frame reaches the radios in range one tick after it starts.  The assumptions:

* radio events come before the timers of the same instant, and messages between
  MAC and radio without delay are part of the step that sends them;
* one access category (`EDCA` off), so no TXOP and no internal collisions; the branch
  of `handleWithFSM` for an upper message in BACKOFF cannot be reached then, since
  the message is in the queue already;
* `transmissionLimit`, the contention windows and the times are small numbers of
  ticks.  SIFS < slot < AIFS, as with the long slots of 802.11g; frames are shorter
  in proportion than real ones, so that a run of a few frames stays small;
* no rate adaptation; frames that met noise may or may not be received, and
  `MaxErrors` frames are lost without noise.

### How the 802.11 management corresponds to the code

`sta[s]` is the management module of a station and its agent.  The two exchange
requests and confirmations without delay, so a confirmation, what the agent does
with it and the command it issues are one step.  `awaits` is the confirmation the
agent waits for, which it does not record itself.  A timer that fired but is
still referred to by its pointer is `fired`: the code tests the pointer, and several
handlers leave it set for the next scan to clear.  `ap[a]` is the access point
with its station list.  `queue` is the passive queue of either.

The MAC is abstracted to what `MacService` promises: a queue is sent in order, its
first frame arrives once or is given up.  A frame that is given up although the
receiver could hear it, a timer that expires while frames of its station are under
way, a beacon timeout within reach of the access point, a restart and a move each
cost one of `MaxFaults`.  Which access point the agent chooses depends on receive
power and is left open.  Data frames are not modelled.  `hasty[s]` is a history
variable: a timer of station `s` has expired while frames to or from it were still
under way.

`AssociationAgreed` speaks of stations that are not hasty.  Without that it does not
hold: nothing in a management frame tells the answer to one attempt from the answer
to the next, so with four early timeouts the answer to an association that was given
up completes a later attempt, in which the access point has only just begun to
authenticate the station.  The station then is associated and the access point
drops its frames until the beacons stop.

## Runs

The `tcp` runs instantiate `MCTCP`: two ends, client and server, ISS 1 and 4.

| Run | Question | Expected |
|---|---|---|
| `tcp_transfer` | Two units from client to server, one fault, the client closes at any moment, delayed ACKs on. Type, `NoFault`, `Agreement`, `FinAcked`, `RexmitArmed`, `TimersMatchState`, `FinInSequence`, and refinement of `TCPService` | pass, 114,358 states |
| `tcp_abrupt` | Both ends may open actively, the client may abort, a retransmission timeout gives up at once. `NoFault`, `IndicationOrder`, `SocketAgrees`, refinement | pass, 367,078 states |
| `tcp_simultaneous_close` | One unit, one fault, both ends may close first: crossing FINs, CLOSING. `TeardownInv`, `TransferInv`, `IndicationOrder`, refinement | pass, 60,293 states |
| `tcp_liveness` | `DataArrives`, `CloseCompletes` under fairness, one fault, `DUPTHRESH` 3 | pass, 8,510 states |
| `tcp_deferred_close` | `HalfClose` | violated |
| `tcp_fin_wait_2` | `CloseCompletes` with two faults | violated |
| `tcp_simultaneous_open` | `SetupCompletes` | violated |
| `tcp_time_wait` | `TimeWaitEnds` after a simultaneous close | violated |
| `ip_delivery` | Two hosts, a router between their links, MTU 2 and 1. A datagram of two units one way, which the router cuts, and of one unit back; `RetryCount` 2; two disturbances (stop of any node, expiry of an entry, a repeated frame). `TypeOK`, `TimerFollowsEntry`, `WaitingIsResolving`, `BindingReachable`, `ReassemblyExact`, `NoSecondDelivery`, refinement of `NextHopQueue` with its liveness | pass, 125,714 states |
| `wlan_hidden` | Two stations hidden from each other and an access point, one frame each, no RTS. `TypeOK`, `FaultFree`, `TimersFollowState`, `ContendsWhenFree`, `AcknowledgesCurrent`, refinement of `MacService` with its liveness | pass, 184,723 states |
| `wlan_rts` | The same with RTS/CTS, a station with a second, multicast, frame in its queue, and the ACK timeout that is postponed. `FaultFree`, `TimersFollowState`, `OneFrameAtATime`, refinement | pass, 110,741 states |
| `wlan_roaming` | One station, two access points on two channels, shared-key authentication (4 frames), active scan, five faults. `TypeOK`, `FaultFree`, `OneTimer`, `AssociationAgreed`, and `Associates` under fairness | pass, 86,521 states |

The bounds: two units and a window of 2 are the least with which a segment can
overtake another and the FIN both; one fault suffices for a hole, a duplicate
and a spurious retransmission, each with every interleaving.
`MAX_REXMIT_COUNT` is 0 or 1 instead of 12 and `DUPTHRESH` 1 instead of 3 in the
safety runs, so that giving up and fast retransmit happen with that little data;
the code compares these counters and does nothing else with them.  The server
closes first in `tcp_simultaneous_close` only, where one unit of data keeps the
interleavings of two closes few.  `dupacks` is
not counted beyond `DUPTHRESH + 1`.  A closed pair stops, so deadlock is not
checked.

For `ip_delivery`: two hops are the least with which a datagram is fragmented on its
way, a router answers by proxy for one direction and is a gateway in the other,
and the queue of a next hop holds more than one datagram.  Two disturbances let a
node restart and then receive what was sent before, or an entry expire and be
resolved again while an answer to the first resolution is still in flight.

For `wlan_hidden` and `wlan_rts`: three stations, two of which cannot hear each
other, are the least with collisions that the senders do not notice;
`transmissionLimit` 2 lets a frame be retried and given up; one reception with bit
errors gives a lost ACK without a collision.  The contention windows of 1 (3 with
RTS, after a retry) leave room for a draw that differs and one that ties.

For `wlan_roaming`: one station is enough because stations do not interact except
through an access point that keeps one entry for each.  Five faults let it move or
lose an access point, meet a timeout in the middle of the next attempt, and still
receive the late answers of the first; with both access points on one channel,
four of them already lead to the error described among the hazards.

### What the violated runs show

* `tcp_deferred_close`: `TCPConnectionRcvSegment.cc:746` simulates the deferred
  CLOSE by assigning `event`, over the RCV_FIN computed at line 674 from the same
  segment.  The connection goes to FIN_WAIT_1, its peer's FIN consumed, and then
  waits in FIN_WAIT_2 for it.
* `tcp_fin_wait_2`: `finWait2Timer` is created and cancelled, never scheduled,
  although `TCP.ned:134` lists the timer.  When the peer gave up, the closing end
  stays in FIN_WAIT_2.
* `tcp_simultaneous_open`: the crossing SYN+ACK has an old sequence number and a
  new ACK; `isSegmentAcceptable` lets it in for the ACK, and the fourth step
  resets the connection as for an unexpected SYN (`TCP.ned:129` promises the
  connection setup of RFC 793).
* `tcp_time_wait`: in TIME_WAIT every acceptable segment is acknowledged and
  restarts the 2MSL timer (`TCPConnectionRcvSegment.cc:426`), although the comment
  there expects a retransmitted FIN only.  After a simultaneous close both ends
  are in TIME_WAIT; one late ACK is answered with an ACK, which is answered with
  an ACK, and neither connection ever closes.  No segment is lost or duplicated.

## Fairness

`Fairness` says, each conjunct with its enabling condition written out, that
segments that stay on the network arrive, that timers which stay scheduled
expire once the network is quiet, that a delayed ACK is not delayed for ever,
and that the applications open, and close when they can.  The event queue of the
simulation executes every scheduled event at its finite time, which gives the
first three; the last two are what the applications of the scenario do
(`TCPGenericSrvApp` closes when told `PEER_CLOSED`).  Faults are not fair and
bounded.

The other modules need less.  `IPv4`: a retry timer that stays scheduled fires
(`WF` of each `Timeout`); nothing is assumed of the network, so answers may stay
away for ever.  `Wlan`: time goes on (`WF` of `Next`); everything else is urgent.
`Association`: the MAC sends or gives up what is queued, and timers expire; beacons
and restarts are not fair.

## Proofs

All theorems hold for every value of the constants that satisfies the named
assumptions of their modules.  For TCP (`ConstantsAssumption`): any initial sequence
numbers, amounts of data, windows, retransmission limits, numbers of faults, and any
combination of applications that open, close, close early and abort; the theorems of
`TCPTransfer_proofs` assume `ClosesInSynSent` besides.  For IPv4 (`NetworkAssumption`,
`RetryAssumption`, `FlowAssumption`): any nodes, links, routing tables, MTUs and
datagrams; `BindingsAreReachable` assumes `ConsistentRoutes` besides, and
`ReassemblyIsExact` also `CutAlike`.  For `Wlan` (`StationAssumption`, `TimeAssumption`, `LimitAssumption`,
`RangeAssumption`, `WorkloadAssumption`, `NobodyAssumption`): any stations, any symmetric
relation of who hears whom, any frames to be sent, any times, windows and retry limits,
with RTS or without; the two theorems about the delivery of frames assume `Spaced` and
`Numbered` besides.  For `Association`: any stations, access points, channels and
numbers of faults.

| Theorem | Module | States |
|---|---|---|
| `TypeCorrect` | `TCPConnection_proofs` | `Spec => []TypeOK` |
| `TeardownCorrect` | `TCPTeardown_proofs` | `Spec => []TeardownInv` |
| `FinConsumedInSequence` | `TCPTeardown_proofs` | `Spec => []FinInSequence` |
| `TimersFollowState` | `TCPTeardown_proofs` | `Spec => []TimersMatchState` |
| `TransferCorrect` | `TCPTransfer_proofs` | `ClosesInSynSent` implies `Spec => []TransferInv` |
| `NothingFaults` | `TCPTransfer_proofs` | `ClosesInSynSent` implies `Spec => []NoFault` |
| `RexmitFollowsFlight` | `TCPTransfer_proofs` | `ClosesInSynSent` implies `Spec => []RexmitArmed` |
| `EndsAgree` | `TCPTransfer_proofs` | `ClosesInSynSent` implies `Spec => []Agreement` |
| `FinAckedDelivered` | `TCPTransfer_proofs` | `ClosesInSynSent` implies `Spec => []FinAcked` |
| `SocketsAgree` | `TCPTransfer_proofs` | `ClosesInSynSent` implies `Spec => []SocketAgrees` |
| `IndicationsInOrder` | `TCPTransfer_proofs` | `ClosesInSynSent` implies `Spec => []IndicationOrder` |
| `ServiceImplemented` | `TCPTransfer_proofs` | `ClosesInSynSent` implies `Spec => ImplementsService` |
| `ServiceComplete` | `TCPService_proofs` | `Spec => []Complete` of `TCPService` |
| `TimersFollowEntries` | `IPv4_proofs` | `Spec => []TimerFollowsEntry` |
| `WaitingOnlyWhileResolving` | `IPv4_proofs` | `Spec => []WaitingIsResolving` |
| `QueuesImplemented` | `IPv4_proofs` | `Spec` implements `Init /\ [][Next]_vars` of `NextHopQueue` |
| `BindingsAreReachable` | `IPv4_proofs` | `ConsistentRoutes` implies `Spec => []BindingReachable` |
| `NetworkTypeCorrect` | `IPv4_proofs` | `Spec => []TypeOK` of `IPv4Safety` |
| `DeliveredOncePerArrival` | `IPv4_proofs` | `Spec => []NoSecondDelivery` |
| `DeliveredWhole` | `IPv4_proofs` | `Spec => []` the first half of `ReassemblyExact` |
| `ReassemblyIsExact` | `IPv4_proofs` | `ConsistentRoutes` and `CutAlike(cut)` for some `cut` imply `Spec => []ReassemblyExact` |
| `NothingLeftToMerge` | `IPv4_proofs` | after `mergeFragments` no waiting region is mergeable |
| `MacNeverFails` | `Wlan_proofs` | `Spec => []FaultFree` of `WlanSafety` |
| `MacTimersFollowState` | `Wlan_proofs` | `Spec => []TimersFollowState` of `WlanSafety` |
| `MacContendsWhenFree` | `Wlan_proofs` | `Spec => []ContendsWhenFree` |
| `MacOneFrameAtATime` | `Wlan_proofs` | `Spec => []OneFrameAtATime` |
| `MacTypeCorrect` | `Wlan_proofs` | `Spec => []TypeOK` of `WlanSafety` |
| `AcknowledgementsCurrent` | `Wlan_proofs` | `Spaced` and `Numbered` imply `Spec => []AcknowledgesCurrent` |
| `MacServiceImplemented` | `Wlan_proofs` | `Spaced` and `Numbered` imply `Spec => Spec` of `MacService` |
| `StationNeverFails` | `Association_proofs` | `OneAPPerChannel` implies `Spec => []FaultFree` |
| `OneTimerAtATime` | `Association_proofs` | `OneAPPerChannel` implies `Spec => []OneTimer` |
| `ManagementTypeCorrect` | `Association_proofs` | `OneAPPerChannel` implies `Spec => []TypeOK` of `AssociationSafety` |
| `AssociationsAgree` | `Association_proofs` | `OneAPPerChannel` implies `Spec => []AssociationAgreed` |

**Types.** `TypeOK` is inductive as it stands.  There is one lemma per operator (a
connection record in, a connection record out) and one per action; the work is
in the arithmetic fields that must stay natural numbers (`delivered`, a difference
of sequence numbers; `snd_nxt`, moved by up to the window) and in `event` and
`fsm`, which must stay within the table of the FSM.

**Teardown.** `FinInSequence` says nothing of the segments in flight, and
`TimersMatchState` nothing of `event`, so neither is inductive.  `TeardownInv`
adds, for each end,

* `Idle`: between handlers no event is pending and nothing waits to be sent;
* `FinEndsQueue`: once `close()` has been called the FIN is the last thing of
  the send queue.  A connection in LISTEN, or a passive one in SYN_RCVD, has
  neither a FIN nor data: its socket does not accept a `send` yet.  Without this,
  going back from SYN_RCVD to LISTEN and selecting the initial sequence number
  again could move a FIN that the peer has seen;
* `FinKnown`: every FIN on the network, and the one stored in `rcv_fin_seq`,
  carries the sequence number the peer's `close()` gave it; and in a state after
  the peer's FIN, `rcv_nxt` is one past it;
* `TimersMatch`: the timers of setup and of TIME_WAIT fit the state.

The proof goes through the handlers twice.  `TCPSending_proofs` shows that
everything that only sends, acknowledges, retransmits or counts is a `Sending`
step: it leaves alone the fields the invariant mentions, and a FIN it emits is
at `snd_fin_seq`.  `TCPTeardown_proofs` follows the remaining operators up to the
event they leave behind (`Before`, `After` and `Done`: the segment has not
completed the peer's stream, has just completed it, or it was complete), looks the
event up in the table (`TransitionTable`), and concludes that
`PerformStateTransition` reaches a record that fits (`Good`).  `StepTeardown` turns
that into the invariant of the next state, once for all actions.

**Transfer.** `TransferInv` says of each end `k` with peer `p`

* `SendSide`: before the connection is open nothing but a SYN has been sent
  (`Fresh`); in a synchronized state `snd_una`, `snd_nxt`, `snd_max`, the queue and
  the FIN are in order (`Window`) and the REXMIT timer runs exactly while
  something is unacknowledged (`Armed`); once CLOSED no timer runs;
* `ReceiveSide`: `rcv_nxt`, the units stored above it and a stored FIN are all
  below the `snd_max` of `p`, and what was delivered is what lies between the
  initial sequence number of `p` and `rcv_nxt`;
* `snd_una` of `k` is not above `rcv_nxt` of `p`: nothing is acknowledged that
  was not received;
* `Sound`: a segment in flight has been sent and acknowledges what was received;
* `Application`: what has been told, and the socket, fit the state.

None of the parts is inductive alone.  An ACK moves `snd_una` only as far as
`Sound` lets it; `Sound` of an ACK needs the `rcv_nxt` of its sender, which needs
`Sound` of the data; discarding from the queue needs both.  `RoleFits` and `Opens`
say who may have sent a SYN, because going back from SYN_RCVD to LISTEN resets the
send variables, which is harmless only while no segment but the SYN+ACK is out.

The proof goes once through the operators, as two relations between records
(`Sends`: j is k after sending; `SameData`: the transfer is untouched), then
through the handlers.  `Fine(e, c, j, p)` is what a handler that leads from `c` to
`j` owes: the parts of the invariant that concern `j`, and that what the peer
relies on has only grown.  `StepTransfer` turns it into the invariant of the next
state, once for all actions.

`ClosesInSynSent` says that an application which closes before its connection is
open is an active opener whose peer is not.  It is needed: a `close()` in SYN_RCVD
sends a FIN with `snd_max` one past the queue while `snd_una` is still the
initial sequence number; after a lost SYN+ACK the retransmission asks the queue for
bytes it does not have, the `ASSERT` at `TCPVirtualDataSendQueue.cc:68`.  So
`NoFault` is false there, a hazard of the list and no fault of the proof.
The applications of the repository meet the assumption: the server ones call
`listen()` and close only what was established, the client ones connect to servers.

**Service.** `ServiceImplemented` shows that the pair is two byte streams: `Init` maps to
`Init` of `TCPService`, and every step to a `Write`, a `Shut`, a `Read` or a stutter.  Most
of it is a by-product of the proof above.  `Serves(c, j)`, a conjunct of `Fine`, says
which of these a handler may be: it queues one unit before close(), or
closes, and then tells the application nothing and receives nothing; or it leaves the
send queue alone.  It also says that an application is told of the end of the stream
only by a step that starts or ends past the peer's FIN, and never untold.  That what is
delivered only grows follows from `ReceiveSide` before and after the step and a
`rcv_nxt` that never decreases (`StreamGrows`).  One invariant is added, `Heard`:
who has been told of the end was given everything, and the writer has closed.  It
rests on `FinInSequence` (`StreamComplete`), and without it nothing would
forbid the abstract `Write` or `Read` after the end has been told.

What is implemented is itself proved to be what the applications rely on
(`ServiceComplete`): no more is delivered than was written, and who has been told of the
end has everything.

**Address resolution.** `IInv` of `IPv4_proofs` joins the two properties with what
makes them inductive: the types of the variables the steps read, and `EntrySound`
(a pending entry belongs to an interface of its node, so a resend has a link to go
out on).  Each operator of `ARP` has a lemma about the entry it changes and the
timers it leaves; the step lemmas of `IPv4` add what happens to the queue in the
same step.  `QueuesImplemented` then shows for each action which step of
`NextHopQueue` it is: a datagram that finds the address unknown is a `Wait`, an
answer a `Release` or a `Learn`, the last timeout a `Release`, `Stop` a `Forget`,
everything else a stutter.

`BindingsAreReachable` uses a second invariant, `Truth`: every ARP packet that is or
was in flight tells the truth about its sender or, as a proxy's answer, about a
router that reaches the address on another link; and every entry was asked for or
learnt on the link its interface is attached to.  It needs `ConsistentRoutes`: only
routers have several interfaces, each next hop is reached through one interface.
Without it, the code pairs the MAC address of an answer with the interface of the
question (`updateARPCache` keeps `entry->ie`).  `MCIPv4` has TLC evaluate
`ConsistentRoutes` on the tables of the run.

**Reassembly.** `mergeFragments` is a recursive function over the rounds of the code's
loop, so what it computes is an induction.  The library states induction for
operators, which the provers cannot instantiate; `LeastNatural` gets the least
element of a set of numbers from `WFMin`, which takes sets, and `InductiveSet` follows.
`Rounds` shows that the recursive definition defines what it says, `RoundsPreserve` that
what a round preserves holds of the result, and `NothingLeftToMerge` that as many rounds
as there are waiting regions are enough.  What is preserved is `Covered`: the main
region and the waiting ones hold units that came, end within the datagram, and a last one
ends where the datagram does.

`DInv` joins `IInv` with two parts.  `Traffic`: whatever is on the wire or waits for an
address is a piece of a datagram that was sent (`Pieces`), which cutting it again
(`fragments`) preserves.  `Reassembled`: for each node and datagram an `Account`, in
which every unit was heard at least once for each time the datagram was handed up
and once more if it is in the buffer.  `NoSecondDelivery` says only the first half
of that and is not inductive: that a completed buffer is erased matters at the next
fragment.  A purge gives up units that were heard, which keeps the account.  No
assumption beyond those on the constants is needed: the capacities of the links, the
routes and the order of arrival are arbitrary.

The second half of `ReassemblyExact`, that no datagram of which every unit came stays in the
buffer, is not true of every network.  `ReassemblyBuffer` takes a fragment that overlaps
what is there without extending it for a duplicate.  Where two routers with
different MTUs answer for one next hop, a fragment that is repeated on its way to
them and goes through both comes to the destination in two cuts, and the units that only
the longer piece brings are dropped.  `CutAlike(cut)` rules that out on the constants alone:
`cut` names, for each datagram and node, pieces among which are all that can come there
by any interface that may answer (`answerers`, which is what `BindingReachable` says
of an entry), and of those of the destination no two overlap.  A network of one
MTU has such a `cut`, as has one in which every datagram has one way; `MCIPv4` gives that
of the run, in which a router cuts a datagram in two, and has TLC evaluate it.

`ReassemblyIsExact` adds two invariants.  `CutTraffic`: what is on the wire to a node is one
of its pieces, and what waits for an address will be one at whoever answers; that
a queue which was cut for one interface does not leave through another is where
`ConsistentRoutes` is needed (`FoundAnswers`).  `Assembling`: the main region of a buffer
begins at 0 and grows by whole pieces (`Grown`), so every piece is in it or behind it;
no waiting region touches it (`NothingToMerge`); it does not reach the end.  If all units
had come, the one after the main region would be in a waiting region, which then
begins there and would have been merged.

**The 802.11 MAC.** The first three theorems follow from one invariant over each station,
`Sound`, in two parts.  `Settled` ties the timers to the state and adds what the
handlers rely on: a station that contends or waits for an answer has a frame in
its queue, the backoff that runs is not longer than the one drawn, an idle station
has no backoff left over, and one that waits for a SIFS has a frame to answer and a
radio that is not sending.  `Tuned` says that state and medium agree.  A handler
breaks both: it cancels the timer of the state it leaves, and only the state it enters
starts another.  So the lemmas go through `Still`, a record of which no timer but the
network allocation vector runs: everything that ends a frame, counts a try or draws a
backoff leads from `Still` to `Still`, and each operator that enters a state (`Idle`,
`Defer`, `WaitAIFS`, `Backoff`, `WaitSIFS`, `transmit`) from `Still` to `Sound`.
Between the change of the radio or of the network allocation vector and
`mediumStateChange` only `Settled` holds; `MediumSound` restores `Tuned`.  For the channel,
`IInv` adds that a radio that sends does not receive, and that a frame whose reception has
begun is still in the air when it ends, which is where `Tick` depends on time standing
still while a signal is due.  None of the three depends on the lengths of the
intervals or on who hears whom.

`MacTypeCorrect` bounds what the records hold.  A backoff that was interrupted keeps a
number of slots that some draw gives (`Periods`): taking off the slots that have passed
leaves fewer, and the contention window, which doubles with every try, is cut at `cwMax`.
No timer is set beyond `Longest`; nor is the network allocation vector, because no frame
announces more than an RTS does (`Reservation`), and what a CTS copies from it is less.

`OneFrameAtATime` needs more: a station whose radio transmits must not be led on by a
timer.  `Sending` says that while a data frame is in the air (`Current`) the station
waits for its acknowledgement or for the end of a multicast, the frame is the head of
the queue, and the timeout that runs is not shorter than what is left of the frame.
That the timeout of `scheduleDataTimeoutPeriod` exceeds the time on the air is the one
place where times matter for it.

**The delivery of frames.** An 802.11 acknowledgement carries no number, and the
duplicate filter keeps one number for each sender.  That a station never takes the
acknowledgement of an older frame for that of the one it waits for, and that a receiver
never hands a frame up twice or drops a new one as a duplicate, is a matter of times:
between a data frame and the end of its acknowledgement nothing else of that
sender may start, even when the sender has stopped waiting, because another frame
came between or the timeout expired.  Neither `AcknowledgesCurrent` nor the step of
`MacService` is inductive.  `DeliveryInv` follows a frame through its whole life:

* `Numbering`: the queue and what is still offered are the last frames of the load, in
  order, and the sequence number is that of the next one;
* `Receivers` and `Senders`: what a radio receives began after its own frame; a frame that
  is over stays in the air for at most one tick, in which its sender starts no other (`Rests`);
* `InTheAir`: a data frame in the air is awaited by its sender with a timeout that runs
  past it (`Awaits`), or was sent to everybody;
* `ToAcknowledge`: a station that waits for its SIFS before an acknowledgement has handed
  that frame up, and its sender still awaits it, or awaits nothing and cannot begin
  to before the acknowledgement is sent (`Waits`);
* `Acknowledged`: the same while the acknowledgement is in the air;
* `HandedUpOnce`: what has been handed up is not ahead of its sender, the frame the sender
  works on is the one in the filter as soon as it was handed up, and a frame for this
  receiver that is in the filter was handed up.

The steps of `Next` are first sorted into six kinds (`StepKinds`: a tick, a step that
neither sends nor hands up, a frame accepted, a timer that sends nothing, one that sends
a frame, a frame received), each of which says what it changes of the stations, the air and what was handed up;
the conjuncts are proved over these kinds.  The state an interrupted sender may be in
is the heart of it: a station leaves `WAITACK` for `DEFER` or `IDLE`, and the AIFS or DIFS
it then waits for is longer than a SIFS.  That is the half of `Spaced` that
says `Aifsn > 0`: `getAIFS` adds AIFSN slots to the SIFS, and AIFSN is 2 where nothing else
is configured (the `ASSERT` in `initialize` would admit 0); the other half is that a frame takes longer than its
way through the air.  `Numbered` limits a load to 4096 frames for each station: with more,
the twelve bits start over, and a receiver that heard nothing of 4095 frames takes the next
for the one it has.  `MCWlan` has TLC evaluate both on the values of the runs.

`MacServiceImplemented` maps each kind of step: a frame accepted is `Accept`, a frame
received is `HandUp`, `Finish` for an acknowledgement, which is where
`AcknowledgesCurrent` is needed, or `Interrupted`, a timer is `GiveUp` or, after a
multicast frame, `Finish`, and all else leaves what the service sees alone.  That
a station waits for the end of a multicast only with such a frame at the head of its
queue (`Multicasts`) is the one invariant it adds.

**Association.** `FaultFree` depends on which timers run, so the first three theorems follow
from one invariant over each station, `Sound`: by what the agent `awaits`, exactly
the timer of that step runs; the access point the station is authenticating with is
in its list and on the channel the radio is tuned to, and so is one when an
association is awaited; nothing counts as authenticated before that.  The steps that end one attempt and begin the next (a
timeout that leads to a scan, a scan that leads to an authentication) are lemmas
about the operators, from a record that is sound for one `awaits` to one that is
sound for the next.  `OneAPPerChannel` is needed because the station does not
compare the sender of an association answer with the access point it asked.

`ManagementTypeCorrect` says more than ranges.  The code leaves the pointer of a timer that
fired in place; that none is found there later is a part of `Sound` (`NoneFired`), since
every timeout leads to a scan, which clears what it does not look at.  That the
exchange never expects a frame after the last one takes both sides: an access point
expects a third frame only where there are four (`StationEntry`), so the only answer
that asks for another frame is the second (`Answer`).

`AssociationsAgree` uses a second invariant, `Clean`, of each station that is not
hasty: between it and all access points at most one frame is under way, in one
direction; an association answer under way finds the access point with the
station in its list as associated; and so does a station that is associated, unless
the access point was restarted and has no entry.  An early timeout is the one step
that breaks `Clean`, since the next request is then sent beside what is under way.

Only model-checked: all liveness, that of `MacService` and `NextHopQueue` included, which
is out of the prover's reach, as is `ENABLED`.  Every safety invariant the passing runs
check is also the subject of a theorem.
No recursive operator is used.

## Plan

Done: TCP connection with its abstract service; ARP, IPv4 and reassembly with the
next-hop queues; the 802.11 MAC with its abstract service; association.

Next, in order:

1. A run with a close in SYN_RCVD.
2. `TCPRcvQueue`: the region list of `TCPVirtualDataRcvQueue` (insert, merge, extract)
   with 2^32 arithmetic scaled down, against a set of bytes by refinement.
3. `TCPSACKRexmitQueue`: regions cover the outstanding data.
4. `TCPApps`: client and server sessions composed with `TCPService`; the
   demultiplexer with forked connections.
5. PPP with the passive queue; the exercise sender with its generator; Ethernet.

## Not modelled

* Congestion control arithmetic, rate adaptation, statistics, signal powers: numbers
  that decide when, not what.
* Packet formats and serializers.
* EDCA with several access categories and TXOP: off in the scenario.  With it,
  `currentAC` and `oldcurrentAC` select among four copies of the state, and the model
  would need time at the resolution of all their timers.
* ICMP, TTL, broadcast, multicast routing and IGMP: the scenario sends unicast
  datagrams within one tree of links.
* Stopping a wireless station, and stopping MAC and radio: the modules do not reset
  themselves, and the scenario stops no node.
* Two access points on one channel: modelled, and `FaultFree` does not hold there (see
  the hazards); the runs and theorems have one access point per channel.
* The routing protocols, transports and applications of INET that the network does not
  use, the third-party stacks lwIP and NSC, and the Matlab scripts.
