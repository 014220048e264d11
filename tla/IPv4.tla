-------------------------------- MODULE IPv4 --------------------------------
(* The network layer of every node: inet's IPv4 module together with the ARP *)
(* module it calls.  A datagram is routed, cut into fragments for the        *)
(* interface, and each fragment goes out at once when the next hop's MAC     *)
(* address is known or waits in pendingPackets until ARP's signal comes.     *)
(* Fragments are put together again at the destination.                      *)
EXTENDS ARP, ReassemblyBuffer, FiniteSetsExt, SequencesExt

CONSTANTS Flow,           \* <<source, destination, units>>: what is sent
          Mortal,         \* the nodes that are stopped
          MaxDisturbances \* stops, expiries and repeated frames in a run

(* A datagram has a source, a destination and a payload.                     *)
ASSUME FlowAssumption ==
  /\ Flow \subseteq Address \X Address \X (Nat \ {0})
  /\ IsFiniteSet(Flow) /\ Flow # {}

VARIABLES pendingPackets, \* pendingPackets[n][a]: waiting for a's MAC address
          wire,           \* IPv4 frames on their way to an interface
          sent,           \* datagrams handed to IPv4: their payload length
          fragbuf,        \* fragbuf[n]: reassembly buffers by datagram
          delivered,      \* delivered[n]: <<datagram, length>> handed up
          arrived,        \* history: the units put into each open buffer
          heard,          \* history: how often each unit reached its host
          disturbances    \* how many of these so far

ipVars ==
  <<pendingPackets, wire, sent, fragbuf, delivered, arrived, heard>>
vars == <<arpVars, ipVars, disturbances>>

(* The identification counts the datagrams sent; with the addresses it is    *)
(* the key of a reassembly buffer.                                           *)
Id == 1 .. Cardinality(Flow)

MaxUnits == Max({f[3] : f \in Flow})

Datagram ==
  [id : Id, src : Address, dest : Address, off : 0 .. MaxUnits - 1,
   len : 1 .. MaxUnits, more : BOOLEAN]

Region == [beg : 0 .. MaxUnits, end : 0 .. MaxUnits, islast : BOOLEAN]

Buffer ==
  [beg : 0 .. MaxUnits, end : 0 .. MaxUnits, islast : BOOLEAN,
   fragments : SUBSET Region]

IPv4Init ==
  /\ pendingPackets = [n \in Node |-> [a \in Address |-> <<>>]]
  /\ wire = {}
  /\ sent = <<>>
  /\ fragbuf = [n \in Node |-> [k \in Id |-> EmptyBuffer]]
  /\ delivered = [n \in Node |-> <<>>]
  /\ arrived = [n \in Node |-> [k \in Id |-> {}]]
  /\ heard = [n \in Node |-> [k \in Id |-> [u \in 0 .. MaxUnits - 1 |-> 0]]]

Disturb ==
  /\ disturbances < MaxDisturbances
  /\ disturbances' = disturbances + 1

Init == ARPInit /\ IPv4Init /\ disturbances = 0

-----------------------------------------------------------------------------
(* fragmentAndSend: pieces of Mtu units; "more fragments" is unchanged in    *)
(* the last one.                                                             *)
fragments(dg, ie) ==
  LET size == Mtu[ie]
      count == (dg.len + size - 1) \div size
  IN  [k \in 1 .. count |->
         [dg EXCEPT !.off = @ + (k - 1) * size,
                    !.len = IF k = count THEN @ - (k - 1) * size ELSE size,
                    !.more = @ \/ k < count]]

(* Frames to a MAC address that is not on the link reach nobody.             *)
frames(dgs, ie, mac) ==
  IF mac \in Neighbours(ie) THEN {[to |-> mac, dg |-> d] : d \in ToSet(dgs)}
                            ELSE {}

(* sendDatagramToOutput for all fragments of dg: the first one starts the    *)
(* resolution if the address is unknown, and the others find it pending.     *)
(* `rest' is what stays on the wire.                                         *)
sendDatagramToOutput(n, dg, ie, hop, rest) ==
  LET dgs == fragments(dg, ie)
      mac == getMACAddressFor(n, hop)
  IN  IF mac = NoAddress
      THEN /\ pendingPackets' = [pendingPackets EXCEPT ![n][hop] = @ \o dgs]
           /\ wire' = rest
           /\ startAddressResolution(n, hop, ie)
      ELSE /\ wire' = rest \cup frames(dgs, ie, mac)
           /\ UNCHANGED <<arpVars, pendingPackets>>

routeUnicastPacket(n, dg, rest) ==
  sendDatagramToOutput(n, dg, OutIe[n][dg.dest], nextHop(n, dg.dest), rest)

(* A transport protocol hands down a datagram (handlePacketFromHL).          *)
SendDatagram(n, f) ==
  /\ isUp[n]
  /\ NodeOf[f[1]] = n
  /\ f \notin ToSet(sent)
  /\ sent' = Append(sent, f)
  /\ routeUnicastPacket(n,
       [id |-> Len(sent) + 1, src |-> f[1], dest |-> f[2], off |-> 0,
        len |-> f[3], more |-> FALSE], wire)
  /\ UNCHANGED <<fragbuf, delivered, arrived, heard,
                 disturbances>>

-----------------------------------------------------------------------------
units(dg) == dg.off .. dg.off + dg.len - 1

\* Mutated: the buffer of a complete datagram is not erased.
addFragment_NoErase(n, dg, stale) ==
  LET buf == merge(fragbuf[n][dg.id],
               [beg |-> dg.off, end |-> dg.off + dg.len, islast |-> ~dg.more])
  IN  /\ fragbuf' = [fragbuf EXCEPT ![n][dg.id] = buf]
      /\ arrived' = arrived
      /\ delivered' = IF ~isComplete(buf) THEN delivered
           ELSE [delivered EXCEPT ![n] =
                   Append(@, <<dg.id, getTotalLength(buf)>>)]

(* addFragment, after a purge of the buffers in `stale': when the datagram   *)
(* is complete it is handed up and its buffer is erased.                     *)
addFragment(n, dg, stale) ==
  LET old == IF dg.id \in stale THEN EmptyBuffer ELSE fragbuf[n][dg.id]
      had == IF dg.id \in stale THEN {} ELSE arrived[n][dg.id]
      buf == merge(old, [beg |-> dg.off, end |-> dg.off + dg.len,
                         islast |-> ~dg.more])
      done == isComplete(buf)
  IN  /\ fragbuf' = [fragbuf EXCEPT ![n] = [k \in Id |->
           IF k = dg.id THEN IF done THEN EmptyBuffer ELSE buf
           ELSE IF k \in stale THEN EmptyBuffer ELSE @[k]]]
      /\ arrived' = [arrived EXCEPT ![n] = [k \in Id |->
           IF k = dg.id THEN IF done THEN {} ELSE had \cup units(dg)
           ELSE IF k \in stale THEN {} ELSE @[k]]]
      /\ delivered' = IF done
           THEN [delivered EXCEPT ![n] =
                   Append(@, <<dg.id, getTotalLength(buf)>>)]
           ELSE delivered

(* Only a fragment makes the module look for stale buffers, and only every   *)
(* ten seconds: some of the buffers may have timed out by then, or none.     *)
reassembleAndDeliver(n, dg) ==
  /\ IF dg.off # 0 \/ dg.more
     THEN \E stale \in SUBSET {k \in Id : fragbuf[n][k] # EmptyBuffer} :
            addFragment(n, dg, stale)
     ELSE /\ delivered' = [delivered EXCEPT ![n] =
                             Append(@, <<dg.id, dg.len>>)]
          /\ UNCHANGED <<fragbuf, arrived>>
  /\ heard' = [heard EXCEPT ![n][dg.id] =
       [u \in DOMAIN @ |-> IF u \in units(dg) THEN @[u] + 1 ELSE @[u]]]

(* Local delivery, forwarding, or "forwarding off, dropping packet".         *)
handleIncomingDatagram(n, dg, rest) ==
  \/ /\ isLocalAddress(n, dg.dest)
     /\ reassembleAndDeliver(n, dg)
     /\ wire' = rest
     /\ UNCHANGED <<arpVars, pendingPackets>>
  \/ /\ ~isLocalAddress(n, dg.dest)
     /\ n \in Router
     /\ routeUnicastPacket(n, dg, rest)
     /\ UNCHANGED <<fragbuf, delivered, arrived, heard>>
  \/ /\ ~isLocalAddress(n, dg.dest)
     /\ n \notin Router
     /\ wire' = rest
     /\ UNCHANGED <<arpVars, pendingPackets, fragbuf, delivered, arrived, heard>>

(* A frame arrives.  It stays on the wire once more when the link layer      *)
(* retransmits it and no duplicate filter drops the copy.  A frame that is   *)
(* never received is one that is lost, or that reached a node that is down.  *)
ReceiveDatagram(f) ==
  /\ f \in wire
  /\ isUp[NodeOf[f.to]]
  /\ \/ /\ handleIncomingDatagram(NodeOf[f.to], f.dg, wire \ {f})
        /\ UNCHANGED disturbances
     \/ /\ Disturb
        /\ handleIncomingDatagram(NodeOf[f.to], f.dg, wire)
  /\ UNCHANGED sent

-----------------------------------------------------------------------------
(* ARP's signals.  "completed": everything that waits for the address goes   *)
(* out, in order, through the entry's interface.  "failed": it is dropped.   *)
arpResolutionCompleted(n, addr) ==
  LET e == arpCache'[n][addr]
  IN  /\ pendingPackets' = [pendingPackets EXCEPT ![n][addr] = <<>>]
      /\ wire' = wire \cup frames(pendingPackets[n][addr], e.ie, e.mac)

\* Mutated: a failed resolution leaves the queue.
arpResolutionTimedOut_Keeps(n, addr) == UNCHANGED <<pendingPackets, wire>>

arpResolutionTimedOut(n, addr) ==
  /\ pendingPackets' = [pendingPackets EXCEPT ![n][addr] = <<>>]
  /\ wire' = wire

ReceiveARP(p) ==
  LET n == NodeOf[p.to]
  IN  /\ p \in arpWire
      /\ processARPPacket(n, p)
      /\ IF learns(n, p) THEN arpResolutionCompleted(n, p.srcIP)
                         ELSE UNCHANGED <<pendingPackets, wire>>
      /\ UNCHANGED <<sent, fragbuf, delivered, arrived, heard,
                 disturbances>>

Timeout(n, addr) ==
  /\ requestTimedOut(n, addr)
  /\ IF lastRetry(n, addr) THEN arpResolutionTimedOut(n, addr)
                           ELSE UNCHANGED <<pendingPackets, wire>>
  /\ UNCHANGED <<sent, fragbuf, delivered, arrived, heard,
                 disturbances>>

Expire(n, addr) ==
  Disturb /\ expire(n, addr) /\ UNCHANGED ipVars

-----------------------------------------------------------------------------
(* A shutdown or a crash stops both modules in one stage.  IPv4 drops the    *)
(* waiting packets; its reassembly buffers stay.                             *)
Stop(n) ==
  /\ n \in Mortal
  /\ Disturb
  /\ stopARP(n)
  /\ pendingPackets' = [pendingPackets EXCEPT ![n] = [a \in Address |-> <<>>]]
  /\ UNCHANGED <<wire, sent, fragbuf, delivered, arrived, heard>>

Start(n) ==
  startARP(n) /\ UNCHANGED <<ipVars, disturbances>>

-----------------------------------------------------------------------------
Next ==
  \/ \E n \in Node, f \in Flow : SendDatagram(n, f)
  \/ \E f \in wire : ReceiveDatagram(f)
  \/ \E p \in arpWire : ReceiveARP(p)
  \/ \E n \in Node, a \in Address : Timeout(n, a) \/ Expire(n, a)
  \/ \E n \in Node : Stop(n) \/ Start(n)

Spec == Init /\ [][Next]_vars

(* The simulation runs every scheduled event: a retry timer fires unless it  *)
(* is cancelled.                                                             *)
Fairness == \A n \in Node, a \in Address : WF_vars(Timeout(n, a))

FairSpec == Spec /\ Fairness
=============================================================================
