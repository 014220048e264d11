----------------------------- MODULE IPv4Safety -----------------------------
(* What must hold of the network layer (IPv4).                               *)
EXTENDS IPv4

(* The state of the modules is of the types the code declares.               *)
TypeOK ==
  /\ ARPTypeOK
  /\ \A n \in Node, a \in Address :
       \A i \in DOMAIN pendingPackets[n][a] : pendingPackets[n][a][i] \in Datagram
  /\ wire \subseteq [to : Interface, dg : Datagram]
  /\ \A n \in Node, k \in Id : fragbuf[n][k] \in Buffer

(* A retry timer is scheduled exactly for the entries whose resolution is    *)
(* pending: the timer's message holds a pointer to its entry, so a timer     *)
(* that outlives the entry would follow a dangling pointer, and a pending    *)
(* entry without a timer would never end.  A node that is down has neither,  *)
(* which is what ARP::start asserts and handleMessageWhenDown relies on.     *)
TimerFollowsEntry ==
  \A n \in Node :
    /\ arpTimer[n] = {a \in Address : arpCache[n][a].state = "pending"}
    /\ isUp[n] \/ \A a \in Address : arpCache[n][a].state = "none"

(* Datagrams wait for a next hop only while its resolution runs: none is     *)
(* stranded in the queue, and none is overtaken by a later one that finds    *)
(* the address resolved (the assertion in IPv4::sendDatagramToOutput).       *)
WaitingIsResolving ==
  \A n \in Node, a \in Address :
    pendingPackets[n][a] # <<>> => arpCache[n][a].state = "pending"

(* The routing tables of a node agree with its links: only routers have more *)
(* than one interface, no two of them on one link; one next hop is reached   *)
(* through one interface, the one on its link if there is one.               *)
ConsistentRoutes ==
  /\ \A i, j \in Interface : NodeOf[i] = NodeOf[j] /\ i # j =>
       NodeOf[i] \in Router /\ LinkOf[i] # LinkOf[j]
  /\ \A n \in Node, d, e \in Address :
       nextHop(n, d) = nextHop(n, e) => OutIe[n][d] = OutIe[n][e]
  /\ \A n \in Node, d \in Address : \A i \in Interfaces(n) :
       LinkOf[nextHop(n, d)] = LinkOf[i] => OutIe[n][d] = i

(* The interfaces that may get what n sends to d: the next hop's, or that of *)
(* a router that answers for it.                                             *)
answerers(n, d) ==
  LET hop == nextHop(n, d)
      ie == OutIe[n][d]
  IN  {j \in Neighbours(ie) :
         \/ j = hop
         \/ NodeOf[hop] = NodeOf[j]
         \/ /\ NodeOf[j] \in Router
            /\ LinkOf[OutIe[NodeOf[j]][hop]] # LinkOf[ie]}

(* The fragments of one datagram are cut alike: cut[f][n] holds the pieces   *)
(* of f that may come to n, and of those that may come to its destination no *)
(* two overlap.                                                              *)
Piece == [off : Nat, len : Nat \ {0}, more : BOOLEAN]

goesOn(cut, f, n, p) ==
  \A j \in answerers(n, f[2]) :
    ToSet(fragments(p, OutIe[n][f[2]])) \subseteq cut[f][NodeOf[j]]

CutAlike(cut) ==
  /\ cut \in [Flow -> [Node -> SUBSET Piece]]
  /\ \A f \in Flow :
       /\ goesOn(cut, f, NodeOf[f[1]], [off |-> 0, len |-> f[3], more |-> FALSE])
       /\ \A n \in Router \ {NodeOf[f[2]]} : \A p \in cut[f][n] : goesOn(cut, f, n, p)
       /\ \A p, q \in cut[f][NodeOf[f[2]]] :
            p = q \/ p.off + p.len <= q.off \/ q.off + q.len <= p.off

(* Whatever answers crossed, came late or came after a restart: a resolved   *)
(* entry holds the MAC address of an interface on the same link, of the node *)
(* that has the address or of a router that reaches it on another link.      *)
BindingReachable ==
  \A n \in Node, a \in Address :
    LET e == arpCache[n][a]
    IN  e.state \in {"valid", "expired"} =>
          /\ NodeOf[e.ie] = n
          /\ e.mac \in Neighbours(e.ie)
          /\ \/ e.mac = a
             \/ NodeOf[a] = NodeOf[e.mac]
             \/ /\ NodeOf[e.mac] \in Router
                /\ LinkOf[OutIe[NodeOf[e.mac]][a]] # LinkOf[e.ie]

(* Reassembly neither hands up too little nor sits on a datagram that is     *)
(* complete, whatever the order of the fragments, whatever was cut again by  *)
(* a router, repeated, or left in the buffer from before a timeout.          *)
ReassemblyExact ==
  \A n \in Node :
    /\ \A i \in 1 .. Len(delivered[n]) :
         LET d == delivered[n][i]
         IN  NodeOf[sent[d[1]][2]] = n /\ d[2] = sent[d[1]][3]
    /\ \A k \in 1 .. Len(sent) : arrived[n][k] # 0 .. sent[k][3] - 1

(* A datagram is not handed up more often than every unit of it arrived: a   *)
(* completed buffer does not live on, and a stale fragment or a repeated one *)
(* does not complete a datagram a second time.                               *)
NoSecondDelivery ==
  \A n \in Node, k \in 1 .. Len(sent), u \in 0 .. MaxUnits - 1 :
    u < sent[k][3] =>
      Cardinality({i \in 1 .. Len(delivered[n]) : delivered[n][i][1] = k})
        <= heard[n][k][u]

-----------------------------------------------------------------------------
resolutionOf(n, a) ==
  CASE arpCache[n][a].state = "none" -> "none"
    [] arpCache[n][a].state = "pending" -> "pending"
    [] OTHER -> "known"

NextHops == INSTANCE NextHopQueue WITH
  resolution <- [n \in Node |-> [a \in Address |-> resolutionOf(n, a)]],
  waiting <- pendingPackets

(* ARP and IPv4 together implement the next-hop queues: the signals let the  *)
(* whole queue go in the very step in which the entry changes, and with a    *)
(* timer that fires every resolution ends.                                   *)
NextHopService == NextHops!Spec
=============================================================================
