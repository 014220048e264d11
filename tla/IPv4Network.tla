---------------------------- MODULE IPv4Network -----------------------------
(* The network the IPv4 and ARP modules run in: nodes with interfaces on     *)
(* broadcast links, and the routing tables.  The tables are constants: the   *)
(* routes of the scenario are set up before the run and stay.                *)
(*                                                                           *)
(* An interface names itself, its IPv4 address and its MAC address: the code *)
(* only copies addresses and compares them.                                  *)
EXTENDS Integers, FiniteSets, Sequences

CONSTANTS Node,         \* hosts and routers
          Interface,    \* their interfaces on broadcast (IEEE 802) links
          NoAddress,    \* the unspecified address
          NodeOf,       \* NodeOf[i]: the node interface i belongs to
          LinkOf,       \* LinkOf[i]: the link interface i is attached to
          Router,       \* the nodes with IP forwarding enabled
          OutIe,        \* OutIe[n][d]: interface of the best route of n to d
          Gateway,      \* Gateway[n][d]: its gateway, or NoAddress
          Mtu           \* Mtu[i]: payload units that fit into one datagram

Address == Interface

ASSUME NetworkAssumption ==
  /\ NoAddress \notin Interface
  /\ NodeOf \in [Interface -> Node]
  /\ DOMAIN LinkOf = Interface
  /\ Router \subseteq Node
  /\ OutIe \in [Node -> [Address -> Interface]]
  /\ \A n \in Node, d \in Address : NodeOf[OutIe[n][d]] = n
  /\ Gateway \in [Node -> [Address -> Address \cup {NoAddress}]]
  /\ Mtu \in [Interface -> Nat \ {0}]

Interfaces(n) == {i \in Interface : NodeOf[i] = n}

(* The other interfaces on the link of ie.                                   *)
Neighbours(ie) == {j \in Interface \ {ie} : LinkOf[j] = LinkOf[ie]}

(* rt->isLocalAddress                                                        *)
isLocalAddress(n, addr) == addr \in Address /\ NodeOf[addr] = n

(* The next hop of a unicast datagram: the route's gateway, or with no       *)
(* gateway the destination itself, left to proxy ARP.                        *)
nextHop(n, dest) ==
  IF Gateway[n][dest] = NoAddress THEN dest ELSE Gateway[n][dest]

(* ARP answers for its own addresses and, as a proxy, for those it would     *)
(* reach through another interface.                                          *)
addressRecognized(n, addr, ie) ==
  isLocalAddress(n, addr) \/ OutIe[n][addr] # ie
=============================================================================
