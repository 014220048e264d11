---------------------------- MODULE IPv4_proofs -----------------------------
(* The next-hop queues of IPv4, the ARP cache and reassembly, for any        *)
(* network, routes and traffic; that a complete datagram does not stay in    *)
(* the buffer, for any in which its fragments are cut alike (CutAlike).      *)
EXTENDS IPv4Safety, FiniteSetTheorems, TLAPS

-----------------------------------------------------------------------------
(* The inductive invariant.                                                  *)

Packet ==
  [id : Nat, src : Address, dest : Address, off : Nat, len : Nat \ {0},
   more : BOOLEAN]

Frame == [to : Interface, dg : Packet]

(* An entry knows its interface, a resolved one the MAC address too.         *)
EntrySound(n, a) ==
  /\ arpCache[n][a].state # "none" => arpCache[n][a].ie \in Interfaces(n)
  /\ arpCache[n][a].state \in {"valid", "expired"} =>
       arpCache[n][a].mac \in Interface

Types ==
  /\ ARPTypeOK
  /\ pendingPackets \in [Node -> [Address -> Seq(Packet)]]
  /\ wire \subseteq Frame
  /\ sent \in Seq(Flow)

IInv ==
  /\ Types
  /\ \A n \in Node, a \in Address : EntrySound(n, a)
  /\ TimerFollowsEntry
  /\ WaitingIsResolving

-----------------------------------------------------------------------------
(* Fragments.                                                                *)

LEMMA DivBounds ==
  ASSUME NEW l \in Nat \ {0}, NEW s \in Nat \ {0}
  PROVE  LET c == (l + s - 1) \div s
         IN  /\ c \in Nat \ {0}
             /\ (c - 1) * s < l
             /\ \A k \in 1 .. c : (k - 1) * s \in Nat
<1> DEFINE x == l + s - 1
           c == x \div s
<1>1. x \in Nat /\ x >= s
  OBVIOUS
<1>2. c \in Int /\ c * s <= x /\ x < (c + 1) * s
  OBVIOUS
<1> HIDE DEF c
<1>3. c >= 1
  BY <1>1, <1>2
<1>4. (c - 1) * s = c * s - s
  BY <1>2
<1>5. ASSUME NEW k \in 1 .. c PROVE (k - 1) * s \in Nat
  BY <1>2
<1> QED
  BY <1>2, <1>3, <1>4, <1>5 DEF c

LEMMA FragmentsTyped ==
  ASSUME NEW dg \in Packet, NEW ie \in Interface
  PROVE  fragments(dg, ie) \in Seq(Packet) /\ Len(fragments(dg, ie)) >= 1
<1> DEFINE s == Mtu[ie]
           c == (dg.len + s - 1) \div s
           at(k) == (k - 1) * s
           piece(k) == [dg EXCEPT !.off = @ + at(k),
                                  !.len = IF k = c THEN @ - at(k) ELSE s,
                                  !.more = @ \/ k < c]
<1>1. s \in Nat \ {0} /\ dg.len \in Nat \ {0}
  BY NetworkAssumption DEF Packet
<1>2. c \in Nat \ {0} /\ at(c) < dg.len /\ \A k \in 1 .. c : at(k) \in Nat
  BY <1>1, DivBounds
<1>3. ASSUME NEW k \in 1 .. c PROVE piece(k) \in Packet
  <2>1. at(k) \in Nat /\ (k = c => dg.len - at(k) \in Nat \ {0})
    BY <1>1, <1>2
  <2>2. dg.off + at(k) \in Nat /\ (dg.more \/ k < c) \in BOOLEAN
    BY <2>1 DEF Packet
  <2>3. (IF k = c THEN dg.len - at(k) ELSE s) \in Nat \ {0}
    BY <1>1, <2>1
  <2>4. \A o \in Nat, l \in Nat \ {0}, m \in BOOLEAN :
          [dg EXCEPT !.off = o, !.len = l, !.more = m] \in Packet
    BY DEF Packet
  <2> HIDE DEF at, c
  <2> QED
    BY <2>2, <2>3, <2>4
<1>4. fragments(dg, ie) = [k \in 1 .. c |-> piece(k)]
  BY DEF fragments
<1> HIDE DEF c, piece
<1> QED
  BY <1>2, <1>3, <1>4

-----------------------------------------------------------------------------
(* The calls of ARP.                                                         *)

ARPSound ==
  /\ ARPTypeOK
  /\ \A n \in Node, a \in Address : EntrySound(n, a)
  /\ TimerFollowsEntry

(* Every other entry is left alone.                                          *)
OnlyEntry(n, addr) ==
  \A m \in Node, a \in Address :
    m # n \/ a # addr => arpCache'[m][a] = arpCache[m][a]

LEMMA RequestTyped ==
  ASSUME NEW ie \in Interface, NEW addr \in Address
  PROVE  sendARPRequest(ie, addr) \subseteq ARPPacket
BY DEF sendARPRequest, ARPPacket, Neighbours, Address

(* One entry and its timer change.                                           *)
LEMMA EntryStep ==
  ASSUME ARPSound, NEW n \in Node, NEW addr \in Address, isUp[n], isUp' = isUp,
         NEW e \in ARPCacheEntry, arpCache' = [arpCache EXCEPT ![n][addr] = e],
         e.state # "none" => e.ie \in Interfaces(n),
         e.state \in {"valid", "expired"} => e.mac \in Interface,
         NEW t \in SUBSET Address, arpTimer' = [arpTimer EXCEPT ![n] = t],
         t \ {addr} = arpTimer[n] \ {addr},
         addr \in t <=> e.state = "pending",
         arpWire' \subseteq ARPPacket
  PROVE  ARPSound' /\ OnlyEntry(n, addr) /\ arpCache'[n][addr] = e
<1>1. /\ arpCache' \in [Node -> [Address -> ARPCacheEntry]]
      /\ arpCache'[n][addr] = e
      /\ OnlyEntry(n, addr)
  BY DEF ARPSound, ARPTypeOK, OnlyEntry
<1>2. /\ arpTimer' \in [Node -> SUBSET Address] /\ arpTimer'[n] = t
      /\ \A m \in Node \ {n} : arpTimer'[m] = arpTimer[m]
  BY DEF ARPSound, ARPTypeOK
<1>3. ARPTypeOK'
  BY <1>1, <1>2 DEF ARPSound, ARPTypeOK
<1>4. \A m \in Node, a \in Address : EntrySound(m, a)'
  BY <1>1 DEF ARPSound, EntrySound, OnlyEntry
<1>5. \A a \in Address : a \in t <=> arpCache'[n][a].state = "pending"
  <2>1. \A a \in Address : a \in arpTimer[n] <=> arpCache[n][a].state = "pending"
    BY DEF ARPSound, TimerFollowsEntry
  <2> QED
    BY <1>1, <2>1 DEF OnlyEntry
<1>6. ASSUME NEW m \in Node
      PROVE  /\ arpTimer'[m] = {a \in Address : arpCache'[m][a].state = "pending"}
             /\ isUp'[m] \/ \A a \in Address : arpCache'[m][a].state = "none"
  <2>1. CASE m = n
    BY <1>2, <1>5, <2>1
  <2>2. CASE m # n
    BY <1>1, <1>2, <2>2 DEF ARPSound, TimerFollowsEntry, OnlyEntry
  <2> QED
    BY <2>1, <2>2
<1> QED
  BY <1>1, <1>3, <1>4, <1>6 DEF ARPSound, TimerFollowsEntry

LEMMA ResolutionStep ==
  ASSUME ARPSound, NEW n \in Node, NEW addr \in Address, NEW ie \in Interfaces(n),
         isUp[n], startAddressResolution(n, addr, ie)
  PROVE  /\ ARPSound' /\ OnlyEntry(n, addr) /\ isUp' = isUp
         /\ arpCache'[n][addr].state = "pending"
<1>1. CASE arpCache[n][addr].state = "pending"
  BY <1>1 DEF startAddressResolution, arpVars, ARPSound, ARPTypeOK, EntrySound,
              TimerFollowsEntry, OnlyEntry
<1>2. CASE arpCache[n][addr].state # "pending"
  <2> DEFINE e == [state |-> "pending", ie |-> ie, numRetries |-> 0,
                   mac |-> NoAddress]
             t == arpTimer[n] \cup {addr}
  <2>1. initiateARPResolution(n, addr, ie)
    BY <1>2 DEF startAddressResolution
  <2>2. e \in ARPCacheEntry /\ e.state = "pending" /\ e.ie = ie
    BY RetryAssumption DEF ARPCacheEntry, Interfaces
  <2>3. arpCache' = [arpCache EXCEPT ![n][addr] = e] /\ isUp' = isUp
    BY <2>1 DEF initiateARPResolution
  <2>4. /\ arpTimer' = [arpTimer EXCEPT ![n] = t] /\ t \in SUBSET Address
        /\ t \ {addr} = arpTimer[n] \ {addr} /\ addr \in t
    BY <2>1 DEF initiateARPResolution, ARPSound, ARPTypeOK
  <2>5. arpWire' \subseteq ARPPacket
    BY <2>1, RequestTyped DEF initiateARPResolution, ARPSound, ARPTypeOK, Interfaces
  <2> HIDE DEF e, t
  <2>6. ARPSound' /\ OnlyEntry(n, addr) /\ arpCache'[n][addr] = e
    BY <2>2, <2>3, <2>4, <2>5, EntryStep
  <2> QED
    BY <2>2, <2>3, <2>6
<1> QED
  BY <1>1, <1>2

LEMMA TimeoutStep ==
  ASSUME ARPSound, NEW n \in Node, NEW addr \in Address, requestTimedOut(n, addr)
  PROVE  /\ ARPSound' /\ OnlyEntry(n, addr) /\ arpCache[n][addr].state = "pending"
         /\ arpCache'[n][addr].state =
              IF lastRetry(n, addr) THEN "none" ELSE "pending"
         /\ arpCache'[n][addr].ie \in {arpCache[n][addr].ie, NoAddress}
<1> DEFINE old == arpCache[n][addr]
<1>1. old \in ARPCacheEntry /\ old.state = "pending" /\ isUp[n] /\ old.ie \in Interfaces(n)
  BY DEF requestTimedOut, ARPSound, ARPTypeOK, TimerFollowsEntry, EntrySound
<1>2. CASE resend(n, addr)
  <2> DEFINE e == [old EXCEPT !.numRetries = @ + 1]
  <2>1. e \in ARPCacheEntry /\ e.state = "pending" /\ e.ie = old.ie
    BY <1>1, <1>2, RetryAssumption DEF resend, lastRetry, ARPCacheEntry
  <2>2. arpCache' = [arpCache EXCEPT ![n][addr] = e] /\ isUp' = isUp
    BY <1>2 DEF resend
  <2>3. /\ arpTimer' = [arpTimer EXCEPT ![n] = arpTimer[n]] /\ arpTimer[n] \in SUBSET Address
        /\ addr \in arpTimer[n]
    BY <1>2 DEF resend, requestTimedOut, ARPSound, ARPTypeOK
  <2>4. arpWire' \subseteq ARPPacket
    BY <1>1, <1>2, RequestTyped DEF resend, ARPSound, ARPTypeOK, Interfaces
  <2> HIDE DEF e
  <2>5. ARPSound' /\ OnlyEntry(n, addr) /\ arpCache'[n][addr] = e
    BY <1>1, <2>1, <2>2, <2>3, <2>4, EntryStep
  <2> QED
    BY <1>1, <1>2, <2>1, <2>5 DEF resend
<1>3. CASE giveUp(n, addr)
  <2> DEFINE t == arpTimer[n] \ {addr}
  <2>1. NoEntry \in ARPCacheEntry /\ NoEntry.state = "none" /\ NoEntry.ie = NoAddress
    BY RetryAssumption DEF NoEntry, ARPCacheEntry
  <2>2. arpCache' = [arpCache EXCEPT ![n][addr] = NoEntry] /\ isUp' = isUp
    BY <1>3 DEF giveUp
  <2>3. /\ arpTimer' = [arpTimer EXCEPT ![n] = t] /\ t \in SUBSET Address
        /\ t \ {addr} = arpTimer[n] \ {addr} /\ addr \notin t
    BY <1>3 DEF giveUp, ARPSound, ARPTypeOK
  <2>4. arpWire' \subseteq ARPPacket
    BY <1>3 DEF giveUp, ARPSound, ARPTypeOK
  <2> HIDE DEF t
  <2>5. ARPSound' /\ OnlyEntry(n, addr) /\ arpCache'[n][addr] = NoEntry
    BY <1>1, <2>1, <2>2, <2>3, <2>4, EntryStep
  <2> QED
    BY <1>1, <1>3, <2>1, <2>5 DEF giveUp
<1> QED
  BY <1>2, <1>3 DEF requestTimedOut

LEMMA PacketStep ==
  ASSUME ARPSound, NEW p \in arpWire, NEW n, n = NodeOf[p.to], processARPPacket(n, p)
  PROVE  /\ ARPSound' /\ n \in Node /\ p.srcIP \in Address
         /\ OnlyEntry(n, p.srcIP) /\ p \in ARPPacket
         /\ ~learns(n, p) => arpCache' = arpCache
         /\ learns(n, p) => LET old == arpCache[n][p.srcIP]
                                e == arpCache'[n][p.srcIP]
                            IN  /\ e.state = "valid" /\ e.mac = p.srcMac
                                /\ e.ie = IF old.state = "none" THEN p.to ELSE old.ie
<1>1. p \in ARPPacket
  BY DEF ARPSound, ARPTypeOK
<1>2. /\ p.to \in Interface /\ p.srcMac \in Interface /\ p.srcIP \in Address
      /\ p.destIP \in Address /\ n \in Node /\ p.to \in Interfaces(n)
  BY <1>1, NetworkAssumption DEF ARPPacket, Interfaces
<1>3. reply(n, p) \subseteq ARPPacket
  BY <1>2 DEF reply, ARPPacket
<1>4. isUp[n] /\ isUp' = isUp /\ arpWire' \subseteq ARPPacket
  BY <1>3 DEF processARPPacket, ARPSound, ARPTypeOK
<1>5. CASE ~learns(n, p)
  BY <1>1, <1>2, <1>4, <1>5 DEF processARPPacket, ARPSound, ARPTypeOK, EntrySound,
              TimerFollowsEntry, OnlyEntry
<1>6. CASE learns(n, p)
  <2> DEFINE old == arpCache[n][p.srcIP]
             e == [state |-> "valid",
                   ie |-> IF old.state = "none" THEN p.to ELSE old.ie,
                   numRetries |-> IF old.state = "pending" THEN 0 ELSE old.numRetries,
                   mac |-> p.srcMac]
             t == IF old.state = "pending" THEN arpTimer[n] \ {p.srcIP} ELSE arpTimer[n]
  <2>1. updateARPCache(n, p)
    BY <1>6 DEF processARPPacket
  <2>2. old \in ARPCacheEntry /\ (old.state # "none" => old.ie \in Interfaces(n))
    BY <1>2 DEF ARPSound, ARPTypeOK, EntrySound
  <2>3. /\ e \in ARPCacheEntry /\ e.state = "valid" /\ e.mac = p.srcMac
        /\ e.ie = (IF old.state = "none" THEN p.to ELSE old.ie)
        /\ e.ie \in Interfaces(n)
    BY <1>2, <2>2, RetryAssumption DEF ARPCacheEntry
  <2>4. /\ arpCache' = [arpCache EXCEPT ![n][p.srcIP] = e]
        /\ arpTimer' = [arpTimer EXCEPT ![n] = t]
    <3>1. p.srcIP \in Address /\ n \in DOMAIN arpCache /\ n \in DOMAIN arpTimer
          /\ p.srcIP \in DOMAIN arpCache[n]
      BY <1>2 DEF ARPSound, ARPTypeOK
    <3> QED
      BY <2>1, <3>1 DEF updateARPCache
  <2>5. t \in SUBSET Address /\ p.srcIP \notin t /\ t \ {p.srcIP} = arpTimer[n] \ {p.srcIP}
    BY <1>2 DEF ARPSound, ARPTypeOK, TimerFollowsEntry
  <2>6. p.srcIP \in t <=> e.state = "pending"
    BY <2>3, <2>5
  <2> HIDE DEF e, t
  <2>7. ARPSound' /\ OnlyEntry(n, p.srcIP) /\ arpCache'[n][p.srcIP] = e
    <3>1. ASSUME NEW m \in Node, NEW addr \in Address, m = n, addr = p.srcIP
          PROVE  ARPSound' /\ OnlyEntry(m, addr) /\ arpCache'[m][addr] = e
      <4>1. /\ isUp[m] /\ isUp' = isUp /\ arpWire' \subseteq ARPPacket
            /\ e \in ARPCacheEntry /\ e.ie \in Interfaces(m) /\ e.mac \in Interface
        BY <1>2, <1>4, <2>3, <3>1
      <4>2. /\ arpCache' = [arpCache EXCEPT ![m][addr] = e]
            /\ arpTimer' = [arpTimer EXCEPT ![m] = t]
        BY <2>4, <3>1
      <4>3. /\ t \in SUBSET Address /\ t \ {addr} = arpTimer[m] \ {addr}
            /\ addr \in t <=> e.state = "pending"
        BY <2>5, <2>6, <3>1
      <4> QED
        BY <4>1, <4>2, <4>3, EntryStep
    <3> QED
      BY <1>2, <3>1
  <2> QED
    BY <1>1, <1>2, <1>6, <2>3, <2>7
<1> QED
  BY <1>5, <1>6

-----------------------------------------------------------------------------
(* The steps of IPv4.                                                        *)

(* A datagram has joined the queue of a next hop whose resolution runs.      *)
Joins(n, a) ==
  /\ OnlyEntry(n, a) /\ arpCache'[n][a].state = "pending"
  /\ \E dgs \in Seq(Packet) :
       Len(dgs) >= 1 /\ pendingPackets' = [pendingPackets EXCEPT ![n][a] = @ \o dgs]

LEMMA HopTyped ==
  ASSUME NEW n \in Node, NEW d \in Address
  PROVE  OutIe[n][d] \in Interfaces(n) /\ nextHop(n, d) \in Address
BY NetworkAssumption DEF nextHop, Interfaces, Address

LEMMA FramesTyped ==
  ASSUME NEW dgs \in Seq(Packet), NEW ie, NEW mac \in Interface
  PROVE  frames(dgs, ie, mac) \subseteq Frame
BY DEF frames, Frame, ToSet

LEMMA SendStep ==
  ASSUME IInv, NEW n \in Node, isUp[n], NEW dg \in Packet, NEW rest \in SUBSET Frame,
         routeUnicastPacket(n, dg, rest), sent' \in Seq(Flow)
  PROVE  /\ IInv'
         /\ \/ UNCHANGED <<arpCache, pendingPackets>>
            \/ \E a \in Address : Joins(n, a)
<1> DEFINE ie  == OutIe[n][dg.dest]
           hop == nextHop(n, dg.dest)
           dgs == fragments(dg, ie)
           mac == getMACAddressFor(n, hop)
<1>1. ie \in Interfaces(n) /\ ie \in Interface /\ hop \in Address
  <2>1. dg.dest \in Address
    BY DEF Packet
  <2> QED
    BY <2>1, HopTyped DEF Interfaces
<1>2. dgs \in Seq(Packet) /\ Len(dgs) >= 1
  BY <1>1, FragmentsTyped
<1>3. sendDatagramToOutput(n, dg, ie, hop, rest)
  BY DEF routeUnicastPacket
<1> HIDE DEF ie, hop, dgs
<1>4. CASE mac = NoAddress
  <2>1. /\ pendingPackets' = [pendingPackets EXCEPT ![n][hop] = @ \o dgs]
        /\ wire' = rest /\ startAddressResolution(n, hop, ie)
    BY <1>3, <1>4 DEF sendDatagramToOutput, dgs
  <2>2. /\ ARPSound' /\ OnlyEntry(n, hop) /\ arpCache'[n][hop].state = "pending"
    BY <1>1, <2>1, ResolutionStep DEF IInv, Types, ARPSound
  <2>3. pendingPackets' \in [Node -> [Address -> Seq(Packet)]]
    <3>1. pendingPackets[n][hop] \o dgs \in Seq(Packet)
      BY <1>1, <1>2 DEF IInv, Types
    <3> QED
      BY <1>1, <2>1, <3>1 DEF IInv, Types
  <2>4. WaitingIsResolving'
    <3>1. \A m \in Node, b \in Address :
            m # n \/ b # hop => pendingPackets'[m][b] = pendingPackets[m][b]
      BY <2>1 DEF IInv, Types
    <3> QED
      BY <2>2, <3>1 DEF IInv, WaitingIsResolving, OnlyEntry
  <2> QED
    BY <1>1, <1>2, <2>1, <2>2, <2>3, <2>4 DEF IInv, Types, ARPSound, Joins
<1>5. CASE mac # NoAddress
  <2>1. wire' = rest \cup frames(dgs, ie, mac) /\ UNCHANGED <<arpVars, pendingPackets>>
    BY <1>3, <1>5 DEF sendDatagramToOutput, dgs
  <2>2. mac \in Interface
    BY <1>1, <1>5 DEF getMACAddressFor, IInv, EntrySound
  <2>3. wire' \subseteq Frame
    BY <1>2, <2>1, <2>2, FramesTyped
  <2> QED
    BY <2>1, <2>3 DEF IInv, Types, ARPTypeOK, arpVars, TimerFollowsEntry,
                      WaitingIsResolving, EntrySound
<1> QED
  BY <1>4, <1>5

LEMMA SendDatagramStep ==
  ASSUME IInv, NEW n \in Node, NEW f \in Flow, SendDatagram(n, f)
  PROVE  /\ IInv'
         /\ \/ UNCHANGED <<arpCache, pendingPackets>>
            \/ \E a \in Address : Joins(n, a)
<1> DEFINE dg == [id |-> Len(sent) + 1, src |-> f[1], dest |-> f[2], off |-> 0,
                  len |-> f[3], more |-> FALSE]
<1>1. dg \in Packet
  <2>1. f[1] \in Address /\ f[2] \in Address /\ f[3] \in Nat \ {0}
    BY FlowAssumption
  <2>2. Len(sent) + 1 \in Nat
    BY DEF IInv, Types
  <2> QED
    BY <2>1, <2>2 DEF Packet
<1>2. sent' \in Seq(Flow) /\ isUp[n] /\ routeUnicastPacket(n, dg, wire)
  BY DEF SendDatagram, IInv, Types
<1>3. wire \in SUBSET Frame
  BY DEF IInv, Types
<1> HIDE DEF dg
<1> QED
  BY <1>1, <1>2, <1>3, SendStep

LEMMA ReceiveDatagramStep ==
  ASSUME IInv, NEW f \in wire, ReceiveDatagram(f)
  PROVE  /\ IInv'
         /\ \/ UNCHANGED <<arpCache, pendingPackets>>
            \/ \E n \in Node, a \in Address : Joins(n, a)
<1> DEFINE n == NodeOf[f.to]
<1>1. f.dg \in Packet /\ n \in Node
  BY NetworkAssumption DEF IInv, Types, Frame
<1>2. PICK rest \in {wire \ {f}, wire} : handleIncomingDatagram(n, f.dg, rest)
  BY DEF ReceiveDatagram
<1>3. rest \in SUBSET Frame /\ sent' = sent /\ isUp[n]
  BY DEF ReceiveDatagram, IInv, Types
<1> HIDE DEF n
<1>4. CASE routeUnicastPacket(n, f.dg, rest)
  <2>1. sent' \in Seq(Flow)
    BY <1>3 DEF IInv, Types
  <2> QED
    BY <1>1, <1>3, <1>4, <2>1, SendStep
<1>5. CASE wire' = rest /\ UNCHANGED <<arpVars, pendingPackets>>
  BY <1>3, <1>5 DEF IInv, Types, ARPTypeOK, arpVars, TimerFollowsEntry,
                    WaitingIsResolving, EntrySound
<1> QED
  BY <1>2, <1>4, <1>5 DEF handleIncomingDatagram

(* A resolution has ended, or an address was learnt that nothing waited for. *)
Ends(n, a, state) ==
  /\ OnlyEntry(n, a) /\ arpCache'[n][a].state = state
  /\ pendingPackets' = [pendingPackets EXCEPT ![n][a] = <<>>]

LEMMA EndsSound ==
  ASSUME IInv, ARPSound', NEW n \in Node, NEW a \in Address, NEW state, Ends(n, a, state),
         wire' \subseteq Frame, sent' = sent
  PROVE  IInv'
<1>1. pendingPackets' \in [Node -> [Address -> Seq(Packet)]]
  BY DEF IInv, Types, Ends
<1>2. \A m \in Node, b \in Address :
        pendingPackets'[m][b] = IF m = n /\ b = a THEN <<>> ELSE pendingPackets[m][b]
  BY DEF IInv, Types, Ends
<1>3. WaitingIsResolving'
  BY <1>2 DEF IInv, WaitingIsResolving, Ends, OnlyEntry
<1> QED
  BY <1>1, <1>3 DEF IInv, Types, ARPSound

LEMMA ReceiveARPStep ==
  ASSUME IInv, NEW p \in arpWire, ReceiveARP(p)
  PROVE  /\ IInv'
         /\ \/ UNCHANGED <<arpCache, pendingPackets>>
            \/ \E n \in Node, a \in Address : Ends(n, a, "valid")
<1> DEFINE n == NodeOf[p.to]
           e == arpCache'[n][p.srcIP]
<1>1. ARPSound /\ processARPPacket(n, p) /\ sent' = sent
  BY DEF ReceiveARP, IInv, Types, ARPSound
<1>2. /\ ARPSound' /\ n \in Node /\ p.srcIP \in Address
      /\ OnlyEntry(n, p.srcIP) /\ p \in ARPPacket
      /\ ~learns(n, p) => arpCache' = arpCache
      /\ learns(n, p) => e.state = "valid"
  BY <1>1, PacketStep
<1>3. CASE learns(n, p)
  <2>1. /\ pendingPackets' = [pendingPackets EXCEPT ![n][p.srcIP] = <<>>]
        /\ wire' = wire \cup frames(pendingPackets[n][p.srcIP], e.ie, e.mac)
    BY <1>3 DEF ReceiveARP, arpResolutionCompleted
  <2>2. Ends(n, p.srcIP, "valid")
    BY <1>2, <1>3, <2>1 DEF Ends
  <2>3. e.mac \in Interface /\ pendingPackets[n][p.srcIP] \in Seq(Packet)
    BY <1>2, <1>3 DEF ARPSound, EntrySound, IInv, Types
  <2> HIDE DEF n, e
  <2>4. wire' \subseteq Frame
    BY <2>1, <2>3, FramesTyped DEF IInv, Types
  <2> QED
    BY <1>1, <1>2, <2>2, <2>4, EndsSound
<1>4. CASE ~learns(n, p)
  <2>1. UNCHANGED <<arpCache, pendingPackets, wire>>
    BY <1>2, <1>4 DEF ReceiveARP
  <2> HIDE DEF n
  <2> QED
    BY <1>1, <1>2, <2>1 DEF IInv, Types, ARPSound, WaitingIsResolving
<1> QED
  BY <1>3, <1>4

LEMMA TimerStep ==
  ASSUME IInv, NEW n \in Node, NEW a \in Address, Timeout(n, a)
  PROVE  /\ IInv'
         /\ arpCache[n][a].state = "pending"
         /\ \/ /\ OnlyEntry(n, a) /\ arpCache'[n][a].state = "pending"
               /\ pendingPackets' = pendingPackets
            \/ Ends(n, a, "none")
<1>1. ARPSound /\ requestTimedOut(n, a) /\ sent' = sent /\ wire' = wire
  BY DEF Timeout, arpResolutionTimedOut, IInv, Types, ARPSound
<1>2. /\ ARPSound' /\ OnlyEntry(n, a) /\ arpCache[n][a].state = "pending"
      /\ arpCache'[n][a].state = IF lastRetry(n, a) THEN "none" ELSE "pending"
  BY <1>1, TimeoutStep
<1>3. CASE lastRetry(n, a)
  <2>1. Ends(n, a, "none")
    BY <1>2, <1>3 DEF Timeout, arpResolutionTimedOut, Ends
  <2>2. wire' \subseteq Frame
    BY <1>1 DEF IInv, Types
  <2> QED
    BY <1>1, <1>2, <2>1, <2>2, EndsSound
<1>4. CASE ~lastRetry(n, a)
  <2>1. pendingPackets' = pendingPackets /\ arpCache'[n][a].state = "pending"
    BY <1>2, <1>4 DEF Timeout
  <2>2. WaitingIsResolving'
    BY <1>2, <2>1 DEF IInv, WaitingIsResolving, OnlyEntry
  <2> QED
    BY <1>1, <1>2, <2>1, <2>2 DEF IInv, Types, ARPSound
<1> QED
  BY <1>3, <1>4

LEMMA ExpireStep ==
  ASSUME IInv, NEW n \in Node, NEW a \in Address, Expire(n, a)
  PROVE  /\ IInv' /\ OnlyEntry(n, a) /\ pendingPackets' = pendingPackets
         /\ arpCache[n][a].state = "valid" /\ arpCache'[n][a].state = "expired"
<1> DEFINE e == [arpCache[n][a] EXCEPT !.state = "expired"]
           t == arpTimer[n]
<1>1. ARPSound
  BY DEF IInv, Types, ARPSound
<1>2. /\ arpCache[n][a] \in ARPCacheEntry /\ arpCache[n][a].state = "valid"
      /\ arpCache[n][a].ie \in Interfaces(n) /\ arpCache[n][a].mac \in Interface
      /\ isUp[n] /\ a \notin t
  BY DEF Expire, expire, IInv, Types, ARPTypeOK, EntrySound, TimerFollowsEntry
<1>3. /\ e \in ARPCacheEntry /\ e.state = "expired" /\ e.ie \in Interfaces(n)
      /\ e.mac \in Interface
  BY <1>2 DEF ARPCacheEntry
<1>4. /\ arpCache' = [arpCache EXCEPT ![n][a] = e] /\ isUp' = isUp
      /\ arpWire' \subseteq ARPPacket
      /\ UNCHANGED <<pendingPackets, wire, sent>>
  BY DEF Expire, expire, ipVars, IInv, Types, ARPTypeOK
<1>5. /\ arpTimer' = [arpTimer EXCEPT ![n] = t] /\ t \in SUBSET Address
      /\ a \in t <=> e.state = "pending"
  BY <1>2, <1>3 DEF Expire, expire, IInv, Types, ARPTypeOK
<1>6. t \ {a} = arpTimer[n] \ {a}
  OBVIOUS
<1> HIDE DEF e, t
<1>7. ARPSound' /\ OnlyEntry(n, a) /\ arpCache'[n][a] = e
  BY <1>1, <1>2, <1>3, <1>4, <1>5, <1>6, EntryStep
<1>8. WaitingIsResolving'
  BY <1>2, <1>4, <1>7 DEF IInv, WaitingIsResolving, OnlyEntry
<1> QED
  BY <1>2, <1>3, <1>4, <1>7, <1>8 DEF IInv, Types, ARPSound

LEMMA StopStep ==
  ASSUME IInv, NEW n \in Node, Stop(n)
  PROVE  /\ IInv'
         /\ arpCache' = [arpCache EXCEPT ![n] = [a \in Address |-> NoEntry]]
         /\ pendingPackets' = [pendingPackets EXCEPT ![n] = [a \in Address |-> <<>>]]
<1>1. /\ arpCache' = [arpCache EXCEPT ![n] = [a \in Address |-> NoEntry]]
      /\ pendingPackets' = [pendingPackets EXCEPT ![n] = [a \in Address |-> <<>>]]
      /\ arpTimer' = [arpTimer EXCEPT ![n] = {}] /\ isUp' = [isUp EXCEPT ![n] = FALSE]
      /\ UNCHANGED <<arpWire, wire, sent>>
  BY DEF Stop, stopARP
<1>2. NoEntry \in ARPCacheEntry /\ NoEntry.state = "none"
  BY RetryAssumption DEF NoEntry, ARPCacheEntry
<1>3. /\ arpCache' \in [Node -> [Address -> ARPCacheEntry]]
      /\ \A a \in Address : arpCache'[n][a] = NoEntry
      /\ \A m \in Node \ {n} : arpCache'[m] = arpCache[m]
  BY <1>1, <1>2 DEF IInv, Types, ARPTypeOK
<1>4. /\ pendingPackets' \in [Node -> [Address -> Seq(Packet)]]
      /\ \A a \in Address : pendingPackets'[n][a] = <<>>
      /\ \A m \in Node \ {n} : pendingPackets'[m] = pendingPackets[m]
  BY <1>1 DEF IInv, Types
<1>5. Types'
  BY <1>1, <1>3, <1>4 DEF IInv, Types, ARPTypeOK
<1>6. \A m \in Node, a \in Address : EntrySound(m, a)'
  BY <1>2, <1>3 DEF IInv, EntrySound
<1>7. TimerFollowsEntry'
  BY <1>1, <1>2, <1>3 DEF IInv, Types, ARPTypeOK, TimerFollowsEntry
<1>8. WaitingIsResolving'
  BY <1>3, <1>4 DEF IInv, WaitingIsResolving
<1> QED
  BY <1>1, <1>5, <1>6, <1>7, <1>8 DEF IInv

LEMMA StartStep ==
  ASSUME IInv, NEW n \in Node, Start(n)
  PROVE  IInv' /\ UNCHANGED <<arpCache, pendingPackets>>
BY DEF Start, startARP, ipVars, IInv, Types, ARPTypeOK, TimerFollowsEntry,
       WaitingIsResolving, EntrySound

-----------------------------------------------------------------------------
(* The invariant is inductive.                                               *)

LEMMA IInvInit == Init => IInv
<1> SUFFICES ASSUME Init PROVE IInv
  OBVIOUS
<1>1. NoEntry \in ARPCacheEntry /\ NoEntry.state = "none"
  BY RetryAssumption DEF NoEntry, ARPCacheEntry
<1>2. Types
  <2>1. ARPTypeOK
    BY <1>1 DEF Init, ARPInit, ARPTypeOK
  <2> QED
    BY <2>1 DEF Init, IPv4Init, Types
<1>3. \A n \in Node, a \in Address : arpCache[n][a] = NoEntry /\ pendingPackets[n][a] = <<>>
  BY DEF Init, ARPInit, IPv4Init
<1>4. \A n \in Node : arpTimer[n] = {} /\ isUp[n]
  BY DEF Init, ARPInit
<1> QED
  BY <1>1, <1>2, <1>3, <1>4 DEF IInv, EntrySound, TimerFollowsEntry, WaitingIsResolving

LEMMA IInvNext == IInv /\ [Next]_vars => IInv'
<1> SUFFICES ASSUME IInv, [Next]_vars PROVE IInv'
  OBVIOUS
<1>1. ASSUME NEW n \in Node, NEW f \in Flow, SendDatagram(n, f) PROVE IInv'
  BY <1>1, SendDatagramStep
<1>2. ASSUME NEW f \in wire, ReceiveDatagram(f) PROVE IInv'
  BY <1>2, ReceiveDatagramStep
<1>3. ASSUME NEW p \in arpWire, ReceiveARP(p) PROVE IInv'
  BY <1>3, ReceiveARPStep
<1>4. ASSUME NEW n \in Node, NEW a \in Address, Timeout(n, a) PROVE IInv'
  BY <1>4, TimerStep
<1>5. ASSUME NEW n \in Node, NEW a \in Address, Expire(n, a) PROVE IInv'
  BY <1>5, ExpireStep
<1>6. ASSUME NEW n \in Node, Stop(n) PROVE IInv'
  BY <1>6, StopStep
<1>7. ASSUME NEW n \in Node, Start(n) PROVE IInv'
  BY <1>7, StartStep
<1>8. CASE UNCHANGED vars
  BY <1>8 DEF vars, arpVars, ipVars, IInv, Types, ARPTypeOK, TimerFollowsEntry,
              WaitingIsResolving, EntrySound
<1> QED
  BY <1>1, <1>2, <1>3, <1>4, <1>5, <1>6, <1>7, <1>8 DEF Next

LEMMA Invariance == Spec => []IInv
BY IInvInit, IInvNext, PTL DEF Spec

(* Retry timers and pending entries come and go together, so no timer's      *)
(* pointer to its entry dangles and no resolution is left without a timer,   *)
(* in any network, however packets are delayed, repeated or lost and nodes   *)
(* restarted.                                                                *)
THEOREM TimersFollowEntries == Spec => []TimerFollowsEntry
<1>1. IInv => TimerFollowsEntry
  BY DEF IInv
<1> QED
  BY <1>1, Invariance, PTL

(* No datagram is stranded in the queue of a next hop, and none is overtaken *)
(* by a later one: the assertion of IPv4::sendDatagramToOutput holds.        *)
THEOREM WaitingOnlyWhileResolving == Spec => []WaitingIsResolving
<1>1. IInv => WaitingIsResolving
  BY DEF IInv
<1> QED
  BY <1>1, Invariance, PTL

-----------------------------------------------------------------------------
(* ARP and IPv4 implement the next-hop queues.                               *)

Resolutions == [n \in Node |-> [a \in Address |-> resolutionOf(n, a)]]

LEMMA ResolutionTyped ==
  ASSUME IInv, NEW n \in Node, NEW a \in Address
  PROVE  /\ resolutionOf(n, a) \in {"none", "pending", "known"}
         /\ arpCache[n][a].state = "none" <=> resolutionOf(n, a) = "none"
         /\ arpCache[n][a].state = "pending" <=> resolutionOf(n, a) = "pending"
         /\ arpCache[n][a].state \in {"valid", "expired"} <=> resolutionOf(n, a) = "known"
<1>1. arpCache[n][a].state \in {"none", "pending", "valid", "expired"}
  BY DEF IInv, Types, ARPTypeOK, ARPCacheEntry
<1> QED
  BY <1>1 DEF resolutionOf

(* The image of one entry that changed.                                      *)
LEMMA ResolutionStepImage ==
  ASSUME NEW n \in Node, NEW a \in Address, OnlyEntry(n, a), NEW r, resolutionOf(n, a)' = r
  PROVE  Resolutions' = [Resolutions EXCEPT ![n][a] = r]
<1>1. \A m \in Node, b \in Address :
        m # n \/ b # a => resolutionOf(m, b)' = resolutionOf(m, b)
  BY DEF OnlyEntry, resolutionOf
<1>2. \A m \in Node : \A b \in Address :
        Resolutions'[m][b] = [Resolutions EXCEPT ![n][a] = r][m][b]
  BY <1>1 DEF Resolutions
<1> QED
  BY <1>2 DEF Resolutions

LEMMA SameImage ==
  ASSUME NEW n \in Node, NEW a \in Address, OnlyEntry(n, a),
         resolutionOf(n, a)' = resolutionOf(n, a)
  PROVE  Resolutions' = Resolutions
<1>1. \A m \in Node, b \in Address : resolutionOf(m, b)' = resolutionOf(m, b)
  BY DEF OnlyEntry, resolutionOf
<1> QED
  BY <1>1 DEF Resolutions

LEMMA InitImage == Init => NextHops!Init
<1> SUFFICES ASSUME Init PROVE NextHops!Init
  OBVIOUS
<1>1. \A n \in Node, a \in Address : resolutionOf(n, a) = "none"
  BY DEF Init, ARPInit, NoEntry, resolutionOf
<1> QED
  BY <1>1 DEF NextHops!Init, Init, IPv4Init

LEMMA JoinsImage ==
  ASSUME IInv, IInv', NEW n \in Node, NEW a \in Address, Joins(n, a)
  PROVE  NextHops!Wait(n, a)
<1>1. resolutionOf(n, a)' = "pending"
  BY DEF Joins, resolutionOf
<1>2. Resolutions' = [Resolutions EXCEPT ![n][a] = "pending"]
  BY <1>1, ResolutionStepImage DEF Joins
<1>3. PICK dgs \in Seq(Packet) :
         Len(dgs) >= 1 /\ pendingPackets' = [pendingPackets EXCEPT ![n][a] = @ \o dgs]
  BY DEF Joins
<1> DEFINE q == pendingPackets[n][a]
           w == pendingPackets'[n][a]
<1>4. q \in Seq(Packet) /\ w = q \o dgs /\ pendingPackets' = [pendingPackets EXCEPT ![n][a] = w]
  BY <1>3 DEF IInv, Types
<1> HIDE DEF q
<1>5. Len(w) > Len(q) /\ \A i \in 1 .. Len(q) : w[i] = q[i]
  BY <1>3, <1>4
<1> QED
  BY <1>2, <1>4, <1>5 DEF NextHops!Wait, Resolutions, q

LEMMA EndsImage ==
  ASSUME IInv, IInv', NEW n \in Node, NEW a \in Address, NEW state \in {"valid", "none"},
         Ends(n, a, state), state = "none" => arpCache[n][a].state = "pending"
  PROVE  NextHops!Release(n, a) \/ NextHops!Learn(n, a) \/ UNCHANGED <<Resolutions, pendingPackets>>
<1> DEFINE r == IF state = "valid" THEN "known" ELSE "none"
<1>1. resolutionOf(n, a)' = r
  BY DEF Ends, resolutionOf
<1>2. Resolutions' = [Resolutions EXCEPT ![n][a] = r]
  BY <1>1, ResolutionStepImage DEF Ends
<1>3. Resolutions[n][a] = resolutionOf(n, a)
  BY DEF Resolutions
<1>4. CASE arpCache[n][a].state = "pending"
  <2>1. Resolutions[n][a] = "pending"
    BY <1>3, <1>4, ResolutionTyped
  <2> QED
    BY <1>2, <2>1 DEF NextHops!Release, Resolutions, Ends
<1>5. CASE arpCache[n][a].state # "pending"
  <2>1. pendingPackets' = pendingPackets
    <3>1. pendingPackets[n][a] = <<>>
      BY <1>5 DEF IInv, WaitingIsResolving
    <3> QED
      BY <3>1 DEF Ends, IInv, Types
  <2>2. r = "known" /\ Resolutions[n][a] \in {"none", "known"}
    BY <1>3, <1>5, ResolutionTyped
  <2>3. CASE Resolutions[n][a] = "none"
    BY <1>2, <2>1, <2>2, <2>3 DEF NextHops!Learn, Resolutions
  <2>4. CASE Resolutions[n][a] = "known"
    <3>1. Resolutions' = Resolutions
      BY <1>1, <1>3, <2>2, <2>4, SameImage DEF Ends
    <3> QED
      BY <2>1, <3>1
  <2> QED
    BY <2>2, <2>3, <2>4
<1> QED
  BY <1>4, <1>5

LEMMA NextImage == IInv /\ IInv' /\ [Next]_vars => [NextHops!Next]_(NextHops!vars)
<1> DEFINE Same == UNCHANGED <<Resolutions, pendingPackets>>
<1> SUFFICES ASSUME IInv, IInv', [Next]_vars PROVE NextHops!Next \/ Same
  BY DEF NextHops!vars, Resolutions
<1>1. arpCache' = arpCache => Resolutions' = Resolutions
  BY DEF Resolutions, resolutionOf
<1>2. ASSUME NEW n \in Node, NEW a \in Address, Joins(n, a) PROVE NextHops!Next
  BY <1>2, JoinsImage DEF NextHops!Next
<1>3. ASSUME NEW n \in Node, NEW f \in Flow, SendDatagram(n, f) PROVE NextHops!Next \/ Same
  BY <1>1, <1>2, <1>3, SendDatagramStep
<1>4. ASSUME NEW f \in wire, ReceiveDatagram(f) PROVE NextHops!Next \/ Same
  BY <1>1, <1>2, <1>4, ReceiveDatagramStep
<1>5. ASSUME NEW p \in arpWire, ReceiveARP(p) PROVE NextHops!Next \/ Same
  <2>1. CASE UNCHANGED <<arpCache, pendingPackets>>
    BY <1>1, <2>1
  <2>2. ASSUME NEW n \in Node, NEW a \in Address, Ends(n, a, "valid") PROVE NextHops!Next \/ Same
    BY <2>2, EndsImage DEF NextHops!Next
  <2> QED
    BY <1>5, <2>1, <2>2, ReceiveARPStep
<1>6. ASSUME NEW n \in Node, NEW a \in Address, Timeout(n, a) PROVE NextHops!Next \/ Same
  <2>1. arpCache[n][a].state = "pending"
    BY <1>6, TimerStep
  <2>2. CASE /\ OnlyEntry(n, a) /\ arpCache'[n][a].state = "pending"
             /\ pendingPackets' = pendingPackets
    <3>1. resolutionOf(n, a)' = "pending" /\ resolutionOf(n, a) = "pending"
      BY <2>1, <2>2 DEF resolutionOf
    <3>2. Resolutions' = Resolutions
      BY <2>2, <3>1, SameImage
    <3> QED
      BY <2>2, <3>2
  <2>3. CASE Ends(n, a, "none")
    BY <2>1, <2>3, EndsImage DEF NextHops!Next
  <2> QED
    BY <1>6, <2>2, <2>3, TimerStep
<1>7. ASSUME NEW n \in Node, NEW a \in Address, Expire(n, a) PROVE NextHops!Next \/ Same
  <2>1. /\ OnlyEntry(n, a) /\ pendingPackets' = pendingPackets
        /\ arpCache[n][a].state = "valid" /\ arpCache'[n][a].state = "expired"
    BY <1>7, ExpireStep
  <2>2. resolutionOf(n, a)' = "known" /\ resolutionOf(n, a) = "known"
    BY <2>1 DEF resolutionOf
  <2>3. Resolutions' = Resolutions
    BY <2>1, <2>2, SameImage
  <2> QED
    BY <2>1, <2>3
<1>8. ASSUME NEW n \in Node, Stop(n) PROVE NextHops!Next \/ Same
  <2>1. /\ arpCache' = [arpCache EXCEPT ![n] = [a \in Address |-> NoEntry]]
        /\ pendingPackets' = [pendingPackets EXCEPT ![n] = [a \in Address |-> <<>>]]
    BY <1>8, StopStep
  <2>2. \A a \in Address : resolutionOf(n, a)' = "none"
    BY <2>1 DEF resolutionOf, NoEntry, IInv, Types, ARPTypeOK
  <2>3. \A m \in Node \ {n}, a \in Address : resolutionOf(m, a)' = resolutionOf(m, a)
    BY <2>1 DEF resolutionOf, IInv, Types, ARPTypeOK
  <2>4. Resolutions' = [Resolutions EXCEPT ![n] = [a \in Address |-> "none"]]
    BY <2>2, <2>3 DEF Resolutions
  <2> QED
    BY <2>1, <2>4 DEF NextHops!Next, NextHops!Forget, Resolutions
<1>9. ASSUME NEW n \in Node, Start(n) PROVE NextHops!Next \/ Same
  BY <1>1, <1>9, StartStep
<1>10. CASE UNCHANGED vars
  BY <1>1, <1>10 DEF vars, arpVars, ipVars
<1> QED
  BY <1>3, <1>4, <1>5, <1>6, <1>7, <1>8, <1>9, <1>10 DEF Next

(* Every run of ARP and IPv4 is a run of the next-hop queues: a datagram     *)
(* joins its queue only in the step that finds or starts a resolution, and   *)
(* the whole queue leaves in the step in which the resolution ends.  That    *)
(* the resolution ends is left to the model checker (NextHopService).        *)
THEOREM QueuesImplemented == Spec => NextHops!Init /\ [][NextHops!Next]_(NextHops!vars)
<1>1. Spec => NextHops!Init
  BY InitImage DEF Spec
<1>2. IInv /\ IInv' /\ [Next]_vars => [NextHops!Next]_(NextHops!vars)
  BY NextImage
<1> QED
  BY <1>1, <1>2, Invariance, PTL DEF Spec

-----------------------------------------------------------------------------
(* What the packets on the wire and the entries of the cache say is true, if *)
(* the routes are consistent.                                                *)

(* The node of ie resolves a through ie.                                     *)
Asked(a, ie) == \E d \in Address : nextHop(NodeOf[ie], d) = a /\ OutIe[NodeOf[ie]][d] = ie

(* The interface a packet about a may come in through.                       *)
Seen(a, ie) == LinkOf[a] = LinkOf[ie] \/ Asked(a, ie)

Answers(mac, a, ie) ==
  /\ mac \in Neighbours(ie)
  /\ \/ mac = a
     \/ NodeOf[a] = NodeOf[mac]
     \/ /\ NodeOf[mac] \in Router
        /\ LinkOf[OutIe[NodeOf[mac]][a]] # LinkOf[ie]

PacketTrue(p) ==
  /\ Answers(p.srcMac, p.srcIP, p.to)
  /\ Seen(p.srcIP, p.to)
  /\ p.op = "REQUEST" => Asked(p.destIP, p.srcMac)

EntryTrue(n, a) ==
  LET e == arpCache[n][a]
  IN  /\ e.state # "none" => Seen(a, e.ie)
      /\ e.state = "pending" => Asked(a, e.ie)
      /\ e.state \in {"valid", "expired"} => Answers(e.mac, a, e.ie)

Truth ==
  /\ \A p \in arpWire : PacketTrue(p)
  /\ \A n \in Node, a \in Address : EntryTrue(n, a)

(* A packet about an address always comes in through the same interface.     *)
LEMMA OneInterface ==
  ASSUME ConsistentRoutes, NEW n \in Node, NEW a \in Address,
         NEW i \in Interfaces(n), NEW j \in Interfaces(n), Seen(a, i), Seen(a, j)
  PROVE  i = j
BY DEF ConsistentRoutes, Seen, Asked, Interfaces, Address

LEMMA RequestTrue ==
  ASSUME NEW ie \in Interface, NEW a \in Address, Asked(a, ie), NEW p \in sendARPRequest(ie, a)
  PROVE  PacketTrue(p)
<1>1. PICK j \in Neighbours(ie) :
         p = [op |-> "REQUEST", srcMac |-> ie, srcIP |-> ie, destIP |-> a, to |-> j]
  BY DEF sendARPRequest
<1>2. ie \in Neighbours(j) /\ LinkOf[ie] = LinkOf[j]
  BY DEF Neighbours
<1> QED
  BY <1>1, <1>2 DEF PacketTrue, Answers, Seen

LEMMA ReplyTrue ==
  ASSUME ConsistentRoutes, NEW p \in ARPPacket, PacketTrue(p),
         NEW r \in reply(NodeOf[p.to], p)
  PROVE  PacketTrue(r)
<1> DEFINE n == NodeOf[p.to]
<1>1. /\ r = [op |-> "REPLY", srcMac |-> p.to, srcIP |-> p.destIP,
              destIP |-> p.srcIP, to |-> p.srcMac]
      /\ addressRecognized(n, p.destIP, p.to) /\ p.op = "REQUEST"
  BY DEF reply
<1>2. p.to \in Interface /\ p.destIP \in Address /\ n \in Node
  BY NetworkAssumption DEF ARPPacket
<1>3. p.to \in Neighbours(p.srcMac) /\ LinkOf[p.to] = LinkOf[p.srcMac]
  BY <1>2 DEF PacketTrue, Answers, Neighbours
<1>4. Asked(p.destIP, p.srcMac)
  BY <1>1 DEF PacketTrue
<1>5. \/ NodeOf[p.destIP] = n
      \/ n \in Router /\ LinkOf[OutIe[n][p.destIP]] # LinkOf[p.srcMac]
  <2>1. CASE isLocalAddress(n, p.destIP)
    BY <2>1 DEF isLocalAddress
  <2>2. CASE OutIe[n][p.destIP] # p.to
    <3>1. OutIe[n][p.destIP] \in Interface /\ NodeOf[OutIe[n][p.destIP]] = n
      BY <1>2, NetworkAssumption
    <3> QED
      BY <1>2, <1>3, <2>2, <3>1 DEF ConsistentRoutes
  <2> QED
    BY <1>1, <2>1, <2>2 DEF addressRecognized
<1> QED
  BY <1>1, <1>3, <1>4, <1>5 DEF PacketTrue, Answers, Seen

LEMMA OthersTrue ==
  ASSUME Truth, NEW n \in Node, NEW a \in Address, OnlyEntry(n, a), EntryTrue(n, a)',
         \A p \in arpWire' : p \in arpWire \/ PacketTrue(p)
  PROVE  Truth'
BY DEF Truth, OnlyEntry, EntryTrue, PacketTrue

LEMMA SendTrue ==
  ASSUME IInv, Truth, NEW n \in Node, isUp[n], NEW dg \in Packet, NEW rest \in SUBSET Frame,
         routeUnicastPacket(n, dg, rest)
  PROVE  Truth'
<1> DEFINE ie  == OutIe[n][dg.dest]
           hop == nextHop(n, dg.dest)
<1>1. ie \in Interfaces(n) /\ ie \in Interface /\ hop \in Address /\ Asked(hop, ie)
  <2>1. dg.dest \in Address
    BY DEF Packet
  <2> QED
    BY <2>1, HopTyped DEF Interfaces, Asked
<1>2. UNCHANGED arpVars \/ startAddressResolution(n, hop, ie)
  BY DEF routeUnicastPacket, sendDatagramToOutput
<1> HIDE DEF ie, hop
<1>3. CASE UNCHANGED arpVars
  BY <1>3 DEF arpVars, Truth, EntryTrue
<1>4. CASE initiateARPResolution(n, hop, ie)
  <2>1. startAddressResolution(n, hop, ie) \/ arpCache[n][hop].state = "pending"
    BY <1>4 DEF startAddressResolution
  <2> DEFINE e == [state |-> "pending", ie |-> ie, numRetries |-> 0, mac |-> NoAddress]
  <2>2. arpCache' = [arpCache EXCEPT ![n][hop] = e] /\ e.state = "pending" /\ e.ie = ie
    BY <1>4 DEF initiateARPResolution
  <2>3. OnlyEntry(n, hop) /\ arpCache'[n][hop] = e
    <3> HIDE DEF e
    <3> QED
      BY <1>1, <2>2 DEF IInv, Types, ARPTypeOK, OnlyEntry
  <2> HIDE DEF e
  <2>4. EntryTrue(n, hop)'
    BY <1>1, <2>2, <2>3 DEF EntryTrue, Seen
  <2>5. \A p \in arpWire' : p \in arpWire \/ PacketTrue(p)
    BY <1>1, <1>4, RequestTrue DEF initiateARPResolution
  <2> QED
    BY <1>1, <2>3, <2>4, <2>5, OthersTrue
<1> QED
  BY <1>2, <1>3, <1>4 DEF startAddressResolution

LEMMA ReceiveTrue ==
  ASSUME ConsistentRoutes, IInv, Truth, NEW p \in arpWire, ReceiveARP(p)
  PROVE  Truth'
<1> DEFINE n == NodeOf[p.to]
           old == arpCache[n][p.srcIP]
           e == arpCache'[n][p.srcIP]
<1>1. ARPSound /\ processARPPacket(n, p)
  BY DEF ReceiveARP, IInv, Types, ARPSound
<1>2. /\ n \in Node /\ p.srcIP \in Address /\ OnlyEntry(n, p.srcIP) /\ p \in ARPPacket
      /\ ~learns(n, p) => arpCache' = arpCache
      /\ learns(n, p) => /\ e.state = "valid" /\ e.mac = p.srcMac
                         /\ e.ie = IF old.state = "none" THEN p.to ELSE old.ie
  BY <1>1, PacketStep
<1>3. PacketTrue(p) /\ p.to \in Interfaces(n)
  BY <1>2 DEF Truth, ARPPacket, Interfaces
<1>4. \A q \in arpWire' : q \in arpWire \/ PacketTrue(q)
  BY <1>1, <1>2, <1>3, ReplyTrue DEF processARPPacket
<1>5. EntryTrue(n, p.srcIP)'
  <2>1. CASE ~learns(n, p)
    BY <1>2, <2>1 DEF Truth, EntryTrue
  <2>2. CASE learns(n, p)
    <3>1. e.ie = p.to
      <4>1. CASE old.state # "none"
        <5>1. Seen(p.srcIP, old.ie) /\ old.ie \in Interfaces(n)
          BY <1>2, <4>1 DEF Truth, EntryTrue, IInv, EntrySound
        <5> QED
          BY <1>2, <1>3, <2>2, <4>1, <5>1, OneInterface DEF PacketTrue
      <4> QED
        BY <1>2, <2>2, <4>1
    <3> QED
      BY <1>2, <1>3, <2>2, <3>1 DEF EntryTrue, PacketTrue
  <2> QED
    BY <2>1, <2>2
<1> QED
  BY <1>2, <1>4, <1>5, OthersTrue

LEMMA TimerTrue ==
  ASSUME IInv, Truth, NEW n \in Node, NEW a \in Address, Timeout(n, a)
  PROVE  Truth'
<1> DEFINE old == arpCache[n][a]
           e == arpCache'[n][a]
<1>1. ARPSound /\ requestTimedOut(n, a)
  BY DEF Timeout, IInv, Types, ARPSound
<1>2. OnlyEntry(n, a) /\ old.state = "pending"
  BY <1>1, TimeoutStep
<1>3. old.ie \in Interface /\ Asked(a, old.ie) /\ Seen(a, old.ie)
  BY <1>2 DEF IInv, EntrySound, Interfaces, Truth, EntryTrue
<1>4. CASE resend(n, a)
  <2>1. e.state = "pending" /\ e.ie = old.ie
    BY <1>2, <1>4 DEF resend, IInv, Types, ARPTypeOK, ARPCacheEntry
  <2>2. EntryTrue(n, a)'
    BY <1>3, <2>1 DEF EntryTrue
  <2>3. \A p \in arpWire' : p \in arpWire \/ PacketTrue(p)
    BY <1>3, <1>4, RequestTrue DEF resend
  <2> QED
    BY <1>2, <2>2, <2>3, OthersTrue
<1>5. CASE giveUp(n, a)
  <2>1. e.state = "none" /\ arpWire' = arpWire
    BY <1>5 DEF giveUp, NoEntry, IInv, Types, ARPTypeOK
  <2>2. EntryTrue(n, a)'
    BY <2>1 DEF EntryTrue
  <2> QED
    BY <1>2, <2>1, <2>2, OthersTrue
<1> QED
  BY <1>1, <1>4, <1>5 DEF requestTimedOut

LEMMA TruthNext ==
  ASSUME ConsistentRoutes, IInv, Truth, [Next]_vars
  PROVE  Truth'
<1>1. ASSUME NEW n \in Node, NEW f \in Flow, SendDatagram(n, f) PROVE Truth'
  <2> DEFINE dg == [id |-> Len(sent) + 1, src |-> f[1], dest |-> f[2], off |-> 0,
                    len |-> f[3], more |-> FALSE]
  <2>1. dg \in Packet
    <3>1. f[1] \in Address /\ f[2] \in Address /\ f[3] \in Nat \ {0}
      BY FlowAssumption
    <3>2. Len(sent) + 1 \in Nat
      BY DEF IInv, Types
    <3> QED
      BY <3>1, <3>2 DEF Packet
  <2>2. isUp[n] /\ routeUnicastPacket(n, dg, wire) /\ wire \in SUBSET Frame
    BY <1>1 DEF SendDatagram, IInv, Types
  <2> HIDE DEF dg
  <2> QED
    BY <2>1, <2>2, SendTrue
<1>2. ASSUME NEW f \in wire, ReceiveDatagram(f) PROVE Truth'
  <2> DEFINE n == NodeOf[f.to]
  <2>1. f.dg \in Packet /\ n \in Node /\ isUp[n]
    BY <1>2, NetworkAssumption DEF ReceiveDatagram, IInv, Types, Frame
  <2>2. PICK rest \in {wire \ {f}, wire} : handleIncomingDatagram(n, f.dg, rest)
    BY <1>2 DEF ReceiveDatagram
  <2>3. rest \in SUBSET Frame
    BY DEF IInv, Types
  <2> HIDE DEF n
  <2>4. CASE routeUnicastPacket(n, f.dg, rest)
    BY <2>1, <2>3, <2>4, SendTrue
  <2>5. CASE UNCHANGED arpVars
    BY <2>5 DEF arpVars, Truth, EntryTrue
  <2> QED
    BY <2>2, <2>4, <2>5 DEF handleIncomingDatagram
<1>3. ASSUME NEW p \in arpWire, ReceiveARP(p) PROVE Truth'
  BY <1>3, ReceiveTrue
<1>4. ASSUME NEW n \in Node, NEW a \in Address, Timeout(n, a) PROVE Truth'
  BY <1>4, TimerTrue
<1>5. ASSUME NEW n \in Node, NEW a \in Address, Expire(n, a) PROVE Truth'
  <2>1. OnlyEntry(n, a) /\ arpWire' = arpWire
    BY <1>5, ExpireStep DEF Expire, expire
  <2>2. /\ arpCache[n][a].state = "valid" /\ arpCache'[n][a].state = "expired"
        /\ arpCache'[n][a].ie = arpCache[n][a].ie /\ arpCache'[n][a].mac = arpCache[n][a].mac
    BY <1>5 DEF Expire, expire, IInv, Types, ARPTypeOK, ARPCacheEntry
  <2>3. EntryTrue(n, a)'
    BY <2>2 DEF Truth, EntryTrue
  <2> QED
    BY <2>1, <2>3, OthersTrue
<1>6. ASSUME NEW n \in Node, Stop(n) PROVE Truth'
  <2>1. /\ arpCache' = [arpCache EXCEPT ![n] = [a \in Address |-> NoEntry]]
        /\ arpWire' = arpWire
    BY <1>6, StopStep DEF Stop, stopARP
  <2>2. \A m \in Node, a \in Address :
          arpCache'[m][a] = arpCache[m][a] \/ arpCache'[m][a].state = "none"
    BY <2>1 DEF IInv, Types, ARPTypeOK, NoEntry
  <2> QED
    BY <2>1, <2>2 DEF Truth, EntryTrue
<1>7. ASSUME NEW n \in Node, Start(n) PROVE Truth'
  BY <1>7 DEF Start, startARP, Truth, EntryTrue
<1>8. CASE UNCHANGED vars
  BY <1>8 DEF vars, arpVars, Truth, EntryTrue
<1> QED
  BY <1>1, <1>2, <1>3, <1>4, <1>5, <1>6, <1>7, <1>8 DEF Next

(* Whatever answers crossed, came late or came after a restart, in any       *)
(* network whose routes are consistent: a resolved entry leads to the node   *)
(* that has the address, or to a router that reaches it on another link.     *)
THEOREM BindingsAreReachable == ASSUME ConsistentRoutes PROVE Spec => []BindingReachable
<1>1. Init => Truth
  BY DEF Init, ARPInit, Truth, EntryTrue, NoEntry
<1>2. IInv /\ Truth /\ [Next]_vars => Truth'
  BY TruthNext
<1>3. IInv /\ Truth => BindingReachable
  BY DEF IInv, EntrySound, Truth, EntryTrue, Answers, BindingReachable, Interfaces
<1> QED
  BY <1>1, <1>2, <1>3, Invariance, PTL DEF Spec
-----------------------------------------------------------------------------
(* Induction.  The library states it for operators, which the provers cannot *)
(* instantiate; that no natural number is the first outside a set they can.  *)

LEMMA LeastNatural ==
  ASSUME NEW T \in SUBSET Nat, T # {}
  PROVE  \E x \in T : \A y \in T : x <= y
<1> DEFINE R == OpToRel(<, Nat)
<1>1. IsWellFoundedOn(R, Nat)
  BY NatLessThanWellFounded
<1> HIDE DEF R
<1>2. PICK x \in T : \A y \in T : <<y, x>> \notin R
  BY <1>1, WFMin
<1>3. ASSUME NEW y \in T PROVE x <= y
  <2>1. y < x => <<y, x>> \in R
    BY DEF R, OpToRel
  <2>2. x \in Nat /\ y \in Nat
    OBVIOUS
  <2> QED
    BY <1>2, <2>1, <2>2
<1> QED
  BY <1>3

LEMMA InductiveSet ==
  ASSUME NEW S, 0 \in S, \A k \in Nat : k \in S => k + 1 \in S
  PROVE  Nat \subseteq S
<1> SUFFICES ASSUME Nat \ S # {} PROVE FALSE
  OBVIOUS
<1>1. PICK x \in Nat \ S : \A y \in Nat \ S : x <= y
  BY LeastNatural
<1>2. x # 0 /\ x - 1 \in Nat /\ x = (x - 1) + 1
  BY <1>1
<1>3. x - 1 \in S
  BY <1>1, <1>2
<1> QED
  BY <1>1, <1>2, <1>3

-----------------------------------------------------------------------------
(* The rounds of mergeFragments.                                             *)

round(b) ==
  IF \E r \in b.fragments : mergeable(b, r)
  THEN mergeOne(b, CHOOSE r \in b.fragments : mergeable(b, r))
  ELSE b

(* The recursive definition defines what it says: finite runs of rounds      *)
(* exist by induction, agree where they overlap, and are joined.             *)
LEMMA Rounds ==
  ASSUME NEW buf
  PROVE  \E f : /\ f = [k \in Nat |-> IF k = 0 THEN buf ELSE round(f[k - 1])]
                /\ mergeFragments(buf) = f[Cardinality(buf.fragments)]
<1> DEFINE Def(f) == [k \in Nat |-> IF k = 0 THEN buf ELSE round(f[k - 1])]
           upto(n, f) == f = [k \in 0 .. n |-> IF k = 0 THEN buf ELSE round(f[k - 1])]
           S == {n \in Nat : \E f : upto(n, f)}
<1>1. 0 \in S
  <2>1. upto(0, [k \in 0 .. 0 |-> buf])
    OBVIOUS
  <2> QED
    BY <2>1
<1>2. ASSUME NEW n \in Nat, n \in S PROVE n + 1 \in S
  <2>1. PICK f : upto(n, f)
    BY <1>2
  <2> DEFINE g == [k \in 0 .. n + 1 |-> IF k = n + 1 THEN round(f[n]) ELSE f[k]]
  <2>2. ASSUME NEW k \in 0 .. n + 1
        PROVE  g[k] = IF k = 0 THEN buf ELSE round(g[k - 1])
    <3>1. CASE k = n + 1
      <4>1. n \in 0 .. n + 1 /\ n # n + 1 /\ k - 1 = n /\ k # 0
        BY <3>1
      <4> QED
        BY <3>1, <4>1
    <3>2. CASE k # n + 1 /\ k # 0
      <4>1. k - 1 \in 0 .. n /\ k - 1 # n + 1 /\ k \in 0 .. n /\ k - 1 \in 0 .. n + 1
        BY <3>2
      <4>2. f[k] = round(f[k - 1])
        BY <2>1, <3>2, <4>1
      <4> QED
        BY <3>2, <4>1, <4>2
    <3>3. CASE k = 0
      <4>1. k \in 0 .. n /\ k # n + 1
        BY <3>3
      <4>2. f[k] = buf
        BY <2>1, <3>3, <4>1
      <4> QED
        BY <3>3, <4>1, <4>2
    <3> QED
      BY <3>1, <3>2, <3>3
  <2>3. g = [k \in 0 .. n + 1 |-> g[k]]
    OBVIOUS
  <2> HIDE DEF g
  <2>4. upto(n + 1, g)
    BY <2>2, <2>3
  <2> HIDE DEF upto
  <2> QED
    BY <2>4
<1>3. Nat \subseteq S
  <2> HIDE DEF S
  <2> QED
    BY <1>1, <1>2, InductiveSet
<1>4. PICK run : \A n \in Nat : upto(n, run[n])
  <2> DEFINE run == [n \in Nat |-> CHOOSE f : upto(n, f)]
  <2> HIDE DEF upto
  <2>1. \A n \in Nat : upto(n, run[n])
    BY <1>3
  <2> HIDE DEF run
  <2> QED
    BY <2>1
<1>5. \A n \in Nat : \A k \in 0 .. n :
        run[n][k] = IF k = 0 THEN buf ELSE round(run[n][k - 1])
  BY <1>4
<1>6. \A n \in Nat : run[n + 1][n] = run[n][n]
  <2> DEFINE A == {n \in Nat : \A m \in Nat : n <= m => run[m][n] = run[n][n]}
  <2>1. 0 \in A
    BY <1>5
  <2>2. ASSUME NEW n \in Nat, n \in A PROVE n + 1 \in A
    <3> SUFFICES ASSUME NEW m \in Nat, n + 1 <= m PROVE run[m][n + 1] = run[n + 1][n + 1]
      OBVIOUS
    <3>1. run[m][n] = run[n][n] /\ run[n + 1][n] = run[n][n]
      BY <2>2
    <3>2. run[m][n + 1] = round(run[m][n])
      <4>1. n + 1 \in 0 .. m /\ n + 1 # 0 /\ (n + 1) - 1 = n
        OBVIOUS
      <4> QED
        BY <4>1, <1>5
    <3>3. run[n + 1][n + 1] = round(run[n + 1][n])
      <4>1. n + 1 \in 0 .. n + 1 /\ n + 1 # 0 /\ (n + 1) - 1 = n /\ n + 1 \in Nat
        OBVIOUS
      <4> QED
        BY <4>1, <1>5
    <3> QED
      BY <3>1, <3>2, <3>3
  <2>3. Nat \subseteq A
    <3> HIDE DEF A
    <3> QED
      BY <2>1, <2>2, InductiveSet
  <2> QED
    BY <2>3
<1> DEFINE F == [n \in Nat |-> run[n][n]]
<1>7. ASSUME NEW k \in Nat PROVE F[k] = IF k = 0 THEN buf ELSE round(F[k - 1])
  <2>1. CASE k = 0
    BY <2>1, <1>5
  <2>2. CASE k # 0
    <3>1. k - 1 \in Nat /\ k = (k - 1) + 1 /\ k \in 0 .. k
      BY <2>2
    <3>2. run[k][k] = round(run[k][k - 1]) /\ run[k][k - 1] = run[k - 1][k - 1]
      BY <1>5, <1>6, <2>2, <3>1
    <3> QED
      BY <2>2, <3>1, <3>2
  <2> QED
    BY <2>1, <2>2
<1>8. F = [k \in Nat |-> F[k]]
  OBVIOUS
<1> HIDE DEF F
<1>9. F = Def(F)
  BY <1>7, <1>8
<1> DEFINE rounds == CHOOSE f : f = Def(f)
<1>10. rounds = Def(rounds)
  <2> HIDE DEF Def
  <2> QED
    BY <1>9
<1>11. mergeFragments(buf) = rounds[Cardinality(buf.fragments)]
  BY DEF mergeFragments, round
<1> HIDE DEF rounds
<1> QED
  BY <1>10, <1>11

(* What every round preserves is true of the result.                         *)
LEMMA RoundsPreserve ==
  ASSUME NEW S, NEW buf \in S, IsFiniteSet(buf.fragments),
         \A b \in S : round(b) \in S
  PROVE  mergeFragments(buf) \in S
<1>1. PICK f : /\ f = [k \in Nat |-> IF k = 0 THEN buf ELSE round(f[k - 1])]
               /\ mergeFragments(buf) = f[Cardinality(buf.fragments)]
  BY Rounds
<1> DEFINE A == {k \in Nat : f[k] \in S}
<1>2. 0 \in A
  BY <1>1
<1>3. ASSUME NEW k \in Nat, k \in A PROVE k + 1 \in A
  <2>1. k + 1 \in Nat /\ k + 1 # 0 /\ (k + 1) - 1 = k
    OBVIOUS
  <2>2. f[k + 1] = round(f[k])
    BY <1>1, <2>1
  <2> QED
    BY <1>3, <2>1, <2>2
<1>4. Nat \subseteq A
  <2> HIDE DEF A
  <2> QED
    BY <1>2, <1>3, InductiveSet
<1> QED
  BY <1>1, <1>4, FS_CardinalityType

-----------------------------------------------------------------------------
(* The reassembly buffer of a datagram of L units of which those in U came.  *)

AnyRegion == [beg : Nat, end : Nat, islast : BOOLEAN]

AnyBuffer ==
  [beg : Nat, end : Nat, islast : BOOLEAN, fragments : SUBSET AnyRegion]

(* A region holds units that came, and is the last one only at the end.      *)
Holds(r, U, L) ==
  /\ r.beg .. r.end - 1 \subseteq U
  /\ r.end <= L
  /\ r.islast => r.end = L

Covered(b, U, L) ==
  /\ b \in AnyBuffer /\ IsFiniteSet(b.fragments)
  /\ b.beg <= b.end /\ Holds(b, U, L)
  /\ \A r \in b.fragments : r.beg < r.end /\ Holds(r, U, L)

LEMMA JoinCovered ==
  ASSUME NEW U, NEW L \in Nat, NEW b, Covered(b, U, L), NEW r \in AnyRegion,
         r.beg < r.end, Holds(r, U, L), NEW j \in AnyBuffer,
         IsFiniteSet(j.fragments),
         \A x \in j.fragments : x.beg < x.end /\ Holds(x, U, L),
         \/ /\ b.end = r.beg /\ j.beg = b.beg /\ j.end = r.end
            /\ j.islast <=> b.islast \/ r.islast
         \/ /\ b.beg = r.end /\ j.beg = r.beg /\ j.end = b.end
            /\ j.islast <=> b.islast
         \/ /\ j.beg = b.beg /\ j.end = b.end
            /\ j.islast <=> b.islast
  PROVE  Covered(j, U, L)
<1>1. /\ b.beg \in Nat /\ b.end \in Nat /\ b.beg <= b.end
      /\ r.beg \in Nat /\ r.end \in Nat
  BY DEF Covered, AnyBuffer, AnyRegion
<1>2. /\ b.end <= L /\ (b.islast => b.end = L)
      /\ r.end <= L /\ (r.islast => r.end = L)
      /\ \A u \in b.beg .. b.end - 1 : u \in U
      /\ \A u \in r.beg .. r.end - 1 : u \in U
  BY DEF Covered, Holds
<1>3. /\ j.beg <= j.end /\ j.end <= L /\ (j.islast => j.end = L)
      /\ \A u \in j.beg .. j.end - 1 : u \in U
  BY <1>1, <1>2
<1> QED
  BY <1>3 DEF Covered, Holds

LEMMA MergeOneCovered ==
  ASSUME NEW U, NEW L \in Nat, NEW b, Covered(b, U, L), NEW r \in b.fragments,
         mergeable(b, r)
  PROVE  Covered(mergeOne(b, r), U, L)
<1> DEFINE j == mergeOne(b, r)
<1> SUFFICES Covered(j, U, L)
  OBVIOUS
<1>1. b \in AnyBuffer /\ r \in AnyRegion /\ r.beg < r.end /\ Holds(r, U, L)
  BY DEF Covered, AnyBuffer
<1>2. /\ j \in AnyBuffer /\ j.fragments = b.fragments \ {r}
      /\ j.beg = IF b.end # r.beg /\ b.beg = r.end THEN r.beg ELSE b.beg
      /\ j.end = IF b.end = r.beg THEN r.end ELSE b.end
      /\ j.islast <=> b.islast \/ (b.end = r.beg /\ r.islast)
  BY <1>1 DEF mergeOne, AnyBuffer, AnyRegion
<1>3. /\ IsFiniteSet(j.fragments)
      /\ \A x \in j.fragments : x.beg < x.end /\ Holds(x, U, L)
  BY <1>2, FS_RemoveElement DEF Covered
<1> HIDE DEF j
<1>4. CASE b.end = r.beg
  BY <1>1, <1>2, <1>3, <1>4, JoinCovered
<1>5. CASE b.end # r.beg
  BY <1>1, <1>2, <1>3, <1>5, JoinCovered
<1> QED
  BY <1>4, <1>5

LEMMA MergeFragmentsCovered ==
  ASSUME NEW U, NEW L \in Nat, NEW b, Covered(b, U, L)
  PROVE  Covered(mergeFragments(b), U, L)
<1> DEFINE S == {x \in AnyBuffer : Covered(x, U, L)}
<1>1. b \in S /\ IsFiniteSet(b.fragments)
  BY DEF Covered
<1>2. ASSUME NEW x \in S PROVE round(x) \in S
  <2>1. Covered(round(x), U, L)
    BY MergeOneCovered DEF round
  <2> QED
    BY <2>1 DEF Covered
<1> HIDE DEF S
<1>3. mergeFragments(b) \in S
  BY <1>1, <1>2, RoundsPreserve
<1> QED
  BY <1>3 DEF S

LEMMA MergeCovered ==
  ASSUME NEW U, NEW L \in Nat, NEW b, Covered(b, U, L), NEW r \in AnyRegion,
         r.beg < r.end, Holds(r, U, L)
  PROVE  Covered(merge(b, r), U, L)
<1>0. /\ b.beg \in Nat /\ b.end \in Nat /\ b.beg <= b.end
      /\ r.beg \in Nat /\ r.end \in Nat
  BY DEF Covered, AnyBuffer, AnyRegion
<1>1. /\ b \in AnyBuffer /\ IsFiniteSet(b.fragments)
      /\ \A x \in b.fragments : x.beg < x.end /\ Holds(x, U, L)
  BY DEF Covered
<1>2. CASE b.end = r.beg
  <2> DEFINE j == [b EXCEPT !.end = r.end, !.islast = @ \/ r.islast]
  <2>1. /\ j \in AnyBuffer /\ j.beg = b.beg /\ j.end = r.end
        /\ j.fragments = b.fragments /\ (j.islast <=> b.islast \/ r.islast)
    BY <1>1 DEF AnyBuffer, AnyRegion
  <2>2. merge(b, r) = mergeFragments(j)
    BY <1>0, <1>2 DEF merge
  <2> HIDE DEF j
  <2>3. Covered(j, U, L)
    BY <1>1, <1>2, <2>1, JoinCovered
  <2> QED
    BY <2>2, <2>3, MergeFragmentsCovered
<1>3. CASE b.end # r.beg /\ b.beg = r.end
  <2> DEFINE j == [b EXCEPT !.beg = r.beg]
  <2>1. /\ j \in AnyBuffer /\ j.beg = r.beg /\ j.end = b.end
        /\ j.fragments = b.fragments /\ (j.islast <=> b.islast)
    BY <1>1 DEF AnyBuffer, AnyRegion
  <2>2. merge(b, r) = mergeFragments(j)
    BY <1>0, <1>3 DEF merge
  <2> HIDE DEF j
  <2>3. Covered(j, U, L)
    BY <1>1, <1>3, <2>1, JoinCovered
  <2> QED
    BY <2>2, <2>3, MergeFragmentsCovered
<1>4. CASE b.end # r.beg /\ b.beg # r.end
  <2> DEFINE j == [b EXCEPT !.fragments = @ \cup {r}]
  <2>1. /\ j \in AnyBuffer /\ j.beg = b.beg /\ j.end = b.end
        /\ j.fragments = b.fragments \cup {r} /\ (j.islast <=> b.islast)
    BY <1>1 DEF AnyBuffer
  <2>2. merge(b, r) = j \/ merge(b, r) = b
    BY <1>4 DEF merge
  <2> HIDE DEF j
  <2>3. IsFiniteSet(j.fragments)
    BY <1>1, <2>1, FS_AddElement
  <2>4. Covered(j, U, L)
    BY <1>1, <2>1, <2>3, JoinCovered
  <2> QED
    BY <2>2, <2>4
<1> QED
  BY <1>2, <1>3, <1>4

(* No region that touches what the buffer has grown to is left waiting: the  *)
(* rounds are enough for "once more" of mergeFragments to end.               *)
THEOREM NothingLeftToMerge ==
  ASSUME NEW buf, IsFiniteSet(buf.fragments)
  PROVE  LET b == mergeFragments(buf) IN \A r \in b.fragments : ~mergeable(b, r)
<1> DEFINE c == Cardinality(buf.fragments)
           quiet(b) == \A r \in b.fragments : ~mergeable(b, r)
<1>1. PICK f : /\ f = [k \in Nat |-> IF k = 0 THEN buf ELSE round(f[k - 1])]
               /\ mergeFragments(buf) = f[c]
  BY Rounds
<1>2. c \in Nat
  BY FS_CardinalityType
<1> DEFINE A == {k \in Nat : \/ quiet(f[k])
                             \/ /\ IsFiniteSet(f[k].fragments)
                                /\ Cardinality(f[k].fragments) = c - k}
<1>3. 0 \in A
  BY <1>1, <1>2
<1>4. ASSUME NEW k \in Nat, k \in A PROVE k + 1 \in A
  <2>1. k + 1 \in Nat /\ k + 1 # 0 /\ (k + 1) - 1 = k
    OBVIOUS
  <2>2. f[k + 1] = round(f[k])
    BY <1>1, <2>1
  <2>3. CASE quiet(f[k])
    <3>1. f[k + 1] = f[k]
      BY <2>2, <2>3 DEF round
    <3> QED
      BY <2>1, <2>3, <3>1
  <2>4. CASE ~quiet(f[k])
    <3>1. PICK r \in f[k].fragments : f[k + 1] = mergeOne(f[k], r)
      BY <2>2, <2>4 DEF round
    <3>2. f[k + 1].fragments = f[k].fragments \ {r}
      BY <3>1 DEF mergeOne
    <3>3. IsFiniteSet(f[k].fragments) /\ Cardinality(f[k].fragments) = c - k
      BY <1>4, <2>4
    <3>4. /\ IsFiniteSet(f[k + 1].fragments)
          /\ Cardinality(f[k + 1].fragments) = Cardinality(f[k].fragments) - 1
      BY <3>2, <3>3, FS_RemoveElement
    <3>5. Cardinality(f[k + 1].fragments) = c - (k + 1)
      BY <1>2, <3>3, <3>4
    <3> QED
      BY <2>1, <3>4, <3>5
  <2> QED
    BY <2>3, <2>4
<1> HIDE DEF c
<1>5. Nat \subseteq A
  <2> HIDE DEF A
  <2> QED
    BY <1>3, <1>4, InductiveSet
<1>6. \/ quiet(f[c])
      \/ IsFiniteSet(f[c].fragments) /\ Cardinality(f[c].fragments) = c - c
  BY <1>2, <1>5
<1>7. c - c = 0
  BY <1>2
<1>8. IsFiniteSet(f[c].fragments) /\ Cardinality(f[c].fragments) = 0 => quiet(f[c])
  BY FS_EmptySet
<1> QED
  BY <1>1, <1>6, <1>7, <1>8

-----------------------------------------------------------------------------
(* What a node has of a datagram of L units: its buffer b, the units A put   *)
(* into it, how often it was handed up and how often each unit was heard.    *)
Account(b, A, times, h, L) ==
  /\ Covered(b, A, L)
  /\ \A u \in 0 .. L - 1 : times + (IF u \in A THEN 1 ELSE 0) <= h[u]

Hear(h, us) == [u \in DOMAIN h |-> IF u \in us THEN h[u] + 1 ELSE h[u]]

LEMMA EmptyCovered ==
  ASSUME NEW U, NEW L \in Nat
  PROVE  Covered(EmptyBuffer, U, L)
<1>1. EmptyBuffer \in AnyBuffer /\ IsFiniteSet(EmptyBuffer.fragments)
  BY FS_EmptySet DEF EmptyBuffer, AnyBuffer
<1>2. \A u \in 0 .. 0 - 1 : FALSE
  OBVIOUS
<1> QED
  BY <1>1, <1>2 DEF Covered, Holds, EmptyBuffer

(* A purge forgets units that were heard.                                    *)
LEMMA PurgeAccount ==
  ASSUME NEW b, NEW A, NEW times \in Nat, NEW L \in Nat, NEW m \in Nat, L <= m,
         NEW h \in [0 .. m - 1 -> Nat], Account(b, A, times, h, L)
  PROVE  Account(EmptyBuffer, {}, times, h, L)
<1>1. ASSUME NEW u \in 0 .. L - 1 PROVE times + (IF u \in {} THEN 1 ELSE 0) <= h[u]
  <2>1. h[u] \in Nat /\ times + (IF u \in A THEN 1 ELSE 0) <= h[u]
    BY DEF Account
  <2> QED
    BY <2>1
<1> QED
  BY <1>1, EmptyCovered DEF Account

(* A piece that completes the datagram accounts for one delivery, any other  *)
(* for its units.                                                            *)
LEMMA PieceAccount ==
  ASSUME NEW b, NEW A, NEW times \in Nat, NEW L \in Nat, NEW m \in Nat, L <= m,
         NEW h \in [0 .. m - 1 -> Nat], Account(b, A, times, h, L),
         NEW r \in AnyRegion, r.beg < r.end, r.end <= L, r.islast => r.end = L
  PROVE  LET buf == merge(b, r)
             us == r.beg .. r.end - 1
         IN  /\ buf \in AnyBuffer
             /\ isComplete(buf) => /\ getTotalLength(buf) = L
                                   /\ Account(EmptyBuffer, {}, times + 1, Hear(h, us), L)
             /\ Account(buf, A \cup us, times, Hear(h, us), L)
<1> DEFINE buf == merge(b, r)
           us == r.beg .. r.end - 1
           U == A \cup us
           h2 == Hear(h, us)
<1>1. Covered(b, U, L)
  BY DEF Account, Covered, Holds
<1>2. Holds(r, U, L)
  BY DEF Holds
<1>3. Covered(buf, U, L)
  BY <1>1, <1>2, MergeCovered
<1>4. ASSUME NEW u \in 0 .. L - 1
      PROVE  /\ times + (IF u \in U THEN 1 ELSE 0) <= h2[u]
             /\ h2[u] \in Nat
  <2>1. u \in DOMAIN h /\ h[u] \in Nat
    OBVIOUS
  <2>2. times + (IF u \in A THEN 1 ELSE 0) <= h[u]
    BY DEF Account
  <2>3. h2[u] = IF u \in us THEN h[u] + 1 ELSE h[u]
    BY <2>1 DEF Hear
  <2> HIDE DEF us, h2
  <2> QED
    BY <2>1, <2>2, <2>3
<1>5. ASSUME isComplete(buf)
      PROVE  getTotalLength(buf) = L /\ Account(EmptyBuffer, {}, times + 1, h2, L)
  <2>1. buf.beg = 0 /\ buf.end = L /\ buf.beg .. buf.end - 1 \subseteq U
    BY <1>3, <1>5 DEF isComplete, Covered, Holds
  <2>2. ASSUME NEW u \in 0 .. L - 1
        PROVE  (times + 1) + (IF u \in {} THEN 1 ELSE 0) <= h2[u]
    <3>1. u \in U
      BY <2>1
    <3> HIDE DEF U, h2
    <3> QED
      BY <1>4, <3>1
  <2> HIDE DEF buf, h2
  <2> QED
    BY <2>1, <2>2, EmptyCovered DEF Account, getTotalLength
<1> HIDE DEF buf, U, h2
<1>6. Account(buf, U, times, h2, L)
  BY <1>3, <1>4 DEF Account
<1>7. buf \in AnyBuffer
  BY <1>3 DEF Covered
<1> QED
  BY <1>5, <1>6, <1>7 DEF buf, U, h2

(* A datagram that comes whole brings each of its units once.                *)
LEMMA WholeAccount ==
  ASSUME NEW b, NEW A, NEW times \in Nat, NEW L \in Nat, NEW m \in Nat, L <= m,
         NEW h \in [0 .. m - 1 -> Nat], Account(b, A, times, h, L)
  PROVE  Account(b, A, times + 1, Hear(h, 0 .. L - 1), L)
<1>1. ASSUME NEW u \in 0 .. L - 1
      PROVE  (times + 1) + (IF u \in A THEN 1 ELSE 0) <= Hear(h, 0 .. L - 1)[u]
  <2>1. u \in DOMAIN h /\ h[u] \in Nat
    OBVIOUS
  <2>2. times + (IF u \in A THEN 1 ELSE 0) <= h[u]
    BY DEF Account
  <2>3. Hear(h, 0 .. L - 1)[u] = h[u] + 1
    BY <2>1 DEF Hear
  <2> QED
    BY <2>1, <2>2, <2>3
<1> QED
  BY <1>1 DEF Account

LEMMA HearTyped ==
  ASSUME NEW m \in Nat, NEW h \in [0 .. m - 1 -> Nat], NEW us
  PROVE  Hear(h, us) \in [0 .. m - 1 -> Nat]
BY DEF Hear

-----------------------------------------------------------------------------
(* The bounds the configuration puts on identifications and lengths.         *)

LEMMA FiniteMaximum ==
  ASSUME NEW S \in SUBSET Nat, IsFiniteSet(S), S # {}
  PROVE  \E x \in S : \A y \in S : x >= y
<1> DEFINE bounded(X) == \E x \in X : \A y \in X : x >= y
           T == {X \in SUBSET S : X # {} /\ ~bounded(X)}
<1>1. SUFFICES ASSUME T # {} PROVE FALSE
  OBVIOUS
<1>2. T \subseteq FiniteSubsetsOf(S)
  BY FS_Subset DEF FiniteSubsetsOf
<1>3. PICK X \in T : \A Y \in T : <<Y, X>> \notin StrictSubsetOrdering(S)
  <2> HIDE DEF T
  <2> QED
    BY <1>1, <1>2, FS_StrictSubsetOrderingWellFounded, WFMin
<1>4. PICK x \in X : TRUE
  BY <1>3
<1> DEFINE Y == X \ {x}
<1>5. Y \notin T
  <2>1. <<Y, X>> \in StrictSubsetOrdering(S)
    BY <1>4 DEF StrictSubsetOrdering
  <2> QED
    BY <1>3, <2>1
<1>6. Y = {} \/ bounded(Y)
  BY <1>5
<1>7. CASE Y = {}
  <2>1. \A y \in X : x >= y
    <3>1. \A y \in X : y = x /\ x \in Nat
      BY <1>4, <1>7
    <3> QED
      BY <3>1
  <2> QED
    BY <1>3, <1>4, <2>1
<1>8. CASE bounded(Y)
  <2>1. PICK z \in Y : \A y \in Y : z >= y
    BY <1>8
  <2>2. /\ x \in Nat /\ z \in Nat /\ z \in X
        /\ \A y \in X : y \in Nat /\ (y = x \/ y \in Y)
    BY <1>4
  <2> HIDE DEF Y
  <2>3. CASE x >= z
    <3>1. \A y \in X : x >= y
      BY <2>1, <2>2, <2>3
    <3> QED
      BY <1>3, <1>4, <3>1
  <2>4. CASE z >= x
    <3>1. \A y \in X : z >= y
      BY <2>1, <2>2, <2>4
    <3> QED
      BY <1>3, <2>2, <3>1
  <2> QED
    BY <2>2, <2>3, <2>4
<1> QED
  BY <1>6, <1>7, <1>8

LEMMA UnitsBound == MaxUnits \in Nat /\ \A f \in Flow : f[3] \in Nat \ {0} /\ f[3] <= MaxUnits
<1> DEFINE S == {f[3] : f \in Flow}
<1>1. \A f \in Flow : f[3] \in Nat \ {0}
  BY FlowAssumption
<1>2. S \in SUBSET Nat /\ S # {}
  BY <1>1, FlowAssumption
<1>3. IsFiniteSet(S)
  <2> DEFINE g == [f \in Flow |-> f[3]]
  <2>1. g \in Surjection(Flow, S)
    BY DEF Surjection
  <2> HIDE DEF g, S
  <2> QED
    BY <2>1, FlowAssumption, FS_Surjection
<1>4. MaxUnits = CHOOSE x \in S : \A y \in S : x >= y
  BY DEF MaxUnits, Max
<1> HIDE DEF S
<1>5. MaxUnits \in S /\ \A y \in S : MaxUnits >= y
  BY <1>2, <1>3, <1>4, FiniteMaximum
<1>6. ASSUME NEW f \in Flow PROVE f[3] <= MaxUnits
  <2>1. f[3] \in S
    BY DEF S
  <2> QED
    BY <1>2, <1>5, <2>1
<1> QED
  BY <1>1, <1>2, <1>5, <1>6

(* No datagram is handed down twice, so the identifications suffice.         *)
LEMMA IdsSuffice ==
  ASSUME NEW s \in Seq(Flow), IsInjective(s)
  PROVE  1 .. Len(s) \subseteq Id
<1> DEFINE c == Cardinality(Flow)
<1>1. s \in Injection(1 .. Len(s), Flow)
  <2>1. s \in [1 .. Len(s) -> Flow] /\ DOMAIN s = 1 .. Len(s)
    OBVIOUS
  <2> QED
    BY <2>1 DEF Injection
<1>2. Cardinality(1 .. Len(s)) <= c
  BY <1>1, FlowAssumption, FS_Injection
<1>3. Cardinality(1 .. Len(s)) = Len(s) /\ Len(s) \in Nat
  <2>1. 1 \in Int /\ Len(s) \in Int /\ Len(s) \in Nat
    OBVIOUS
  <2>2. Cardinality(1 .. Len(s)) = IF 1 > Len(s) THEN 0 ELSE Len(s) - 1 + 1
    BY <2>1, FS_Interval
  <2> QED
    BY <2>1, <2>2
<1>4. c \in Nat
  BY FlowAssumption, FS_CardinalityType
<1> QED
  BY <1>2, <1>3, <1>4 DEF Id

-----------------------------------------------------------------------------
(* What is under way are pieces of datagrams that were sent.                 *)
Pieces(s) ==
  {dg \in Packet :
     /\ dg.id \in 1 .. Len(s)
     /\ dg.dest = s[dg.id][2]
     /\ dg.off + dg.len <= s[dg.id][3]
     /\ dg.more <=> dg.off + dg.len # s[dg.id][3]}

PieceFrame(s) == [to : Interface, dg : Pieces(s)]

LEMMA ProductMonotone ==
  ASSUME NEW a \in Nat, NEW b \in Nat, a <= b, NEW z \in Nat
  PROVE  a * z <= b * z
<1>1. (b - a) * z \in Nat
  OBVIOUS
<1>2. b * z = a * z + (b - a) * z
  OBVIOUS
<1> QED
  BY <1>1, <1>2

LEMMA FragmentPieces ==
  ASSUME NEW s \in Seq(Flow), NEW dg \in Pieces(s), NEW ie \in Interface
  PROVE  fragments(dg, ie) \in Seq(Pieces(s))
<1> DEFINE size == Mtu[ie]
           c == (dg.len + size - 1) \div size
           at(k) == (k - 1) * size
           piece(k) == [dg EXCEPT !.off = @ + at(k),
                                  !.len = IF k = c THEN @ - at(k) ELSE size,
                                  !.more = @ \/ k < c]
           total == s[dg.id][3]
<1>1. /\ size \in Nat \ {0} /\ dg.len \in Nat \ {0} /\ dg.off \in Nat
      /\ dg.more \in BOOLEAN /\ dg.id \in 1 .. Len(s) /\ dg \in Packet
      /\ dg.dest = s[dg.id][2]
  BY NetworkAssumption DEF Pieces, Packet
<1>2. total \in Nat
  BY <1>1, UnitsBound
<1>3. dg.off + dg.len <= total /\ (dg.more <=> dg.off + dg.len # total)
  BY DEF Pieces
<1>4. c \in Nat \ {0} /\ at(c) < dg.len /\ \A k \in 1 .. c : at(k) \in Nat
  BY <1>1, DivBounds
<1> HIDE DEF c, total
<1>5. ASSUME NEW k \in 1 .. c, k # c PROVE at(k) + size < dg.len
  <2>1. at(k) + size <= at(c)
    <3>1. k * size <= (c - 1) * size
      <4>1. k \in Nat /\ c - 1 \in Nat /\ k <= c - 1 /\ size \in Nat
        BY <1>1, <1>4, <1>5
      <4> QED
        BY <4>1, ProductMonotone
    <3>2. at(k) + size = k * size
      BY <1>1, <1>4
    <3> QED
      BY <3>1, <3>2
  <2>2. at(k) \in Nat /\ at(c) \in Nat
    BY <1>4
  <2> HIDE DEF at
  <2> QED
    BY <1>1, <1>4, <2>1, <2>2
<1>6. ASSUME NEW k \in 1 .. c PROVE piece(k) \in Pieces(s)
  <2> DEFINE o == dg.off + at(k)
             l == IF k = c THEN dg.len - at(k) ELSE size
             m == dg.more \/ k < c
  <2>1. at(k) \in Nat
    BY <1>4
  <2>2. o \in Nat /\ l \in Nat \ {0} /\ m \in BOOLEAN /\ o + l <= total
        /\ (m <=> o + l # total)
    <3> HIDE DEF at
    <3>1. CASE k = c
      <4>1. at(k) < dg.len
        BY <1>4, <3>1
      <4>2. o \in Nat /\ l \in Nat \ {0} /\ o + l = dg.off + dg.len
        BY <1>1, <2>1, <3>1, <4>1
      <4>3. m \in BOOLEAN /\ (m <=> dg.more)
        BY <1>1, <1>4, <3>1
      <4> HIDE DEF o, l, m
      <4> QED
        BY <1>3, <4>2, <4>3
    <3>2. CASE k # c
      <4>1. k < c /\ at(k) + size < dg.len
        BY <1>4, <1>5, <3>2
      <4> QED
        BY <1>1, <1>2, <1>3, <2>1, <3>2, <4>1
    <3> QED
      BY <3>1, <3>2
  <2>3. piece(k) = [dg EXCEPT !.off = o, !.len = l, !.more = m]
    OBVIOUS
  <2> HIDE DEF o, l, m, at, piece
  <2>4. /\ piece(k) \in Packet /\ piece(k).id = dg.id /\ piece(k).dest = dg.dest
        /\ piece(k).off = o /\ piece(k).len = l /\ piece(k).more = m
    BY <1>1, <2>2, <2>3 DEF Packet
  <2> QED
    BY <1>1, <2>2, <2>4 DEF Pieces, total
<1>7. fragments(dg, ie) = [k \in 1 .. c |-> piece(k)]
  BY DEF fragments, c
<1> HIDE DEF piece
<1> QED
  BY <1>4, <1>6, <1>7

LEMMA PieceFrames ==
  ASSUME NEW s, NEW dgs \in Seq(Pieces(s)), NEW ie, NEW mac \in Interface
  PROVE  frames(dgs, ie, mac) \subseteq PieceFrame(s)
BY DEF frames, PieceFrame, ToSet

(* Later datagrams change nothing for the pieces of earlier ones.            *)
LEMMA PiecesGrow ==
  ASSUME NEW s \in Seq(Flow), NEW f \in Flow
  PROVE  /\ Pieces(s) \subseteq Pieces(Append(s, f))
         /\ PieceFrame(s) \subseteq PieceFrame(Append(s, f))
<1>1. \A k \in 1 .. Len(s) : k \in 1 .. Len(Append(s, f)) /\ Append(s, f)[k] = s[k]
  OBVIOUS
<1>2. Pieces(s) \subseteq Pieces(Append(s, f))
  BY <1>1 DEF Pieces
<1> QED
  BY <1>2 DEF PieceFrame

Traffic ==
  /\ IsInjective(sent)
  /\ pendingPackets \in [Node -> [Address -> Seq(Pieces(sent))]]
  /\ wire \subseteq PieceFrame(sent)

LEMMA SendPieces ==
  ASSUME IInv, NEW n \in Node, NEW s \in Seq(Flow), NEW dg \in Pieces(s),
         pendingPackets \in [Node -> [Address -> Seq(Pieces(s))]],
         NEW rest \in SUBSET PieceFrame(s), routeUnicastPacket(n, dg, rest)
  PROVE  /\ pendingPackets' \in [Node -> [Address -> Seq(Pieces(s))]]
         /\ wire' \subseteq PieceFrame(s)
<1> DEFINE ie  == OutIe[n][dg.dest]
           hop == nextHop(n, dg.dest)
           dgs == fragments(dg, ie)
           mac == getMACAddressFor(n, hop)
<1>1. ie \in Interface /\ hop \in Address
  <2>1. dg.dest \in Address
    BY DEF Pieces, Packet
  <2> QED
    BY <2>1, HopTyped DEF Interfaces
<1>2. dgs \in Seq(Pieces(s))
  BY <1>1, FragmentPieces
<1>3. sendDatagramToOutput(n, dg, ie, hop, rest)
  BY DEF routeUnicastPacket
<1> HIDE DEF ie, hop, dgs
<1>4. CASE mac = NoAddress
  <2>1. pendingPackets' = [pendingPackets EXCEPT ![n][hop] = @ \o dgs] /\ wire' = rest
    BY <1>3, <1>4 DEF sendDatagramToOutput, dgs
  <2>2. pendingPackets[n][hop] \o dgs \in Seq(Pieces(s))
    BY <1>1, <1>2
  <2> QED
    BY <1>1, <2>1, <2>2
<1>5. CASE mac # NoAddress
  <2>1. wire' = rest \cup frames(dgs, ie, mac) /\ pendingPackets' = pendingPackets
    BY <1>3, <1>5 DEF sendDatagramToOutput, dgs
  <2>2. mac \in Interface
    BY <1>1, <1>5 DEF getMACAddressFor, IInv, EntrySound
  <2> QED
    BY <1>2, <2>1, <2>2, PieceFrames
<1> QED
  BY <1>4, <1>5

LEMMA SendDatagramTraffic ==
  ASSUME IInv, Traffic, NEW n \in Node, NEW f \in Flow, SendDatagram(n, f)
  PROVE  Traffic'
<1> DEFINE dg == [id |-> Len(sent) + 1, src |-> f[1], dest |-> f[2], off |-> 0,
                  len |-> f[3], more |-> FALSE]
           s == Append(sent, f)
<1>1. sent \in Seq(Flow) /\ s \in Seq(Flow) /\ sent' = s
  BY DEF IInv, Types, SendDatagram
<1>2. /\ Len(s) = Len(sent) + 1 /\ s[Len(sent) + 1] = f /\ Len(sent) \in Nat
      /\ \A k \in 1 .. Len(sent) : s[k] = sent[k]
  BY <1>1
<1>3. IsInjective(s)
  <2>1. \A k \in 1 .. Len(sent) : sent[k] # f
    BY <1>1 DEF SendDatagram, ToSet
  <2>2. DOMAIN s = 1 .. Len(sent) + 1 /\ DOMAIN sent = 1 .. Len(sent)
    BY <1>1
  <2> HIDE DEF s
  <2> QED
    BY <1>2, <2>1, <2>2 DEF Traffic, IsInjective
<1>4. dg \in Pieces(s)
  <2>1. f[1] \in Address /\ f[2] \in Address /\ f[3] \in Nat \ {0}
    BY FlowAssumption
  <2>2. dg \in Packet
    BY <1>2, <2>1 DEF Packet
  <2> HIDE DEF s
  <2> QED
    BY <1>2, <2>1, <2>2 DEF Pieces
<1>5. /\ pendingPackets \in [Node -> [Address -> Seq(Pieces(s))]]
      /\ wire \in SUBSET PieceFrame(s)
  <2>1. Pieces(sent) \subseteq Pieces(s) /\ PieceFrame(sent) \subseteq PieceFrame(s)
    BY <1>1, PiecesGrow
  <2>2. \A q \in Seq(Pieces(sent)) : q \in Seq(Pieces(s))
    BY <2>1
  <2> HIDE DEF s
  <2> QED
    BY <2>1, <2>2 DEF Traffic
<1>6. routeUnicastPacket(n, dg, wire)
  BY DEF SendDatagram
<1> HIDE DEF dg, s
<1>7. /\ pendingPackets' \in [Node -> [Address -> Seq(Pieces(s))]]
      /\ wire' \subseteq PieceFrame(s)
  BY <1>1, <1>4, <1>5, <1>6, SendPieces
<1> QED
  BY <1>1, <1>3, <1>7 DEF Traffic

LEMMA ReceiveDatagramTraffic ==
  ASSUME IInv, Traffic, NEW f \in wire, ReceiveDatagram(f)
  PROVE  Traffic'
<1> DEFINE n == NodeOf[f.to]
<1>1. f.dg \in Pieces(sent) /\ n \in Node /\ sent \in Seq(Flow) /\ sent' = sent
  BY NetworkAssumption DEF IInv, Types, Traffic, PieceFrame, ReceiveDatagram
<1>2. PICK rest \in {wire \ {f}, wire} : handleIncomingDatagram(n, f.dg, rest)
  BY DEF ReceiveDatagram
<1>3. rest \in SUBSET PieceFrame(sent)
  BY DEF Traffic
<1> HIDE DEF n
<1>4. CASE routeUnicastPacket(n, f.dg, rest)
  BY <1>1, <1>3, <1>4, SendPieces DEF Traffic
<1>5. CASE wire' = rest /\ UNCHANGED pendingPackets
  BY <1>1, <1>3, <1>5 DEF Traffic
<1> QED
  BY <1>2, <1>4, <1>5 DEF handleIncomingDatagram

(* Queues are emptied into the wire or dropped.                              *)
LEMMA ReleaseTraffic ==
  ASSUME Traffic, sent' = sent, NEW n \in Node, NEW a \in Address,
         pendingPackets' = [pendingPackets EXCEPT ![n][a] = <<>>],
         NEW ie, NEW mac \in Interface,
         \/ wire' = wire
         \/ wire' = wire \cup frames(pendingPackets[n][a], ie, mac)
  PROVE  Traffic'
<1>1. pendingPackets' \in [Node -> [Address -> Seq(Pieces(sent))]]
  BY DEF Traffic
<1>2. frames(pendingPackets[n][a], ie, mac) \subseteq PieceFrame(sent)
  BY PieceFrames DEF Traffic
<1> QED
  BY <1>1, <1>2 DEF Traffic

LEMMA ReceiveARPTraffic ==
  ASSUME IInv, Traffic, NEW p \in arpWire, ReceiveARP(p)
  PROVE  Traffic'
<1> DEFINE n == NodeOf[p.to]
           e == arpCache'[n][p.srcIP]
<1>1. ARPSound /\ processARPPacket(n, p) /\ sent' = sent
  BY DEF ReceiveARP, IInv, Types, ARPSound
<1>2. /\ ARPSound' /\ n \in Node /\ p.srcIP \in Address
      /\ learns(n, p) => e.state = "valid"
  BY <1>1, PacketStep
<1>3. CASE learns(n, p)
  <2>1. /\ pendingPackets' = [pendingPackets EXCEPT ![n][p.srcIP] = <<>>]
        /\ wire' = wire \cup frames(pendingPackets[n][p.srcIP], e.ie, e.mac)
    BY <1>3 DEF ReceiveARP, arpResolutionCompleted
  <2>2. e.mac \in Interface
    BY <1>2, <1>3 DEF ARPSound, EntrySound
  <2> HIDE DEF n, e
  <2> QED
    BY <1>1, <1>2, <2>1, <2>2, ReleaseTraffic
<1>4. CASE ~learns(n, p)
  <2>1. UNCHANGED <<pendingPackets, wire>>
    BY <1>4 DEF ReceiveARP
  <2> HIDE DEF n
  <2> QED
    BY <1>1, <2>1 DEF Traffic
<1> QED
  BY <1>3, <1>4

LEMMA TimeoutTraffic ==
  ASSUME Traffic, NEW n \in Node, NEW a \in Address, Timeout(n, a)
  PROVE  Traffic'
<1>1. sent' = sent /\ wire' = wire
  BY DEF Timeout, arpResolutionTimedOut
<1>2. \/ pendingPackets' = pendingPackets
      \/ pendingPackets' = [pendingPackets EXCEPT ![n][a] = <<>>]
  BY DEF Timeout, arpResolutionTimedOut
<1>3. a \in Interface
  BY DEF Address
<1> QED
  BY <1>1, <1>2, <1>3, ReleaseTraffic DEF Traffic

LEMMA StopTraffic ==
  ASSUME Traffic, NEW n \in Node, Stop(n)
  PROVE  Traffic'
<1>1. /\ pendingPackets' = [pendingPackets EXCEPT ![n] = [a \in Address |-> <<>>]]
      /\ sent' = sent /\ wire' = wire
  BY DEF Stop
<1>2. pendingPackets' \in [Node -> [Address -> Seq(Pieces(sent))]]
  BY <1>1 DEF Traffic
<1> QED
  BY <1>1, <1>2 DEF Traffic

-----------------------------------------------------------------------------
(* The accounts of all nodes.                                                *)
DeliveredAs(s, k) == {i \in 1 .. Len(s) : s[i][1] = k}

KeptAs(k, b, A, times, h) ==
  IF k <= Len(sent) THEN Account(b, A, times, h, sent[k][3])
                    ELSE b = EmptyBuffer /\ A = {}

Kept(n, k) ==
  KeptAs(k, fragbuf[n][k], arrived[n][k],
         Cardinality(DeliveredAs(delivered[n], k)), heard[n][k])

(* Handed up at its destination, in its full length.                         *)
RightDelivery(n, d) ==
  /\ d[1] \in 1 .. Len(sent)
  /\ d[2] = sent[d[1]][3]
  /\ NodeOf[sent[d[1]][2]] = n

Reassembled ==
  /\ fragbuf \in [Node -> [Id -> AnyBuffer]]
  /\ arrived \in [Node -> [Id -> SUBSET Nat]]
  /\ delivered \in [Node -> Seq(Nat \X Nat)]
  /\ heard \in [Node -> [Id -> [0 .. MaxUnits - 1 -> Nat]]]
  /\ \A n \in Node, k \in Id : Kept(n, k)
  /\ \A n \in Node : \A i \in 1 .. Len(delivered[n]) : RightDelivery(n, delivered[n][i])

LEMMA DeliveredAsAppend ==
  ASSUME NEW s \in Seq(Nat \X Nat), NEW d \in Nat \X Nat, NEW k
  PROVE  /\ Cardinality(DeliveredAs(s, k)) \in Nat
         /\ Cardinality(DeliveredAs(Append(s, d), k)) =
              Cardinality(DeliveredAs(s, k)) + (IF d[1] = k THEN 1 ELSE 0)
<1> DEFINE D == DeliveredAs(s, k)
           new == Len(s) + 1
<1>1. Len(s) \in Nat /\ D \subseteq 1 .. Len(s) /\ new \notin D
  BY DEF DeliveredAs
<1>2. IsFiniteSet(D) /\ Cardinality(D) \in Nat
  <2>1. IsFiniteSet(1 .. Len(s))
    BY <1>1, FS_Interval
  <2>2. IsFiniteSet(D)
    BY <1>1, <2>1, FS_Subset
  <2> QED
    BY <2>2, FS_CardinalityType
<1>3. DeliveredAs(Append(s, d), k) = IF d[1] = k THEN D \cup {new} ELSE D
  <2>1. /\ Len(Append(s, d)) = new /\ Append(s, d)[new] = d
        /\ \A i \in 1 .. Len(s) : Append(s, d)[i] = s[i]
    OBVIOUS
  <2>2. 1 .. new = 1 .. Len(s) \cup {new}
    BY <1>1
  <2> HIDE DEF new
  <2> QED
    BY <2>1, <2>2 DEF DeliveredAs
<1> HIDE DEF D, new
<1>4. Cardinality(D \cup {new}) = Cardinality(D) + 1
  BY <1>1, <1>2, FS_AddElement
<1> QED
  BY <1>2, <1>3, <1>4 DEF D

(* One node's accounts change.                                               *)
LEMMA NodeAccounts ==
  ASSUME Reassembled, sent' = sent, NEW n \in Node,
         NEW fb \in [Id -> AnyBuffer], fragbuf' = [fragbuf EXCEPT ![n] = fb],
         NEW ar \in [Id -> SUBSET Nat], arrived' = [arrived EXCEPT ![n] = ar],
         NEW de \in Seq(Nat \X Nat), delivered' = [delivered EXCEPT ![n] = de],
         NEW he \in [Id -> [0 .. MaxUnits - 1 -> Nat]],
         heard' = [heard EXCEPT ![n] = he],
         \A k \in Id : KeptAs(k, fb[k], ar[k], Cardinality(DeliveredAs(de, k)), he[k]),
         \A i \in 1 .. Len(de) : RightDelivery(n, de[i])
  PROVE  Reassembled'
<1>1. /\ fragbuf' \in [Node -> [Id -> AnyBuffer]]
      /\ arrived' \in [Node -> [Id -> SUBSET Nat]]
      /\ delivered' \in [Node -> Seq(Nat \X Nat)]
      /\ heard' \in [Node -> [Id -> [0 .. MaxUnits - 1 -> Nat]]]
  BY DEF Reassembled
<1>2. /\ fragbuf'[n] = fb /\ arrived'[n] = ar /\ delivered'[n] = de /\ heard'[n] = he
      /\ \A m \in Node \ {n} : /\ fragbuf'[m] = fragbuf[m] /\ arrived'[m] = arrived[m]
                                /\ delivered'[m] = delivered[m] /\ heard'[m] = heard[m]
  BY DEF Reassembled
<1>3. ASSUME NEW m \in Node, NEW k \in Id PROVE Kept(m, k)'
  BY <1>2 DEF Reassembled, Kept, KeptAs
<1>4. ASSUME NEW m \in Node, NEW i \in 1 .. Len(delivered'[m])
      PROVE  RightDelivery(m, delivered[m][i])'
  <2>1. CASE m = n
    <3>1. i \in 1 .. Len(de) /\ delivered'[m][i] = de[i]
      BY <1>2, <2>1
    <3> QED
      BY <2>1, <3>1 DEF RightDelivery
  <2>2. CASE m # n
    <3>1. delivered'[m] = delivered[m] /\ i \in 1 .. Len(delivered[m])
      BY <1>2, <2>2
    <3> QED
      BY <3>1 DEF Reassembled, RightDelivery
  <2> QED
    BY <2>1, <2>2
<1> QED
  BY <1>1, <1>3, <1>4 DEF Reassembled

LEMMA SendDatagramReassembled ==
  ASSUME IInv, Reassembled, NEW n \in Node, NEW f \in Flow, SendDatagram(n, f)
  PROVE  Reassembled'
<1>1. /\ sent \in Seq(Flow) /\ sent' = Append(sent, f)
      /\ UNCHANGED <<fragbuf, arrived, delivered, heard>>
  BY DEF IInv, Types, SendDatagram
<1>2. /\ Len(sent) \in Nat /\ Len(sent') = Len(sent) + 1 /\ sent'[Len(sent) + 1] = f
      /\ \A k \in 1 .. Len(sent) : sent'[k] = sent[k]
  BY <1>1
<1>3. ASSUME NEW m \in Node, NEW k \in Id PROVE Kept(m, k)'
  <2>1. k \in Nat /\ k >= 1 /\ Kept(m, k)
    BY DEF Reassembled, Id
  <2>2. CASE k <= Len(sent)
    <3>1. k <= Len(sent') /\ sent'[k] = sent[k]
      BY <1>2, <2>1, <2>2
    <3> QED
      BY <1>1, <2>1, <2>2, <3>1 DEF Kept, KeptAs
  <2>3. CASE k = Len(sent) + 1
    <3>1. fragbuf[m][k] = EmptyBuffer /\ arrived[m][k] = {}
      BY <1>2, <2>1, <2>3 DEF Kept, KeptAs
    <3>2. DeliveredAs(delivered[m], k) = {}
      BY <1>2, <2>3 DEF Reassembled, RightDelivery, DeliveredAs
    <3>3. Cardinality(DeliveredAs(delivered[m], k)) = 0
      BY <3>2, FS_EmptySet
    <3>4. f[3] \in Nat /\ f[3] <= MaxUnits /\ MaxUnits \in Nat
      BY UnitsBound
    <3>5. ASSUME NEW u \in 0 .. f[3] - 1
          PROVE  0 + (IF u \in {} THEN 1 ELSE 0) <= heard[m][k][u]
      <4>1. u \in 0 .. MaxUnits - 1
        BY <3>4
      <4>2. heard[m][k] \in [0 .. MaxUnits - 1 -> Nat]
        BY DEF Reassembled
      <4>3. heard[m][k][u] \in Nat
        BY <4>1, <4>2
      <4> QED
        BY <4>3
    <3>6. Account(EmptyBuffer, {}, 0, heard[m][k], f[3])
      BY <3>4, <3>5, EmptyCovered DEF Account
    <3>7. k <= Len(sent') /\ sent'[k] = f
      BY <1>2, <2>3
    <3> QED
      BY <1>1, <3>1, <3>3, <3>6, <3>7 DEF Kept, KeptAs
  <2>4. CASE k > Len(sent) + 1
    <3>1. ~(k <= Len(sent')) /\ ~(k <= Len(sent))
      BY <1>2, <2>1, <2>4
    <3> QED
      BY <1>1, <2>1, <3>1 DEF Kept, KeptAs
  <2> QED
    BY <1>2, <2>1, <2>2, <2>3, <2>4
<1>4. ASSUME NEW m \in Node, NEW i \in 1 .. Len(delivered[m])
      PROVE  RightDelivery(m, delivered[m][i])'
  <2>1. RightDelivery(m, delivered[m][i])
    BY DEF Reassembled
  <2> QED
    BY <1>1, <1>2, <2>1 DEF RightDelivery
<1> QED
  BY <1>1, <1>3, <1>4 DEF Reassembled

LEMMA ReassembleStep ==
  ASSUME IInv, Traffic, Reassembled, NEW n \in Node, NEW dg \in Pieces(sent),
         NodeOf[dg.dest] = n, sent' = sent, reassembleAndDeliver(n, dg)
  PROVE  Reassembled'
<1> DEFINE id == dg.id
           L == sent[id][3]
           us == units(dg)
           he == [heard[n] EXCEPT ![id] = Hear(heard[n][id], us)]
           times == Cardinality(DeliveredAs(delivered[n], id))
           de == Append(delivered[n], <<id, L>>)
<1>1. /\ sent \in Seq(Flow) /\ id \in 1 .. Len(sent) /\ id \in Id
      /\ dg.dest = sent[id][2] /\ dg.off \in Nat /\ dg.len \in Nat \ {0}
      /\ dg.off + dg.len <= L /\ (dg.more <=> dg.off + dg.len # L)
      /\ dg.more \in BOOLEAN
  BY IdsSuffice DEF IInv, Types, Traffic, Pieces, Packet
<1>2. L \in Nat /\ L <= MaxUnits /\ MaxUnits \in Nat
  BY <1>1, UnitsBound
<1>3. heard[n][id] \in [0 .. MaxUnits - 1 -> Nat]
  BY <1>1 DEF Reassembled
<1>4. heard' = [heard EXCEPT ![n] = he]
  BY <1>1 DEF reassembleAndDeliver, Hear, Reassembled
<1>5. he \in [Id -> [0 .. MaxUnits - 1 -> Nat]]
  BY <1>1, <1>2, <1>3, HearTyped DEF Reassembled
<1>6. /\ delivered[n] \in Seq(Nat \X Nat) /\ <<id, L>> \in Nat \X Nat
      /\ de \in Seq(Nat \X Nat) /\ times \in Nat
  BY <1>1, <1>2, DeliveredAsAppend DEF Reassembled, Id
<1>7. /\ Cardinality(DeliveredAs(de, id)) = times + 1
      /\ \A k \in Id \ {id} : Cardinality(DeliveredAs(de, k)) =
                               Cardinality(DeliveredAs(delivered[n], k))
  <2>1. <<id, L>>[1] = id
    OBVIOUS
  <2>2. ASSUME NEW k \in Id \ {id}
        PROVE  Cardinality(DeliveredAs(de, k)) = Cardinality(DeliveredAs(delivered[n], k))
    BY <1>6, <2>1, DeliveredAsAppend
  <2> QED
    BY <1>6, <2>1, <2>2, DeliveredAsAppend
<1>8. \A i \in 1 .. Len(de) : RightDelivery(n, de[i])
  <2>1. RightDelivery(n, <<id, L>>)
    BY <1>1 DEF RightDelivery
  <2>2. \A i \in 1 .. Len(de) :
          \/ i \in 1 .. Len(delivered[n]) /\ de[i] = delivered[n][i]
          \/ de[i] = <<id, L>>
    BY <1>6
  <2> HIDE DEF de
  <2> QED
    BY <2>1, <2>2 DEF Reassembled
<1>9. Account(fragbuf[n][id], arrived[n][id], times, heard[n][id], L)
  <2>1. Kept(n, id) /\ id <= Len(sent)
    BY <1>1 DEF Reassembled
  <2> QED
    BY <2>1 DEF Kept, KeptAs
<1>10. \A k \in Id \ {id} : he[k] = heard[n][k] /\ Kept(n, k)
  BY DEF Reassembled
<1>11. he[id] = Hear(heard[n][id], us) /\ id <= Len(sent)
  BY <1>1 DEF Reassembled
<1> HIDE DEF he, times, de, id, L
<1>12. CASE ~(dg.off # 0 \/ dg.more)
  <2>1. dg.len = L /\ us = 0 .. L - 1
    BY <1>1, <1>12 DEF units
  <2>2. /\ delivered' = [delivered EXCEPT ![n] = de]
        /\ fragbuf' = fragbuf /\ arrived' = arrived
    BY <1>12, <2>1 DEF reassembleAndDeliver, de, Reassembled, id
  <2>3. /\ fragbuf[n] \in [Id -> AnyBuffer] /\ fragbuf' = [fragbuf EXCEPT ![n] = fragbuf[n]]
        /\ arrived[n] \in [Id -> SUBSET Nat] /\ arrived' = [arrived EXCEPT ![n] = arrived[n]]
    BY <2>2 DEF Reassembled
  <2>4. Account(fragbuf[n][id], arrived[n][id], times + 1, he[id], L)
    <3>1. Account(fragbuf[n][id], arrived[n][id], times + 1,
                  Hear(heard[n][id], 0 .. L - 1), L)
      BY <1>2, <1>3, <1>6, <1>9, WholeAccount
    <3> QED
      BY <1>11, <2>1, <3>1
  <2>5. ASSUME NEW k \in Id
        PROVE  KeptAs(k, fragbuf[n][k], arrived[n][k], Cardinality(DeliveredAs(de, k)), he[k])
    <3>1. CASE k = id
      BY <1>7, <1>11, <2>4, <3>1 DEF KeptAs, L
    <3>2. CASE k # id
      BY <1>7, <1>10, <3>2 DEF Kept
    <3> QED
      BY <3>1, <3>2
  <2> QED
    BY <1>4, <1>5, <1>6, <1>8, <2>2, <2>3, <2>5, NodeAccounts
<1>13. CASE dg.off # 0 \/ dg.more
  <2>1. PICK stale \in SUBSET Id : addFragment(n, dg, stale)
    BY <1>13 DEF reassembleAndDeliver
  <2> DEFINE old == IF id \in stale THEN EmptyBuffer ELSE fragbuf[n][id]
             had == IF id \in stale THEN {} ELSE arrived[n][id]
             r == [beg |-> dg.off, end |-> dg.off + dg.len, islast |-> ~dg.more]
             buf == merge(old, r)
             done == isComplete(buf)
             fb == [k \in Id |-> IF k = id THEN IF done THEN EmptyBuffer ELSE buf
                                 ELSE IF k \in stale THEN EmptyBuffer ELSE fragbuf[n][k]]
             ar == [k \in Id |-> IF k = id THEN IF done THEN {} ELSE had \cup us
                                 ELSE IF k \in stale THEN {} ELSE arrived[n][k]]
             dl == IF done THEN Append(delivered[n], <<id, getTotalLength(buf)>>)
                   ELSE delivered[n]
  <2>2. /\ fragbuf' = [fragbuf EXCEPT ![n] = fb]
        /\ arrived' = [arrived EXCEPT ![n] = ar]
        /\ delivered' = [delivered EXCEPT ![n] = dl]
    BY <2>1 DEF addFragment, Reassembled, id
  <2>3. Account(old, had, times, heard[n][id], L)
    BY <1>2, <1>3, <1>6, <1>9, PurgeAccount
  <2>4. /\ r \in AnyRegion /\ r.beg < r.end /\ r.end <= L /\ (r.islast => r.end = L)
        /\ us = r.beg .. r.end - 1
    <3>1. r.beg = dg.off /\ r.end = dg.off + dg.len /\ (r.islast <=> ~dg.more)
      OBVIOUS
    <3>2. r \in AnyRegion
      BY <1>1 DEF AnyRegion
    <3>3. us = r.beg .. r.end - 1
      BY <1>1, <3>1 DEF units
    <3> HIDE DEF r, us
    <3> QED
      BY <1>1, <1>2, <3>1, <3>2, <3>3
  <2> HIDE DEF old, had, r, us
  <2>5. /\ buf \in AnyBuffer
        /\ done => /\ getTotalLength(buf) = L
                   /\ Account(EmptyBuffer, {}, times + 1, he[id], L)
        /\ Account(buf, had \cup us, times, he[id], L)
    <3> DEFINE h2 == Hear(heard[n][id], r.beg .. r.end - 1)
    <3>1. /\ buf \in AnyBuffer
          /\ isComplete(buf) => /\ getTotalLength(buf) = L
                                /\ Account(EmptyBuffer, {}, times + 1, h2, L)
          /\ Account(buf, had \cup (r.beg .. r.end - 1), times, h2, L)
      BY <1>2, <1>3, <1>6, <2>3, <2>4, PieceAccount
    <3>2. h2 = he[id]
      BY <1>11, <2>4
    <3> HIDE DEF h2, buf
    <3> QED
      BY <2>4, <3>1, <3>2
  <2>6. EmptyBuffer \in AnyBuffer /\ us \subseteq Nat /\ had \subseteq Nat
    BY <1>1, <2>4 DEF EmptyBuffer, AnyBuffer, AnyRegion, had, Reassembled
  <2> HIDE DEF buf, done
  <2>7. /\ fb \in [Id -> AnyBuffer] /\ ar \in [Id -> SUBSET Nat]
    BY <2>5, <2>6 DEF Reassembled
  <2>8. dl = IF done THEN de ELSE delivered[n]
    BY <2>5 DEF de
  <2> HIDE DEF dl
  <2>9. ASSUME NEW k \in Id
        PROVE  KeptAs(k, fb[k], ar[k], Cardinality(DeliveredAs(dl, k)), he[k])
    <3>1. CASE k = id
      <4>1. fb[k] = (IF done THEN EmptyBuffer ELSE buf)
            /\ ar[k] = (IF done THEN {} ELSE had \cup us)
        BY <3>1
      <4>2. Cardinality(DeliveredAs(dl, k)) = IF done THEN times + 1 ELSE times
        BY <1>7, <2>8, <3>1 DEF times
      <4>3. Account(fb[k], ar[k], Cardinality(DeliveredAs(dl, k)), he[k], L)
        BY <2>5, <3>1, <4>1, <4>2
      <4> QED
        BY <1>11, <3>1, <4>3 DEF KeptAs, L
    <3>2. CASE k # id
      <4>1. Cardinality(DeliveredAs(dl, k)) = Cardinality(DeliveredAs(delivered[n], k))
        BY <1>7, <2>8, <3>2
      <4>2. he[k] = heard[n][k] /\ Kept(n, k)
        BY <1>10, <3>2
      <4>3. CASE k \notin stale
        BY <3>2, <4>1, <4>2, <4>3 DEF Kept
      <4>4. CASE k \in stale
        <5>1. fb[k] = EmptyBuffer /\ ar[k] = {}
          BY <3>2, <4>4
        <5>2. CASE k <= Len(sent)
          <6>1. k \in 1 .. Len(sent)
            BY <1>1, <5>2 DEF Id
          <6>2. sent[k][3] \in Nat /\ sent[k][3] <= MaxUnits
            BY <1>1, <6>1, UnitsBound
          <6>3. Cardinality(DeliveredAs(delivered[n], k)) \in Nat
            BY <1>6, DeliveredAsAppend
          <6>4. /\ heard[n][k] \in [0 .. MaxUnits - 1 -> Nat]
                /\ Account(fragbuf[n][k], arrived[n][k],
                           Cardinality(DeliveredAs(delivered[n], k)), heard[n][k], sent[k][3])
            BY <4>2, <5>2 DEF Reassembled, Kept, KeptAs
          <6>5. Account(EmptyBuffer, {}, Cardinality(DeliveredAs(delivered[n], k)),
                        heard[n][k], sent[k][3])
            BY <1>2, <6>2, <6>3, <6>4, PurgeAccount
          <6> QED
            BY <4>1, <4>2, <5>1, <5>2, <6>5 DEF KeptAs
        <5>3. CASE ~(k <= Len(sent))
          BY <5>1, <5>3 DEF KeptAs
        <5> QED
          BY <5>2, <5>3
      <4> QED
        BY <4>3, <4>4
    <3> QED
      BY <3>1, <3>2
  <2>10. dl \in Seq(Nat \X Nat) /\ \A i \in 1 .. Len(dl) : RightDelivery(n, dl[i])
    BY <1>6, <1>8, <2>8 DEF Reassembled
  <2> HIDE DEF fb, ar
  <2> QED
    BY <1>4, <1>5, <2>2, <2>7, <2>9, <2>10, NodeAccounts
<1> QED
  BY <1>12, <1>13

LEMMA ReceiveDatagramReassembled ==
  ASSUME IInv, Traffic, Reassembled, NEW f \in wire, ReceiveDatagram(f)
  PROVE  Reassembled'
<1> DEFINE n == NodeOf[f.to]
<1>1. f.dg \in Pieces(sent) /\ n \in Node /\ sent' = sent
  BY NetworkAssumption DEF Traffic, PieceFrame, ReceiveDatagram
<1>2. PICK rest \in {wire \ {f}, wire} : handleIncomingDatagram(n, f.dg, rest)
  BY DEF ReceiveDatagram
<1> HIDE DEF n
<1>3. CASE isLocalAddress(n, f.dg.dest) /\ reassembleAndDeliver(n, f.dg)
  <2>1. NodeOf[f.dg.dest] = n
    BY <1>3 DEF isLocalAddress
  <2> QED
    BY <1>1, <1>3, <2>1, ReassembleStep
<1>4. CASE UNCHANGED <<fragbuf, delivered, arrived, heard>>
  BY <1>1, <1>4 DEF Reassembled, Kept, KeptAs, RightDelivery
<1> QED
  BY <1>2, <1>3, <1>4 DEF handleIncomingDatagram

LEMMA OthersReassembled ==
  ASSUME Reassembled, UNCHANGED <<sent, fragbuf, delivered, arrived, heard>>
  PROVE  Reassembled'
BY DEF Reassembled, Kept, KeptAs, RightDelivery

-----------------------------------------------------------------------------
(* The invariant of reassembly is inductive.                                 *)
DInv == IInv /\ Traffic /\ Reassembled

LEMMA DInvInit == Init => DInv
<1> SUFFICES ASSUME Init PROVE Traffic /\ Reassembled
  BY IInvInit DEF DInv
<1>1. sent = <<>> /\ Len(sent) = 0
  BY DEF Init, IPv4Init
<1>2. Traffic
  <2>1. IsInjective(sent)
    BY <1>1 DEF IsInjective
  <2> QED
    BY <2>1 DEF Init, IPv4Init, Traffic
<1>3. EmptyBuffer \in AnyBuffer
  BY DEF EmptyBuffer, AnyBuffer
<1>4. /\ fragbuf \in [Node -> [Id -> AnyBuffer]]
      /\ arrived \in [Node -> [Id -> SUBSET Nat]]
      /\ delivered \in [Node -> Seq(Nat \X Nat)]
      /\ heard \in [Node -> [Id -> [0 .. MaxUnits - 1 -> Nat]]]
  BY <1>3 DEF Init, IPv4Init
<1>5. ASSUME NEW n \in Node, NEW k \in Id PROVE Kept(n, k)
  <2>1. ~(k <= Len(sent))
    BY <1>1 DEF Id
  <2> QED
    BY <2>1 DEF Kept, KeptAs, Init, IPv4Init
<1>6. \A n \in Node : Len(delivered[n]) = 0
  BY DEF Init, IPv4Init
<1> QED
  BY <1>2, <1>4, <1>5, <1>6 DEF Reassembled

LEMMA DInvNext == DInv /\ [Next]_vars => DInv'
<1> SUFFICES ASSUME DInv, [Next]_vars PROVE Traffic' /\ Reassembled'
  BY IInvNext DEF DInv
<1>1. IInv /\ Traffic /\ Reassembled
  BY DEF DInv
<1>2. ASSUME NEW n \in Node, NEW f \in Flow, SendDatagram(n, f)
      PROVE  Traffic' /\ Reassembled'
  BY <1>1, <1>2, SendDatagramTraffic, SendDatagramReassembled
<1>3. ASSUME NEW f \in wire, ReceiveDatagram(f) PROVE Traffic' /\ Reassembled'
  BY <1>1, <1>3, ReceiveDatagramTraffic, ReceiveDatagramReassembled
<1>4. ASSUME NEW p \in arpWire, ReceiveARP(p) PROVE Traffic' /\ Reassembled'
  <2>1. UNCHANGED <<sent, fragbuf, delivered, arrived, heard>>
    BY <1>4 DEF ReceiveARP
  <2> QED
    BY <1>1, <1>4, <2>1, ReceiveARPTraffic, OthersReassembled
<1>5. ASSUME NEW n \in Node, NEW a \in Address, Timeout(n, a)
      PROVE  Traffic' /\ Reassembled'
  <2>1. UNCHANGED <<sent, fragbuf, delivered, arrived, heard>>
    BY <1>5 DEF Timeout
  <2> QED
    BY <1>1, <1>5, <2>1, TimeoutTraffic, OthersReassembled
<1>6. ASSUME NEW n \in Node, Stop(n) PROVE Traffic' /\ Reassembled'
  <2>1. UNCHANGED <<sent, fragbuf, delivered, arrived, heard>>
    BY <1>6 DEF Stop
  <2> QED
    BY <1>1, <1>6, <2>1, StopTraffic, OthersReassembled
<1>7. CASE UNCHANGED ipVars
  <2>1. UNCHANGED <<sent, fragbuf, delivered, arrived, heard>>
    BY <1>7 DEF ipVars
  <2>2. Traffic'
    BY <1>1, <1>7 DEF ipVars, Traffic
  <2> QED
    BY <1>1, <2>1, <2>2, OthersReassembled
<1>8. CASE UNCHANGED vars
  BY <1>7, <1>8 DEF vars
<1>9. ASSUME NEW n \in Node, NEW a \in Address, Expire(n, a) PROVE UNCHANGED ipVars
  BY <1>9 DEF Expire
<1>10. ASSUME NEW n \in Node, Start(n) PROVE UNCHANGED ipVars
  BY <1>10 DEF Start
<1> QED
  BY <1>2, <1>3, <1>4, <1>5, <1>6, <1>7, <1>8, <1>9, <1>10 DEF Next

LEMMA DInvariance == Spec => []DInv
BY DInvInit, DInvNext, PTL DEF Spec

LEMMA SentTyped ==
  ASSUME DInv
  PROVE  /\ 1 .. Len(sent) \subseteq Id /\ MaxUnits \in Nat
         /\ \A k \in 1 .. Len(sent) : sent[k][3] \in Nat \ {0} /\ sent[k][3] <= MaxUnits
<1>1. sent \in Seq(Flow) /\ IsInjective(sent)
  BY DEF DInv, IInv, Types, Traffic
<1>2. \A k \in 1 .. Len(sent) : sent[k] \in Flow
  BY <1>1
<1> QED
  BY <1>1, <1>2, IdsSuffice, UnitsBound

LEMMA PiecesTyped ==
  ASSUME DInv
  PROVE  Pieces(sent) \subseteq Datagram
<1> SUFFICES ASSUME NEW dg \in Pieces(sent) PROVE dg \in Datagram
  OBVIOUS
<1>1. dg.id \in 1 .. Len(sent) /\ dg.off + dg.len <= sent[dg.id][3] /\ dg \in Packet
  BY DEF Pieces
<1>2. dg.id \in Id /\ sent[dg.id][3] \in Nat /\ sent[dg.id][3] <= MaxUnits /\ MaxUnits \in Nat
  BY <1>1, SentTyped
<1>3. dg.off \in Nat /\ dg.len \in Nat \ {0}
  BY <1>1 DEF Packet
<1>4. dg.off \in 0 .. MaxUnits - 1 /\ dg.len \in 1 .. MaxUnits
  BY <1>1, <1>2, <1>3
<1> QED
  BY <1>1, <1>2, <1>4 DEF Packet, Datagram

LEMMA CoveredTyped ==
  ASSUME NEW b, NEW U, NEW L \in Nat, L <= MaxUnits, MaxUnits \in Nat, Covered(b, U, L)
  PROVE  b \in Buffer
<1>1. /\ b \in AnyBuffer /\ b.beg <= b.end /\ b.end <= L
      /\ \A r \in b.fragments : r.beg < r.end /\ r.end <= L
  BY DEF Covered, Holds
<1>2. b.beg \in 0 .. MaxUnits /\ b.end \in 0 .. MaxUnits
  BY <1>1 DEF AnyBuffer
<1>3. ASSUME NEW r \in b.fragments PROVE r \in Region
  <2>1. r \in AnyRegion /\ r.beg < r.end /\ r.end <= L
    BY <1>1 DEF AnyBuffer
  <2>2. r.beg \in 0 .. MaxUnits /\ r.end \in 0 .. MaxUnits
    BY <2>1 DEF AnyRegion
  <2> QED
    BY <2>1, <2>2 DEF AnyRegion, Region
<1> QED
  BY <1>1, <1>2, <1>3 DEF AnyBuffer, Buffer

(* Every variable of IPv4 and ARP keeps its type: a piece of a datagram has  *)
(* the identification of a datagram that was sent and lies within it, through *)
(* any number of routers that cut it again, and no region of a reassembly    *)
(* buffer goes past its end.                                                 *)
THEOREM NetworkTypeCorrect == Spec => []TypeOK
<1>1. ASSUME DInv PROVE TypeOK
  <2>1. ARPTypeOK
    BY <1>1 DEF DInv, IInv, Types
  <2>2. ASSUME NEW n \in Node, NEW a \in Address, NEW i \in DOMAIN pendingPackets[n][a]
        PROVE  pendingPackets[n][a][i] \in Datagram
    <3>1. pendingPackets[n][a] \in Seq(Pieces(sent))
      BY <1>1 DEF DInv, Traffic
    <3>2. pendingPackets[n][a][i] \in Pieces(sent)
      BY <3>1
    <3> QED
      BY <1>1, <3>2, PiecesTyped
  <2>3. wire \subseteq [to : Interface, dg : Datagram]
    BY <1>1, PiecesTyped DEF DInv, Traffic, PieceFrame
  <2>4. ASSUME NEW n \in Node, NEW k \in Id PROVE fragbuf[n][k] \in Buffer
    <3>1. Kept(n, k) /\ MaxUnits \in Nat /\ k \in Nat \ {0}
      BY <1>1, SentTyped DEF DInv, Reassembled, Id
    <3>2. CASE k <= Len(sent)
      <4>1. k \in 1 .. Len(sent)
        BY <1>1, <3>1, <3>2 DEF DInv, IInv, Types
      <4>2. sent[k][3] \in Nat /\ sent[k][3] <= MaxUnits
        BY <1>1, <4>1, SentTyped
      <4>3. Covered(fragbuf[n][k], arrived[n][k], sent[k][3])
        BY <3>1, <3>2 DEF Kept, KeptAs, Account
      <4> QED
        BY <3>1, <4>2, <4>3, CoveredTyped
    <3>3. CASE ~(k <= Len(sent))
      <4>1. fragbuf[n][k] = EmptyBuffer
        BY <3>1, <3>3 DEF Kept, KeptAs
      <4> QED
        BY <3>1, <4>1, EmptyCovered, CoveredTyped
    <3> QED
      BY <3>2, <3>3
  <2> QED
    BY <2>1, <2>2, <2>3, <2>4 DEF TypeOK
<1> QED
  BY <1>1, DInvariance, PTL

(* However fragments are cut again, reordered, repeated, lost or left over   *)
(* from before a purge, a datagram is handed up at most as often as each of  *)
(* its units arrived: the buffer of a completed datagram does not live on,   *)
(* and what it merged really came.                                           *)
THEOREM DeliveredOncePerArrival == Spec => []NoSecondDelivery
<1>1. ASSUME DInv PROVE NoSecondDelivery
  <2> SUFFICES ASSUME NEW n \in Node, NEW k \in 1 .. Len(sent), NEW u \in 0 .. MaxUnits - 1,
                      u < sent[k][3]
               PROVE  Cardinality({i \in 1 .. Len(delivered[n]) : delivered[n][i][1] = k})
                        <= heard[n][k][u]
    BY DEF NoSecondDelivery
  <2> DEFINE times == Cardinality(DeliveredAs(delivered[n], k))
  <2>1. k \in Id /\ sent[k][3] \in Nat /\ MaxUnits \in Nat
    BY <1>1, SentTyped
  <2>2. Kept(n, k) /\ heard[n][k][u] \in Nat
    BY <1>1, <2>1 DEF DInv, Reassembled
  <2>3. times \in Nat
    <3>1. delivered[n] \in Seq(Nat \X Nat) /\ <<0, 0>> \in Nat \X Nat
      BY <1>1 DEF DInv, Reassembled
    <3> QED
      BY <3>1, DeliveredAsAppend
  <2>4. times + (IF u \in arrived[n][k] THEN 1 ELSE 0) <= heard[n][k][u]
    <3>1. Account(fragbuf[n][k], arrived[n][k], times, heard[n][k], sent[k][3])
      BY <2>2 DEF Kept, KeptAs
    <3>2. u \in 0 .. sent[k][3] - 1
      BY <2>1
    <3> QED
      BY <3>1, <3>2 DEF Account
  <2>5. times = Cardinality({i \in 1 .. Len(delivered[n]) : delivered[n][i][1] = k})
    BY DEF DeliveredAs
  <2> HIDE DEF times
  <2> QED
    BY <2>2, <2>3, <2>4, <2>5
<1> QED
  BY <1>1, DInvariance, PTL

(* What is handed up is a datagram that was sent to the node, in its full    *)
(* length: the first half of ReassemblyExact.                                *)
THEOREM DeliveredWhole ==
  Spec => [](\A n \in Node : \A i \in 1 .. Len(delivered[n]) :
               LET d == delivered[n][i]
               IN  d[1] \in 1 .. Len(sent) /\ NodeOf[sent[d[1]][2]] = n /\ d[2] = sent[d[1]][3])
<1>1. DInv => \A n \in Node : \A i \in 1 .. Len(delivered[n]) :
        LET d == delivered[n][i]
        IN  d[1] \in 1 .. Len(sent) /\ NodeOf[sent[d[1]][2]] = n /\ d[2] = sent[d[1]][3]
  BY DEF DInv, Reassembled, RightDelivery
<1> QED
  BY <1>1, DInvariance, PTL

-----------------------------------------------------------------------------
(* A buffer whose fragments are all cut alike.                               *)

Apart(P) == \A p, q \in P : p = q \/ p.off + p.len <= q.off \/ q.off + q.len <= p.off

(* The buffer of a datagram of L units grows from its beginning, by whole    *)
(* pieces of P, and holds the units in A.                                    *)
Grown(b, A, P, L) ==
  /\ b.beg = 0
  /\ b.islast <=> b.end = L
  /\ \A p \in P : p.off + p.len <= b.end \/ p.off >= b.end
  /\ \A r \in b.fragments : /\ \E p \in P : r.beg = p.off /\ r.end = p.off + p.len
                            /\ r.islast <=> r.end = L
  /\ \A u \in A : u < b.end \/ \E r \in b.fragments : u \in r.beg .. r.end - 1

(* The regions that wait cannot be merged.                                  *)
NothingToMerge(b) == \A r \in b.fragments : ~mergeable(b, r)

LEMMA EmptyGrown ==
  ASSUME NEW P \in SUBSET Piece, NEW L \in Nat \ {0}
  PROVE  Grown(EmptyBuffer, {}, P, L) /\ NothingToMerge(EmptyBuffer) /\ EmptyBuffer.end # L
BY DEF Grown, NothingToMerge, EmptyBuffer, Piece

(* The region grows by a piece that follows it.                              *)
LEMMA FollowGrown ==
  ASSUME NEW P \in SUBSET Piece, Apart(P), NEW L \in Nat, NEW b \in AnyBuffer, NEW r \in AnyRegion,
         \A p \in P : p.off + p.len <= b.end \/ p.off >= b.end,
         NEW p0 \in P, r.beg = p0.off, r.end = p0.off + p0.len, b.end = r.beg
  PROVE  b.end < r.end /\ \A p \in P : p.off + p.len <= r.end \/ p.off >= r.end
<1>1. b.end \in Nat /\ p0.off \in Nat /\ p0.len \in Nat \ {0}
  BY DEF AnyBuffer, Piece
<1>2. ASSUME NEW p \in P PROVE p.off + p.len <= r.end \/ p.off >= r.end
  <2>1. p.off \in Nat /\ p.len \in Nat \ {0}
    BY DEF Piece
  <2>2. p = p0 \/ p.off + p.len <= p0.off \/ p0.off + p0.len <= p.off
    BY DEF Apart
  <2> QED
    BY <1>1, <2>1, <2>2
<1> QED
  BY <1>1, <1>2

LEMMA MergeOneGrown ==
  ASSUME NEW P \in SUBSET Piece, Apart(P), NEW L \in Nat, NEW A \in SUBSET Nat, NEW U,
         NEW b, Covered(b, U, L), Grown(b, A, P, L), NEW r \in b.fragments, mergeable(b, r)
  PROVE  Grown(mergeOne(b, r), A, P, L)
<1> DEFINE j == mergeOne(b, r)
<1>1. /\ b \in AnyBuffer /\ r \in AnyRegion /\ r.beg < r.end /\ r.end <= L
      /\ b.end \in Nat /\ r.beg \in Nat /\ r.end \in Nat /\ b.beg = 0
  BY DEF Covered, AnyBuffer, AnyRegion, Holds, Grown
<1>2. b.beg # r.end
  BY <1>1
<1>3. /\ j.fragments = b.fragments \ {r} /\ j.beg = 0
      /\ j.end = IF b.end = r.beg THEN r.end ELSE b.end
      /\ j.islast <=> b.islast \/ (b.end = r.beg /\ r.islast)
  BY <1>1, <1>2 DEF mergeOne
<1>4. PICK p0 \in P : r.beg = p0.off /\ r.end = p0.off + p0.len
  BY DEF Grown
<1>5. /\ b.islast <=> b.end = L
      /\ r.islast <=> r.end = L
      /\ \A p \in P : p.off + p.len <= b.end \/ p.off >= b.end
  BY DEF Grown
<1>6. \A x \in j.fragments : /\ \E p \in P : x.beg = p.off /\ x.end = p.off + p.len
                             /\ x.islast <=> x.end = L
  BY <1>3 DEF Grown
<1>7. ASSUME NEW u \in A, b.end <= j.end, r.end <= j.end
      PROVE  u < j.end \/ \E x \in j.fragments : u \in x.beg .. x.end - 1
  <2>1. u \in Nat /\ j.end \in Nat
    BY <1>1, <1>3
  <2>2. u < b.end \/ \E x \in b.fragments : u \in x.beg .. x.end - 1
    BY DEF Grown
  <2>3. CASE u < b.end
    BY <1>1, <1>7, <2>1, <2>3
  <2>4. ASSUME NEW x \in b.fragments, u \in x.beg .. x.end - 1
        PROVE  u < j.end \/ x \in j.fragments
    <3>1. CASE x = r
      BY <1>1, <1>7, <2>1, <2>4, <3>1
    <3>2. CASE x # r
      BY <1>3, <3>2
    <3> QED
      BY <3>1, <3>2
  <2> QED
    BY <2>2, <2>3, <2>4
<1> HIDE DEF j
<1>8. CASE b.end = r.beg
  <2>1. b.end < r.end /\ \A p \in P : p.off + p.len <= r.end \/ p.off >= r.end
    BY <1>1, <1>4, <1>5, <1>8, FollowGrown
  <2>2. j.end = r.end /\ (j.islast <=> j.end = L)
    BY <1>1, <1>3, <1>5, <1>8, <2>1
  <2>3. b.end <= j.end /\ r.end <= j.end
    BY <1>1, <2>1, <2>2
  <2> QED
    BY <1>3, <1>6, <1>7, <2>1, <2>2, <2>3 DEF Grown, j
<1>9. CASE b.end # r.beg
  <2>1. r.end <= b.end /\ b.end <= b.end
    BY <1>1, <1>2, <1>9 DEF mergeable
  <2>2. j.end = b.end /\ (j.islast <=> j.end = L)
    BY <1>3, <1>5, <1>9
  <2> QED
    BY <1>3, <1>5, <1>6, <1>7, <2>1, <2>2 DEF Grown, j
<1> QED
  BY <1>8, <1>9

LEMMA MergeFragmentsGrown ==
  ASSUME NEW P \in SUBSET Piece, Apart(P), NEW L \in Nat, NEW A \in SUBSET Nat, NEW U,
         NEW b, Covered(b, U, L), Grown(b, A, P, L)
  PROVE  Grown(mergeFragments(b), A, P, L) /\ NothingToMerge(mergeFragments(b))
<1> DEFINE S == {x \in AnyBuffer : Covered(x, U, L) /\ Grown(x, A, P, L)}
<1>1. b \in S /\ IsFiniteSet(b.fragments)
  BY DEF Covered
<1>2. ASSUME NEW x \in S PROVE round(x) \in S
  <2>1. Covered(round(x), U, L)
    BY MergeOneCovered DEF round
  <2>2. Grown(round(x), A, P, L)
    BY MergeOneGrown DEF round
  <2> QED
    BY <2>1, <2>2 DEF Covered
<1> HIDE DEF S
<1>3. mergeFragments(b) \in S
  BY <1>1, <1>2, RoundsPreserve
<1>4. \A r \in mergeFragments(b).fragments : ~mergeable(mergeFragments(b), r)
  BY <1>1, NothingLeftToMerge
<1> QED
  BY <1>3, <1>4 DEF S, NothingToMerge

(* A piece that comes extends the region, waits, or was there.               *)
LEMMA MergeGrown ==
  ASSUME NEW P \in SUBSET Piece, Apart(P), NEW L \in Nat, NEW A \in SUBSET Nat, NEW U,
         NEW b, Covered(b, U, L), Grown(b, A, P, L), NothingToMerge(b),
         NEW r \in AnyRegion, r.beg < r.end, Holds(r, U, L), r.islast <=> r.end = L,
         NEW p0 \in P, r.beg = p0.off, r.end = p0.off + p0.len
  PROVE  Grown(merge(b, r), A \cup (r.beg .. r.end - 1), P, L) /\ NothingToMerge(merge(b, r))
<1> DEFINE us == r.beg .. r.end - 1
<1>0. /\ b.beg \in Nat /\ b.end \in Nat /\ b.beg <= b.end
      /\ r.beg \in Nat /\ r.end \in Nat /\ r.beg < r.end
  BY DEF Covered, AnyBuffer, AnyRegion
<1>1. /\ b \in AnyBuffer /\ IsFiniteSet(b.fragments) /\ r.end <= L
      /\ b.end \in Nat /\ r.beg \in Nat /\ r.end \in Nat /\ b.beg = 0 /\ b.beg # r.end
      /\ \A x \in b.fragments : x.beg < x.end /\ Holds(x, U, L)
  BY DEF Covered, AnyBuffer, AnyRegion, Holds, Grown
<1>2. /\ b.islast <=> b.end = L
      /\ \A p \in P : p.off + p.len <= b.end \/ p.off >= b.end
      /\ \A x \in b.fragments : /\ \E p \in P : x.beg = p.off /\ x.end = p.off + p.len
                                /\ x.islast <=> x.end = L
      /\ \A u \in A : u < b.end \/ \E x \in b.fragments : u \in x.beg .. x.end - 1
  BY DEF Grown
<1>3. CASE b.end = r.beg
  <2> DEFINE j == [b EXCEPT !.end = r.end, !.islast = @ \/ r.islast]
  <2>1. /\ j \in AnyBuffer /\ j.beg = b.beg /\ j.end = r.end
        /\ j.fragments = b.fragments /\ (j.islast <=> b.islast \/ r.islast)
    BY <1>1 DEF AnyBuffer, AnyRegion
  <2>2. merge(b, r) = mergeFragments(j)
    BY <1>0, <1>3 DEF merge
  <2> HIDE DEF j
  <2>3. Covered(j, U, L)
    BY <1>1, <1>3, <2>1, JoinCovered
  <2>4. b.end < r.end /\ \A p \in P : p.off + p.len <= r.end \/ p.off >= r.end
    BY <1>1, <1>2, <1>3, FollowGrown
  <2>5. j.beg = 0 /\ (j.islast <=> j.end = L)
    BY <1>1, <1>2, <2>1, <2>4
  <2>6. ASSUME NEW u \in A \cup us
        PROVE  u < j.end \/ \E x \in j.fragments : u \in x.beg .. x.end - 1
    <3>1. CASE u \in us
      BY <1>1, <2>1, <3>1
    <3>2. CASE u \in A
      <4>1. u \in Nat
        BY <3>2
      <4> QED
        BY <1>1, <1>2, <2>1, <2>4, <3>2, <4>1
    <3> QED
      BY <3>1, <3>2
  <2>7. Grown(j, A \cup us, P, L)
    BY <1>2, <2>1, <2>4, <2>5, <2>6 DEF Grown
  <2>8. A \cup us \in SUBSET Nat
    <3>1. \A u \in us : u \in Nat
      BY <1>0
    <3> HIDE DEF us
    <3> QED
      BY <3>1
  <2> QED
    BY <2>2, <2>3, <2>7, <2>8, MergeFragmentsGrown
<1>4. CASE b.end < r.beg
  <2> DEFINE j == [b EXCEPT !.fragments = @ \cup {r}]
  <2>1. /\ j.beg = b.beg /\ j.end = b.end
        /\ j.fragments = b.fragments \cup {r} /\ (j.islast <=> b.islast)
    BY <1>1 DEF AnyBuffer
  <2>2. merge(b, r) = j
    BY <1>1, <1>4 DEF merge
  <2> HIDE DEF j
  <2>3. \A u \in A \cup us : u < j.end \/ \E x \in j.fragments : u \in x.beg .. x.end - 1
    BY <1>2, <2>1
  <2>4. \A x \in j.fragments : /\ \E p \in P : x.beg = p.off /\ x.end = p.off + p.len
                               /\ x.islast <=> x.end = L
    BY <1>2, <2>1
  <2>5. Grown(j, A \cup us, P, L)
    BY <1>1, <1>2, <2>1, <2>3, <2>4 DEF Grown
  <2>6. NothingToMerge(j)
    BY <1>1, <1>4, <2>1 DEF NothingToMerge, mergeable
  <2> QED
    BY <2>2, <2>5, <2>6
<1>5. CASE b.end > r.beg
  <2>1. merge(b, r) = b
    BY <1>1, <1>5 DEF merge
  <2>2. r.end <= b.end
    BY <1>1, <1>2, <1>5
  <2>3. \A u \in us : u < b.end
    BY <1>1, <2>2
  <2>4. Grown(b, A \cup us, P, L)
    BY <1>1, <1>2, <2>3 DEF Grown
  <2> QED
    BY <2>1, <2>4
<1> QED
  BY <1>1, <1>3, <1>4, <1>5

(* While a unit is missing at its end, one is missing of the datagram.       *)
LEMMA SomethingMissing ==
  ASSUME NEW P \in SUBSET Piece, NEW L \in Nat, NEW A \in SUBSET Nat, NEW U,
         NEW b, Covered(b, U, L), Grown(b, A, P, L), NothingToMerge(b), b.end # L
  PROVE  A # 0 .. L - 1
<1> SUFFICES ASSUME b.end \in A PROVE FALSE
  <2>1. b.end \in Nat /\ b.end <= L
    BY DEF Covered, AnyBuffer, Holds
  <2> QED
    BY <2>1
<1>1. b.end \in Nat
  BY DEF Covered, AnyBuffer
<1>2. PICK r \in b.fragments : b.end \in r.beg .. r.end - 1
  BY <1>1 DEF Grown
<1>3. r.beg \in Nat /\ r.end \in Nat
  BY DEF Covered, AnyBuffer, AnyRegion
<1>4. PICK p \in P : r.beg = p.off /\ r.end = p.off + p.len
  BY DEF Grown
<1>5. p.off + p.len <= b.end \/ p.off >= b.end
  BY DEF Grown
<1>6. b.end = r.beg
  BY <1>1, <1>2, <1>3, <1>4, <1>5
<1> QED
  BY <1>6 DEF NothingToMerge, mergeable

-----------------------------------------------------------------------------
(* Where the pieces are, if they are cut alike.                              *)

pieceOf(dg) == [off |-> dg.off, len |-> dg.len, more |-> dg.more]

(* What waits at n for address a will be one of the pieces that may come to  *)
(* whoever answers, and what is on the wire is one.                          *)
Waiting(cut, s, n, a) ==
  {dg \in Pieces(s) :
     /\ nextHop(n, dg.dest) = a
     /\ \A j \in answerers(n, dg.dest) : pieceOf(dg) \in cut[s[dg.id]][NodeOf[j]]}

Coming(cut, s) == {fr \in PieceFrame(s) : pieceOf(fr.dg) \in cut[s[fr.dg.id]][NodeOf[fr.to]]}

CutTraffic(cut) ==
  /\ \A n \in Node, a \in Address : pendingPackets[n][a] \in Seq(Waiting(cut, sent, n, a))
  /\ wire \subseteq Coming(cut, sent)

LEMMA FragmentsOfPiece ==
  ASSUME NEW dg \in Packet, NEW ie \in Interface
  PROVE  LET dgs == fragments(dg, ie)  ps == fragments(pieceOf(dg), ie)
         IN  /\ DOMAIN dgs = DOMAIN ps
             /\ \A k \in DOMAIN dgs : /\ pieceOf(dgs[k]) = ps[k]
                                      /\ dgs[k].id = dg.id /\ dgs[k].dest = dg.dest
<1> DEFINE p == pieceOf(dg)
           size == Mtu[ie]
           c == (dg.len + size - 1) \div size
           off(k) == dg.off + (k - 1) * size
           len(k) == IF k = c THEN dg.len - (k - 1) * size ELSE size
           more(k) == dg.more \/ k < c
           one(k) == [dg EXCEPT !.off = off(k), !.len = len(k), !.more = more(k)]
           part(k) == [p EXCEPT !.off = off(k), !.len = len(k), !.more = more(k)]
<1>1. p.off = dg.off /\ p.len = dg.len /\ p.more = dg.more
  BY DEF pieceOf
<1>2. ASSUME NEW o, NEW l, NEW m
      PROVE  [p EXCEPT !.off = o, !.len = l, !.more = m] = [off |-> o, len |-> l, more |-> m]
  <2> DEFINE p1 == [p EXCEPT !.off = o]
             p2 == [p1 EXCEPT !.len = l]
             p3 == [p2 EXCEPT !.more = m]
  <2>1. p1 = [off |-> o, len |-> dg.len, more |-> dg.more]
    BY DEF pieceOf
  <2> HIDE DEF p1
  <2>2. p2 = [off |-> o, len |-> l, more |-> dg.more]
    BY <2>1
  <2> HIDE DEF p2
  <2>3. p3 = [off |-> o, len |-> l, more |-> m]
    BY <2>2
  <2> QED
    BY <2>3 DEF p1, p2
<1>3. fragments(dg, ie) = [k \in 1 .. c |-> one(k)]
  BY DEF fragments
<1>4. fragments(p, ie) = [k \in 1 .. c |-> part(k)]
  BY <1>1 DEF fragments
<1> HIDE DEF p, c, off, len, more
<1>5. ASSUME NEW k \in 1 .. c
      PROVE  pieceOf(one(k)) = part(k) /\ one(k).id = dg.id /\ one(k).dest = dg.dest
  <2>1. /\ one(k).off = off(k) /\ one(k).len = len(k) /\ one(k).more = more(k)
        /\ one(k).id = dg.id /\ one(k).dest = dg.dest
    BY DEF Packet
  <2>2. part(k) = [off |-> off(k), len |-> len(k), more |-> more(k)]
    BY <1>2
  <2> HIDE DEF one, part
  <2> QED
    BY <2>1, <2>2 DEF pieceOf
<1> HIDE DEF one, part
<1> QED
  BY <1>3, <1>4, <1>5 DEF p

LEMMA FragmentsWait ==
  ASSUME NEW cut, NEW s \in Seq(Flow), NEW n \in Node, NEW dg \in Pieces(s),
         goesOn(cut, s[dg.id], n, pieceOf(dg))
  PROVE  fragments(dg, OutIe[n][dg.dest]) \in Seq(Waiting(cut, s, n, nextHop(n, dg.dest)))
<1> DEFINE ie == OutIe[n][dg.dest]
           dgs == fragments(dg, ie)
           ps == fragments(pieceOf(dg), ie)
<1>1. dg \in Packet /\ dg.dest \in Address /\ dg.dest = s[dg.id][2]
  BY DEF Pieces, Packet
<1>2. ie \in Interface
  BY <1>1, HopTyped DEF Interfaces
<1>3. dgs \in Seq(Pieces(s))
  BY <1>2, FragmentPieces
<1>4. /\ DOMAIN dgs = DOMAIN ps
      /\ \A k \in DOMAIN dgs : /\ pieceOf(dgs[k]) = ps[k]
                               /\ dgs[k].id = dg.id /\ dgs[k].dest = dg.dest
  BY <1>1, <1>2, FragmentsOfPiece
<1>5. ASSUME NEW k \in DOMAIN dgs
      PROVE  dgs[k] \in Waiting(cut, s, n, nextHop(n, dg.dest))
  <2>1. dgs[k] \in Pieces(s)
    BY <1>3
  <2>2. ps[k] \in ToSet(ps)
    BY <1>4 DEF ToSet
  <2>3. \A j \in answerers(n, dg.dest) : ps[k] \in cut[s[dg.id]][NodeOf[j]]
    BY <1>1, <2>2 DEF goesOn
  <2> HIDE DEF dgs, ps
  <2> QED
    BY <1>4, <2>1, <2>3 DEF Waiting
<1> HIDE DEF dgs
<1>6. dgs \in [1 .. Len(dgs) -> Waiting(cut, s, n, nextHop(n, dg.dest))] /\ Len(dgs) \in Nat
  BY <1>3, <1>5
<1> QED
  BY <1>6 DEF dgs

(* Whoever is found to answer is an answerer.                                *)
LEMMA FoundAnswers ==
  ASSUME ConsistentRoutes, NEW n \in Node, NEW d \in Address, NEW ie \in Interfaces(n), NEW mac,
         Seen(nextHop(n, d), ie), Answers(mac, nextHop(n, d), ie)
  PROVE  ie = OutIe[n][d] /\ mac \in answerers(n, d)
<1>1. OutIe[n][d] \in Interfaces(n) /\ nextHop(n, d) \in Address
  BY HopTyped
<1>2. Asked(nextHop(n, d), OutIe[n][d])
  BY <1>1 DEF Asked, Interfaces
<1>3. ie = OutIe[n][d]
  BY <1>1, <1>2, OneInterface DEF Seen
<1> QED
  BY <1>3 DEF Answers, answerers

LEMMA FramesCome ==
  ASSUME NEW cut, NEW s, NEW n \in Node, NEW a \in Address, NEW dgs \in Seq(Waiting(cut, s, n, a)),
         NEW ie, NEW mac \in Interface,
         \A d \in Address : nextHop(n, d) = a => mac \in answerers(n, d)
  PROVE  frames(dgs, ie, mac) \subseteq Coming(cut, s)
<1>1. ASSUME NEW dg \in ToSet(dgs) PROVE [to |-> mac, dg |-> dg] \in Coming(cut, s)
  <2>1. dg \in Waiting(cut, s, n, a)
    BY DEF ToSet
  <2>2. dg \in Pieces(s) /\ dg.dest \in Address /\ nextHop(n, dg.dest) = a
    BY <2>1 DEF Waiting, Pieces, Packet
  <2>3. pieceOf(dg) \in cut[s[dg.id]][NodeOf[mac]]
    BY <2>1, <2>2 DEF Waiting
  <2> QED
    BY <2>2, <2>3 DEF Coming, PieceFrame
<1> QED
  BY <1>1 DEF frames

(* A datagram is passed on.                                                  *)
LEMMA SendCut ==
  ASSUME ConsistentRoutes, IInv, Truth, NEW cut, NEW n \in Node, NEW s \in Seq(Flow),
         NEW dg \in Pieces(s), goesOn(cut, s[dg.id], n, pieceOf(dg)),
         pendingPackets \in [Node -> [Address -> Seq(Pieces(s))]],
         \A m \in Node, a \in Address : pendingPackets[m][a] \in Seq(Waiting(cut, s, m, a)),
         NEW rest \in SUBSET Coming(cut, s), routeUnicastPacket(n, dg, rest)
  PROVE  /\ \A m \in Node, a \in Address : pendingPackets'[m][a] \in Seq(Waiting(cut, s, m, a))
         /\ wire' \subseteq Coming(cut, s)
<1> DEFINE ie  == OutIe[n][dg.dest]
           hop == nextHop(n, dg.dest)
           dgs == fragments(dg, ie)
           mac == getMACAddressFor(n, hop)
<1>1. dg.dest \in Address /\ hop \in Address /\ hop \in Interface
  BY HopTyped DEF Pieces, Packet, Address
<1>2. dgs \in Seq(Waiting(cut, s, n, hop))
  BY FragmentsWait
<1>3. sendDatagramToOutput(n, dg, ie, hop, rest)
  BY DEF routeUnicastPacket
<1>4. CASE mac = NoAddress
  <2>1. pendingPackets' = [pendingPackets EXCEPT ![n][hop] = @ \o dgs] /\ wire' = rest
    BY <1>3, <1>4 DEF sendDatagramToOutput
  <2> HIDE DEF ie, hop, dgs
  <2>2. pendingPackets[n][hop] \o dgs \in Seq(Waiting(cut, s, n, hop))
    BY <1>1, <1>2
  <2>3. ASSUME NEW m \in Node, NEW a \in Address
        PROVE  pendingPackets'[m][a] \in Seq(Waiting(cut, s, m, a))
    <3>1. CASE m = n /\ a = hop
      BY <1>1, <2>1, <2>2, <3>1
    <3>2. CASE ~(m = n /\ a = hop)
      BY <1>1, <2>1, <3>2
    <3> QED
      BY <3>1, <3>2
  <2> QED
    BY <2>1, <2>3
<1>5. CASE mac # NoAddress
  <2>1. wire' = rest \cup frames(dgs, ie, mac) /\ pendingPackets' = pendingPackets
    BY <1>3, <1>5 DEF sendDatagramToOutput
  <2> DEFINE e == arpCache[n][hop]
  <2>2. e.state = "valid" /\ mac = e.mac
    BY <1>5 DEF getMACAddressFor
  <2>3. e.mac \in Interface /\ e.ie \in Interfaces(n)
    BY <1>1, <2>2 DEF IInv, EntrySound
  <2>4. Seen(hop, e.ie) /\ Answers(e.mac, hop, e.ie)
    BY <1>1, <2>2 DEF Truth, EntryTrue
  <2> HIDE DEF e, hop, ie, dgs, mac
  <2>5. ASSUME NEW d \in Address, nextHop(n, d) = hop PROVE mac \in answerers(n, d)
    BY <2>2, <2>3, <2>4, <2>5, FoundAnswers
  <2>6. frames(dgs, ie, mac) \subseteq Coming(cut, s)
    BY <1>1, <1>2, <2>2, <2>3, <2>5, FramesCome
  <2> QED
    BY <2>1, <2>6
<1> QED
  BY <1>4, <1>5

(* The steps of the traffic.                                                 *)
LEMMA SendDatagramCut ==
  ASSUME ConsistentRoutes, NEW cut, CutAlike(cut), IInv, Truth, Traffic, CutTraffic(cut),
         NEW n \in Node, NEW f \in Flow, SendDatagram(n, f)
  PROVE  CutTraffic(cut)'
<1> DEFINE dg == [id |-> Len(sent) + 1, src |-> f[1], dest |-> f[2], off |-> 0,
                  len |-> f[3], more |-> FALSE]
           s == Append(sent, f)
<1>1. sent \in Seq(Flow) /\ s \in Seq(Flow) /\ sent' = s
  BY DEF IInv, Types, SendDatagram
<1>2. /\ Len(s) = Len(sent) + 1 /\ s[Len(sent) + 1] = f /\ Len(sent) \in Nat
      /\ \A k \in 1 .. Len(sent) : s[k] = sent[k]
  BY <1>1
<1>3. dg \in Pieces(s)
  <2>1. f[1] \in Address /\ f[2] \in Address /\ f[3] \in Nat \ {0}
    BY FlowAssumption
  <2>2. dg \in Packet
    BY <1>2, <2>1 DEF Packet
  <2> HIDE DEF s
  <2> QED
    BY <1>2, <2>1, <2>2 DEF Pieces
<1>4. /\ pendingPackets \in [Node -> [Address -> Seq(Pieces(s))]]
      /\ \A m \in Node, a \in Address : pendingPackets[m][a] \in Seq(Waiting(cut, s, m, a))
      /\ wire \in SUBSET Coming(cut, s)
  <2>1. Pieces(sent) \subseteq Pieces(s) /\ PieceFrame(sent) \subseteq PieceFrame(s)
    BY <1>1, PiecesGrow
  <2>2. \A q \in Seq(Pieces(sent)) : q \in Seq(Pieces(s))
    BY <2>1
  <2>3. \A p \in Pieces(sent) : s[p.id] = sent[p.id]
    BY <1>2 DEF Pieces
  <2> HIDE DEF s
  <2>4. ASSUME NEW m \in Node, NEW a \in Address
        PROVE  pendingPackets[m][a] \in Seq(Waiting(cut, s, m, a))
    <3>1. Waiting(cut, sent, m, a) \subseteq Waiting(cut, s, m, a)
      BY <2>1, <2>3 DEF Waiting
    <3>2. pendingPackets[m][a] \in Seq(Waiting(cut, sent, m, a))
      BY DEF CutTraffic
    <3> QED
      BY <3>1, <3>2
  <2>5. Coming(cut, sent) \subseteq Coming(cut, s)
    BY <2>1, <2>3 DEF Coming, PieceFrame
  <2> QED
    BY <2>2, <2>4, <2>5 DEF Traffic, CutTraffic
<1>5. routeUnicastPacket(n, dg, wire) /\ n = NodeOf[f[1]]
  BY DEF SendDatagram
<1>6. goesOn(cut, s[dg.id], n, pieceOf(dg))
  <2>1. pieceOf(dg) = [off |-> 0, len |-> f[3], more |-> FALSE]
    BY DEF pieceOf
  <2> QED
    BY <1>2, <1>5, <2>1 DEF CutAlike
<1> HIDE DEF dg, s
<1>7. /\ \A m \in Node, a \in Address : pendingPackets'[m][a] \in Seq(Waiting(cut, s, m, a))
      /\ wire' \subseteq Coming(cut, s)
  BY <1>1, <1>3, <1>4, <1>5, <1>6, SendCut
<1> QED
  BY <1>1, <1>7 DEF CutTraffic

LEMMA ReceiveDatagramCut ==
  ASSUME ConsistentRoutes, NEW cut, CutAlike(cut), IInv, Truth, Traffic, CutTraffic(cut),
         NEW f \in wire, ReceiveDatagram(f)
  PROVE  CutTraffic(cut)'
<1> DEFINE n == NodeOf[f.to]
<1>1. /\ f.dg \in Pieces(sent) /\ n \in Node /\ sent \in Seq(Flow) /\ sent' = sent
      /\ pieceOf(f.dg) \in cut[sent[f.dg.id]][n]
  BY NetworkAssumption DEF IInv, Types, CutTraffic, Coming, PieceFrame, ReceiveDatagram
<1>2. PICK rest \in {wire \ {f}, wire} : handleIncomingDatagram(n, f.dg, rest)
  BY DEF ReceiveDatagram
<1>3. rest \in SUBSET Coming(cut, sent)
  BY DEF CutTraffic
<1> HIDE DEF n
<1>4. CASE ~isLocalAddress(n, f.dg.dest) /\ n \in Router /\ routeUnicastPacket(n, f.dg, rest)
  <2>1. f.dg.id \in 1 .. Len(sent) /\ f.dg.dest = sent[f.dg.id][2] /\ f.dg.dest \in Address
    BY <1>1 DEF Pieces, Packet
  <2>2. sent[f.dg.id] \in Flow
    BY <1>1, <2>1
  <2>3. n \in Router \ {NodeOf[sent[f.dg.id][2]]}
    BY <1>4, <2>1 DEF isLocalAddress
  <2>4. goesOn(cut, sent[f.dg.id], n, pieceOf(f.dg))
    BY <1>1, <2>2, <2>3 DEF CutAlike
  <2>5. /\ \A m \in Node, a \in Address : pendingPackets'[m][a] \in Seq(Waiting(cut, sent, m, a))
        /\ wire' \subseteq Coming(cut, sent)
    BY <1>1, <1>3, <1>4, <2>4, SendCut DEF Traffic, CutTraffic
  <2> QED
    BY <1>1, <2>5 DEF CutTraffic
<1>5. CASE wire' = rest /\ UNCHANGED pendingPackets
  BY <1>1, <1>3, <1>5 DEF CutTraffic
<1> QED
  BY <1>2, <1>4, <1>5 DEF handleIncomingDatagram

(* Queues are emptied into the wire or dropped.                              *)
LEMMA ReleaseCut ==
  ASSUME NEW cut, Traffic, CutTraffic(cut), sent' = sent, NEW n \in Node, NEW a \in Address,
         pendingPackets' = [pendingPackets EXCEPT ![n][a] = <<>>],
         \/ wire' = wire
         \/ \E ie, mac : /\ wire' = wire \cup frames(pendingPackets[n][a], ie, mac)
                         /\ mac \in Interface
                         /\ \A d \in Address : nextHop(n, d) = a => mac \in answerers(n, d)
  PROVE  CutTraffic(cut)'
<1>1. ASSUME NEW m \in Node, NEW b \in Address
      PROVE  pendingPackets'[m][b] \in Seq(Waiting(cut, sent, m, b))
  <2>1. pendingPackets'[m][b] = <<>> \/ pendingPackets'[m][b] = pendingPackets[m][b]
    BY DEF Traffic
  <2> QED
    BY <2>1 DEF CutTraffic
<1>2. wire' \subseteq Coming(cut, sent)
  BY FramesCome DEF CutTraffic
<1> QED
  BY <1>1, <1>2 DEF CutTraffic

LEMMA ReceiveARPCut ==
  ASSUME ConsistentRoutes, NEW cut, IInv, Truth', Traffic, CutTraffic(cut),
         NEW p \in arpWire, ReceiveARP(p)
  PROVE  CutTraffic(cut)'
<1> DEFINE n == NodeOf[p.to]
           e == arpCache'[n][p.srcIP]
<1>1. ARPSound /\ processARPPacket(n, p) /\ sent' = sent
  BY DEF ReceiveARP, IInv, Types, ARPSound
<1>2. /\ ARPSound' /\ n \in Node /\ p.srcIP \in Address
      /\ learns(n, p) => e.state = "valid"
  BY <1>1, PacketStep
<1>3. CASE learns(n, p)
  <2>1. /\ pendingPackets' = [pendingPackets EXCEPT ![n][p.srcIP] = <<>>]
        /\ wire' = wire \cup frames(pendingPackets[n][p.srcIP], e.ie, e.mac)
    BY <1>3 DEF ReceiveARP, arpResolutionCompleted
  <2>2. e.mac \in Interface /\ e.ie \in Interfaces(n)
    BY <1>2, <1>3 DEF ARPSound, EntrySound
  <2>3. Seen(p.srcIP, e.ie) /\ Answers(e.mac, p.srcIP, e.ie)
    BY <1>2, <1>3 DEF Truth, EntryTrue
  <2> HIDE DEF n, e
  <2>4. ASSUME NEW d \in Address, nextHop(n, d) = p.srcIP PROVE e.mac \in answerers(n, d)
    BY <1>2, <2>2, <2>3, <2>4, FoundAnswers
  <2> QED
    BY <1>1, <1>2, <2>1, <2>2, <2>4, ReleaseCut
<1>4. CASE ~learns(n, p)
  <2>1. UNCHANGED <<pendingPackets, wire>>
    BY <1>4 DEF ReceiveARP
  <2> HIDE DEF n
  <2> QED
    BY <1>1, <2>1 DEF CutTraffic
<1> QED
  BY <1>3, <1>4

LEMMA TimeoutCut ==
  ASSUME NEW cut, Traffic, CutTraffic(cut), NEW n \in Node, NEW a \in Address, Timeout(n, a)
  PROVE  CutTraffic(cut)'
<1>1. sent' = sent /\ wire' = wire
  BY DEF Timeout, arpResolutionTimedOut
<1>2. \/ pendingPackets' = pendingPackets
      \/ pendingPackets' = [pendingPackets EXCEPT ![n][a] = <<>>]
  BY DEF Timeout, arpResolutionTimedOut
<1> QED
  BY <1>1, <1>2, ReleaseCut DEF CutTraffic

LEMMA StopCut ==
  ASSUME NEW cut, Traffic, CutTraffic(cut), NEW n \in Node, Stop(n)
  PROVE  CutTraffic(cut)'
<1>1. /\ pendingPackets' = [pendingPackets EXCEPT ![n] = [a \in Address |-> <<>>]]
      /\ sent' = sent /\ wire' = wire
  BY DEF Stop
<1>2. ASSUME NEW m \in Node, NEW a \in Address
      PROVE  pendingPackets'[m][a] \in Seq(Waiting(cut, sent, m, a))
  <2>1. pendingPackets'[m][a] = <<>> \/ pendingPackets'[m][a] = pendingPackets[m][a]
    BY <1>1 DEF Traffic
  <2>2. <<>> \in Seq(Waiting(cut, sent, m, a)) /\ pendingPackets[m][a] \in Seq(Waiting(cut, sent, m, a))
    BY DEF CutTraffic
  <2> QED
    BY <2>1, <2>2
<1> QED
  BY <1>1, <1>2 DEF CutTraffic

-----------------------------------------------------------------------------
(* The buffers of all nodes.                                                 *)
Growing(b, A, P, L) == Grown(b, A, P, L) /\ NothingToMerge(b) /\ b.end # L

Assembling(cut) ==
  \A n \in Node, k \in 1 .. Len(sent) :
    Growing(fragbuf[n][k], arrived[n][k], cut[sent[k]][n], sent[k][3])

LEMMA SendDatagramAssembling ==
  ASSUME NEW cut, CutAlike(cut), IInv, Traffic, Reassembled, Assembling(cut),
         Traffic', IInv',
         NEW n \in Node, NEW f \in Flow, SendDatagram(n, f)
  PROVE  Assembling(cut)'
<1>1. /\ sent \in Seq(Flow) /\ sent' = Append(sent, f)
      /\ UNCHANGED <<fragbuf, arrived>>
  BY DEF IInv, Types, SendDatagram
<1>2. /\ Len(sent) \in Nat /\ Len(sent') = Len(sent) + 1 /\ sent'[Len(sent) + 1] = f
      /\ \A k \in 1 .. Len(sent) : sent'[k] = sent[k]
  BY <1>1
<1>3. ASSUME NEW m \in Node, NEW k \in 1 .. Len(sent')
      PROVE  Growing(fragbuf[m][k], arrived[m][k], cut[sent'[k]][m], sent'[k][3])
  <2>1. CASE k \in 1 .. Len(sent)
    BY <1>2, <2>1 DEF Assembling
  <2>2. CASE k = Len(sent) + 1
    <3>1. k \in Id
      BY <2>2, IdsSuffice DEF IInv, Types, Traffic
    <3>2. fragbuf[m][k] = EmptyBuffer /\ arrived[m][k] = {}
      <4>1. Kept(m, k) /\ ~(k <= Len(sent))
        BY <1>2, <2>2, <3>1 DEF Reassembled
      <4> QED
        BY <4>1 DEF Kept, KeptAs
    <3>3. cut[f][m] \in SUBSET Piece /\ f[3] \in Nat \ {0}
      BY UnitsBound DEF CutAlike
    <3> QED
      BY <1>2, <2>2, <3>2, <3>3, EmptyGrown DEF Growing
  <2> QED
    BY <1>2, <2>1, <2>2
<1> QED
  BY <1>1, <1>3 DEF Assembling

LEMMA ReassembleAssembling ==
  ASSUME NEW cut, CutAlike(cut), IInv, Traffic, Reassembled, Assembling(cut),
         NEW n \in Node, NEW dg \in Pieces(sent), NodeOf[dg.dest] = n,
         pieceOf(dg) \in cut[sent[dg.id]][n], sent' = sent, reassembleAndDeliver(n, dg)
  PROVE  Assembling(cut)'
<1> DEFINE id == dg.id
           L == sent[id][3]
           P == cut[sent[id]][n]
<1>1. /\ sent \in Seq(Flow) /\ id \in 1 .. Len(sent) /\ id \in Id /\ sent[id] \in Flow
      /\ dg.dest = sent[id][2] /\ dg.off \in Nat /\ dg.len \in Nat \ {0}
      /\ dg.off + dg.len <= L /\ (dg.more <=> dg.off + dg.len # L)
      /\ dg.more \in BOOLEAN
  BY IdsSuffice DEF IInv, Types, Traffic, Pieces, Packet
<1>2. L \in Nat \ {0} /\ P \in SUBSET Piece /\ Apart(P)
  <2>1. L \in Nat \ {0}
    BY <1>1, UnitsBound
  <2>2. cut[sent[id]][n] \in SUBSET Piece
    BY <1>1 DEF CutAlike
  <2>3. \A p, q \in cut[sent[id]][n] : p = q \/ p.off + p.len <= q.off \/ q.off + q.len <= p.off
    BY <1>1 DEF CutAlike
  <2> QED
    BY <2>1, <2>2, <2>3 DEF Apart
<1>3. pieceOf(dg) \in P /\ pieceOf(dg).off = dg.off /\ pieceOf(dg).len = dg.len
  BY DEF pieceOf
<1>4. CASE ~(dg.off # 0 \/ dg.more)
  BY <1>4 DEF reassembleAndDeliver, Assembling
<1>5. CASE dg.off # 0 \/ dg.more
  <2>1. PICK stale \in SUBSET Id : addFragment(n, dg, stale)
    BY <1>5 DEF reassembleAndDeliver
  <2> DEFINE old == IF id \in stale THEN EmptyBuffer ELSE fragbuf[n][id]
             had == IF id \in stale THEN {} ELSE arrived[n][id]
             us == units(dg)
             r == [beg |-> dg.off, end |-> dg.off + dg.len, islast |-> ~dg.more]
             buf == merge(old, r)
             done == isComplete(buf)
             fb == [k \in Id |-> IF k = id THEN IF done THEN EmptyBuffer ELSE buf
                                 ELSE IF k \in stale THEN EmptyBuffer ELSE fragbuf[n][k]]
             ar == [k \in Id |-> IF k = id THEN IF done THEN {} ELSE had \cup us
                                 ELSE IF k \in stale THEN {} ELSE arrived[n][k]]
  <2>2. fragbuf' = [fragbuf EXCEPT ![n] = fb] /\ arrived' = [arrived EXCEPT ![n] = ar]
    BY <2>1 DEF addFragment, Reassembled
  <2>3. /\ r \in AnyRegion /\ r.beg = dg.off /\ r.end = dg.off + dg.len /\ r.beg < r.end
        /\ r.end <= L /\ (r.islast <=> r.end = L) /\ us = r.beg .. r.end - 1
    <3>1. r.beg = dg.off /\ r.end = dg.off + dg.len /\ (r.islast <=> ~dg.more)
      OBVIOUS
    <3>2. r \in AnyRegion
      BY <1>1 DEF AnyRegion
    <3>3. us = r.beg .. r.end - 1
      BY <1>1, <3>1 DEF units
    <3> HIDE DEF r, us, L
    <3> QED
      BY <1>1, <1>2, <3>1, <3>2, <3>3
  <2>4. Growing(old, had, P, L) /\ Covered(old, had, L) /\ had \in SUBSET Nat
    <3>1. Growing(EmptyBuffer, {}, P, L) /\ Covered(EmptyBuffer, {}, L)
      BY <1>2, EmptyGrown, EmptyCovered DEF Growing
    <3>2. Growing(fragbuf[n][id], arrived[n][id], P, L)
      BY <1>1 DEF Assembling
    <3>3. Covered(fragbuf[n][id], arrived[n][id], L) /\ arrived[n][id] \in SUBSET Nat
      <4>1. Kept(n, id) /\ id <= Len(sent) /\ arrived[n][id] \in SUBSET Nat
        BY <1>1 DEF Reassembled
      <4> QED
        BY <4>1 DEF Kept, KeptAs, Account
    <3> QED
      BY <3>1, <3>2, <3>3
  <2> HIDE DEF old, had, r, us, L, P, id
  <2>5. Grown(buf, had \cup us, P, L) /\ NothingToMerge(buf)
    <3>1. Covered(old, had \cup us, L) /\ Holds(r, had \cup us, L)
      BY <2>3, <2>4 DEF Covered, Holds
    <3>2. L \in Nat
      BY <1>2
    <3>3. Grown(buf, had \cup (r.beg .. r.end - 1), P, L) /\ NothingToMerge(buf)
      BY <1>2, <1>3, <2>3, <2>4, <3>1, <3>2, MergeGrown DEF Growing
    <3> QED
      BY <2>3, <3>3
  <2> HIDE DEF buf
  <2>6. ~done => Growing(buf, had \cup us, P, L)
    BY <2>5 DEF isComplete, Grown, Growing
  <2>7. ASSUME NEW k \in 1 .. Len(sent)
        PROVE  Growing(fb[k], ar[k], cut[sent[k]][n], sent[k][3])
    <3>1. /\ k \in Id /\ Growing(fragbuf[n][k], arrived[n][k], cut[sent[k]][n], sent[k][3])
          /\ Growing(EmptyBuffer, {}, cut[sent[k]][n], sent[k][3])
      <4>1. k \in Id /\ sent[k] \in Flow
        BY <1>1, IdsSuffice DEF Traffic
      <4>2. cut[sent[k]][n] \in SUBSET Piece /\ sent[k][3] \in Nat \ {0}
        BY <4>1, UnitsBound DEF CutAlike
      <4> QED
        BY <4>1, <4>2, EmptyGrown DEF Assembling, Growing
    <3>2. CASE k = id
      <4>1. fb[k] = (IF done THEN EmptyBuffer ELSE buf)
            /\ ar[k] = (IF done THEN {} ELSE had \cup us)
        BY <3>1, <3>2
      <4> QED
        BY <2>6, <3>1, <3>2, <4>1 DEF P, L
    <3>3. CASE k # id
      <4>1. /\ fb[k] = (IF k \in stale THEN EmptyBuffer ELSE fragbuf[n][k])
            /\ ar[k] = (IF k \in stale THEN {} ELSE arrived[n][k])
        BY <3>1, <3>3
      <4> QED
        BY <3>1, <4>1
    <3> QED
      BY <3>2, <3>3
  <2> HIDE DEF fb, ar
  <2>8. ASSUME NEW m \in Node, NEW k \in 1 .. Len(sent)
        PROVE  Growing(fragbuf'[m][k], arrived'[m][k], cut[sent[k]][m], sent[k][3])
    <3>1. \/ m = n /\ fragbuf'[m] = fb /\ arrived'[m] = ar
          \/ fragbuf'[m] = fragbuf[m] /\ arrived'[m] = arrived[m]
      BY <2>2 DEF Reassembled
    <3> QED
      BY <2>7, <3>1 DEF Assembling
  <2> QED
    BY <2>8 DEF Assembling
<1> QED
  BY <1>4, <1>5

LEMMA ReceiveDatagramAssembling ==
  ASSUME NEW cut, CutAlike(cut), IInv, Traffic, Reassembled, CutTraffic(cut), Assembling(cut),
         NEW f \in wire, ReceiveDatagram(f)
  PROVE  Assembling(cut)'
<1> DEFINE n == NodeOf[f.to]
<1>1. /\ f.dg \in Pieces(sent) /\ n \in Node /\ sent' = sent
      /\ pieceOf(f.dg) \in cut[sent[f.dg.id]][n]
  BY NetworkAssumption DEF CutTraffic, Coming, PieceFrame, ReceiveDatagram
<1>2. PICK rest \in {wire \ {f}, wire} : handleIncomingDatagram(n, f.dg, rest)
  BY DEF ReceiveDatagram
<1> HIDE DEF n
<1>3. CASE isLocalAddress(n, f.dg.dest) /\ reassembleAndDeliver(n, f.dg)
  <2>1. NodeOf[f.dg.dest] = n
    BY <1>3 DEF isLocalAddress
  <2> QED
    BY <1>1, <1>3, <2>1, ReassembleAssembling
<1>4. CASE UNCHANGED <<fragbuf, arrived>>
  BY <1>1, <1>4 DEF Assembling
<1> QED
  BY <1>2, <1>3, <1>4 DEF handleIncomingDatagram

LEMMA CutNext ==
  ASSUME ConsistentRoutes, NEW cut, CutAlike(cut), DInv, DInv', Truth, Truth',
         CutTraffic(cut), Assembling(cut), [Next]_vars
  PROVE  CutTraffic(cut)' /\ Assembling(cut)'
<1>1. /\ IInv /\ Traffic /\ Reassembled /\ IInv' /\ Traffic'
  BY DEF DInv
<1>2. ASSUME NEW n \in Node, NEW f \in Flow, SendDatagram(n, f)
      PROVE  CutTraffic(cut)' /\ Assembling(cut)'
  BY <1>1, <1>2, SendDatagramCut, SendDatagramAssembling
<1>3. ASSUME NEW f \in wire, ReceiveDatagram(f)
      PROVE  CutTraffic(cut)' /\ Assembling(cut)'
  BY <1>1, <1>3, ReceiveDatagramCut, ReceiveDatagramAssembling
<1>4. ASSUME UNCHANGED <<sent, fragbuf, arrived>> PROVE Assembling(cut)'
  BY <1>4 DEF Assembling
<1>5. ASSUME NEW p \in arpWire, ReceiveARP(p) PROVE CutTraffic(cut)' /\ Assembling(cut)'
  BY <1>1, <1>4, <1>5, ReceiveARPCut DEF ReceiveARP
<1>6. ASSUME NEW n \in Node, NEW a \in Address, Timeout(n, a)
      PROVE  CutTraffic(cut)' /\ Assembling(cut)'
  BY <1>1, <1>4, <1>6, TimeoutCut DEF Timeout
<1>7. ASSUME NEW n \in Node, Stop(n) PROVE CutTraffic(cut)' /\ Assembling(cut)'
  BY <1>1, <1>4, <1>7, StopCut DEF Stop
<1>8. CASE UNCHANGED ipVars
  BY <1>4, <1>8 DEF ipVars, CutTraffic
<1>9. ASSUME NEW n \in Node, NEW a \in Address, Expire(n, a) PROVE UNCHANGED ipVars
  BY <1>9 DEF Expire
<1>10. ASSUME NEW n \in Node, Start(n) PROVE UNCHANGED ipVars
  BY <1>10 DEF Start
<1>11. CASE UNCHANGED vars
  BY <1>8, <1>11 DEF vars
<1> QED
  BY <1>2, <1>3, <1>5, <1>6, <1>7, <1>8, <1>9, <1>10, <1>11 DEF Next

(* What is handed up is a datagram that was sent to the node, in its full    *)
(* length, and no datagram of which every unit came stays in the buffer, if  *)
(* its fragments are cut alike whatever way they take: ReassemblyBuffer      *)
(* takes a fragment that overlaps what is there for a duplicate.             *)
THEOREM ReassemblyIsExact ==
  ASSUME ConsistentRoutes, NEW CONSTANT cut, CutAlike(cut)
  PROVE  Spec => []ReassemblyExact
<1>1. Init => Truth /\ CutTraffic(cut) /\ Assembling(cut)
  <2> SUFFICES ASSUME Init PROVE Truth /\ CutTraffic(cut) /\ Assembling(cut)
    OBVIOUS
  <2>1. Truth
    BY DEF Init, ARPInit, Truth, EntryTrue, NoEntry
  <2>2. sent = <<>> /\ wire = {} /\ \A n \in Node, a \in Address : pendingPackets[n][a] = <<>>
    BY DEF Init, IPv4Init
  <2>3. CutTraffic(cut)
    <3>1. \A n \in Node, a \in Address : <<>> \in Seq(Waiting(cut, sent, n, a))
      OBVIOUS
    <3> QED
      BY <2>2, <3>1 DEF CutTraffic
  <2>4. 1 .. Len(sent) = {}
    BY <2>2
  <2> QED
    BY <2>1, <2>3, <2>4 DEF Assembling
<1>2. IInv /\ Truth /\ [Next]_vars => Truth'
  BY TruthNext
<1>3. DInv /\ DInv' /\ Truth /\ Truth' /\ CutTraffic(cut) /\ Assembling(cut) /\ [Next]_vars
        => CutTraffic(cut)' /\ Assembling(cut)'
  BY CutNext
<1>4. DInv /\ Assembling(cut) => ReassemblyExact
  <2> SUFFICES ASSUME DInv, Assembling(cut) PROVE ReassemblyExact
    OBVIOUS
  <2>1. \A n \in Node : \A i \in 1 .. Len(delivered[n]) : RightDelivery(n, delivered[n][i])
    BY DEF DInv, Reassembled
  <2>2. ASSUME NEW n \in Node, NEW k \in 1 .. Len(sent)
        PROVE  arrived[n][k] # 0 .. sent[k][3] - 1
    <3> DEFINE L == sent[k][3]
    <3>1. k \in Id /\ L \in Nat /\ sent[k] \in Flow
      <4>1. 1 .. Len(sent) \subseteq Id /\ sent[k][3] \in Nat
        BY SentTyped
      <4>2. sent \in Seq(Flow)
        BY DEF DInv, IInv, Types
      <4> QED
        BY <4>1, <4>2
    <3>2. Growing(fragbuf[n][k], arrived[n][k], cut[sent[k]][n], L)
      BY DEF Assembling
    <3>3. cut[sent[k]][n] \in SUBSET Piece
      BY <3>1 DEF CutAlike
    <3>4. Covered(fragbuf[n][k], arrived[n][k], L) /\ arrived[n][k] \in SUBSET Nat
      <4>1. Kept(n, k) /\ k <= Len(sent) /\ arrived[n][k] \in SUBSET Nat
        BY <3>1 DEF DInv, Reassembled
      <4> QED
        BY <4>1 DEF Kept, KeptAs, Account
    <3> HIDE DEF L
    <3> QED
      BY <3>1, <3>2, <3>3, <3>4, SomethingMissing DEF Growing, L
  <2> QED
    BY <2>1, <2>2 DEF ReassemblyExact, RightDelivery
<1>5. DInv => IInv
  BY DEF DInv
<1> QED
  BY <1>1, <1>2, <1>3, <1>4, <1>5, DInvariance, PTL DEF Spec
=============================================================================
