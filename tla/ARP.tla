-------------------------------- MODULE ARP ---------------------------------
(* The address resolution of every node: the cache of inet's ARP module with *)
(* its retry timers, and the ARP packets in flight.                          *)
(*                                                                           *)
(* A packet stays in arpWire: it may be received late, after a restart, more *)
(* than once, or never, which is to be lost or to reach a node that is down. *)
(*                                                                           *)
(* The operators give what one call does to the four variables; the actions  *)
(* that make the calls are in IPv4, which runs in the same event.            *)
EXTENDS IPv4Network

CONSTANT RetryCount     \* requests sent before a resolution fails

ASSUME RetryAssumption == RetryCount \in Nat \ {0}

VARIABLES isUp,         \* isUp[n]: the node's network layer runs
          arpCache,     \* arpCache[n][a]: the entry of n for address a
          arpTimer,     \* arpTimer[n]: the entries with a scheduled timer
          arpWire       \* the ARP packets sent

arpVars == <<isUp, arpCache, arpTimer, arpWire>>

(* "none": not in the map.  "expired": lastUpdate + cacheTimeout has passed. *)
ARPCacheEntry ==
  [state : {"none", "pending", "valid", "expired"},
   ie : Interface \cup {NoAddress},
   numRetries : 0 .. RetryCount - 1,
   mac : Interface \cup {NoAddress}]

NoEntry ==
  [state |-> "none", ie |-> NoAddress, numRetries |-> 0, mac |-> NoAddress]

ARPPacket ==
  [op : {"REQUEST", "REPLY"}, srcMac : Interface, srcIP : Address,
   destIP : Address, to : Interface]

ARPTypeOK ==
  /\ isUp \in [Node -> BOOLEAN]
  /\ arpCache \in [Node -> [Address -> ARPCacheEntry]]
  /\ arpTimer \in [Node -> SUBSET Address]
  /\ arpWire \subseteq ARPPacket

ARPInit ==
  /\ isUp = [n \in Node |-> TRUE]
  /\ arpCache = [n \in Node |-> [a \in Address |-> NoEntry]]
  /\ arpTimer = [n \in Node |-> {}]
  /\ arpWire = {}

-----------------------------------------------------------------------------
(* The broadcast request reaches every other interface on the link.          *)
sendARPRequest(ie, addr) ==
  {[op |-> "REQUEST", srcMac |-> ie, srcIP |-> ie, destIP |-> addr, to |-> j]
     : j \in Neighbours(ie)}

getMACAddressFor(n, addr) ==
  IF arpCache[n][addr].state = "valid" THEN arpCache[n][addr].mac
                                       ELSE NoAddress

initiateARPResolution(n, addr, ie) ==
  /\ arpCache' = [arpCache EXCEPT ![n][addr] =
       [state |-> "pending", ie |-> ie, numRetries |-> 0, mac |-> NoAddress]]
  /\ arpTimer' = [arpTimer EXCEPT ![n] = @ \cup {addr}]
  /\ arpWire' = arpWire \cup sendARPRequest(ie, addr)
  /\ isUp' = isUp

(* A pending resolution is left to run; an entry that is known but expired   *)
(* is resolved anew.                                                         *)
startAddressResolution(n, addr, ie) ==
  IF arpCache[n][addr].state = "pending" THEN UNCHANGED arpVars
                                         ELSE initiateARPResolution(n, addr, ie)

-----------------------------------------------------------------------------
(* The retry timer of the entry for addr fires.                              *)
\* Mutated: counts one retry too many.
lastRetry_OneMore(n, addr) == arpCache[n][addr].numRetries + 1 > RetryCount

lastRetry(n, addr) == arpCache[n][addr].numRetries + 1 >= RetryCount

resend(n, addr) ==
  /\ ~lastRetry(n, addr)
  /\ arpCache' = [arpCache EXCEPT ![n][addr].numRetries = @ + 1]
  /\ arpWire' = arpWire \cup sendARPRequest(arpCache[n][addr].ie, addr)
  /\ UNCHANGED <<isUp, arpTimer>>

giveUp(n, addr) ==
  /\ lastRetry(n, addr)
  /\ arpCache' = [arpCache EXCEPT ![n][addr] = NoEntry]
  /\ arpTimer' = [arpTimer EXCEPT ![n] = @ \ {addr}]
  /\ UNCHANGED <<isUp, arpWire>>

requestTimedOut(n, addr) ==
  /\ isUp[n]
  /\ addr \in arpTimer[n]
  /\ resend(n, addr) \/ giveUp(n, addr)

-----------------------------------------------------------------------------
(* The recipe of RFC 826.  A known sender is updated, an unknown one is      *)
(* added when the packet is for this node (or one it answers for); either    *)
(* ends a pending resolution and its timer, and emits "completed".           *)
learns(n, p) ==
  \/ arpCache[n][p.srcIP].state # "none"
  \/ addressRecognized(n, p.destIP, p.to)

\* Mutated: the timer of a resolved entry is not cancelled.
updateARPCache_NoCancel(n, p) ==
  /\ arpCache' = [arpCache EXCEPT ![n][p.srcIP] =
       [@ EXCEPT !.state = "valid", !.mac = p.srcMac,
                 !.ie = IF @ = NoAddress THEN p.to ELSE @]]
  /\ arpTimer' = arpTimer

updateARPCache(n, p) ==
  /\ arpCache' = [arpCache EXCEPT ![n][p.srcIP] =
       [state |-> "valid",
        ie |-> IF @.state = "none" THEN p.to ELSE @.ie,
        numRetries |-> IF @.state = "pending" THEN 0 ELSE @.numRetries,
        mac |-> p.srcMac]]
  /\ arpTimer' = [arpTimer EXCEPT ![n] =
       IF arpCache[n][p.srcIP].state = "pending" THEN @ \ {p.srcIP} ELSE @]

(* The answer swaps the addresses and goes to the asker alone.               *)
\* Mutated: the MAC address of the request's sender is left in the answer.
reply_NoSwap(n, p) ==
  IF p.op = "REQUEST" /\ addressRecognized(n, p.destIP, p.to)
  THEN {[op |-> "REPLY", srcMac |-> p.srcMac, srcIP |-> p.destIP,
         destIP |-> p.srcIP, to |-> p.srcMac]}
  ELSE {}

reply(n, p) ==
  IF p.op = "REQUEST" /\ addressRecognized(n, p.destIP, p.to)
  THEN {[op |-> "REPLY", srcMac |-> p.to, srcIP |-> p.destIP,
         destIP |-> p.srcIP, to |-> p.srcMac]}
  ELSE {}

processARPPacket(n, p) ==
  /\ isUp[n]
  /\ IF learns(n, p) THEN updateARPCache(n, p)
                     ELSE UNCHANGED <<arpCache, arpTimer>>
  /\ arpWire' = arpWire \cup reply(n, p)
  /\ isUp' = isUp

-----------------------------------------------------------------------------
(* cacheTimeout passes since the last update of an entry.                    *)
expire(n, addr) ==
  /\ arpCache[n][addr].state = "valid"
  /\ arpCache' = [arpCache EXCEPT ![n][addr].state = "expired"]
  /\ UNCHANGED <<isUp, arpTimer, arpWire>>

(* stop() flushes the cache and cancels its timers; what is on the wire      *)
(* stays there and may arrive after the restart.                             *)
stopARP(n) ==
  /\ isUp[n]
  /\ isUp' = [isUp EXCEPT ![n] = FALSE]
  /\ arpCache' = [arpCache EXCEPT ![n] = [a \in Address |-> NoEntry]]
  /\ arpTimer' = [arpTimer EXCEPT ![n] = {}]
  /\ arpWire' = arpWire

startARP(n) ==
  /\ ~isUp[n]
  /\ isUp' = [isUp EXCEPT ![n] = TRUE]
  /\ UNCHANGED <<arpCache, arpTimer, arpWire>>
=============================================================================
