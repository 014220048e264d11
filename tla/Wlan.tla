-------------------------------- MODULE Wlan --------------------------------
(***************************************************************************)
(* Stations on one radio channel: the MAC of Ieee80211Mac.tla, its radio   *)
(* (linklayer/radio/Radio.cc) and the propagation of frames to the radios  *)
(* in range.  Time advances in ticks; a transmission reaches the radios    *)
(* that hear it one tick after it starts, just before the timers of that   *)
(* tick, so that stations whose timers expire in the same tick collide.    *)
(***************************************************************************)
EXTENDS Ieee80211Mac, FiniteSets

CONSTANTS Hears,      \* [Node -> SUBSET Node]: the stations a station hears
          Workload,   \* [Node -> Seq(addresses)]: the frames to be sent
          MaxErrors   \* bound: receptions with bit errors but no collision

ASSUME RangeAssumption == /\ Hears \in [Node -> SUBSET Node]
                          /\ \A n, m \in Node : n \in Hears[m] <=> m \in Hears[n] /\ m # n
                          /\ MaxErrors \in Nat
ASSUME WorkloadAssumption == Workload \in [Node -> Seq(Node \cup {Multicast})]

VARIABLES mac,        \* [Node -> the state of the station]
          air,        \* [Node -> the frame the station sends, and its age]
          recvBuff,   \* [Node -> the stations whose frames arrive]
          receiving,  \* [Node -> the station whose frame is received, if any]
          noisy,      \* [Node -> has there been noise since it began?]
          offered,    \* [Node -> the frames still to come from above]
          handedUp,   \* history: [Node -> the frames handed up, in order]
          errors

vars == <<mac, air, recvBuff, receiving, noisy, offered, handedUp, errors>>

Silent == [frame |-> NoFrame, age |-> 0]
Nobody == "nobody"
ASSUME NobodyAssumption == Nobody \notin Node

Init == /\ mac = [n \in Node |-> initialStation]
        /\ air = [n \in Node |-> Silent]
        /\ recvBuff = [n \in Node |-> {}]
        /\ receiving = [n \in Node |-> Nobody]
        /\ noisy = [n \in Node |-> FALSE]
        /\ offered = Workload
        /\ handedUp = [n \in Node |-> <<>>]
        /\ errors = 0

-----------------------------------------------------------------------------
(* Station n goes on in state s: the frame it sends down starts its way    *)
(* through the radio, which stops receiving, and the frame it hands up     *)
(* reaches the management module.                                          *)
Continue(n, s) ==
    LET sends == s.down # NoFrame
        sent == setRadioState(assert(s, s.radioState # "TRANSMIT"), "TRANSMIT")
        rest == IF sends THEN sent ELSE s IN
    /\ mac' = [mac EXCEPT ![n] = [rest EXCEPT !.down = NoFrame, !.up = NoFrame]]
    /\ air' = IF sends THEN [air EXCEPT ![n] = [frame |-> s.down, age |-> 0]] ELSE air
    /\ handedUp' = IF s.up = NoFrame THEN handedUp
                   ELSE [handedUp EXCEPT ![n] = Append(@, s.up)]

StopsReceiving(n, s) == receiving' = IF s.down = NoFrame THEN receiving
                                     ELSE [receiving EXCEPT ![n] = Nobody]

-----------------------------------------------------------------------------
(* The radio *)

audible(n, m) == /\ m \in Hears[n]
                 /\ air[m].frame # NoFrame
                 /\ air[m].age \in 1 .. airTime(air[m].frame)
starts(n, m) == audible(n, m) /\ m \notin recvBuff[n]
ends(n, m) == m \in recvBuff[n] /\ ~audible(n, m)
transmitted(n) == /\ mac[n].radioState = "TRANSMIT"
                  /\ air[n].age = airTime(air[n].frame)
signalDue == \E n \in Node : transmitted(n) \/ \E m \in Node : starts(n, m) \/ ends(n, m)

\* Radio::handleLowerMsgStart(): the frame is received if the radio is free for it.
ReceptionStart(n, m) ==
    LET receives == mac[n].radioState # "TRANSMIT" /\ receiving[n] = Nobody IN
    /\ starts(n, m)
    /\ recvBuff' = [recvBuff EXCEPT ![n] = @ \cup {m}]
    /\ receiving' = IF receives THEN [receiving EXCEPT ![n] = m] ELSE receiving
    /\ noisy' = [noisy EXCEPT ![n] = IF receives THEN recvBuff[n] # {}
                                             ELSE receiving[n] # Nobody]
    /\ Continue(n, IF receives /\ mac[n].radioState # "RECV"
                   THEN setRadioState(mac[n], "RECV") ELSE mac[n])
    /\ UNCHANGED <<offered, errors>>

\* Radio::handleLowerMsgEnd(): the MAC learns that the medium is free before
\* it gets the frame.
quiet(n, m) ==
    LET received == receiving[n] \in {Nobody, m} IN
    IF recvBuff[n] = {m} /\ mac[n].radioState = "RECV" /\ received
    THEN setRadioState(mac[n], "IDLE") ELSE mac[n]
ReceptionEnd(n, m, failed, c) ==
    /\ ends(n, m)
    /\ receiving[n] = m
    /\ failed => noisy[n] \/ errors < MaxErrors
    /\ errors' = IF failed /\ ~noisy[n] THEN errors + 1 ELSE errors
    /\ recvBuff' = [recvBuff EXCEPT ![n] = @ \ {m}]
    /\ receiving' = [receiving EXCEPT ![n] = Nobody]
    /\ Continue(n, handleLowerMsg(quiet(n, m), n, air[m].frame, failed, c))
    /\ noisy' = [noisy EXCEPT ![n] = FALSE]
    /\ UNCHANGED offered
NoiseEnd(n, m) ==
    /\ ends(n, m)
    /\ receiving[n] # m
    /\ recvBuff' = [recvBuff EXCEPT ![n] = @ \ {m}]
    /\ Continue(n, quiet(n, m))
    /\ UNCHANGED <<receiving, noisy, offered, errors>>

\* Radio::handleSelfMsg(), MK_TRANSMISSION_OVER.
TransmissionOver(n) ==
    /\ transmitted(n)
    /\ Continue(n, setRadioState(mac[n], IF recvBuff[n] = {} THEN "IDLE" ELSE "RECV"))
    /\ UNCHANGED <<recvBuff, receiving, noisy, offered, errors>>

-----------------------------------------------------------------------------
(* The MAC *)

Expire(n, timer, s) ==
    /\ mac[n][timer] = 0
    /\ ~signalDue
    /\ Continue(n, s)
    /\ StopsReceiving(n, s)
    /\ UNCHANGED <<recvBuff, noisy, offered, errors>>

EndAIFS(n, c) == Expire(n, "endAIFS", AIFSOver(mac[n], c))
EndDIFS(n, c) == Expire(n, "endDIFS", DIFSOver(mac[n], c))
EndBackoff(n) == Expire(n, "endBackoff", BackoffOver(mac[n]))
EndSIFS(n) == Expire(n, "endSIFS", SIFSOver(mac[n]))
EndTimeout(n, c) == Expire(n, "endTimeout", TimeoutOver(mac[n], c))
EndReserve(n) == Expire(n, "endReserve", ReserveOver(mac[n]))

\* The management module sends the next frame; the MAC has asked for at most
\* two frames it has not finished with (initializeQueueModule).
UpperMsg(n) ==
    /\ offered[n] # <<>>
    /\ Len(mac[n].queue) < 2
    /\ ~signalDue
    /\ offered' = [offered EXCEPT ![n] = Tail(@)]
    /\ Continue(n, handleUpperMsg(mac[n], n, Head(offered[n])))
    /\ UNCHANGED <<recvBuff, receiving, noisy, errors>>

running == {r \in Node \X Timers : mac[r[1]][r[2]] # Off}
Tick ==
    /\ ~signalDue
    /\ \A r \in running : mac[r[1]][r[2]] > 0
    /\ running # {} \/ \E n \in Node : air[n] # Silent
    /\ mac' = [n \in Node |-> [field \in DOMAIN mac[n] |->
                 IF field \in Timers /\ <<n, field>> \in running
                 THEN mac[n][field] - 1 ELSE mac[n][field]]]
    /\ air' = [n \in Node |-> IF air[n].frame = NoFrame \/ air[n].age > airTime(air[n].frame)
                              THEN Silent ELSE [air[n] EXCEPT !.age = @ + 1]]
    /\ UNCHANGED <<recvBuff, receiving, noisy, offered, handedUp, errors>>

Draws == 0 .. (IF cwMax > cwMinMulticast THEN cwMax ELSE cwMinMulticast)
Next == \/ Tick
        \/ \E n \in Node :
              \/ TransmissionOver(n) \/ EndBackoff(n) \/ EndSIFS(n) \/ EndReserve(n) \/ UpperMsg(n)
              \/ \E c \in Draws : EndAIFS(n, c) \/ EndDIFS(n, c) \/ EndTimeout(n, c)
              \/ \E m \in Node :
                    \/ ReceptionStart(n, m) \/ NoiseEnd(n, m)
                    \/ \E failed \in BOOLEAN, c \in Draws : ReceptionEnd(n, m, failed, c)

Spec == Init /\ [][Next]_vars
FairSpec == Spec /\ WF_vars(Next)
=============================================================================
