----------------------------- MODULE WlanSafety -----------------------------
(***************************************************************************)
(* The properties of the stations of Wlan.tla.                             *)
(***************************************************************************)
EXTENDS Wlan

\* No wait of a timer is longer: the longest interframe space, timeout,
\* reservation and backoff together.
Longest == 3 * (Sifs + ControlTime) + DataTime + getEIFS + 2 * MaxPropagationDelay
               + PhyRxStart + Slot * (1 + cwMax + cwMinMulticast)
TimerRange == Off .. Longest

\* Every variable has its type (the types of Ieee80211Mac.h:190-330).
TypeOK ==
    /\ \A n \in Node :
          /\ mac[n].state \in {"IDLE", "DEFER", "WAITAIFS", "BACKOFF", "WAITACK",
                               "WAITMULTICAST", "WAITCTS", "WAITSIFS"}
          /\ mac[n].radioState \in {"IDLE", "RECV", "TRANSMIT"}
          /\ Len(mac[n].queue) <= 2
          /\ mac[n].retryCounter \in 0 .. transmissionLimit - 1
          /\ mac[n].backoff \in BOOLEAN /\ mac[n].lastReceiveFailed \in BOOLEAN
          /\ mac[n].backoffPeriod = Invalid \/ mac[n].backoffPeriod \div Slot \in Draws
          /\ \A timer \in Timers : mac[n][timer] \in TimerRange
          /\ mac[n].down = NoFrame /\ mac[n].up = NoFrame
    /\ recvBuff \in [Node -> SUBSET Node]
    /\ receiving \in [Node -> Node \cup {Nobody}]
    /\ noisy \in [Node -> BOOLEAN]
    /\ errors \in 0 .. MaxErrors

\* No ASSERT of the MAC is false, and the radio is never asked to send while
\* it is sending ("MAC should take care this does not happen", Radio.cc:427).
FaultFree == \A n \in Node : ~mac[n].failed

\* Each timer runs exactly in the states that wait for it: a timer left
\* running would end a later wait, one not started would leave the station
\* waiting for ever.
TimersFollowState ==
    \A n \in Node : LET s == mac[n] IN
        /\ s.endTimeout # Off <=> s.state \in {"WAITACK", "WAITCTS", "WAITMULTICAST"}
        /\ s.endSIFS # Off <=> s.state = "WAITSIFS"
        /\ s.endBackoff # Off <=> s.state = "BACKOFF"
        /\ (s.endAIFS # Off) # (s.endDIFS # Off) <=> s.state = "WAITAIFS"
        /\ s.endAIFS # Off => s.queue # <<>>

\* A station contends only while the radio is idle and its network allocation
\* vector has run out, and it defers only while that is not so.
ContendsWhenFree ==
    \A n \in Node : LET s == mac[n] IN
        /\ s.state \in {"WAITAIFS", "BACKOFF"} => isMediumFree(s)
        /\ s.state = "DEFER" => ~isMediumFree(s)
        /\ s.state = "IDLE" => s.queue = <<>>

\* A station works on one frame at a time: the data frame it has in the air is
\* the one at the head of its queue, which is removed only later.
OneFrameAtATime ==
    \A n \in Node : air[n].frame.type = "DATA" /\ air[n].age <= DataTime
                    /\ mac[n].radioState = "TRANSMIT" =>
        /\ mac[n].state \in {"WAITACK", "WAITMULTICAST"}
        /\ Head(mac[n].queue) = air[n].frame

\* An acknowledgement carries no number, so the one a station waits for must be
\* about the frame it has sent: its addressee, which has handed it up, sends it.
AcknowledgesCurrent ==
    \A n, r \in Node : LET ack == air[r].frame IN
        ack.type = "ACK" /\ ack.ra = n /\ mac[n].state = "WAITACK" =>
            /\ Head(mac[n].queue).ra = r
            /\ \E k \in DOMAIN handedUp[r] : handedUp[r][k] = Head(mac[n].queue)

-----------------------------------------------------------------------------
\* The MACs keep the promise of MacService: at most one copy of a frame is
\* handed up, a frame counted as sent has been received, and every frame is
\* finished in the end.
Service == INSTANCE MacService WITH
    queue <- [n \in Node |-> mac[n].queue],
    numSent <- UNION {mac[n].numSent : n \in Node}

MacServiceSpec == Service!FairSpec
=============================================================================
