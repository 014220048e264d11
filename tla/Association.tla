----------------------------- MODULE Association -----------------------------
(***************************************************************************)
(* Stations that scan for, authenticate with and associate with access     *)
(* points: Ieee80211MgmtSTA and Ieee80211MgmtAP over the MAC and the radio. *)
(*                                                                         *)
(* The MAC sends the frames of one queue one after the other, repeats what  *)
(* is not acknowledged and filters what arrives twice: a queue keeps its    *)
(* order, and its first frame arrives once or is given up.  It is given up  *)
(* without a fault when the receiver is down, out of range or tuned to      *)
(* another channel.                                                        *)
(*                                                                         *)
(* MaxFaults bounds what goes wrong: a frame given up although its receiver *)
(* could hear it, a timer that expires while frames of its station are     *)
(* under way (a timeout is a thousand times a frame), a beacon timer that   *)
(* expires although beacons could be heard (3.5 of them lost), an access    *)
(* point that goes down, a station that moves.                             *)
(***************************************************************************)
EXTENDS Ieee80211MgmtSTA

CONSTANT MaxFaults

ASSUME FaultAssumption == MaxFaults \in Nat

VARIABLES sta,      \* [Station -> the station's record]
          ap,       \* [AP -> the access point's record]
          inRange,  \* [Station -> the access points within reach]
          faults,
          hasty     \* history: [Station -> has a timer of the station expired
                    \* while frames of it were under way?]

vars == <<sta, ap, inRange, faults, hasty>>

Init == /\ sta = [s \in Station |-> initialSTA]
        /\ ap = [a \in AP |-> initialAP]
        /\ inRange = [s \in Station |-> AP]
        /\ faults = 0
        /\ hasty = [s \in Station |-> FALSE]

Fault(happens) == /\ happens => faults < MaxFaults
                  /\ faults' = IF happens THEN faults + 1 ELSE faults

Running == \A s \in Station : ~sta[s].failed

reachable(s, a) == ap[a].up /\ a \in inRange[s] /\ sta[s].channel = ChannelOf[a]

(* The access points a frame of the station can reach; a probe reaches all. *)
receivers(s, f) == {a \in AP : reachable(s, a) /\ f.ap \in {a, NoAP}}

-----------------------------------------------------------------------------
(* The MAC takes the first frame of a queue.                               *)
ToAP(s) ==
    /\ Running /\ sta[s].queue # <<>>
    /\ LET f == Head(sta[s].queue)
       IN  \E lost \in BOOLEAN :
               /\ Fault(lost)
               /\ ap' = [a \in AP |-> IF a \in receivers(s, f) /\ ~lost
                                      THEN processFrame(ap[a], f, a) ELSE ap[a]]
    /\ sta' = [sta EXCEPT ![s].queue = Tail(@)]
    /\ UNCHANGED <<inRange, hasty>>

ToSTA(a) ==
    /\ Running /\ ap[a].queue # <<>>
    /\ LET f == Head(ap[a].queue)
           s == f.sta
       IN  \E lost \in BOOLEAN :
               /\ Fault(lost)
               /\ sta' = IF reachable(s, a) /\ ~lost
                         THEN [sta EXCEPT ![s] = processFrame_STA(@, s, f)] ELSE sta
    /\ ap' = [ap EXCEPT ![a].queue = Tail(@)]
    /\ UNCHANGED <<inRange, hasty>>

Beacon(a) ==
    /\ Running /\ ap[a].up
    /\ sta' = [s \in Station |-> IF reachable(s, a) THEN handleBeaconFrame(sta[s], a) ELSE sta[s]]
    /\ UNCHANGED <<ap, inRange, faults, hasty>>

-----------------------------------------------------------------------------
(* Timers of a station.                                                    *)
underWay(s) == \/ sta[s].queue # <<>>
               \/ \E a \in AP : \E i \in 1..Len(ap[a].queue) : ap[a].queue[i].sta = s

Expires(s, early, st) ==
    /\ Running /\ Fault(early)
    /\ sta' = [sta EXCEPT ![s] = st]
    /\ hasty' = [hasty EXCEPT ![s] = @ \/ underWay(s)]
    /\ UNCHANGED <<ap, inRange>>

StartUp(s)   == sta[s].awaits = "startUp" /\ Expires(s, FALSE, processScanCommand(sta[s]))

SendProbe(s) == sta[s].scanTimer = "sendProbe" /\ Expires(s, underWay(s), sendProbe(sta[s], s))

MinChannelTime(s) ==
    /\ sta[s].scanTimer = "minChannelTime"
    /\ \E best \in candidates(sta[s]), noise \in BOOLEAN :
           Expires(s, underWay(s), minChannelTimeOver(sta[s], s, noise, best))

MaxChannelTime(s) ==
    /\ sta[s].scanTimer = "maxChannelTime"
    /\ \E best \in candidates(sta[s]) : Expires(s, underWay(s), scanNextChannel(sta[s], s, best))

AuthTimeout(s) == \E a \in AP : /\ sta[s].apList[a].authTimer = "running"
                                /\ Expires(s, underWay(s), authTimeout(sta[s], s, a))

AssocTimeout(s) == sta[s].assocTimer = "running" /\ Expires(s, underWay(s), assocTimeout(sta[s]))

BeaconTimeout(s) ==
    /\ sta[s].beaconTimer = "running"
    /\ Expires(s, \E a \in AP : sta[s].assocAP = a /\ reachable(s, a), beaconTimeout(sta[s]))

-----------------------------------------------------------------------------
(* Faults.                                                                 *)
Stop(a) ==
    /\ Running /\ ap[a].up /\ Fault(TRUE)
    /\ ap' = [ap EXCEPT ![a] = stopAP(@)]
    /\ UNCHANGED <<sta, inRange, hasty>>

Start(a) ==
    /\ Running /\ ~ap[a].up
    /\ ap' = [ap EXCEPT ![a] = startAP(@)]
    /\ UNCHANGED <<sta, inRange, faults, hasty>>

Move(s) ==
    /\ Running /\ Fault(TRUE)
    /\ \E reach \in SUBSET AP \ {inRange[s]} : inRange' = [inRange EXCEPT ![s] = reach]
    /\ UNCHANGED <<sta, ap, hasty>>

Timer(s) == \/ StartUp(s)        \/ SendProbe(s)    \/ MinChannelTime(s) \/ MaxChannelTime(s)
            \/ AuthTimeout(s)    \/ AssocTimeout(s) \/ BeaconTimeout(s)

Next == \/ \E s \in Station : ToAP(s) \/ Timer(s) \/ Move(s)
        \/ \E a \in AP : ToSTA(a) \/ Beacon(a) \/ Stop(a) \/ Start(a)

Spec == Init /\ [][Next]_vars

(* The event queue runs every scheduled timer and every transmission.       *)
Fairness == /\ \A s \in Station : WF_vars(ToAP(s)) /\ WF_vars(Timer(s))
            /\ \A a \in AP : WF_vars(ToSTA(a))

FairSpec == Spec /\ Fairness
=============================================================================
