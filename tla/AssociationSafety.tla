-------------------------- MODULE AssociationSafety --------------------------
(***************************************************************************)
(* What the management entities of stations and access points must keep    *)
(* true of each other and of the agent.                                    *)
(***************************************************************************)
EXTENDS Association

(* Every variable has its type: a timer that fired is never left behind    *)
(* (Ieee80211MgmtSTA::processScanCommand, clearAPList).                    *)
APInfo == [known : BOOLEAN, isAuthenticated : BOOLEAN, authSeqExpected : {0, 2, 4},
           authTimer : {"none", "running"}]

TypeOK ==
    /\ \A s \in Station :
           /\ sta[s].channel \in {Channels[i] : i \in DOMAIN Channels} \cup {ChannelOf[a] : a \in AP}
           /\ sta[s].index \in 0..Len(Channels)
           /\ sta[s].scanTimer \in {"none", "sendProbe", "minChannelTime", "maxChannelTime"}
           /\ sta[s].apList \in [AP -> APInfo]
           /\ sta[s].assocTimer \in {"none", "running"} /\ sta[s].beaconTimer \in {"none", "running"}
           /\ sta[s].assocAP \in AP \cup {NoAP}
    /\ \A a \in AP :
           /\ ap[a].up \in BOOLEAN
           /\ ap[a].staList \in [Station -> [status : Status, authSeqExpected : {1, 3}]]
    /\ inRange \in [Station -> SUBSET AP]
    /\ hasty \in [Station -> BOOLEAN]

(* No error() and no ASSERT of the station is reached: no second scan,     *)
(* authentication or association is begun before the first has ended, and  *)
(* no command or answer names an access point that is not in the list      *)
(* (Ieee80211MgmtSTA.cc startAuthentication, startAssociation,             *)
(* processScanCommand, handleAssociationResponseFrame, disassociate).      *)
FaultFree == Running

(* The agent keeps no timer of its own and remembers no request: what wakes *)
(* it up is the one timer of the step it waits for.  An attempt that ended *)
(* without a confirmation would leave the station silent for ever, and a   *)
(* timer that outlived its attempt would end the next one                  *)
(* (Ieee80211AgentSTA.cc processScanConfirm, processAuthenticateConfirm,   *)
(* processAssociateConfirm; the timers of Ieee80211MgmtSTA.cc).            *)
OneTimer ==
    \A s \in Station :
        /\ (sta[s].scanTimer # "none") <=> (sta[s].awaits = "ScanConfirm")
        /\ (\E a \in AP : sta[s].apList[a].authTimer # "none") <=> (sta[s].awaits = "AuthenticateConfirm")
        /\ \A a, b \in AP : /\ sta[s].apList[a].authTimer # "none"
                             /\ sta[s].apList[b].authTimer # "none"
                             => a = b
        /\ (sta[s].assocTimer # "none") <=> (sta[s].awaits = "AssociateConfirm")
        /\ (sta[s].beaconTimer # "none") <=> (sta[s].awaits = "nothing")
        /\ (sta[s].assocAP # NoAP) <=> (sta[s].awaits = "nothing")

(* No two access points share a channel.  The station does not compare the *)
(* sender of an association answer with the access point it asked: on one  *)
(* channel an answer that comes after the timeout would be taken for the   *)
(* answer to the next request, made to another access point.               *)
OneAPPerChannel == \A a, b \in AP : ChannelOf[a] = ChannelOf[b] => a = b

(* A station that is associated is associated at its access point, unless  *)
(* the access point was restarted since and has no entry for it: without   *)
(* that, frames for the station are dropped (Ieee80211MgmtAP::             *)
(* handleUpperMessage, handleDataFrame) while it hears beacons.  It is so  *)
(* whatever frames are lost, but not once timers have expired while their  *)
(* frames were still in a queue: neither side tells the answer to one      *)
(* attempt from the answer to the next.                                    *)
AssociationAgreed ==
    \A s \in Station, a \in AP :
        sta[s].assocAP = a /\ ~hasty[s] => ap[a].staList[s].status \in {"ASSOCIATED", "none"}

(* A station that always has an access point within reach ends up          *)
(* associated, and stays so: the agent scans again whatever went wrong.    *)
Associates ==
    \A s \in Station : (<>[](\E a \in inRange[s] : ap[a].up)) => <>[](sta[s].assocAP # NoAP)
=============================================================================
