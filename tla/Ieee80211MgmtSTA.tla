--------------------------- MODULE Ieee80211MgmtSTA ---------------------------
(***************************************************************************)
(* The management entity of an 802.11 station and the agent that drives it *)
(* (linklayer/ieee80211/mgmt/Ieee80211MgmtSTA.cc, Ieee80211AgentSTA.cc).    *)
(*                                                                         *)
(* The two exchange requests and confirmations in messages without delay:  *)
(* a handler's confirmation, the agent's answer to it and the command that *)
(* answer carries are all processed before anything else happens, so they  *)
(* are one step here.  A station is a record:                              *)
(*   channel   the channel its radio is tuned to                           *)
(*   scanning  currentChannelIndex and busyChannelDetected, scanTimer the  *)
(*             self message of the scan ("none" is isScanning = FALSE)     *)
(*   apList    what it knows of each access point                          *)
(*   assocTimer, assocAP, beaconTimer                                      *)
(*             the association in progress, the association, its timer     *)
(*   queue     the frames the MAC has not fetched                          *)
(*   awaits    the confirmation the agent is waiting for; the agent keeps  *)
(*             no such variable, it only reacts                            *)
(*   failed    an error() or ASSERT was reached, which ends the simulation *)
(***************************************************************************)
EXTENDS Ieee80211MgmtAP

CONSTANTS Channels,     \* the channels to scan, in order
          ChannelOf,    \* [AP -> channel]
          NoAP,         \* no access point
          activeScan    \* probe, or only listen to beacons

ASSUME ChannelAssumption ==
    /\ Channels \in Seq(Nat) /\ Channels # <<>>
    /\ ChannelOf \in [AP -> Nat]
    /\ NoAP \notin AP /\ activeScan \in BOOLEAN

(* An entry of apList; a timer that fired is still referred to.            *)
UnknownAP == [known |-> FALSE, isAuthenticated |-> FALSE, authSeqExpected |-> 0, authTimer |-> "none"]

initialSTA ==
    [channel |-> Channels[1], index |-> 0, busy |-> FALSE, scanTimer |-> "none",
     apList |-> [a \in AP |-> UnknownAP], assocTimer |-> "none", assocAP |-> NoAP, beaconTimer |-> "none",
     queue |-> <<>>, awaits |-> "startUp", failed |-> FALSE]

check(st, condition) == [st EXCEPT !.failed = @ \/ ~condition]

sendManagementFrame(st, f) == [st EXCEPT !.queue = Append(@, f)]

knownAPs(st) == {a \in AP : st.apList[a].known}

-----------------------------------------------------------------------------
(* Scanning.                                                               *)

(* scanNextChannel() when there is a next channel.                         *)
tune(st) ==
    [st EXCEPT !.index = @ + 1, !.channel = Channels[st.index + 1], !.busy = FALSE,
               !.scanTimer = IF activeScan THEN "sendProbe" ELSE "maxChannelTime"]

disassociate(st) ==
    [check(st, st.assocAP # NoAP) EXCEPT !.assocAP = NoAP, !.beaconTimer = "none"]

(* Mutated: the association in progress is left alone.                     *)
processScanCommand_KeepsAssociation(st) ==
    LET asked == check([st EXCEPT !.awaits = "ScanConfirm"], st.scanTimer = "none")
        left  == IF st.assocAP # NoAP THEN disassociate(asked) ELSE asked
    IN  tune([left EXCEPT !.apList = [a \in AP |-> UnknownAP], !.index = 0])

(* The association ends, an association in progress is cancelled, and the *)
(* list is cleared together with the timers of its entries.                *)
processScanCommand(st) ==
    LET asked == check([st EXCEPT !.awaits = "ScanConfirm"], st.scanTimer = "none")
        left  == IF st.assocAP # NoAP THEN disassociate(asked)
                 ELSE [asked EXCEPT !.assocTimer = "none"]
    IN  tune([left EXCEPT !.apList = [a \in AP |-> UnknownAP], !.index = 0])

startAuthentication(st, s, a) ==
    LET ok   == st.apList[a].known /\ st.apList[a].authTimer = "none" /\ ~st.apList[a].isAuthenticated
        sent == sendManagementFrame([st EXCEPT !.channel = ChannelOf[a]], Auth(s, a, 1))
    IN  check([sent EXCEPT !.apList[a].authSeqExpected = 2, !.apList[a].authTimer = "running",
                           !.awaits = "AuthenticateConfirm"], ok)

startAssociation(st, s, a) ==
    LET ok   == /\ st.assocAP = NoAP /\ st.assocTimer = "none"
                /\ st.apList[a].known /\ st.apList[a].isAuthenticated
        sent == sendManagementFrame([st EXCEPT !.channel = ChannelOf[a]], Plain("AssocReq", s, a))
    IN  check([sent EXCEPT !.assocTimer = "running", !.awaits = "AssociateConfirm"], ok)

(* Mutated: an empty list is the end of it.                                *)
processScanConfirm_GivesUp(st, s, best) ==
    IF best = NoAP THEN [st EXCEPT !.awaits = "nothing"] ELSE startAuthentication(st, s, best)

(* The agent takes the best access point, and scans again without one; the *)
(* receive power that makes one the best is left open.                     *)
processScanConfirm(st, s, best) ==
    IF best = NoAP THEN processScanCommand(st) ELSE startAuthentication(st, s, best)

processAuthenticateConfirm(st, s, a, success) ==
    IF success THEN startAssociation(st, s, a) ELSE processScanCommand(st)

processAssociateConfirm(st, success) ==
    IF success THEN [st EXCEPT !.awaits = "nothing"] ELSE processScanCommand(st)

candidates(st) == IF knownAPs(st) = {} THEN {NoAP} ELSE knownAPs(st)

(* The next channel, or the end of the scan.                               *)
scanNextChannel(st, s, best) ==
    IF st.index < Len(Channels) THEN tune(st)
    ELSE processScanConfirm([st EXCEPT !.scanTimer = "none"], s, best)

-----------------------------------------------------------------------------
(* Timers.                                                                 *)

sendProbe(st, s) ==
    sendManagementFrame([st EXCEPT !.scanTimer = "minChannelTime"], Plain("ProbeReq", s, NoAP))

(* A busy channel is listened to for the rest of maxChannelTime.           *)
minChannelTimeOver(st, s, noise, best) ==
    IF st.busy \/ noise THEN [st EXCEPT !.scanTimer = "maxChannelTime", !.busy = TRUE]
    ELSE scanNextChannel(st, s, best)

authTimeout(st, s, a) ==
    processAuthenticateConfirm([st EXCEPT !.apList[a].authTimer = "fired"], s, a, FALSE)

assocTimeout(st) == processAssociateConfirm([st EXCEPT !.assocTimer = "fired"], FALSE)

(* beaconLost() tells the agent, which scans.                              *)
beaconTimeout(st) == processScanCommand([st EXCEPT !.beaconTimer = "fired"])

-----------------------------------------------------------------------------
(* Frames.                                                                 *)

storeAPInfo(st, a) == [st EXCEPT !.apList[a].known = TRUE]

(* Every frame makes the channel a busy one for an active scan.            *)
hears(st) == [st EXCEPT !.busy = @ \/ (activeScan /\ st.scanTimer # "none")]

handleBeaconFrame(st, a) ==
    LET stored == storeAPInfo(hears(st), a)
    IN  IF st.assocAP = a
        THEN check([stored EXCEPT !.beaconTimer = "running"], st.beaconTimer # "none")
        ELSE stored

(* Mutated: an attempt that ends out of sequence is not reported.          *)
handleAuthenticationFrame_STA_Silent(st, s, f) ==
    LET a    == f.ap
        ap   == st.apList[a]
        done == [st EXCEPT !.apList[a].authTimer = "none"]
    IN  IF ~ap.known \/ ap.isAuthenticated \/ ap.authTimer = "none" THEN st
        ELSE IF f.seq # ap.authSeqExpected THEN sendManagementFrame(done, AuthError(s, a))
        ELSE IF f.ok /\ ~f.last
             THEN [sendManagementFrame(st, Auth(s, a, f.seq + 1)) EXCEPT !.apList[a].authSeqExpected = @ + 2]
        ELSE processAuthenticateConfirm([done EXCEPT !.apList[a].isAuthenticated = f.ok], s, a, f.ok)

(* A frame out of sequence is answered with an error and ends the attempt; *)
(* one in sequence is answered, or ends it as its status says.             *)
handleAuthenticationFrame_STA(st, s, f) ==
    LET a    == f.ap
        ap   == st.apList[a]
        done == [st EXCEPT !.apList[a].authTimer = "none"]
    IN  IF ~ap.known \/ ap.isAuthenticated \/ ap.authTimer = "none" THEN st
        ELSE IF f.seq # ap.authSeqExpected
             THEN processAuthenticateConfirm(sendManagementFrame(done, AuthError(s, a)), s, a, FALSE)
        ELSE IF f.ok /\ ~f.last
             THEN [sendManagementFrame(st, Auth(s, a, f.seq + 1)) EXCEPT !.apList[a].authSeqExpected = @ + 2]
        ELSE processAuthenticateConfirm([done EXCEPT !.apList[a].isAuthenticated = f.ok], s, a, f.ok)

(* A deauthentication is not reported to the agent either.                 *)
handleDeauthenticationFrame(st, a) ==
    LET ap == st.apList[a]
    IN  IF ~ap.known \/ ~ap.isAuthenticated THEN st
        ELSE IF ap.authTimer # "none" THEN [st EXCEPT !.apList[a].authTimer = "none"]
        ELSE [st EXCEPT !.apList[a].isAuthenticated = FALSE]

(* Mutated: an answer that comes late is taken.                            *)
handleAssociationResponseFrame_Late(st, f) ==
    LET ended == [check(st, st.apList[f.ap].known) EXCEPT !.assocTimer = "none", !.assocAP = NoAP]
    IN  processAssociateConfirm(
            IF f.ok THEN [ended EXCEPT !.assocAP = f.ap, !.beaconTimer = "running"]
            ELSE [ended EXCEPT !.beaconTimer = "none"], f.ok)

(* An existing association is broken; the new one has a beacon timer.      *)
handleAssociationResponseFrame(st, f) ==
    IF st.assocTimer = "none" THEN st
    ELSE LET ended == [check(st, st.apList[f.ap].known) EXCEPT !.assocTimer = "none", !.assocAP = NoAP]
         IN  processAssociateConfirm(
                 IF f.ok THEN [ended EXCEPT !.assocAP = f.ap, !.beaconTimer = "running"]
                 ELSE [ended EXCEPT !.beaconTimer = "none"], f.ok)

processFrame_STA(st, s, f) ==
    LET heard == hears(st)
    IN  CASE f.type = "Auth"      -> handleAuthenticationFrame_STA(heard, s, f)
          [] f.type = "Deauth"    -> handleDeauthenticationFrame(heard, f.ap)
          [] f.type = "AssocResp" -> handleAssociationResponseFrame(heard, f)
          [] f.type = "ProbeResp" -> storeAPInfo(heard, f.ap)
=============================================================================
