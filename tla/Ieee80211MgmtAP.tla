--------------------------- MODULE Ieee80211MgmtAP ---------------------------
(***************************************************************************)
(* The management entity of an 802.11 access point                         *)
(* (linklayer/ieee80211/mgmt/Ieee80211MgmtAP.cc): what it knows of each     *)
(* station and how it answers management frames.  An access point is a     *)
(* record; a handler maps the record before a frame to the one after it.   *)
(*                                                                         *)
(* Frames are records [type, sta, ap, seq, ok, last].  An answer goes to    *)
(* the end of the queue of the passive queue the module inherits, from     *)
(* which the MAC fetches it.                                               *)
(***************************************************************************)
EXTENDS Naturals, Sequences

CONSTANTS Station,        \* the stations
          AP,             \* the access points
          numAuthSteps    \* frames of an authentication: 2 open system, 4 WEP

(* Ieee80211MgmtAP::initialize refuses any other value.                    *)
ASSUME AuthStepsAssumption == numAuthSteps \in {2, 4}

frame(type, s, a, seq, ok, last) ==
    [type |-> type, sta |-> s, ap |-> a, seq |-> seq, ok |-> ok, last |-> last]

Auth(s, a, seq)   == frame("Auth", s, a, seq, TRUE, FALSE)
(* The error frame leaves the sequence number at its default.              *)
AuthError(s, a)   == frame("Auth", s, a, 0, FALSE, FALSE)
Plain(type, s, a) == frame(type, s, a, 0, TRUE, FALSE)

(* An entry of staList; "none" stands for no entry.                        *)
NoEntry == [status |-> "none", authSeqExpected |-> 1]
Status  == {"none", "NOT_AUTHENTICATED", "AUTHENTICATED", "ASSOCIATED"}

initialAP == [up |-> TRUE, staList |-> [s \in Station |-> NoEntry], queue |-> <<>>]

answer(ap, f) == [ap EXCEPT !.queue = Append(@, f)]

(* A first frame starts the exchange anew, whatever the station was.       *)
senderSTA(entry, seq) ==
    IF seq = 1 \/ entry.status = "none"
    THEN [status |-> "NOT_AUTHENTICATED", authSeqExpected |-> 1]
    ELSE entry

handleAuthenticationFrame(ap, f) ==
    LET sta  == senderSTA(ap.staList[f.sta], f.seq)
        last == f.seq + 1 = numAuthSteps
        next == IF f.seq # sta.authSeqExpected THEN [sta EXCEPT !.authSeqExpected = 1]
                ELSE IF last THEN [sta EXCEPT !.status = "AUTHENTICATED"]
                ELSE [sta EXCEPT !.authSeqExpected = @ + 2]
        resp == IF f.seq # sta.authSeqExpected THEN AuthError(f.sta, f.ap)
                ELSE [Auth(f.sta, f.ap, f.seq + 1) EXCEPT !.last = last]
    IN  answer([ap EXCEPT !.staList[f.sta] = next], resp)

(* Mutated: the station is told that it is associated, and not marked.     *)
handleAssociationRequestFrame_Unmarked(ap, f) ==
    IF ap.staList[f.sta].status \in {"none", "NOT_AUTHENTICATED"}
    THEN answer(ap, Plain("Deauth", f.sta, f.ap))
    ELSE answer(ap, Plain("AssocResp", f.sta, f.ap))

(* The station is marked as associated before it can know.                 *)
handleAssociationRequestFrame(ap, f) ==
    IF ap.staList[f.sta].status \in {"none", "NOT_AUTHENTICATED"}
    THEN answer(ap, Plain("Deauth", f.sta, f.ap))
    ELSE answer([ap EXCEPT !.staList[f.sta].status = "ASSOCIATED"], Plain("AssocResp", f.sta, f.ap))

handleProbeRequestFrame(ap, f, a) == answer(ap, Plain("ProbeResp", f.sta, a))

processFrame(ap, f, a) ==
    CASE f.type = "Auth"     -> handleAuthenticationFrame(ap, f)
      [] f.type = "AssocReq" -> handleAssociationRequestFrame(ap, f)
      [] f.type = "ProbeReq" -> handleProbeRequestFrame(ap, f, a)

(* A node that goes down forgets its stations and its queue.               *)
stopAP(ap)  == [initialAP EXCEPT !.up = FALSE]
startAP(ap) == [ap EXCEPT !.up = TRUE]
=============================================================================
