-------------------------- MODULE Association_proofs --------------------------
(***************************************************************************)
(* TypeOK, FaultFree, OneTimer and AssociationAgreed for any number of     *)
(* stations and access points, if no two access points share a channel.    *)
(***************************************************************************)
EXTENDS AssociationSafety, TLAPS

-----------------------------------------------------------------------------
(* The inductive invariant.                                                *)

TimerState == {"none", "running", "fired"}

Requests(s) == {f \in [type : {"ProbeReq", "Auth", "AssocReq"}, sta : {s},
                        ap : AP \cup {NoAP},
                        seq : Nat, ok : BOOLEAN, last : BOOLEAN] :
                    f.type = "ProbeReq" \/ f.ap \in AP}

(* The only answer that asks for another frame is the second of four.      *)
Answer(a) == {f \in [type : {"ProbeResp", "Auth", "AssocResp", "Deauth"}, sta : Station, ap : {a},
                     seq : Nat, ok : BOOLEAN, last : BOOLEAN] :
                 f.type = "Auth" /\ f.ok /\ ~f.last => f.seq = 2}

APEntry == [known : BOOLEAN, isAuthenticated : BOOLEAN, authSeqExpected : {0, 2, 4},
            authTimer : TimerState]

(* The channels a station may be tuned to.                                 *)
Tunable == {Channels[i] : i \in DOMAIN Channels} \cup {ChannelOf[a] : a \in AP}

StationRecord(s) ==
    [channel : Tunable, index : 0..Len(Channels), busy : BOOLEAN,
     scanTimer : {"none", "sendProbe", "minChannelTime", "maxChannelTime"},
     apList : [AP -> APEntry],
     assocTimer : TimerState, assocAP : AP \cup {NoAP}, beaconTimer : TimerState,
     queue : Seq(Requests(s)),
     awaits : {"startUp", "ScanConfirm", "AuthenticateConfirm", "AssociateConfirm", "nothing"},
     failed : BOOLEAN]

(* A third frame is expected only where there are four.                    *)
StationEntry == {e \in [status : Status, authSeqExpected : {1, 3}] :
                    e.authSeqExpected = 3 => numAuthSteps = 4}

APRecord(a) == [up : BOOLEAN, staList : [Station -> StationEntry], queue : Seq(Answer(a))]

(* No authentication has been begun or finished.                           *)
Idle(st) == \A a \in AP : st.apList[a].authTimer = "none" /\ ~st.apList[a].isAuthenticated

(* No timer that fired is left behind.                                     *)
NoneFired(st) == /\ st.assocTimer # "fired" /\ st.beaconTimer # "fired"
                 /\ \A a \in AP : st.apList[a].authTimer # "fired"

(* A station between two events: what its agent waits for, its timer and   *)
(* its radio agree.                                                        *)
Sound(st, s) ==
    /\ st \in StationRecord(s)
    /\ ~st.failed
    /\ NoneFired(st)
    /\ (st.scanTimer # "none") <=> (st.awaits = "ScanConfirm")
    /\ (st.assocTimer # "none") <=> (st.awaits = "AssociateConfirm")
    /\ (st.beaconTimer # "none") <=> (st.awaits = "nothing")
    /\ (st.assocAP # NoAP) <=> (st.awaits = "nothing")
    /\ (\E a \in AP : st.apList[a].authTimer # "none") <=> (st.awaits = "AuthenticateConfirm")
    /\ \A a, b \in AP : st.apList[a].authTimer # "none" /\ st.apList[b].authTimer # "none" => a = b
    /\ \A a \in AP : st.apList[a].authTimer # "none" => st.apList[a].known /\ st.channel = ChannelOf[a]
    /\ \A a \in AP : st.apList[a].isAuthenticated => st.awaits \in {"AssociateConfirm", "nothing"}
    /\ st.awaits = "AssociateConfirm" => \E a \in AP : st.apList[a].known /\ st.channel = ChannelOf[a]

IInv ==
    /\ DOMAIN sta = Station /\ DOMAIN ap = AP
    /\ \A s \in Station : Sound(sta[s], s)
    /\ \A a \in AP : ap[a] \in APRecord(a)

(* A condition of the code that holds.                                     *)
LEMMA CheckPassed ==
    ASSUME NEW s, NEW st \in StationRecord(s), ~st.failed, NEW c, c
    PROVE  check(st, c) = st
BY DEF check, StationRecord

-----------------------------------------------------------------------------
(* A scan.                                                                 *)

LEMMA RecordTuned ==
    ASSUME NEW s, NEW st \in StationRecord(s), NEW c \in Tunable, st.index < Len(Channels),
           NEW t \in {"sendProbe", "maxChannelTime"}
    PROVE  [st EXCEPT !.index = @ + 1, !.channel = c, !.busy = FALSE, !.scanTimer = t] \in StationRecord(s)
<1> DEFINE next == [st EXCEPT !.index = @ + 1]
           quiet == [[next EXCEPT !.channel = c] EXCEPT !.busy = FALSE]
<1>1. next \in StationRecord(s)
  <2>1. Len(Channels) \in Nat
    BY ChannelAssumption
  <2>2. st.index \in 0..Len(Channels)
    BY DEF StationRecord
  <2>3. st.index + 1 \in 0..Len(Channels)
    BY <2>1, <2>2
  <2> QED
    BY <2>3 DEF StationRecord
<1>2. quiet \in StationRecord(s)
  BY <1>1 DEF StationRecord
<1>3. [quiet EXCEPT !.scanTimer = t] \in StationRecord(s)
  BY <1>2 DEF StationRecord
<1> QED
  BY <1>3

LEMMA TuneSound ==
    ASSUME NEW s \in Station, NEW st \in StationRecord(s), ~st.failed, st.awaits = "ScanConfirm",
           st.assocTimer = "none", st.assocAP = NoAP, st.beaconTimer = "none", Idle(st),
           st.index < Len(Channels)
    PROVE  Sound(tune(st), s)
<1>1. Channels[st.index + 1] \in Tunable
  BY ChannelAssumption DEF StationRecord, Tunable
<1>2. tune(st) \in StationRecord(s)
  <2>1. (IF activeScan THEN "sendProbe" ELSE "maxChannelTime") \in {"sendProbe", "maxChannelTime"}
    BY ChannelAssumption
  <2> QED
    BY Zenon, <1>1, <2>1, RecordTuned DEF tune
<1>3. /\ tune(st).failed = st.failed /\ tune(st).awaits = st.awaits
      /\ tune(st).assocTimer = st.assocTimer /\ tune(st).assocAP = st.assocAP
      /\ tune(st).beaconTimer = st.beaconTimer /\ tune(st).apList = st.apList
      /\ tune(st).scanTimer # "none"
  BY DEF tune, StationRecord
<1> QED
  BY <1>2, <1>3 DEF Sound, NoneFired, Idle

(* Everything but the list of access points.                               *)
SameButList(k, j) ==
    /\ j.channel = k.channel /\ j.index = k.index /\ j.busy = k.busy /\ j.scanTimer = k.scanTimer
    /\ j.queue = k.queue /\ j.assocTimer = k.assocTimer /\ j.assocAP = k.assocAP
    /\ j.beaconTimer = k.beaconTimer /\ j.awaits = k.awaits /\ j.failed = k.failed

LEMMA ListTyped ==
    ASSUME NEW s, NEW st \in StationRecord(s), NEW l \in [AP -> APEntry]
    PROVE  /\ [st EXCEPT !.apList = l] \in StationRecord(s)
           /\ [st EXCEPT !.apList = l].apList = l
           /\ SameButList(st, [st EXCEPT !.apList = l])
BY DEF StationRecord, SameButList

(* A scan may begin whenever none runs and an association has no request   *)
(* beside it.                                                              *)
LEMMA ScanSound ==
    ASSUME NEW s \in Station, NEW st \in StationRecord(s), ~st.failed, st.scanTimer = "none",
           st.assocAP # NoAP => st.assocTimer = "none",
           st.assocAP = NoAP => st.beaconTimer = "none"
    PROVE  Sound(processScanCommand(st), s)
<1> DEFINE asked == check([st EXCEPT !.awaits = "ScanConfirm"], st.scanTimer = "none")
           left  == IF st.assocAP # NoAP THEN disassociate(asked) ELSE [asked EXCEPT !.assocTimer = "none"]
           clear == [left EXCEPT !.apList = [a \in AP |-> UnknownAP], !.index = 0]
<1>1. /\ asked \in StationRecord(s) /\ ~asked.failed /\ asked.awaits = "ScanConfirm"
      /\ asked.assocAP = st.assocAP /\ asked.assocTimer = st.assocTimer
      /\ asked.beaconTimer = st.beaconTimer
  BY DEF check, StationRecord
<1>2. /\ left \in StationRecord(s) /\ ~left.failed /\ left.awaits = "ScanConfirm"
      /\ left.assocAP = NoAP /\ left.assocTimer = "none" /\ left.beaconTimer = "none"
  <2>1. CASE st.assocAP = NoAP
    <3> HIDE DEF asked
    <3> QED
      BY <1>1, <2>1 DEF StationRecord, TimerState
  <2>2. CASE st.assocAP # NoAP
    <3>1. check(asked, asked.assocAP # NoAP) = asked
      BY <1>1, <2>2, CheckPassed
    <3>2. left = [[asked EXCEPT !.assocAP = NoAP] EXCEPT !.beaconTimer = "none"]
      <4> HIDE DEF asked
      <4> QED
        BY <1>1, <2>2, <3>1 DEF disassociate, StationRecord
    <3> HIDE DEF asked, left
    <3>3. [asked EXCEPT !.assocAP = NoAP] \in StationRecord(s)
      BY <1>1 DEF StationRecord
    <3> QED
      BY <1>1, <2>2, <3>2, <3>3 DEF StationRecord, TimerState
  <2> QED
    BY <2>1, <2>2
<1>3. [a \in AP |-> UnknownAP] \in [AP -> APEntry]
  BY DEF UnknownAP, APEntry, TimerState
<1> HIDE DEF left
<1> DEFINE blank == [a \in AP |-> UnknownAP]
           empty == [left EXCEPT !.apList = blank]
<1>4. /\ clear \in StationRecord(s) /\ ~clear.failed /\ clear.awaits = "ScanConfirm"
      /\ clear.assocAP = NoAP /\ clear.assocTimer = "none" /\ clear.beaconTimer = "none"
      /\ clear.apList = [a \in AP |-> UnknownAP] /\ clear.index = 0
  <2>1. /\ empty \in StationRecord(s) /\ empty.apList = [a \in AP |-> UnknownAP]
        /\ SameButList(left, empty)
    <3>1. blank \in [AP -> APEntry] /\ blank = [a \in AP |-> UnknownAP]
      BY <1>3
    <3> HIDE DEF blank
    <3>2. empty \in StationRecord(s) /\ empty.apList = blank /\ SameButList(left, empty)
      BY <1>2, <3>1, ListTyped
    <3> QED
      BY <3>1, <3>2
  <2>2. clear = [empty EXCEPT !.index = 0]
    OBVIOUS
  <2> HIDE DEF empty, clear
  <2>3. clear \in StationRecord(s)
    BY <2>1, <2>2 DEF StationRecord
  <2> QED
    BY <1>2, <2>1, <2>2, <2>3 DEF SameButList, StationRecord
<1> HIDE DEF clear
<1>5. Idle(clear)
  BY <1>4 DEF Idle, UnknownAP
<1>6. clear.index < Len(Channels)
  BY <1>4, ChannelAssumption
<1>7. Sound(tune(clear), s)
  BY <1>4, <1>5, <1>6, TuneSound
<1> QED
  BY <1>7 DEF processScanCommand, clear, left

-----------------------------------------------------------------------------
(* The requests of the station.                                            *)

LEMMA RequestTypes ==
    ASSUME NEW s \in Station, NEW a \in AP
    PROVE  /\ \A n \in Nat : Auth(s, a, n) \in Requests(s)
           /\ AuthError(s, a) \in Requests(s)
           /\ Plain("AssocReq", s, a) \in Requests(s)
           /\ Plain("ProbeReq", s, NoAP) \in Requests(s)
BY DEF Auth, AuthError, Plain, frame, Requests

(* All of a station but its queue.                                         *)
SameButQueue(k, j) ==
    /\ j.channel = k.channel /\ j.index = k.index /\ j.busy = k.busy /\ j.scanTimer = k.scanTimer
    /\ j.apList = k.apList /\ j.assocTimer = k.assocTimer /\ j.assocAP = k.assocAP
    /\ j.beaconTimer = k.beaconTimer /\ j.awaits = k.awaits /\ j.failed = k.failed

LEMMA SendTyped ==
    ASSUME NEW s, NEW st \in StationRecord(s), NEW f \in Requests(s)
    PROVE  /\ sendManagementFrame(st, f) \in StationRecord(s)
           /\ SameButQueue(st, sendManagementFrame(st, f))
<1>1. st.queue \in Seq(Requests(s))
  BY DEF StationRecord
<1>2. Append(st.queue, f) \in Seq(Requests(s))
  BY <1>1
<1> QED
  BY <1>2 DEF sendManagementFrame, SameButQueue, StationRecord

(* What Sound reads.                                                       *)
Alike(k, j) ==
    /\ j.channel = k.channel /\ j.apList = k.apList /\ j.assocTimer = k.assocTimer
    /\ j.assocAP = k.assocAP /\ j.beaconTimer = k.beaconTimer /\ j.awaits = k.awaits
    /\ (j.failed <=> k.failed) /\ ((j.scanTimer # "none") <=> (k.scanTimer # "none"))

LEMMA AlikeSound ==
    ASSUME NEW s, NEW k, NEW j, Sound(k, s), j \in StationRecord(s), Alike(k, j)
    PROVE  Sound(j, s)
<1>1. ~j.failed /\ NoneFired(j)
  BY DEF Alike, Sound, NoneFired
<1>2. /\ (j.scanTimer # "none") <=> (j.awaits = "ScanConfirm")
      /\ (j.assocTimer # "none") <=> (j.awaits = "AssociateConfirm")
      /\ (j.beaconTimer # "none") <=> (j.awaits = "nothing")
      /\ (j.assocAP # NoAP) <=> (j.awaits = "nothing")
  BY DEF Alike, Sound
<1>3. /\ (\E a \in AP : j.apList[a].authTimer # "none") <=> (j.awaits = "AuthenticateConfirm")
      /\ \A a, b \in AP : j.apList[a].authTimer # "none" /\ j.apList[b].authTimer # "none" => a = b
      /\ \A a \in AP : j.apList[a].authTimer # "none" => j.apList[a].known /\ j.channel = ChannelOf[a]
      /\ \A a \in AP : j.apList[a].isAuthenticated => j.awaits \in {"AssociateConfirm", "nothing"}
      /\ j.awaits = "AssociateConfirm" => \E a \in AP : j.apList[a].known /\ j.channel = ChannelOf[a]
  BY DEF Alike, Sound
<1> QED
  BY <1>1, <1>2, <1>3 DEF Sound

LEMMA AuthenticationSound ==
    ASSUME NEW s \in Station, NEW a \in AP, NEW st \in StationRecord(s), ~st.failed,
           st.scanTimer = "none", st.assocTimer = "none", st.assocAP = NoAP, st.beaconTimer = "none",
           Idle(st), st.apList[a].known
    PROVE  Sound(startAuthentication(st, s, a), s)
<1> DEFINE tuned == [st EXCEPT !.channel = ChannelOf[a]]
           sent  == sendManagementFrame(tuned, Auth(s, a, 1))
           list  == [[sent.apList EXCEPT ![a].authSeqExpected = 2] EXCEPT ![a].authTimer = "running"]
           timed == [sent EXCEPT !.apList = list]
           asked == [timed EXCEPT !.awaits = "AuthenticateConfirm"]
           ok    == st.apList[a].known /\ st.apList[a].authTimer = "none" /\ ~st.apList[a].isAuthenticated
<1>1. tuned \in StationRecord(s) /\ tuned = [st EXCEPT !.channel = ChannelOf[a]]
  BY DEF StationRecord, Tunable
<1>2. sent \in StationRecord(s) /\ SameButQueue(tuned, sent)
  BY <1>1, RequestTypes, SendTyped
<1>3. /\ list \in [AP -> APEntry]
      /\ list[a].known /\ list[a].authTimer = "running" /\ ~list[a].isAuthenticated
      /\ \A b \in AP \ {a} : list[b] = st.apList[b]
  <2>1. sent.apList = st.apList /\ st.apList \in [AP -> APEntry]
    BY <1>1, <1>2 DEF SameButQueue, StationRecord
  <2> QED
    BY SMTT(30), <2>1 DEF Idle, APEntry, TimerState
<1> HIDE DEF list
<1>4. timed \in StationRecord(s) /\ timed.apList = list /\ SameButList(sent, timed)
  BY <1>2, <1>3, ListTyped
<1> HIDE DEF timed
<1>5. /\ asked \in StationRecord(s) /\ asked.apList = list /\ asked.awaits = "AuthenticateConfirm"
      /\ asked.channel = ChannelOf[a] /\ ~asked.failed
      /\ asked.scanTimer = "none" /\ asked.assocTimer = "none" /\ asked.assocAP = NoAP
      /\ asked.beaconTimer = "none"
  <2>1. /\ timed.channel = ChannelOf[a] /\ ~timed.failed
        /\ timed.scanTimer = "none" /\ timed.assocTimer = "none" /\ timed.assocAP = NoAP
        /\ timed.beaconTimer = "none"
    BY <1>1, <1>2, <1>4 DEF SameButQueue, SameButList, StationRecord
  <2> QED
    BY <1>4, <2>1 DEF StationRecord
<1> HIDE DEF asked
<1>6. Sound(asked, s)
  <2>1. \A b \in AP : asked.apList[b].authTimer # "none" => b = a
    BY <1>3, <1>5 DEF Idle
  <2>2. \E b \in AP : asked.apList[b].authTimer # "none"
    BY <1>3, <1>5
  <2>3. \A b \in AP : ~asked.apList[b].isAuthenticated
    BY <1>3, <1>5 DEF Idle
  <2> QED
    BY <1>3, <1>5, <2>1, <2>2, <2>3 DEF Sound, NoneFired
<1>7. ok
  BY DEF Idle
<1>8. startAuthentication(st, s, a) = check(asked, ok)
  BY ZenonT(60) DEF startAuthentication, asked, timed, list
<1>9. check(asked, ok) = asked
  BY <1>5, <1>7, CheckPassed
<1> QED
  BY <1>6, <1>8, <1>9

LEMMA AssociationSound ==
    ASSUME NEW s \in Station, NEW a \in AP, NEW st \in StationRecord(s), ~st.failed,
           st.scanTimer = "none", st.assocTimer = "none", st.assocAP = NoAP, st.beaconTimer = "none",
           \A b \in AP : st.apList[b].authTimer = "none",
           st.apList[a].known, st.apList[a].isAuthenticated
    PROVE  Sound(startAssociation(st, s, a), s)
<1> DEFINE tuned == [st EXCEPT !.channel = ChannelOf[a]]
           sent  == sendManagementFrame(tuned, Plain("AssocReq", s, a))
           timed == [sent EXCEPT !.assocTimer = "running"]
           asked == [timed EXCEPT !.awaits = "AssociateConfirm"]
           ok    == /\ st.assocAP = NoAP /\ st.assocTimer = "none"
                    /\ st.apList[a].known /\ st.apList[a].isAuthenticated
<1>1. tuned \in StationRecord(s) /\ tuned = [st EXCEPT !.channel = ChannelOf[a]]
  BY DEF StationRecord, Tunable
<1>2. sent \in StationRecord(s) /\ SameButQueue(tuned, sent)
  BY <1>1, RequestTypes, SendTyped
<1>3. timed \in StationRecord(s)
  BY <1>2 DEF StationRecord, TimerState
<1>4. asked \in StationRecord(s)
  BY <1>3 DEF StationRecord
<1>5. /\ asked.awaits = "AssociateConfirm" /\ asked.channel = ChannelOf[a] /\ ~asked.failed
      /\ asked.scanTimer = "none" /\ asked.assocTimer = "running" /\ asked.assocAP = NoAP
      /\ asked.beaconTimer = "none" /\ asked.apList = st.apList
  BY <1>1, <1>2 DEF SameButQueue, StationRecord
<1>6. startAssociation(st, s, a) = check(asked, ok)
  BY DEF startAssociation
<1> HIDE DEF asked
<1>7. Sound(asked, s)
  BY <1>4, <1>5 DEF Sound, NoneFired
<1>8. check(asked, ok) = asked
  BY <1>4, <1>5, CheckPassed
<1> QED
  BY <1>6, <1>7, <1>8

-----------------------------------------------------------------------------
(* The timers.                                                             *)

LEMMA NextChannelSound ==
    ASSUME NEW s \in Station, NEW st, Sound(st, s), st.scanTimer # "none", NEW best \in candidates(st)
    PROVE  Sound(scanNextChannel(st, s, best), s)
<1> DEFINE over == [st EXCEPT !.scanTimer = "none"]
<1>1. /\ st \in StationRecord(s) /\ ~st.failed /\ st.awaits = "ScanConfirm"
      /\ st.assocTimer = "none" /\ st.assocAP = NoAP /\ st.beaconTimer = "none"
  BY DEF Sound
<1>2. Idle(st)
  BY DEF Sound, Idle, StationRecord
<1>3. CASE st.index < Len(Channels)
  <2>1. Sound(tune(st), s)
    BY <1>1, <1>2, <1>3, TuneSound
  <2> QED
    BY <1>3, <2>1 DEF scanNextChannel
<1>4. CASE ~(st.index < Len(Channels))
  <2>1. /\ over \in StationRecord(s) /\ ~over.failed /\ over.scanTimer = "none"
        /\ over.assocTimer = "none" /\ over.assocAP = NoAP /\ over.beaconTimer = "none"
        /\ over.apList = st.apList
    BY <1>1 DEF StationRecord
  <2>2. CASE best = NoAP
    <3>1. Sound(processScanCommand(over), s)
      BY <2>1, ScanSound
    <3> QED
      BY <1>4, <2>2, <3>1 DEF scanNextChannel, processScanConfirm
  <2>3. CASE best # NoAP
    <3>1. best \in AP /\ st.apList[best].known
      BY <2>3 DEF candidates, knownAPs
    <3>2. Idle(over)
      BY <1>2, <2>1 DEF Idle
    <3>3. Sound(startAuthentication(over, s, best), s)
      BY <2>1, <3>1, <3>2, AuthenticationSound
    <3> QED
      BY <1>4, <2>3, <3>3 DEF scanNextChannel, processScanConfirm
  <2> QED
    BY <2>2, <2>3
<1> QED
  BY <1>3, <1>4

LEMMA SendProbeSound ==
    ASSUME NEW s \in Station, NEW st, Sound(st, s), st.scanTimer # "none"
    PROVE  Sound(sendProbe(st, s), s)
<1> DEFINE timed == [st EXCEPT !.scanTimer = "minChannelTime"]
           sent  == sendManagementFrame(timed, Plain("ProbeReq", s, NoAP))
<1>1. st \in StationRecord(s) /\ st.awaits = "ScanConfirm"
  BY DEF Sound
<1>2. timed \in StationRecord(s)
  BY <1>1 DEF StationRecord
<1>3. Sound(timed, s)
  <2>1. Alike(st, timed)
    BY <1>1 DEF StationRecord, Alike
  <2> HIDE DEF timed
  <2> QED
    BY <1>2, <2>1, AlikeSound
<1>4. Plain("ProbeReq", s, NoAP) \in Requests(s)
  BY DEF Plain, frame, Requests
<1>5. sent \in StationRecord(s) /\ SameButQueue(timed, sent)
  BY <1>2, <1>4, SendTyped
<1>6. Sound(sent, s)
  <2> HIDE DEF sent, timed
  <2>1. Alike(timed, sent)
    BY <1>5 DEF SameButQueue, Alike
  <2> QED
    BY <1>3, <1>5, <2>1, AlikeSound
<1> QED
  BY <1>6 DEF sendProbe

LEMMA MinChannelTimeSound ==
    ASSUME NEW s \in Station, NEW st, Sound(st, s), st.scanTimer # "none",
           NEW best \in candidates(st), NEW noise \in BOOLEAN
    PROVE  Sound(minChannelTimeOver(st, s, noise, best), s)
<1> DEFINE stays == [st EXCEPT !.scanTimer = "maxChannelTime", !.busy = TRUE]
<1>1. st \in StationRecord(s) /\ st.awaits = "ScanConfirm"
  BY DEF Sound
<1>2. stays \in StationRecord(s)
  BY <1>1 DEF StationRecord
<1>3. Alike(st, stays)
  BY <1>1 DEF StationRecord, Alike
<1>4. Sound(stays, s)
  <2> HIDE DEF stays
  <2> QED
    BY <1>2, <1>3, AlikeSound
<1>5. Sound(scanNextChannel(st, s, best), s)
  BY NextChannelSound
<1> QED
  BY <1>4, <1>5 DEF minChannelTimeOver

(* A timeout ends the step the agent waits for and begins a scan.          *)
LEMMA TimeoutSound ==
    ASSUME NEW s \in Station, NEW st, Sound(st, s)
    PROVE  /\ \A a \in AP : st.apList[a].authTimer # "none" => Sound(authTimeout(st, s, a), s)
           /\ st.assocTimer # "none" => Sound(assocTimeout(st), s)
           /\ st.beaconTimer # "none" => Sound(beaconTimeout(st), s)
           /\ st.awaits = "startUp" => Sound(processScanCommand(st), s)
<1>1. st \in StationRecord(s) /\ ~st.failed
  BY DEF Sound
<1>2. ASSUME NEW a \in AP, st.apList[a].authTimer # "none"
      PROVE  Sound(authTimeout(st, s, a), s)
  <2> DEFINE list  == [st.apList EXCEPT ![a].authTimer = "fired"]
             fired == [st EXCEPT !.apList = list]
  <2>1. /\ st.awaits = "AuthenticateConfirm" /\ st.scanTimer = "none" /\ st.assocTimer = "none"
        /\ st.assocAP = NoAP /\ st.beaconTimer = "none"
    BY <1>2 DEF Sound
  <2>2. list \in [AP -> APEntry]
    BY SMTT(30), <1>1 DEF StationRecord, APEntry, TimerState
  <2>3. /\ fired \in StationRecord(s) /\ ~fired.failed /\ fired.scanTimer = "none"
        /\ fired.assocAP = NoAP /\ fired.beaconTimer = "none" /\ fired.assocTimer = "none"
    <3> HIDE DEF list
    <3> QED
      BY <1>1, <2>1, <2>2, ListTyped DEF SameButList
  <2>4. Sound(processScanCommand(fired), s)
    <3> HIDE DEF fired
    <3> QED
      BY <2>3, ScanSound
  <2> QED
    BY <2>4 DEF authTimeout, processAuthenticateConfirm
<1>3. ASSUME st.assocTimer # "none"
      PROVE  Sound(assocTimeout(st), s)
  <2> DEFINE fired == [st EXCEPT !.assocTimer = "fired"]
  <2>1. st.scanTimer = "none" /\ st.assocAP = NoAP /\ st.beaconTimer = "none"
    BY <1>3 DEF Sound
  <2>2. /\ fired \in StationRecord(s) /\ ~fired.failed /\ fired.scanTimer = "none"
        /\ fired.assocAP = NoAP /\ fired.beaconTimer = "none"
    BY <1>1, <2>1 DEF StationRecord, TimerState
  <2>3. Sound(processScanCommand(fired), s)
    <3> HIDE DEF fired
    <3> QED
      BY <2>2, ScanSound
  <2> QED
    BY <2>3 DEF assocTimeout, processAssociateConfirm
<1>4. ASSUME st.beaconTimer # "none"
      PROVE  Sound(beaconTimeout(st), s)
  <2> DEFINE fired == [st EXCEPT !.beaconTimer = "fired"]
  <2>1. st.scanTimer = "none" /\ st.assocAP # NoAP /\ st.assocTimer = "none"
    BY <1>4 DEF Sound
  <2>2. /\ fired \in StationRecord(s) /\ ~fired.failed /\ fired.scanTimer = "none"
        /\ fired.assocAP # NoAP /\ fired.assocTimer = "none"
    BY <1>1, <2>1 DEF StationRecord, TimerState
  <2>3. Sound(processScanCommand(fired), s)
    <3> HIDE DEF fired
    <3> QED
      BY <2>2, ScanSound
  <2> QED
    BY <2>3 DEF beaconTimeout
<1>5. ASSUME st.awaits = "startUp"
      PROVE  Sound(processScanCommand(st), s)
  <2>1. /\ st.scanTimer = "none" /\ st.assocAP = NoAP /\ st.assocTimer = "none"
        /\ st.beaconTimer = "none"
    BY <1>5 DEF Sound
  <2> QED
    BY <1>1, <2>1, ScanSound
<1> QED
  BY <1>2, <1>3, <1>4, <1>5

-----------------------------------------------------------------------------
(* The frames a station receives.                                          *)

LEMMA HearsSound ==
    ASSUME NEW s \in Station, NEW st, Sound(st, s)
    PROVE  /\ Sound(hears(st), s)
           /\ hears(st).apList = st.apList /\ hears(st).channel = st.channel
           /\ hears(st).assocTimer = st.assocTimer
<1>1. st \in StationRecord(s)
  BY DEF Sound
<1>2. hears(st) \in StationRecord(s)
  BY <1>1 DEF hears, StationRecord
<1>3. Alike(st, hears(st))
  BY <1>1 DEF hears, Alike, StationRecord
<1>4. Sound(hears(st), s)
  BY <1>2, <1>3, AlikeSound
<1> QED
  BY <1>3, <1>4 DEF Alike

LEMMA StoreSound ==
    ASSUME NEW s \in Station, NEW a \in AP, NEW st, Sound(st, s)
    PROVE  /\ Sound(storeAPInfo(st, a), s)
           /\ storeAPInfo(st, a).assocAP = st.assocAP
           /\ storeAPInfo(st, a).beaconTimer = st.beaconTimer
<1> DEFINE list == [st.apList EXCEPT ![a].known = TRUE]
           j    == [st EXCEPT !.apList = list]
<1>1. st \in StationRecord(s)
  BY DEF Sound
<1>2. /\ list \in [AP -> APEntry]
      /\ list[a].known
      /\ \A b \in AP : /\ list[b].authTimer = st.apList[b].authTimer
                       /\ (list[b].isAuthenticated <=> st.apList[b].isAuthenticated)
                       /\ (st.apList[b].known => list[b].known)
  BY Zenon, <1>1 DEF StationRecord, APEntry
<1>3. j \in StationRecord(s) /\ j.apList = list /\ SameButList(st, j)
  <2> HIDE DEF list
  <2> QED
    BY <1>1, <1>2, ListTyped
<1> HIDE DEF list, j
<1>4. ~j.failed /\ NoneFired(j)
  BY <1>2, <1>3 DEF SameButList, Sound, NoneFired
<1>5. /\ (j.scanTimer # "none") <=> (j.awaits = "ScanConfirm")
      /\ (j.assocTimer # "none") <=> (j.awaits = "AssociateConfirm")
      /\ (j.beaconTimer # "none") <=> (j.awaits = "nothing")
      /\ (j.assocAP # NoAP) <=> (j.awaits = "nothing")
  BY <1>3 DEF SameButList, Sound
<1>6. /\ (\E b \in AP : j.apList[b].authTimer # "none") <=> (j.awaits = "AuthenticateConfirm")
      /\ \A b, c \in AP : j.apList[b].authTimer # "none" /\ j.apList[c].authTimer # "none" => b = c
      /\ \A b \in AP : j.apList[b].authTimer # "none" => j.apList[b].known /\ j.channel = ChannelOf[b]
      /\ \A b \in AP : j.apList[b].isAuthenticated => j.awaits \in {"AssociateConfirm", "nothing"}
      /\ j.awaits = "AssociateConfirm" => \E b \in AP : j.apList[b].known /\ j.channel = ChannelOf[b]
  BY <1>2, <1>3 DEF SameButList, Sound
<1>7. Sound(j, s)
  BY <1>3, <1>4, <1>5, <1>6 DEF Sound
<1>8. storeAPInfo(st, a) = j
  BY DEF storeAPInfo, j, list
<1> QED
  BY <1>3, <1>7, <1>8 DEF SameButList

LEMMA BeaconSound ==
    ASSUME NEW s \in Station, NEW a \in AP, NEW st, Sound(st, s)
    PROVE  Sound(handleBeaconFrame(st, a), s)
<1> DEFINE stored == storeAPInfo(hears(st), a)
           timed  == [stored EXCEPT !.beaconTimer = "running"]
<1>1. Sound(hears(st), s)
  BY HearsSound
<1>2. /\ Sound(stored, s) /\ stored.assocAP = hears(st).assocAP
      /\ stored.beaconTimer = hears(st).beaconTimer
  BY <1>1, StoreSound
<1>3. hears(st).assocAP = st.assocAP /\ hears(st).beaconTimer = st.beaconTimer
  BY DEF Sound, hears, StationRecord
<1> HIDE DEF stored
<1>4. CASE st.assocAP = a
  <2>1. a # NoAP
    BY ChannelAssumption
  <2>2. stored \in StationRecord(s) /\ stored.beaconTimer # "none" /\ st.beaconTimer # "none"
    BY <1>2, <1>3, <1>4, <2>1 DEF Sound
  <2>3. timed \in StationRecord(s)
    BY <2>2 DEF StationRecord, TimerState
  <2>4. /\ timed.channel = stored.channel /\ timed.apList = stored.apList
        /\ timed.assocTimer = stored.assocTimer /\ timed.assocAP = stored.assocAP
        /\ timed.awaits = stored.awaits /\ timed.scanTimer = stored.scanTimer
        /\ (timed.failed <=> stored.failed) /\ timed.beaconTimer = "running"
    BY <2>2 DEF StationRecord
  <2> HIDE DEF timed
  <2>0. NoneFired(timed)
    BY <1>2, <2>4 DEF Sound, NoneFired
  <2>5. /\ ~timed.failed
        /\ (timed.scanTimer # "none") <=> (timed.awaits = "ScanConfirm")
        /\ (timed.assocTimer # "none") <=> (timed.awaits = "AssociateConfirm")
        /\ (timed.beaconTimer # "none") <=> (timed.awaits = "nothing")
        /\ (timed.assocAP # NoAP) <=> (timed.awaits = "nothing")
    BY <1>2, <2>2, <2>4 DEF Sound
  <2>6. Sound(timed, s)
    BY <1>2, <2>0, <2>3, <2>4, <2>5 DEF Sound
  <2>7. check(timed, st.beaconTimer # "none") = timed
    BY <2>2, <2>3, <2>5, CheckPassed
  <2> QED
    BY <1>4, <2>6, <2>7 DEF handleBeaconFrame, stored, timed
<1>5. CASE st.assocAP # a
  BY <1>2, <1>5 DEF handleBeaconFrame, stored
<1> QED
  BY <1>4, <1>5

(* The answer to an authentication frame ends the attempt or goes on.      *)
LEMMA AuthenticationFrameSound ==
    ASSUME NEW s \in Station, NEW a \in AP, NEW st, Sound(st, s), NEW f \in Answer(a),
           f.type = "Auth"
    PROVE  Sound(handleAuthenticationFrame_STA(st, s, f), s)
<1> DEFINE known  == st.apList[a]
           list   == [st.apList EXCEPT ![a].authTimer = "none"]
           done   == [st EXCEPT !.apList = list]
           passed == [list EXCEPT ![a].isAuthenticated = f.ok]
           ended  == [done EXCEPT !.apList = passed]
           error  == sendManagementFrame(done, AuthError(s, a))
           next   == sendManagementFrame(st, Auth(s, a, f.seq + 1))
           step   == [next.apList EXCEPT ![a].authSeqExpected = @ + 2]
           goes   == [next EXCEPT !.apList = step]
<1>1. st \in StationRecord(s) /\ ~st.failed /\ f.ap = a /\ f.seq \in Nat /\ f.ok \in BOOLEAN
  BY DEF Sound, Answer
<1>2. CASE ~known.known \/ known.isAuthenticated \/ known.authTimer = "none"
  BY <1>1, <1>2 DEF handleAuthenticationFrame_STA
<1>3. CASE ~(~known.known \/ known.isAuthenticated \/ known.authTimer = "none")
  <2>1. /\ known.authTimer # "none" /\ known.known /\ ~known.isAuthenticated
        /\ st.awaits = "AuthenticateConfirm" /\ st.scanTimer = "none" /\ st.assocTimer = "none"
        /\ st.assocAP = NoAP /\ st.beaconTimer = "none"
    BY <1>3 DEF Sound
  <2>2. /\ \A b \in AP : ~st.apList[b].isAuthenticated
        /\ \A b \in AP \ {a} : st.apList[b].authTimer = "none"
    BY <2>1 DEF Sound
  <2>3. /\ list \in [AP -> APEntry] /\ list[a].known
        /\ \A b \in AP : list[b].authTimer = "none" /\ ~list[b].isAuthenticated
    <3>1. st.apList \in [AP -> APEntry]
      BY <1>1 DEF StationRecord
    <3> QED
      BY <3>1, <2>1, <2>2 DEF APEntry, TimerState
  <2>4. done \in StationRecord(s) /\ done.apList = list /\ SameButList(st, done)
    <3> HIDE DEF list
    <3> QED
      BY <1>1, <2>3, ListTyped
  <2>5. /\ ~done.failed /\ done.scanTimer = "none" /\ done.assocTimer = "none"
        /\ done.assocAP = NoAP /\ done.beaconTimer = "none"
    <3> HIDE DEF done
    <3> QED
      BY <1>1, <2>1, <2>4 DEF SameButList
  <2>6. CASE f.seq # known.authSeqExpected
    <3>1. AuthError(s, a) \in Requests(s)
      BY RequestTypes
    <3>2. error \in StationRecord(s) /\ SameButQueue(done, error)
      <4> HIDE DEF done
      <4> QED
        BY <2>4, <3>1, SendTyped
    <3>3. Sound(processScanCommand(error), s)
      <4> HIDE DEF error, done
      <4> QED
        BY <2>5, <3>2, ScanSound DEF SameButQueue
    <3>4. handleAuthenticationFrame_STA(st, s, f) = processScanCommand(error)
      BY <1>1, <1>3, <2>6 DEF handleAuthenticationFrame_STA, processAuthenticateConfirm
    <3> QED
      BY <3>3, <3>4
  <2>7. CASE f.seq = known.authSeqExpected /\ f.ok /\ ~f.last
    <3>1. Auth(s, a, f.seq + 1) \in Requests(s)
      BY <1>1, RequestTypes
    <3>2. next \in StationRecord(s) /\ SameButQueue(st, next)
      BY <1>1, <3>1, SendTyped
    <3>3. /\ step \in [AP -> APEntry]
          /\ \A b \in AP : /\ step[b].authTimer = st.apList[b].authTimer
                           /\ (step[b].isAuthenticated <=> st.apList[b].isAuthenticated)
                           /\ (step[b].known <=> st.apList[b].known)
      <4>1. next.apList = st.apList /\ st.apList \in [AP -> APEntry]
        BY <1>1, <3>2 DEF SameButQueue, StationRecord
      <4>2. st.apList[a].authSeqExpected = 2
        BY <2>7 DEF Answer
      <4> HIDE DEF next
      <4> QED
        BY <4>1, <4>2 DEF APEntry
    <3>4. goes \in StationRecord(s) /\ goes.apList = step /\ SameButList(next, goes)
      <4> HIDE DEF step, next
      <4> QED
        BY <3>2, <3>3, ListTyped
    <3>5. /\ goes.channel = st.channel /\ goes.scanTimer = st.scanTimer /\ goes.assocTimer = st.assocTimer
          /\ goes.assocAP = st.assocAP /\ goes.beaconTimer = st.beaconTimer /\ goes.awaits = st.awaits
          /\ (goes.failed <=> st.failed)
      BY <3>2, <3>4 DEF SameButQueue, SameButList
    <3>6. handleAuthenticationFrame_STA(st, s, f) = goes
      BY <1>1, <1>3, <2>7 DEF handleAuthenticationFrame_STA
    <3> HIDE DEF goes, step, next
    <3>0. NoneFired(goes)
      BY <3>3, <3>4, <3>5 DEF Sound, NoneFired
    <3>7. /\ ~goes.failed
          /\ (goes.scanTimer # "none") <=> (goes.awaits = "ScanConfirm")
          /\ (goes.assocTimer # "none") <=> (goes.awaits = "AssociateConfirm")
          /\ (goes.beaconTimer # "none") <=> (goes.awaits = "nothing")
          /\ (goes.assocAP # NoAP) <=> (goes.awaits = "nothing")
      BY <1>1, <2>1, <3>5
    <3>8. /\ (\E b \in AP : goes.apList[b].authTimer # "none") <=> (goes.awaits = "AuthenticateConfirm")
          /\ \A b, c \in AP : goes.apList[b].authTimer # "none" /\ goes.apList[c].authTimer # "none" => b = c
          /\ \A b \in AP : goes.apList[b].authTimer # "none"
                              => goes.apList[b].known /\ goes.channel = ChannelOf[b]
          /\ \A b \in AP : goes.apList[b].isAuthenticated => goes.awaits \in {"AssociateConfirm", "nothing"}
          /\ goes.awaits = "AssociateConfirm"
                => \E b \in AP : goes.apList[b].known /\ goes.channel = ChannelOf[b]
      BY <3>3, <3>4, <3>5 DEF Sound
    <3>9. Sound(goes, s)
      BY <3>0, <3>4, <3>7, <3>8 DEF Sound
    <3> QED
      BY <3>6, <3>9
  <2>8. CASE f.seq = known.authSeqExpected /\ ~(f.ok /\ ~f.last)
    <3>1. /\ passed \in [AP -> APEntry] /\ passed[a].known /\ (passed[a].isAuthenticated <=> f.ok)
          /\ \A b \in AP : passed[b].authTimer = "none"
      BY <1>1, <2>3 DEF APEntry
    <3>2. ended \in StationRecord(s) /\ ended.apList = passed /\ SameButList(done, ended)
      <4> HIDE DEF passed, done
      <4> QED
        BY <2>4, <3>1, ListTyped
    <3>3. /\ ~ended.failed /\ ended.scanTimer = "none" /\ ended.assocTimer = "none"
          /\ ended.assocAP = NoAP /\ ended.beaconTimer = "none"
      <4> HIDE DEF ended, done
      <4> QED
        BY <2>5, <3>2 DEF SameButList
    <3>4. handleAuthenticationFrame_STA(st, s, f) = processAuthenticateConfirm(ended, s, a, f.ok)
      BY <1>1, <1>3, <2>8 DEF handleAuthenticationFrame_STA
    <3> HIDE DEF ended, passed
    <3>5. CASE f.ok
      <4>1. Sound(startAssociation(ended, s, a), s)
        BY <3>1, <3>2, <3>3, <3>5, AssociationSound
      <4> QED
        BY <3>4, <3>5, <4>1 DEF processAuthenticateConfirm
    <3>6. CASE ~f.ok
      <4>1. Sound(processScanCommand(ended), s)
        BY <3>2, <3>3, ScanSound
      <4> QED
        BY <3>4, <3>6, <4>1 DEF processAuthenticateConfirm
    <3> QED
      BY <3>5, <3>6
  <2> QED
    BY <2>6, <2>7, <2>8
<1> QED
  BY <1>2, <1>3

LEMMA DeauthenticationSound ==
    ASSUME NEW s \in Station, NEW a \in AP, NEW st, Sound(st, s)
    PROVE  Sound(handleDeauthenticationFrame(st, a), s)
<1> DEFINE list == [st.apList EXCEPT ![a].isAuthenticated = FALSE]
           j    == [st EXCEPT !.apList = list]
<1>1. st \in StationRecord(s) /\ st.apList \in [AP -> APEntry]
  BY DEF Sound, StationRecord
<1>2. CASE ~st.apList[a].known \/ ~st.apList[a].isAuthenticated
  BY <1>2 DEF handleDeauthenticationFrame
<1>3. CASE st.apList[a].known /\ st.apList[a].isAuthenticated
  <2>1. st.apList[a].authTimer = "none"
    BY <1>3 DEF Sound
  <2>2. /\ list \in [AP -> APEntry]
        /\ \A b \in AP : /\ list[b].authTimer = st.apList[b].authTimer
                         /\ (list[b].isAuthenticated => st.apList[b].isAuthenticated)
                         /\ (st.apList[b].known <=> list[b].known)
    BY <1>1 DEF APEntry
  <2>3. j \in StationRecord(s) /\ j.apList = list /\ SameButList(st, j)
    <3> HIDE DEF list
    <3> QED
      BY <1>1, <2>2, ListTyped
  <2>4. handleDeauthenticationFrame(st, a) = j
    BY <1>3, <2>1 DEF handleDeauthenticationFrame
  <2> HIDE DEF j, list
  <2>0. NoneFired(j)
    BY <2>2, <2>3 DEF SameButList, Sound, NoneFired
  <2>5. /\ ~j.failed
        /\ (j.scanTimer # "none") <=> (j.awaits = "ScanConfirm")
        /\ (j.assocTimer # "none") <=> (j.awaits = "AssociateConfirm")
        /\ (j.beaconTimer # "none") <=> (j.awaits = "nothing")
        /\ (j.assocAP # NoAP) <=> (j.awaits = "nothing")
    BY <2>3 DEF SameButList, Sound
  <2>6. /\ (\E b \in AP : j.apList[b].authTimer # "none") <=> (j.awaits = "AuthenticateConfirm")
        /\ \A b, c \in AP : j.apList[b].authTimer # "none" /\ j.apList[c].authTimer # "none" => b = c
        /\ \A b \in AP : j.apList[b].authTimer # "none" => j.apList[b].known /\ j.channel = ChannelOf[b]
        /\ \A b \in AP : j.apList[b].isAuthenticated => j.awaits \in {"AssociateConfirm", "nothing"}
        /\ j.awaits = "AssociateConfirm" => \E b \in AP : j.apList[b].known /\ j.channel = ChannelOf[b]
    BY <2>2, <2>3 DEF SameButList, Sound
  <2>7. Sound(j, s)
    BY <2>0, <2>3, <2>5, <2>6 DEF Sound
  <2> QED
    BY <2>4, <2>7
<1> QED
  BY <1>2, <1>3

(* The channel says whose answer it is: the access point asked is the one  *)
(* the station is tuned to, so it is in the list.                          *)
LEMMA AssociationResponseSound ==
    ASSUME OneAPPerChannel, NEW s \in Station, NEW a \in AP, NEW st, Sound(st, s),
           NEW f \in Answer(a), st.channel = ChannelOf[a]
    PROVE  Sound(handleAssociationResponseFrame(st, f), s)
<1> DEFINE free    == [[st EXCEPT !.assocTimer = "none"] EXCEPT !.assocAP = NoAP]
           joined  == [[[st EXCEPT !.assocTimer = "none"] EXCEPT !.assocAP = a] EXCEPT !.beaconTimer = "running"]
           settled == [joined EXCEPT !.awaits = "nothing"]
           parted  == [free EXCEPT !.beaconTimer = "none"]
<1>1. st \in StationRecord(s) /\ ~st.failed /\ f.ap = a /\ f.ok \in BOOLEAN /\ a # NoAP
  BY ChannelAssumption DEF Sound, Answer
<1>2. CASE st.assocTimer = "none"
  BY <1>2 DEF handleAssociationResponseFrame
<1>3. CASE st.assocTimer # "none"
  <2>1. /\ st.awaits = "AssociateConfirm" /\ st.scanTimer = "none" /\ st.assocAP = NoAP
        /\ st.beaconTimer = "none" /\ \A b \in AP : st.apList[b].authTimer = "none"
    BY <1>3 DEF Sound
  <2>2. st.apList[a].known
    <3>1. PICK b \in AP : st.apList[b].known /\ st.channel = ChannelOf[b]
      BY <2>1 DEF Sound
    <3> QED
      BY <3>1 DEF OneAPPerChannel
  <2>3. check(st, st.apList[f.ap].known) = st
    BY <1>1, <2>2, CheckPassed
  <2>4. CASE f.ok
    <3>1. joined \in StationRecord(s)
      <4>1. [st EXCEPT !.assocTimer = "none"] \in StationRecord(s)
        BY <1>1 DEF StationRecord, TimerState
      <4>2. [[st EXCEPT !.assocTimer = "none"] EXCEPT !.assocAP = a] \in StationRecord(s)
        BY <4>1 DEF StationRecord
      <4> QED
        BY <4>2 DEF StationRecord, TimerState
    <3>2. settled \in StationRecord(s)
      BY <3>1 DEF StationRecord
    <3>3. /\ settled.scanTimer = "none" /\ settled.assocTimer = "none" /\ settled.assocAP = a
          /\ settled.beaconTimer = "running" /\ settled.awaits = "nothing" /\ ~settled.failed
          /\ settled.apList = st.apList
      BY <1>1, <2>1 DEF StationRecord
    <3>4. handleAssociationResponseFrame(st, f) = settled
      <4>1. handleAssociationResponseFrame(st, f)
              = processAssociateConfirm([[st EXCEPT !.assocTimer = "none", !.assocAP = NoAP]
                                           EXCEPT !.assocAP = a, !.beaconTimer = "running"], TRUE)
        BY <1>1, <1>3, <2>3, <2>4 DEF handleAssociationResponseFrame
      <4>2. [[st EXCEPT !.assocTimer = "none", !.assocAP = NoAP]
               EXCEPT !.assocAP = a, !.beaconTimer = "running"] = joined
        BY <1>1 DEF StationRecord
      <4> QED
        BY <4>1, <4>2 DEF processAssociateConfirm
    <3> HIDE DEF settled
    <3>5. Sound(settled, s)
      BY <1>1, <2>1, <3>2, <3>3 DEF Sound, NoneFired
    <3> QED
      BY <3>4, <3>5
  <2>5. CASE ~f.ok
    <3>1. parted \in StationRecord(s)
      <4>1. [st EXCEPT !.assocTimer = "none"] \in StationRecord(s)
        BY <1>1 DEF StationRecord, TimerState
      <4>2. free \in StationRecord(s)
        BY <4>1 DEF StationRecord
      <4> QED
        BY <4>2 DEF StationRecord, TimerState
    <3>2. /\ ~parted.failed /\ parted.scanTimer = "none" /\ parted.assocAP = NoAP
          /\ parted.beaconTimer = "none"
      BY <1>1, <2>1 DEF StationRecord
    <3>3. handleAssociationResponseFrame(st, f) = processScanCommand(parted)
      BY <1>1, <1>3, <2>3, <2>5 DEF handleAssociationResponseFrame, processAssociateConfirm
    <3> HIDE DEF parted
    <3>4. Sound(processScanCommand(parted), s)
      BY <3>1, <3>2, ScanSound
    <3> QED
      BY <3>3, <3>4
  <2> QED
    BY <1>1, <2>4, <2>5
<1> QED
  BY <1>2, <1>3

LEMMA FrameSound ==
    ASSUME OneAPPerChannel, NEW s \in Station, NEW a \in AP, NEW st, Sound(st, s),
           NEW f \in Answer(a), st.channel = ChannelOf[a]
    PROVE  Sound(processFrame_STA(st, s, f), s)
<1> DEFINE heard == hears(st)
<1>1. Sound(heard, s) /\ heard.channel = ChannelOf[a]
  BY HearsSound
<1>2. f.ap = a /\ f.type \in {"ProbeResp", "Auth", "AssocResp", "Deauth"}
  BY DEF Answer
<1> HIDE DEF heard
<1>3. /\ f.type = "Auth" => Sound(handleAuthenticationFrame_STA(heard, s, f), s)
      /\ Sound(handleDeauthenticationFrame(heard, a), s)
      /\ Sound(handleAssociationResponseFrame(heard, f), s)
      /\ Sound(storeAPInfo(heard, a), s)
  BY <1>1, AuthenticationFrameSound, DeauthenticationSound, AssociationResponseSound, StoreSound
<1> QED
  BY <1>2, <1>3 DEF processFrame_STA, heard

-----------------------------------------------------------------------------
(* The access points.                                                      *)

LEMMA AnswerTyped ==
    ASSUME NEW a, NEW r \in APRecord(a), NEW f \in Answer(a)
    PROVE  answer(r, f) \in APRecord(a)
<1>1. Append(r.queue, f) \in Seq(Answer(a))
  BY DEF APRecord
<1> QED
  BY <1>1 DEF answer, APRecord

LEMMA EntryTyped ==
    ASSUME NEW a, NEW s \in Station, NEW r \in APRecord(a),
           NEW e \in StationEntry
    PROVE  [r EXCEPT !.staList[s] = e] \in APRecord(a)
<1>1. [r.staList EXCEPT ![s] = e] \in [Station -> StationEntry]
  BY DEF APRecord
<1> QED
  BY <1>1 DEF APRecord

(* The answer to an authentication frame.                                  *)
LEMMA AuthAnswer ==
    ASSUME NEW s \in Station, NEW a \in AP, NEW e \in StationEntry, NEW n \in Nat
    PROVE  LET resp == IF n # e.authSeqExpected THEN AuthError(s, a)
                       ELSE [Auth(s, a, n + 1) EXCEPT !.last = (n + 1 = numAuthSteps)]
           IN  resp \in Answer(a) /\ resp.sta = s /\ resp.type = "Auth"
<1> DEFINE last  == n + 1 = numAuthSteps
           reply == [Auth(s, a, n + 1) EXCEPT !.last = last]
<1>1. AuthError(s, a) \in Answer(a) /\ AuthError(s, a).sta = s /\ AuthError(s, a).type = "Auth"
  BY DEF AuthError, frame, Answer
<1>2. /\ Auth(s, a, n + 1) \in [type : {"ProbeResp", "Auth", "AssocResp", "Deauth"}, sta : Station,
                                ap : {a}, seq : Nat, ok : BOOLEAN, last : BOOLEAN]
      /\ Auth(s, a, n + 1).type = "Auth" /\ Auth(s, a, n + 1).sta = s
      /\ Auth(s, a, n + 1).seq = n + 1
  BY DEF Auth, frame
<1>3. last \in BOOLEAN
  OBVIOUS
<1>4. n = e.authSeqExpected => last \/ n + 1 = 2
  BY AuthStepsAssumption DEF StationEntry
<1> HIDE DEF last
<1>5. n = e.authSeqExpected => reply \in Answer(a) /\ reply.sta = s /\ reply.type = "Auth"
  BY <1>2, <1>3, <1>4 DEF Answer
<1> QED
  BY <1>1, <1>5 DEF last

(* An access point that is asked stays an access point.                    *)
LEMMA APFrameTyped ==
    ASSUME NEW s \in Station, NEW a \in AP, NEW r \in APRecord(a), NEW f \in Requests(s),
           f.ap \in {a, NoAP}
    PROVE  processFrame(r, f, a) \in APRecord(a)
<1>1. f.sta = s /\ f.seq \in Nat /\ f.type \in {"ProbeReq", "Auth", "AssocReq"}
  BY DEF Requests
<1>2. r.staList[s] \in StationEntry
  BY DEF APRecord
<1>3. CASE f.type = "ProbeReq"
  <2>1. Plain("ProbeResp", s, a) \in Answer(a)
    BY DEF Plain, frame, Answer
  <2> QED
    BY <1>1, <1>3, <2>1, AnswerTyped DEF processFrame, handleProbeRequestFrame
<1>4. CASE f.type = "AssocReq"
  <2>1. f.ap = a
    BY <1>4, ChannelAssumption DEF Requests
  <2>2. Plain("Deauth", s, a) \in Answer(a) /\ Plain("AssocResp", s, a) \in Answer(a)
    BY DEF Plain, frame, Answer
  <2>3. [r.staList[s] EXCEPT !.status = "ASSOCIATED"] \in StationEntry
    BY <1>2 DEF Status, StationEntry
  <2>4. [r EXCEPT !.staList[s].status = "ASSOCIATED"]
           = [r EXCEPT !.staList[s] = [r.staList[s] EXCEPT !.status = "ASSOCIATED"]]
    BY DEF APRecord
  <2>5. [r EXCEPT !.staList[s].status = "ASSOCIATED"] \in APRecord(a)
    BY <2>3, <2>4, EntryTyped
  <2> QED
    BY <1>1, <1>4, <2>1, <2>2, <2>5, AnswerTyped DEF processFrame, handleAssociationRequestFrame
<1>5. CASE f.type = "Auth"
  <2> DEFINE entry == senderSTA(r.staList[s], f.seq)
             last  == f.seq + 1 = numAuthSteps
             next  == IF f.seq # entry.authSeqExpected THEN [entry EXCEPT !.authSeqExpected = 1]
                      ELSE IF last THEN [entry EXCEPT !.status = "AUTHENTICATED"]
                      ELSE [entry EXCEPT !.authSeqExpected = @ + 2]
             resp  == IF f.seq # entry.authSeqExpected THEN AuthError(s, a)
                      ELSE [Auth(s, a, f.seq + 1) EXCEPT !.last = last]
  <2>1. f.ap = a
    BY <1>5, ChannelAssumption DEF Requests
  <2>2. entry \in StationEntry
    BY <1>2 DEF senderSTA, Status, StationEntry
  <2>3. next \in StationEntry
    <3> HIDE DEF entry
    <3> QED
      BY <2>2, AuthStepsAssumption DEF Status, StationEntry
  <2>4. resp \in Answer(a)
    <3> HIDE DEF entry
    <3> QED
      BY <1>1, <2>2, AuthAnswer
  <2>5. handleAuthenticationFrame(r, f) = answer([r EXCEPT !.staList[s] = next], resp)
    BY <1>1, <2>1 DEF handleAuthenticationFrame
  <2>6. [r EXCEPT !.staList[s] = next] \in APRecord(a)
    <3> HIDE DEF next
    <3> QED
      BY <2>3, EntryTyped
  <2>7. answer([r EXCEPT !.staList[s] = next], resp) \in APRecord(a)
    <3> HIDE DEF next, resp
    <3> QED
      BY <2>4, <2>6, AnswerTyped
  <2> QED
    BY <1>5, <2>5, <2>7 DEF processFrame
<1> QED
  BY <1>1, <1>3, <1>4, <1>5

LEMMA APNodeTyped ==
    ASSUME NEW a
    PROVE  /\ initialAP \in APRecord(a)
           /\ \A r \in APRecord(a) : stopAP(r) \in APRecord(a) /\ startAP(r) \in APRecord(a)
<1>1. initialAP \in APRecord(a)
  <2>1. NoEntry \in StationEntry
    BY DEF NoEntry, Status, StationEntry
  <2> QED
    BY <2>1 DEF initialAP, APRecord
<1>2. \A r \in APRecord(a) : stopAP(r) \in APRecord(a)
  BY <1>1 DEF stopAP, APRecord
<1>3. \A r \in APRecord(a) : startAP(r) \in APRecord(a)
  BY DEF startAP, APRecord
<1> QED
  BY <1>1, <1>2, <1>3

(* A queue whose first frame has been fetched.                             *)
LEMMA Fetched ==
    /\ \A a : \A r \in APRecord(a) : r.queue # <<>> =>
          /\ Head(r.queue) \in Answer(a)
          /\ [r EXCEPT !.queue = Tail(@)] \in APRecord(a)
    /\ \A s : \A st : Sound(st, s) /\ st.queue # <<>> =>
          /\ Head(st.queue) \in Requests(s)
          /\ Sound([st EXCEPT !.queue = Tail(@)], s)
<1>1. ASSUME NEW a, NEW r \in APRecord(a), r.queue # <<>>
      PROVE  Head(r.queue) \in Answer(a) /\ [r EXCEPT !.queue = Tail(@)] \in APRecord(a)
  <2>1. r.queue \in Seq(Answer(a))
    BY DEF APRecord
  <2>2. Head(r.queue) \in Answer(a) /\ Tail(r.queue) \in Seq(Answer(a))
    BY <1>1, <2>1
  <2> QED
    BY <2>2 DEF APRecord
<1>2. ASSUME NEW s, NEW st, Sound(st, s), st.queue # <<>>
      PROVE  Head(st.queue) \in Requests(s) /\ Sound([st EXCEPT !.queue = Tail(@)], s)
  <2> DEFINE j == [st EXCEPT !.queue = Tail(@)]
  <2>1. st \in StationRecord(s) /\ st.queue \in Seq(Requests(s))
    BY <1>2 DEF Sound, StationRecord
  <2>2. Head(st.queue) \in Requests(s) /\ Tail(st.queue) \in Seq(Requests(s))
    BY <1>2, <2>1
  <2>3. j \in StationRecord(s)
    BY <2>1, <2>2 DEF StationRecord
  <2>4. Alike(st, j)
    BY <2>1 DEF Alike, StationRecord
  <2>5. Sound(j, s)
    BY <1>2, <2>3, <2>4, AlikeSound
  <2> QED
    BY <2>2, <2>5
<1> QED
  BY <1>1, <1>2

-----------------------------------------------------------------------------
(* The invariant is inductive.                                             *)

LEMMA IInvInit == Init => IInv
<1> SUFFICES ASSUME Init PROVE IInv
  OBVIOUS
<1>1. Channels[1] \in Tunable /\ 0 \in 0..Len(Channels)
  BY ChannelAssumption DEF Tunable
<1>2. UnknownAP \in APEntry
  BY DEF UnknownAP, APEntry, TimerState
<1>3. ASSUME NEW s \in Station PROVE Sound(initialSTA, s)
  <2>1. initialSTA \in StationRecord(s)
    BY <1>1, <1>2 DEF initialSTA, StationRecord, TimerState
  <2>2. /\ initialSTA.scanTimer = "none" /\ initialSTA.assocTimer = "none"
        /\ initialSTA.beaconTimer = "none" /\ initialSTA.assocAP = NoAP
        /\ initialSTA.awaits = "startUp" /\ ~initialSTA.failed
        /\ initialSTA.apList = [a \in AP |-> UnknownAP]
    BY DEF initialSTA
  <2> QED
    BY <2>1, <2>2 DEF Sound, UnknownAP, NoneFired
<1> QED
  BY <1>3, APNodeTyped DEF Init, IInv

(* A station that reached a sound record.                                  *)
LEMMA StationStep ==
    ASSUME IInv, NEW s \in Station, NEW st, Sound(st, s), sta' = [sta EXCEPT ![s] = st], ap' = ap
    PROVE  IInv'
BY DEF IInv

LEMMA TimerStep ==
    ASSUME IInv, NEW s \in Station, Timer(s)
    PROVE  IInv'
<1>1. Sound(sta[s], s)
  BY DEF IInv
<1>2. CASE StartUp(s)
  <2>1. Sound(processScanCommand(sta[s]), s)
    BY <1>1, <1>2, TimeoutSound DEF StartUp
  <2> QED
    BY <1>2, <2>1, StationStep DEF StartUp, Expires
<1>3. CASE SendProbe(s)
  <2>1. Sound(sendProbe(sta[s], s), s)
    BY <1>1, <1>3, SendProbeSound DEF SendProbe
  <2> QED
    BY <1>3, <2>1, StationStep DEF SendProbe, Expires
<1>4. CASE MinChannelTime(s)
  <2>1. PICK best \in candidates(sta[s]), noise \in BOOLEAN :
            Expires(s, underWay(s), minChannelTimeOver(sta[s], s, noise, best))
    BY <1>4 DEF MinChannelTime
  <2>2. Sound(minChannelTimeOver(sta[s], s, noise, best), s)
    BY <1>1, <1>4, MinChannelTimeSound DEF MinChannelTime
  <2> QED
    BY <2>1, <2>2, StationStep DEF Expires
<1>5. CASE MaxChannelTime(s)
  <2>1. PICK best \in candidates(sta[s]) : Expires(s, underWay(s), scanNextChannel(sta[s], s, best))
    BY <1>5 DEF MaxChannelTime
  <2>2. Sound(scanNextChannel(sta[s], s, best), s)
    BY <1>1, <1>5, NextChannelSound DEF MaxChannelTime
  <2> QED
    BY <2>1, <2>2, StationStep DEF Expires
<1>6. CASE AuthTimeout(s)
  <2>1. PICK a \in AP : /\ sta[s].apList[a].authTimer = "running"
                        /\ Expires(s, underWay(s), authTimeout(sta[s], s, a))
    BY <1>6 DEF AuthTimeout
  <2>2. Sound(authTimeout(sta[s], s, a), s)
    BY <1>1, <2>1, TimeoutSound
  <2> QED
    BY <2>1, <2>2, StationStep DEF Expires
<1>7. CASE AssocTimeout(s)
  <2>1. Sound(assocTimeout(sta[s]), s)
    BY <1>1, <1>7, TimeoutSound DEF AssocTimeout
  <2> QED
    BY <1>7, <2>1, StationStep DEF AssocTimeout, Expires
<1>8. CASE BeaconTimeout(s)
  <2>1. Sound(beaconTimeout(sta[s]), s)
    BY <1>1, <1>8, TimeoutSound DEF BeaconTimeout
  <2> QED
    BY <1>8, <2>1, StationStep DEF BeaconTimeout, Expires
<1> QED
  BY <1>2, <1>3, <1>4, <1>5, <1>6, <1>7, <1>8 DEF Timer

LEMMA IInvNext ==
    ASSUME OneAPPerChannel, IInv, [Next]_vars
    PROVE  IInv'
<1>1. ASSUME NEW s \in Station, ToAP(s) PROVE IInv'
  <2> DEFINE f == Head(sta[s].queue)
  <2>1. /\ f \in Requests(s)
        /\ Sound([sta[s] EXCEPT !.queue = Tail(@)], s)
    BY <1>1, Fetched DEF IInv, ToAP
  <2>2. sta' = [sta EXCEPT ![s] = [sta[s] EXCEPT !.queue = Tail(@)]]
    BY <1>1 DEF ToAP
  <2>3. PICK lost \in BOOLEAN :
            ap' = [a \in AP |-> IF a \in receivers(s, f) /\ ~lost
                                THEN processFrame(ap[a], f, a) ELSE ap[a]]
    BY <1>1 DEF ToAP
  <2> HIDE DEF f
  <2>4. \A a \in AP : ap'[a] \in APRecord(a)
    BY <2>1, <2>3, APFrameTyped DEF receivers, IInv
  <2> QED
    BY <2>1, <2>2, <2>3, <2>4 DEF IInv
<1>2. ASSUME NEW s \in Station, Timer(s) PROVE IInv'
  BY <1>2, TimerStep
<1>3. ASSUME NEW s \in Station, Move(s) PROVE IInv'
  BY <1>3 DEF Move, IInv
<1>4. ASSUME NEW a \in AP, ToSTA(a) PROVE IInv'
  <2> DEFINE f == Head(ap[a].queue)
  <2>1. f \in Answer(a) /\ [ap[a] EXCEPT !.queue = Tail(@)] \in APRecord(a)
    BY <1>4, Fetched DEF IInv, ToSTA
  <2>2. ap' = [ap EXCEPT ![a] = [ap[a] EXCEPT !.queue = Tail(@)]]
    BY <1>4 DEF ToSTA
  <2>3. PICK lost \in BOOLEAN :
            sta' = IF reachable(f.sta, a) /\ ~lost
                   THEN [sta EXCEPT ![f.sta] = processFrame_STA(@, f.sta, f)] ELSE sta
    BY <1>4 DEF ToSTA
  <2> HIDE DEF f
  <2>4. f.sta \in Station
    BY <2>1 DEF Answer
  <2>5. reachable(f.sta, a) => Sound(processFrame_STA(sta[f.sta], f.sta, f), f.sta)
    BY <2>1, <2>4, FrameSound DEF reachable, IInv
  <2>6. DOMAIN sta' = Station /\ \A s \in Station : Sound(sta'[s], s)
    BY <2>3, <2>4, <2>5 DEF IInv
  <2>7. DOMAIN ap' = AP /\ \A b \in AP : ap'[b] \in APRecord(b)
    BY <2>1, <2>2 DEF IInv
  <2> QED
    BY <2>6, <2>7 DEF IInv
<1>5. ASSUME NEW a \in AP, Beacon(a) PROVE IInv'
  <2>1. \A s \in Station : Sound(handleBeaconFrame(sta[s], a), s)
    BY BeaconSound DEF IInv
  <2> QED
    BY <1>5, <2>1 DEF Beacon, IInv
<1>6. ASSUME NEW a \in AP, Stop(a) \/ Start(a) PROVE IInv'
  <2>1. stopAP(ap[a]) \in APRecord(a) /\ startAP(ap[a]) \in APRecord(a)
    BY APNodeTyped DEF IInv
  <2>2. sta' = sta
    BY <1>6 DEF Stop, Start
  <2>3. ap' = [ap EXCEPT ![a] = stopAP(ap[a])] \/ ap' = [ap EXCEPT ![a] = startAP(ap[a])]
    BY <1>6 DEF Stop, Start
  <2> QED
    BY <2>1, <2>2, <2>3 DEF IInv
<1>7. CASE UNCHANGED vars
  BY <1>7 DEF vars, IInv
<1> QED
  BY <1>1, <1>2, <1>3, <1>4, <1>5, <1>6, <1>7 DEF Next

LEMMA Invariance == ASSUME OneAPPerChannel PROVE Spec => []IInv
<1>1. IInv /\ [Next]_vars => IInv'
  BY IInvNext
<1> QED
  BY IInvInit, <1>1, PTL DEF Spec

-----------------------------------------------------------------------------
(* What is under way.                                                      *)

(* The answers to a station in the queue of an access point.               *)
Answers(a, s) == {i \in 1..Len(ap[a].queue) : ap[a].queue[i].sta = s}

(* While no timer has expired with frames of the station under way, there  *)
(* is one frame under way at most: a request or its answer.  The answer to *)
(* an association request finds the access point as it left it, and a      *)
(* station that is associated has nothing under way that could change it.  *)
Clean(s) ==
    /\ Len(sta[s].queue) \in {0, 1}
    /\ sta[s].queue # <<>> => \A a \in AP : Answers(a, s) = {}
    /\ \A a, b \in AP : \A i \in Answers(a, s), j \in Answers(b, s) : a = b /\ i = j
    /\ \A a \in AP : \A i \in Answers(a, s) :
          ap[a].queue[i].type = "AssocResp" => ap[a].staList[s].status = "ASSOCIATED"
    /\ sta[s].assocAP # NoAP => sta[s].queue = <<>>
    /\ \A a \in AP : sta[s].assocAP = a => ap[a].staList[s].status \in {"ASSOCIATED", "none"}

CleanInv == \A s \in Station : ~hasty[s] => Clean(s)

(* At most one frame is sent, and the station is not associated.           *)
Asks(j) == Len(j.queue) \in {0, 1} /\ j.assocAP = NoAP

LEMMA SentQueue ==
    ASSUME NEW s, NEW st \in StationRecord(s), st.queue = <<>>, NEW f
    PROVE  /\ Len(sendManagementFrame(st, f).queue) = 1
           /\ sendManagementFrame(st, f).assocAP = st.assocAP
BY DEF sendManagementFrame, StationRecord

LEMMA ScanQueue ==
    ASSUME NEW s, NEW st \in StationRecord(s)
    PROVE  processScanCommand(st).queue = st.queue /\ processScanCommand(st).assocAP = NoAP
<1> DEFINE asked == check([st EXCEPT !.awaits = "ScanConfirm"], st.scanTimer = "none")
           left  == IF st.assocAP # NoAP THEN disassociate(asked) ELSE [asked EXCEPT !.assocTimer = "none"]
           clear == [left EXCEPT !.apList = [a \in AP |-> UnknownAP], !.index = 0]
<1>1. asked.queue = st.queue /\ asked.assocAP = st.assocAP /\ DOMAIN asked = DOMAIN st
  BY DEF check
<1>2. "assocAP" \in DOMAIN st
  BY DEF StationRecord
<1> HIDE DEF asked
<1>3. left.queue = st.queue /\ left.assocAP = NoAP
  BY <1>1, <1>2 DEF disassociate, check
<1> HIDE DEF left
<1>4. clear.queue = st.queue /\ clear.assocAP = NoAP
  BY <1>3
<1> HIDE DEF clear
<1>5. tune(clear).queue = clear.queue /\ tune(clear).assocAP = clear.assocAP
  BY DEF tune
<1> QED
  BY <1>4, <1>5 DEF processScanCommand, clear, left, asked

LEMMA StartQueue ==
    ASSUME NEW s, NEW st \in StationRecord(s), st.queue = <<>>, NEW a
    PROVE  /\ Len(startAuthentication(st, s, a).queue) = 1
           /\ startAuthentication(st, s, a).assocAP = st.assocAP
           /\ Len(startAssociation(st, s, a).queue) = 1
           /\ startAssociation(st, s, a).assocAP = st.assocAP
<1> DEFINE tuned == [st EXCEPT !.channel = ChannelOf[a]]
<1>1. "queue" \in DOMAIN tuned /\ tuned.queue = <<>> /\ tuned.assocAP = st.assocAP
  BY DEF StationRecord
<1> HIDE DEF tuned
<1>2. ASSUME NEW f
      PROVE  /\ Len(sendManagementFrame(tuned, f).queue) = 1
             /\ sendManagementFrame(tuned, f).assocAP = st.assocAP
  BY <1>1 DEF sendManagementFrame
<1>3. /\ Len(sendManagementFrame(tuned, Auth(s, a, 1)).queue) = 1
      /\ sendManagementFrame(tuned, Auth(s, a, 1)).assocAP = st.assocAP
      /\ Len(sendManagementFrame(tuned, Plain("AssocReq", s, a)).queue) = 1
      /\ sendManagementFrame(tuned, Plain("AssocReq", s, a)).assocAP = st.assocAP
  BY <1>2
<1> QED
  BY <1>3 DEF startAuthentication, startAssociation, check, tuned

(* A timer that expires with nothing under way sends one frame at most.    *)
LEMMA TimerAsks ==
    ASSUME NEW s \in Station, NEW st, Sound(st, s), st.queue = <<>>
    PROVE  /\ st.awaits = "startUp" => Asks(processScanCommand(st))
           /\ st.scanTimer # "none" => Asks(sendProbe(st, s))
           /\ \A best \in candidates(st), noise \in BOOLEAN : st.scanTimer # "none" =>
                 Asks(minChannelTimeOver(st, s, noise, best)) /\ Asks(scanNextChannel(st, s, best))
           /\ \A a \in AP : Asks(authTimeout(st, s, a))
           /\ Asks(assocTimeout(st)) /\ Asks(beaconTimeout(st))
<1>1. st \in StationRecord(s) /\ (st.scanTimer # "none" => st.assocAP = NoAP) /\ Len(st.queue) = 0
  BY DEF Sound
<1>2. ASSUME NEW j \in StationRecord(s), j.queue = <<>>
      PROVE  Asks(processScanCommand(j))
  BY <1>2, ScanQueue DEF Asks
<1>3. st.scanTimer # "none" => Asks(sendProbe(st, s))
  <2> DEFINE timed == [st EXCEPT !.scanTimer = "minChannelTime"]
  <2>1. timed \in StationRecord(s) /\ timed.queue = <<>> /\ timed.assocAP = st.assocAP
    BY <1>1 DEF StationRecord
  <2> HIDE DEF timed
  <2>2. /\ Len(sendManagementFrame(timed, Plain("ProbeReq", s, NoAP)).queue) = 1
        /\ sendManagementFrame(timed, Plain("ProbeReq", s, NoAP)).assocAP = st.assocAP
    BY <2>1, SentQueue
  <2> QED
    BY <1>1, <2>2 DEF sendProbe, Asks, timed
<1>4. ASSUME NEW best \in candidates(st), st.scanTimer # "none"
      PROVE  Asks(scanNextChannel(st, s, best))
  <2> DEFINE over == [st EXCEPT !.scanTimer = "none"]
  <2>1. over \in StationRecord(s) /\ over.queue = <<>> /\ over.assocAP = NoAP
    BY <1>1, <1>4 DEF StationRecord
  <2> HIDE DEF over
  <2>2. tune(st).queue = st.queue /\ tune(st).assocAP = st.assocAP
    BY DEF tune
  <2>3. Asks(tune(st))
    BY <1>1, <1>4, <2>2 DEF Asks
  <2>4. Asks(processScanConfirm(over, s, best))
    BY <1>2, <2>1, StartQueue DEF processScanConfirm, Asks
  <2> QED
    BY <2>3, <2>4 DEF scanNextChannel, over
<1>5. ASSUME NEW best \in candidates(st), NEW noise \in BOOLEAN, st.scanTimer # "none"
      PROVE  Asks(minChannelTimeOver(st, s, noise, best))
  <2> DEFINE stays == [st EXCEPT !.scanTimer = "maxChannelTime", !.busy = TRUE]
  <2>1. stays.queue = st.queue /\ stays.assocAP = st.assocAP
    OBVIOUS
  <2> HIDE DEF stays
  <2>2. Asks(stays)
    BY <1>1, <1>5, <2>1 DEF Asks
  <2> QED
    BY <1>4, <1>5, <2>2 DEF minChannelTimeOver, stays
<1>6. ASSUME NEW a \in AP
      PROVE  Asks(authTimeout(st, s, a))
  <2> DEFINE list  == [st.apList EXCEPT ![a].authTimer = "fired"]
             fired == [st EXCEPT !.apList = list]
  <2>1. list \in [AP -> APEntry]
    BY SMTT(30), <1>1 DEF StationRecord, APEntry, TimerState
  <2>2. fired \in StationRecord(s) /\ fired.queue = <<>>
    <3> HIDE DEF list
    <3> QED
      BY <1>1, <2>1, ListTyped DEF SameButList
  <2>3. authTimeout(st, s, a) = processScanCommand(fired)
    BY DEF authTimeout, processAuthenticateConfirm
  <2> HIDE DEF fired
  <2> QED
    BY <1>2, <2>2, <2>3
<1>7. Asks(assocTimeout(st)) /\ Asks(beaconTimeout(st))
  <2>1. /\ [st EXCEPT !.assocTimer = "fired"] \in StationRecord(s)
        /\ [st EXCEPT !.assocTimer = "fired"].queue = <<>>
    BY <1>1 DEF StationRecord, TimerState
  <2>2. /\ [st EXCEPT !.beaconTimer = "fired"] \in StationRecord(s)
        /\ [st EXCEPT !.beaconTimer = "fired"].queue = <<>>
    BY <1>1 DEF StationRecord, TimerState
  <2> QED
    BY <1>2, <2>1, <2>2 DEF assocTimeout, beaconTimeout, processAssociateConfirm
<1> QED
  BY <1>1, <1>2, <1>3, <1>4, <1>5, <1>6, <1>7

(* A frame that is received is answered with one frame at most, and only an *)
(* association answer makes the station an associated one.                 *)
LEMMA FrameAsks ==
    ASSUME NEW s \in Station, NEW a \in AP, NEW st, Sound(st, s), st.queue = <<>>, NEW f \in Answer(a)
    PROVE  LET j == processFrame_STA(st, s, f) IN
           /\ Len(j.queue) \in {0, 1}
           /\ j.assocAP # NoAP => /\ j.queue = <<>>
                                  /\ j.assocAP # st.assocAP => f.type = "AssocResp" /\ j.assocAP = a
<1> DEFINE heard == hears(st)
           Fits(j) == /\ Len(j.queue) \in {0, 1}
                      /\ j.assocAP # NoAP => /\ j.queue = <<>>
                                             /\ j.assocAP # st.assocAP => f.type = "AssocResp" /\ j.assocAP = a
<1>1. st \in StationRecord(s) /\ f.ap = a /\ f.type \in {"ProbeResp", "Auth", "AssocResp", "Deauth"}
  BY DEF Sound, Answer
<1>2. /\ Sound(heard, s) /\ heard \in StationRecord(s)
      /\ heard.queue = <<>> /\ heard.assocAP = st.assocAP
  <2>1. Sound(heard, s)
    BY HearsSound
  <2>2. heard.queue = st.queue /\ heard.assocAP = st.assocAP
    BY DEF hears
  <2> QED
    BY <2>1, <2>2 DEF Sound
<1> HIDE DEF heard
<1>3. Fits(heard)
  BY <1>2
<1>4. ASSUME NEW j, j.queue = <<>>, j.assocAP = st.assocAP
      PROVE  Fits(j)
  BY <1>4
<1>5. ASSUME NEW j, Asks(j)
      PROVE  Fits(j)
  BY <1>5 DEF Asks
<1>6. Fits(storeAPInfo(heard, a))
  <2>1. storeAPInfo(heard, a).queue = heard.queue /\ storeAPInfo(heard, a).assocAP = heard.assocAP
    BY DEF storeAPInfo
  <2> QED
    BY <1>2, <1>4, <2>1
<1>7. Fits(handleDeauthenticationFrame(heard, a))
  <2>1. /\ handleDeauthenticationFrame(heard, a).queue = heard.queue
        /\ handleDeauthenticationFrame(heard, a).assocAP = heard.assocAP
    BY DEF handleDeauthenticationFrame
  <2> QED
    BY <1>2, <1>4, <2>1
<1>8. f.type = "AssocResp" => Fits(handleAssociationResponseFrame(heard, f))
  <2> DEFINE checked == check(heard, heard.apList[f.ap].known)
             ended == [checked EXCEPT !.assocTimer = "none", !.assocAP = NoAP]
             joined == [ended EXCEPT !.assocAP = a, !.beaconTimer = "running"]
             parted == [ended EXCEPT !.beaconTimer = "none"]
  <2>1. checked \in StationRecord(s) /\ checked.queue = <<>>
    BY <1>2 DEF check, StationRecord
  <2> HIDE DEF checked
  <2>2. ended \in StationRecord(s) /\ ended.queue = <<>>
    <3>1. [checked EXCEPT !.assocTimer = "none"] \in StationRecord(s)
      BY <2>1 DEF StationRecord, TimerState
    <3>2. [[checked EXCEPT !.assocTimer = "none"] EXCEPT !.assocAP = NoAP] \in StationRecord(s)
      BY <3>1 DEF StationRecord
    <3> QED
      BY <2>1, <3>2
  <2> HIDE DEF ended
  <2>3. [joined EXCEPT !.awaits = "nothing"].queue = <<>> /\ [joined EXCEPT !.awaits = "nothing"].assocAP = a
    BY <2>2 DEF StationRecord
  <2>4. parted \in StationRecord(s) /\ parted.queue = <<>>
    BY <2>2 DEF StationRecord, TimerState
  <2> HIDE DEF parted
  <2>5. Asks(processScanCommand(parted))
    BY <2>4, ScanQueue DEF Asks
  <2>6. handleAssociationResponseFrame(heard, f) = heard
        \/ handleAssociationResponseFrame(heard, f) = [joined EXCEPT !.awaits = "nothing"]
        \/ handleAssociationResponseFrame(heard, f) = processScanCommand(parted)
    BY <1>1 DEF handleAssociationResponseFrame, processAssociateConfirm, parted, ended, checked
  <2>7. f.type = "AssocResp" => Fits([joined EXCEPT !.awaits = "nothing"])
    <3> DEFINE settled == [joined EXCEPT !.awaits = "nothing"]
    <3>1. settled.queue = <<>> /\ settled.assocAP = a
      BY <2>3
    <3> HIDE DEF settled
    <3>2. f.type = "AssocResp" => Fits(settled)
      BY <3>1
    <3> HIDE DEF Fits
    <3> QED
      BY <3>2 DEF settled
  <2> HIDE DEF joined, Fits
  <2> QED
    BY <1>3, <1>5, <2>5, <2>6, <2>7
<1>9. Fits(handleAuthenticationFrame_STA(heard, s, f))
  <2> DEFINE known  == heard.apList[a]
             list   == [heard.apList EXCEPT ![a].authTimer = "none"]
             done   == [heard EXCEPT !.apList = list]
             passed == [list EXCEPT ![a].isAuthenticated = f.ok]
             ended  == [done EXCEPT !.apList = passed]
             error  == sendManagementFrame(done, AuthError(s, a))
             next   == sendManagementFrame(heard, Auth(s, a, f.seq + 1))
             goes   == [next EXCEPT !.apList[a].authSeqExpected = @ + 2]
  <2>1. handleAuthenticationFrame_STA(heard, s, f) = heard
        \/ /\ known.authTimer # "none"
           /\ \/ handleAuthenticationFrame_STA(heard, s, f) = processScanCommand(error)
              \/ handleAuthenticationFrame_STA(heard, s, f) = goes
              \/ handleAuthenticationFrame_STA(heard, s, f) = processScanCommand(ended)
              \/ handleAuthenticationFrame_STA(heard, s, f) = startAssociation(ended, s, a)
    BY <1>1 DEF handleAuthenticationFrame_STA, processAuthenticateConfirm
  <2>2. CASE known.authTimer # "none"
    <3>1. heard.assocAP = NoAP
      BY <1>2, <2>2 DEF Sound
    <3>2. list \in [AP -> APEntry] /\ passed \in [AP -> APEntry]
      <4>1. heard.apList \in [AP -> APEntry] /\ f.ok \in BOOLEAN
        BY <1>2 DEF StationRecord, Answer
      <4> QED
        BY <4>1 DEF APEntry, TimerState
    <3>3. done \in StationRecord(s) /\ done.queue = <<>> /\ done.assocAP = NoAP
      <4> HIDE DEF list
      <4> QED
        BY <1>2, <3>1, <3>2, ListTyped DEF SameButList
    <3>4. ended \in StationRecord(s) /\ ended.queue = <<>> /\ ended.assocAP = NoAP
      <4> HIDE DEF done, passed
      <4> QED
        BY <3>2, <3>3, ListTyped DEF SameButList
    <3>5. Asks(processScanCommand(error))
      <4> HIDE DEF done
      <4>1. error \in StationRecord(s) /\ Len(error.queue) = 1
        BY <3>3, RequestTypes, SendTyped, SentQueue
      <4> QED
        BY <4>1, ScanQueue DEF Asks
    <3>6. Asks(goes)
      <4>1. Len(next.queue) = 1 /\ next.assocAP = NoAP
        BY <1>2, <3>1, SentQueue
      <4> HIDE DEF next
      <4> QED
        BY <4>1 DEF Asks
    <3>7. Asks(processScanCommand(ended)) /\ Asks(startAssociation(ended, s, a))
      <4> HIDE DEF ended
      <4> QED
        BY <3>4, ScanQueue, StartQueue DEF Asks
    <3> HIDE DEF error, goes, ended, known
    <3> QED
      BY <1>3, <1>5, <2>1, <3>5, <3>6, <3>7
  <2> QED
    BY <1>3, <2>1, <2>2
<1> HIDE DEF Fits
<1>10. Fits(processFrame_STA(st, s, f))
  BY <1>1, <1>6, <1>7, <1>8, <1>9 DEF processFrame_STA, heard
<1> QED
  BY <1>10 DEF Fits

(* An access point answers a request with one frame, to the station that   *)
(* asked, and knows it as associated when it says so.                      *)
LEMMA APAnswers ==
    ASSUME NEW s \in Station, NEW a \in AP, NEW r \in APRecord(a), NEW f \in Requests(s),
           f.ap \in {a, NoAP}
    PROVE  LET j == processFrame(r, f, a) IN
           /\ \E g \in Answer(a) :
                 /\ j.queue = Append(r.queue, g) /\ g.sta = s
                 /\ g.type = "AssocResp" => j.staList[s].status = "ASSOCIATED"
           /\ \A t \in Station \ {s} : j.staList[t] = r.staList[t]
<1>1. f.sta = s /\ f.seq \in Nat /\ f.type \in {"ProbeReq", "Auth", "AssocReq"}
  BY DEF Requests
<1>2. /\ r.staList \in [Station -> StationEntry]
      /\ DOMAIN r = {"up", "staList", "queue"}
  BY DEF APRecord
<1>3. CASE f.type = "ProbeReq"
  <2> DEFINE g == Plain("ProbeResp", s, a)
  <2>1. g \in Answer(a) /\ g.sta = s /\ g.type # "AssocResp"
    BY DEF Plain, frame, Answer
  <2>2. processFrame(r, f, a) = answer(r, g)
    BY <1>1, <1>3 DEF processFrame, handleProbeRequestFrame
  <2> HIDE DEF g
  <2>3. answer(r, g).queue = Append(r.queue, g) /\ answer(r, g).staList = r.staList
    BY <1>2 DEF answer
  <2> QED
    BY <2>1, <2>2, <2>3
<1>4. CASE f.type = "AssocReq"
  <2> DEFINE g == Plain("Deauth", s, a)
             h == Plain("AssocResp", s, a)
             list == [r.staList EXCEPT ![s].status = "ASSOCIATED"]
             j == [r EXCEPT !.staList = list]
  <2>1. f.ap = a
    BY <1>4, ChannelAssumption DEF Requests
  <2>2. /\ g \in Answer(a) /\ g.sta = s /\ g.type # "AssocResp"
        /\ h \in Answer(a) /\ h.sta = s
    BY DEF Plain, frame, Answer
  <2>3. processFrame(r, f, a) = answer(r, g) \/ processFrame(r, f, a) = answer(j, h)
    BY <1>1, <1>4, <2>1 DEF processFrame, handleAssociationRequestFrame
  <2>4. list[s].status = "ASSOCIATED" /\ \A t \in Station \ {s} : list[t] = r.staList[t]
    BY <1>2
  <2> HIDE DEF g, h, list
  <2>5. /\ answer(r, g).queue = Append(r.queue, g) /\ answer(r, g).staList = r.staList
        /\ answer(j, h).queue = Append(r.queue, h) /\ answer(j, h).staList = list
    BY <1>2 DEF answer
  <2> QED
    BY <2>2, <2>3, <2>4, <2>5
<1>5. CASE f.type = "Auth"
  <2> DEFINE entry == senderSTA(r.staList[s], f.seq)
             last  == f.seq + 1 = numAuthSteps
             next  == IF f.seq # entry.authSeqExpected THEN [entry EXCEPT !.authSeqExpected = 1]
                      ELSE IF last THEN [entry EXCEPT !.status = "AUTHENTICATED"]
                      ELSE [entry EXCEPT !.authSeqExpected = @ + 2]
             resp  == IF f.seq # entry.authSeqExpected THEN AuthError(s, a)
                      ELSE [Auth(s, a, f.seq + 1) EXCEPT !.last = last]
             list  == [r.staList EXCEPT ![s] = next]
             j     == [r EXCEPT !.staList = list]
  <2>1. f.ap = a
    BY <1>5, ChannelAssumption DEF Requests
  <2>2. resp \in Answer(a) /\ resp.sta = s /\ resp.type # "AssocResp"
    <3>1. entry \in StationEntry
      BY <1>2 DEF senderSTA, Status, StationEntry
    <3> HIDE DEF entry
    <3> QED
      BY <1>1, <3>1, AuthAnswer
  <2>3. processFrame(r, f, a) = answer(j, resp)
    BY <1>1, <1>5, <2>1 DEF processFrame, handleAuthenticationFrame
  <2>4. \A t \in Station \ {s} : list[t] = r.staList[t]
    BY <1>2
  <2> HIDE DEF resp, list
  <2>5. answer(j, resp).queue = Append(r.queue, resp) /\ answer(j, resp).staList = list
    BY <1>2 DEF answer
  <2> QED
    BY <2>2, <2>3, <2>4, <2>5
<1> QED
  BY <1>1, <1>3, <1>4, <1>5

(* What is under way stays so when no frame is added for the station and   *)
(* its access points keep what they know of it or forget it.               *)
LEMMA CleanKept ==
    ASSUME NEW s \in Station, Clean(s), NEW d \in [AP -> Nat],
           sta'[s].queue = sta[s].queue, sta'[s].assocAP = sta[s].assocAP,
           \A a \in AP : \A i \in Answers(a, s)' :
               i + d[a] \in Answers(a, s) /\ ap'[a].queue[i] = ap[a].queue[i + d[a]],
           \A a \in AP : \/ ap'[a].staList[s] = ap[a].staList[s]
                         \/ ap'[a].staList[s].status = "none" /\ Answers(a, s)' = {}
    PROVE  Clean(s)'
<1>1. Len(sta'[s].queue) \in {0, 1}
  BY DEF Clean
<1>2. sta'[s].queue # <<>> => \A a \in AP : Answers(a, s)' = {}
  BY DEF Clean
<1>3. \A a, b \in AP : \A i \in Answers(a, s)', j \in Answers(b, s)' : a = b /\ i = j
  <2> SUFFICES ASSUME NEW a \in AP, NEW b \in AP, NEW i \in Answers(a, s)', NEW j \in Answers(b, s)'
               PROVE  a = b /\ i = j
    OBVIOUS
  <2>1. i + d[a] \in Answers(a, s) /\ j + d[b] \in Answers(b, s)
    OBVIOUS
  <2>2. a = b /\ i + d[a] = j + d[b]
    BY <2>1 DEF Clean
  <2>3. i \in Nat /\ j \in Nat /\ d[a] \in Nat
    BY DEF Answers
  <2> QED
    BY <2>2, <2>3
<1>4. \A a \in AP : \A i \in Answers(a, s)' :
          ap'[a].queue[i].type = "AssocResp" => ap'[a].staList[s].status = "ASSOCIATED"
  <2> SUFFICES ASSUME NEW a \in AP, NEW i \in Answers(a, s)', ap'[a].queue[i].type = "AssocResp"
               PROVE  ap'[a].staList[s].status = "ASSOCIATED"
    OBVIOUS
  <2>1. i + d[a] \in Answers(a, s) /\ ap[a].queue[i + d[a]].type = "AssocResp"
    OBVIOUS
  <2>2. ap[a].staList[s].status = "ASSOCIATED"
    BY <2>1 DEF Clean
  <2>3. ap'[a].staList[s] = ap[a].staList[s]
    OBVIOUS
  <2> QED
    BY <2>2, <2>3
<1>5. sta'[s].assocAP # NoAP => sta'[s].queue = <<>>
  BY DEF Clean
<1>6. \A a \in AP : sta'[s].assocAP = a => ap'[a].staList[s].status \in {"ASSOCIATED", "none"}
  BY DEF Clean
<1> QED
  BY <1>1, <1>2, <1>3, <1>4, <1>5, <1>6 DEF Clean

(* The same when no frame is taken either.                                 *)
LEMMA CleanUntouched ==
    ASSUME NEW s \in Station, Clean(s), 
           sta'[s].queue = sta[s].queue, sta'[s].assocAP = sta[s].assocAP,
           \A a \in AP : \/ /\ ap'[a].staList[s] = ap[a].staList[s]
                            /\ ap'[a].queue = ap[a].queue
                         \/ ap'[a].staList[s].status = "none" /\ Answers(a, s)' = {}
    PROVE  Clean(s)'
<1> DEFINE d == [a \in AP |-> 0]
<1>1. d \in [AP -> Nat]
  OBVIOUS
<1>2. \A a \in AP : \A i \in Answers(a, s)' :
          i + d[a] \in Answers(a, s) /\ ap'[a].queue[i] = ap[a].queue[i + d[a]]
  <2> SUFFICES ASSUME NEW a \in AP, NEW i \in Answers(a, s)'
               PROVE  i + d[a] \in Answers(a, s) /\ ap'[a].queue[i] = ap[a].queue[i + d[a]]
    OBVIOUS
  <2>1. ap'[a].queue = ap[a].queue
    OBVIOUS
  <2>2. i \in Answers(a, s) /\ i \in Nat
    BY <2>1 DEF Answers
  <2>3. i + d[a] = i
    BY <2>2
  <2> QED
    BY <2>1, <2>2, <2>3
<1> HIDE DEF d
<1> QED
  BY <1>1, <1>2, CleanKept

LEMMA CleanInit == Init => CleanInv
<1> SUFFICES ASSUME Init, NEW s \in Station PROVE Clean(s)
  BY DEF CleanInv
<1>1. sta[s].queue = <<>> /\ sta[s].assocAP = NoAP
  BY DEF Init, initialSTA
<1>2. \A a \in AP : Answers(a, s) = {}
  BY DEF Init, initialAP, Answers
<1>3. Len(sta[s].queue) = 0
  BY <1>1
<1>4. \A a \in AP : sta[s].assocAP # a
  BY <1>1, ChannelAssumption
<1> QED
  BY <1>1, <1>2, <1>3, <1>4 DEF Clean

(* A timer changes its own station.                                        *)
LEMMA TimerResult ==
    ASSUME IInv, NEW s \in Station, Timer(s)
    PROVE  \E st : /\ sta' = [sta EXCEPT ![s] = st]
                   /\ sta[s].queue = <<>> => Asks(st)
                   /\ hasty' = [hasty EXCEPT ![s] = @ \/ underWay(s)]
                   /\ ap' = ap
<1>1. Sound(sta[s], s)
  BY DEF IInv
<1> DEFINE Fits(st) == sta[s].queue = <<>> => Asks(st)
<1>2. ASSUME NEW early, NEW st, Fits(st), Expires(s, early, st)
      PROVE  \E j : /\ sta' = [sta EXCEPT ![s] = j]
                    /\ sta[s].queue = <<>> => Asks(j)
                    /\ hasty' = [hasty EXCEPT ![s] = @ \/ underWay(s)]
                    /\ ap' = ap
  BY <1>2 DEF Expires
<1>3. /\ sta[s].awaits = "startUp" => Fits(processScanCommand(sta[s]))
      /\ sta[s].scanTimer # "none" => Fits(sendProbe(sta[s], s))
      /\ \A best \in candidates(sta[s]), noise \in BOOLEAN : sta[s].scanTimer # "none" =>
            Fits(minChannelTimeOver(sta[s], s, noise, best)) /\ Fits(scanNextChannel(sta[s], s, best))
      /\ \A a \in AP : Fits(authTimeout(sta[s], s, a))
      /\ Fits(assocTimeout(sta[s])) /\ Fits(beaconTimeout(sta[s]))
  BY <1>1, TimerAsks
<1> HIDE DEF Fits
<1>4. CASE StartUp(s)
  BY <1>2, <1>3, <1>4 DEF StartUp
<1>5. CASE SendProbe(s)
  BY <1>2, <1>3, <1>5 DEF SendProbe
<1>6. CASE MinChannelTime(s)
  BY <1>2, <1>3, <1>6 DEF MinChannelTime
<1>7. CASE MaxChannelTime(s)
  <2>1. PICK best \in candidates(sta[s]) : Expires(s, underWay(s), scanNextChannel(sta[s], s, best))
    BY <1>7 DEF MaxChannelTime
  <2>2. Fits(scanNextChannel(sta[s], s, best))
    BY <1>3, <1>7 DEF MaxChannelTime
  <2> QED
    BY <1>2, <2>1, <2>2
<1>8. CASE AuthTimeout(s)
  BY <1>2, <1>3, <1>8 DEF AuthTimeout
<1>9. CASE AssocTimeout(s)
  BY <1>2, <1>3, <1>9 DEF AssocTimeout
<1>10. CASE BeaconTimeout(s)
  BY <1>2, <1>3, <1>10 DEF BeaconTimeout
<1> QED
  BY <1>4, <1>5, <1>6, <1>7, <1>8, <1>9, <1>10 DEF Timer

LEMMA TimerClean ==
    ASSUME IInv, CleanInv, hasty \in [Station -> BOOLEAN], NEW s \in Station, Timer(s)
    PROVE  CleanInv'
<1>1. PICK st : /\ sta' = [sta EXCEPT ![s] = st]
                /\ sta[s].queue = <<>> => Asks(st)
                /\ hasty' = [hasty EXCEPT ![s] = @ \/ underWay(s)]
                /\ ap' = ap
  BY TimerResult
<1> SUFFICES ASSUME NEW t \in Station, ~hasty'[t] PROVE Clean(t)'
  BY DEF CleanInv
<1>2. CASE t = s
  <2>1. ~underWay(s)
    BY <1>1, <1>2
  <2>2. sta[s].queue = <<>> /\ \A a \in AP : Answers(a, s) = {}
    BY <2>1 DEF underWay, Answers
  <2>3. sta'[s] = st /\ Asks(st)
    BY <1>1, <2>2 DEF IInv
  <2>4. \A a \in AP : Answers(a, s)' = {}
    BY <1>1, <2>2 DEF Answers
  <2>5. \A a \in AP : sta'[s].assocAP # a
    BY <2>3, ChannelAssumption DEF Asks
  <2> QED
    BY <1>2, <2>3, <2>4, <2>5 DEF Clean, Asks
<1>3. CASE t # s
  <2>1. sta'[t] = sta[t] /\ Clean(t)
    BY <1>1, <1>3 DEF IInv, CleanInv
  <2> QED
    BY <1>1, <2>1, CleanUntouched
<1> QED
  BY <1>2, <1>3

LEMMA EmptyTail == ASSUME NEW S, NEW q \in Seq(S), Len(q) = 0 PROVE q = <<>>
OBVIOUS

(* A request reaches one access point at most, which answers it.           *)
LEMMA RequestClean ==
    ASSUME OneAPPerChannel, IInv, CleanInv, NEW s \in Station, ToAP(s)
    PROVE  CleanInv'
<1> DEFINE f == Head(sta[s].queue)
<1>1. f \in Requests(s) /\ Sound(sta[s], s) /\ sta[s].queue # <<>>
  BY Fetched DEF IInv, ToAP
<1>2. sta' = [sta EXCEPT ![s].queue = Tail(@)] /\ hasty' = hasty
  BY DEF ToAP
<1>3. PICK lost \in BOOLEAN :
          ap' = [a \in AP |-> IF a \in receivers(s, f) /\ ~lost
                              THEN processFrame(ap[a], f, a) ELSE ap[a]]
  BY DEF ToAP
<1> HIDE DEF f
<1>4. \A a, b \in receivers(s, f) : a = b
  BY DEF receivers, reachable, OneAPPerChannel
<1>5. ASSUME NEW a \in AP, ap'[a] # ap[a]
      PROVE  /\ a \in receivers(s, f)
             /\ \E g \in Answer(a) :
                   /\ ap'[a].queue = Append(ap[a].queue, g) /\ g.sta = s
                   /\ g.type = "AssocResp" => ap'[a].staList[s].status = "ASSOCIATED"
             /\ \A t \in Station \ {s} : ap'[a].staList[t] = ap[a].staList[t]
  <2>1. a \in receivers(s, f) /\ ap'[a] = processFrame(ap[a], f, a)
    BY <1>3, <1>5
  <2>2. ap[a] \in APRecord(a) /\ f.ap \in {a, NoAP}
    BY <2>1 DEF IInv, receivers
  <2> QED
    BY <1>1, <2>1, <2>2, APAnswers
<1>6. ASSUME NEW a \in AP, NEW t \in Station, NEW i \in Answers(a, t)', i \notin Answers(a, t) \/ t = s
      PROVE  Answers(a, t) = {} =>
                 /\ t = s /\ a \in receivers(s, f) /\ i = Len(ap[a].queue) + 1
                 /\ ap'[a].queue[i].type = "AssocResp" => ap'[a].staList[s].status = "ASSOCIATED"
  <2> SUFFICES ASSUME Answers(a, t) = {}
               PROVE  /\ t = s /\ a \in receivers(s, f) /\ i = Len(ap[a].queue) + 1
                      /\ ap'[a].queue[i].type = "AssocResp" => ap'[a].staList[s].status = "ASSOCIATED"
    OBVIOUS
  <2>1. ap'[a] # ap[a]
    BY DEF Answers
  <2>2. PICK g \in Answer(a) :
            /\ ap'[a].queue = Append(ap[a].queue, g) /\ g.sta = s
            /\ g.type = "AssocResp" => ap'[a].staList[s].status = "ASSOCIATED"
    BY <1>5, <2>1
  <2>3. ap[a].queue \in Seq(Answer(a))
    BY DEF IInv, APRecord
  <2>4. i = Len(ap[a].queue) + 1 /\ ap'[a].queue[i] = g
    BY <2>2, <2>3 DEF Answers
  <2>5. t = s
    BY <2>2, <2>4 DEF Answers
  <2> QED
    BY <1>5, <2>1, <2>2, <2>4, <2>5
<1> SUFFICES ASSUME NEW t \in Station, ~hasty[t] PROVE Clean(t)'
  BY <1>2 DEF CleanInv
<1>7. Clean(t)
  BY DEF CleanInv
<1>8. CASE t = s
  <2>1. /\ \A a \in AP : Answers(a, s) = {}
        /\ sta[s].assocAP = NoAP /\ Len(sta[s].queue) = 1
    BY <1>1, <1>7, <1>8 DEF Clean, Sound, StationRecord
  <2>2. sta'[s].queue = <<>> /\ sta'[s].assocAP = NoAP
    <3>1. sta[s] \in StationRecord(s)
      BY <1>1 DEF Sound
    <3>2. DOMAIN sta = Station /\ Tail(sta[s].queue) = <<>>
      <4>1. sta[s].queue \in Seq(Requests(s))
        BY <3>1 DEF StationRecord
      <4>2. Tail(sta[s].queue) \in Seq(Requests(s)) /\ Len(Tail(sta[s].queue)) = 0
        BY <1>1, <2>1, <4>1
      <4> QED
        BY <4>2, EmptyTail DEF IInv
    <3>3. sta'[s] = [sta[s] EXCEPT !.queue = Tail(@)]
      BY <1>2, <3>2
    <3> QED
      BY <2>1, <3>1, <3>2, <3>3 DEF StationRecord
  <2>3. \A a \in AP : \A i \in Answers(a, s)' :
            /\ a \in receivers(s, f) /\ i = Len(ap[a].queue) + 1
            /\ ap'[a].queue[i].type = "AssocResp" => ap'[a].staList[s].status = "ASSOCIATED"
    BY <1>6, <2>1
  <2>4. \A a, b \in AP : \A i \in Answers(a, s)', j \in Answers(b, s)' : a = b /\ i = j
    BY <1>4, <2>3
  <2>5. \A a \in AP : sta'[s].assocAP # a
    BY <2>2, ChannelAssumption
  <2>6. Len(sta'[s].queue) = 0
    BY <2>2
  <2> QED
    BY <1>8, <2>2, <2>3, <2>4, <2>5, <2>6 DEF Clean
<1>9. CASE t # s
  <2> DEFINE d == [a \in AP |-> 0]
  <2>1. d \in [AP -> Nat]
    OBVIOUS
  <2>2. sta'[t] = sta[t]
    BY <1>2, <1>9 DEF IInv
  <2>3. \A a \in AP : \A i \in Answers(a, t)' :
            i + d[a] \in Answers(a, t) /\ ap'[a].queue[i] = ap[a].queue[i + d[a]]
    <3> SUFFICES ASSUME NEW a \in AP, NEW i \in Answers(a, t)'
                 PROVE  i + d[a] \in Answers(a, t) /\ ap'[a].queue[i] = ap[a].queue[i + d[a]]
      OBVIOUS
    <3>1. ap[a].queue \in Seq(Answer(a))
      BY DEF IInv, APRecord
    <3>2. i \in Answers(a, t) /\ ap'[a].queue[i] = ap[a].queue[i] /\ i \in Nat
      <4>1. CASE ap'[a] = ap[a]
        BY <4>1 DEF Answers
      <4>2. CASE ap'[a] # ap[a]
        <5>1. PICK g \in Answer(a) : ap'[a].queue = Append(ap[a].queue, g) /\ g.sta = s
          BY <1>5, <4>2
        <5> QED
          BY <1>9, <3>1, <5>1 DEF Answers
      <4> QED
        BY <4>1, <4>2
    <3>3. i + d[a] = i
      BY <3>2
    <3> QED
      BY <3>2, <3>3
  <2>4. \A a \in AP : ap'[a].staList[t] = ap[a].staList[t]
    BY <1>5, <1>9
  <2> HIDE DEF d
  <2> QED
    BY <1>7, <2>1, <2>2, <2>3, <2>4, CleanKept
<1> QED
  BY <1>8, <1>9

(* An answer is the only frame of its station under way.                   *)
LEMMA AnswerClean ==
    ASSUME IInv, CleanInv, NEW a \in AP, ToSTA(a)
    PROVE  CleanInv'
<1> DEFINE d == [b \in AP |-> IF b = a THEN 1 ELSE 0]
<1>0. PICK f, s : f = Head(ap[a].queue) /\ s = f.sta
  OBVIOUS
<1>1. /\ f \in Answer(a) /\ s \in Station /\ Sound(sta[s], s)
      /\ ap[a].queue \in Seq(Answer(a)) /\ ap[a].queue # <<>>
  <2>1. ap[a] \in APRecord(a) /\ ap[a].queue # <<>>
    BY DEF IInv, ToSTA
  <2>2. f \in Answer(a) /\ ap[a].queue \in Seq(Answer(a))
    BY <1>0, <2>1, Fetched DEF APRecord
  <2>3. s \in Station
    BY <1>0, <2>2 DEF Answer
  <2> QED
    BY <2>1, <2>2, <2>3 DEF IInv
<1>2. ap' = [ap EXCEPT ![a].queue = Tail(@)] /\ hasty' = hasty
  BY DEF ToSTA
<1>3. PICK lost \in BOOLEAN :
          sta' = IF reachable(s, a) /\ ~lost
                 THEN [sta EXCEPT ![s] = processFrame_STA(@, s, f)] ELSE sta
  BY <1>0 DEF ToSTA
<1>4. 1 \in Answers(a, s) /\ ap[a].queue[1] = f
  BY <1>0, <1>1 DEF Answers
<1>5. /\ \A b \in AP : ap'[b].staList = ap[b].staList /\ (b # a => ap'[b] = ap[b])
      /\ ap'[a].queue = Tail(ap[a].queue)
  BY <1>2 DEF IInv, APRecord
<1>6. d \in [AP -> Nat] /\ d[a] = 1 /\ \A b \in AP : b # a => d[b] = 0
  OBVIOUS
<1> HIDE DEF d
<1>7. ASSUME NEW t \in Station, NEW b \in AP, NEW i \in Answers(b, t)'
      PROVE  i + d[b] \in Answers(b, t) /\ ap'[b].queue[i] = ap[b].queue[i + d[b]]
  <2>1. CASE b = a
    <3>1. i \in 1..Len(Tail(ap[a].queue)) /\ Tail(ap[a].queue)[i].sta = t
      BY <1>5, <2>1 DEF Answers
    <3>2. i + 1 \in 1..Len(ap[a].queue) /\ Tail(ap[a].queue)[i] = ap[a].queue[i + 1]
      BY <1>1, <3>1
    <3> QED
      BY <1>5, <1>6, <2>1, <3>1, <3>2 DEF Answers
  <2>2. CASE b # a
    <3>1. i \in Answers(b, t) /\ ap'[b].queue[i] = ap[b].queue[i] /\ i \in Nat
      BY <1>5, <2>2 DEF Answers
    <3> QED
      BY <1>6, <2>2, <3>1
  <2> QED
    BY <2>1, <2>2
<1> SUFFICES ASSUME NEW t \in Station, ~hasty[t] PROVE Clean(t)'
  BY <1>2 DEF CleanInv
<1>8. Clean(t)
  BY DEF CleanInv
<1>9. CASE t # s \/ ~(reachable(s, a) /\ ~lost)
  <2>1. sta'[t] = sta[t]
    BY <1>3, <1>9 DEF IInv
  <2> QED
    BY <1>5, <1>6, <1>7, <1>8, <2>1, CleanKept
<1>10. CASE t = s /\ reachable(s, a) /\ ~lost
  <2> DEFINE j == processFrame_STA(sta[s], s, f)
  <2>1. sta[s].queue = <<>>
    BY <1>4, <1>8, <1>10 DEF Clean
  <2>2. /\ Len(j.queue) \in {0, 1}
        /\ j.assocAP # NoAP => /\ j.queue = <<>>
                               /\ j.assocAP # sta[s].assocAP => f.type = "AssocResp" /\ j.assocAP = a
    BY <1>1, <2>1, FrameAsks
  <2>3. sta'[s] = j
    BY <1>1, <1>3, <1>10 DEF IInv
  <2> HIDE DEF j
  <2>4. \A b \in AP : Answers(b, s)' = {}
    <3> SUFFICES ASSUME NEW b \in AP, NEW i \in Answers(b, s)' PROVE FALSE
      OBVIOUS
    <3>1. i + d[b] \in Answers(b, s)
      BY <1>1, <1>7
    <3>2. b = a /\ i + d[b] = 1
      BY <1>4, <1>8, <1>10, <3>1 DEF Clean
    <3>3. i \in Nat \ {0}
      BY DEF Answers
    <3> QED
      BY <1>6, <3>2, <3>3
  <2>5. \A b \in AP : j.assocAP = b => ap'[b].staList[s].status \in {"ASSOCIATED", "none"}
    <3> SUFFICES ASSUME NEW b \in AP, j.assocAP = b
                 PROVE  ap[b].staList[s].status \in {"ASSOCIATED", "none"}
      BY <1>5
    <3>1. CASE sta[s].assocAP = b
      BY <1>8, <1>10, <3>1 DEF Clean
    <3>2. CASE sta[s].assocAP # b
      <4>1. f.type = "AssocResp" /\ b = a
        BY <2>2, <3>2, ChannelAssumption
      <4> QED
        BY <1>4, <1>8, <1>10, <4>1 DEF Clean
    <3> QED
      BY <3>1, <3>2
  <2> QED
    BY <1>10, <2>2, <2>3, <2>4, <2>5 DEF Clean
<1> QED
  BY <1>9, <1>10

LEMMA CleanNext ==
    ASSUME OneAPPerChannel, IInv, CleanInv, hasty \in [Station -> BOOLEAN], [Next]_vars
    PROVE  CleanInv' /\ hasty' \in [Station -> BOOLEAN]
<1>1. ASSUME NEW s \in Station, ToAP(s) PROVE CleanInv' /\ hasty' = hasty
  BY <1>1, RequestClean DEF ToAP
<1>2. ASSUME NEW s \in Station, Timer(s)
      PROVE  CleanInv' /\ hasty' \in [Station -> BOOLEAN]
  <2>1. hasty' = [hasty EXCEPT ![s] = @ \/ underWay(s)]
    BY <1>2, TimerResult
  <2>2. underWay(s) \in BOOLEAN
    BY DEF underWay
  <2>3. (hasty[s] \/ underWay(s)) \in BOOLEAN
    BY <2>2
  <2> QED
    BY <1>2, <2>1, <2>3, TimerClean
<1>3. ASSUME sta' = sta, ap' = ap, hasty' = hasty PROVE CleanInv'
  BY <1>3 DEF CleanInv, Clean, Answers
<1>4. ASSUME NEW s \in Station, Move(s) PROVE CleanInv' /\ hasty' = hasty
  BY <1>3, <1>4 DEF Move
<1>5. ASSUME NEW a \in AP, ToSTA(a) PROVE CleanInv' /\ hasty' = hasty
  BY <1>5, AnswerClean DEF ToSTA
<1>6. ASSUME NEW a \in AP, Beacon(a) PROVE CleanInv' /\ hasty' = hasty
  <2>1. ap' = ap /\ hasty' = hasty
    BY <1>6 DEF Beacon
  <2>2. ASSUME NEW s \in Station
        PROVE  sta'[s].queue = sta[s].queue /\ sta'[s].assocAP = sta[s].assocAP
    <3>1. /\ handleBeaconFrame(sta[s], a).queue = sta[s].queue
          /\ handleBeaconFrame(sta[s], a).assocAP = sta[s].assocAP
      BY DEF handleBeaconFrame, check, storeAPInfo, hears
    <3> QED
      BY <1>6, <3>1 DEF Beacon
  <2>3. ASSUME NEW s \in Station, Clean(s) PROVE Clean(s)'
    BY <2>1, <2>2, <2>3, CleanUntouched
  <2> QED
    BY <2>1, <2>3 DEF CleanInv
<1>7. ASSUME NEW a \in AP, Stop(a) \/ Start(a) PROVE CleanInv' /\ hasty' = hasty
  <2>1. sta' = sta /\ hasty' = hasty
    BY <1>7 DEF Stop, Start
  <2>2. ASSUME NEW s \in Station, NEW b \in AP
        PROVE  \/ ap'[b].staList[s] = ap[b].staList[s] /\ ap'[b].queue = ap[b].queue
               \/ ap'[b].staList[s].status = "none" /\ Answers(b, s)' = {}
    <3>1. CASE Start(a)
      <4>1. ap' = [ap EXCEPT ![a] = startAP(ap[a])]
        BY <3>1 DEF Start
      <4>2. startAP(ap[a]).staList = ap[a].staList /\ startAP(ap[a]).queue = ap[a].queue
        BY DEF startAP
      <4> QED
        BY <4>1, <4>2 DEF IInv
    <3>2. CASE Stop(a)
      <4>1. ap' = [ap EXCEPT ![a] = stopAP(ap[a])]
        BY <3>2 DEF Stop
      <4>2. stopAP(ap[a]).staList[s].status = "none" /\ stopAP(ap[a]).queue = <<>>
        BY DEF stopAP, initialAP, NoEntry
      <4> QED
        BY <4>1, <4>2 DEF IInv, Answers
    <3> QED
      BY <1>7, <3>1, <3>2
  <2>3. ASSUME NEW s \in Station, Clean(s) PROVE Clean(s)'
    BY <2>1, <2>2, <2>3, CleanUntouched
  <2> QED
    BY <2>1, <2>3 DEF CleanInv
<1>8. CASE UNCHANGED vars
  BY <1>3, <1>8 DEF vars
<1> QED
  BY <1>1, <1>2, <1>4, <1>5, <1>6, <1>7, <1>8 DEF Next

-----------------------------------------------------------------------------
(* No error() and no ASSERT of a station is ever reached, whatever frames   *)
(* are lost, timers expire early, access points restart and stations move: *)
(* every command of the agent finds the management entity ready for it.    *)
THEOREM StationNeverFails == ASSUME OneAPPerChannel PROVE Spec => []FaultFree
<1>1. IInv => FaultFree
  BY Zenon DEF IInv, Sound, FaultFree, Running
<1> QED
  BY <1>1, Invariance, PTL

(* The timer that wakes the agent up is always the one timer of the step   *)
(* it waits for, so no attempt is left without an end and no timer is left *)
(* over to end the next one.                                               *)
THEOREM OneTimerAtATime == ASSUME OneAPPerChannel PROVE Spec => []OneTimer
<1>1. IInv => OneTimer
  BY Zenon DEF IInv, Sound, OneTimer
<1> QED
  BY <1>1, Invariance, PTL

(* Every variable keeps its type: no timer that fired is left behind, no    *)
(* station is tuned to a channel that is neither scanned nor that of an    *)
(* access point, and the exchange of an authentication ends with the last  *)
(* frame there is.                                                         *)
THEOREM ManagementTypeCorrect == ASSUME OneAPPerChannel PROVE Spec => []TypeOK
<1> DEFINE Ranges == inRange \in [Station -> SUBSET AP] /\ hasty \in [Station -> BOOLEAN]
<1>1. Init => Ranges
  BY DEF Init
<1>2. Ranges /\ [Next]_vars => Ranges'
  BY DEF Next, vars, ToAP, ToSTA, Beacon, Stop, Start, Move, Timer, Expires, StartUp, SendProbe,
         MinChannelTime, MaxChannelTime, AuthTimeout, AssocTimeout, BeaconTimeout
<1>3. IInv /\ Ranges => TypeOK
  <2> SUFFICES ASSUME IInv, Ranges PROVE TypeOK
    OBVIOUS
  <2>1. ASSUME NEW s \in Station
        PROVE  /\ sta[s].channel \in Tunable /\ sta[s].index \in 0..Len(Channels)
               /\ sta[s].scanTimer \in {"none", "sendProbe", "minChannelTime", "maxChannelTime"}
               /\ sta[s].apList \in [AP -> APInfo]
               /\ sta[s].assocTimer \in {"none", "running"}
               /\ sta[s].beaconTimer \in {"none", "running"}
               /\ sta[s].assocAP \in AP \cup {NoAP}
    <3>1. sta[s] \in StationRecord(s) /\ NoneFired(sta[s])
      BY DEF IInv, Sound
    <3>2. sta[s].apList \in [AP -> APEntry] /\ \A a \in AP : sta[s].apList[a].authTimer # "fired"
      BY <3>1 DEF StationRecord, NoneFired
    <3>3. sta[s].apList \in [AP -> APInfo]
      BY <3>2 DEF APEntry, APInfo, TimerState
    <3> QED
      BY <3>1, <3>3 DEF StationRecord, NoneFired, TimerState
  <2>2. ASSUME NEW a \in AP
        PROVE  /\ ap[a].up \in BOOLEAN
               /\ ap[a].staList \in [Station -> [status : Status, authSeqExpected : {1, 3}]]
    BY DEF IInv, APRecord, StationEntry
  <2> QED
    BY <2>1, <2>2 DEF TypeOK, Tunable
<1> HIDE DEF Ranges
<1> QED
  BY <1>1, <1>2, <1>3, Invariance, PTL DEF Spec

(* Unless a timer of the station expired while its frames were still under *)
(* way, a station that is associated is so for its access point, too,      *)
(* whatever frames are lost, access points restart and stations move: one  *)
(* frame is under way between them at most, so an answer finds the access  *)
(* point as it left it.                                                    *)
THEOREM AssociationsAgree == ASSUME OneAPPerChannel PROVE Spec => []AssociationAgreed
<1> DEFINE Patient == CleanInv /\ hasty \in [Station -> BOOLEAN]
<1>1. Init => Patient
  BY CleanInit DEF Init
<1>2. IInv /\ Patient /\ [Next]_vars => Patient'
  BY CleanNext
<1>3. Patient => AssociationAgreed
  BY DEF CleanInv, Clean, AssociationAgreed
<1> HIDE DEF Patient
<1>4. Spec => []IInv
  BY Invariance
<1> QED
  BY <1>1, <1>2, <1>3, <1>4, PTL DEF Spec
=============================================================================
