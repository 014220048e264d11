----------------------- MODULE TCPConnection_proofs -----------------------
(***************************************************************************)
(* Proofs about TCPConnection, for every value of its constants.           *)
(*                                                                         *)
(* Every operator that takes a connection record to its next value yields  *)
(* a connection record again: one lemma per operator, in the order of the  *)
(* module.  The theorem then has one step per action.                      *)
(***************************************************************************)
EXTENDS TCPSafety, FiniteSetTheorems, TLAPS

-----------------------------------------------------------------------------
(* The connection record.                                                  *)

\* What the fields of a record hold.
LEMMA Fields ==
  ASSUME NEW k \in Connections
  PROVE  /\ k.fsm \in State /\ k.event \in Event /\ k.sockstate \in SockState
         /\ k.active \in BOOLEAN /\ k.send_fin \in BOOLEAN
         /\ k.fin_ack_rcvd \in BOOLEAN /\ k.afterRto \in BOOLEAN
         /\ k.lossRecovery \in BOOLEAN /\ k.fin_rcvd \in BOOLEAN
         /\ k.ack_now \in BOOLEAN /\ k.fault \in BOOLEAN
         /\ k.iss \in Nat /\ k.snd_una \in Nat /\ k.snd_nxt \in Nat
         /\ k.snd_max \in Nat /\ k.bufStart \in Nat /\ k.bufEnd \in Nat
         /\ k.snd_fin_seq \in Nat /\ k.dupacks \in Nat /\ k.rexmit_count \in Nat
         /\ k.syn_rexmit_count \in Nat /\ k.rcv_nxt \in Nat
         /\ k.rcv_fin_seq \in Nat /\ k.full_sized \in Nat
         /\ k.last_ack_sent \in Nat /\ k.delivered \in Nat /\ k.recover \in Int
         /\ k.rcvQueue \in SUBSET Nat /\ k.timers \in SUBSET Timer
         /\ k.ind \in Seq(Indication) /\ k.out \in SUBSET Segments
BY DEF Connections

\* A field that is given a value of its type leaves a record a record.
LEMMA SetNat ==
  ASSUME NEW k \in Connections, NEW n \in Nat
  PROVE  /\ [k EXCEPT !.snd_una = n] \in Connections
         /\ [k EXCEPT !.snd_nxt = n] \in Connections
         /\ [k EXCEPT !.snd_max = n] \in Connections
         /\ [k EXCEPT !.bufStart = n] \in Connections
         /\ [k EXCEPT !.bufEnd = n] \in Connections
         /\ [k EXCEPT !.snd_fin_seq = n] \in Connections
         /\ [k EXCEPT !.dupacks = n] \in Connections
         /\ [k EXCEPT !.rexmit_count = n] \in Connections
         /\ [k EXCEPT !.syn_rexmit_count = n] \in Connections
         /\ [k EXCEPT !.rcv_nxt = n] \in Connections
         /\ [k EXCEPT !.rcv_fin_seq = n] \in Connections
         /\ [k EXCEPT !.full_sized = n] \in Connections
         /\ [k EXCEPT !.last_ack_sent = n] \in Connections
         /\ [k EXCEPT !.delivered = n] \in Connections
<1>1. [k EXCEPT !.snd_una = n] \in Connections
  BY DEF Connections
<1>2. [k EXCEPT !.snd_nxt = n] \in Connections
  BY DEF Connections
<1>3. [k EXCEPT !.snd_max = n] \in Connections
  BY DEF Connections
<1>4. [k EXCEPT !.bufStart = n] \in Connections
  BY DEF Connections
<1>5. [k EXCEPT !.bufEnd = n] \in Connections
  BY DEF Connections
<1>6. [k EXCEPT !.snd_fin_seq = n] \in Connections
  BY DEF Connections
<1>7. [k EXCEPT !.dupacks = n] \in Connections
  BY DEF Connections
<1>8. [k EXCEPT !.rexmit_count = n] \in Connections
  BY DEF Connections
<1>9. [k EXCEPT !.syn_rexmit_count = n] \in Connections
  BY DEF Connections
<1>10. [k EXCEPT !.rcv_nxt = n] \in Connections
  BY DEF Connections
<1>11. [k EXCEPT !.rcv_fin_seq = n] \in Connections
  BY DEF Connections
<1>12. [k EXCEPT !.full_sized = n] \in Connections
  BY DEF Connections
<1>13. [k EXCEPT !.last_ack_sent = n] \in Connections
  BY DEF Connections
<1>14. [k EXCEPT !.delivered = n] \in Connections
  BY DEF Connections
<1> QED
  BY <1>1, <1>2, <1>3, <1>4, <1>5, <1>6, <1>7, <1>8, <1>9, <1>10, <1>11,
     <1>12, <1>13, <1>14

LEMMA SetInt ==
  ASSUME NEW k \in Connections, NEW n \in Int
  PROVE  [k EXCEPT !.recover = n] \in Connections
BY DEF Connections

LEMMA SetBoolean ==
  ASSUME NEW k \in Connections, NEW b \in BOOLEAN
  PROVE  /\ [k EXCEPT !.active = b] \in Connections
         /\ [k EXCEPT !.send_fin = b] \in Connections
         /\ [k EXCEPT !.fin_ack_rcvd = b] \in Connections
         /\ [k EXCEPT !.afterRto = b] \in Connections
         /\ [k EXCEPT !.lossRecovery = b] \in Connections
         /\ [k EXCEPT !.fin_rcvd = b] \in Connections
         /\ [k EXCEPT !.ack_now = b] \in Connections
         /\ [k EXCEPT !.fault = b] \in Connections
<1>1. [k EXCEPT !.active = b] \in Connections
  BY DEF Connections
<1>2. [k EXCEPT !.send_fin = b] \in Connections
  BY DEF Connections
<1>3. [k EXCEPT !.fin_ack_rcvd = b] \in Connections
  BY DEF Connections
<1>4. [k EXCEPT !.afterRto = b] \in Connections
  BY DEF Connections
<1>5. [k EXCEPT !.lossRecovery = b] \in Connections
  BY DEF Connections
<1>6. [k EXCEPT !.fin_rcvd = b] \in Connections
  BY DEF Connections
<1>7. [k EXCEPT !.ack_now = b] \in Connections
  BY DEF Connections
<1>8. [k EXCEPT !.fault = b] \in Connections
  BY DEF Connections
<1> QED
  BY <1>1, <1>2, <1>3, <1>4, <1>5, <1>6, <1>7, <1>8

LEMMA SetState ==
  ASSUME NEW k \in Connections
  PROVE  /\ \A st \in State : [k EXCEPT !.fsm = st] \in Connections
         /\ \A ev \in Event : [k EXCEPT !.event = ev] \in Connections
         /\ \A so \in SockState : [k EXCEPT !.sockstate = so] \in Connections
         /\ \A q \in SUBSET Nat : [k EXCEPT !.rcvQueue = q] \in Connections
         /\ \A ts \in SUBSET Timer : [k EXCEPT !.timers = ts] \in Connections
         /\ \A i \in Seq(Indication) : [k EXCEPT !.ind = i] \in Connections
         /\ \A o \in SUBSET Segments : [k EXCEPT !.out = o] \in Connections
<1>1. ASSUME NEW st \in State PROVE [k EXCEPT !.fsm = st] \in Connections
  BY DEF Connections
<1>2. ASSUME NEW ev \in Event PROVE [k EXCEPT !.event = ev] \in Connections
  BY DEF Connections
<1>3. ASSUME NEW so \in SockState PROVE [k EXCEPT !.sockstate = so] \in Connections
  BY DEF Connections
<1>4. ASSUME NEW q \in SUBSET Nat PROVE [k EXCEPT !.rcvQueue = q] \in Connections
  BY DEF Connections
<1>5. ASSUME NEW ts \in SUBSET Timer PROVE [k EXCEPT !.timers = ts] \in Connections
  BY DEF Connections
<1>6. ASSUME NEW i \in Seq(Indication) PROVE [k EXCEPT !.ind = i] \in Connections
  BY DEF Connections
<1>7. ASSUME NEW o \in SUBSET Segments PROVE [k EXCEPT !.out = o] \in Connections
  BY DEF Connections
<1> QED
  BY <1>1, <1>2, <1>3, <1>4, <1>5, <1>6, <1>7

LEMMA NewConnectionType ==
  ASSUME NEW e \in Endpoint
  PROVE  NewConnection(e) \in Connections
<1>1. Iss[e] \in Nat
  BY ConstantsAssumption
<1>2. <<>> \in Seq(Indication)
  OBVIOUS
<1> QED
  BY <1>1, <1>2 DEF NewConnection, Connections, State, Event, SockState
-----------------------------------------------------------------------------
(* Timers, indications and the state transition.                           *)

LEMMA AssertType ==
  ASSUME NEW k \in Connections, NEW p
  PROVE  Assert(k, p) \in Connections
<1>1. (k.fault \/ ~p) \in BOOLEAN
  OBVIOUS
<1> QED
  BY <1>1, SetBoolean DEF Assert

LEMMA CancelType ==
  ASSUME NEW k \in Connections, NEW ts
  PROVE  Cancel(k, ts) \in Connections
BY Fields, SetState DEF Cancel

LEMMA ScheduleType ==
  ASSUME NEW k \in Connections, NEW t \in Timer
  PROVE  Schedule(k, t) \in Connections
<1>1. Assert(k, t \notin k.timers) \in Connections
  BY AssertType
<1> QED
  BY <1>1, Fields, SetState DEF Schedule

LEMMA IndicateType ==
  ASSUME NEW k \in Connections, NEW i \in Indication
  PROVE  Indicate(k, i) \in Connections
<1>1. SocketOf(i) \in SockState
  BY DEF SocketOf, SockState
<1>2. Append(k.ind, i) \in Seq(Indication)
  BY Fields
<1>3. [k EXCEPT !.ind = Append(@, i)] \in Connections
  BY <1>2, SetState
<1> QED
  BY <1>1, <1>3, SetState DEF Indicate

LEMMA StateEnteredType ==
  ASSUME NEW k \in Connections, NEW old
  PROVE  StateEntered(k, old) \in Connections
<1>1. /\ Indicate(k, "PEER_CLOSED") \in Connections
      /\ Indicate(k, "CLOSED") \in Connections
  BY IndicateType DEF Indication
<1> QED
  BY <1>1, CancelType DEF StateEntered

LEMMA TransitionType ==
  ASSUME NEW st \in State, NEW event, NEW active
  PROVE  Transition(st, event, active) \in State
BY DEF Transition

LEMMA PerformStateTransitionType ==
  ASSUME NEW k \in Connections
  PROVE  PerformStateTransition(k) \in Connections
<1> DEFINE next == Transition(k.fsm, k.event, k.active)
           k1   == IF next = k.fsm THEN k
                   ELSE StateEntered([k EXCEPT !.fsm = next], k.fsm)
<1>1. next \in State
  BY Fields, TransitionType
<1>2. k1 \in Connections
  BY <1>1, SetState, StateEnteredType
<1>3. "IGNORE" \in Event
  BY DEF Event
<1> QED
  BY <1>2, <1>3, SetState DEF PerformStateTransition
-----------------------------------------------------------------------------
(* Sending.                                                                *)

LEMMA SegmentType ==
  ASSUME NEW f \in SUBSET Flag, NEW seq \in Nat, NEW ackNo \in Nat, NEW len \in Nat
  PROVE  Segment(f, seq, ackNo, len) \in Segments
BY DEF Segment, Segments

LEMMA EmitType ==
  ASSUME NEW k \in Connections, NEW s \in Segments
  PROVE  Emit(k, s) \in Connections
BY Fields, SetState DEF Emit

LEMMA AckSentType ==
  ASSUME NEW k \in Connections
  PROVE  AckSent(k) \in Connections
<1> DEFINE k1 == Cancel(k, {"DELAYEDACK"})
<1>1. k1 \in Connections
  BY CancelType
<1>2. k1.rcv_nxt = k.rcv_nxt
  BY DEF Cancel, Connections
<1> QED
  BY <1>1, <1>2, Fields, SetNat, SetBoolean DEF AckSent

LEMMA SendAckType ==
  ASSUME NEW k \in Connections
  PROVE  SendAck(k) \in Connections
<1>1. Segment({"ACK"}, k.snd_nxt, k.rcv_nxt, 0) \in Segments
  BY Fields, SegmentType DEF Flag
<1> QED
  BY <1>1, EmitType, AckSentType DEF SendAck

LEMMA SendFinType ==
  ASSUME NEW k \in Connections
  PROVE  SendFin(k) \in Connections
<1>1. Segment({"FIN", "ACK"}, k.snd_nxt, k.rcv_nxt, 0) \in Segments
  BY Fields, SegmentType DEF Flag
<1> QED
  BY <1>1, EmitType, AckSentType DEF SendFin

LEMMA SendRstType ==
  ASSUME NEW k \in Connections, NEW seq \in Nat
  PROVE  SendRst(k, seq) \in Connections
<1>1. Segment({"RST"}, seq, 0, 0) \in Segments
  BY SegmentType DEF Flag
<1> QED
  BY <1>1, EmitType DEF SendRst

LEMMA SendSynType ==
  ASSUME NEW k \in Connections
  PROVE  SendSyn(k) \in Connections /\ SendSynAck(k) \in Connections
<1> DEFINE k1 == [k EXCEPT !.snd_max = k.iss + 1, !.snd_nxt = k.iss + 1]
<1>1. k.iss + 1 \in Nat /\ k.iss \in Nat /\ k.rcv_nxt \in Nat
  BY Fields
<1>2. k1 \in Connections
  BY <1>1, SetNat
<1>3. /\ Segment({"SYN"}, k.iss, 0, 0) \in Segments
      /\ Segment({"SYN", "ACK"}, k.iss, k.rcv_nxt, 0) \in Segments
  BY <1>1, SegmentType DEF Flag
<1> QED
  BY <1>2, <1>3, EmitType, AckSentType DEF SendSyn, SendSynAck

LEMMA SelectInitialSeqNumType ==
  ASSUME NEW k \in Connections
  PROVE  SelectInitialSeqNum(k) \in Connections
<1>1. k.iss \in Nat /\ k.iss + 1 \in Nat
  BY Fields
<1> QED
  BY <1>1, SetNat DEF SelectInitialSeqNum

LEMMA BytesAvailableType ==
  ASSUME NEW k \in Connections, NEW n \in Nat
  PROVE  BytesAvailable(k, n) \in Nat
BY Fields DEF BytesAvailable

LEMMA SendSegmentsType ==
  ASSUME NEW k \in Connections, NEW n \in Nat
  PROVE  SendSegments(k, n) \in Connections
<1> DEFINE end   == k.snd_nxt + n
           fin   == k.send_fin /\ end = k.snd_fin_seq
           flags == [i \in k.snd_nxt .. (end - 1) |->
                       IF fin /\ i = end - 1 THEN {"ACK", "FIN"} ELSE {"ACK"}]
           sent  == {Segment(flags[i], i, k.rcv_nxt, 1) : i \in k.snd_nxt .. (end - 1)}
           k1    == Assert(k, k.bufStart <= k.snd_nxt)
<1>1. k.snd_nxt \in Nat /\ k.rcv_nxt \in Nat /\ end \in Nat
  BY Fields
<1>2. sent \in SUBSET Segments
  <2> SUFFICES ASSUME NEW i \in k.snd_nxt .. (end - 1)
               PROVE  Segment(flags[i], i, k.rcv_nxt, 1) \in Segments
    OBVIOUS
  <2>1. i \in Nat
    BY <1>1
  <2>2. flags[i] \in SUBSET Flag
    BY DEF Flag
  <2> QED
    BY <1>1, <2>1, <2>2, SegmentType
<1>3. k1 \in Connections
  BY AssertType
<1>4. [k1 EXCEPT !.out = @ \cup sent] \in Connections
  BY <1>2, <1>3, Fields, SetState
<1>5. [k1 EXCEPT !.out = @ \cup sent, !.afterRto = @ /\ end < k.snd_max] \in Connections
  BY <1>4, SetBoolean
<1>6. (IF fin THEN end + 1 ELSE end) \in Nat
  BY <1>1
<1> HIDE DEF end, fin, sent, flags
<1>7. [k1 EXCEPT !.out = @ \cup sent, !.afterRto = @ /\ end < k.snd_max,
                 !.snd_nxt = IF fin THEN end + 1 ELSE end] \in Connections
  BY <1>5, <1>6, SetNat
<1> QED
  BY <1>7 DEF SendSegments, end, fin, sent, flags

LEMMA RexmitTimerType ==
  ASSUME NEW k \in Connections
  PROVE  /\ StartRexmitTimer(k) \in Connections
         /\ RestartRexmitTimer(k) \in Connections
         /\ DataSent(k) \in Connections
<1>1. "REXMIT" \in Timer
  BY DEF Timer
<1>2. \A j \in Connections : StartRexmitTimer(j) \in Connections
  BY <1>1, ScheduleType, SetNat DEF StartRexmitTimer
<1> QED
  BY <1>2, CancelType DEF RestartRexmitTimer, DataSent

LEMMA SendDataType ==
  ASSUME NEW k \in Connections, NEW w \in Nat
  PROVE  SendData(k, w) \in Connections
<1> DEFINE k1       == IF k.afterRto THEN k ELSE [k EXCEPT !.snd_nxt = k.snd_max]
           flight   == k1.snd_nxt - k1.snd_una
           buffered == BytesAvailable(k1, k1.snd_nxt)
           n        == IF w - flight < buffered THEN w - flight ELSE buffered
           k2       == SendSegments(k1, n)
<1>1. k1 \in Connections
  BY Fields, SetNat
<1> HIDE DEF k1
<1>2. flight \in Int /\ buffered \in Nat
  <2>1. k1.snd_nxt \in Nat /\ k1.snd_una \in Nat
    BY <1>1, Fields
  <2> QED
    BY <1>1, <2>1, BytesAvailableType
<1>3. CASE buffered = 0 \/ w <= flight
  BY <1>1, <1>3, SMTT(20) DEF SendData, k1
<1>4. CASE ~(buffered = 0 \/ w <= flight)
  <2>1. n \in Nat
    BY <1>2, <1>4
  <2>2. k2 \in Connections
    BY <1>1, <2>1, SendSegmentsType
  <2> HIDE DEF k2
  <2>3. (IF k2.snd_nxt > k2.snd_max THEN k2.snd_nxt ELSE k2.snd_max) \in Nat
    BY <2>2, Fields
  <2>4. [k2 EXCEPT !.snd_max = IF k2.snd_nxt > @ THEN k2.snd_nxt ELSE @] \in Connections
    BY <2>2, <2>3, SetNat
  <2>5. SendData(k, w) = DataSent(AckSent(
                [k2 EXCEPT !.snd_max = IF k2.snd_nxt > @ THEN k2.snd_nxt ELSE @]))
    BY <1>4, ZenonT(40) DEF SendData, k1, k2
  <2> QED
    BY <2>4, <2>5, AckSentType, RexmitTimerType
<1> QED
  BY <1>3, <1>4

LEMMA RetransmitOneSegmentType ==
  ASSUME NEW k \in Connections, NEW atRto
  PROVE  RetransmitOneSegment(k, atRto) \in Connections
<1> DEFINE n  == IF k.snd_max > k.snd_una /\ BytesAvailable(k, k.snd_una) > 0
                   THEN 1 ELSE 0
           k1 == [k EXCEPT !.snd_nxt = k.snd_una]
           f1 == SendFin([k EXCEPT !.snd_nxt = k.bufEnd])
           k2 == SendSegments(Assert(k1, n # 0), n)
<1>1. k.bufEnd + 1 \in Nat /\ n \in Nat
  BY Fields
<1>2. f1 \in Connections
  BY Fields, SetNat, SendFinType
<1>3. [f1 EXCEPT !.snd_nxt = k.bufEnd + 1, !.snd_max = k.bufEnd + 1] \in Connections
  BY <1>1, <1>2, SetNat
<1>4. k1 \in Connections
  BY Fields, SetNat
<1>5. k2 \in Connections
  BY <1>1, <1>4, AssertType, SendSegmentsType
<1> HIDE DEF k2
<1>6. (IF ~atRto /\ k.snd_nxt > k2.snd_nxt THEN k.snd_nxt ELSE k2.snd_nxt) \in Nat
  BY <1>5, Fields
<1>7. AckSent([k2 EXCEPT !.snd_nxt = IF ~atRto /\ k.snd_nxt > @ THEN k.snd_nxt ELSE @])
        \in Connections
  BY <1>5, <1>6, SetNat, AckSentType
<1> QED
  BY <1>3, <1>7 DEF RetransmitOneSegment, k2
-----------------------------------------------------------------------------
(* Acknowledgments.                                                        *)

LEMMA ReceivedDataAckType ==
  ASSUME NEW k \in Connections, NEW w \in Nat
  PROVE  ReceivedDataAck(k, w) \in Connections
<1> DEFINE k1 == IF k.snd_una = k.snd_max THEN Cancel(k, {"REXMIT"})
                                          ELSE RestartRexmitTimer(k)
           partial == k.lossRecovery /\ k.snd_una - 1 < k.recover
           to == IF k.lossRecovery THEN k1.recover ELSE k.snd_una - 2
           k2 == IF partial THEN SendData(RetransmitOneSegment(k1, FALSE), w)
                 ELSE [k1 EXCEPT !.lossRecovery = FALSE,
                                 !.recover = IF k.lossRecovery THEN @ ELSE k.snd_una - 2]
<1>1. k1 \in Connections
  BY CancelType, RexmitTimerType
<1>2. SendData(RetransmitOneSegment(k1, FALSE), w) \in Connections
  BY <1>1, RetransmitOneSegmentType, SendDataType
<1>3. to \in Int
  BY <1>1, Fields
<1> HIDE DEF k1
<1>4. [k1 EXCEPT !.lossRecovery = FALSE, !.recover = to] \in Connections
  BY <1>1, <1>3, SetBoolean, SetInt
<1>5. k2 \in Connections
  BY <1>2, <1>4
<1> HIDE DEF k2, partial, to
<1>6. [SendData(k2, w) EXCEPT !.dupacks = 0] \in Connections
  BY <1>5, SendDataType, SetNat
<1> QED
  BY <1>6 DEF ReceivedDataAck, k1, k2, partial

LEMMA ReceivedDuplicateAckType ==
  ASSUME NEW k \in Connections, NEW w \in Nat
  PROVE  ReceivedDuplicateAck(k, w) \in Connections
<1> DEFINE k1 == [k EXCEPT !.lossRecovery = TRUE, !.recover = k.snd_max - 1]
<1>1. k.snd_max - 1 \in Int
  BY Fields
<1>2. k1 \in Connections
  BY <1>1, SetBoolean, SetInt
<1> QED
  BY <1>2, RetransmitOneSegmentType, SendDataType DEF ReceivedDuplicateAck

LEMMA NewAckType ==
  ASSUME NEW k \in Connections, NEW s \in Segments, NEW w \in Nat
  PROVE  NewAck(k, s, w) \in Connections
<1> DEFINE fin  == k.send_fin /\ s.ackNo = k.snd_fin_seq + 1
           upTo == IF fin THEN s.ackNo - 1 ELSE s.ackNo
           a    == Assert(k, k.bufStart <= upTo /\ upTo <= k.bufEnd)
           nxt  == IF a.snd_nxt < s.ackNo THEN s.ackNo ELSE a.snd_nxt
           k1   == [a EXCEPT !.snd_una = s.ackNo, !.snd_nxt = nxt,
                             !.fin_ack_rcvd = @ \/ fin, !.bufStart = upTo]
<1>1. s.ackNo \in Nat
  BY DEF Segments
<1>2. upTo \in Nat
  BY <1>1, Fields
<1>3. a \in Connections
  BY AssertType
<1> HIDE DEF a, upTo, fin
<1>4. nxt \in Nat /\ (a.fin_ack_rcvd \/ fin) \in BOOLEAN
  BY <1>1, <1>3, Fields
<1> HIDE DEF nxt
<1>5. k1 \in Connections
  BY <1>1, <1>2, <1>3, <1>4, SetNat, SetBoolean
<1>6. ReceivedDataAck(k1, w) \in Connections
  BY <1>5, ReceivedDataAckType
<1> QED
  BY <1>5, <1>6 DEF NewAck, fin, upTo, a, nxt

LEMMA ProcessAckType ==
  ASSUME NEW k \in Connections, NEW s \in Segments, NEW w \in Nat
  PROVE  ProcessAck(k, s, w) \in Connections
<1>1. (IF k.dupacks > DUPTHRESH THEN k.dupacks ELSE k.dupacks + 1) \in Nat
  BY Fields
<1>2. CountDuplicate(k) \in Connections
  BY <1>1, SetNat DEF CountDuplicate
<1>3. [k EXCEPT !.dupacks = 0] \in Connections
  BY SetNat
<1> QED
  BY <1>2, <1>3, NewAckType, ReceivedDuplicateAckType DEF ProcessAck

LEMMA MSLTimerType ==
  ASSUME NEW k \in Connections
  PROVE  Start2MSLTimer(k) \in Connections /\ Restart2MSLTimer(k) \in Connections
BY CancelType, ScheduleType DEF Start2MSLTimer, Restart2MSLTimer, Timer

LEMMA ProcessAckOfFinType ==
  ASSUME NEW k \in Connections
  PROVE  ProcessAckOfFin(k) \in Connections
<1>1. [k EXCEPT !.event = "RCV_ACK"] \in Connections
  BY SetState DEF Event
<1>2. SendAck(k) \in Connections
  BY SendAckType
<1> QED
  BY <1>1, <1>2, MSLTimerType DEF ProcessAckOfFin
-----------------------------------------------------------------------------
(* The text and the FIN of a segment.                                      *)

LEMMA FinArrivedType ==
  ASSUME NEW k \in Connections
  PROVE  FinArrived(k) \in Connections
<1> DEFINE acked == k.fsm = "FIN_WAIT_1" /\ k.fin_ack_rcvd
           k1 == [k EXCEPT !.rcv_nxt = @ + 1,
                           !.event = IF acked THEN "RCV_FIN_ACK" ELSE "RCV_FIN"]
<1>1. k.rcv_nxt + 1 \in Nat
  BY Fields
<1>2. (IF acked THEN "RCV_FIN_ACK" ELSE "RCV_FIN") \in Event
  BY DEF Event
<1>3. k1 \in Connections
  BY <1>1, <1>2, SetNat, SetState
<1> QED
  BY <1>3, MSLTimerType DEF FinArrived

\* The units below nx are finitely many.
LEMMA UnitsBelow ==
  ASSUME NEW q \in SUBSET Nat, NEW nx \in Nat
  PROVE  Cardinality({u \in q : u < nx}) \in Nat
<1>1. IsFiniteSet(0 .. nx)
  BY 0 \in Int, nx \in Int, FS_Interval
<1>2. {u \in q : u < nx} \subseteq 0 .. nx
  <2> SUFFICES ASSUME NEW u \in q, u < nx
               PROVE  u \in 0 .. nx
    OBVIOUS
  <2>1. u \in Nat
    OBVIOUS
  <2> QED
    BY <2>1
<1> QED
  BY <1>1, <1>2, FS_Subset, FS_CardinalityType

LEMMA ProcessTextType ==
  ASSUME NEW k \in Connections, NEW s \in Segments, NEW w \in Nat,
         NEW nx \in Nat, NEW una
  PROVE  ProcessText(k, s, w, nx, una) \in Connections
<1> DEFINE q  == k.rcvQueue \cup {s.seq}
           kept == {u \in q : u >= nx}
           got  == Cardinality({u \in q : u < nx})
           k1 == [k EXCEPT !.full_sized = @ + 1, !.rcv_nxt = nx,
                           !.rcvQueue = kept, !.delivered = @ + got]
           k2 == IF k.snd_una > una THEN ReceivedDataAck(k1, w) ELSE k1
<1>1. q \in SUBSET Nat
  BY Fields DEF Segments
<1>2. got \in Nat
  BY <1>1, UnitsBelow
<1>3. kept \in SUBSET Nat
  BY <1>1
<1> HIDE DEF q, got, kept
<1>4. k.full_sized + 1 \in Nat /\ k.delivered + got \in Nat
  BY <1>2, Fields
<1>5. k1 \in Connections
  BY <1>3, <1>4, SetNat, SetState
<1>6. k2 \in Connections
  BY <1>5, ReceivedDataAckType
<1> HIDE DEF k2
<1>7. FinArrived([k2 EXCEPT !.ack_now = TRUE]) \in Connections
  BY <1>6, SetBoolean, FinArrivedType
<1> QED
  BY <1>6, <1>7, SendAckType DEF ProcessText, q, got, kept, k2

LEMMA ProcessFinBitType ==
  ASSUME NEW k \in Connections, NEW s \in Segments
  PROVE  ProcessFinBit(k, s) \in Connections
<1> DEFINE finSeq == s.seq + s.len
           k1     == [k EXCEPT !.ack_now = TRUE]
<1>1. finSeq \in Nat
  BY DEF Segments
<1>2. k1 \in Connections
  BY SetBoolean
<1>3. [k1 EXCEPT !.fin_rcvd = TRUE, !.rcv_fin_seq = finSeq] \in Connections
  BY <1>1, <1>2, SetBoolean, SetNat
<1> QED
  BY <1>2, <1>3, FinArrivedType DEF ProcessFinBit

LEMMA ReceiveSeqChangedType ==
  ASSUME NEW k \in Connections
  PROVE  ReceiveSeqChanged(k) \in Connections
<1>1. k.timers \cup {"DELAYEDACK"} \in SUBSET Timer
  BY Fields DEF Timer
<1>2. [k EXCEPT !.timers = @ \cup {"DELAYEDACK"}] \in Connections
  BY <1>1, SetState
<1> QED
  BY <1>2, SendAckType DEF ReceiveSeqChanged

LEMMA DeferredCloseType ==
  ASSUME NEW k \in Connections, NEW old_snd_nxt
  PROVE  DeferredClose(k, old_snd_nxt) \in Connections
BY SetState DEF DeferredClose, Event

LEMMA ProcessAckedSegmentType ==
  ASSUME NEW k \in Connections, NEW s \in Segments, NEW w \in Nat, NEW nx \in Nat
  PROVE  ProcessAckedSegment(k, s, w, nx) \in Connections
<1> DEFINE k0 == IF k.fsm = "SYN_RCVD"
                   THEN [Indicate(k, "ESTABLISHED") EXCEPT !.event = "RCV_ACK"] ELSE k
           k1 == IF k.fsm = "TIME_WAIT" THEN k0 ELSE ProcessAck(k0, s, w)
           k2 == ProcessAckOfFin(k1)
           k3 == IF ReceivesText(k, s) THEN ProcessText(k2, s, w, nx, k.snd_una) ELSE k2
           k4 == IF "FIN" \in s.flags THEN ProcessFinBit(k3, s) ELSE k3
           k5 == IF k4.rcv_nxt # k.rcv_nxt THEN ReceiveSeqChanged(k4) ELSE k4
<1>1. Indicate(k, "ESTABLISHED") \in Connections
  BY IndicateType DEF Indication
<1>2. k0 \in Connections
  BY <1>1, SetState DEF Event
<1> HIDE DEF k0
<1>3. k1 \in Connections
  BY <1>2, ProcessAckType
<1>4. [k1 EXCEPT !.event = "RCV_ACK"] \in Connections
  BY <1>3, SetState DEF Event
<1> HIDE DEF k1
<1>5. k2 \in Connections
  BY <1>3, ProcessAckOfFinType
<1> HIDE DEF k2
<1>6. k3 \in Connections
  BY <1>5, ProcessTextType
<1> HIDE DEF k3
<1>7. k4 \in Connections
  BY <1>6, ProcessFinBitType
<1> HIDE DEF k4
<1>8. k5 \in Connections
  BY <1>7, ReceiveSeqChangedType
<1> HIDE DEF k5
<1>9. DeferredClose(k5, k.snd_nxt) \in Connections
  BY <1>8, DeferredCloseType
<1> QED
  BY <1>4, <1>9 DEF ProcessAckedSegment, k0, k1, k2, k3, k4, k5
-----------------------------------------------------------------------------
(* Steps.                                                                  *)

\* The ways a handler's record gets back into conn.
LEMMA DoType ==
  ASSUME TypeOK, NEW e \in Endpoint, NEW k \in Connections, Do(e, k)
  PROVE  TypeOK'
<1>1. [k EXCEPT !.out = {}] \in Connections /\ k.out \in SUBSET Segments
  BY Fields, SetState
<1>2. Peer(e) \in Endpoint
  BY DEF Peer, Endpoint
<1> QED
  BY <1>1, <1>2 DEF Do, TypeOK

LEMMA DoTimedType ==
  ASSUME TypeOK, NEW e \in Endpoint, NEW k \in Connections, DoTimed(e, k)
  PROVE  TypeOK'
<1>1. [k EXCEPT !.out = {}] \in Connections /\ k.out \in SUBSET Segments
  BY Fields, SetState
<1>2. Peer(e) \in Endpoint
  BY DEF Peer, Endpoint
<1> QED
  BY <1>1, <1>2 DEF DoTimed, Fault, TypeOK

LEMMA TakeType ==
  ASSUME TypeOK, NEW e \in Endpoint, NEW s \in Segments, NEW k \in Connections,
         Take(e, s, k)
  PROVE  TypeOK'
<1>1. [k EXCEPT !.out = {}] \in Connections /\ k.out \in SUBSET Segments
  BY Fields, SetState
<1>2. Peer(e) \in Endpoint /\ Peer(e) # e
  BY ConstantsAssumption DEF Peer, Endpoint
<1> QED
  BY <1>1, <1>2 DEF Take, Fault, TypeOK

LEMMA LoseType ==
  ASSUME TypeOK, NEW e \in Endpoint, Lose(e)
  PROVE  TypeOK'
BY DEF Lose, Fault, TypeOK

LEMMA WindowsType == Windows \subseteq Nat
BY ConstantsAssumption DEF Windows
-----------------------------------------------------------------------------
(* Socket commands.                                                        *)

LEMMA StartSynRexmitTimerType ==
  ASSUME NEW k \in Connections
  PROVE  StartSynRexmitTimer(k) \in Connections
BY CancelType, ScheduleType, SetNat DEF StartSynRexmitTimer, Timer, SetupTimers

LEMMA OpenType ==
  ASSUME TypeOK, NEW e \in Endpoint, OpenActive(e) \/ OpenPassive(e)
  PROVE  TypeOK'
<1> DEFINE a == [conn[e] EXCEPT !.active = TRUE, !.sockstate = "CONNECTING",
                                !.event = "OPEN_ACTIVE"]
           p == [conn[e] EXCEPT !.active = FALSE, !.sockstate = "LISTENING",
                                !.event = "OPEN_PASSIVE"]
           o == Schedule(StartSynRexmitTimer(SendSyn(SelectInitialSeqNum(a))), "CONN_ESTAB")
<1>1. conn[e] \in Connections
  BY DEF TypeOK
<1>2. a \in Connections /\ p \in Connections
  BY <1>1, SetBoolean, SetState DEF SockState, Event
<1> HIDE DEF a, p
<1>3. o \in Connections
  BY <1>2, SelectInitialSeqNumType, SendSynType, StartSynRexmitTimerType, ScheduleType
     DEF Timer, SetupTimers
<1> HIDE DEF o
<1>4. PerformStateTransition(o) \in Connections /\ PerformStateTransition(p) \in Connections
  BY <1>2, <1>3, PerformStateTransitionType
<1> QED
  BY <1>4, DoType DEF OpenActive, OpenPassive, a, p, o

LEMMA SendType ==
  ASSUME TypeOK, NEW e \in Endpoint, Send(e)
  PROVE  TypeOK'
<1> DEFINE k == [conn[e] EXCEPT !.bufEnd = @ + 1]
<1>1. conn[e] \in Connections
  BY DEF TypeOK
<1>2. conn[e].bufEnd + 1 \in Nat
  BY <1>1, Fields
<1>3. k \in Connections
  BY <1>1, <1>2, SetNat
<1> HIDE DEF k
<1>4. \A w \in Windows : SendData(k, w) \in Connections
  BY <1>3, WindowsType, SendDataType
<1>5. Do(e, k) \/ \E w \in Windows : Do(e, SendData(k, w))
  BY DEF Send, k
<1> QED
  BY <1>3, <1>4, <1>5, DoType

LEMMA CloseSendingType ==
  ASSUME NEW k \in Connections
  PROVE  CloseSending(k) \in Connections
<1> DEFINE f  == SendFin([k EXCEPT !.snd_nxt = k.snd_max])
           k1 == RestartRexmitTimer(f)
           k2 == IF k.snd_max = k.bufEnd
                   THEN [k1 EXCEPT !.snd_nxt = @ + 1, !.snd_max = k.snd_max + 1]
                   ELSE [k EXCEPT !.event = "IGNORE"]
<1>1. k1 \in Connections
  BY Fields, SetNat, SendFinType, RexmitTimerType
<1> HIDE DEF k1
<1>2. k1.snd_nxt + 1 \in Nat /\ k.snd_max + 1 \in Nat
  BY <1>1, Fields
<1>3. k2 \in Connections
  BY <1>1, <1>2, SetNat, SetState DEF Event
<1> HIDE DEF k2
<1>4. [k2 EXCEPT !.send_fin = TRUE, !.snd_fin_seq = k.bufEnd] \in Connections
  BY <1>3, Fields, SetBoolean, SetNat
<1> QED
  BY <1>4 DEF CloseSending, k1, k2

LEMMA CloseType ==
  ASSUME TypeOK, NEW e \in Endpoint, Close(e)
  PROVE  TypeOK'
<1> DEFINE so == IF conn[e].sockstate = "CONNECTED" THEN "LOCALLY_CLOSED" ELSE "CLOSED"
           c  == [conn[e] EXCEPT !.event = "CLOSE"]
           k  == [conn[e] EXCEPT
                    !.event = "CLOSE",
                    !.sockstate = IF @ = "CONNECTED" THEN "LOCALLY_CLOSED" ELSE "CLOSED"]
<1>1. conn[e] \in Connections
  BY DEF TypeOK
<1>2. so \in SockState
  BY DEF SockState
<1>3. c \in Connections
  BY <1>1, SetState DEF Event
<1>4. k \in Connections
  BY <1>2, <1>3, SetState
<1> HIDE DEF k
<1>5. PerformStateTransition(k) \in Connections
      /\ PerformStateTransition(CloseSending(k)) \in Connections
  BY <1>4, CloseSendingType, PerformStateTransitionType
<1>6. Do(e, PerformStateTransition(k)) \/ Do(e, PerformStateTransition(CloseSending(k)))
  BY DEF Close, k
<1> QED
  BY <1>5, <1>6, DoType

LEMMA AbortType ==
  ASSUME TypeOK, NEW e \in Endpoint, Abort(e)
  PROVE  TypeOK'
<1> DEFINE k  == [conn[e] EXCEPT !.event = "ABORT", !.sockstate = "CLOSED"]
           k1 == IF k.fsm \in {"SYN_RCVD", "ESTABLISHED", "FIN_WAIT_1", "FIN_WAIT_2",
                               "CLOSE_WAIT"}
                   THEN SendRst(k, k.snd_nxt) ELSE k
<1>1. conn[e] \in Connections
  BY DEF TypeOK
<1>2. k \in Connections
  BY <1>1, SetState DEF Event, SockState
<1> HIDE DEF k
<1>3. PerformStateTransition(k1) \in Connections
  BY <1>2, Fields, SendRstType, PerformStateTransitionType
<1> QED
  BY <1>3, DoType DEF Abort, k
-----------------------------------------------------------------------------
(* Timers.                                                                 *)

LEMMA FiredType ==
  ASSUME TypeOK, NEW e \in Endpoint, NEW t
  PROVE  Fired(e, t) \in Connections
BY CancelType DEF Fired, TypeOK

LEMMA SynRexmitTimeoutType ==
  ASSUME TypeOK, NEW e \in Endpoint, SynRexmitTimeout(e)
  PROVE  TypeOK'
<1> DEFINE f == Fired(e, "SYN_REXMIT")
           k == [f EXCEPT !.syn_rexmit_count = @ + 1]
           k1 == CASE k.fsm = "SYN_SENT" -> SendSyn(k)
                   [] k.fsm = "SYN_RCVD" -> SendSynAck(k)
                   [] OTHER -> Assert(k, FALSE)
<1>1. f \in Connections
  BY FiredType
<1> HIDE DEF f
<1>2. f.syn_rexmit_count + 1 \in Nat
  BY <1>1, Fields
<1>3. k \in Connections
  BY <1>1, <1>2, SetNat
<1> HIDE DEF k
<1>4. k1 \in Connections
  BY <1>3, SendSynType, AssertType
<1> HIDE DEF k1
<1>5. Schedule(k1, "SYN_REXMIT") \in Connections
  BY <1>4, ScheduleType DEF Timer, SetupTimers
<1>6. DoTimed(e, Schedule(k1, "SYN_REXMIT"))
  BY DEF SynRexmitTimeout, f, k, k1
<1> QED
  BY <1>5, <1>6, DoTimedType

LEMMA ConnEstabTimeoutType ==
  ASSUME TypeOK, NEW e \in Endpoint, ConnEstabTimeout(e)
  PROVE  TypeOK'
<1> DEFINE f  == Fired(e, "CONN_ESTAB")
           k  == [f EXCEPT !.event = "TIMEOUT_CONN_ESTAB"]
           k1 == IF k.active THEN Indicate(k, "TIMED_OUT") ELSE k
           k2 == PerformStateTransition(Assert(k1, k.fsm \in {"SYN_SENT", "SYN_RCVD"}))
<1>1. k \in Connections
  BY FiredType, SetState DEF Event
<1> HIDE DEF k
<1>2. k1 \in Connections
  BY <1>1, IndicateType DEF Indication
<1> HIDE DEF k1
<1>3. k2 \in Connections
  BY <1>2, AssertType, PerformStateTransitionType
<1>4. DoTimed(e, k2)
  BY DEF ConnEstabTimeout, k, k1
<1> QED
  BY <1>3, <1>4, DoTimedType

LEMMA MSLTimeoutType ==
  ASSUME TypeOK, NEW e \in Endpoint, MSLTimeout(e)
  PROVE  TypeOK'
<1> DEFINE k == [Fired(e, "2MSL") EXCEPT !.event = "TIMEOUT_2MSL"]
<1>1. k \in Connections
  BY FiredType, SetState DEF Event
<1> HIDE DEF k
<1>2. PerformStateTransition(Assert(k, k.fsm = "TIME_WAIT")) \in Connections
  BY <1>1, AssertType, PerformStateTransitionType
<1>3. DoTimed(e, PerformStateTransition(Assert(k, k.fsm = "TIME_WAIT")))
  BY DEF MSLTimeout, k
<1> QED
  BY <1>2, <1>3, DoTimedType

LEMMA RexmitTimeoutType ==
  ASSUME TypeOK, NEW e \in Endpoint, RexmitTimeout(e)
  PROVE  TypeOK'
<1> DEFINE f     == Fired(e, "REXMIT")
           k     == [f EXCEPT !.rexmit_count = @ + 1]
           abort == [Indicate(k, "TIMED_OUT") EXCEPT !.event = "ABORT"]
           again == [Schedule(k, "REXMIT") EXCEPT
                       !.lossRecovery = FALSE, !.recover = k.snd_max - 1, !.afterRto = TRUE]
<1>1. f \in Connections
  BY FiredType
<1> HIDE DEF f
<1>2. f.rexmit_count + 1 \in Nat
  BY <1>1, Fields
<1>3. k \in Connections
  BY <1>1, <1>2, SetNat
<1> HIDE DEF k
<1>4. abort \in Connections
  BY <1>3, IndicateType, SetState DEF Indication, Event
<1>5. Schedule(k, "REXMIT") \in Connections /\ k.snd_max - 1 \in Int
  BY <1>3, ScheduleType, Fields DEF Timer
<1>6. again \in Connections
  BY <1>5, SetBoolean, SetInt
<1> HIDE DEF abort, again
<1>7. /\ PerformStateTransition(abort) \in Connections
      /\ RetransmitOneSegment(again, TRUE) \in Connections
  BY <1>4, <1>6, PerformStateTransitionType, RetransmitOneSegmentType
<1>8. DoTimed(e, PerformStateTransition(abort)) \/ DoTimed(e, RetransmitOneSegment(again, TRUE))
  BY DEF RexmitTimeout, f, k, abort, again
<1> QED
  BY <1>7, <1>8, DoTimedType

LEMMA DelayedAckTimeoutType ==
  ASSUME TypeOK, NEW e \in Endpoint, DelayedAckTimeout(e)
  PROVE  TypeOK'
BY FiredType, SendAckType, DoType DEF DelayedAckTimeout
-----------------------------------------------------------------------------
(* Segments that arrive.                                                   *)

LEMMA ReceiveWhileClosedType ==
  ASSUME TypeOK, NEW e \in Endpoint, NEW s \in Segments, ReceiveWhileClosed(e, s)
  PROVE  TypeOK'
<1> DEFINE k   == conn[e]
           end == s.seq + s.len + (IF "SYN" \in s.flags THEN 1 ELSE 0)
                                + (IF "FIN" \in s.flags THEN 1 ELSE 0)
           r   == Segment({"RST", "ACK"}, 0, end, 0)
           k1  == CASE "RST" \in s.flags -> k
                    [] s.flags \cap {"RST", "ACK"} = {} -> Emit(k, r)
                    [] OTHER -> SendRst(k, s.ackNo)
<1>1. s.ackNo \in Nat /\ end \in Nat
  BY DEF Segments
<1> HIDE DEF end
<1>2. r \in Segments
  BY <1>1, SegmentType DEF Flag
<1> HIDE DEF r
<1>3. k \in Connections
  BY DEF TypeOK
<1>4. k1 \in Connections
  BY <1>1, <1>2, <1>3, EmitType, SendRstType
<1> HIDE DEF k1
<1>5. Take(e, s, k1)
  BY DEF ReceiveWhileClosed, k1, r, end
<1> QED
  BY <1>4, <1>5, TakeType

LEMMA ReceiveInListenType ==
  ASSUME TypeOK, NEW e \in Endpoint, NEW s \in Segments, ReceiveInListen(e, s)
  PROVE  TypeOK'
<1> DEFINE k  == conn[e]
           k0 == [k EXCEPT !.rcv_nxt = s.seq + 1, !.rcvQueue = {}]
           k1 == SelectInitialSeqNum(k0)
           k2 == StartSynRexmitTimer(SendSynAck(k1))
           k3 == [k2 EXCEPT !.timers = @ \cup {"CONN_ESTAB"}, !.event = "RCV_SYN"]
           r  == CASE "RST" \in s.flags -> k
                   [] s.flags \cap {"RST", "ACK"} = {"ACK"} -> SendRst(k, s.ackNo)
                   [] s.flags \cap {"RST", "ACK", "SYN"} = {"SYN"}
                        -> PerformStateTransition(k3)
                   [] OTHER -> k
<1>1. s.ackNo \in Nat /\ s.seq + 1 \in Nat
  BY DEF Segments
<1>2. k \in Connections
  BY DEF TypeOK
<1>3. k0 \in Connections
  BY <1>1, <1>2, SetNat, SetState
<1> HIDE DEF k0
<1>4. k2 \in Connections
  BY <1>3, SelectInitialSeqNumType, SendSynType, StartSynRexmitTimerType
<1> HIDE DEF k2
<1>5. k2.timers \cup {"CONN_ESTAB"} \in SUBSET Timer
  BY <1>4, Fields DEF Timer, SetupTimers
<1>6. k3 \in Connections
  BY <1>4, <1>5, SetState DEF Event
<1> HIDE DEF k3
<1>7. r \in Connections
  BY <1>1, <1>2, <1>6, SendRstType, PerformStateTransitionType
<1> HIDE DEF r
<1>8. Take(e, s, r)
  BY DEF ReceiveInListen, r, k3, k2, k0
<1> QED
  BY <1>7, <1>8, TakeType

LEMMA ProcessSynInSynSentType ==
  ASSUME NEW k \in Connections, NEW s \in Segments, NEW w \in Nat
  PROVE  ProcessSynInSynSent(k, s, w) \in Connections
<1> DEFINE k1 == [k EXCEPT !.rcv_nxt = s.seq + 1, !.rcvQueue = {}]
           a  == Assert(k1, k.bufStart <= s.ackNo /\ s.ackNo <= k.bufEnd)
           k2 == [a EXCEPT !.snd_una = s.ackNo, !.bufStart = s.ackNo, !.ack_now = TRUE]
           k3 == EstablishedActive(k2, w)
<1>1. s.ackNo \in Nat /\ s.seq + 1 \in Nat
  BY DEF Segments
<1>2. k1 \in Connections
  BY <1>1, SetNat, SetState
<1> HIDE DEF k1
<1>3. a \in Connections
  BY <1>2, AssertType
<1> HIDE DEF a
<1>4. k2 \in Connections
  BY <1>1, <1>3, SetNat, SetBoolean
<1> HIDE DEF k2
<1>5. k3 \in Connections
  BY <1>4, SendDataType, SendAckType DEF EstablishedActive
<1> HIDE DEF k3
<1>6. [Indicate(k3, "ESTABLISHED") EXCEPT !.event = "RCV_SYN_ACK"] \in Connections
  BY <1>5, IndicateType, SetState DEF Indication, Event
<1>7. [StartSynRexmitTimer(SendSynAck(k1)) EXCEPT !.event = "RCV_SYN"] \in Connections
  BY <1>2, SendSynType, StartSynRexmitTimerType, SetState DEF Event
<1> QED
  BY <1>6, <1>7 DEF ProcessSynInSynSent, k1, a, k2, k3

LEMMA ReceiveInSynSentType ==
  ASSUME TypeOK, NEW e \in Endpoint, NEW s \in Segments, NEW w \in Nat,
         ReceiveInSynSent(e, s, w)
  PROVE  TypeOK'
<1> DEFINE k      == conn[e]
           badAck == "ACK" \in s.flags /\ (s.ackNo <= k.iss \/ s.ackNo > k.snd_nxt)
           reset  == [Indicate(k, "CONNECTION_RESET") EXCEPT !.event = "RCV_RST"]
           r == CASE badAck /\ "RST" \notin s.flags -> SendRst(k, s.ackNo)
                  [] ~badAck /\ {"RST", "ACK"} \subseteq s.flags -> reset
                  [] ~badAck /\ s.flags \cap {"RST", "SYN"} = {"SYN"}
                       -> ProcessSynInSynSent(k, s, w)
                  [] OTHER -> k
<1>1. s.ackNo \in Nat
  BY DEF Segments
<1>2. k \in Connections
  BY DEF TypeOK
<1>3. reset \in Connections
  BY <1>2, IndicateType, SetState DEF Indication, Event
<1> HIDE DEF reset, badAck
<1>4. r \in Connections
  BY <1>1, <1>2, <1>3, SendRstType, ProcessSynInSynSentType
<1> HIDE DEF r
<1>5. PerformStateTransition(r) \in Connections
  BY <1>4, PerformStateTransitionType
<1>6. Take(e, s, PerformStateTransition(r))
  BY DEF ReceiveInSynSent, r, reset, badAck
<1> QED
  BY <1>5, <1>6, TakeType

LEMMA ReceiveUnacceptableType ==
  ASSUME TypeOK, NEW e \in Endpoint, NEW s \in Segments, ReceiveUnacceptable(e, s)
  PROVE  TypeOK'
<1>1. conn[e] \in Connections /\ SendAck(conn[e]) \in Connections
  BY SendAckType DEF TypeOK
<1> QED
  BY <1>1, TakeType DEF ReceiveUnacceptable

LEMMA ReceiveRstType ==
  ASSUME TypeOK, NEW e \in Endpoint, NEW s \in Segments, ReceiveRst(e, s)
  PROVE  TypeOK'
<1> DEFINE k  == conn[e]
           b  == IF k.fsm = "SYN_RCVD" THEN k.bufEnd ELSE k.bufStart
           k1 == [k EXCEPT !.event = "RCV_RST",
                           !.bufStart = IF k.fsm = "SYN_RCVD" THEN k.bufEnd ELSE @]
           r == CASE k.fsm = "SYN_RCVD" /\ k.active -> Indicate(k1, "CONNECTION_REFUSED")
                  [] k.fsm \in {"ESTABLISHED", "FIN_WAIT_1", "FIN_WAIT_2", "CLOSE_WAIT"}
                       -> Indicate(k1, "CONNECTION_RESET")
                  [] OTHER -> k1
<1>1. k \in Connections
  BY DEF TypeOK
<1>2. b \in Nat
  BY <1>1, Fields
<1>3. k1 \in Connections
  BY <1>1, <1>2, SetNat, SetState DEF Event
<1> HIDE DEF k1
<1>4. r \in Connections
  BY <1>3, IndicateType DEF Indication
<1> HIDE DEF r
<1>5. PerformStateTransition(r) \in Connections
  BY <1>4, PerformStateTransitionType
<1>6. Take(e, s, PerformStateTransition(r))
  BY DEF ReceiveRst, r, k1
<1> QED
  BY <1>5, <1>6, TakeType

LEMMA ReceiveUnexpectedSynType ==
  ASSUME TypeOK, NEW e \in Endpoint, NEW s \in Segments, ReceiveUnexpectedSyn(e, s)
  PROVE  TypeOK'
<1> DEFINE k == [Indicate(conn[e], "CONNECTION_RESET") EXCEPT !.event = "RCV_UNEXP_SYN"]
<1>1. conn[e] \in Connections
  BY DEF TypeOK
<1>2. k \in Connections
  BY <1>1, IndicateType, SetState DEF Indication, Event
<1> HIDE DEF k
<1>3. Take(e, s, PerformStateTransition(k))
  BY DEF ReceiveUnexpectedSyn, k
<1> QED
  BY <1>2, <1>3, PerformStateTransitionType, TakeType

LEMMA ReceiveSegmentType ==
  ASSUME TypeOK, NEW e \in Endpoint, NEW s \in Segments, NEW w \in Nat, NEW nx \in Nat,
         ReceiveSegment(e, s, w, nx)
  PROVE  TypeOK'
<1> DEFINE k == conn[e]
           refused == IF k.fsm = "SYN_RCVD" THEN SendRst(k, s.ackNo)
                                            ELSE [SendAck(k) EXCEPT !.dupacks = 0]
<1>1. k \in Connections /\ s.ackNo \in Nat
  BY DEF TypeOK, Segments
<1>2. refused \in Connections
  BY <1>1, SendRstType, SendAckType, SetNat
<1>3. PerformStateTransition(ProcessAckedSegment(k, s, w, nx)) \in Connections
  BY <1>1, ProcessAckedSegmentType, PerformStateTransitionType
<1>4. \/ Take(e, s, k)
      \/ Take(e, s, refused)
      \/ Take(e, s, PerformStateTransition(ProcessAckedSegment(k, s, w, nx)))
  BY DEF ReceiveSegment
<1> QED
  BY <1>1, <1>2, <1>3, <1>4, TakeType

LEMMA ReceiveType ==
  ASSUME TypeOK, NEW e \in Endpoint, Receive(e)
  PROVE  TypeOK'
<1>1. PICK s \in net[e] :
        \/ ReceiveWhileClosed(e, s)
        \/ ReceiveInListen(e, s)
        \/ \E w \in Windows : ReceiveInSynSent(e, s, w)
        \/ ReceiveUnacceptable(e, s)
        \/ ReceiveRst(e, s)
        \/ ReceiveUnexpectedSyn(e, s)
        \/ \E w \in Windows : \E nx \in {conn[e].rcv_nxt, s.seq + 1}
                                \cup {u + 1 : u \in conn[e].rcvQueue} :
             ReceiveSegment(e, s, w, nx)
  BY DEF Receive
<1>2. s \in Segments
  BY DEF TypeOK
<1>3. CASE \E w \in Windows : ReceiveInSynSent(e, s, w)
  BY <1>2, <1>3, WindowsType, ReceiveInSynSentType
<1>4. CASE \E w \in Windows : \E nx \in {conn[e].rcv_nxt, s.seq + 1}
                                \cup {u + 1 : u \in conn[e].rcvQueue} :
             ReceiveSegment(e, s, w, nx)
  <2>1. conn[e] \in Connections
    BY DEF TypeOK
  <2>2. conn[e].rcv_nxt \in Nat /\ conn[e].rcvQueue \in SUBSET Nat
    BY <2>1, Fields
  <2>3. s.seq + 1 \in Nat
    BY <1>2 DEF Segments
  <2>4. {u + 1 : u \in conn[e].rcvQueue} \subseteq Nat
    BY <2>2
  <2> QED
    BY <1>2, <1>4, <2>2, <2>3, <2>4, WindowsType, ReceiveSegmentType
<1> QED
  BY <1>1, <1>2, <1>3, <1>4, ReceiveWhileClosedType, ReceiveInListenType,
     ReceiveUnacceptableType, ReceiveRstType, ReceiveUnexpectedSynType
-----------------------------------------------------------------------------
\* Every reachable state is well typed, for any windows, faults, initial sequence
\* numbers and applications: no arithmetic of a handler leaves the naturals,
\* recover apart, and no handler leaves the table of states.
THEOREM TypeCorrect == Spec => []TypeOK
<1>1. Init => TypeOK
  BY NewConnectionType DEF Init, TypeOK
<1>2. TypeOK /\ [Next]_vars => TypeOK'
  <2> SUFFICES ASSUME TypeOK, [Next]_vars
               PROVE  TypeOK'
    OBVIOUS
  <2>1. CASE UNCHANGED vars
    BY <2>1 DEF vars, TypeOK
  <2>2. CASE Next
    <3>1. PICK e \in Endpoint : Command(e) \/ Timeout(e) \/ Receive(e) \/ Lose(e)
      BY <2>2 DEF Next
    <3>2. CASE Command(e)
      BY <3>2, OpenType, SendType, CloseType, AbortType DEF Command
    <3>3. CASE Timeout(e)
      BY <3>3, SynRexmitTimeoutType, ConnEstabTimeoutType, MSLTimeoutType,
         RexmitTimeoutType, DelayedAckTimeoutType DEF Timeout
    <3>4. CASE Receive(e)
      BY <3>4, ReceiveType
    <3>5. CASE Lose(e)
      BY <3>5, LoseType
    <3> QED
      BY <3>1, <3>2, <3>3, <3>4, <3>5
  <2> QED
    BY <2>1, <2>2
<1> QED
  BY <1>1, <1>2, PTL DEF Spec
=============================================================================
