------------------------- MODULE TCPSending_proofs --------------------------
(***************************************************************************)
(* Most operators of TCPConnection only send, acknowledge and count.       *)
(* These lemmas say that they leave alone what TeardownInv is about, and   *)
(* that a FIN they send has the sequence number close() gave it (Sending). *)
(***************************************************************************)
EXTENDS TCPInvariant, TCPConnection_proofs

\* What sending and acknowledging never change.
SameStream(k, j) ==
  /\ j.fsm = k.fsm /\ j.event = k.event /\ j.active = k.active
  /\ j.sockstate = k.sockstate /\ j.iss = k.iss /\ j.bufEnd = k.bufEnd
  /\ j.send_fin = k.send_fin /\ j.snd_fin_seq = k.snd_fin_seq
  /\ j.rcv_nxt = k.rcv_nxt /\ j.fin_rcvd = k.fin_rcvd
  /\ j.rcv_fin_seq = k.rcv_fin_seq
  /\ j.timers \ {"REXMIT", "DELAYEDACK"} = k.timers \ {"REXMIT", "DELAYEDACK"}

\* Every FIN in out that is not in sent has the sequence number of k's FIN.
NewFins(out, sent, k) ==
  \A s \in out \ sent : "FIN" \in s.flags => FinAt(k, s.seq + s.len)

Sending(k, j) == SameStream(k, j) /\ NewFins(j.out, k.out, k)

LEMMA SendingReflexive ==
  ASSUME NEW k
  PROVE  Sending(k, k)
BY DEF Sending, SameStream, NewFins

LEMMA SendingTransitive ==
  ASSUME NEW k, NEW j, NEW i, Sending(k, j), Sending(j, i)
  PROVE  Sending(k, i)
<1>1. SameStream(k, i)
  BY DEF Sending, SameStream
<1>2. NewFins(i.out, k.out, k)
  BY DEF Sending, SameStream, NewFins, FinAt
<1> QED
  BY <1>1, <1>2 DEF Sending

\* A field that Sending does not mention may be given any value.
LEMMA SendingSet ==
  ASSUME NEW k \in Connections, NEW v
  PROVE  /\ Sending(k, [k EXCEPT !.snd_una = v])
         /\ Sending(k, [k EXCEPT !.snd_nxt = v])
         /\ Sending(k, [k EXCEPT !.snd_max = v])
         /\ Sending(k, [k EXCEPT !.bufStart = v])
         /\ Sending(k, [k EXCEPT !.fin_ack_rcvd = v])
         /\ Sending(k, [k EXCEPT !.afterRto = v])
         /\ Sending(k, [k EXCEPT !.dupacks = v])
         /\ Sending(k, [k EXCEPT !.lossRecovery = v])
         /\ Sending(k, [k EXCEPT !.recover = v])
         /\ Sending(k, [k EXCEPT !.rexmit_count = v])
         /\ Sending(k, [k EXCEPT !.syn_rexmit_count = v])
         /\ Sending(k, [k EXCEPT !.rcvQueue = v])
         /\ Sending(k, [k EXCEPT !.ack_now = v])
         /\ Sending(k, [k EXCEPT !.full_sized = v])
         /\ Sending(k, [k EXCEPT !.last_ack_sent = v])
         /\ Sending(k, [k EXCEPT !.ind = v])
         /\ Sending(k, [k EXCEPT !.delivered = v])
         /\ Sending(k, [k EXCEPT !.fault = v])
BY DEF Sending, SameStream, NewFins, Connections

LEMMA AssertSending ==
  ASSUME NEW k \in Connections, NEW P
  PROVE  Sending(k, Assert(k, P))
BY SendingSet DEF Assert

\* The two timers that come and go while data is exchanged.
LEMMA TimersSending ==
  ASSUME NEW k \in Connections, NEW ts,
         ts \ {"REXMIT", "DELAYEDACK"} = k.timers \ {"REXMIT", "DELAYEDACK"}
  PROVE  Sending(k, [k EXCEPT !.timers = ts])
BY DEF Sending, SameStream, NewFins, Connections

LEMMA CancelSending ==
  ASSUME NEW k \in Connections, NEW ts \in SUBSET {"REXMIT", "DELAYEDACK"}
  PROVE  Sending(k, Cancel(k, ts))
<1>1. (k.timers \ ts) \ {"REXMIT", "DELAYEDACK"} = k.timers \ {"REXMIT", "DELAYEDACK"}
  OBVIOUS
<1> QED
  BY <1>1, TimersSending DEF Cancel

LEMMA EmitSending ==
  ASSUME NEW k \in Connections, NEW s,
         "FIN" \in s.flags => FinAt(k, s.seq + s.len)
  PROVE  Sending(k, Emit(k, s))
BY DEF Sending, SameStream, NewFins, Connections, Emit

LEMMA AckSentSending ==
  ASSUME NEW k \in Connections
  PROVE  Sending(k, AckSent(k))
<1> DEFINE k1 == Cancel(k, {"DELAYEDACK"})
           k2 == [k1 EXCEPT !.full_sized = 0]
           k3 == [k2 EXCEPT !.ack_now = FALSE]
           k4 == [k3 EXCEPT !.last_ack_sent = k.rcv_nxt]
<1>1. k1 \in Connections /\ Sending(k, k1)
  BY CancelType, CancelSending
<1> HIDE DEF k1
<1>2. k2 \in Connections /\ Sending(k1, k2)
  BY <1>1, SetNat, SendingSet
<1> HIDE DEF k2
<1>3. k3 \in Connections /\ Sending(k2, k3)
  BY <1>2, SetBoolean, SendingSet
<1> HIDE DEF k3
<1>4. Sending(k3, k4)
  BY <1>3, SendingSet
<1>5. AckSent(k) = k4
  BY DEF AckSent, k1, k2, k3, k4
<1> HIDE DEF k4
<1> QED
  BY <1>1, <1>2, <1>3, <1>4, <1>5, SendingTransitive

LEMMA SendAckSending ==
  ASSUME NEW k \in Connections
  PROVE  Sending(k, SendAck(k))
<1> DEFINE s  == Segment({"ACK"}, k.snd_nxt, k.rcv_nxt, 0)
           k1 == Emit(k, s)
<1>1. s \in Segments /\ "FIN" \notin s.flags
  BY Fields, SegmentType DEF Flag, Segment
<1>2. k1 \in Connections /\ Sending(k, k1)
  BY <1>1, EmitType, EmitSending
<1> HIDE DEF s, k1
<1>3. Sending(k1, AckSent(k1))
  BY <1>2, AckSentSending
<1> QED
  BY <1>2, <1>3, SendingTransitive DEF SendAck, k1, s

LEMMA SendFinSending ==
  ASSUME NEW k \in Connections, FinAt(k, k.snd_nxt)
  PROVE  Sending(k, SendFin(k))
<1> DEFINE s  == Segment({"FIN", "ACK"}, k.snd_nxt, k.rcv_nxt, 0)
           k1 == Emit(k, s)
<1>1. s \in Segments /\ s.seq = k.snd_nxt /\ s.len = 0 /\ k.snd_nxt \in Nat
  BY Fields, SegmentType DEF Flag, Segment
<1>2. k1 \in Connections /\ Sending(k, k1)
  BY <1>1, EmitType, EmitSending
<1> HIDE DEF s, k1
<1>3. Sending(k1, AckSent(k1))
  BY <1>2, AckSentSending
<1> QED
  BY <1>2, <1>3, SendingTransitive DEF SendFin, k1, s

LEMMA SendRstSending ==
  ASSUME NEW k \in Connections, NEW seq
  PROVE  Sending(k, SendRst(k, seq))
<1> DEFINE s == Segment({"RST"}, seq, 0, 0)
<1>1. "FIN" \notin s.flags
  BY DEF Segment
<1> HIDE DEF s
<1> QED
  BY <1>1, EmitSending DEF SendRst, s

LEMMA SendSegmentsSending ==
  ASSUME NEW k \in Connections, NEW n \in Nat
  PROVE  Sending(k, SendSegments(k, n))
<1> DEFINE end   == k.snd_nxt + n
           fin   == k.send_fin /\ end = k.snd_fin_seq
           flags == [i \in k.snd_nxt .. (end - 1) |->
                       IF fin /\ i = end - 1 THEN {"ACK", "FIN"} ELSE {"ACK"}]
           sent  == {Segment(flags[i], i, k.rcv_nxt, 1) : i \in k.snd_nxt .. (end - 1)}
           k1    == Assert(k, k.bufStart <= k.snd_nxt)
           k2    == [k1 EXCEPT !.out = @ \cup sent]
           k3    == [k2 EXCEPT !.afterRto = k.afterRto /\ end < k.snd_max]
           k4    == [k3 EXCEPT !.snd_nxt = IF fin THEN end + 1 ELSE end]
<1>1. k.snd_nxt \in Nat /\ k.rcv_nxt \in Nat /\ end \in Nat /\ k.afterRto \in BOOLEAN
  BY Fields
<1>2. k1 \in Connections /\ Sending(k, k1) /\ k1.afterRto = k.afterRto
  <2>1. k1.afterRto = k.afterRto
    BY DEF Assert, Connections
  <2> QED
    BY <2>1, AssertType, AssertSending
<1>3. \A s \in sent : s \in Segments /\ ("FIN" \in s.flags => FinAt(k, s.seq + s.len))
  <2> SUFFICES ASSUME NEW i \in k.snd_nxt .. (end - 1)
               PROVE  LET s == Segment(flags[i], i, k.rcv_nxt, 1)
                      IN s \in Segments /\ ("FIN" \in s.flags => FinAt(k, s.seq + s.len))
    OBVIOUS
  <2> DEFINE s == Segment(flags[i], i, k.rcv_nxt, 1)
  <2>1. i \in Nat
    BY <1>1
  <2>2. flags[i] \in SUBSET Flag
    BY DEF Flag
  <2>3. s \in Segments
    BY <1>1, <2>1, <2>2, SegmentType
  <2>4. ASSUME "FIN" \in flags[i] PROVE FinAt(k, i + 1)
    BY <1>1, <2>1, <2>4 DEF FinAt
  <2>5. s.flags = flags[i] /\ s.seq = i /\ s.len = 1
    BY DEF Segment
  <2> QED
    BY <2>3, <2>4, <2>5
<1> HIDE DEF sent, flags, fin, end
<1>4. k2 \in Connections /\ k2.afterRto = k.afterRto
  <2>1. k2.afterRto = k1.afterRto
    BY <1>2 DEF Connections
  <2> QED
    BY <1>2, <1>3, <2>1, Fields, SetState
<1>5. Sending(k1, k2)
  <2>1. SameStream(k1, k2) /\ k2.out = k1.out \cup sent
    BY <1>2 DEF Connections, SameStream
  <2>2. \A s \in sent : "FIN" \in s.flags => FinAt(k1, s.seq + s.len)
    BY <1>2, <1>3 DEF Sending, SameStream, FinAt
  <2> QED
    BY <2>1, <2>2 DEF Sending, NewFins
<1> HIDE DEF k1, k2
<1>6. k3 \in Connections /\ Sending(k2, k3)
  BY <1>1, <1>4, SetBoolean, SendingSet
<1> HIDE DEF k3
<1>7. Sending(k3, k4)
  BY <1>6, SendingSet
<1>8. SendSegments(k, n) = k4
  BY <1>2 DEF SendSegments, k1, k2, k3, k4, sent, flags, fin, end
<1> HIDE DEF k4
<1> QED
  BY <1>2, <1>5, <1>6, <1>7, <1>8, SendingTransitive

LEMMA RexmitTimerSending ==
  ASSUME NEW k \in Connections
  PROVE  /\ Sending(k, StartRexmitTimer(k))
         /\ Sending(k, RestartRexmitTimer(k))
         /\ Sending(k, DataSent(k))
<1>1. \A j \in Connections : Sending(j, StartRexmitTimer(j))
  <2> SUFFICES ASSUME NEW j \in Connections
               PROVE  Sending(j, StartRexmitTimer(j))
    OBVIOUS
  <2> DEFINE a == Assert(j, "REXMIT" \notin j.timers)
             b == [a EXCEPT !.timers = @ \cup {"REXMIT"}]
  <2>1. a \in Connections /\ Sending(j, a)
    BY AssertType, AssertSending
  <2> HIDE DEF a
  <2>2. b \in Connections
    BY <2>1, Fields, SetState DEF Timer
  <2>3. (a.timers \cup {"REXMIT"}) \ {"REXMIT", "DELAYEDACK"}
          = a.timers \ {"REXMIT", "DELAYEDACK"}
    OBVIOUS
  <2>4. Sending(a, b)
    BY <2>1, <2>3, TimersSending
  <2>5. StartRexmitTimer(j) = [b EXCEPT !.rexmit_count = 0]
    BY DEF StartRexmitTimer, Schedule, a, b
  <2> HIDE DEF b
  <2> QED
    BY <2>1, <2>2, <2>4, <2>5, SendingSet, SendingTransitive
<1>2. Cancel(k, {"REXMIT"}) \in Connections /\ Sending(k, Cancel(k, {"REXMIT"}))
  BY CancelType, CancelSending
<1> QED
  BY <1>1, <1>2, SendingReflexive, SendingTransitive DEF RestartRexmitTimer, DataSent

LEMMA SendDataSending ==
  ASSUME NEW k \in Connections, NEW w \in Nat
  PROVE  Sending(k, SendData(k, w))
<1> DEFINE k1       == IF k.afterRto THEN k ELSE [k EXCEPT !.snd_nxt = k.snd_max]
           flight   == k1.snd_nxt - k1.snd_una
           buffered == BytesAvailable(k1, k1.snd_nxt)
           n        == IF w - flight < buffered THEN w - flight ELSE buffered
           k2       == SendSegments(k1, n)
           k3       == [k2 EXCEPT !.snd_max = IF k2.snd_nxt > @ THEN k2.snd_nxt ELSE @]
<1>1. k1 \in Connections /\ Sending(k, k1)
  BY Fields, SetNat, SendingSet, SendingReflexive
<1> HIDE DEF k1
<1>2. flight \in Int /\ buffered \in Nat
  <2>1. k1.snd_nxt \in Nat /\ k1.snd_una \in Nat
    BY <1>1, Fields
  <2> QED
    BY <1>1, <2>1, BytesAvailableType
<1>3. CASE buffered = 0 \/ w <= flight
  BY <1>1, <1>3, ZenonT(40) DEF SendData, k1
<1>4. CASE ~(buffered = 0 \/ w <= flight)
  <2>1. n \in Nat
    BY <1>2, <1>4
  <2>2. k2 \in Connections /\ Sending(k1, k2)
    BY <1>1, <2>1, SendSegmentsType, SendSegmentsSending
  <2> HIDE DEF k2
  <2>3. (IF k2.snd_nxt > k2.snd_max THEN k2.snd_nxt ELSE k2.snd_max) \in Nat
    BY <2>2, Fields
  <2>4. k3 \in Connections /\ Sending(k2, k3)
    BY <2>2, <2>3, SetNat, SendingSet
  <2> HIDE DEF k3
  <2>5. AckSent(k3) \in Connections /\ Sending(k3, AckSent(k3))
    BY <2>4, AckSentType, AckSentSending
  <2>6. Sending(AckSent(k3), DataSent(AckSent(k3)))
    BY <2>5, RexmitTimerSending
  <2>7. SendData(k, w) = DataSent(AckSent(k3))
    BY <1>4, SMTT(20) DEF SendData, k1, k2, k3
  <2> QED
    BY <1>1, <2>2, <2>4, <2>5, <2>6, <2>7, SendingTransitive
<1> QED
  BY <1>3, <1>4

\* The FIN is retransmitted alone when it is all that is outstanding.
LEMMA RetransmitOneSegmentSending ==
  ASSUME NEW k \in Connections, NEW atRto
  PROVE  /\ Sending(k, RetransmitOneSegment(k, atRto))
         /\ ~k.send_fin => RetransmitOneSegment(k, atRto).snd_max = k.snd_max
<1> DEFINE n  == IF k.snd_max > k.snd_una /\ BytesAvailable(k, k.snd_una) > 0
                   THEN 1 ELSE 0
           k1 == [k EXCEPT !.snd_nxt = k.snd_una]
           a  == Assert(k1, n # 0)
           k2 == SendSegments(a, n)
           k3 == [k2 EXCEPT !.snd_nxt = IF ~atRto /\ k.snd_nxt > @ THEN k.snd_nxt ELSE @]
<1>1. CASE n = 0 /\ k.send_fin /\ k.snd_fin_seq = k.bufEnd
  <2> DEFINE f0 == [k EXCEPT !.snd_nxt = k.bufEnd]
             f1 == SendFin(f0)
             f2 == [f1 EXCEPT !.snd_nxt = k.bufEnd + 1]
             f3 == [f2 EXCEPT !.snd_max = k.bufEnd + 1]
  <2>1. f0 \in Connections /\ Sending(k, f0)
    BY Fields, SetNat, SendingSet
  <2>2. FinAt(f0, f0.snd_nxt)
    BY <1>1 DEF FinAt, Connections
  <2> HIDE DEF f0
  <2>3. f1 \in Connections /\ Sending(f0, f1)
    BY <2>1, <2>2, SendFinType, SendFinSending
  <2> HIDE DEF f1
  <2>4. k.bufEnd + 1 \in Nat
    BY Fields
  <2>5. f2 \in Connections /\ Sending(f1, f2)
    BY <2>3, <2>4, SetNat, SendingSet
  <2> HIDE DEF f2
  <2>6. Sending(f2, f3)
    BY <2>5, SendingSet
  <2>7. RetransmitOneSegment(k, atRto) = f3
    BY <1>1 DEF RetransmitOneSegment, f0, f1, f2, f3
  <2> QED
    BY <1>1, <2>1, <2>3, <2>5, <2>6, <2>7, SendingTransitive
<1>2. CASE ~(n = 0 /\ k.send_fin /\ k.snd_fin_seq = k.bufEnd)
  <2>1. k1 \in Connections /\ Sending(k, k1) /\ k1.snd_max = k.snd_max
    <3>1. k1.snd_max = k.snd_max
      BY DEF Connections
    <3> QED
      BY <3>1, Fields, SetNat, SendingSet
  <2> HIDE DEF k1
  <2>2. n \in Nat
    OBVIOUS
  <2>3. a \in Connections /\ Sending(k1, a) /\ a.snd_max = k1.snd_max
    <3>1. a.snd_max = k1.snd_max
      BY <2>1 DEF Assert, Connections
    <3> QED
      BY <2>1, <3>1, AssertType, AssertSending
  <2>4. n \in Nat /\ k.snd_nxt \in Nat
    BY Fields
  <2> HIDE DEF a, n
  <2>5. k2 \in Connections /\ Sending(a, k2) /\ k2.snd_max = a.snd_max
    <3>1. k2.snd_max = a.snd_max
      BY <2>3 DEF SendSegments, Assert, Connections
    <3> QED
      BY <2>3, <2>4, <3>1, SendSegmentsType, SendSegmentsSending
  <2> HIDE DEF k2
  <2>6. (IF ~atRto /\ k.snd_nxt > k2.snd_nxt THEN k.snd_nxt ELSE k2.snd_nxt) \in Nat
    BY <2>4, <2>5, Fields
  <2>7. k3 \in Connections /\ Sending(k2, k3) /\ k3.snd_max = k2.snd_max
    <3>1. k3.snd_max = k2.snd_max
      BY <2>5 DEF Connections
    <3> QED
      BY <2>5, <2>6, <3>1, SetNat, SendingSet
  <2> HIDE DEF k3
  <2>8. Sending(k3, AckSent(k3)) /\ AckSent(k3).snd_max = k3.snd_max
    <3>1. AckSent(k3).snd_max = k3.snd_max
      BY <2>7 DEF AckSent, Cancel, Connections
    <3> QED
      BY <2>7, <3>1, AckSentSending
  <2>9. RetransmitOneSegment(k, atRto) = AckSent(k3)
    BY <1>2 DEF RetransmitOneSegment, k1, k2, k3, a, n
  <2> QED
    BY <2>1, <2>3, <2>5, <2>7, <2>8, <2>9, SendingTransitive
<1> QED
  BY <1>1, <1>2
-----------------------------------------------------------------------------
(* Acknowledgments.                                                        *)

LEMMA ReceivedDataAckSending ==
  ASSUME NEW k \in Connections, NEW w \in Nat
  PROVE  Sending(k, ReceivedDataAck(k, w))
<1> DEFINE k1 == IF k.snd_una = k.snd_max THEN Cancel(k, {"REXMIT"})
                                          ELSE RestartRexmitTimer(k)
           partial == k.lossRecovery /\ k.snd_una - 1 < k.recover
           r  == RetransmitOneSegment(k1, FALSE)
           to == IF k.lossRecovery THEN k1.recover ELSE k.snd_una - 2
           l  == [k1 EXCEPT !.lossRecovery = FALSE]
           k2 == IF partial THEN SendData(r, w) ELSE [l EXCEPT !.recover = to]
           d  == SendData(k2, w)
<1>1. k1 \in Connections /\ Sending(k, k1)
  BY CancelType, CancelSending, RexmitTimerType, RexmitTimerSending
<1>2. to \in Int
  BY <1>1, Fields
<1>3. k1.recover = l.recover
  BY <1>1 DEF Connections
<1> HIDE DEF k1
<1>4. r \in Connections /\ Sending(k1, r)
  BY <1>1, RetransmitOneSegmentType, RetransmitOneSegmentSending
<1> HIDE DEF r
<1>5. SendData(r, w) \in Connections /\ Sending(k1, SendData(r, w))
  BY <1>4, SendDataType, SendDataSending, SendingTransitive
<1>6. l \in Connections /\ Sending(k1, l)
  BY <1>1, SetBoolean, SendingSet
<1> HIDE DEF l, to
<1>7. [l EXCEPT !.recover = to] \in Connections /\ Sending(l, [l EXCEPT !.recover = to])
  BY <1>2, <1>6, SetInt, SendingSet
<1>8. k2 \in Connections /\ Sending(k1, k2)
  BY <1>5, <1>6, <1>7, SendingTransitive
<1>9. ReceivedDataAck(k, w) = [SendData(k2, w) EXCEPT !.dupacks = 0]
  BY <1>3 DEF ReceivedDataAck, k1, k2, l, r, to, partial
<1> HIDE DEF k2
<1>10. d \in Connections /\ Sending(k2, d)
  BY <1>8, SendDataType, SendDataSending
<1> HIDE DEF d
<1>11. Sending(d, [d EXCEPT !.dupacks = 0])
  BY <1>10, SendingSet
<1>12. Sending(k, [d EXCEPT !.dupacks = 0])
  BY <1>1, <1>8, <1>10, <1>11, SendingTransitive
<1> QED
  BY <1>9, <1>12 DEF d

LEMMA ReceivedDuplicateAckSending ==
  ASSUME NEW k \in Connections, NEW w \in Nat
  PROVE  Sending(k, ReceivedDuplicateAck(k, w))
<1> DEFINE l  == [k EXCEPT !.lossRecovery = TRUE]
           k1 == [l EXCEPT !.recover = k.snd_max - 1]
           r  == RetransmitOneSegment(k1, FALSE)
<1>1. k.snd_max - 1 \in Int
  BY Fields
<1>2. l \in Connections /\ Sending(k, l)
  BY SetBoolean, SendingSet
<1>3. ReceivedDuplicateAck(k, w) \in {SendData(r, w), SendData(k, w), k}
  BY DEF ReceivedDuplicateAck, l, k1, r
<1> HIDE DEF l
<1>4. k1 \in Connections /\ Sending(l, k1)
  BY <1>1, <1>2, SetInt, SendingSet
<1> HIDE DEF k1
<1>5. r \in Connections /\ Sending(k1, r)
  BY <1>4, RetransmitOneSegmentType, RetransmitOneSegmentSending
<1> HIDE DEF r
<1>6. Sending(r, SendData(r, w)) /\ Sending(k, SendData(k, w))
  BY <1>5, SendDataSending
<1>7. Sending(k, SendData(r, w))
  BY <1>2, <1>4, <1>5, <1>6, SendingTransitive
<1> QED
  BY <1>3, <1>6, <1>7, SendingReflexive

LEMMA NewAckSending ==
  ASSUME NEW k \in Connections, NEW s \in Segments, NEW w \in Nat
  PROVE  Sending(k, NewAck(k, s, w))
<1> DEFINE fin  == k.send_fin /\ s.ackNo = k.snd_fin_seq + 1
           upTo == IF fin THEN s.ackNo - 1 ELSE s.ackNo
           a    == Assert(k, k.bufStart <= upTo /\ upTo <= k.bufEnd)
           b    == [a EXCEPT !.snd_una = s.ackNo]
           nxt  == IF b.snd_nxt < s.ackNo THEN s.ackNo ELSE b.snd_nxt
           c    == [b EXCEPT !.snd_nxt = nxt]
           ackd == c.fin_ack_rcvd \/ fin
           d    == [c EXCEPT !.fin_ack_rcvd = ackd]
           k1   == [d EXCEPT !.bufStart = upTo]
<1>1. s.ackNo \in Nat
  BY DEF Segments
<1>2. upTo \in Nat
  BY <1>1, Fields
<1>3. a \in Connections /\ Sending(k, a)
  BY AssertType, AssertSending
<1>4. NewAck(k, s, w) \in {ReceivedDataAck(k1, w), k1}
  <2>1. k1 = [a EXCEPT !.snd_una = s.ackNo,
                       !.snd_nxt = IF @ < s.ackNo THEN s.ackNo ELSE @,
                       !.fin_ack_rcvd = @ \/ fin, !.bufStart = upTo]
    BY <1>3 DEF Connections
  <2> HIDE DEF k1, a, upTo, fin
  <2> QED
    BY <2>1 DEF NewAck, a, upTo, fin
<1> HIDE DEF a, upTo, fin
<1>5. b \in Connections /\ Sending(a, b)
  BY <1>1, <1>3, SetNat, SendingSet
<1> HIDE DEF b
<1>6. nxt \in Nat
  BY <1>1, <1>5, Fields
<1> HIDE DEF nxt
<1>7. c \in Connections /\ Sending(b, c)
  BY <1>5, <1>6, SetNat, SendingSet
<1> HIDE DEF c
<1>8. ackd \in BOOLEAN
  OBVIOUS
<1> HIDE DEF ackd
<1>9. d \in Connections /\ Sending(c, d)
  BY <1>7, <1>8, SetBoolean, SendingSet
<1> HIDE DEF d
<1>10. k1 \in Connections /\ Sending(d, k1)
  BY <1>2, <1>9, SetNat, SendingSet
<1> HIDE DEF k1
<1>11. Sending(k, k1)
  BY <1>3, <1>5, <1>7, <1>9, <1>10, SendingTransitive
<1>12. Sending(k, ReceivedDataAck(k1, w))
  BY <1>10, <1>11, ReceivedDataAckSending, SendingTransitive
<1> QED
  BY <1>4, <1>11, <1>12

LEMMA ProcessAckSending ==
  ASSUME NEW k \in Connections, NEW s \in Segments, NEW w \in Nat
  PROVE  Sending(k, ProcessAck(k, s, w))
<1> DEFINE c == CountDuplicate(k)
<1>1. (IF k.dupacks > DUPTHRESH THEN k.dupacks ELSE k.dupacks + 1) \in Nat
  BY Fields
<1>2. c \in Connections /\ Sending(k, c)
  BY <1>1, SetNat, SendingSet DEF CountDuplicate
<1> HIDE DEF c
<1>3. Sending(k, ReceivedDuplicateAck(c, w))
  BY <1>2, ReceivedDuplicateAckSending, SendingTransitive
<1>4. ProcessAck(k, s, w) \in
        {NewAck(k, s, w), ReceivedDuplicateAck(c, w), [k EXCEPT !.dupacks = 0]}
  BY DEF ProcessAck, c
<1>5. Sending(k, NewAck(k, s, w)) /\ Sending(k, [k EXCEPT !.dupacks = 0])
  BY NewAckSending, SendingSet
<1> QED
  BY <1>3, <1>4, <1>5

LEMMA ReceiveSeqChangedSending ==
  ASSUME NEW k \in Connections
  PROVE  Sending(k, ReceiveSeqChanged(k))
<1>1. (k.timers \cup {"DELAYEDACK"}) \ {"REXMIT", "DELAYEDACK"}
        = k.timers \ {"REXMIT", "DELAYEDACK"}
  OBVIOUS
<1>2. Sending(k, [k EXCEPT !.timers = @ \cup {"DELAYEDACK"}])
  BY <1>1, TimersSending
<1> QED
  BY <1>2, SendAckSending, SendingReflexive DEF ReceiveSeqChanged

LEMMA SendSynSending ==
  ASSUME NEW k \in Connections
  PROVE  /\ Sending(k, SendSyn(k)) /\ Sending(k, SendSynAck(k))
         /\ SendSyn(k).snd_max = k.iss + 1 /\ SendSynAck(k).snd_max = k.iss + 1
<1> DEFINE m  == [k EXCEPT !.snd_max = k.iss + 1]
           k1 == [m EXCEPT !.snd_nxt = k.iss + 1]
           s  == Segment({"SYN"}, k.iss, 0, 0)
           a  == Segment({"SYN", "ACK"}, k.iss, k.rcv_nxt, 0)
<1>1. k.iss + 1 \in Nat /\ k.iss \in Nat /\ k.rcv_nxt \in Nat
  BY Fields
<1>2. m \in Connections /\ Sending(k, m)
  BY <1>1, SetNat, SendingSet
<1>3. k1.snd_max = k.iss + 1
  BY DEF Connections
<1>4. SendSyn(k) = Emit(k1, s) /\ SendSynAck(k) = AckSent(Emit(k1, a))
  BY DEF SendSyn, SendSynAck, m, k1, s, a
<1> HIDE DEF m
<1>5. k1 \in Connections /\ Sending(m, k1)
  BY <1>1, <1>2, SetNat, SendingSet
<1> HIDE DEF k1
<1>6. /\ s \in Segments /\ a \in Segments
      /\ "FIN" \notin s.flags /\ "FIN" \notin a.flags
  BY <1>1, SegmentType DEF Flag, Segment
<1> HIDE DEF s, a
<1>7. /\ Emit(k1, s) \in Connections /\ Emit(k1, a) \in Connections
      /\ Sending(k1, Emit(k1, s)) /\ Sending(k1, Emit(k1, a))
  BY <1>5, <1>6, EmitType, EmitSending
<1>8. Sending(Emit(k1, a), AckSent(Emit(k1, a)))
  BY <1>7, AckSentSending
<1>9. /\ Emit(k1, s).snd_max = k.iss + 1
      /\ AckSent(Emit(k1, a)).snd_max = k.iss + 1
  BY <1>3, <1>5 DEF Emit, AckSent, Cancel, Connections
<1> QED
  BY <1>2, <1>4, <1>5, <1>7, <1>8, <1>9, SendingTransitive
=============================================================================
