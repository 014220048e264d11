------------------------- MODULE TCPTransfer_proofs -------------------------
(***************************************************************************)
(* Proof that TransferInv is an invariant, and what follows from it.       *)
(***************************************************************************)
EXTENDS TCPTransfer, TCPTeardown_proofs
-----------------------------------------------------------------------------
(* What sending does to the send variables and to the network.             *)

\* An ACK of j, with one unit of its send queue, with its FIN, or with both.
Carried(s, j) ==
  /\ s.flags \in {{"ACK"}, {"ACK", "FIN"}} /\ s.ackNo = j.rcv_nxt
  /\ s.len # 0 => s.len = 1 /\ j.iss < s.seq /\ s.seq < j.bufEnd /\ s.seq < j.snd_max
  /\ "FIN" \in s.flags => s.seq + s.len < j.snd_max

\* j is k after sending: nothing has been told or delivered or acknowledged.
Moves(k, j) ==
  /\ j.ind = k.ind /\ j.delivered = k.delivered /\ j.rcvQueue = k.rcvQueue
  /\ j.fault = k.fault /\ j.fin_ack_rcvd = k.fin_ack_rcvd /\ j.snd_una = k.snd_una
  /\ k.snd_max <= j.snd_max
  /\ \A s \in j.out \ k.out : Carried(s, j)

Sends(k, j) == j \in Connections /\ Sending(k, j) /\ Moves(k, j)

LEMMA SendsReflexive ==
  ASSUME NEW k \in Connections
  PROVE  Sends(k, k)
BY Fields, SendingReflexive DEF Sends, Moves

LEMMA SendsTransitive ==
  ASSUME NEW k \in Connections, NEW j, NEW i, Sends(k, j), Sends(j, i)
  PROVE  Sends(k, i)
<1>1. j \in Connections /\ i \in Connections /\ Sending(k, j) /\ Sending(j, i)
  BY DEF Sends
<1>2. /\ k.snd_max \in Nat /\ j.snd_max \in Nat /\ i.snd_max \in Nat
      /\ k.out \in SUBSET Segments /\ j.out \in SUBSET Segments /\ i.out \in SUBSET Segments
  BY <1>1, Fields
<1>3. k.snd_max <= j.snd_max /\ j.snd_max <= i.snd_max
  BY DEF Sends, Moves
<1>4. i.iss = j.iss /\ i.bufEnd = j.bufEnd /\ i.rcv_nxt = j.rcv_nxt
  BY <1>1 DEF Sending, SameStream
<1>5. ASSUME NEW s \in i.out \ k.out PROVE Carried(s, i)
  <2>1. CASE s \in j.out
    <3>1. Carried(s, j) /\ s.seq \in Nat /\ s.len \in Nat
      BY <1>2, <1>5, <2>1 DEF Sends, Moves, Segments
    <3> QED
      BY <1>2, <1>3, <1>4, <3>1 DEF Carried
  <2>2. CASE s \notin j.out
    BY <1>5, <2>2 DEF Sends, Moves
  <2> QED
    BY <2>1, <2>2
<1>6. Moves(k, i)
  BY <1>2, <1>3, <1>5 DEF Sends, Moves
<1> QED
  BY <1>1, <1>6, SendingTransitive DEF Sends

\* Fields that come and go while data is exchanged.
LEMMA SetSends ==
  ASSUME NEW k \in Connections
  PROVE  /\ \A n \in Nat : Sends(k, [k EXCEPT !.snd_nxt = n])
         /\ \A n \in Nat : k.snd_max <= n => Sends(k, [k EXCEPT !.snd_max = n])
         /\ \A n \in Nat : Sends(k, [k EXCEPT !.bufStart = n])
         /\ \A n \in Nat : Sends(k, [k EXCEPT !.dupacks = n])
         /\ \A n \in Nat : Sends(k, [k EXCEPT !.rexmit_count = n])
         /\ \A b \in BOOLEAN : Sends(k, [k EXCEPT !.afterRto = b])
         /\ \A b \in BOOLEAN : Sends(k, [k EXCEPT !.lossRecovery = b])
         /\ \A b \in BOOLEAN : Sends(k, [k EXCEPT !.ack_now = b])
         /\ \A n \in Nat : Sends(k, [k EXCEPT !.full_sized = n])
         /\ \A n \in Int : Sends(k, [k EXCEPT !.recover = n])
         /\ \A ts \in SUBSET {"REXMIT", "DELAYEDACK"} : Sends(k, Cancel(k, ts))
<1>1. k.snd_max \in Nat
  BY Fields
<1>2. ASSUME NEW n \in Nat
      PROVE  /\ Moves(k, [k EXCEPT !.snd_nxt = n])
             /\ k.snd_max <= n => Moves(k, [k EXCEPT !.snd_max = n])
             /\ Moves(k, [k EXCEPT !.bufStart = n])
             /\ Moves(k, [k EXCEPT !.dupacks = n])
             /\ Moves(k, [k EXCEPT !.rexmit_count = n])
             /\ Moves(k, [k EXCEPT !.full_sized = n])
  BY <1>1 DEF Moves, Connections
<1>3. ASSUME NEW b \in BOOLEAN
      PROVE  /\ Moves(k, [k EXCEPT !.afterRto = b])
             /\ Moves(k, [k EXCEPT !.lossRecovery = b])
             /\ Moves(k, [k EXCEPT !.ack_now = b])
  BY <1>1 DEF Moves, Connections
<1>4. ASSUME NEW n \in Int PROVE Moves(k, [k EXCEPT !.recover = n])
  BY <1>1 DEF Moves, Connections
<1>5. ASSUME NEW ts \in SUBSET {"REXMIT", "DELAYEDACK"} PROVE Moves(k, Cancel(k, ts))
  BY <1>1 DEF Moves, Connections, Cancel
<1> QED
  BY <1>2, <1>3, <1>4, <1>5, SetNat, SetInt, SetBoolean, SendingSet, CancelType,
     CancelSending DEF Sends
-----------------------------------------------------------------------------
(* Segments that carry no data.                                            *)

\* The send variables of j are those of k, and the REXMIT timer runs in both.
SameBounds(k, j) ==
  /\ j.iss = k.iss /\ j.snd_una = k.snd_una /\ j.snd_nxt = k.snd_nxt
  /\ j.snd_max = k.snd_max /\ j.bufStart = k.bufStart /\ j.bufEnd = k.bufEnd
  /\ j.send_fin = k.send_fin /\ j.snd_fin_seq = k.snd_fin_seq
  /\ j.fin_ack_rcvd = k.fin_ack_rcvd
  /\ j.lossRecovery = k.lossRecovery /\ j.recover = k.recover

SameWindow(k, j) ==
  SameBounds(k, j) /\ ("REXMIT" \in j.timers <=> "REXMIT" \in k.timers)

LEMMA SameWindowKept ==
  ASSUME NEW k, NEW j
  PROVE  /\ SameBounds(k, j) /\ Window(k) => Window(j)
         /\ SameWindow(k, j) /\ Window(k) => Window(j)
         /\ SameWindow(k, j) /\ Armed(k) => Armed(j)
BY DEF SameBounds, SameWindow, Window, Armed

LEMMA AckSentSends ==
  ASSUME NEW k \in Connections
  PROVE  Sends(k, AckSent(k)) /\ SameWindow(k, AckSent(k))
<1>1. k.snd_max \in Nat
  BY Fields
<1>2. Moves(k, AckSent(k))
  BY <1>1 DEF AckSent, Cancel, Moves, Connections
<1>3. SameWindow(k, AckSent(k))
  BY DEF AckSent, Cancel, SameWindow, SameBounds, Connections
<1> QED
  BY <1>2, <1>3, AckSentType, AckSentSending DEF Sends

LEMMA EmitSends ==
  ASSUME NEW k \in Connections, NEW s \in Segments, Carried(s, k),
         "FIN" \in s.flags => FinAt(k, s.seq + s.len)
  PROVE  Sends(k, Emit(k, s)) /\ SameWindow(k, Emit(k, s))
<1> DEFINE j == Emit(k, s)
<1>1. j \in Connections /\ Sending(k, j) /\ j.out = k.out \cup {s} /\ k.snd_max \in Nat
  BY EmitType, EmitSending, Fields DEF Emit, Connections
<1>2. /\ j.ind = k.ind /\ j.delivered = k.delivered /\ j.rcvQueue = k.rcvQueue
      /\ j.fault = k.fault /\ j.rcv_nxt = k.rcv_nxt /\ SameWindow(k, j)
  BY DEF Emit, SameWindow, SameBounds, Connections
<1> HIDE DEF j
<1>3. Carried(s, j)
  BY <1>2 DEF Carried, SameWindow, SameBounds
<1>4. Moves(k, j)
  BY <1>1, <1>2, <1>3 DEF Moves, SameWindow, SameBounds
<1> QED
  BY <1>1, <1>2, <1>4 DEF Sends, j

LEMMA SendAckSends ==
  ASSUME NEW k \in Connections
  PROVE  Sends(k, SendAck(k)) /\ SameWindow(k, SendAck(k))
<1> DEFINE s == Segment({"ACK"}, k.snd_nxt, k.rcv_nxt, 0)
           j == Emit(k, s)
<1>1. s \in Segments /\ Carried(s, k) /\ "FIN" \notin s.flags
  BY Fields, SegmentType DEF Flag, Segment, Carried
<1> HIDE DEF s
<1>2. Sends(k, j) /\ SameWindow(k, j)
  BY <1>1, EmitSends
<1> HIDE DEF j
<1>3. Sends(j, AckSent(j)) /\ SameWindow(j, AckSent(j))
  BY <1>2, AckSentSends DEF Sends
<1>4. SameWindow(k, AckSent(j))
  BY <1>2, <1>3 DEF SameWindow, SameBounds
<1> QED
  BY <1>2, <1>3, <1>4, SendsTransitive DEF SendAck, s, j
-----------------------------------------------------------------------------
(* Segments that carry data.                                               *)

\* Where n units from snd_nxt on lead: with the last one goes the FIN.
LEMMA SendSegmentsSame ==
  ASSUME NEW k \in Connections, NEW n \in Nat, Window(k)
  PROVE  LET j   == SendSegments(k, n)
             end == k.snd_nxt + n
             fin == k.send_fin /\ end = k.bufEnd
         IN /\ j \in Connections /\ Sending(k, j)
            /\ j.ind = k.ind /\ j.delivered = k.delivered /\ j.rcvQueue = k.rcvQueue
            /\ j.fault = k.fault
            /\ SameWindow(k, [j EXCEPT !.snd_nxt = k.snd_nxt])
            /\ j.snd_nxt = IF fin THEN end + 1 ELSE end
            /\ \A s \in j.out \ k.out :
                 /\ s.flags \in {{"ACK"}, {"ACK", "FIN"}} /\ s.ackNo = j.rcv_nxt
                 /\ s.len = 1 /\ s.seq \in k.snd_nxt .. (end - 1)
                 /\ "FIN" \in s.flags => fin /\ s.seq = end - 1
<1> DEFINE end   == k.snd_nxt + n
           last  == k.send_fin /\ end = k.snd_fin_seq
           fin   == k.send_fin /\ end = k.bufEnd
           flags == [i \in k.snd_nxt .. (end - 1) |->
                       IF last /\ i = end - 1 THEN {"ACK", "FIN"} ELSE {"ACK"}]
           sent  == {Segment(flags[i], i, k.rcv_nxt, 1) : i \in k.snd_nxt .. (end - 1)}
           k1    == Assert(k, k.bufStart <= k.snd_nxt)
           j     == SendSegments(k, n)
<1>1. k.bufStart <= k.snd_nxt /\ (k.send_fin => k.snd_fin_seq = k.bufEnd)
  BY Fields DEF Window
<1>2. k1 = k
  BY <1>1 DEF Assert, Connections
<1>3. j = [k EXCEPT !.out = @ \cup sent, !.afterRto = @ /\ end < k.snd_max,
                    !.snd_nxt = IF last THEN end + 1 ELSE end]
  BY <1>2 DEF SendSegments
<1>4. j \in Connections /\ Sending(k, j)
  BY SendSegmentsType, SendSegmentsSending
<1> DEFINE Fit(s) == /\ s.flags \in {{"ACK"}, {"ACK", "FIN"}} /\ s.ackNo = k.rcv_nxt
                     /\ s.len = 1 /\ s.seq \in k.snd_nxt .. (end - 1)
                     /\ "FIN" \in s.flags => last /\ s.seq = end - 1
<1>5. ASSUME NEW i \in k.snd_nxt .. (end - 1) PROVE Fit(Segment(flags[i], i, k.rcv_nxt, 1))
  <2> DEFINE s == Segment(flags[i], i, k.rcv_nxt, 1)
  <2>1. s.flags = flags[i] /\ s.seq = i /\ s.len = 1 /\ s.ackNo = k.rcv_nxt
    BY DEF Segment
  <2>2. flags[i] \in {{"ACK"}, {"ACK", "FIN"}} /\ ("FIN" \in flags[i] => last /\ i = end - 1)
    OBVIOUS
  <2> HIDE DEF s, last, end, flags
  <2> QED
    BY <2>1, <2>2 DEF s
<1> HIDE DEF Fit
<1>9. \A s \in sent : Fit(s)
  BY <1>5
<1> HIDE DEF sent, flags, j
<1>6. /\ j.ind = k.ind /\ j.delivered = k.delivered /\ j.rcvQueue = k.rcvQueue
      /\ j.fault = k.fault /\ j.rcv_nxt = k.rcv_nxt
      /\ j.snd_nxt = (IF last THEN end + 1 ELSE end)
      /\ j.out = k.out \cup sent
  BY <1>3 DEF Connections
<1>7. SameWindow(k, [j EXCEPT !.snd_nxt = k.snd_nxt])
  BY <1>3 DEF SameWindow, SameBounds, Connections
<1>8. last <=> fin
  BY <1>1
<1> HIDE DEF last
<1> QED
  BY <1>4, <1>6, <1>7, <1>8, <1>9 DEF j, Fit

\* The send variables are in order with the FIN after the units, or without.
LEMMA SendSegmentsSends ==
  ASSUME NEW k \in Connections, NEW n \in Nat, Window(k), k.snd_nxt + n <= k.bufEnd,
         n # 0
  PROVE  LET j == SendSegments(k, n)
             i == [j EXCEPT !.snd_max = IF j.snd_nxt > @ THEN j.snd_nxt ELSE @]
         IN /\ j \in Connections /\ Sends(k, i) /\ Window(i)
            /\ i.snd_una < i.snd_max
            /\ "REXMIT" \in i.timers <=> "REXMIT" \in k.timers
            /\ j.snd_max = k.snd_max
            /\ k.snd_nxt + n <= j.snd_nxt
<1> DEFINE j   == SendSegments(k, n)
           end == k.snd_nxt + n
           fin == k.send_fin /\ end = k.bufEnd
           max == IF j.snd_nxt > j.snd_max THEN j.snd_nxt ELSE j.snd_max
           i   == [j EXCEPT !.snd_max = max]
<1>1. /\ j \in Connections /\ Sending(k, j)
      /\ j.ind = k.ind /\ j.delivered = k.delivered /\ j.rcvQueue = k.rcvQueue
      /\ j.fault = k.fault
      /\ SameWindow(k, [j EXCEPT !.snd_nxt = k.snd_nxt])
      /\ j.snd_nxt = IF fin THEN end + 1 ELSE end
      /\ \A s \in j.out \ k.out :
           /\ s.flags \in {{"ACK"}, {"ACK", "FIN"}} /\ s.ackNo = j.rcv_nxt
           /\ s.len = 1 /\ s.seq \in k.snd_nxt .. (end - 1)
           /\ "FIN" \in s.flags => fin /\ s.seq = end - 1
  BY SendSegmentsSame
<1> HIDE DEF j
<1>2. /\ k.iss \in Nat /\ k.snd_una \in Nat /\ k.snd_nxt \in Nat /\ k.snd_max \in Nat
      /\ k.bufEnd \in Nat /\ k.bufStart \in Nat /\ k.recover \in Int
      /\ j.snd_nxt \in Nat /\ j.snd_max \in Nat
  BY <1>1, Fields
<1>3. /\ j.iss = k.iss /\ j.snd_una = k.snd_una
      /\ j.snd_max = k.snd_max /\ j.bufStart = k.bufStart /\ j.bufEnd = k.bufEnd
      /\ j.send_fin = k.send_fin /\ j.snd_fin_seq = k.snd_fin_seq
      /\ j.fin_ack_rcvd = k.fin_ack_rcvd
      /\ j.lossRecovery = k.lossRecovery /\ j.recover = k.recover
      /\ "REXMIT" \in j.timers <=> "REXMIT" \in k.timers
  BY <1>1 DEF SameWindow, SameBounds, Connections
<1>4. max \in Nat /\ k.snd_max <= max /\ j.snd_nxt <= max /\ end <= j.snd_nxt
      /\ max <= k.bufEnd + 1 /\ max # (IF k.send_fin THEN k.bufEnd ELSE k.bufEnd + 1)
  BY <1>1, <1>2, <1>3 DEF Window
<1> HIDE DEF max
<1>5. /\ i \in Connections /\ Sending(j, i) /\ i.snd_max = max /\ i.snd_nxt = j.snd_nxt
      /\ i.iss = j.iss /\ i.snd_una = j.snd_una /\ i.bufStart = j.bufStart
      /\ i.bufEnd = j.bufEnd /\ i.send_fin = j.send_fin /\ i.snd_fin_seq = j.snd_fin_seq
      /\ i.fin_ack_rcvd = j.fin_ack_rcvd /\ i.out = j.out
      /\ i.lossRecovery = j.lossRecovery /\ i.recover = j.recover
      /\ i.ind = j.ind /\ i.delivered = j.delivered /\ i.rcvQueue = j.rcvQueue
      /\ i.fault = j.fault /\ i.rcv_nxt = j.rcv_nxt /\ i.timers = j.timers
  <2>1. i \in Connections /\ Sending(j, i)
    BY <1>1, <1>4, SetNat, SendingSet
  <2> QED
    BY <1>1, <2>1 DEF Connections
<1> HIDE DEF i
<1>6. Window(i)
  BY <1>2, <1>3, <1>4, <1>5 DEF Window
<1>7. ASSUME NEW s \in i.out \ k.out PROVE Carried(s, i)
  <2>1. /\ s.flags \in {{"ACK"}, {"ACK", "FIN"}} /\ s.ackNo = i.rcv_nxt
        /\ s.len = 1 /\ s.seq \in k.snd_nxt .. (end - 1)
        /\ "FIN" \in s.flags => fin /\ s.seq = end - 1
    BY <1>1, <1>5, <1>7
  <2>2. k.iss < s.seq /\ s.seq < k.bufEnd /\ s.seq < max /\ s.seq \in Nat
    BY <1>2, <1>4, <2>1 DEF Window
  <2>3. "FIN" \in s.flags => s.seq + 1 < max
    BY <1>1, <1>2, <1>4, <2>1
  <2> QED
    BY <1>3, <1>5, <2>1, <2>2, <2>3 DEF Carried
<1>8. Sends(k, i)
  <2>1. Moves(k, i)
    BY <1>1, <1>3, <1>4, <1>5, <1>7 DEF Moves
  <2> QED
    BY <1>1, <1>5, <2>1, SendingTransitive DEF Sends
<1>9. i.snd_una < i.snd_max
  BY <1>2, <1>3, <1>4, <1>5 DEF Window
<1>10. [j EXCEPT !.snd_max = IF j.snd_nxt > @ THEN j.snd_nxt ELSE @] = i
  BY <1>1 DEF i, max, Connections
<1> QED
  BY <1>1, <1>3, <1>4, <1>5, <1>6, <1>8, <1>9, <1>10 DEF j

LEMMA RexmitTimerSends ==
  ASSUME NEW k \in Connections, NEW j \in {RestartRexmitTimer(k), DataSent(k)}
  PROVE  Sends(k, j) /\ SameBounds(k, j) /\ "REXMIT" \in j.timers
<1>1. k.snd_max \in Nat
  BY Fields
<1>2. ASSUME NEW c \in Connections, "REXMIT" \notin c.timers
      PROVE  LET i == StartRexmitTimer(c)
             IN /\ Sends(c, i) /\ SameBounds(c, i) /\ "REXMIT" \in i.timers
  <2> DEFINE a == Assert(c, "REXMIT" \notin c.timers)
             b == [a EXCEPT !.timers = @ \cup {"REXMIT"}]
             i == [b EXCEPT !.rexmit_count = 0]
  <2>1. a = c /\ c.snd_max \in Nat
    BY <1>2, Fields DEF Assert, Connections
  <2>2. i = StartRexmitTimer(c)
    BY DEF StartRexmitTimer, Schedule
  <2>3. b = [c EXCEPT !.timers = @ \cup {"REXMIT"}]
    BY <2>1
  <2> HIDE DEF b, a
  <2>4. SameBounds(c, b) /\ "REXMIT" \in b.timers /\ Moves(c, b)
    BY <2>1, <2>3 DEF Connections, SameBounds, Moves
  <2>5. b \in Connections
    BY <2>3, Fields, SetState DEF Timer
  <2>6. SameBounds(b, i) /\ i.timers = b.timers
    BY <2>5 DEF Connections, SameBounds
  <2>7. Sends(b, i)
    BY <2>5, SetSends
  <2>8. Sends(c, i)
    <3>1. (c.timers \cup {"REXMIT"}) \ {"REXMIT", "DELAYEDACK"}
            = c.timers \ {"REXMIT", "DELAYEDACK"}
      OBVIOUS
    <3>2. Sending(c, b)
      BY <2>3, <3>1, TimersSending
    <3> QED
      BY <2>4, <2>5, <2>7, <3>2, SendsTransitive DEF Sends
  <2>9. SameBounds(c, i)
    BY <2>4, <2>6 DEF SameBounds
  <2> HIDE DEF i
  <2> QED
    BY <2>2, <2>4, <2>6, <2>8, <2>9
<1>3. CASE j = RestartRexmitTimer(k)
  <2> DEFINE c == Cancel(k, {"REXMIT"})
  <2>1. Sends(k, c)
    BY SetSends
  <2>2. SameBounds(k, c) /\ "REXMIT" \notin c.timers
    BY DEF SameBounds, Cancel, Connections
  <2>3. j = StartRexmitTimer(c)
    BY <1>3 DEF RestartRexmitTimer
  <2> HIDE DEF c
  <2>4. Sends(c, j) /\ SameBounds(c, j) /\ "REXMIT" \in j.timers
    BY <1>2, <2>1, <2>2, <2>3 DEF Sends
  <2> QED
    BY <2>1, <2>2, <2>4, SendsTransitive DEF SameBounds
<1>4. CASE j = DataSent(k)
  <2>1. CASE "REXMIT" \in k.timers
    BY <1>4, <2>1, SendsReflexive DEF DataSent, SameBounds
  <2>2. CASE "REXMIT" \notin k.timers
    BY <1>2, <1>4, <2>2 DEF DataSent
  <2> QED
    BY <2>1, <2>2
<1> QED
  BY <1>3, <1>4

LEMMA SetNxtSends ==
  ASSUME NEW k \in Connections, NEW n \in Nat, Window(k), k.snd_una <= n, n <= k.snd_max
  PROVE  LET j == [k EXCEPT !.snd_nxt = n]
         IN /\ Sends(k, j) /\ Window(j) /\ (Armed(k) => Armed(j))
            /\ j.snd_nxt = n /\ j.snd_max = k.snd_max /\ j.timers = k.timers
            /\ j.snd_una = k.snd_una /\ j.bufEnd = k.bufEnd /\ j.send_fin = k.send_fin
            /\ j.snd_fin_seq = k.snd_fin_seq /\ j.rcv_nxt = k.rcv_nxt
<1> DEFINE j == [k EXCEPT !.snd_nxt = n]
<1>1. Sends(k, j)
  BY SetSends
<1>2. /\ j.iss = k.iss /\ j.snd_una = k.snd_una /\ j.snd_nxt = n
      /\ j.snd_max = k.snd_max /\ j.bufStart = k.bufStart /\ j.bufEnd = k.bufEnd
      /\ j.send_fin = k.send_fin /\ j.snd_fin_seq = k.snd_fin_seq
      /\ j.fin_ack_rcvd = k.fin_ack_rcvd /\ j.timers = k.timers
      /\ j.lossRecovery = k.lossRecovery /\ j.recover = k.recover
      /\ j.rcv_nxt = k.rcv_nxt
  BY DEF Connections
<1> HIDE DEF j
<1>3. Window(j) /\ (Armed(k) => Armed(j))
  BY <1>2 DEF Window, Armed
<1> QED
  BY <1>1, <1>2, <1>3 DEF j

LEMMA SendDataSends ==
  ASSUME NEW k \in Connections, NEW w \in Nat, Window(k)
  PROVE  LET j == SendData(k, w)
         IN Sends(k, j) /\ Window(j) /\ (Armed(k) => Armed(j))
<1> DEFINE k1       == IF k.afterRto THEN k ELSE [k EXCEPT !.snd_nxt = k.snd_max]
           flight   == k1.snd_nxt - k1.snd_una
           buffered == BytesAvailable(k1, k1.snd_nxt)
           n        == IF w - flight < buffered THEN w - flight ELSE buffered
           k2       == SendSegments(k1, n)
           k3       == [k2 EXCEPT !.snd_max = IF k2.snd_nxt > @ THEN k2.snd_nxt ELSE @]
           j        == SendData(k, w)
<1>1. k.snd_max \in Nat /\ k.snd_una \in Nat /\ k.snd_nxt \in Nat
  BY Fields
<1>2. /\ Sends(k, k1) /\ Window(k1) /\ (Armed(k) => Armed(k1))
  <2>1. CASE k.afterRto
    BY <2>1, SendsReflexive
  <2>2. CASE ~k.afterRto
    <3>1. k.snd_una <= k.snd_max
      BY <1>1 DEF Window
    <3> QED
      BY <1>1, <2>2, <3>1, SetNxtSends
  <2> QED
    BY <2>1, <2>2
<1> HIDE DEF k1
<1>3. k1 \in Connections
  BY <1>2 DEF Sends
<1>4. /\ k1.snd_nxt \in Nat /\ k1.snd_una \in Nat /\ k1.bufEnd \in Nat
      /\ flight \in Int /\ buffered \in Nat
      /\ buffered # 0 => k1.snd_nxt + buffered = k1.bufEnd
  BY <1>3, Fields DEF BytesAvailable
<1>5. CASE buffered = 0 \/ w <= flight
  BY <1>2, <1>5, ZenonT(40) DEF SendData, k1
<1>6. CASE ~(buffered = 0 \/ w <= flight)
  <2>1. n \in Nat /\ n # 0 /\ n <= buffered /\ k1.snd_nxt + n <= k1.bufEnd
    BY <1>4, <1>6
  <2>2. j = DataSent(AckSent(k3))
    <3>1. SendData(k, w) = IF buffered = 0 \/ w <= flight THEN k1 ELSE DataSent(AckSent(k3))
      BY ZenonT(40) DEF SendData, k1
    <3> HIDE DEF k3, n, flight, buffered
    <3> QED
      BY <1>6, <3>1
  <2> HIDE DEF n, j
  <2>3. Sends(k1, k3) /\ Window(k3) /\ k3.snd_una < k3.snd_max
    BY <1>2, <1>3, <2>1, SendSegmentsSends
  <2> HIDE DEF k3
  <2> DEFINE a == AckSent(k3)
  <2>4. Sends(k3, a) /\ SameWindow(k3, a)
    BY <2>3, AckSentSends DEF Sends
  <2> HIDE DEF a
  <2>5. Sends(a, j) /\ SameBounds(a, j) /\ "REXMIT" \in j.timers
    BY <2>2, <2>4, RexmitTimerSends DEF Sends, a
  <2>6. Sends(k, j)
    BY <1>2, <1>3, <2>3, <2>4, <2>5, SendsTransitive DEF Sends
  <2>7. Window(j) /\ Armed(j)
    BY <2>3, <2>4, <2>5, SameWindowKept DEF SameWindow, SameBounds, Armed
  <2> QED
    BY <2>6, <2>7 DEF j
<1> QED
  BY <1>5, <1>6

\* Something unacknowledged is in the queue, or it is the FIN.
LEMMA RetransmitOneSegmentSends ==
  ASSUME NEW k \in Connections, NEW atRto \in BOOLEAN, Window(k), k.snd_una < k.snd_max
  PROVE  LET j == RetransmitOneSegment(k, atRto)
         IN Sends(k, j) /\ Window(j) /\ (Armed(k) => Armed(j))
<1> DEFINE n  == IF k.snd_max > k.snd_una /\ BytesAvailable(k, k.snd_una) > 0
                   THEN 1 ELSE 0
           j  == RetransmitOneSegment(k, atRto)
<1>1. /\ k.iss \in Nat /\ k.snd_una \in Nat /\ k.snd_nxt \in Nat /\ k.snd_max \in Nat
      /\ k.bufEnd \in Nat /\ k.bufStart \in Nat /\ k.recover \in Int
  BY Fields
<1>2. /\ n = 0 => k.send_fin /\ k.snd_fin_seq = k.bufEnd /\ k.snd_una = k.bufEnd
                  /\ k.snd_max = k.bufEnd + 1
      /\ n # 0 => n = 1 /\ k.snd_una + 1 <= k.bufEnd
  BY <1>1 DEF BytesAvailable, Window
<1>3. CASE n = 0
  <2> DEFINE f0 == [k EXCEPT !.snd_nxt = k.bufEnd]
             s  == Segment({"FIN", "ACK"}, f0.snd_nxt, f0.rcv_nxt, 0)
             e  == Emit(f0, s)
             f1 == AckSent(e)
             f2 == [f1 EXCEPT !.snd_nxt = k.bufEnd + 1]
  <2>1. Sends(k, f0) /\ f0.snd_nxt = k.bufEnd /\ f0.bufEnd = k.bufEnd
        /\ f0.snd_max = k.snd_max /\ f0.send_fin = k.send_fin
        /\ f0.snd_fin_seq = k.snd_fin_seq /\ Window(f0) /\ (Armed(k) => Armed(f0))
    BY <1>1, <1>2, <1>3, SetNxtSends
  <2> HIDE DEF f0
  <2>3. f0 \in Connections
    BY <2>1 DEF Sends
  <2>4. s \in Segments /\ s.seq = k.bufEnd /\ s.len = 0
        /\ s.flags = {"ACK", "FIN"} /\ s.ackNo = f0.rcv_nxt
    BY <1>1, <2>1, <2>3, Fields, SegmentType DEF Segment, Flag
  <2>5. Carried(s, f0) /\ FinAt(f0, s.seq + s.len)
    BY <1>1, <1>2, <1>3, <2>1, <2>4 DEF Carried, FinAt
  <2> HIDE DEF s
  <2>6. Sends(f0, e) /\ SameWindow(f0, e)
    BY <2>3, <2>4, <2>5, EmitSends
  <2> HIDE DEF e
  <2>7. Sends(e, f1) /\ SameWindow(e, f1)
    BY <2>6, AckSentSends DEF Sends
  <2> HIDE DEF f1
  <2>8. f1 \in Connections /\ f1.snd_max = k.bufEnd + 1 /\ f1.snd_una = k.bufEnd
        /\ f1.bufEnd = k.bufEnd /\ Window(f1) /\ (Armed(k) => Armed(f1))
    BY <1>2, <1>3, <2>1, <2>6, <2>7, SameWindowKept
       DEF Sends, SameWindow, SameBounds, Sending, SameStream, Moves
  <2>9. Sends(f1, f2) /\ Window(f2) /\ (Armed(f1) => Armed(f2)) /\ f2.snd_max = k.bufEnd + 1
    BY <1>1, <2>8, SetNxtSends
  <2>10. j = [f1 EXCEPT !.snd_nxt = k.bufEnd + 1, !.snd_max = k.bufEnd + 1]
    BY <1>2, <1>3, <2>3 DEF RetransmitOneSegment, SendFin, f0, f1, e, s
  <2>11. j = f2
    BY <2>8, <2>10 DEF Connections
  <2> HIDE DEF f2, j
  <2> QED
    BY <2>1, <2>6, <2>7, <2>8, <2>9, <2>11, SendsTransitive DEF Sends, j
<1>4. CASE n # 0
  <2> DEFINE k1 == [k EXCEPT !.snd_nxt = k.snd_una]
             k2 == SendSegments(k1, 1)
             i  == [k2 EXCEPT !.snd_max = IF k2.snd_nxt > @ THEN k2.snd_nxt ELSE @]
             to == IF ~atRto /\ k.snd_nxt > k2.snd_nxt THEN k.snd_nxt ELSE k2.snd_nxt
             k3 == [k2 EXCEPT !.snd_nxt = to]
  <2>1. Sends(k, k1) /\ k1.snd_nxt = k.snd_una /\ k1.bufEnd = k.bufEnd
        /\ k1.snd_max = k.snd_max /\ k1.send_fin = k.send_fin /\ k1.timers = k.timers
        /\ k1.snd_una = k.snd_una
        /\ Window(k1) /\ (Armed(k) => Armed(k1))
    BY <1>1, SetNxtSends DEF Window
  <2>2. Assert(k1, n # 0) = k1
    BY <1>4 DEF Assert, Connections
  <2> HIDE DEF k1
  <2>4. k1 \in Connections
    BY <2>1 DEF Sends
  <2>5. /\ k2 \in Connections /\ Sends(k1, i) /\ Window(i)
        /\ "REXMIT" \in i.timers <=> "REXMIT" \in k1.timers
        /\ k2.snd_max = k1.snd_max
    BY <1>1, <1>2, <1>4, <2>1, <2>4, SendSegmentsSends
  <2>6. k2.snd_nxt = IF k1.send_fin /\ k1.snd_nxt + 1 = k1.bufEnd
                       THEN (k1.snd_nxt + 1) + 1 ELSE k1.snd_nxt + 1
    <3>1. 1 \in Nat
      OBVIOUS
    <3> QED
      BY <2>1, <2>4, <3>1, SendSegmentsSame
  <2>7. k2.snd_nxt <= k2.snd_max /\ k2.snd_nxt \in Nat /\ k.snd_una <= k2.snd_nxt
    BY <1>1, <1>2, <1>4, <2>1, <2>5, <2>6 DEF Window
  <2>8. i = k2
    <3>1. ~(k2.snd_nxt > k2.snd_max)
      BY <2>5, <2>7, Fields
    <3>2. k2 = [k2 EXCEPT !.snd_max = k2.snd_max]
      BY <2>5 DEF Connections
    <3> QED
      BY <3>1, <3>2
  <2> HIDE DEF k2, i
  <2>9. to \in Nat /\ k.snd_una <= to /\ to <= k.snd_max
    BY <1>1, <2>1, <2>5, <2>7 DEF Window
  <2>10. j = AckSent(k3)
    BY <1>2, <1>4, <2>2 DEF RetransmitOneSegment, k1, k2
  <2> HIDE DEF to
  <2>11. k2.snd_una = k.snd_una /\ Window(k2) /\ (Armed(k1) => Armed(k2))
    BY <2>1, <2>5, <2>8 DEF Sends, Moves, Armed
  <2>12. Sends(k2, k3) /\ Window(k3) /\ (Armed(k2) => Armed(k3))
    BY <2>1, <2>5, <2>9, <2>11, SetNxtSends
  <2> HIDE DEF k3, j
  <2>15. Sends(k3, j) /\ SameWindow(k3, j)
    BY <2>10, <2>12, AckSentSends DEF Sends
  <2> QED
    BY <2>1, <2>5, <2>8, <2>11, <2>12, <2>15, SendsTransitive, SameWindowKept
       DEF Sends, j
<1> QED
  BY <1>3, <1>4
-----------------------------------------------------------------------------
(* Acknowledgments.                                                        *)

\* Whatever the REXMIT timer did, it runs afterwards if something is
\* outstanding.
LEMMA ReceivedDataAckSends ==
  ASSUME NEW k \in Connections, NEW w \in Nat, Window(k)
  PROVE  LET j == ReceivedDataAck(k, w)
         IN Sends(k, j) /\ Window(j) /\ Armed(j)
<1> DEFINE k1 == IF k.snd_una = k.snd_max THEN Cancel(k, {"REXMIT"})
                                          ELSE RestartRexmitTimer(k)
           partial == k.lossRecovery /\ k.snd_una - 1 < k.recover
           r  == RetransmitOneSegment(k1, FALSE)
           to == IF k.lossRecovery THEN k1.recover ELSE k.snd_una - 2
           l  == [k1 EXCEPT !.lossRecovery = FALSE]
           m  == [l EXCEPT !.recover = to]
           k2 == IF partial THEN SendData(r, w) ELSE m
           d  == SendData(k2, w)
           j  == ReceivedDataAck(k, w)
<1>1. k.snd_una \in Nat /\ k.snd_max \in Nat /\ k.recover \in Int /\ k.lossRecovery \in BOOLEAN
  BY Fields
<1>2. Sends(k, k1) /\ SameBounds(k, k1) /\ Window(k1) /\ Armed(k1)
  <2>1. CASE k.snd_una = k.snd_max
    <3>1. Sends(k, Cancel(k, {"REXMIT"}))
      BY SetSends
    <3>2. SameBounds(k, Cancel(k, {"REXMIT"})) /\ "REXMIT" \notin Cancel(k, {"REXMIT"}).timers
      BY DEF Cancel, SameBounds, Connections
    <3> QED
      BY <1>1, <2>1, <3>1, <3>2, SameWindowKept DEF Armed, SameBounds
  <2>2. CASE k.snd_una # k.snd_max
    <3>1. k.snd_una < k.snd_max
      BY <1>1, <2>2, Fields DEF Window
    <3>2. Sends(k, k1) /\ SameBounds(k, k1) /\ "REXMIT" \in k1.timers
      BY <2>2, RexmitTimerSends
    <3> HIDE DEF k1
    <3> QED
      BY <3>1, <3>2, SameWindowKept DEF Armed, SameBounds
  <2> QED
    BY <2>1, <2>2
<1>3. j = [SendData(k2, w) EXCEPT !.dupacks = 0]
  <2>1. k1 \in Connections
    BY <1>2 DEF Sends
  <2>2. m = [k1 EXCEPT !.lossRecovery = FALSE,
                       !.recover = IF k.lossRecovery THEN @ ELSE k.snd_una - 2]
    BY <2>1 DEF Connections
  <2> HIDE DEF m
  <2> QED
    BY <2>2 DEF ReceivedDataAck
<1> HIDE DEF k1, j
<1>4. k1 \in Connections /\ to \in Int
  BY <1>1, <1>2, Fields DEF Sends
<1>5. Sends(k1, k2) /\ Window(k2) /\ Armed(k2)
  <2>1. CASE partial
    <3>1. k1.snd_una < k1.snd_max
      BY <1>1, <1>2, <2>1 DEF Window, SameBounds
    <3>2. Sends(k1, r) /\ Window(r) /\ Armed(r)
      BY <1>2, <1>4, <3>1, RetransmitOneSegmentSends
    <3> HIDE DEF r
    <3>3. r \in Connections
      BY <3>2 DEF Sends
    <3> QED
      BY <1>4, <2>1, <3>2, <3>3, SendDataSends, SendsTransitive
  <2>2. CASE ~partial
    <3>1. Sends(k1, l)
      BY <1>4, SetSends
    <3>2. l \in Connections
      BY <3>1 DEF Sends
    <3>3. /\ l.iss = k1.iss /\ l.snd_una = k1.snd_una /\ l.snd_nxt = k1.snd_nxt
          /\ l.snd_max = k1.snd_max /\ l.bufStart = k1.bufStart /\ l.bufEnd = k1.bufEnd
          /\ l.send_fin = k1.send_fin /\ l.snd_fin_seq = k1.snd_fin_seq
          /\ l.fin_ack_rcvd = k1.fin_ack_rcvd /\ l.timers = k1.timers
          /\ l.lossRecovery = FALSE
      BY <1>4 DEF Connections
    <3> HIDE DEF l, to
    <3>4. Sends(l, m)
      BY <1>4, <3>2, SetSends
    <3>5. /\ m.iss = l.iss /\ m.snd_una = l.snd_una /\ m.snd_nxt = l.snd_nxt
          /\ m.snd_max = l.snd_max /\ m.bufStart = l.bufStart /\ m.bufEnd = l.bufEnd
          /\ m.send_fin = l.send_fin /\ m.snd_fin_seq = l.snd_fin_seq
          /\ m.fin_ack_rcvd = l.fin_ack_rcvd /\ m.timers = l.timers
          /\ m.lossRecovery = l.lossRecovery
      BY <3>2 DEF Connections
    <3> HIDE DEF m
    <3>6. Window(m) /\ Armed(m)
      BY <1>2, <3>3, <3>5 DEF Window, Armed
    <3> QED
      BY <1>4, <2>2, <3>1, <3>4, <3>6, SendsTransitive
  <2> QED
    BY <2>1, <2>2
<1> HIDE DEF k2
<1>6. k2 \in Connections
  BY <1>5 DEF Sends
<1>7. Sends(k2, d) /\ Window(d) /\ Armed(d)
  BY <1>5, <1>6, SendDataSends
<1> HIDE DEF d
<1>8. d \in Connections
  BY <1>7 DEF Sends
<1> DEFINE f == [d EXCEPT !.dupacks = 0]
<1>9. Sends(d, f) /\ SameWindow(d, f)
  <2>1. SameWindow(d, f)
    BY <1>8 DEF SameWindow, SameBounds, Connections
  <2> QED
    BY <1>8, <2>1, SetSends
<1>10. j = f
  BY <1>3 DEF d
<1> HIDE DEF f
<1> QED
  BY <1>2, <1>4, <1>5, <1>6, <1>7, <1>8, <1>9, <1>10, SendsTransitive, SameWindowKept DEF j

LEMMA ReceivedDuplicateAckSends ==
  ASSUME NEW k \in Connections, NEW w \in Nat, Window(k), k.snd_una # k.snd_max
  PROVE  LET j == ReceivedDuplicateAck(k, w)
         IN Sends(k, j) /\ Window(j) /\ (Armed(k) => Armed(j))
<1> DEFINE l  == [k EXCEPT !.lossRecovery = TRUE]
           k1 == [l EXCEPT !.recover = k.snd_max - 1]
           r  == RetransmitOneSegment(k1, FALSE)
<1>1. k.snd_max - 1 \in Int /\ k.snd_max \in Nat /\ k.snd_una \in Nat /\ k.snd_una < k.snd_max
  BY Fields DEF Window
<1>2. ReceivedDuplicateAck(k, w) \in {SendData(r, w), SendData(k, w), k}
  BY DEF ReceivedDuplicateAck, l, k1, r
<1>3. Sends(k, l)
  BY SetSends
<1>4. /\ l.iss = k.iss /\ l.snd_una = k.snd_una /\ l.snd_nxt = k.snd_nxt
      /\ l.snd_max = k.snd_max /\ l.bufStart = k.bufStart /\ l.bufEnd = k.bufEnd
      /\ l.send_fin = k.send_fin /\ l.snd_fin_seq = k.snd_fin_seq
      /\ l.fin_ack_rcvd = k.fin_ack_rcvd /\ l.timers = k.timers
  BY DEF Connections
<1> HIDE DEF l
<1>5. l \in Connections
  BY <1>3 DEF Sends
<1>6. Sends(l, k1)
  BY <1>1, <1>5, SetSends
<1>7. /\ k1.iss = l.iss /\ k1.snd_una = l.snd_una /\ k1.snd_nxt = l.snd_nxt
      /\ k1.snd_max = l.snd_max /\ k1.bufStart = l.bufStart /\ k1.bufEnd = l.bufEnd
      /\ k1.send_fin = l.send_fin /\ k1.snd_fin_seq = l.snd_fin_seq
      /\ k1.fin_ack_rcvd = l.fin_ack_rcvd /\ k1.timers = l.timers
      /\ k1.recover = k.snd_max - 1
  BY <1>5 DEF Connections
<1> HIDE DEF k1
<1>8. k1 \in Connections /\ Window(k1) /\ (Armed(k) => Armed(k1)) /\ k1.snd_una < k1.snd_max
  BY <1>1, <1>4, <1>6, <1>7 DEF Sends, Window, Armed
<1>9. Sends(k1, r) /\ Window(r) /\ (Armed(k1) => Armed(r))
  BY <1>8, RetransmitOneSegmentSends
<1> HIDE DEF r
<1>10. r \in Connections
  BY <1>9 DEF Sends
<1>11. /\ Sends(r, SendData(r, w)) /\ Window(SendData(r, w))
       /\ Armed(r) => Armed(SendData(r, w))
  BY <1>9, <1>10, SendDataSends
<1>12. /\ Sends(k, SendData(k, w)) /\ Window(SendData(k, w))
       /\ Armed(k) => Armed(SendData(k, w))
  BY SendDataSends
<1>13. Sends(k, SendData(r, w))
  BY <1>3, <1>5, <1>6, <1>8, <1>9, <1>10, <1>11, SendsTransitive
<1> QED
  BY <1>2, <1>8, <1>9, <1>11, <1>12, <1>13, SendsReflexive

LEMMA ReceiveSeqChangedSends ==
  ASSUME NEW k \in Connections
  PROVE  LET j == ReceiveSeqChanged(k)
         IN Sends(k, j) /\ SameWindow(k, j)
<1> DEFINE j == [k EXCEPT !.timers = @ \cup {"DELAYEDACK"}]
<1>1. (k.timers \cup {"DELAYEDACK"}) \ {"REXMIT", "DELAYEDACK"}
        = k.timers \ {"REXMIT", "DELAYEDACK"}
  OBVIOUS
<1>2. j \in Connections /\ Sending(k, j)
  BY <1>1, TimersSending, Fields, SetState DEF Timer
<1>3. Moves(k, j) /\ SameWindow(k, j)
  BY Fields DEF Moves, SameWindow, SameBounds, Connections
<1>4. SameWindow(k, k)
  BY DEF SameWindow, SameBounds
<1> HIDE DEF j
<1>5. ReceiveSeqChanged(k) \in {k, SendAck(k), j}
  BY DEF ReceiveSeqChanged, j
<1> QED
  BY <1>2, <1>3, <1>4, <1>5, SendAckSends, SendsReflexive DEF Sends

\* As Sends, but snd_una may have moved on.
Advances(k, j) ==
  /\ j \in Connections /\ Sending(k, j)
  /\ j.ind = k.ind /\ j.delivered = k.delivered /\ j.rcvQueue = k.rcvQueue
  /\ j.fault = k.fault /\ k.snd_max <= j.snd_max
  /\ \A s \in j.out \ k.out : Carried(s, j)

LEMMA AdvancesTransitive ==
  ASSUME NEW k \in Connections, NEW j, NEW i, Advances(k, j), Advances(j, i)
  PROVE  Advances(k, i)
<1>1. j \in Connections /\ i \in Connections /\ Sending(k, j) /\ Sending(j, i)
  BY DEF Advances
<1>2. /\ k.snd_max \in Nat /\ j.snd_max \in Nat /\ i.snd_max \in Nat
      /\ k.out \in SUBSET Segments /\ j.out \in SUBSET Segments /\ i.out \in SUBSET Segments
  BY <1>1, Fields
<1>3. k.snd_max <= j.snd_max /\ j.snd_max <= i.snd_max
  BY DEF Advances
<1>4. i.iss = j.iss /\ i.bufEnd = j.bufEnd /\ i.rcv_nxt = j.rcv_nxt
  BY <1>1 DEF Sending, SameStream
<1>5. ASSUME NEW s \in i.out \ k.out PROVE Carried(s, i)
  <2>1. CASE s \in j.out
    <3>1. Carried(s, j) /\ s.seq \in Nat /\ s.len \in Nat
      BY <1>2, <1>5, <2>1 DEF Advances, Segments
    <3> QED
      BY <1>2, <1>3, <1>4, <3>1 DEF Carried
  <2>2. CASE s \notin j.out
    BY <1>5, <2>2 DEF Advances
  <2> QED
    BY <2>1, <2>2
<1> QED
  BY <1>1, <1>2, <1>3, <1>5, SendingTransitive DEF Advances

LEMMA SendsAdvances ==
  ASSUME NEW k, NEW j, Sends(k, j)
  PROVE  Advances(k, j) /\ j.snd_una = k.snd_una
BY DEF Sends, Moves, Advances

\* A field that Advances does not mention may be given any value.
LEMMA SetAdvances ==
  ASSUME NEW k \in Connections
  PROVE  /\ \A n \in Nat : Advances(k, [k EXCEPT !.snd_una = n])
         /\ \A n \in Nat : Advances(k, [k EXCEPT !.snd_nxt = n])
         /\ \A n \in Nat : Advances(k, [k EXCEPT !.bufStart = n])
         /\ \A b \in BOOLEAN : Advances(k, [k EXCEPT !.fin_ack_rcvd = b])
<1>1. k.snd_max \in Nat
  BY Fields
<1>2. ASSUME NEW n \in Nat PROVE Advances(k, [k EXCEPT !.snd_una = n])
  <2> DEFINE j == [k EXCEPT !.snd_una = n]
  <2>1. j \in Connections /\ Sending(k, j)
    BY SetNat, SendingSet
  <2>2. /\ j.ind = k.ind /\ j.delivered = k.delivered /\ j.rcvQueue = k.rcvQueue
        /\ j.fault = k.fault /\ j.snd_max = k.snd_max /\ j.out = k.out
    BY DEF Connections
  <2> HIDE DEF j
  <2>3. Advances(k, j)
    BY <1>1, <2>1, <2>2 DEF Advances
  <2> QED
    BY <2>3 DEF j
<1>3. ASSUME NEW b \in BOOLEAN PROVE Advances(k, [k EXCEPT !.fin_ack_rcvd = b])
  <2> DEFINE j == [k EXCEPT !.fin_ack_rcvd = b]
  <2>1. j \in Connections /\ Sending(k, j)
    BY SetBoolean, SendingSet
  <2>2. /\ j.ind = k.ind /\ j.delivered = k.delivered /\ j.rcvQueue = k.rcvQueue
        /\ j.fault = k.fault /\ j.snd_max = k.snd_max /\ j.out = k.out
    BY DEF Connections
  <2> HIDE DEF j
  <2>3. Advances(k, j)
    BY <1>1, <2>1, <2>2 DEF Advances
  <2> QED
    BY <2>3 DEF j
<1> QED
  BY <1>2, <1>3, SetSends, SendsAdvances

\* The ACK of something new, of the FIN among it or of the SYN alone, leaves
\* the queue in order; what it does to the REXMIT timer it may leave to the text.
LEMMA NewAckAdvances ==
  ASSUME NEW k \in Connections, NEW s \in Segments, NEW w \in Nat,
         k.snd_una < s.ackNo, s.ackNo <= k.snd_max,
         \/ Window(k) /\ k.fsm # "SYN_RCVD"
         \/ k.fsm = "SYN_RCVD" /\ Fresh(k)
  PROVE  LET j == NewAck(k, s, w)
         IN /\ Advances(k, j) /\ Window(j) /\ j.snd_una = s.ackNo
            /\ s.len = 0 \/ k.fsm = "SYN_RCVD" => Armed(j)
<1> DEFINE fin  == k.send_fin /\ s.ackNo = k.snd_fin_seq + 1
           upTo == IF fin THEN s.ackNo - 1 ELSE s.ackNo
           a    == Assert(k, k.bufStart <= upTo /\ upTo <= k.bufEnd)
           b    == [k EXCEPT !.snd_una = s.ackNo]
           nxt  == IF k.snd_nxt < s.ackNo THEN s.ackNo ELSE k.snd_nxt
           c    == [b EXCEPT !.snd_nxt = nxt]
           ackd == k.fin_ack_rcvd \/ fin
           d    == [c EXCEPT !.fin_ack_rcvd = ackd]
           k1   == [d EXCEPT !.bufStart = upTo]
           j    == NewAck(k, s, w)
<1>1. /\ s.ackNo \in Nat /\ k.iss \in Nat /\ k.snd_una \in Nat /\ k.snd_nxt \in Nat
      /\ k.snd_max \in Nat /\ k.bufEnd \in Nat /\ k.bufStart \in Nat /\ k.recover \in Int
      /\ k.snd_fin_seq \in Nat
  BY Fields DEF Segments
<1>2. /\ upTo \in Nat /\ k.bufStart <= upTo /\ upTo <= k.bufEnd /\ upTo <= s.ackNo
      /\ nxt \in Nat /\ s.ackNo <= nxt /\ nxt <= k.snd_max
      /\ k.iss < s.ackNo
  BY <1>1 DEF Window, Fresh
<1>3. /\ ackd \in BOOLEAN /\ (ackd <=> k.send_fin /\ s.ackNo = k.bufEnd + 1)
      /\ k.send_fin => k.snd_fin_seq = k.bufEnd
      /\ k.lossRecovery => k.recover < k.snd_max
      /\ k.snd_max <= k.bufEnd + 1
      /\ k.snd_max # IF k.send_fin THEN k.bufEnd ELSE k.bufEnd + 1
  <2>1. CASE Window(k) /\ k.fsm # "SYN_RCVD"
    BY <1>1, <2>1, Fields DEF Window
  <2>2. CASE k.fsm = "SYN_RCVD" /\ Fresh(k)
    BY <1>1, <2>2, Fields DEF Fresh
  <2> QED
    BY <2>1, <2>2
<1>4. a = k
  BY <1>2 DEF Assert, Connections
<1>5. k1 = [a EXCEPT !.snd_una = s.ackNo,
                     !.snd_nxt = IF @ < s.ackNo THEN s.ackNo ELSE @,
                     !.fin_ack_rcvd = @ \/ fin, !.bufStart = upTo]
  BY <1>4 DEF Connections
<1> HIDE DEF a
<1>6. j = IF s.len = 0 /\ k.fsm # "SYN_RCVD" THEN ReceivedDataAck(k1, w) ELSE k1
  <2> HIDE DEF k1
  <2> QED
    BY <1>5 DEF NewAck, a
<1> HIDE DEF j, upTo, nxt, ackd
<1>7. Advances(k, b) /\ b \in Connections
  BY <1>1, SetAdvances, SetNat
<1>8. /\ b.iss = k.iss /\ b.snd_una = s.ackNo /\ b.snd_nxt = k.snd_nxt
      /\ b.snd_max = k.snd_max /\ b.bufEnd = k.bufEnd
      /\ b.send_fin = k.send_fin /\ b.snd_fin_seq = k.snd_fin_seq
      /\ b.timers = k.timers /\ b.lossRecovery = k.lossRecovery /\ b.recover = k.recover
  BY DEF Connections
<1> HIDE DEF b
<1>9. Advances(b, c) /\ c \in Connections
  BY <1>2, <1>7, SetAdvances, SetNat
<1>10. /\ c.iss = b.iss /\ c.snd_una = b.snd_una /\ c.snd_nxt = nxt
       /\ c.snd_max = b.snd_max /\ c.bufEnd = b.bufEnd
       /\ c.send_fin = b.send_fin /\ c.snd_fin_seq = b.snd_fin_seq
       /\ c.timers = b.timers /\ c.lossRecovery = b.lossRecovery /\ c.recover = b.recover
  BY <1>7 DEF Connections
<1> HIDE DEF c
<1>11. Advances(c, d) /\ d \in Connections
  BY <1>3, <1>9, SetAdvances, SetBoolean
<1>12. /\ d.iss = c.iss /\ d.snd_una = c.snd_una /\ d.snd_nxt = c.snd_nxt
       /\ d.snd_max = c.snd_max /\ d.bufEnd = c.bufEnd /\ d.fin_ack_rcvd = ackd
       /\ d.send_fin = c.send_fin /\ d.snd_fin_seq = c.snd_fin_seq
       /\ d.timers = c.timers /\ d.lossRecovery = c.lossRecovery /\ d.recover = c.recover
  BY <1>9 DEF Connections
<1> HIDE DEF d
<1>13. Advances(d, k1) /\ k1 \in Connections
  BY <1>2, <1>11, SetAdvances, SetNat
<1>14. /\ k1.iss = d.iss /\ k1.snd_una = d.snd_una /\ k1.snd_nxt = d.snd_nxt
       /\ k1.snd_max = d.snd_max /\ k1.bufEnd = d.bufEnd /\ k1.fin_ack_rcvd = d.fin_ack_rcvd
       /\ k1.send_fin = d.send_fin /\ k1.snd_fin_seq = d.snd_fin_seq
       /\ k1.timers = d.timers /\ k1.lossRecovery = d.lossRecovery /\ k1.recover = d.recover
       /\ k1.bufStart = upTo
  BY <1>11 DEF Connections
<1> HIDE DEF k1
<1>15. Advances(k, k1)
  BY <1>7, <1>9, <1>11, <1>13, AdvancesTransitive
<1>16. Window(k1) /\ k1.snd_una = s.ackNo
  BY <1>2, <1>3, <1>8, <1>10, <1>12, <1>14 DEF Window
<1>17. CASE s.len = 0 /\ k.fsm # "SYN_RCVD"
  <2>1. Sends(k1, j) /\ Window(j) /\ Armed(j)
    BY <1>6, <1>13, <1>16, <1>17, ReceivedDataAckSends
  <2> QED
    BY <1>15, <1>16, <2>1, SendsAdvances, AdvancesTransitive DEF j
<1>18. CASE ~(s.len = 0 /\ k.fsm # "SYN_RCVD")
  <2>1. ASSUME k.fsm = "SYN_RCVD" PROVE Armed(k1)
    BY <1>1, <1>8, <1>10, <1>12, <1>14, <2>1 DEF Fresh, Armed
  <2> QED
    BY <1>6, <1>15, <1>16, <1>18, <2>1 DEF j
<1> QED
  BY <1>17, <1>18

\* processAckInEstabEtc() keeps the queue in order; when it takes an ACK that
\* comes with text, the REXMIT timer is left to the text.
LEMMA ProcessAckAdvances ==
  ASSUME NEW k \in Connections, NEW s \in Segments, NEW w \in Nat,
         s.ackNo <= k.snd_max,
         \/ Window(k) /\ Armed(k) /\ k.fsm # "SYN_RCVD"
         \/ k.fsm = "SYN_RCVD" /\ Fresh(k) /\ k.iss < s.ackNo
  PROVE  LET j == ProcessAck(k, s, w)
         IN /\ Advances(k, j) /\ Window(j)
            /\ j.snd_una = IF k.snd_una < s.ackNo THEN s.ackNo ELSE k.snd_una
            /\ Armed(j) \/ (s.len # 0 /\ k.snd_una < s.ackNo /\ k.fsm # "SYN_RCVD")
<1> DEFINE j == ProcessAck(k, s, w)
           c == CountDuplicate(k)
<1>1. /\ s.ackNo \in Nat /\ k.snd_una \in Nat /\ k.iss \in Nat /\ k.dupacks \in Nat
  BY Fields DEF Segments
<1>2. CASE k.snd_una < s.ackNo
  <2>1. j = NewAck(k, s, w)
    BY <1>1, <1>2 DEF ProcessAck
  <2>2. LET i == NewAck(k, s, w)
        IN /\ Advances(k, i) /\ Window(i) /\ i.snd_una = s.ackNo
           /\ s.len = 0 \/ k.fsm = "SYN_RCVD" => Armed(i)
    BY <1>2, NewAckAdvances
  <2> HIDE DEF j
  <2> QED
    BY <1>2, <2>1, <2>2 DEF j
<1>3. CASE ~(k.snd_una < s.ackNo)
  <2>1. Window(k) /\ Armed(k)
    BY <1>1, <1>3 DEF Fresh
  <2>2. CASE s.ackNo = k.snd_una /\ s.len = 0 /\ k.snd_una # k.snd_max
    <3>1. j = ReceivedDuplicateAck(c, w)
      BY <1>1, <1>3, <2>2 DEF ProcessAck
    <3>2. c = [k EXCEPT !.dupacks = IF k.dupacks > DUPTHRESH THEN k.dupacks
                                                          ELSE k.dupacks + 1]
      BY DEF CountDuplicate, Connections
    <3>3. Sends(k, c)
      BY <1>1, <3>2, SetSends
    <3>4. SameWindow(k, c)
      BY <3>2 DEF SameWindow, SameBounds, Connections
    <3> HIDE DEF c
    <3>5. c \in Connections /\ Window(c) /\ Armed(c) /\ c.snd_una # c.snd_max
      BY <2>1, <2>2, <3>3, <3>4, SameWindowKept DEF Sends, SameWindow, SameBounds
    <3>6. /\ Sends(c, ReceivedDuplicateAck(c, w)) /\ Window(ReceivedDuplicateAck(c, w))
          /\ Armed(ReceivedDuplicateAck(c, w))
      BY <3>5, ReceivedDuplicateAckSends
    <3>7. Sends(k, j)
      BY <3>1, <3>3, <3>6, SendsTransitive
    <3> HIDE DEF j
    <3> QED
      BY <1>3, <3>1, <3>6, <3>7, SendsAdvances DEF j
  <2>3. CASE ~(s.ackNo = k.snd_una /\ s.len = 0 /\ k.snd_una # k.snd_max)
    <3>1. j = [k EXCEPT !.dupacks = 0]
      BY <1>1, <1>3, <2>3 DEF ProcessAck
    <3>2. Sends(k, j)
      BY <3>1, SetSends
    <3>3. SameWindow(k, j)
      BY <3>1 DEF SameWindow, SameBounds, Connections
    <3> HIDE DEF j
    <3> QED
      BY <1>3, <2>1, <3>2, <3>3, SameWindowKept, SendsAdvances DEF j
  <2> QED
    BY <2>2, <2>3
<1> QED
  BY <1>2, <1>3
-----------------------------------------------------------------------------
(* Records on the way from one state to the next.                          *)

\* A segment stays sound while its sender goes on.
Grown(k, j) ==
  /\ j.iss = k.iss /\ k.snd_max <= j.snd_max /\ k.bufEnd <= j.bufEnd
  /\ k.rcv_nxt <= j.rcv_nxt

LEMMA SoundKept ==
  ASSUME NEW k \in Connections, NEW j \in Connections, NEW s \in Segments, NEW n \in Nat,
         Sound(s, k, n), Grown(k, j)
  PROVE  Sound(s, j, n)
<1>1. /\ s.seq \in Nat /\ s.ackNo \in Nat /\ s.len \in Nat
      /\ k.iss \in Nat /\ k.snd_max \in Nat /\ j.snd_max \in Nat /\ k.bufEnd \in Nat
      /\ j.bufEnd \in Nat /\ k.rcv_nxt \in Nat /\ j.rcv_nxt \in Nat
  BY Fields DEF Segments
<1> QED
  BY <1>1 DEF Sound, Grown

LEMMA CarriedSound ==
  ASSUME NEW j, NEW s, NEW n, Carried(s, j), n < j.rcv_nxt, j.rcv_nxt \in Nat
  PROVE  Sound(s, j, n) /\ "SYN" \notin s.flags
BY DEF Carried, Sound

\* r comes from c in the handling of one segment, before the state changes.
Chain(r, c, p) ==
  /\ r \in Connections /\ ~r.fault
  /\ r.fsm = c.fsm /\ r.active = c.active /\ r.send_fin = c.send_fin
  /\ r.bufEnd = c.bufEnd /\ r.ind = c.ind /\ r.sockstate = c.sockstate
  /\ Grown(c, r) /\ c.snd_una <= r.snd_una /\ r.snd_una <= p.rcv_nxt
  /\ Received(r, p)
  /\ \A s \in r.out : Sound(s, r, p.iss) /\ "SYN" \notin s.flags

LEMMA AdvancesChain ==
  ASSUME NEW c \in Connections, NEW p \in Connections, NEW k, NEW j,
         Chain(k, c, p), Advances(k, j), k.snd_una <= j.snd_una, j.snd_una <= p.rcv_nxt
  PROVE  Chain(j, c, p)
<1>1. k \in Connections /\ j \in Connections
  BY DEF Chain, Advances
<1>2. /\ k.snd_una \in Nat /\ j.snd_una \in Nat /\ c.snd_una \in Nat
      /\ k.snd_max \in Nat /\ j.snd_max \in Nat /\ c.snd_max \in Nat
      /\ k.rcv_nxt \in Nat /\ j.rcv_nxt \in Nat /\ c.rcv_nxt \in Nat
      /\ k.bufEnd \in Nat /\ c.bufEnd \in Nat /\ p.iss \in Nat
      /\ j.out \in SUBSET Segments
  BY <1>1, Fields
<1>3. SameStream(k, j) /\ k.snd_max <= j.snd_max
  BY DEF Advances, Sending
<1>4. Grown(k, j) /\ Grown(c, j)
  BY <1>2, <1>3 DEF Grown, SameStream, Chain
<1>5. Received(j, p) /\ p.iss < j.rcv_nxt
  BY <1>3 DEF Advances, Received, SameStream, Chain
<1>6. ASSUME NEW s \in j.out PROVE Sound(s, j, p.iss) /\ "SYN" \notin s.flags
  <2>1. CASE s \in k.out
    BY <1>1, <1>2, <1>4, <2>1, SoundKept DEF Chain
  <2>2. CASE s \notin k.out
    BY <1>2, <1>5, <2>2, CarriedSound DEF Advances
  <2> QED
    BY <2>1, <2>2
<1> QED
  BY <1>1, <1>2, <1>3, <1>4, <1>5, <1>6 DEF Chain, SameStream, Advances

LEMMA SendsChain ==
  ASSUME NEW c \in Connections, NEW p \in Connections, NEW k, NEW j,
         Chain(k, c, p), Sends(k, j)
  PROVE  Chain(j, c, p)
<1>1. k \in Connections /\ k.snd_una \in Nat
  BY Fields DEF Chain
<1>2. Advances(k, j) /\ j.snd_una = k.snd_una /\ j.snd_una <= p.rcv_nxt
  BY SendsAdvances DEF Chain
<1> QED
  BY <1>1, <1>2, AdvancesChain

\* As far as the two streams go, j is k: a timer of the state, the event or a
\* counter has changed.
Alike(k, j) ==
  /\ j \in Connections /\ SameWindow(k, j)
  /\ j.fsm = k.fsm /\ j.active = k.active /\ j.ind = k.ind /\ j.sockstate = k.sockstate
  /\ j.fault = k.fault /\ j.rcv_nxt = k.rcv_nxt /\ j.rcvQueue = k.rcvQueue
  /\ j.fin_rcvd = k.fin_rcvd /\ j.rcv_fin_seq = k.rcv_fin_seq
  /\ j.delivered = k.delivered /\ j.out = k.out

LEMMA SetAlike ==
  ASSUME NEW k \in Connections
  PROVE  /\ \A ev \in Event : Alike(k, [k EXCEPT !.event = ev])
         /\ \A b \in BOOLEAN : Alike(k, [k EXCEPT !.ack_now = b])
         /\ \A n \in Nat : Alike(k, [k EXCEPT !.full_sized = n])
         /\ Alike(k, [k EXCEPT !.timers = @ \cup {"2MSL"}])
<1>1. ASSUME NEW ev \in Event PROVE Alike(k, [k EXCEPT !.event = ev])
  <2> DEFINE j == [k EXCEPT !.event = ev]
  <2>1. j \in Connections
    BY SetState
  <2> QED
    BY <2>1 DEF Alike, SameWindow, SameBounds, Connections
<1>2. ASSUME NEW b \in BOOLEAN PROVE Alike(k, [k EXCEPT !.ack_now = b])
  <2> DEFINE j == [k EXCEPT !.ack_now = b]
  <2>1. j \in Connections
    BY SetBoolean
  <2> QED
    BY <2>1 DEF Alike, SameWindow, SameBounds, Connections
<1>3. ASSUME NEW n \in Nat PROVE Alike(k, [k EXCEPT !.full_sized = n])
  <2> DEFINE j == [k EXCEPT !.full_sized = n]
  <2>1. j \in Connections
    BY SetNat
  <2> QED
    BY <2>1 DEF Alike, SameWindow, SameBounds, Connections
<1>4. Alike(k, [k EXCEPT !.timers = @ \cup {"2MSL"}])
  <2> DEFINE j == [k EXCEPT !.timers = @ \cup {"2MSL"}]
  <2>1. j \in Connections
    BY Fields, SetState DEF Timer
  <2> QED
    BY <2>1 DEF Alike, SameWindow, SameBounds, Connections
<1> QED
  BY <1>1, <1>2, <1>3, <1>4

LEMMA AlikeTransitive ==
  ASSUME NEW k, NEW j, NEW i, Alike(k, j), Alike(j, i)
  PROVE  Alike(k, i)
BY DEF Alike, SameWindow, SameBounds

LEMMA AlikeChain ==
  ASSUME NEW c, NEW p, NEW k, NEW j, Alike(k, j)
  PROVE  /\ Chain(k, c, p) => Chain(j, c, p)
         /\ Window(k) => Window(j)
         /\ Armed(k) => Armed(j)
<1>1. Chain(k, c, p) => Chain(j, c, p)
  BY DEF Alike, SameWindow, SameBounds, Chain, Grown, Received, Sound
<1> QED
  BY <1>1, SameWindowKept DEF Alike

\* The 2MSL timer is started only where it does not run.
LEMMA MSLTimerAlike ==
  ASSUME NEW k \in Connections, NEW j,
         \/ j = Start2MSLTimer(k) /\ "2MSL" \notin k.timers
         \/ j = Restart2MSLTimer(k)
  PROVE  Alike(k, j) /\ j.event = k.event
<1> DEFINE m == [k EXCEPT !.timers = @ \cup {"2MSL"}]
<1>1. Alike(k, m) /\ m.event = k.event
  BY SetAlike DEF Connections
<1>2. CASE j = Start2MSLTimer(k) /\ "2MSL" \notin k.timers
  <2>1. j = m
    BY <1>2 DEF Start2MSLTimer, Schedule, Assert, Connections
  <2> QED
    BY <1>1, <2>1
<1>3. CASE j = Restart2MSLTimer(k)
  <2>1. (k.timers \ {"2MSL"}) \cup {"2MSL"} = k.timers \cup {"2MSL"}
    OBVIOUS
  <2>2. j = m
    BY <1>3, <2>1 DEF Restart2MSLTimer, Start2MSLTimer, Schedule, Assert, Cancel, Connections
  <2> QED
    BY <1>1, <2>2
<1> QED
  BY <1>2, <1>3
-----------------------------------------------------------------------------
(* Records on the way, once the window is in order.                        *)

\* The event that a handler leaves behind is true of the window.
EventFits(r) ==
  /\ r.event = "RCV_ACK" /\ r.fsm \in {"FIN_WAIT_1", "CLOSING"} => r.fin_ack_rcvd
  /\ r.event = "RCV_FIN_ACK" => r.fin_ack_rcvd
  /\ r.event = "CLOSE" => r.send_fin /\ r.snd_max = r.bufEnd + 1
  /\ r.fsm \in {"FIN_WAIT_2", "TIME_WAIT"} => r.fin_ack_rcvd

Flow(r, c, p) == Chain(r, c, p) /\ Window(r) /\ EventFits(r)

LEMMA AdvancesFlow ==
  ASSUME NEW c \in Connections, NEW p \in Connections, NEW k, NEW j,
         Flow(k, c, p), Advances(k, j), Window(j),
         k.snd_una <= j.snd_una, j.snd_una <= p.rcv_nxt
  PROVE  Flow(j, c, p)
<1>1. k \in Connections /\ j \in Connections
  BY DEF Flow, Chain, Advances
<1>2. /\ k.snd_una \in Nat /\ j.snd_una \in Nat /\ k.snd_max \in Nat /\ j.snd_max \in Nat
      /\ j.snd_nxt \in Nat /\ k.bufEnd \in Nat
  BY <1>1, Fields
<1>3. Chain(j, c, p)
  BY AdvancesChain DEF Flow
<1>4. /\ j.fsm = k.fsm /\ j.event = k.event /\ j.bufEnd = k.bufEnd /\ j.send_fin = k.send_fin
      /\ k.snd_max <= j.snd_max
  BY DEF Advances, Sending, SameStream
<1>5. k.fin_ack_rcvd => j.fin_ack_rcvd
  BY <1>2, <1>4 DEF Flow, Window
<1>6. k.snd_max = k.bufEnd + 1 => j.snd_max = j.bufEnd + 1
  BY <1>2, <1>4 DEF Window
<1> QED
  BY <1>3, <1>4, <1>5, <1>6 DEF Flow, EventFits

LEMMA SendsFlow ==
  ASSUME NEW c \in Connections, NEW p \in Connections, NEW k, NEW j,
         Flow(k, c, p), Sends(k, j), Window(j)
  PROVE  Flow(j, c, p)
<1>1. k \in Connections /\ k.snd_una \in Nat
  BY Fields DEF Flow, Chain
<1>2. Advances(k, j) /\ j.snd_una = k.snd_una /\ j.snd_una <= p.rcv_nxt
  BY SendsAdvances DEF Flow, Chain
<1> QED
  BY <1>1, <1>2, AdvancesFlow

LEMMA AlikeFlow ==
  ASSUME NEW c, NEW p, NEW k, NEW j, Flow(k, c, p), Alike(k, j), EventFits(j)
  PROVE  Flow(j, c, p)
BY AlikeChain DEF Flow

LEMMA AlikeSameEvent ==
  ASSUME NEW k, NEW j, Alike(k, j), j.event = k.event, EventFits(k)
  PROVE  EventFits(j)
BY DEF Alike, SameWindow, SameBounds, EventFits

LEMMA ProcessAckOfFinFlow ==
  ASSUME NEW c \in Connections, NEW p \in Connections, NEW k, Flow(k, c, p),
         k.fsm = "CLOSING" => "2MSL" \notin k.timers
  PROVE  LET j == ProcessAckOfFin(k)
         IN /\ Flow(j, c, p) /\ (Armed(k) => Armed(j))
            /\ j.snd_una = k.snd_una /\ j.rcv_nxt = k.rcv_nxt /\ j.rcvQueue = k.rcvQueue
            /\ j.fin_rcvd = k.fin_rcvd /\ j.rcv_fin_seq = k.rcv_fin_seq
<1> DEFINE ack == [k EXCEPT !.event = "RCV_ACK"]
           s   == SendAck(k)
           j   == ProcessAckOfFin(k)
           Kept(i) == /\ Flow(i, c, p) /\ (Armed(k) => Armed(i))
                      /\ i.snd_una = k.snd_una /\ i.rcv_nxt = k.rcv_nxt
                      /\ i.rcvQueue = k.rcvQueue
                      /\ i.fin_rcvd = k.fin_rcvd /\ i.rcv_fin_seq = k.rcv_fin_seq
<1>1. k \in Connections
  BY DEF Flow, Chain
<1>2. ASSUME NEW i, Alike(k, i), EventFits(i)
      PROVE  Kept(i)
  BY <1>2, AlikeFlow, AlikeChain DEF Alike, SameWindow, SameBounds
<1>3. Alike(k, ack) /\ ack.event = "RCV_ACK" /\ ack.timers = k.timers
      /\ (k.fin_ack_rcvd => EventFits(ack))
  <2>1. Alike(k, ack)
    BY <1>1, SetAlike DEF Event
  <2>2. ack.event = "RCV_ACK" /\ ack.timers = k.timers
    BY <1>1 DEF Connections
  <2> HIDE DEF ack
  <2> QED
    BY <2>1, <2>2 DEF Alike, SameWindow, SameBounds, EventFits, Flow
<1> HIDE DEF ack
<1>4. CASE k.fsm = "FIN_WAIT_1" /\ k.fin_ack_rcvd
  <2>1. j = ack
    BY <1>4 DEF ProcessAckOfFin, ack
  <2> HIDE DEF Kept, j
  <2>2. Kept(ack)
    BY <1>2, <1>3, <1>4
  <2> QED
    BY <2>1, <2>2 DEF Kept, j
<1>5. CASE k.fsm = "CLOSING" /\ k.fin_ack_rcvd
  <2>1. j = Start2MSLTimer(ack)
    BY <1>5 DEF ProcessAckOfFin, ack
  <2> HIDE DEF Kept, j
  <2>2. Alike(ack, j) /\ j.event = ack.event
    <3>1. ack \in Connections
      BY <1>3 DEF Alike
    <3> QED
      BY <1>3, <1>5, <2>1, <3>1, MSLTimerAlike
  <2>3. Alike(k, j) /\ EventFits(j)
    BY <1>3, <1>5, <2>2, AlikeTransitive, AlikeSameEvent
  <2>4. Kept(j)
    BY <1>2, <2>3
  <2> QED
    BY <2>4 DEF Kept, j
<1>6. CASE k.fsm = "TIME_WAIT"
  <2>1. j = Restart2MSLTimer(s)
    BY <1>6 DEF ProcessAckOfFin
  <2> HIDE DEF j, s
  <2>2. Sends(k, s) /\ SameWindow(k, s)
    BY <1>1, SendAckSends DEF s
  <2>3. Flow(s, c, p) /\ s \in Connections /\ s.event = k.event
    BY <2>2, SendsFlow, SameWindowKept DEF Flow, Sends, Sending, SameStream
  <2>4. Alike(s, j) /\ j.event = s.event
    BY <2>1, <2>3, MSLTimerAlike
  <2>5. Flow(j, c, p) /\ (Armed(k) => Armed(j))
    BY <2>2, <2>3, <2>4, AlikeFlow, AlikeChain, AlikeSameEvent, SameWindowKept DEF Flow
  <2>6. /\ j.snd_una = k.snd_una /\ j.rcv_nxt = k.rcv_nxt /\ j.rcvQueue = k.rcvQueue
        /\ j.fin_rcvd = k.fin_rcvd /\ j.rcv_fin_seq = k.rcv_fin_seq
    BY <2>2, <2>4 DEF Alike, Sends, Moves, Sending, SameStream, SameWindow, SameBounds
  <2> QED
    BY <2>5, <2>6 DEF j
<1>7. CASE ~(\/ k.fsm = "FIN_WAIT_1" /\ k.fin_ack_rcvd
             \/ k.fsm = "CLOSING" /\ k.fin_ack_rcvd
             \/ k.fsm = "TIME_WAIT")
  <2>1. j = k
    BY <1>7 DEF ProcessAckOfFin
  <2> QED
    BY <2>1
<1> QED
  BY <1>4, <1>5, <1>6, <1>7
-----------------------------------------------------------------------------
(* The text and the FIN of a segment.                                      *)

\* All of the stream of p has been received, and its FIN is taken.
LEMMA FinArrivedFlow ==
  ASSUME NEW c \in Connections, NEW p \in Connections, NEW k, Flow(k, c, p),
         k.fsm # "TIME_WAIT", "2MSL" \notin k.timers,
         k.rcv_nxt = p.bufEnd, p.bufEnd < p.snd_max
  PROVE  LET j == FinArrived(k)
         IN Flow(j, c, p) /\ (Armed(k) => Armed(j))
<1> DEFINE acked == k.fsm = "FIN_WAIT_1" /\ k.fin_ack_rcvd
           ev == IF acked THEN "RCV_FIN_ACK" ELSE "RCV_FIN"
           a  == [k EXCEPT !.rcv_nxt = k.rcv_nxt + 1]
           b  == [a EXCEPT !.event = ev]
           j  == FinArrived(k)
<1>1. k \in Connections
  BY DEF Flow, Chain
<1>2. /\ k.rcv_nxt \in Nat /\ k.rcv_nxt + 1 \in Nat /\ p.bufEnd \in Nat /\ p.snd_max \in Nat
      /\ p.iss \in Nat /\ k.delivered \in Nat /\ k.rcvQueue \in SUBSET Nat
      /\ k.snd_max \in Nat /\ k.bufEnd \in Nat /\ c.rcv_nxt \in Nat
      /\ k.out \in SUBSET Segments
  BY <1>1, Fields
<1>3. j = IF acked \/ k.fsm = "FIN_WAIT_2" THEN Start2MSLTimer(b) ELSE b
  <2>1. b = [k EXCEPT !.rcv_nxt = @ + 1, !.event = IF acked THEN "RCV_FIN_ACK" ELSE "RCV_FIN"]
    BY <1>1 DEF Connections
  <2> HIDE DEF b
  <2> QED
    BY <2>1 DEF FinArrived
<1> HIDE DEF j
<1>4. a \in Connections /\ a.rcv_nxt = k.rcv_nxt + 1
  <2>1. a.rcv_nxt = k.rcv_nxt + 1
    BY <1>1 DEF Connections
  <2> QED
    BY <1>1, <1>2, <2>1, SetNat
<1>5. /\ a.iss = k.iss /\ a.snd_una = k.snd_una /\ a.snd_nxt = k.snd_nxt
      /\ a.snd_max = k.snd_max /\ a.bufStart = k.bufStart /\ a.bufEnd = k.bufEnd
      /\ a.send_fin = k.send_fin /\ a.snd_fin_seq = k.snd_fin_seq
      /\ a.fin_ack_rcvd = k.fin_ack_rcvd /\ a.timers = k.timers
      /\ a.lossRecovery = k.lossRecovery /\ a.recover = k.recover
      /\ a.fsm = k.fsm /\ a.active = k.active /\ a.ind = k.ind /\ a.sockstate = k.sockstate
      /\ a.fault = k.fault /\ a.rcvQueue = k.rcvQueue /\ a.event = k.event
      /\ a.fin_rcvd = k.fin_rcvd /\ a.rcv_fin_seq = k.rcv_fin_seq
      /\ a.delivered = k.delivered /\ a.out = k.out
  BY <1>1 DEF Connections
<1> HIDE DEF a
<1>6. Grown(k, a) /\ Grown(c, a)
  BY <1>2, <1>4, <1>5 DEF Grown, Flow, Chain
<1>7. Received(a, p)
  BY <1>2, <1>4, <1>5 DEF Received, Flow, Chain
<1>8. \A s \in a.out : Sound(s, a, p.iss) /\ "SYN" \notin s.flags
  BY <1>1, <1>2, <1>4, <1>5, <1>6, SoundKept DEF Flow, Chain
<1>9. Chain(a, c, p)
  BY <1>4, <1>5, <1>6, <1>7, <1>8 DEF Flow, Chain
<1>10. Window(a) /\ (Armed(k) => Armed(a)) /\ EventFits(a)
  BY <1>5 DEF Flow, Window, Armed, EventFits
<1>11. Alike(a, b) /\ b.event = ev
  BY <1>4, SetAlike DEF Event, Connections
<1> HIDE DEF b
<1>12. EventFits(b)
  BY <1>5, <1>10, <1>11 DEF EventFits, Alike, SameWindow, SameBounds
<1>13. Flow(b, c, p) /\ (Armed(k) => Armed(b))
  BY <1>9, <1>10, <1>11, <1>12, AlikeChain DEF Flow
<1>14. CASE acked \/ k.fsm = "FIN_WAIT_2"
  <2>1. j = Start2MSLTimer(b)
    BY <1>3, <1>14
  <2>2. b \in Connections /\ "2MSL" \notin b.timers
    <3>1. b.timers = a.timers
      BY <1>4 DEF b, Connections
    <3> QED
      BY <1>5, <1>11, <3>1 DEF Alike
  <2>3. Alike(b, j) /\ j.event = b.event
    BY <2>1, <2>2, MSLTimerAlike
  <2> QED
    BY <1>12, <1>13, <2>3, AlikeFlow, AlikeSameEvent, AlikeChain DEF j
<1>15. CASE ~(acked \/ k.fsm = "FIN_WAIT_2")
  BY <1>3, <1>13, <1>15 DEF j
<1> QED
  BY <1>14, <1>15

\* The units that a segment completes are those from rcv_nxt up to nx.
LEMMA CompletedUnits ==
  ASSUME NEW q \in SUBSET Nat, NEW from \in Nat, NEW nx \in Nat,
         \A u \in q : from <= u, NextMissing(from, q, nx)
  PROVE  Cardinality({u \in q : u < nx}) = nx - from
<1>1. from <= nx /\ from .. (nx - 1) \subseteq q
  BY DEF NextMissing
<1>2. {u \in q : u < nx} = from .. (nx - 1)
  <2>1. ASSUME NEW u PROVE u \in {v \in q : v < nx} <=> u \in from .. (nx - 1)
    <3>1. u \in q => u \in Nat /\ from <= u
      OBVIOUS
    <3> QED
      BY <1>1, <3>1
  <2> QED
    BY <2>1
<1>3. Cardinality(from .. (nx - 1)) = IF from > nx - 1 THEN 0 ELSE (nx - 1) - from + 1
  BY FS_Interval
<1>4. (IF from > nx - 1 THEN 0 ELSE (nx - 1) - from + 1) = nx - from
  BY <1>1
<1> QED
  BY <1>2, <1>3, <1>4

\* What ProcessText does before it answers.
Stored(k, s, nx) ==
  LET q == k.rcvQueue \cup {s.seq}
  IN [k EXCEPT !.full_sized = @ + 1, !.rcv_nxt = nx, !.rcvQueue = {u \in q : u >= nx},
               !.delivered = @ + Cardinality({u \in q : u < nx})]

\* The text of s is new to k, and nx is what k misses after it.
Fills(s, k, nx, p) ==
  /\ k.rcv_nxt <= s.seq /\ s.seq < p.bufEnd /\ s.seq < p.snd_max
  /\ NextMissing(k.rcv_nxt, k.rcvQueue \cup {s.seq}, nx)

LEMMA StoredFlow ==
  ASSUME NEW c \in Connections, NEW p \in Connections, NEW k, NEW s \in Segments,
         NEW nx \in Nat, Flow(k, c, p), Fills(s, k, nx, p)
  PROVE  LET j == Stored(k, s, nx)
         IN /\ Flow(j, c, p) /\ j.rcv_nxt = nx /\ j.snd_una = k.snd_una
            /\ j.timers = k.timers /\ j.fsm = k.fsm /\ j.snd_max = k.snd_max
            /\ j.fin_rcvd = k.fin_rcvd /\ j.rcv_fin_seq = k.rcv_fin_seq
<1> DEFINE q == k.rcvQueue \cup {s.seq}
           j == Stored(k, s, nx)
<1>1. k \in Connections
  BY DEF Flow, Chain
<1>2. /\ k.rcv_nxt \in Nat /\ p.bufEnd \in Nat /\ p.snd_max \in Nat /\ s.seq \in Nat
      /\ p.iss \in Nat /\ k.delivered \in Nat /\ k.rcvQueue \in SUBSET Nat
      /\ k.snd_max \in Nat /\ k.bufEnd \in Nat /\ c.rcv_nxt \in Nat
      /\ k.out \in SUBSET Segments /\ k.full_sized \in Nat
  BY <1>1, Fields DEF Segments
<1>3. \A u \in q : k.rcv_nxt <= u /\ u < p.bufEnd /\ u < p.snd_max
  BY <1>2 DEF Flow, Chain, Received, Fills
<1>4. q \in SUBSET Nat /\ Cardinality({u \in q : u < nx}) = nx - k.rcv_nxt
  <2>1. q \in SUBSET Nat
    BY <1>2
  <2> QED
    BY <1>2, <1>3, <2>1, CompletedUnits DEF Fills
<1>5. k.rcv_nxt <= nx /\ nx \notin q /\ (k.rcv_nxt # nx => nx - 1 \in q)
  BY <1>2 DEF NextMissing, Fills
<1>6. /\ nx <= p.snd_max /\ (k.rcv_nxt # nx => nx <= p.bufEnd /\ k.rcv_nxt <= p.bufEnd)
      /\ k.rcv_nxt <= p.snd_max
      /\ \A u \in {v \in q : v >= nx} : nx < u /\ u < p.bufEnd /\ u < p.snd_max
  <2>1. k.rcv_nxt <= p.snd_max
    BY DEF Flow, Chain, Received
  <2>2. k.rcv_nxt # nx => nx - 1 < p.bufEnd /\ nx - 1 < p.snd_max
    BY <1>3, <1>5
  <2>3. ASSUME NEW u \in q, u >= nx PROVE nx < u /\ u < p.bufEnd /\ u < p.snd_max
    BY <1>2, <1>3, <1>4, <1>5, <2>3
  <2> QED
    BY <1>2, <1>5, <2>1, <2>2, <2>3
<1>7. /\ k.delivered + (nx - k.rcv_nxt) =
           (IF nx <= p.bufEnd THEN nx ELSE p.bufEnd) - (p.iss + 1)
      /\ k.delivered + (nx - k.rcv_nxt) \in Nat
  <2>1. k.delivered = (IF k.rcv_nxt <= p.bufEnd THEN k.rcv_nxt ELSE p.bufEnd) - (p.iss + 1)
    BY DEF Flow, Chain, Received
  <2>2. CASE k.rcv_nxt = nx
    BY <1>2, <2>1, <2>2
  <2>3. CASE k.rcv_nxt # nx
    BY <1>2, <1>5, <1>6, <2>1, <2>3
  <2> QED
    BY <2>2, <2>3
<1> HIDE DEF q
<1> DEFINE a1 == [k EXCEPT !.full_sized = k.full_sized + 1]
           a2 == [a1 EXCEPT !.rcv_nxt = nx]
           a3 == [a2 EXCEPT !.rcvQueue = {u \in q : u >= nx}]
           a4 == [a3 EXCEPT !.delivered = k.delivered + (nx - k.rcv_nxt)]
<1>8. a1 \in Connections /\ a2 \in Connections /\ a3 \in Connections /\ a4 \in Connections
  <2>1. a1 \in Connections
    <3>1. k.full_sized + 1 \in Nat
      BY <1>2
    <3> QED
      BY <1>1, <3>1, SetNat
  <2> HIDE DEF a1
  <2>2. a2 \in Connections
    BY <2>1, SetNat
  <2> HIDE DEF a2
  <2>3. a3 \in Connections
    BY <1>4, <2>2, SetState
  <2> HIDE DEF a3
  <2>4. a4 \in Connections
    BY <1>7, <2>3, SetNat
  <2> QED
    BY <2>1, <2>2, <2>3, <2>4
<1>9. j = a4
  BY <1>1, <1>4 DEF Stored, q, Connections
<1>10. /\ j.iss = k.iss /\ j.snd_una = k.snd_una /\ j.snd_nxt = k.snd_nxt
       /\ j.snd_max = k.snd_max /\ j.bufStart = k.bufStart /\ j.bufEnd = k.bufEnd
       /\ j.send_fin = k.send_fin /\ j.snd_fin_seq = k.snd_fin_seq
       /\ j.fin_ack_rcvd = k.fin_ack_rcvd /\ j.timers = k.timers
       /\ j.lossRecovery = k.lossRecovery /\ j.recover = k.recover
       /\ j.fsm = k.fsm /\ j.active = k.active /\ j.ind = k.ind /\ j.sockstate = k.sockstate
       /\ j.fault = k.fault /\ j.event = k.event
       /\ j.fin_rcvd = k.fin_rcvd /\ j.rcv_fin_seq = k.rcv_fin_seq /\ j.out = k.out
       /\ j.rcv_nxt = nx /\ j.rcvQueue = {u \in q : u >= nx}
       /\ j.delivered = k.delivered + (nx - k.rcv_nxt)
  BY <1>1, <1>9 DEF Connections
<1>11. j \in Connections
  BY <1>8, <1>9
<1> HIDE DEF j, a4
<1>12. Grown(k, j) /\ Grown(c, j)
  BY <1>2, <1>5, <1>10 DEF Grown, Flow, Chain
<1>13. Received(j, p)
  <2>1. p.iss < k.rcv_nxt /\ (k.fin_rcvd => k.rcv_fin_seq < p.snd_max)
    BY DEF Flow, Chain, Received
  <2> QED
    BY <1>2, <1>5, <1>6, <1>7, <1>10, <2>1 DEF Received
<1>14. \A x \in j.out : Sound(x, j, p.iss) /\ "SYN" \notin x.flags
  BY <1>1, <1>2, <1>10, <1>11, <1>12, SoundKept DEF Flow, Chain
<1>15. Chain(j, c, p)
  BY <1>10, <1>11, <1>12, <1>13, <1>14 DEF Flow, Chain
<1>16. Window(j) /\ EventFits(j)
  BY <1>10 DEF Flow, Window, EventFits
<1> QED
  BY <1>10, <1>15, <1>16 DEF Flow, j

\* Text whose ACK had acknowledged something arms the timer again, if needed.
LEMMA ProcessTextFlow ==
  ASSUME NEW c \in Connections, NEW p \in Connections, NEW k, NEW s \in Segments,
         NEW w \in Nat, NEW nx \in Nat, NEW una \in Nat, Flow(k, c, p),
         k.fsm # "TIME_WAIT", "2MSL" \notin k.timers,
         k.fin_rcvd => k.rcv_fin_seq = p.bufEnd,
         Fills(s, k, nx, p),
         Armed(k) \/ una < k.snd_una
  PROVE  LET j == ProcessText(k, s, w, nx, una)
         IN Flow(j, c, p) /\ Armed(j)
<1> DEFINE k1 == Stored(k, s, nx)
           k2 == IF una < k.snd_una THEN ReceivedDataAck(k1, w) ELSE k1
           k3 == [k2 EXCEPT !.ack_now = TRUE]
           fin == nx # k.rcv_nxt /\ k.fin_rcvd /\ nx = k.rcv_fin_seq
           j  == ProcessText(k, s, w, nx, una)
<1>1. k \in Connections /\ k.snd_una \in Nat
  BY Fields DEF Flow, Chain
<1>2. /\ Flow(k1, c, p) /\ k1.rcv_nxt = nx /\ k1.snd_una = k.snd_una
      /\ k1.timers = k.timers /\ k1.fsm = k.fsm /\ k1.snd_max = k.snd_max
      /\ k1.fin_rcvd = k.fin_rcvd /\ k1.rcv_fin_seq = k.rcv_fin_seq
  <2> HIDE DEF k2, k3, j, fin
  <2> QED
    BY StoredFlow
<1>3. j = CASE nx = k.rcv_nxt -> SendAck(k2)
            [] fin -> FinArrived(k3)
            [] OTHER -> k2
  <2>1. (k.snd_una > una) <=> (una < k.snd_una)
    BY <1>1
  <2> QED
    BY <2>1 DEF ProcessText, Stored
<1> HIDE DEF k1, j
<1>4. k1 \in Connections /\ (Armed(k) => Armed(k1))
  BY <1>2 DEF Flow, Chain, Armed
<1>5. /\ Flow(k2, c, p) /\ Armed(k2) /\ k2.rcv_nxt = nx /\ k2.fsm = k.fsm
      /\ "2MSL" \notin k2.timers
      /\ k2.fin_rcvd = k.fin_rcvd /\ k2.rcv_fin_seq = k.rcv_fin_seq
  <2>1. CASE una < k.snd_una
    <3>1. Sends(k1, k2) /\ Window(k2) /\ Armed(k2)
      BY <1>2, <1>4, <2>1, ReceivedDataAckSends DEF Flow
    <3> HIDE DEF k2
    <3>2. Flow(k2, c, p)
      BY <1>2, <3>1, SendsFlow
    <3>3. SameStream(k1, k2)
      BY <3>1 DEF Sends, Sending
    <3> QED
      BY <1>2, <3>1, <3>2, <3>3 DEF SameStream
  <2>2. CASE ~(una < k.snd_una)
    BY <1>2, <1>4, <2>2
  <2> QED
    BY <2>1, <2>2
<1> HIDE DEF k2
<1>6. k2 \in Connections
  BY <1>5 DEF Flow, Chain
<1>7. CASE nx = k.rcv_nxt
  <2>1. j = SendAck(k2)
    BY <1>3, <1>7
  <2>2. Sends(k2, j) /\ SameWindow(k2, j)
    BY <1>6, <2>1, SendAckSends
  <2> QED
    BY <1>5, <2>2, SendsFlow, SameWindowKept DEF Flow, j
<1>8. CASE nx # k.rcv_nxt /\ fin
  <2>1. j = FinArrived(k3)
    BY <1>3, <1>8
  <2>2. Alike(k2, k3) /\ k3.event = k2.event /\ k3.timers = k2.timers
    BY <1>6, SetAlike DEF Connections
  <2> HIDE DEF k3
  <2>3. Flow(k3, c, p) /\ Armed(k3)
    BY <1>5, <2>2, AlikeFlow, AlikeSameEvent, AlikeChain DEF Flow
  <2>4. k3.rcv_nxt = p.bufEnd /\ p.bufEnd < p.snd_max /\ k3.fsm # "TIME_WAIT"
        /\ "2MSL" \notin k3.timers
    BY <1>5, <1>8, <2>2 DEF Alike, Flow, Chain, Received
  <2> QED
    BY <2>1, <2>3, <2>4, FinArrivedFlow DEF j
<1>9. CASE nx # k.rcv_nxt /\ ~fin
  <2>1. j = k2
    BY <1>3, <1>9
  <2> QED
    BY <1>5, <2>1 DEF j
<1> QED
  BY <1>7, <1>8, <1>9

\* A FIN is taken where it is next, and remembered where it is early.
LEMMA ProcessFinBitFlow ==
  ASSUME NEW c \in Connections, NEW p \in Connections, NEW k, NEW s \in Segments,
         Flow(k, c, p), s.seq + s.len = p.bufEnd, p.bufEnd < p.snd_max,
         k.rcv_nxt = p.bufEnd => k.fsm # "TIME_WAIT" /\ "2MSL" \notin k.timers
  PROVE  LET j == ProcessFinBit(k, s)
         IN Flow(j, c, p) /\ (Armed(k) => Armed(j))
<1> DEFINE k1 == [k EXCEPT !.ack_now = TRUE]
           k2 == [k1 EXCEPT !.fin_rcvd = TRUE]
           k3 == [k2 EXCEPT !.rcv_fin_seq = p.bufEnd]
           j  == ProcessFinBit(k, s)
<1>1. k \in Connections
  BY DEF Flow, Chain
<1>2. Alike(k, k1) /\ k1.event = k.event /\ k1.timers = k.timers
  BY <1>1, SetAlike DEF Connections
<1>3. j = IF k.rcv_nxt = p.bufEnd THEN FinArrived(k1) ELSE k3
  <2>1. k3 = [k1 EXCEPT !.fin_rcvd = TRUE, !.rcv_fin_seq = p.bufEnd]
    BY <1>1 DEF Connections
  <2> HIDE DEF k3
  <2> QED
    BY <2>1 DEF ProcessFinBit
<1> HIDE DEF k1, j
<1>4. Flow(k1, c, p) /\ (Armed(k) => Armed(k1))
  BY <1>2, AlikeFlow, AlikeSameEvent, AlikeChain DEF Flow
<1>5. CASE k.rcv_nxt = p.bufEnd
  <2>1. k1.rcv_nxt = p.bufEnd /\ k1.fsm # "TIME_WAIT" /\ "2MSL" \notin k1.timers
    BY <1>2, <1>5 DEF Alike
  <2> QED
    BY <1>3, <1>4, <1>5, <2>1, FinArrivedFlow DEF j
<1>6. CASE k.rcv_nxt # p.bufEnd
  <2>1. k1 \in Connections /\ p.bufEnd \in Nat
    BY <1>2, Fields DEF Alike
  <2>2. k2 \in Connections
    BY <2>1, SetBoolean
  <2>3. k3 \in Connections
    <3> HIDE DEF k2
    <3> QED
      BY <2>1, <2>2, SetNat
  <2>4. /\ SameWindow(k1, k3) /\ k3.event = k1.event
        /\ k3.fsm = k1.fsm /\ k3.active = k1.active /\ k3.ind = k1.ind
        /\ k3.sockstate = k1.sockstate
        /\ k3.fault = k1.fault /\ k3.rcv_nxt = k1.rcv_nxt /\ k3.rcvQueue = k1.rcvQueue
        /\ k3.fin_rcvd /\ k3.rcv_fin_seq = p.bufEnd
        /\ k3.delivered = k1.delivered /\ k3.out = k1.out
    BY <2>1 DEF SameWindow, SameBounds, Connections
  <2> HIDE DEF k3, k2
  <2>5. Received(k3, p)
    BY <1>4, <2>4 DEF Flow, Chain, Received
  <2>6. Chain(k3, c, p)
    BY <1>4, <2>3, <2>4, <2>5 DEF Flow, Chain, Grown, Sound, SameWindow, SameBounds
  <2>7. Window(k3) /\ EventFits(k3) /\ (Armed(k1) => Armed(k3))
    BY <1>4, <2>4, SameWindowKept DEF Flow, EventFits, SameWindow, SameBounds
  <2> QED
    BY <1>3, <1>4, <1>6, <2>6, <2>7 DEF Flow, j
<1> QED
  BY <1>5, <1>6

LEMMA DeferredCloseFlow ==
  ASSUME NEW c \in Connections, NEW p \in Connections, NEW k, Flow(k, c, p), NEW old
  PROVE  LET j == DeferredClose(k, old)
         IN Flow(j, c, p) /\ (Armed(k) => Armed(j)) /\ j.fsm = k.fsm
<1> DEFINE j == [k EXCEPT !.event = "CLOSE"]
<1>1. k \in Connections
  BY DEF Flow, Chain
<1>2. Alike(k, j) /\ j.event = "CLOSE"
  BY <1>1, SetAlike DEF Event, Connections
<1> HIDE DEF j
<1>3. CASE k.send_fin /\ k.snd_nxt = k.snd_fin_seq + 1
  <2>1. k.snd_max = k.bufEnd + 1 /\ k.snd_nxt \in Nat /\ k.snd_max \in Nat
    BY <1>1, <1>3, Fields DEF Flow, Window
  <2>2. EventFits(j)
    BY <1>2, <1>3, <2>1 DEF EventFits, Alike, SameWindow, SameBounds, Flow
  <2>3. Flow(j, c, p) /\ (Armed(k) => Armed(j)) /\ j.fsm = k.fsm
    BY <1>2, <2>2, AlikeFlow, AlikeChain DEF Alike
  <2> QED
    BY <2>3 DEF DeferredClose, j
<1>4. CASE ~(k.send_fin /\ k.snd_nxt = k.snd_fin_seq + 1)
  BY <1>4 DEF DeferredClose
<1> QED
  BY <1>3, <1>4
-----------------------------------------------------------------------------
(* The fifth to the eighth step of processSegment1stThru8th().             *)

\* What TransferInv says of a connection k with peer p, between two handlers.
Sides(k, p) ==
  /\ k \in Connections /\ p \in Connections /\ Base(k, p)
  /\ SendSide(k) /\ ReceiveSide(k, p)
  /\ k.snd_una > k.iss => k.snd_una <= p.rcv_nxt
  /\ p.send_fin => p.snd_fin_seq = p.bufEnd

\* The record from which the handling of an acceptable ACK starts.
Answering(k) == IF k.fsm = "SYN_RCVD" THEN Indicate(k, "ESTABLISHED") ELSE k

LEMMA AnsweringSame ==
  ASSUME NEW k \in Connections
  PROVE  LET c == Answering(k)
         IN /\ c \in Connections /\ SameWindow(k, c)
            /\ c.fsm = k.fsm /\ c.active = k.active /\ c.event = k.event
            /\ c.fault = k.fault /\ c.rcv_nxt = k.rcv_nxt /\ c.rcvQueue = k.rcvQueue
            /\ c.fin_rcvd = k.fin_rcvd /\ c.rcv_fin_seq = k.rcv_fin_seq
            /\ c.delivered = k.delivered /\ c.out = k.out /\ c.timers = k.timers
            /\ c.ind = IF k.fsm = "SYN_RCVD" THEN Append(k.ind, "ESTABLISHED") ELSE k.ind
            /\ c.sockstate = IF k.fsm = "SYN_RCVD" THEN "CONNECTED" ELSE k.sockstate
<1> DEFINE c == Indicate(k, "ESTABLISHED")
<1>1. /\ c \in Connections /\ SocketOf("ESTABLISHED") = "CONNECTED"
      /\ SocketOf("ESTABLISHED") \in SockState
  BY IndicateType DEF Indication, SocketOf, SockState
<1>2. /\ SameWindow(k, c)
      /\ c.fsm = k.fsm /\ c.active = k.active /\ c.event = k.event
      /\ c.fault = k.fault /\ c.rcv_nxt = k.rcv_nxt /\ c.rcvQueue = k.rcvQueue
      /\ c.fin_rcvd = k.fin_rcvd /\ c.rcv_fin_seq = k.rcv_fin_seq
      /\ c.delivered = k.delivered /\ c.out = k.out /\ c.timers = k.timers
      /\ c.ind = Append(k.ind, "ESTABLISHED") /\ c.sockstate = "CONNECTED"
  BY <1>1 DEF Indicate, SameWindow, SameBounds, Connections
<1> HIDE DEF c
<1> QED
  BY <1>1, <1>2 DEF Answering, c, SameWindow, SameBounds

\* Text is new only to an end that has not taken the FIN.
LEMMA NewText ==
  ASSUME NEW k, NEW p, NEW s \in Segments, NEW n, Sides(k, p),
         Sound(s, p, n), Acceptable(k, s), s.len # 0
  PROVE  /\ k.fsm \notin PeerFinSeen /\ k.rcv_nxt <= s.seq
         /\ s.seq < p.bufEnd /\ s.seq < p.snd_max
<1>1. /\ k.rcv_nxt \in Nat /\ s.seq \in Nat /\ p.bufEnd \in Nat /\ s.len = 1
  BY Fields DEF Segments, Sides, Sound
<1>2. k.rcv_nxt <= s.seq /\ s.seq < p.bufEnd /\ s.seq < p.snd_max
  BY <1>1 DEF Acceptable, Sound
<1>3. k.fsm \in PeerFinSeen => p.snd_fin_seq = k.rcv_nxt - 1 /\ p.snd_fin_seq = p.bufEnd
  BY DEF Sides, Base, FinKnown, FinAt
<1> QED
  BY <1>1, <1>2, <1>3

\* How the segment may leave the record, before the state changes.
Outcome(r, p) ==
  \/ r.fsm \in OpenStates /\ (Before(r) \/ After(r, p))
  \/ Done(r, p)
  \/ r.fsm \in {"SYN_RCVD", "ESTABLISHED", "CLOSE_WAIT"} /\ r.event = "CLOSE"
  \/ r.fsm = "LAST_ACK" /\ r.event = "RCV_ACK"

LEMMA AckTaken ==
  ASSUME NEW k, NEW p, NEW s \in Segments, NEW w \in Nat, Sides(k, p),
         k.fsm \in {"SYN_RCVD"} \cup Synchronized,
         "ACK" \in s.flags, "RST" \notin s.flags, Sound(s, p, k.iss), Acceptable(k, s),
         IF k.fsm = "SYN_RCVD" THEN s.ackNo <= k.snd_nxt
                               ELSE k.fsm # "TIME_WAIT" => s.ackNo <= k.snd_max
  PROVE  LET c == Answering(k)
             told == [c EXCEPT !.event = "RCV_ACK"]
             k0 == IF k.fsm = "SYN_RCVD" THEN told ELSE k
             k1 == IF k.fsm = "TIME_WAIT" THEN k0 ELSE ProcessAck(k0, s, w)
         IN /\ Flow(k1, c, p) /\ Sending(k0, k1)
            /\ k0.event = IF k.fsm = "SYN_RCVD" THEN "RCV_ACK" ELSE "IGNORE"
            /\ k0.timers = k.timers /\ k0.fsm = k.fsm
            /\ k0.rcv_nxt = k.rcv_nxt /\ k0.fin_rcvd = k.fin_rcvd
            /\ k0.rcv_fin_seq = k.rcv_fin_seq
            /\ k1.rcvQueue = k.rcvQueue
            /\ Armed(k1) \/ (ReceivesText(k, s) /\ k.snd_una < k1.snd_una)
<1> DEFINE c == Answering(k)
           told == [c EXCEPT !.event = "RCV_ACK"]
           k0 == IF k.fsm = "SYN_RCVD" THEN told ELSE k
           k1 == IF k.fsm = "TIME_WAIT" THEN k0 ELSE ProcessAck(k0, s, w)
<1>1. k \in Connections /\ p \in Connections /\ s.ackNo \in Nat /\ s.len \in Nat
  BY DEF Sides, Segments
<1>2. /\ k.iss \in Nat /\ k.snd_una \in Nat /\ k.snd_nxt \in Nat /\ k.snd_max \in Nat
      /\ k.bufEnd \in Nat /\ k.rcv_nxt \in Nat /\ p.rcv_nxt \in Nat
  BY <1>1, Fields
<1>3. /\ c \in Connections /\ SameWindow(k, c)
      /\ c.fsm = k.fsm /\ c.active = k.active /\ c.event = k.event
      /\ c.fault = k.fault /\ c.rcv_nxt = k.rcv_nxt /\ c.rcvQueue = k.rcvQueue
      /\ c.fin_rcvd = k.fin_rcvd /\ c.rcv_fin_seq = k.rcv_fin_seq
      /\ c.delivered = k.delivered /\ c.out = k.out /\ c.timers = k.timers
  BY <1>1, AnsweringSame
<1>4. ~(k.fsm = "SYN_RCVD") => c = k
  BY DEF Answering
<1> HIDE DEF c
<1>5. Alike(c, k0) /\ k0.event = IF k.fsm = "SYN_RCVD" THEN "RCV_ACK" ELSE "IGNORE"
  <2>1. CASE k.fsm = "SYN_RCVD"
    <3>1. Alike(c, told)
      BY <1>3, SetAlike DEF Event
    <3>2. told.event = "RCV_ACK"
      BY <1>3 DEF Connections
    <3> QED
      BY <2>1, <3>1, <3>2
  <2>2. CASE k.fsm # "SYN_RCVD"
    <3>1. Alike(k, k) /\ k.event = "IGNORE"
      BY <1>1 DEF Alike, SameWindow, SameBounds, Sides, Base, Idle
    <3> QED
      BY <1>4, <2>2, <3>1
  <2> QED
    BY <2>1, <2>2
<1>6. k0.timers = k.timers
  BY <1>3 DEF Connections
<1> HIDE DEF k0
<1>7. /\ k.iss < s.ackNo /\ s.ackNo <= p.rcv_nxt /\ k.snd_una <= p.rcv_nxt
      /\ k.fsm # "TIME_WAIT" => s.ackNo <= k.snd_max
      /\ ~k.fault /\ Received(k, p) /\ k.out = {}
      /\ k.fsm = "SYN_RCVD" => Fresh(k)
      /\ k.fsm # "SYN_RCVD" => Window(k) /\ Armed(k)
      /\ k.fsm \in {"FIN_WAIT_2", "TIME_WAIT"} => k.fin_ack_rcvd
  <2>1. k.iss < s.ackNo /\ s.ackNo <= p.rcv_nxt
    BY DEF Sound
  <2>2. Received(k, p) /\ k.out = {} /\ ~k.fault
    BY DEF Sides, ReceiveSide, Opened, Base, Idle, SendSide
  <2>3. /\ k.fsm = "SYN_RCVD" => Fresh(k)
        /\ k.fsm # "SYN_RCVD" => Window(k) /\ Armed(k)
        /\ k.fsm \in {"FIN_WAIT_2", "TIME_WAIT"} => k.fin_ack_rcvd
    BY DEF Sides, SendSide, Unopened
  <2>4. k.fsm # "TIME_WAIT" => s.ackNo <= k.snd_max
    BY <2>3 DEF Fresh
  <2>5. k.snd_una <= p.rcv_nxt
    BY <1>1, <1>2, <2>1 DEF Sides
  <2> QED
    BY <2>1, <2>2, <2>3, <2>4, <2>5
<1>8. Chain(c, c, p)
  BY <1>1, <1>2, <1>3, <1>7 DEF Chain, Grown, Received, SameWindow, SameBounds
<1>9. Chain(k0, c, p) /\ k0 \in Connections /\ SameWindow(k, k0)
  BY <1>3, <1>5, <1>8, AlikeChain DEF Alike, SameWindow, SameBounds
<1>10. CASE k.fsm = "SYN_RCVD"
  <2>1. Fresh(k0) /\ k0.fsm = "SYN_RCVD"
    BY <1>3, <1>5, <1>6, <1>7, <1>9, <1>10 DEF Fresh, SameWindow, SameBounds, Alike
  <2>2. /\ Advances(k0, k1) /\ Window(k1)
        /\ k1.snd_una = IF k0.snd_una < s.ackNo THEN s.ackNo ELSE k0.snd_una
        /\ Armed(k1)
    BY <1>1, <1>7, <1>9, <1>10, <2>1, ProcessAckAdvances DEF SameWindow, SameBounds
  <2> HIDE DEF k1
  <2>3. k0.snd_una <= k1.snd_una /\ k1.snd_una <= p.rcv_nxt
    BY <1>1, <1>2, <1>7, <1>9, <2>2 DEF SameWindow, SameBounds
  <2>4. Chain(k1, c, p)
    BY <1>1, <1>3, <1>9, <2>2, <2>3, AdvancesChain
  <2>5. k1.fsm = "SYN_RCVD" /\ k1.event = "RCV_ACK" /\ Sending(k0, k1)
        /\ k1.rcvQueue = k0.rcvQueue
    BY <1>5, <1>10, <2>1, <2>2 DEF Advances, Sending, SameStream
  <2>6. Flow(k1, c, p)
    BY <2>2, <2>4, <2>5 DEF Flow, EventFits
  <2> QED
    BY <1>3, <1>5, <1>6, <2>2, <2>5, <2>6 DEF k1, k0, c, Alike
<1>11. CASE k.fsm # "SYN_RCVD"
  <2>1. Window(k0) /\ Armed(k0) /\ k0.fsm = k.fsm
    BY <1>3, <1>5, <1>7, <1>9, <1>11, SameWindowKept DEF Alike
  <2>2. Flow(k0, c, p)
    BY <1>5, <1>7, <1>9, <1>11, <2>1 DEF Flow, EventFits, SameWindow, SameBounds
  <2>3. /\ Flow(k1, c, p) /\ Sending(k0, k1) /\ k1.rcvQueue = k0.rcvQueue
        /\ Armed(k1) \/ (s.len # 0 /\ k.snd_una < k1.snd_una)
    <3>1. CASE k.fsm = "TIME_WAIT"
      BY <2>1, <2>2, <3>1, SendingReflexive
    <3>2. CASE k.fsm # "TIME_WAIT"
      <4>1. /\ Advances(k0, k1) /\ Window(k1)
            /\ k1.snd_una = IF k0.snd_una < s.ackNo THEN s.ackNo ELSE k0.snd_una
            /\ Armed(k1) \/ (s.len # 0 /\ k0.snd_una < s.ackNo)
        BY <1>1, <1>7, <1>9, <1>11, <2>1, <3>2, ProcessAckAdvances DEF SameWindow, SameBounds
      <4> HIDE DEF k1
      <4>2. k0.snd_una <= k1.snd_una /\ k1.snd_una <= p.rcv_nxt /\ k0.snd_una = k.snd_una
        BY <1>1, <1>2, <1>7, <1>9, <4>1 DEF SameWindow, SameBounds
      <4>3. Flow(k1, c, p)
        BY <1>1, <1>3, <2>2, <4>1, <4>2, AdvancesFlow
      <4> QED
        BY <4>1, <4>2, <4>3 DEF Advances
    <3> QED
      BY <3>1, <3>2
  <2>4. s.len # 0 => ReceivesText(k, s)
    <3>1. s.len # 0 => k.fsm \notin PeerFinSeen
      BY NewText
    <3> QED
      BY <1>1, <3>1 DEF ReceivesText, PeerFinSeen, Synchronized, Closing
  <2> HIDE DEF k1
  <2> QED
    BY <1>3, <1>5, <1>6, <1>9, <2>1, <2>3, <2>4 DEF k1, k0, c, Alike
<1> QED
  BY <1>10, <1>11

\* What the FIN bit does to the phase of the record, whatever it has sent.
LEMMA ProcessFinBitStage ==
  ASSUME NEW k \in Connections, NEW s, NEW p, FinAt(p, s.seq + s.len),
         k.rcv_nxt = s.seq + s.len => k.fsm \in OpenStates /\ Before(k)
  PROVE  LET j == ProcessFinBit(k, s)
         IN /\ j.fsm = k.fsm
            /\ Before(k) => Before(j) \/ After(j, p)
            /\ After(k, p) => After(j, p)
            /\ Done(k, p) => Done(j, p) /\ j.rcv_nxt = k.rcv_nxt
<1> DEFINE n  == s.seq + s.len
           k1 == [k EXCEPT !.ack_now = TRUE]
           k2 == [k1 EXCEPT !.fin_rcvd = TRUE, !.rcv_fin_seq = n]
           j  == ProcessFinBit(k, s)
<1>1. /\ k1 \in Connections /\ k1.fsm = k.fsm /\ k1.event = k.event
      /\ k1.timers = k.timers /\ k1.rcv_nxt = k.rcv_nxt
  <2>1. /\ k1.fsm = k.fsm /\ k1.event = k.event
        /\ k1.timers = k.timers /\ k1.rcv_nxt = k.rcv_nxt
    BY DEF Connections
  <2> QED
    BY <2>1, SetBoolean
<1>2. j = IF k.rcv_nxt = n THEN FinArrived(k1) ELSE k2
  BY DEF ProcessFinBit
<1> HIDE DEF n, k1, j
<1>3. CASE k.rcv_nxt = n
  <2>1. k1.fsm \in OpenStates /\ Before(k1) /\ FinAt(p, k1.rcv_nxt)
    BY <1>1, <1>3 DEF Before, n
  <2>2. j.fsm = k1.fsm /\ After(j, p)
    BY <1>1, <1>2, <1>3, <2>1, FinArrivedPhase
  <2>3. ~Done(k, p)
    BY <1>3 DEF Done, PeerFinSeen, OpenStates, n
  <2> QED
    BY <1>1, <2>2, <2>3 DEF j
<1>4. CASE k.rcv_nxt # n
  <2>1. /\ k2.fsm = k.fsm /\ k2.event = k.event
        /\ k2.timers = k.timers /\ k2.rcv_nxt = k.rcv_nxt
    BY <1>1 DEF Connections
  <2> HIDE DEF k2
  <2> QED
    BY <1>2, <1>4, <2>1 DEF Before, After, Done, j
<1> QED
  BY <1>3, <1>4

LEMMA ProcessAckedSegmentFlow ==
  ASSUME NEW k, NEW p, NEW s \in Segments, NEW w \in Nat, NEW nx \in Nat, Sides(k, p),
         k.fsm \in {"SYN_RCVD"} \cup Synchronized,
         "ACK" \in s.flags, "RST" \notin s.flags, Sound(s, p, k.iss), Acceptable(k, s),
         IF k.fsm = "SYN_RCVD" THEN s.ackNo <= k.snd_nxt
                               ELSE k.fsm # "TIME_WAIT" => s.ackNo <= k.snd_max,
         "FIN" \in s.flags => FinAt(p, s.seq + s.len),
         ReceivesText(k, s) => NextMissing(k.rcv_nxt, k.rcvQueue \cup {s.seq}, nx)
  PROVE  LET r == ProcessAckedSegment(k, s, w, nx)
         IN /\ Flow(r, Answering(k), p) /\ Outcome(r, p)
            /\ Armed(r) \/ (r.fsm = "LAST_ACK" /\ r.event = "RCV_ACK")
<1> DEFINE c == Answering(k)
           told == Indicate(k, "ESTABLISHED")
           k0 == IF k.fsm = "SYN_RCVD" THEN [told EXCEPT !.event = "RCV_ACK"] ELSE k
           k1 == IF k.fsm = "TIME_WAIT" THEN k0 ELSE ProcessAck(k0, s, w)
           k2 == ProcessAckOfFin(k1)
           k3 == IF ReceivesText(k, s) THEN ProcessText(k2, s, w, nx, k.snd_una) ELSE k2
           k4 == IF "FIN" \in s.flags THEN ProcessFinBit(k3, s) ELSE k3
           k5 == IF k4.rcv_nxt # k.rcv_nxt THEN ReceiveSeqChanged(k4) ELSE k4
           acked == [k1 EXCEPT !.event = "RCV_ACK"]
           last == k.fsm = "LAST_ACK" /\ k.send_fin /\ s.ackNo = k.snd_fin_seq + 1
           r  == ProcessAckedSegment(k, s, w, nx)
           open == k.fsm \in OpenStates
           Phase(j) == IF open THEN Before(j) \/ After(j, p) ELSE Done(j, p)
<1>1. ~open => k.fsm \in PeerFinSeen
  BY DEF OpenStates, PeerFinSeen, Synchronized, Closing
<1>2. r = IF last THEN acked ELSE DeferredClose(k5, k.snd_nxt)
  BY DEF ProcessAckedSegment, r, k0, told, k1, k2, k3, k4, k5, acked, last
<1>3. /\ Flow(k1, c, p) /\ Sending(k0, k1)
      /\ k0.event = IF k.fsm = "SYN_RCVD" THEN "RCV_ACK" ELSE "IGNORE"
      /\ k0.timers = k.timers /\ k0.fsm = k.fsm
      /\ k0.rcv_nxt = k.rcv_nxt /\ k0.fin_rcvd = k.fin_rcvd /\ k0.rcv_fin_seq = k.rcv_fin_seq
      /\ k1.rcvQueue = k.rcvQueue
      /\ Armed(k1) \/ (ReceivesText(k, s) /\ k.snd_una < k1.snd_una)
  <2>1. k0 = IF k.fsm = "SYN_RCVD" THEN [Answering(k) EXCEPT !.event = "RCV_ACK"] ELSE k
    BY DEF Answering
  <2> HIDE DEF c, k0
  <2> QED
    BY <2>1, AckTaken DEF c
<1>4. /\ k \in Connections /\ p \in Connections /\ c \in Connections /\ c.fsm = k.fsm
      /\ s.seq \in Nat /\ s.len \in Nat /\ k.snd_una \in Nat
      /\ p.bufEnd \in Nat
      /\ "2MSL" \in k.timers <=> k.fsm = "TIME_WAIT"
      /\ k.fsm \in PeerFinSeen => FinAt(p, k.rcv_nxt - 1)
      /\ k.fin_rcvd => FinAt(p, k.rcv_fin_seq)
      /\ p.send_fin => p.snd_fin_seq = p.bufEnd
  <2>1. k \in Connections /\ p \in Connections
    BY DEF Sides
  <2> QED
    BY <2>1, AnsweringSame, Fields DEF Sides, Segments, Base, TimersMatch, FinKnown
<1> HIDE DEF last, open, c, k0, k1
<1>5. /\ k1.fsm = k.fsm /\ k1.event = k0.event /\ k1.rcv_nxt = k.rcv_nxt
      /\ k1.fin_rcvd = k.fin_rcvd /\ k1.rcv_fin_seq = k.rcv_fin_seq
      /\ "2MSL" \in k1.timers <=> "2MSL" \in k.timers
      /\ k1 \in Connections
  BY <1>3 DEF Flow, Chain, Sending, SameStream
<1>6. /\ Flow(k2, c, p) /\ (Armed(k1) => Armed(k2))
      /\ k2.snd_una = k1.snd_una /\ k2.rcv_nxt = k1.rcv_nxt /\ k2.rcvQueue = k1.rcvQueue
      /\ k2.fin_rcvd = k1.fin_rcvd /\ k2.rcv_fin_seq = k1.rcv_fin_seq
  BY <1>3, <1>4, <1>5, ProcessAckOfFinFlow
<1>7. /\ k2.fsm = k.fsm /\ IF open THEN Before(k2) ELSE Done(k2, p)
  <2>1. /\ k2.fsm = k1.fsm
        /\ k1.fsm \in OpenStates => Before(k2)
        /\ k1.fsm \in PeerFinSeen => Done(k2, p)
    BY <1>3, <1>4, <1>5, ProcessAckOfFinPhase
  <2> QED
    BY <1>1, <1>5, <2>1 DEF open
<1> HIDE DEF k2
<1>8. /\ Flow(k3, c, p) /\ Armed(k3) /\ Phase(k3) /\ k3.fsm = k.fsm
      /\ ~open => k3.rcv_nxt = k.rcv_nxt
  <2>1. CASE ReceivesText(k, s)
    <3>1. open /\ s.len # 0
      BY <1>4, <2>1 DEF ReceivesText, open, OpenStates
    <3>2. /\ k.fsm \notin PeerFinSeen /\ k.rcv_nxt <= s.seq
          /\ s.seq < p.bufEnd /\ s.seq < p.snd_max
      BY <3>1, NewText
    <3>3. Fills(s, k2, nx, p)
      BY <1>3, <1>5, <1>6, <2>1, <3>2 DEF Fills
    <3>4. k2.fin_rcvd => FinAt(p, k2.rcv_fin_seq) /\ k2.rcv_fin_seq = p.bufEnd
      BY <1>4, <1>5, <1>6 DEF FinAt
    <3>5. k2.fsm \in OpenStates /\ k2 \in Connections /\ Before(k2)
          /\ k2.fsm # "TIME_WAIT" /\ "2MSL" \notin k2.timers
      BY <1>6, <1>7, <3>1 DEF open, OpenStates, Flow, Chain, Before
    <3>6. Armed(k2) \/ k.snd_una < k2.snd_una
      BY <1>3, <1>6
    <3>7. k3 = ProcessText(k2, s, w, nx, k.snd_una)
      BY <2>1
    <3> HIDE DEF k3
    <3>8. k3.fsm = k2.fsm /\ (Before(k3) \/ After(k3, p))
      BY <1>4, <3>4, <3>5, <3>7, ProcessTextPhase
    <3>9. Flow(k3, c, p) /\ Armed(k3)
      BY <1>4, <1>6, <3>3, <3>4, <3>5, <3>6, <3>7, ProcessTextFlow
    <3> QED
      BY <1>7, <3>1, <3>8, <3>9
  <2>2. CASE ~ReceivesText(k, s)
    BY <1>3, <1>5, <1>6, <1>7, <2>2
  <2> QED
    BY <2>1, <2>2
<1> HIDE DEF k3
<1>9. /\ Flow(k4, c, p) /\ Armed(k4) /\ Phase(k4) /\ k4.fsm = k.fsm
      /\ ~open => k4.rcv_nxt = k.rcv_nxt
  <2>1. CASE "FIN" \in s.flags
    <3>1. s.seq + s.len = p.bufEnd /\ p.bufEnd < p.snd_max
      BY <1>4, <2>1 DEF FinAt, Sound
    <3>2. k3 \in Connections /\ k3.rcv_nxt \in Nat
      BY <1>8, Fields DEF Flow, Chain
    <3>3. k3.rcv_nxt = p.bufEnd => k3.fsm # "TIME_WAIT" /\ "2MSL" \notin k3.timers
      <4>1. After(k3, p) \/ Done(k3, p) => k3.rcv_nxt # p.bufEnd
        BY <1>4, <3>2 DEF After, Done, FinAt
      <4> QED
        BY <1>8, <4>1 DEF open, OpenStates, Before
    <3>4. Flow(k4, c, p) /\ Armed(k4)
      BY <1>4, <1>8, <2>1, <3>1, <3>3, ProcessFinBitFlow
    <3>5. /\ k4.fsm = k3.fsm
          /\ k3.fsm \in OpenStates => Before(k4) \/ After(k4, p)
          /\ Done(k3, p) => Done(k4, p) /\ k4.rcv_nxt = k3.rcv_nxt
      <4>1. \/ k3.fsm \in OpenStates /\ (Before(k3) \/ After(k3, p))
            \/ Done(k3, p)
        BY <1>8 DEF open
      <4>2. FinAt(p, s.seq + s.len)
        BY <2>1
      <4>3. k3.rcv_nxt = s.seq + s.len => k3.fsm \in OpenStates /\ Before(k3)
        <5>1. After(k3, p) \/ Done(k3, p) => k3.rcv_nxt # p.bufEnd
          BY <1>4, <3>2 DEF After, Done, FinAt
        <5> QED
          BY <3>1, <4>1, <5>1
      <4> QED
        BY <2>1, <3>2, <4>1, <4>2, <4>3, ProcessFinBitStage
           DEF Done, PeerFinSeen, OpenStates
    <3> HIDE DEF k4
    <3> QED
      BY <1>8, <3>4, <3>5 DEF open
  <2>2. CASE "FIN" \notin s.flags
    BY <1>8, <2>2
  <2> QED
    BY <2>1, <2>2
<1> HIDE DEF k4
<1>10. Flow(k5, c, p) /\ Armed(k5) /\ Phase(k5) /\ k5.fsm = k.fsm
  <2>1. CASE k4.rcv_nxt # k.rcv_nxt
    <3>1. k4 \in Connections
      BY <1>9 DEF Flow, Chain
    <3>2. Sends(k4, k5) /\ SameWindow(k4, k5)
      BY <2>1, <3>1, ReceiveSeqChangedSends
    <3> HIDE DEF k5
    <3>3. Flow(k5, c, p) /\ Armed(k5)
      BY <1>4, <1>9, <3>2, SendsFlow, SameWindowKept DEF Flow
    <3>4. Before(k5) \/ After(k5, p)
      BY <1>9, <2>1, <3>2, SendingPhase DEF Sends
    <3>5. k5.fsm = k4.fsm
      BY <3>2 DEF Sends, Sending, SameStream
    <3> QED
      BY <1>9, <2>1, <3>3, <3>4, <3>5
  <2>2. CASE k4.rcv_nxt = k.rcv_nxt
    BY <1>9, <2>2
  <2> QED
    BY <2>1, <2>2
<1> HIDE DEF k5
<1>11. CASE last
  <2>1. Alike(k1, acked) /\ acked.event = "RCV_ACK"
    BY <1>5, SetAlike DEF Event, Connections
  <2> HIDE DEF acked
  <2>2. acked.fsm = "LAST_ACK"
    BY <1>5, <1>11, <2>1 DEF Alike, last
  <2>3. EventFits(acked)
    BY <2>1, <2>2 DEF EventFits
  <2>4. Flow(acked, c, p)
    BY <1>3, <2>1, <2>3, AlikeFlow
  <2> QED
    BY <1>2, <1>11, <2>1, <2>2, <2>4 DEF Outcome, r, c
<1>12. CASE ~last
  <2> DEFINE d == [k5 EXCEPT !.event = "CLOSE"]
  <2>1. r = DeferredClose(k5, k.snd_nxt)
    BY <1>2, <1>12
  <2>2. r = k5 \/ (r = d /\ k5.fsm \in {"ESTABLISHED", "SYN_RCVD", "CLOSE_WAIT"})
    BY <2>1 DEF DeferredClose
  <2>3. Flow(r, c, p) /\ Armed(r) /\ r.fsm = k5.fsm
    BY <1>4, <1>10, <2>1, DeferredCloseFlow
  <2>4. CASE r = k5
    BY <1>10, <2>3, <2>4 DEF Outcome, open, r, c
  <2>5. CASE r = d /\ k5.fsm \in {"ESTABLISHED", "SYN_RCVD", "CLOSE_WAIT"}
    <3>1. k5 \in Connections
      BY <1>10 DEF Flow, Chain
    <3>2. d.event = "CLOSE"
      BY <3>1 DEF Connections
    <3> HIDE DEF d
    <3>3. Outcome(r, p)
      BY <2>3, <2>5, <3>2 DEF Outcome
    <3> QED
      BY <2>3, <3>3 DEF r, c
  <2> QED
    BY <2>2, <2>4, <2>5
<1> QED
  BY <1>11, <1>12
-----------------------------------------------------------------------------
(* What a state transition does to the streams, and what the application   *)
(* is told by it.                                                          *)

LEMMA IndicateTells ==
  ASSUME NEW k \in Connections, NEW i \in Indication
  PROVE  LET j == Indicate(k, i)
         IN /\ j \in Connections /\ SameWindow(k, j)
            /\ j.fsm = k.fsm /\ j.active = k.active /\ j.event = k.event
            /\ j.fault = k.fault /\ j.rcv_nxt = k.rcv_nxt /\ j.rcvQueue = k.rcvQueue
            /\ j.fin_rcvd = k.fin_rcvd /\ j.rcv_fin_seq = k.rcv_fin_seq
            /\ j.delivered = k.delivered /\ j.out = k.out /\ j.timers = k.timers
            /\ j.ind = Append(k.ind, i) /\ j.sockstate = SocketOf(i)
<1> DEFINE j == Indicate(k, i)
<1>1. j \in Connections /\ SocketOf(i) \in SockState
  BY IndicateType DEF SocketOf, SockState
<1>2. /\ SameWindow(k, j)
      /\ j.fsm = k.fsm /\ j.active = k.active /\ j.event = k.event
      /\ j.fault = k.fault /\ j.rcv_nxt = k.rcv_nxt /\ j.rcvQueue = k.rcvQueue
      /\ j.fin_rcvd = k.fin_rcvd /\ j.rcv_fin_seq = k.rcv_fin_seq
      /\ j.delivered = k.delivered /\ j.out = k.out /\ j.timers = k.timers
      /\ j.ind = Append(k.ind, i) /\ j.sockstate = SocketOf(i)
  BY <1>1 DEF Indicate, SameWindow, SameBounds, Connections
<1> QED
  BY <1>1, <1>2

\* The send variables, the receive variables and the output of k.
SameData(k, j) ==
  /\ SameBounds(k, j) /\ j.active = k.active
  /\ j.fault = k.fault /\ j.rcv_nxt = k.rcv_nxt /\ j.rcvQueue = k.rcvQueue
  /\ j.fin_rcvd = k.fin_rcvd /\ j.rcv_fin_seq = k.rcv_fin_seq
  /\ j.delivered = k.delivered /\ j.out = k.out

LEMMA SameDataTransitive ==
  ASSUME NEW k, NEW j, NEW i, SameData(k, j), SameData(j, i)
  PROVE  SameData(k, i)
BY DEF SameData, SameBounds

\* What the application is told when state t is entered from k.
Telling(k, t) ==
  CASE t # k.fsm /\ t = "CLOSE_WAIT" -> <<"PEER_CLOSED">>
    [] t # k.fsm /\ t = "TIME_WAIT"  -> <<"CLOSED">>
    [] t # k.fsm /\ t = "CLOSED" /\ k.fsm # "TIME_WAIT" /\ k.event # "ABORT"
                                     -> <<"CLOSED">>
    [] OTHER                         -> <<>>

LEMMA TransitedData ==
  ASSUME NEW k \in Connections
  PROVE  LET t == Transition(k.fsm, k.event, k.active)
             j == PerformStateTransition(k)
             i == Telling(k, t)
         IN /\ j \in Connections /\ SameData(k, j) /\ j.fsm = t
            /\ "REXMIT" \in j.timers <=> "REXMIT" \in k.timers /\ (t # "CLOSED" \/ t = k.fsm)
            /\ "DELAYEDACK" \in j.timers
                 <=> "DELAYEDACK" \in k.timers /\ (t # "CLOSED" \/ t = k.fsm)
            /\ t = "CLOSED" /\ t # k.fsm => j.timers = {}
            /\ i = <<>> => j.ind = k.ind /\ j.sockstate = k.sockstate
            /\ \A x \in {"PEER_CLOSED", "CLOSED"} :
                 i = <<x>> => j.ind = Append(k.ind, x) /\ j.sockstate = x
<1> DEFINE t == Transition(k.fsm, k.event, k.active)
           m == [k EXCEPT !.fsm = t]
           told == CASE t = "CLOSE_WAIT" -> Indicate(m, "PEER_CLOSED")
                     [] t = "TIME_WAIT"  -> Indicate(m, "CLOSED")
                     [] t = "CLOSED" /\ k.fsm # "TIME_WAIT" /\ k.event # "ABORT"
                                         -> Indicate(m, "CLOSED")
                     [] OTHER            -> m
           off == CASE t = "CLOSED" -> Timer
                    [] t \in {"SYN_SENT", "SYN_RCVD", "TIME_WAIT"} -> {}
                    [] OTHER -> SetupTimers
           c == CASE t = "CLOSED" -> Cancel(told, Timer)
                  [] t \in {"SYN_SENT", "SYN_RCVD", "TIME_WAIT"} -> told
                  [] OTHER -> Cancel(told, SetupTimers)
           k1 == IF t = k.fsm THEN k ELSE c
           j == [k1 EXCEPT !.event = "IGNORE"]
           i == Telling(k, t)
           Tells(a) == /\ i = <<>> => a.ind = k.ind /\ a.sockstate = k.sockstate
                       /\ \A x \in {"PEER_CLOSED", "CLOSED"} :
                            i = <<x>> => a.ind = Append(k.ind, x) /\ a.sockstate = x
<1>1. t \in State /\ k.timers \in SUBSET Timer
  BY Fields, TransitionType
<1>2. PerformStateTransition(k) \in Connections
  BY PerformStateTransitionType
<1> HIDE DEF t
<1>3. /\ m \in Connections /\ SameData(k, m) /\ m.fsm = t /\ m.timers = k.timers
      /\ m.ind = k.ind /\ m.sockstate = k.sockstate /\ m.event = k.event
  <2>1. m \in Connections
    BY <1>1, SetState
  <2>2. /\ SameData(k, m) /\ m.fsm = t /\ m.timers = k.timers
        /\ m.ind = k.ind /\ m.sockstate = k.sockstate /\ m.event = k.event
    BY DEF SameData, SameBounds, Connections
  <2> QED
    BY <2>1, <2>2
<1> HIDE DEF m
<1>4. ASSUME NEW x \in {"PEER_CLOSED", "CLOSED"}
      PROVE  LET a == Indicate(m, x)
             IN /\ a \in Connections /\ SameData(m, a) /\ a.fsm = m.fsm
                /\ a.timers = m.timers /\ a.ind = Append(m.ind, x) /\ a.sockstate = x
  <2>1. x \in Indication /\ SocketOf(x) = x
    BY DEF Indication, SocketOf
  <2> QED
    BY <1>3, <2>1, IndicateTells DEF SameData, SameWindow
<1>5. /\ told \in Connections /\ SameData(k, told) /\ told.fsm = t /\ told.timers = k.timers
      /\ t # k.fsm => Tells(told)
  <2>1. CASE t = "CLOSE_WAIT"
    BY <1>3, <1>4, <2>1, SameDataTransitive DEF Telling
  <2>2. CASE t = "TIME_WAIT"
    BY <1>3, <1>4, <2>2, SameDataTransitive DEF Telling
  <2>3. CASE t = "CLOSED" /\ k.fsm # "TIME_WAIT" /\ k.event # "ABORT"
    BY <1>3, <1>4, <2>3, SameDataTransitive DEF Telling
  <2>4. CASE ~(\/ t = "CLOSE_WAIT" \/ t = "TIME_WAIT"
               \/ t = "CLOSED" /\ k.fsm # "TIME_WAIT" /\ k.event # "ABORT")
    BY <1>3, <2>4 DEF Telling
  <2> QED
    BY <2>1, <2>2, <2>3, <2>4
<1>6. t = k.fsm => i = <<>>
  BY DEF Telling
<1>7. PerformStateTransition(k) = j
  BY <1>3 DEF PerformStateTransition, StateEntered, t, m, told
<1> HIDE DEF told, i, j
<1>8. /\ c \in Connections /\ SameData(told, c) /\ c.fsm = told.fsm /\ c.ind = told.ind
      /\ c.sockstate = told.sockstate /\ c.timers = told.timers \ off
  <2>1. ASSUME NEW ts
        PROVE  LET a == Cancel(told, ts)
               IN /\ a \in Connections /\ SameData(told, a) /\ a.fsm = told.fsm
                  /\ a.ind = told.ind /\ a.sockstate = told.sockstate
                  /\ a.timers = told.timers \ ts
    <3>1. LET a == Cancel(told, ts)
          IN /\ SameData(told, a) /\ a.fsm = told.fsm
             /\ a.ind = told.ind /\ a.sockstate = told.sockstate
             /\ a.timers = told.timers \ ts
      BY <1>5 DEF Cancel, SameData, SameBounds, Connections
    <3> QED
      BY <1>5, <3>1, CancelType
  <2>2. SameData(told, told) /\ told.timers = told.timers \ {}
    BY DEF SameData, SameBounds
  <2> QED
    BY <1>5, <2>1, <2>2
<1>9. \A x \in {"REXMIT", "DELAYEDACK"} : x \in off <=> t = "CLOSED"
  BY DEF Timer, SetupTimers
<1>10. t = "CLOSED" => off = Timer
  OBVIOUS
<1> HIDE DEF c, off
<1>11. /\ k1 \in Connections /\ SameData(k, k1) /\ k1.fsm = t /\ Tells(k1)
       /\ \A x \in {"REXMIT", "DELAYEDACK"} :
            x \in k1.timers <=> x \in k.timers /\ (t # "CLOSED" \/ t = k.fsm)
       /\ t = "CLOSED" /\ t # k.fsm => k1.timers = {}
  <2>1. CASE t = k.fsm
    BY <1>6, <2>1 DEF SameData, SameBounds
  <2>2. CASE t # k.fsm
    <3>1. k1 = c
      BY <2>2
    <3>2. SameData(k, c) /\ Tells(c)
      BY <1>5, <1>8, <2>2, SameDataTransitive
    <3> HIDE DEF Tells
    <3> QED
      BY <1>1, <1>5, <1>8, <1>9, <1>10, <2>2, <3>1, <3>2
  <2> QED
    BY <2>1, <2>2
<1> HIDE DEF k1
<1>12. /\ SameData(k1, j) /\ j.fsm = k1.fsm /\ j.ind = k1.ind
       /\ j.sockstate = k1.sockstate /\ j.timers = k1.timers
  BY <1>11 DEF j, SameData, SameBounds, Connections
<1>13. SameData(k, j)
  BY <1>11, <1>12, SameDataTransitive
<1> QED
  BY <1>2, <1>7, <1>11, <1>12, <1>13 DEF t, i
-----------------------------------------------------------------------------
(* What a step does to the two streams of an end.                          *)

\* The application has been told that the peer has closed.
Ended == {"CLOSE_WAIT", "LAST_ACK", "TIME_WAIT"}

\* From c to j, one unit is queued, or the stream is closed, or it stays as it
\* is; and the application learns of the end of the other stream once, in a
\* state that knows of the peer's FIN.
Serves(c, j) ==
  /\ \/ j.bufEnd = c.bufEnd /\ j.send_fin = c.send_fin
     \/ /\ j.ind = c.ind /\ j.rcv_nxt = c.rcv_nxt
        /\ \/ j.bufEnd = c.bufEnd + 1 /\ ~c.send_fin /\ ~j.send_fin
           \/ j.bufEnd = c.bufEnd /\ j.send_fin
  /\ EndOfStream(c) => EndOfStream(j)
  /\ EndOfStream(j) => \/ EndOfStream(c)
                       \/ c.fsm \in PeerFinSeen \/ j.fsm \in PeerFinSeen

LEMMA ToldAppend ==
  ASSUME NEW k \in Connections, NEW j, NEW x \in Indication, j.ind = Append(k.ind, x)
  PROVE  \A i : Told(j, i) <=> Told(k, i) \/ i = x
<1>1. k.ind \in Seq(Indication)
  BY Fields
<1>2. /\ DOMAIN k.ind = 1 .. Len(k.ind) /\ Len(k.ind) \in Nat
      /\ DOMAIN j.ind = 1 .. (Len(k.ind) + 1)
      /\ \A n \in DOMAIN k.ind : j.ind[n] = k.ind[n]
      /\ j.ind[Len(k.ind) + 1] = x
  BY <1>1
<1> SUFFICES ASSUME NEW i PROVE Told(j, i) <=> Told(k, i) \/ i = x
  OBVIOUS
<1>3. Told(k, i) \/ i = x => Told(j, i)
  BY <1>2 DEF Told
<1>4. ASSUME NEW n \in DOMAIN j.ind, j.ind[n] = i PROVE Told(k, i) \/ i = x
  <2>1. n \in DOMAIN k.ind \/ n = Len(k.ind) + 1
    BY <1>2
  <2> QED
    BY <1>2, <1>4, <2>1 DEF Told
<1> QED
  BY <1>3, <1>4 DEF Told

\* What each of the sequences an application is told says.
LEMMA ToldOf ==
  ASSUME NEW k
  PROVE  /\ k.ind = <<>> => \A i : ~Told(k, i)
         /\ k.ind = Told1 => \A i : Told(k, i) <=> i = "ESTABLISHED"
         /\ k.ind = Told2 => \A i : Told(k, i) <=> i \in {"ESTABLISHED", "PEER_CLOSED"}
         /\ k.ind = Append(Told1, "CLOSED") =>
              \A i : Told(k, i) <=> i \in {"ESTABLISHED", "CLOSED"}
<1>1. DOMAIN <<>> = {} /\ DOMAIN Told1 = {1} /\ Told1[1] = "ESTABLISHED"
  BY DEF Told1
<1>2. \A x : /\ DOMAIN Append(Told1, x) = {1, 2} /\ Append(Told1, x)[1] = "ESTABLISHED"
            /\ Append(Told1, x)[2] = x
  BY DEF Told1
<1> QED
  BY <1>1, <1>2 DEF Told, Told2

LEMMA EndOfStreamOpen ==
  ASSUME NEW k \in Connections, Application(k), k.fsm # "CLOSED"
  PROVE  EndOfStream(k) <=> k.fsm \in Ended
<1>1. k.fsm \in State
  BY Fields
<1>2. CASE k.fsm \in {"INIT", "LISTEN", "SYN_SENT", "SYN_RCVD"}
  BY <1>2, ToldOf DEF Application, EndOfStream, Ended
<1>3. CASE k.fsm \in {"ESTABLISHED", "FIN_WAIT_1", "FIN_WAIT_2", "CLOSING"}
  BY <1>3, ToldOf DEF Application, EndOfStream, Ended
<1>4. CASE k.fsm \in {"CLOSE_WAIT", "LAST_ACK"}
  BY <1>4, ToldOf DEF Application, EndOfStream, Ended
<1>5. CASE k.fsm = "TIME_WAIT"
  BY <1>5, ToldOf DEF Application, EndOfStream, Ended, Failure
<1> QED
  BY <1>1, <1>2, <1>3, <1>4, <1>5 DEF State

\* Steps that tell the application nothing.
LEMMA ServesSilently ==
  ASSUME NEW c, NEW j, j.ind = c.ind, j.bufEnd = c.bufEnd, j.send_fin = c.send_fin
  PROVE  Serves(c, j)
BY DEF Serves, EndOfStream, Told

LEMMA ServesSame ==
  ASSUME NEW c, NEW k, NEW j, Serves(c, k), j.fsm = k.fsm, j.ind = k.ind,
         j.bufEnd = k.bufEnd, j.send_fin = k.send_fin, j.rcv_nxt = k.rcv_nxt
  PROVE  Serves(c, j)
BY DEF Serves, EndOfStream, Told

\* Steps from one open state to another.
LEMMA ServesOpen ==
  ASSUME NEW c \in Connections, NEW j \in Connections, Application(c), Application(j),
         c.fsm # "CLOSED", j.fsm # "CLOSED", c.fsm \in Ended => j.fsm \in Ended,
         j.bufEnd = c.bufEnd, j.send_fin = c.send_fin
  PROVE  Serves(c, j)
BY EndOfStreamOpen DEF Serves, Ended, PeerFinSeen

\* Steps that close the connection: a failure that is told first does not
\* look like the end of the stream, and without one the state knows.
LEMMA ServesClosed ==
  ASSUME NEW c \in Connections, NEW j, Application(c), c.fsm \notin {"INIT", "CLOSED"},
         j.bufEnd = c.bufEnd, j.send_fin = c.send_fin,
         \/ j.ind = c.ind
         \/ /\ j.ind = Append(c.ind, "CLOSED")
            /\ c.fsm \notin {"ESTABLISHED", "FIN_WAIT_1", "FIN_WAIT_2", "TIME_WAIT"}
         \/ /\ \E f \in Failure : j.ind \in {Append(c.ind, f), Append(Append(c.ind, f), "CLOSED")}
            /\ c.fsm # "TIME_WAIT"
  PROVE  Serves(c, j)
<1>1. CASE j.ind = c.ind
  BY <1>1, ServesSilently
<1>2. c.fsm \in State /\ (EndOfStream(c) <=> c.fsm \in Ended) /\ "CLOSED" \in Indication
      /\ Failure \subseteq Indication
  BY Fields, EndOfStreamOpen DEF Indication, Failure
<1>3. /\ c.fsm \in {"CLOSE_WAIT", "LAST_ACK"} =>
           \A i : Told(c, i) <=> i \in {"ESTABLISHED", "PEER_CLOSED"}
      /\ c.fsm \in {"LISTEN", "SYN_SENT", "SYN_RCVD"} => \A i : ~Told(c, i)
      /\ c.fsm \in {"ESTABLISHED", "FIN_WAIT_1", "FIN_WAIT_2", "CLOSING"} =>
           \A i : Told(c, i) <=> i = "ESTABLISHED"
  BY ToldOf DEF Application
<1>4. CASE /\ j.ind = Append(c.ind, "CLOSED")
           /\ c.fsm \notin {"ESTABLISHED", "FIN_WAIT_1", "FIN_WAIT_2", "TIME_WAIT"}
  <2>1. \A i : Told(j, i) <=> Told(c, i) \/ i = "CLOSED"
    BY <1>2, <1>4, ToldAppend
  <2>2. CASE c.fsm \in {"LISTEN", "SYN_SENT", "SYN_RCVD"}
    BY <1>2, <1>3, <2>1, <2>2 DEF Serves, EndOfStream, Ended
  <2>3. CASE c.fsm \in {"CLOSE_WAIT", "LAST_ACK", "CLOSING"}
    BY <1>2, <1>3, <2>1, <2>3 DEF Serves, EndOfStream, Ended, PeerFinSeen
  <2> QED
    BY <1>2, <1>4, <2>2, <2>3 DEF State
<1>5. CASE /\ \E f \in Failure : j.ind \in {Append(c.ind, f), Append(Append(c.ind, f), "CLOSED")}
           /\ c.fsm # "TIME_WAIT"
  <2>1. PICK f \in Failure : j.ind \in {Append(c.ind, f), Append(Append(c.ind, f), "CLOSED")}
    BY <1>5
  <2> DEFINE i == [c EXCEPT !.ind = Append(c.ind, f)]
  <2>2. i \in Connections /\ i.ind = Append(c.ind, f)
    <3>1. Append(c.ind, f) \in Seq(Indication)
      BY <1>2, Fields
    <3> QED
      BY <3>1 DEF Connections
  <2> HIDE DEF i
  <2>3. \A x : Told(i, x) <=> Told(c, x) \/ x = f
    BY <1>2, <2>2, ToldAppend
  <2>4. \/ \A x : Told(j, x) <=> Told(c, x) \/ x = f
        \/ \A x : Told(j, x) <=> Told(c, x) \/ x = f \/ x = "CLOSED"
    <3>1. CASE j.ind = Append(c.ind, f)
      BY <1>2, <3>1, ToldAppend
    <3>2. CASE j.ind = Append(i.ind, "CLOSED")
      BY <1>2, <2>2, <2>3, <3>2, ToldAppend
    <3> QED
      BY <2>1, <2>2, <3>1, <3>2
  <2>5. Told(j, f) /\ f # "PEER_CLOSED" /\ f # "ESTABLISHED"
    BY <2>4 DEF Failure
  <2>6. CASE c.fsm \in {"CLOSE_WAIT", "LAST_ACK"}
    <3>1. EndOfStream(c) /\ EndOfStream(j)
      BY <1>2, <1>3, <2>4, <2>6 DEF EndOfStream, Ended
    <3> QED
      BY <3>1 DEF Serves
  <2>7. CASE c.fsm \notin {"CLOSE_WAIT", "LAST_ACK"}
    <3>1. ~Told(c, "PEER_CLOSED") /\ ~EndOfStream(c)
      BY <1>2, <1>3, <1>5, <2>7 DEF Ended, State
    <3>2. ~EndOfStream(j)
      BY <2>4, <2>5, <3>1 DEF EndOfStream
    <3> QED
      BY <3>1, <3>2 DEF Serves
  <2> QED
    BY <2>6, <2>7
<1> QED
  BY <1>1, <1>4, <1>5
-----------------------------------------------------------------------------
(* What a step owes the invariant, where p is the other end.               *)

\* What the invariants say of end e, whose connection is k, and of its peer p.
At(e, k, p) ==
  /\ Sides(k, p) /\ RoleFits(e, k) /\ Application(k) /\ ReceiveSide(p, k)
  /\ p.iss < p.bufEnd

\* e may go on from c with j: the segments that e had sent, and what the peer
\* has received, agree with it.
Fine(e, c, j, p) ==
  /\ j \in Connections /\ RoleFits(e, j) /\ SendSide(j) /\ Application(j)
  /\ ReceiveSide(j, p)
  /\ j.snd_una > j.iss => j.snd_una <= p.rcv_nxt
  /\ Grown(c, j) /\ (j.bufEnd # c.bufEnd => p.rcv_nxt <= c.bufEnd) /\ Serves(c, j)
  /\ \A s \in j.out : Sound(s, j, p.iss) /\ Opens(s, e)

LEMMA PeerOf ==
  ASSUME NEW e \in Endpoint
  PROVE  Peer(e) \in Endpoint /\ Peer(e) # e /\ Peer(Peer(e)) = e
         /\ Endpoint = {e, Peer(e)}
BY ConstantsAssumption DEF Peer, Endpoint

\* The invariants at one end, and the segments that may arrive there.
LEMMA TransferAt ==
  ASSUME TypeOK, TeardownInv, TransferInv, NEW e \in Endpoint
  PROVE  /\ At(e, conn[e], conn[Peer(e)])
         /\ \A s \in net[e] : /\ s \in Segments
                              /\ Sound(s, conn[Peer(e)], conn[e].iss) /\ Opens(s, Peer(e))
                              /\ "FIN" \in s.flags => FinAt(conn[Peer(e)], s.seq + s.len)
<1> DEFINE p == Peer(e)
<1>1. p \in Endpoint /\ Peer(p) = e
  BY PeerOf
<1>2. conn[e] \in Connections /\ Base(conn[e], conn[p])
  BY TeardownBase
<1>3. conn[p] \in Connections /\ Base(conn[p], conn[e])
  BY <1>1, TeardownBase
<1>4. /\ RoleFits(e, conn[e]) /\ SendSide(conn[e]) /\ Application(conn[e])
      /\ ReceiveSide(conn[e], conn[p])
      /\ conn[e].snd_una > conn[e].iss => conn[e].snd_una <= conn[p].rcv_nxt
      /\ conn[e].iss = Iss[e]
      /\ \A s \in net[e] : Sound(s, conn[p], Iss[e]) /\ Opens(s, p)
  BY DEF TransferInv
<1>5. SendSide(conn[p]) /\ ReceiveSide(conn[p], conn[e])
  BY <1>1 DEF TransferInv
<1>6. conn[p].iss < conn[p].bufEnd
  BY <1>5 DEF SendSide
<1>7. conn[p].send_fin => conn[p].snd_fin_seq = conn[p].bufEnd
  BY <1>3 DEF Base, FinEndsQueue
<1>8. At(e, conn[e], conn[p])
  BY <1>2, <1>3, <1>4, <1>5, <1>6, <1>7 DEF At, Sides
<1>9. \A s \in net[e] : s \in Segments /\ ("FIN" \in s.flags => FinAt(conn[p], s.seq + s.len))
  BY DEF TypeOK, TeardownInv, FinKnown
<1> QED
  BY <1>4, <1>8, <1>9

\* What the peer has received stays true of an end that goes on.
LEMMA ReceiveSideKept ==
  ASSUME NEW p \in Connections, NEW c \in Connections, NEW j \in Connections,
         ReceiveSide(p, c), Grown(c, j), j.bufEnd # c.bufEnd => p.rcv_nxt <= c.bufEnd
  PROVE  ReceiveSide(p, j)
<1>1. j.iss = c.iss /\ c.snd_max <= j.snd_max /\ c.bufEnd <= j.bufEnd
  BY DEF Grown
<1>2. /\ c.snd_max \in Nat /\ j.snd_max \in Nat /\ c.bufEnd \in Nat /\ j.bufEnd \in Nat
      /\ p.rcv_nxt \in Nat /\ p.rcvQueue \in SUBSET Nat /\ p.rcv_fin_seq \in Nat
      /\ c.iss \in Nat
  BY Fields
<1>3. Received(p, c) => Received(p, j)
  <2> SUFFICES ASSUME Received(p, c) PROVE Received(p, j)
    OBVIOUS
  <2>1. p.iss = p.iss /\ c.iss < p.rcv_nxt /\ p.rcv_nxt <= c.snd_max
    BY DEF Received
  <2>2. \A u \in p.rcvQueue : p.rcv_nxt < u /\ u < c.bufEnd /\ u < c.snd_max
    BY DEF Received
  <2>3. \A u \in p.rcvQueue : p.rcv_nxt < u /\ u < j.bufEnd /\ u < j.snd_max
    BY <1>1, <1>2, <2>2
  <2>4. p.fin_rcvd => p.rcv_fin_seq < j.snd_max
    BY <1>1, <1>2 DEF Received
  <2>5. (IF p.rcv_nxt <= c.bufEnd THEN p.rcv_nxt ELSE c.bufEnd)
          = IF p.rcv_nxt <= j.bufEnd THEN p.rcv_nxt ELSE j.bufEnd
    BY <1>1, <1>2
  <2>6. p.rcv_nxt <= j.snd_max
    BY <1>1, <1>2, <2>1
  <2>7. p.delivered = (IF p.rcv_nxt <= j.bufEnd THEN p.rcv_nxt ELSE j.bufEnd) - (j.iss + 1)
    BY <1>1, <2>5 DEF Received
  <2> QED
    BY <1>1, <2>1, <2>3, <2>4, <2>6, <2>7 DEF Received
<1> QED
  BY <1>1, <1>3 DEF ReceiveSide

\* The step is one of e, and serves its streams.
Served(e) ==
  /\ conn'[Peer(e)] = conn[Peer(e)]
  /\ conn[e].rcv_nxt <= conn'[e].rcv_nxt /\ Serves(conn[e], conn'[e])

\* A handler that goes on with a fine record keeps the invariant.
LEMMA StepTransfer ==
  ASSUME TypeOK, TeardownInv, TransferInv, NEW e \in Endpoint, NEW j,
         Fine(e, conn[e], j, conn[Peer(e)]),
         Do(e, j) \/ DoTimed(e, j) \/ (\E s : Take(e, s, j))
  PROVE  TransferInv' /\ Served(e)
<1> DEFINE p == Peer(e)
           m == [j EXCEPT !.out = {}]
<1>1. p \in Endpoint /\ p # e /\ Peer(p) = e /\ Endpoint = {e, p}
  BY PeerOf
<1>0. At(e, conn[e], conn[p]) /\ conn[p] \in Connections /\ conn[e] \in Connections
  BY <1>1, TransferAt DEF TypeOK
<1> HIDE DEF p
<1>2. conn' = [conn EXCEPT ![e] = m]
  BY DEF Do, DoTimed, Take, m
<1>3. conn'[e] = m /\ conn'[p] = conn[p]
  BY <1>1, <1>2 DEF TypeOK
<1>4. net'[p] = net[p] \cup j.out /\ net'[e] \subseteq net[e]
  BY <1>1 DEF Do, DoTimed, Take, TypeOK, p
<1>5. Fine(e, conn[e], j, conn[p])
  BY DEF p
<1>6. j \in Connections
  BY <1>5 DEF Fine
<1>7. /\ m \in Connections
      /\ m.fsm = j.fsm /\ m.timers = j.timers /\ m.sockstate = j.sockstate
      /\ m.ind = j.ind
  <2>1. {} \in SUBSET Segments
    OBVIOUS
  <2>2. m \in Connections
    BY <1>6, <2>1, SetState
  <2>3. /\ m.fsm = j.fsm /\ m.timers = j.timers /\ m.sockstate = j.sockstate
        /\ m.ind = j.ind
    BY <1>6 DEF Connections
  <2> QED
    BY <2>2, <2>3
<1>8. SameBounds(j, m) /\ m.active = j.active /\ m.fault = j.fault
      /\ m.rcv_nxt = j.rcv_nxt /\ m.rcvQueue = j.rcvQueue /\ m.fin_rcvd = j.fin_rcvd
      /\ m.rcv_fin_seq = j.rcv_fin_seq /\ m.delivered = j.delivered
  BY <1>6 DEF SameBounds, Connections
<1> HIDE DEF m
<1>9. /\ RoleFits(e, m) /\ SendSide(m) /\ Application(m) /\ ReceiveSide(m, conn[p])
      /\ m.snd_una > m.iss => m.snd_una <= conn[p].rcv_nxt
  <2>0. RoleFits(e, j) /\ Application(j) /\ m.active = j.active
    BY <1>5, <1>8 DEF Fine
  <2>1. RoleFits(e, m) /\ Application(m)
    <3>1. RoleFits(e, m)
      BY <1>7, <2>0 DEF RoleFits
    <3>2. Application(m)
      <4>1. SameBounds(j, m) => m.send_fin = j.send_fin
        BY DEF SameBounds
      <4> QED
        BY <1>7, <1>8, <2>0, <4>1 DEF Application
    <3> QED
      BY <3>1, <3>2
  <2>2. SendSide(m)
    BY <1>5, <1>7, <1>8 DEF Fine, SendSide, Window, Armed, Fresh, SameBounds
  <2>3. ReceiveSide(m, conn[p])
    BY <1>5, <1>7, <1>8 DEF Fine, ReceiveSide, Received
  <2> QED
    BY <1>5, <1>8, <2>1, <2>2, <2>3 DEF Fine, SameBounds
<1>10. /\ Grown(conn[e], m) /\ (m.bufEnd # conn[e].bufEnd => conn[p].rcv_nxt <= conn[e].bufEnd)
       /\ \A s \in j.out : Sound(s, m, conn[p].iss) /\ Opens(s, e)
  <2>1. m.iss = j.iss /\ m.snd_max = j.snd_max /\ m.bufEnd = j.bufEnd /\ m.rcv_nxt = j.rcv_nxt
    BY <1>8 DEF SameBounds
  <2> QED
    BY <1>5, <2>1 DEF Fine, Grown, Sound
<1>11. ReceiveSide(conn[p], m)
  BY <1>0, <1>7, <1>10, ReceiveSideKept DEF At
<1>12. /\ conn[e].iss = Iss[e] /\ conn[p].iss = Iss[p] /\ m.iss = conn[e].iss
       /\ RoleFits(p, conn[p]) /\ SendSide(conn[p]) /\ Application(conn[p])
       /\ conn[p].snd_una > conn[p].iss => conn[p].snd_una <= conn[e].rcv_nxt
       /\ conn[e].rcv_nxt <= m.rcv_nxt
  BY <1>1, <1>10 DEF TransferInv, Grown
<1>13. conn[p].snd_una > conn[p].iss => conn[p].snd_una <= m.rcv_nxt
  <2>1. conn[p].snd_una \in Nat /\ conn[e].rcv_nxt \in Nat /\ m.rcv_nxt \in Nat
    BY <1>0, <1>7, Fields
  <2> QED
    BY <1>12, <2>1
<1>14. \A s \in net'[e] : Sound(s, conn[p], Iss[e]) /\ Opens(s, p)
  BY <1>4 DEF TransferInv, p
<1>15. \A s \in net'[p] : Sound(s, m, Iss[p]) /\ Opens(s, e)
  <2>1. \A s \in net[p] : Sound(s, conn[e], Iss[p]) /\ Opens(s, e) /\ s \in Segments
    BY <1>1 DEF TransferInv, TypeOK
  <2>2. Iss[p] \in Nat
    BY <1>1, ConstantsAssumption
  <2>3. \A s \in net[p] : Sound(s, m, Iss[p])
    BY <1>0, <1>7, <1>10, <2>1, <2>2, SoundKept
  <2> QED
    BY <1>4, <1>10, <1>12, <2>1, <2>3
<1>16. \A f \in {e, p} :
         LET k == conn'[f]  q == conn'[Peer(f)]
         IN /\ k.iss = Iss[f]
            /\ RoleFits(f, k) /\ SendSide(k) /\ Application(k) /\ ReceiveSide(k, q)
            /\ k.snd_una > k.iss => k.snd_una <= q.rcv_nxt
            /\ \A s \in net'[f] : Sound(s, q, Iss[f]) /\ Opens(s, Peer(f))
  <2>1. Peer(e) = p
    BY DEF p
  <2> QED
    BY <1>1, <1>3, <1>9, <1>11, <1>12, <1>13, <1>14, <1>15, <2>1
<1>17. Served(e)
  <2>1. Serves(conn[e], j) /\ m.send_fin = j.send_fin /\ m.bufEnd = j.bufEnd
    BY <1>5, <1>8 DEF Fine, SameBounds
  <2>2. Serves(conn[e], m)
    BY <1>7, <1>8, <2>1, ServesSame
  <2> QED
    BY <1>3, <1>12, <2>2 DEF Served, p
<1>18. TransferInv'
  BY <1>1, <1>16 DEF TransferInv
<1> QED
  BY <1>17, <1>18

LEMMA GrownReflexive ==
  ASSUME NEW k \in Connections
  PROVE  Grown(k, k)
BY Fields DEF Grown

LEMMA GrownTransitive ==
  ASSUME NEW k \in Connections, NEW j \in Connections, NEW i \in Connections,
         Grown(k, j), Grown(j, i)
  PROVE  Grown(k, i)
<1>1. /\ k.snd_max \in Nat /\ j.snd_max \in Nat /\ i.snd_max \in Nat
      /\ k.bufEnd \in Nat /\ j.bufEnd \in Nat /\ i.bufEnd \in Nat
      /\ k.rcv_nxt \in Nat /\ j.rcv_nxt \in Nat /\ i.rcv_nxt \in Nat
  BY Fields
<1> QED
  BY <1>1 DEF Grown

\* Nothing of the streams, the state or the application has changed; there may
\* be something to send, and counters may differ.
Quietly(k, j, p, e) ==
  /\ j \in Connections /\ SameData(k, [j EXCEPT !.out = k.out])
  /\ j.fsm = k.fsm /\ j.ind = k.ind /\ j.sockstate = k.sockstate
  /\ "REXMIT" \in j.timers <=> "REXMIT" \in k.timers
  /\ "DELAYEDACK" \in j.timers => "DELAYEDACK" \in k.timers
  /\ k.timers = {} => j.timers = {}
  /\ \A s \in j.out : Sound(s, k, p.iss) /\ Opens(s, e)

LEMMA SameSendSide ==
  ASSUME NEW k, NEW j, SameWindow(k, j), j.fsm = k.fsm, j.fault = k.fault,
         "DELAYEDACK" \in j.timers => "DELAYEDACK" \in k.timers,
         k.fsm = "CLOSED" => j.timers = {},
         SendSide(k)
  PROVE  SendSide(j)
<1>1. Fresh(k) => Fresh(j)
  BY DEF SameWindow, SameBounds, Fresh
<1>2. (Window(k) => Window(j)) /\ (Armed(k) => Armed(j))
  BY SameWindowKept
<1> QED
  BY <1>1, <1>2 DEF SameWindow, SameBounds, SendSide

LEMMA QuietFine ==
  ASSUME NEW e, NEW k, NEW p, NEW j, At(e, k, p), Quietly(k, j, p, e)
  PROVE  Fine(e, k, j, p)
<1>1. /\ k \in Connections /\ p \in Connections /\ j \in Connections
      /\ SendSide(k) /\ ReceiveSide(k, p) /\ RoleFits(e, k) /\ Application(k)
      /\ k.snd_una > k.iss => k.snd_una <= p.rcv_nxt
  BY DEF At, Sides, Quietly
<1> DEFINE i == [j EXCEPT !.out = k.out]
<1>2. /\ i.iss = j.iss /\ i.snd_una = j.snd_una /\ i.snd_nxt = j.snd_nxt
      /\ i.snd_max = j.snd_max /\ i.bufStart = j.bufStart /\ i.bufEnd = j.bufEnd
      /\ i.send_fin = j.send_fin /\ i.snd_fin_seq = j.snd_fin_seq
      /\ i.fin_ack_rcvd = j.fin_ack_rcvd
      /\ i.lossRecovery = j.lossRecovery /\ i.recover = j.recover
      /\ i.active = j.active /\ i.fault = j.fault /\ i.rcv_nxt = j.rcv_nxt
      /\ i.rcvQueue = j.rcvQueue /\ i.fin_rcvd = j.fin_rcvd
      /\ i.rcv_fin_seq = j.rcv_fin_seq /\ i.delivered = j.delivered
  BY <1>1 DEF Connections
<1>3. SameData(k, i)
  BY DEF Quietly
<1> HIDE DEF i
<1>4. SameBounds(k, j) /\ j.active = k.active /\ j.fault = k.fault
      /\ j.rcv_nxt = k.rcv_nxt /\ j.rcvQueue = k.rcvQueue /\ j.fin_rcvd = k.fin_rcvd
      /\ j.rcv_fin_seq = k.rcv_fin_seq /\ j.delivered = k.delivered
  BY <1>2, <1>3 DEF SameData, SameBounds
<1>5. SameWindow(k, j)
  BY <1>4 DEF SameWindow, Quietly
<1>6. k.fsm = "CLOSED" => j.timers = {}
  BY <1>1 DEF SendSide, Quietly
<1>7. SendSide(j)
  BY <1>1, <1>4, <1>5, <1>6, SameSendSide DEF Quietly
<1>8. RoleFits(e, j)
  BY <1>1, <1>4 DEF RoleFits, Quietly
<1>9. Application(j)
  <2>1. j.send_fin = k.send_fin /\ j.fsm = k.fsm /\ j.ind = k.ind
        /\ j.sockstate = k.sockstate
    BY <1>4 DEF SameBounds, Quietly
  <2> QED
    BY <1>1, <2>1 DEF Application
<1>10. ReceiveSide(j, p)
  <2>1. j.fsm = k.fsm
    BY DEF Quietly
  <2> QED
    BY <1>1, <1>4, <2>1 DEF ReceiveSide, Received
<1>11. Grown(k, j) /\ j.bufEnd = k.bufEnd
  <2>1. j.iss = k.iss /\ j.snd_max = k.snd_max /\ j.bufEnd = k.bufEnd
    BY <1>4 DEF SameBounds
  <2> QED
    BY <1>1, <1>4, <2>1, GrownReflexive DEF Grown
<1>12. \A s \in j.out : Sound(s, j, p.iss) /\ Opens(s, e)
  <2>1. j.iss = k.iss /\ j.snd_max = k.snd_max /\ j.bufEnd = k.bufEnd
    BY <1>4 DEF SameBounds
  <2> QED
    BY <1>4, <2>1 DEF Quietly, Sound
<1>13. j.snd_una > j.iss => j.snd_una <= p.rcv_nxt
  BY <1>1, <1>4 DEF SameBounds
<1>14. Serves(k, j)
  BY <1>4, ServesSilently DEF SameBounds, Quietly
<1> QED
  BY <1>1, <1>7, <1>8, <1>9, <1>10, <1>11, <1>12, <1>13, <1>14 DEF Fine

LEMMA SelfFine ==
  ASSUME NEW e, NEW k, NEW p, At(e, k, p)
  PROVE  Fine(e, k, k, p) /\ k \in Connections /\ p \in Connections /\ k.out = {}
<1>1. k \in Connections /\ p \in Connections /\ k.out = {}
  BY DEF At, Sides, Base, Idle
<1>2. [k EXCEPT !.out = k.out] = k
  BY <1>1 DEF Connections
<1>3. Quietly(k, k, p, e)
  BY <1>1, <1>2 DEF Quietly, SameData, SameBounds
<1> QED
  BY <1>1, <1>3, QuietFine

\* A synchronized connection that sends.
LEMMA SendsFine ==
  ASSUME NEW e, NEW c \in Connections, NEW k, NEW p \in Connections, NEW j,
         Fine(e, c, k, p), k.fsm \in Synchronized,
         Sends(k, j), Window(j), Armed(j)
  PROVE  Fine(e, c, j, p)
<1>1. k \in Connections /\ j \in Connections
  BY DEF Fine, Sends
<1>2. /\ j.fsm = k.fsm /\ j.active = k.active /\ j.sockstate = k.sockstate
      /\ j.iss = k.iss /\ j.bufEnd = k.bufEnd /\ j.send_fin = k.send_fin
      /\ j.snd_fin_seq = k.snd_fin_seq /\ j.rcv_nxt = k.rcv_nxt
      /\ j.fin_rcvd = k.fin_rcvd /\ j.rcv_fin_seq = k.rcv_fin_seq
      /\ j.ind = k.ind /\ j.delivered = k.delivered /\ j.rcvQueue = k.rcvQueue
      /\ j.fault = k.fault /\ j.fin_ack_rcvd = k.fin_ack_rcvd /\ j.snd_una = k.snd_una
      /\ k.snd_max <= j.snd_max
  BY DEF Sends, Sending, SameStream, Moves
<1>3. /\ c.snd_max \in Nat /\ k.snd_max \in Nat /\ j.snd_max \in Nat /\ j.bufEnd \in Nat
      /\ c.bufEnd \in Nat /\ c.rcv_nxt \in Nat /\ j.rcv_nxt \in Nat
  BY <1>1, Fields
<1>4. /\ RoleFits(e, k) /\ SendSide(k) /\ Application(k) /\ ReceiveSide(k, p)
      /\ k.snd_una > k.iss => k.snd_una <= p.rcv_nxt
      /\ Grown(c, k) /\ (k.bufEnd # c.bufEnd => p.rcv_nxt <= c.bufEnd)
      /\ \A s \in k.out : Sound(s, k, p.iss) /\ Opens(s, e)
  BY DEF Fine
<1>5. RoleFits(e, j)
  BY <1>2, <1>4 DEF RoleFits
<1>6. Application(j)
  BY <1>2, <1>4 DEF Application
<1>7. ReceiveSide(j, p)
  BY <1>2, <1>4 DEF ReceiveSide, Received
<1>8. SendSide(j)
  <2>1. k.fsm \notin Unopened /\ k.fsm # "CLOSED"
    BY DEF Unopened, Synchronized, Closing
  <2>2. k.fsm \in Closing => j.snd_max = j.bufEnd + 1
    <3>1. k.fsm \in Closing => k.snd_max = k.bufEnd + 1
      BY <1>4 DEF SendSide
    <3>2. j.snd_max <= j.bufEnd + 1
      BY DEF Window
    <3> QED
      BY <1>2, <1>3, <3>1, <3>2
  <2> QED
    BY <1>2, <1>4, <2>1, <2>2 DEF SendSide
<1>9. Grown(k, j)
  BY <1>1, <1>2, GrownReflexive DEF Grown
<1>10. Grown(c, j)
  BY <1>1, <1>4, <1>9, GrownTransitive
<1>11. \A s \in j.out : Sound(s, j, p.iss) /\ Opens(s, e)
  <2>1. p.iss \in Nat /\ k.out \in SUBSET Segments
    BY <1>1, Fields
  <2>2. \A s \in k.out : Sound(s, j, p.iss)
    BY <1>1, <1>4, <1>9, <2>1, SoundKept
  <2>3. p.iss < j.rcv_nxt
    <3>1. k.rcv_nxt # 0
      BY <1>4 DEF ReceiveSide, Opened
    <3> QED
      BY <1>2, <1>4, <3>1 DEF ReceiveSide, Received
  <2>4. \A s \in j.out \ k.out : Carried(s, j)
    BY DEF Sends, Moves
  <2>5. \A s \in j.out \ k.out : Sound(s, j, p.iss) /\ Opens(s, e)
    BY <1>3, <2>3, <2>4, CarriedSound DEF Opens
  <2> QED
    BY <1>4, <2>2, <2>5
<1>12. Serves(c, j)
  BY <1>2, ServesSame DEF Fine
<1> QED
  BY <1>1, <1>2, <1>4, <1>5, <1>6, <1>7, <1>8, <1>10, <1>11, <1>12 DEF Fine

\* Without an event there is no transition.
LEMMA IgnoredFine ==
  ASSUME NEW e, NEW c, NEW p, NEW r, Fine(e, c, r, p), r.event = "IGNORE"
  PROVE  Fine(e, c, PerformStateTransition(r), p)
<1>1. r \in Connections
  BY DEF Fine
<1>2. Transition(r.fsm, r.event, r.active) = r.fsm
  BY <1>1, Fields, TransitionTable
<1>3. PerformStateTransition(r) = [r EXCEPT !.event = "IGNORE"]
  BY <1>2 DEF PerformStateTransition
<1>4. [r EXCEPT !.event = "IGNORE"] = r
  BY <1>1 DEF Connections
<1> QED
  BY <1>3, <1>4
-----------------------------------------------------------------------------
(* Steps that give the connection up.                                      *)

\* What remains of a connection is in order, whatever its timers.
Remains(e, c, r, p) ==
  /\ r \in Connections /\ ~r.fault /\ r.iss < r.bufEnd
  /\ r.fin_ack_rcvd => r.send_fin /\ r.snd_una = r.bufEnd + 1
  /\ r.snd_una > r.iss => r.snd_una <= p.rcv_nxt
  /\ r.rcv_nxt = 0 => r.delivered = 0 /\ r.rcvQueue = {} /\ ~r.fin_rcvd
  /\ r.rcv_nxt # 0 => Received(r, p)
  /\ Grown(c, r) /\ r.bufEnd = c.bufEnd /\ r.send_fin = c.send_fin
  /\ \A s \in r.out : Sound(s, r, p.iss) /\ Opens(s, e)

\* What the application has been told by the time the state changes.
Failed(c, r) ==
  /\ c.fsm # "TIME_WAIT" /\ r.sockstate = "SOCKERROR"
  /\ \E f \in Failure : r.ind = Append(c.ind, f)

LEMMA FineRemains ==
  ASSUME NEW e, NEW c, NEW p, NEW k, Fine(e, c, k, p), k.bufEnd = c.bufEnd,
         k.send_fin = c.send_fin,
         k.fsm \notin {"INIT"}
  PROVE  Remains(e, c, k, p)
<1>1. SendSide(k) /\ ReceiveSide(k, p)
  BY DEF Fine
<1>2. k.fsm \in Unopened \/ k.fsm \in Synchronized \/ k.fsm = "CLOSED"
  BY Fields DEF Fine, State, Unopened, Synchronized, Closing
<1>3. k.fin_ack_rcvd => k.send_fin /\ k.snd_una = k.bufEnd + 1
  BY <1>1, <1>2, Fields DEF SendSide, Fresh, Window, Fine
<1>4. /\ k.rcv_nxt = 0 => k.delivered = 0 /\ k.rcvQueue = {} /\ ~k.fin_rcvd
      /\ k.rcv_nxt # 0 => Received(k, p)
  BY <1>1 DEF ReceiveSide
<1> QED
  BY <1>1, <1>3, <1>4 DEF Fine, Remains, SendSide

LEMMA RemainsSame ==
  ASSUME NEW e, NEW c, NEW p, NEW k \in Connections, NEW r \in Connections,
         Remains(e, c, k, p), SameData(k, [r EXCEPT !.bufStart = k.bufStart])
  PROVE  Remains(e, c, r, p)
<1> DEFINE i == [r EXCEPT !.bufStart = k.bufStart]
<1>1. /\ i.iss = r.iss /\ i.snd_una = r.snd_una
      /\ i.snd_max = r.snd_max /\ i.bufEnd = r.bufEnd
      /\ i.send_fin = r.send_fin /\ i.fin_ack_rcvd = r.fin_ack_rcvd
      /\ i.fault = r.fault /\ i.rcv_nxt = r.rcv_nxt
      /\ i.rcvQueue = r.rcvQueue /\ i.fin_rcvd = r.fin_rcvd
      /\ i.rcv_fin_seq = r.rcv_fin_seq /\ i.delivered = r.delivered /\ i.out = r.out
  BY DEF Connections
<1>2. SameData(k, i)
  OBVIOUS
<1> HIDE DEF i
<1>3. /\ r.iss = k.iss /\ r.snd_una = k.snd_una
      /\ r.snd_max = k.snd_max /\ r.bufEnd = k.bufEnd
      /\ r.send_fin = k.send_fin /\ r.fin_ack_rcvd = k.fin_ack_rcvd
      /\ r.fault = k.fault /\ r.rcv_nxt = k.rcv_nxt
      /\ r.rcvQueue = k.rcvQueue /\ r.fin_rcvd = k.fin_rcvd
      /\ r.rcv_fin_seq = k.rcv_fin_seq /\ r.delivered = k.delivered /\ r.out = k.out
  BY <1>1, <1>2 DEF SameData, SameBounds
<1>4. \A s : Sound(s, k, p.iss) => Sound(s, r, p.iss)
  BY <1>3 DEF Sound
<1>5. Received(k, p) => Received(r, p)
  BY <1>3 DEF Received
<1>6. Grown(c, k) => Grown(c, r)
  BY <1>3 DEF Grown
<1> QED
  BY <1>3, <1>4, <1>5, <1>6 DEF Remains

\* The application is told of the end, unless it has asked for it or knows.
LEMMA EndTold ==
  ASSUME NEW c \in Connections, NEW i, NEW so, Application(c), c.fsm \notin {"INIT", "CLOSED"},
         \/ i = c.ind /\ (so = c.sockstate \/ so = "CLOSED")
         \/ c.fsm # "TIME_WAIT" /\ so = "SOCKERROR" /\ \E f \in Failure : i = Append(c.ind, f)
  PROVE  LET told(x) == \E h \in {<<>>, Told1, Told2} : x = h \/ x \in Ends(h)
         IN /\ c.fsm = "TIME_WAIT" => told(i) /\ so = "CLOSED"
            /\ c.fsm # "TIME_WAIT" => told(i) /\ told(Append(i, "CLOSED"))
<1>1. c.fsm \in State
  BY Fields
<1>2. c.fsm = "TIME_WAIT" => i = Append(Told1, "CLOSED") /\ so = "CLOSED"
  BY DEF Application
<1>3. c.fsm # "TIME_WAIT" => c.ind \in {<<>>, Told1, Told2}
  BY <1>1 DEF Application, State
<1>4. \A h : Append(h, "CLOSED") \in Ends(h)
  BY DEF Ends
<1>5. \A h : \A f \in Failure :
        Append(h, f) \in Ends(h) /\ Append(Append(h, f), "CLOSED") \in Ends(h)
  BY DEF Ends
<1>6. CASE c.fsm = "TIME_WAIT"
  BY <1>2, <1>4, <1>6
<1>7. CASE c.fsm # "TIME_WAIT" /\ i = c.ind
  BY <1>3, <1>4, <1>7
<1>8. CASE c.fsm # "TIME_WAIT" /\ \E f \in Failure : i = Append(c.ind, f)
  BY <1>3, <1>5, <1>8
<1> QED
  BY <1>6, <1>7, <1>8

LEMMA ClosedFine ==
  ASSUME NEW e, NEW c \in Connections, NEW p, NEW r,
         Application(c), c.fsm \notin {"INIT", "CLOSED"},
         Remains(e, c, r, p), r.fsm = c.fsm,
         Transition(r.fsm, r.event, r.active) = "CLOSED",
         \/ /\ r.ind = c.ind
            /\ r.sockstate = c.sockstate \/ r.sockstate = "CLOSED"
            /\ IF r.event = "ABORT"
                 THEN r.sockstate = "CLOSED"
                 ELSE r.fsm \notin {"ESTABLISHED", "FIN_WAIT_1", "FIN_WAIT_2"}
         \/ Failed(c, r)
  PROVE  Fine(e, c, PerformStateTransition(r), p)
<1> DEFINE j == PerformStateTransition(r)
           told(x) == \E h \in {<<>>, Told1, Told2} : x = h \/ x \in Ends(h)
<1>1. r \in Connections
  BY DEF Remains
<1>2. /\ j \in Connections /\ SameData(r, j) /\ j.fsm = "CLOSED" /\ j.timers = {}
      /\ Telling(r, "CLOSED") = <<>> => j.ind = r.ind /\ j.sockstate = r.sockstate
      /\ Telling(r, "CLOSED") = <<"CLOSED">> =>
           j.ind = Append(r.ind, "CLOSED") /\ j.sockstate = "CLOSED"
  BY <1>1, TransitedData
<1>3. /\ r.fsm = "TIME_WAIT" \/ r.event = "ABORT" => Telling(r, "CLOSED") = <<>>
      /\ ~(r.fsm = "TIME_WAIT" \/ r.event = "ABORT") => Telling(r, "CLOSED") = <<"CLOSED">>
  BY DEF Telling
<1>4. /\ c.fsm = "TIME_WAIT" => told(r.ind) /\ r.sockstate = "CLOSED"
      /\ c.fsm # "TIME_WAIT" => told(r.ind) /\ told(Append(r.ind, "CLOSED"))
  BY EndTold DEF Failed
<1> HIDE DEF j, told
<1>5. told(j.ind) /\ j.sockstate \in {"CLOSED", "SOCKERROR"}
  <2>1. CASE c.fsm = "TIME_WAIT"
    BY <1>2, <1>3, <1>4, <2>1
  <2>2. CASE c.fsm # "TIME_WAIT" /\ r.event = "ABORT"
    BY <1>2, <1>3, <1>4, <2>2 DEF Failed
  <2>3. CASE c.fsm # "TIME_WAIT" /\ r.event # "ABORT"
    BY <1>2, <1>3, <1>4, <2>3
  <2> QED
    BY <2>1, <2>2, <2>3
<1>6. Application(j)
  BY <1>2, <1>5 DEF Application, told
<1>7. RoleFits(e, j)
  BY <1>2 DEF RoleFits
<1>8. Remains(e, c, j, p)
  <2>1. j = [j EXCEPT !.bufStart = r.bufStart]
    BY <1>2 DEF SameData, SameBounds, Connections
  <2> QED
    BY <1>1, <1>2, <2>1, RemainsSame
<1>9. SendSide(j)
  BY <1>2, <1>8 DEF SendSide, Remains, Unopened, Synchronized, Closing
<1>10. ReceiveSide(j, p)
  BY <1>2, <1>8 DEF ReceiveSide, Remains, Opened, Synchronized, Closing
<1>11. Serves(c, j)
  <2>1. j.bufEnd = c.bufEnd /\ j.send_fin = c.send_fin
    BY <1>8 DEF Remains
  <2>2. \/ j.ind = r.ind
        \/ j.ind = Append(r.ind, "CLOSED") /\ r.fsm # "TIME_WAIT" /\ r.event # "ABORT"
    BY <1>2, <1>3
  <2>3. CASE r.ind = c.ind /\ (r.event = "ABORT"
                                 \/ r.fsm \notin {"ESTABLISHED", "FIN_WAIT_1", "FIN_WAIT_2"})
    BY <2>1, <2>2, <2>3, ServesClosed
  <2>4. CASE Failed(c, r)
    BY <2>1, <2>2, <2>4, ServesClosed DEF Failed
  <2> QED
    BY <2>3, <2>4
<1> QED
  BY <1>2, <1>6, <1>7, <1>8, <1>9, <1>10, <1>11 DEF Fine, Remains, j

\* A passive connection that is refused listens again.
LEMMA FallBackFine ==
  ASSUME NEW e, NEW k, NEW p, NEW r \in Connections, At(e, k, p),
         k.fsm = "SYN_RCVD", ~k.active,
         SameData(k, [r EXCEPT !.bufStart = k.bufStart]),
         r.bufStart \in {k.bufStart, k.bufEnd},
         r.fsm = k.fsm, r.ind = k.ind, r.sockstate = k.sockstate,
         r.timers \subseteq k.timers,
         Transition(r.fsm, r.event, r.active) = "LISTEN"
  PROVE  Fine(e, k, PerformStateTransition(r), p)
<1> DEFINE j == PerformStateTransition(r)
<1>1. Fine(e, k, k, p) /\ k \in Connections /\ p \in Connections /\ k.out = {}
  BY SelfFine
<1>2. /\ j \in Connections /\ SameData(r, j) /\ j.fsm = "LISTEN"
      /\ "REXMIT" \in j.timers <=> "REXMIT" \in r.timers
      /\ "DELAYEDACK" \in j.timers <=> "DELAYEDACK" \in r.timers
      /\ j.ind = r.ind /\ j.sockstate = r.sockstate
  <2>1. Telling(r, "LISTEN") = <<>>
    BY DEF Telling
  <2> QED
    BY <2>1, TransitedData
<1> HIDE DEF j
<1>3. Remains(e, k, k, p)
  BY <1>1, FineRemains
<1>4. Remains(e, k, r, p)
  BY <1>1, <1>3, RemainsSame
<1>5. Remains(e, k, j, p)
  <2>1. j = [j EXCEPT !.bufStart = r.bufStart]
    BY <1>2 DEF SameData, SameBounds, Connections
  <2> QED
    BY <1>2, <1>4, <2>1, RemainsSame
<1>6. FinEndsQueue(k) /\ Fresh(k) /\ ReceiveSide(k, p) /\ Application(k) /\ RoleFits(e, k)
  BY DEF At, Sides, Base, SendSide, Unopened
<1>7. k.bufEnd = k.iss + 1 /\ k.sockstate = "LISTENING" /\ k.ind = <<>>
      /\ e \in PassiveOpeners /\ k.snd_max = k.iss + 1
  BY <1>6 DEF FinEndsQueue, Application, RoleFits
<1>8. /\ j.iss = k.iss /\ j.snd_una = k.snd_una /\ j.snd_max = k.snd_max
      /\ j.bufEnd = k.bufEnd /\ j.send_fin = k.send_fin /\ j.fin_ack_rcvd = k.fin_ack_rcvd
      /\ j.lossRecovery = k.lossRecovery /\ j.fault = k.fault /\ j.rcv_nxt = k.rcv_nxt
      /\ j.bufStart = r.bufStart
  <2> DEFINE i == [r EXCEPT !.bufStart = k.bufStart]
  <2>1. /\ i.iss = r.iss /\ i.snd_una = r.snd_una /\ i.snd_max = r.snd_max
        /\ i.bufEnd = r.bufEnd /\ i.send_fin = r.send_fin /\ i.fin_ack_rcvd = r.fin_ack_rcvd
        /\ i.lossRecovery = r.lossRecovery /\ i.fault = r.fault /\ i.rcv_nxt = r.rcv_nxt
    BY DEF Connections
  <2>2. SameData(k, i)
    OBVIOUS
  <2> HIDE DEF i
  <2> QED
    BY <1>2, <2>1, <2>2 DEF SameData, SameBounds
<1>9. Fresh(j)
  <2>1. j.bufStart = j.iss + 1
    BY <1>6, <1>7, <1>8 DEF Fresh
  <2>2. j.timers \cap {"REXMIT", "DELAYEDACK"} = {}
    BY <1>2, <1>6 DEF Fresh
  <2>3. k.iss \in Nat
    BY <1>1, Fields
  <2> QED
    BY <1>2, <1>6, <1>7, <1>8, <2>1, <2>2, <2>3 DEF Fresh
<1>10. SendSide(j)
  BY <1>2, <1>5, <1>9 DEF SendSide, Remains, Synchronized, Closing
<1>11. ReceiveSide(j, p)
  <2>1. j.rcv_nxt \in {0, p.iss + 1}
    BY <1>6, <1>8 DEF ReceiveSide
  <2> QED
    BY <1>2, <1>5, <2>1 DEF ReceiveSide, Remains, Opened, Synchronized, Closing
<1>12. Application(j) /\ RoleFits(e, j)
  BY <1>2, <1>7 DEF Application, RoleFits
<1>13. Serves(k, j)
  BY <1>2, <1>8, ServesSilently
<1> QED
  BY <1>2, <1>5, <1>10, <1>11, <1>12, <1>13 DEF Fine, Remains, j
-----------------------------------------------------------------------------
(* The state that a segment leads to.                                      *)

\* Where the event leads, from a state in which the segment was handled.
Leads(r, t) ==
  \/ t = r.fsm /\ r.fsm # "SYN_RCVD"
  \/ r.fsm = "SYN_RCVD" /\ t \in {"ESTABLISHED", "CLOSE_WAIT"}
  \/ r.fsm = "ESTABLISHED" /\ t = "CLOSE_WAIT"
  \/ r.fsm = "ESTABLISHED" /\ t = "FIN_WAIT_1" /\ r.event = "CLOSE"
  \/ r.fsm = "CLOSE_WAIT" /\ t = "LAST_ACK" /\ r.event = "CLOSE"
  \/ r.fsm = "FIN_WAIT_1" /\ t = "FIN_WAIT_2" /\ r.event = "RCV_ACK"
  \/ r.fsm = "FIN_WAIT_1" /\ t = "CLOSING"
  \/ r.fsm = "FIN_WAIT_1" /\ t = "TIME_WAIT" /\ r.event = "RCV_FIN_ACK"
  \/ r.fsm = "FIN_WAIT_2" /\ t = "TIME_WAIT"
  \/ r.fsm = "CLOSING" /\ t = "TIME_WAIT" /\ r.event = "RCV_ACK"
  \/ r.fsm = "LAST_ACK" /\ t = "CLOSED" /\ r.event = "RCV_ACK"

LEMMA OutcomeLeads ==
  ASSUME NEW r \in Connections, NEW p, Outcome(r, p), r.fsm # "LAST_ACK" \/ r.event # "CLOSE",
         r.fsm = "SYN_RCVD" => r.event # "CLOSE"
  PROVE  Leads(r, Transition(r.fsm, r.event, r.active))
<1> DEFINE t == Transition(r.fsm, r.event, r.active)
<1>1. r.fsm \in State /\ r.event \in Event /\ r.active \in BOOLEAN
  BY Fields
<1>2. /\ r.event = "IGNORE" => t = r.fsm
      /\ r.event = "CLOSE" /\ r.fsm = "ESTABLISHED" => t = "FIN_WAIT_1"
      /\ r.event = "CLOSE" /\ r.fsm = "CLOSE_WAIT" => t = "LAST_ACK"
      /\ r.event = "RCV_ACK" /\ r.fsm = "SYN_RCVD" => t = "ESTABLISHED"
      /\ r.event = "RCV_ACK" /\ r.fsm = "FIN_WAIT_1" => t = "FIN_WAIT_2"
      /\ r.event = "RCV_ACK" /\ r.fsm = "CLOSING" => t = "TIME_WAIT"
      /\ r.event = "RCV_ACK" /\ r.fsm = "LAST_ACK" => t = "CLOSED"
      /\ r.event = "RCV_FIN" /\ r.fsm \in {"SYN_RCVD", "ESTABLISHED"} => t = "CLOSE_WAIT"
      /\ r.event = "RCV_FIN" /\ r.fsm = "FIN_WAIT_1" => t = "CLOSING"
      /\ r.event = "RCV_FIN_ACK" /\ r.fsm = "FIN_WAIT_1" => t = "TIME_WAIT"
      /\ r.event = "RCV_FIN" /\ r.fsm = "FIN_WAIT_2" => t = "TIME_WAIT"
  BY <1>1, TransitionTable
<1> SUFFICES Leads(r, t)
  OBVIOUS
<1> HIDE DEF t
<1>3. CASE r.fsm \in OpenStates /\ Before(r)
  BY <1>2, <1>3 DEF OpenStates, Before, Leads
<1>4. CASE r.fsm \in OpenStates /\ After(r, p)
  BY <1>2, <1>4 DEF OpenStates, After, Leads
<1>5. CASE Done(r, p)
  <2>1. r.fsm \in {"CLOSE_WAIT", "LAST_ACK", "CLOSING", "TIME_WAIT"}
    BY <1>5 DEF Done, PeerFinSeen
  <2>2. r.event = "IGNORE" \/ (r.fsm = "CLOSING" /\ r.event = "RCV_ACK")
    BY <1>5 DEF Done
  <2> QED
    BY <1>2, <2>1, <2>2 DEF Leads
<1>6. CASE r.fsm \in {"SYN_RCVD", "ESTABLISHED", "CLOSE_WAIT"} /\ r.event = "CLOSE"
  BY <1>2, <1>6 DEF Leads
<1>7. CASE r.fsm = "LAST_ACK" /\ r.event = "RCV_ACK"
  BY <1>2, <1>7 DEF Leads
<1> QED
  BY <1>3, <1>4, <1>5, <1>6, <1>7 DEF Outcome

\* What the application knows of a state it gets to, and what the socket says.
LEMMA LeadsTold ==
  ASSUME NEW k \in Connections, NEW r \in Connections, NEW j, NEW t, Application(k),
         k.fsm \in {"SYN_RCVD"} \cup Synchronized,
         r.fsm = k.fsm, r.ind = Answering(k).ind, r.sockstate = Answering(k).sockstate,
         r.send_fin = k.send_fin, j.send_fin = r.send_fin,
         k.fsm = "SYN_RCVD" => ~k.send_fin,
         r.event = "CLOSE" => r.send_fin,
         Leads(r, t), t # "CLOSED", j.fsm = t,
         Telling(r, t) = <<>> => j.ind = r.ind /\ j.sockstate = r.sockstate,
         \A x \in {"PEER_CLOSED", "CLOSED"} :
           Telling(r, t) = <<x>> => j.ind = Append(r.ind, x) /\ j.sockstate = x
  PROVE  Application(j)
<1>1. Answering(k).ind = (IF k.fsm = "SYN_RCVD" THEN Append(k.ind, "ESTABLISHED") ELSE k.ind)
      /\ Answering(k).sockstate = IF k.fsm = "SYN_RCVD" THEN "CONNECTED" ELSE k.sockstate
  BY AnsweringSame
<1>2. Append(<<>>, "ESTABLISHED") = Told1 /\ Append(Told1, "PEER_CLOSED") = Told2
  <2>1. <<>> \in Seq(STRING) /\ Len(<<>>) = 0
    OBVIOUS
  <2>2. Append(<<>>, "ESTABLISHED") = <<"ESTABLISHED">>
    BY <2>1
  <2> QED
    BY <2>2 DEF Told1, Told2
<1>3. k.fsm = "SYN_RCVD" => r.ind = Told1 /\ r.sockstate = "CONNECTED"
  BY <1>1, <1>2 DEF Application
<1>4. k.fsm # "SYN_RCVD" => r.ind = k.ind /\ r.sockstate = k.sockstate
  BY <1>1
<1>5. /\ t = r.fsm => Telling(r, t) = <<>>
      /\ t # r.fsm /\ t = "CLOSE_WAIT" => Telling(r, t) = <<"PEER_CLOSED">>
      /\ t # r.fsm /\ t = "TIME_WAIT" => Telling(r, t) = <<"CLOSED">>
      /\ t \notin {"CLOSE_WAIT", "TIME_WAIT"} => Telling(r, t) = <<>>
  BY DEF Telling
<1>6. /\ t = r.fsm \/ t \notin {"CLOSE_WAIT", "TIME_WAIT"} =>
           j.ind = r.ind /\ j.sockstate = r.sockstate
      /\ t # r.fsm /\ t = "CLOSE_WAIT" =>
           j.ind = Append(r.ind, "PEER_CLOSED") /\ j.sockstate = "PEER_CLOSED"
      /\ t # r.fsm /\ t = "TIME_WAIT" =>
           j.ind = Append(r.ind, "CLOSED") /\ j.sockstate = "CLOSED"
  BY <1>5
<1>7. CASE t = r.fsm /\ r.fsm # "SYN_RCVD"
  BY <1>4, <1>6, <1>7 DEF Application
<1>8. CASE r.fsm = "SYN_RCVD" /\ t = "ESTABLISHED"
  BY <1>3, <1>6, <1>8 DEF Application
<1>9. CASE r.fsm = "SYN_RCVD" /\ t = "CLOSE_WAIT"
  BY <1>2, <1>3, <1>6, <1>9 DEF Application
<1>10. CASE r.fsm = "ESTABLISHED" /\ t = "CLOSE_WAIT"
  <2>1. r.ind = Told1
    BY <1>4, <1>10 DEF Application
  <2> QED
    BY <1>2, <1>6, <1>10, <2>1 DEF Application
<1>11. CASE r.fsm = "ESTABLISHED" /\ t = "FIN_WAIT_1" /\ r.event = "CLOSE"
  <2>1. r.ind = Told1 /\ r.sockstate = "LOCALLY_CLOSED"
    BY <1>4, <1>11 DEF Application
  <2> QED
    BY <1>6, <1>11, <2>1 DEF Application
<1>12. CASE r.fsm = "CLOSE_WAIT" /\ t = "LAST_ACK"
  <2>1. r.ind = Told2 /\ r.sockstate \in {"PEER_CLOSED", "CLOSED"}
    BY <1>4, <1>12 DEF Application
  <2> QED
    BY <1>6, <1>12, <2>1 DEF Application
<1>13. CASE r.fsm \in {"FIN_WAIT_1", "FIN_WAIT_2", "CLOSING"} /\ t \in {"FIN_WAIT_2", "CLOSING"}
  <2>1. r.ind = Told1 /\ r.sockstate = "LOCALLY_CLOSED"
    BY <1>4, <1>13 DEF Application
  <2> QED
    BY <1>6, <1>13, <2>1 DEF Application
<1>14. CASE r.fsm \in {"FIN_WAIT_1", "FIN_WAIT_2", "CLOSING"} /\ t = "TIME_WAIT"
  <2>1. r.ind = Told1
    BY <1>4, <1>14 DEF Application
  <2>2. j.ind = Append(Told1, "CLOSED") /\ j.sockstate = "CLOSED"
    BY <1>6, <1>14, <2>1
  <2> QED
    BY <1>14, <2>2 DEF Application
<1> QED
  BY <1>7, <1>8, <1>9, <1>10, <1>11, <1>12, <1>13, <1>14 DEF Leads

LEMMA FlowRemains ==
  ASSUME NEW e, NEW k \in Connections, NEW p \in Connections, NEW r,
         k.iss < k.bufEnd, Flow(r, Answering(k), p)
  PROVE  Remains(e, k, r, p)
<1>1. LET c == Answering(k)
      IN c \in Connections /\ SameBounds(k, c) /\ c.rcv_nxt = k.rcv_nxt
  BY AnsweringSame DEF SameWindow
<1>2. Chain(r, Answering(k), p) /\ Window(r)
  BY DEF Flow
<1>3. r \in Connections /\ ~r.fault /\ Grown(k, r) /\ r.bufEnd = k.bufEnd
      /\ r.send_fin = k.send_fin
      /\ r.snd_una <= p.rcv_nxt /\ Received(r, p)
      /\ \A s \in r.out : Sound(s, r, p.iss) /\ "SYN" \notin s.flags
  BY <1>1, <1>2 DEF Chain, Grown, SameBounds
<1>4. r.iss < r.bufEnd
  BY <1>3 DEF Grown
<1>5. r.fin_ack_rcvd => r.send_fin /\ r.snd_una = r.bufEnd + 1
  BY <1>2 DEF Window
<1>6. r.rcv_nxt # 0
  <2>1. p.iss < r.rcv_nxt /\ p.iss \in Nat
    BY <1>3, Fields DEF Received
  <2> QED
    BY <2>1
<1> QED
  BY <1>3, <1>4, <1>5, <1>6 DEF Remains, Opens

LEMMA OutcomeFine ==
  ASSUME NEW e, NEW k, NEW p, NEW r, At(e, k, p),
         k.fsm \in {"SYN_RCVD"} \cup Synchronized,
         Flow(r, Answering(k), p), Outcome(r, p),
         Armed(r) \/ (r.fsm = "LAST_ACK" /\ r.event = "RCV_ACK")
  PROVE  Fine(e, k, PerformStateTransition(r), p)
<1> DEFINE c == Answering(k)
           t == Transition(r.fsm, r.event, r.active)
           j == PerformStateTransition(r)
<1>1. /\ k \in Connections /\ p \in Connections /\ SendSide(k) /\ Application(k)
      /\ RoleFits(e, k) /\ ReceiveSide(k, p)
  BY DEF At, Sides
<1>2. Chain(r, c, p) /\ Window(r) /\ EventFits(r)
  BY DEF Flow
<1>3. /\ r \in Connections /\ r.fsm = c.fsm /\ r.send_fin = c.send_fin /\ r.ind = c.ind
      /\ r.sockstate = c.sockstate /\ Received(r, p)
      /\ \A s \in r.out : Sound(s, r, p.iss)
  BY <1>2 DEF Chain
<1>4. c.fsm = k.fsm /\ c.send_fin = k.send_fin
  BY <1>1, AnsweringSame DEF SameWindow, SameBounds
<1>5. Remains(e, k, r, p)
  BY <1>1, FlowRemains DEF SendSide
<1> HIDE DEF c
<1>6. k.fsm = "SYN_RCVD" => ~k.send_fin
  BY <1>1 DEF SendSide, Unopened, Fresh
<1>7. r.event = "CLOSE" => r.send_fin /\ r.snd_max = r.bufEnd + 1
  BY <1>2 DEF EventFits
<1>8. r.fsm # "LAST_ACK" \/ r.event # "CLOSE"
  BY DEF Outcome, OpenStates, Before, After, Done
<1>9. Leads(r, t)
  BY <1>3, <1>4, <1>6, <1>7, <1>8, OutcomeLeads
<1>10. t \in State
  BY <1>3, Fields, TransitionType
<1>11. CASE t = "CLOSED"
  <2>1. r.fsm = "LAST_ACK" /\ r.event = "RCV_ACK"
    BY <1>3, <1>4, <1>9, <1>11 DEF Leads, Synchronized, Closing
  <2>2. c.ind = k.ind /\ c.sockstate = k.sockstate
    BY <1>3, <1>4, <2>1 DEF c, Answering
  <2>3. k.fsm \notin {"INIT", "CLOSED"} /\ r.fsm = k.fsm
    BY <1>3, <1>4, <2>1
  <2> QED
    BY <1>1, <1>3, <1>5, <1>11, <2>1, <2>2, <2>3, ClosedFine
<1>12. CASE t # "CLOSED"
  <2>1. /\ j \in Connections /\ SameData(r, j) /\ j.fsm = t
        /\ "REXMIT" \in j.timers <=> "REXMIT" \in r.timers
        /\ Telling(r, t) = <<>> => j.ind = r.ind /\ j.sockstate = r.sockstate
        /\ \A x \in {"PEER_CLOSED", "CLOSED"} :
             Telling(r, t) = <<x>> => j.ind = Append(r.ind, x) /\ j.sockstate = x
    BY <1>3, <1>12, TransitedData
  <2>2. SameWindow(r, j) /\ SameBounds(r, j)
    BY <2>1 DEF SameData, SameWindow
  <2> HIDE DEF j
  <2>3. Application(j)
    <3>1. r.ind = Answering(k).ind /\ r.sockstate = Answering(k).sockstate
      BY <1>3 DEF c
    <3>2. j.send_fin = r.send_fin
      BY <2>2 DEF SameBounds
    <3> HIDE DEF t
    <3> QED
      BY <1>1, <1>3, <1>4, <1>6, <1>7, <1>9, <1>12, <2>1, <3>1, <3>2, LeadsTold
  <2>4. Remains(e, k, j, p)
    <3>1. j = [j EXCEPT !.bufStart = r.bufStart]
      BY <2>1 DEF SameData, SameBounds, Connections
    <3> QED
      BY <1>3, <1>5, <2>1, <3>1, RemainsSame
  <2> HIDE DEF t
  <2>5. t \in Synchronized
    BY <1>3, <1>4, <1>9, <1>12 DEF Leads, Synchronized, Closing
  <2>6. Window(j) /\ Armed(j)
    <3>1. Armed(r)
      <4>1. r.fsm = "LAST_ACK" /\ r.event = "RCV_ACK" => t = "CLOSED"
        <5>1. "LAST_ACK" \in State /\ "RCV_ACK" \in Event /\ r.active \in BOOLEAN
          BY <1>3, Fields DEF State, Event
        <5> QED
          BY <5>1, TransitionTable DEF t
      <4> QED
        BY <1>12, <4>1
    <3> QED
      BY <1>2, <2>2, <3>1, SameWindowKept
  <2>7. t \in Closing => r.send_fin /\ r.snd_max = r.bufEnd + 1
    <3>1. CASE r.fsm \in Closing
      <4>1. k.send_fin /\ k.snd_max = k.bufEnd + 1
        BY <1>1, <1>3, <1>4, <3>1 DEF SendSide
      <4>2. k.snd_max <= r.snd_max /\ r.bufEnd = k.bufEnd
        BY <1>5 DEF Remains, Grown
      <4>3. r.snd_max <= r.bufEnd + 1
        BY <1>2 DEF Window
      <4>4. r.snd_max \in Nat /\ k.snd_max \in Nat /\ k.bufEnd \in Nat
        BY <1>1, <1>3, Fields
      <4> QED
        BY <1>3, <1>4, <4>1, <4>2, <4>3, <4>4
    <3>2. CASE r.fsm \notin Closing
      BY <1>7, <1>9, <1>12, <3>2 DEF Leads, Closing
    <3> QED
      BY <3>1, <3>2
  <2>8. t \in {"FIN_WAIT_2", "TIME_WAIT"} => r.fin_ack_rcvd
    <3>1. /\ r.event = "RCV_ACK" /\ r.fsm \in {"FIN_WAIT_1", "CLOSING"} => r.fin_ack_rcvd
          /\ r.event = "RCV_FIN_ACK" => r.fin_ack_rcvd
          /\ r.fsm \in {"FIN_WAIT_2", "TIME_WAIT"} => r.fin_ack_rcvd
      BY <1>2 DEF EventFits
    <3> QED
      BY <1>9, <3>1 DEF Leads
  <2>9. SendSide(j)
    <3>1. t \notin Unopened /\ t # "CLOSED"
      BY <2>5 DEF Unopened, Synchronized, Closing
    <3> QED
      BY <2>1, <2>2, <2>4, <2>6, <2>7, <2>8, <3>1 DEF SendSide, Remains, SameBounds
  <2>10. ReceiveSide(j, p)
    <3>1. j.rcv_nxt # 0
      <4>1. p.iss < r.rcv_nxt /\ p.iss \in Nat
        BY <1>1, <1>3, Fields DEF Received
      <4>2. j.rcv_nxt = r.rcv_nxt
        BY <2>1 DEF SameData
      <4> QED
        BY <4>1, <4>2
    <3> QED
      BY <2>1, <2>4, <2>5, <3>1 DEF ReceiveSide, Remains, Synchronized, Closing
  <2>11. RoleFits(e, j)
    BY <2>1, <2>5 DEF RoleFits, Synchronized, Closing
  <2>12. Serves(k, j)
    <3>1. k.fsm \in Ended => t \in Ended
      BY <1>3, <1>4, <1>9, <1>12 DEF Leads, Ended
    <3>2. j.bufEnd = k.bufEnd /\ j.send_fin = k.send_fin /\ k.fsm # "CLOSED"
      BY <2>4 DEF Remains, Synchronized, Closing
    <3> QED
      BY <1>1, <1>12, <2>1, <2>3, <3>1, <3>2, ServesOpen
  <2> QED
    BY <2>1, <2>3, <2>4, <2>9, <2>10, <2>11, <2>12 DEF Fine, Remains, j
<1> QED
  BY <1>11, <1>12
-----------------------------------------------------------------------------
(* Segments that arrive.                                                   *)

LEMMA EmitQuietly ==
  ASSUME NEW e, NEW k, NEW p, NEW s \in Segments, At(e, k, p),
         Sound(s, k, p.iss), Opens(s, e)
  PROVE  Quietly(k, Emit(k, s), p, e)
<1> DEFINE j == Emit(k, s)
<1>1. k \in Connections /\ k.out = {} /\ j \in Connections
  BY SelfFine, EmitType
<1>2. /\ j.iss = k.iss /\ j.snd_una = k.snd_una /\ j.snd_nxt = k.snd_nxt
      /\ j.snd_max = k.snd_max /\ j.bufStart = k.bufStart /\ j.bufEnd = k.bufEnd
      /\ j.send_fin = k.send_fin /\ j.snd_fin_seq = k.snd_fin_seq
      /\ j.fin_ack_rcvd = k.fin_ack_rcvd
      /\ j.lossRecovery = k.lossRecovery /\ j.recover = k.recover
      /\ j.active = k.active /\ j.fault = k.fault /\ j.rcv_nxt = k.rcv_nxt
      /\ j.rcvQueue = k.rcvQueue /\ j.fin_rcvd = k.fin_rcvd
      /\ j.rcv_fin_seq = k.rcv_fin_seq /\ j.delivered = k.delivered
      /\ j.fsm = k.fsm /\ j.ind = k.ind /\ j.sockstate = k.sockstate
      /\ j.timers = k.timers /\ j.out = {s}
  BY <1>1 DEF Emit, Connections
<1> HIDE DEF j
<1> DEFINE i == [j EXCEPT !.out = k.out]
<1>3. /\ i.iss = j.iss /\ i.snd_una = j.snd_una /\ i.snd_nxt = j.snd_nxt
      /\ i.snd_max = j.snd_max /\ i.bufStart = j.bufStart /\ i.bufEnd = j.bufEnd
      /\ i.send_fin = j.send_fin /\ i.snd_fin_seq = j.snd_fin_seq
      /\ i.fin_ack_rcvd = j.fin_ack_rcvd
      /\ i.lossRecovery = j.lossRecovery /\ i.recover = j.recover
      /\ i.active = j.active /\ i.fault = j.fault /\ i.rcv_nxt = j.rcv_nxt
      /\ i.rcvQueue = j.rcvQueue /\ i.fin_rcvd = j.fin_rcvd
      /\ i.rcv_fin_seq = j.rcv_fin_seq /\ i.delivered = j.delivered /\ i.out = k.out
  BY <1>1 DEF Connections
<1> HIDE DEF i
<1>4. SameData(k, i)
  BY <1>2, <1>3 DEF SameData, SameBounds
<1> QED
  BY <1>1, <1>2, <1>4 DEF Quietly, i, j

\* A reset says nothing of the streams.
LEMMA SendRstFine ==
  ASSUME NEW e, NEW k, NEW p, At(e, k, p), NEW f \in {{"RST"}, {"RST", "ACK"}},
         NEW seq \in Nat, NEW ackNo \in Nat
  PROVE  Fine(e, k, Emit(k, Segment(f, seq, ackNo, 0)), p)
<1> DEFINE s == Segment(f, seq, ackNo, 0)
<1>1. s \in Segments
  BY SegmentType DEF Flag
<1>2. s.flags = f /\ s.len = 0
  BY DEF Segment
<1> HIDE DEF s
<1>3. Sound(s, k, p.iss) /\ Opens(s, e)
  BY <1>2 DEF Sound, Opens
<1>4. Quietly(k, Emit(k, s), p, e)
  BY <1>1, <1>3, EmitQuietly
<1> QED
  BY <1>4, QuietFine DEF s

LEMMA RstFine ==
  ASSUME NEW e, NEW k, NEW p, At(e, k, p), NEW seq \in Nat
  PROVE  Fine(e, k, SendRst(k, seq), p)
BY SendRstFine DEF SendRst

\* Counters, and a delayed ACK, do not matter.
LEMMA QuietlyAckSent ==
  ASSUME NEW e, NEW k, NEW p, NEW j, Quietly(k, j, p, e), k \in Connections
  PROVE  Quietly(k, AckSent(j), p, e)
<1> DEFINE i == AckSent(j)
<1>1. j \in Connections /\ i \in Connections
  BY AckSentType DEF Quietly
<1>2. i.out = j.out /\ i.fsm = j.fsm /\ i.ind = j.ind /\ i.sockstate = j.sockstate
      /\ i.timers = j.timers \ {"DELAYEDACK"}
  BY <1>1 DEF AckSent, Cancel, Connections
<1>3. SameData([j EXCEPT !.out = k.out], [i EXCEPT !.out = k.out])
  BY <1>1 DEF AckSent, Cancel, SameData, SameBounds, Connections
<1>4. SameData(k, [i EXCEPT !.out = k.out])
  BY <1>3, SameDataTransitive DEF Quietly
<1> HIDE DEF i
<1> QED
  BY <1>1, <1>2, <1>4 DEF Quietly, i

LEMMA SendAckFine ==
  ASSUME NEW e, NEW k, NEW p, At(e, k, p), k.fsm \in Opened
  PROVE  Fine(e, k, SendAck(k), p)
<1> DEFINE s == Segment({"ACK"}, k.snd_nxt, k.rcv_nxt, 0)
<1>1. k \in Connections /\ ReceiveSide(k, p) /\ k.snd_nxt \in Nat /\ k.rcv_nxt \in Nat
  BY Fields DEF At, Sides
<1>2. s \in Segments
  BY <1>1, SegmentType DEF Flag
<1>3. s.flags = {"ACK"} /\ s.len = 0 /\ s.ackNo = k.rcv_nxt
  BY DEF Segment
<1>4. p.iss < k.rcv_nxt
  BY <1>1 DEF ReceiveSide, Received
<1>5. SendAck(k) = AckSent(Emit(k, s))
  BY DEF SendAck
<1> HIDE DEF s
<1>6. Sound(s, k, p.iss) /\ Opens(s, e)
  BY <1>1, <1>3, <1>4 DEF Sound, Opens
<1> QED
  BY <1>1, <1>2, <1>5, <1>6, EmitQuietly, QuietlyAckSent, QuietFine

LEMMA ReceiveWhileClosedTransfer ==
  ASSUME TypeOK, TeardownInv, TransferInv, NEW e \in Endpoint, NEW s \in net[e],
         ReceiveWhileClosed(e, s)
  PROVE  TransferInv' /\ Served(e)
<1> DEFINE k == conn[e]
           p == conn[Peer(e)]
<1>1. At(e, k, p) /\ s \in Segments
  BY TransferAt
<1>2. s.seq \in Nat /\ s.ackNo \in Nat /\ s.len \in Nat /\ s.flags \in SUBSET Flag
  BY <1>1 DEF Segments
<1> DEFINE end == s.seq + s.len + (IF "SYN" \in s.flags THEN 1 ELSE 0)
                                + (IF "FIN" \in s.flags THEN 1 ELSE 0)
           j == CASE "RST" \in s.flags -> k
                  [] s.flags \cap {"RST", "ACK"} = {}
                       -> Emit(k, Segment({"RST", "ACK"}, 0, end, 0))
                  [] OTHER -> SendRst(k, s.ackNo)
<1>3. end \in Nat
  BY <1>2
<1>4. Take(e, s, j)
  BY DEF ReceiveWhileClosed
<1> HIDE DEF end, k, p
<1>5. \/ j = k
      \/ j = Emit(k, Segment({"RST", "ACK"}, 0, end, 0))
      \/ j = SendRst(k, s.ackNo)
  OBVIOUS
<1>6. Fine(e, k, j, p)
  BY <1>1, <1>2, <1>3, <1>5, SelfFine, RstFine, SendRstFine
<1> HIDE DEF j
<1> QED
  BY <1>4, <1>6, StepTransfer DEF k, p

LEMMA ReceiveUnacceptableTransfer ==
  ASSUME TypeOK, TeardownInv, TransferInv, NEW e \in Endpoint, NEW s \in net[e],
         ReceiveUnacceptable(e, s)
  PROVE  TransferInv' /\ Served(e)
<1> DEFINE k == conn[e]
           p == conn[Peer(e)]
           j == IF "RST" \in s.flags THEN k ELSE SendAck(k)
<1>1. At(e, k, p)
  BY TransferAt
<1>2. Take(e, s, j) /\ k.fsm \in Opened
  BY DEF ReceiveUnacceptable, Opened
<1> HIDE DEF k, p
<1>3. Fine(e, k, j, p)
  BY <1>1, <1>2, SelfFine, SendAckFine
<1> HIDE DEF j
<1> QED
  BY <1>2, <1>3, StepTransfer DEF k, p

LEMMA ReceiveSegmentTransfer ==
  ASSUME TypeOK, TeardownInv, TransferInv, NEW e \in Endpoint, NEW s \in net[e],
         NEW w \in Nat, NEW nx \in Nat, ReceiveSegment(e, s, w, nx)
  PROVE  TransferInv' /\ Served(e)
<1> DEFINE k == conn[e]
           p == conn[Peer(e)]
           badAck == IF k.fsm = "SYN_RCVD"
                       THEN s.ackNo < k.snd_una \/ s.ackNo > k.snd_nxt
                       ELSE k.fsm # "TIME_WAIT" /\ s.ackNo > k.snd_max
           refused == IF k.fsm = "SYN_RCVD" THEN SendRst(k, s.ackNo)
                                            ELSE [SendAck(k) EXCEPT !.dupacks = 0]
           r == ProcessAckedSegment(k, s, w, nx)
           j == CASE "ACK" \notin s.flags           -> k
                  [] "ACK" \in s.flags /\ badAck    -> refused
                  [] "ACK" \in s.flags /\ ~badAck   -> PerformStateTransition(r)
<1>1. At(e, k, p) /\ s \in Segments /\ Sound(s, p, k.iss)
      /\ ("FIN" \in s.flags => FinAt(p, s.seq + s.len))
  BY TransferAt
<1>2. /\ k.fsm \in {"SYN_RCVD"} \cup Synchronized
      /\ Acceptable(k, s) /\ s.flags \cap {"RST", "SYN"} = {}
      /\ ReceivesText(k, s) => NextMissing(k.rcv_nxt, k.rcvQueue \cup {s.seq}, nx)
      /\ Take(e, s, j)
  BY DEF ReceiveSegment
<1>3. k \in Connections /\ Sides(k, p) /\ p \in Connections
  BY <1>1 DEF At, Sides
<1>4. /\ s.ackNo \in Nat /\ k.snd_una \in Nat /\ k.snd_nxt \in Nat /\ k.snd_max \in Nat
  BY <1>1, <1>3, Fields DEF Segments
<1> HIDE DEF k, p
<1>5. CASE "ACK" \notin s.flags
  <2>1. Fine(e, k, j, p)
    BY <1>1, <1>5, SelfFine
  <2> HIDE DEF j
  <2> QED
    BY <1>2, <2>1, StepTransfer DEF k, p
<1>6. CASE "ACK" \in s.flags /\ badAck
  <2>1. j = refused
    BY <1>6
  <2>2. CASE k.fsm = "SYN_RCVD"
    <3>1. Fine(e, k, j, p)
      BY <1>1, <1>4, <2>1, <2>2, RstFine
    <3> HIDE DEF j
    <3> QED
      BY <1>2, <3>1, StepTransfer DEF k, p
  <2>3. CASE k.fsm # "SYN_RCVD"
    <3>1. k.fsm \in Synchronized
      BY <1>2, <2>3
    <3>2. Window(k) /\ Armed(k)
      BY <1>3, <3>1 DEF Sides, SendSide
    <3>3. Sends(k, SendAck(k)) /\ SameWindow(k, SendAck(k)) /\ SendAck(k) \in Connections
      BY <1>3, SendAckSends, SendAckType
    <3> DEFINE a == SendAck(k)
               d == [a EXCEPT !.dupacks = 0]
    <3> HIDE DEF a
    <3>4. Sends(a, d) /\ SameWindow(a, d)
      <4>1. Sends(a, d)
        BY <3>3, SetSends DEF a
      <4>2. SameWindow(a, d)
        BY <3>3 DEF a, SameWindow, SameBounds, Connections
      <4> QED
        BY <4>1, <4>2
    <3>5. j = d
      BY <2>1, <2>3 DEF a
    <3> HIDE DEF d, j
    <3>6. Sends(k, d) /\ Window(d) /\ Armed(d)
      BY <1>3, <3>2, <3>3, <3>4, SendsTransitive, SameWindowKept DEF a
    <3>7. Fine(e, k, d, p)
      BY <1>1, <1>3, <3>1, <3>6, SelfFine, SendsFine
    <3> QED
      BY <1>2, <3>5, <3>7, StepTransfer DEF k, p
  <2> QED
    BY <2>2, <2>3
<1>7. CASE "ACK" \in s.flags /\ ~badAck
  <2>1. j = PerformStateTransition(r)
    BY <1>7
  <2>2. IF k.fsm = "SYN_RCVD" THEN s.ackNo <= k.snd_nxt
                              ELSE k.fsm # "TIME_WAIT" => s.ackNo <= k.snd_max
    BY <1>4, <1>7
  <2>3. "RST" \notin s.flags
    BY <1>2
  <2>0. Sides(k, p) /\ "ACK" \in s.flags /\ Sound(s, p, k.iss)
        /\ ("FIN" \in s.flags => FinAt(p, s.seq + s.len)) /\ s \in Segments
    BY <1>1, <1>3, <1>7
  <2> HIDE DEF badAck, j
  <2>4. /\ Flow(r, Answering(k), p) /\ Outcome(r, p)
        /\ Armed(r) \/ (r.fsm = "LAST_ACK" /\ r.event = "RCV_ACK")
    <3>1. k.fsm \in {"SYN_RCVD"} \cup Synchronized /\ Acceptable(k, s)
          /\ (ReceivesText(k, s) => NextMissing(k.rcv_nxt, k.rcvQueue \cup {s.seq}, nx))
      BY <1>2
    <3> QED
      BY <2>0, <2>2, <2>3, <3>1, ProcessAckedSegmentFlow
  <2> HIDE DEF r
  <2>5. Fine(e, k, j, p)
    BY <1>1, <1>2, <2>1, <2>4, OutcomeFine
  <2> QED
    BY <1>2, <2>5, StepTransfer DEF k, p
<1> QED
  BY <1>5, <1>6, <1>7

\* Setting the event, the socket and the timers, and emptying the queue, leaves
\* the rest of a connection as it was.
LEMMA SetRemains ==
  ASSUME NEW e, NEW c, NEW p, NEW k \in Connections, Remains(e, c, k, p)
  PROVE  /\ \A ev \in Event : Remains(e, c, [k EXCEPT !.event = ev], p)
         /\ \A so \in SockState : Remains(e, c, [k EXCEPT !.sockstate = so], p)
         /\ \A n \in Nat : Remains(e, c, [k EXCEPT !.bufStart = n], p)
         /\ \A n \in Nat : Remains(e, c, [k EXCEPT !.rexmit_count = n], p)
         /\ \A i \in Indication : Remains(e, c, Indicate(k, i), p)
         /\ \A ts : Remains(e, c, Cancel(k, ts), p)
         /\ Remains(e, c, Assert(k, TRUE), p)
<1>1. ASSUME NEW ev \in Event PROVE Remains(e, c, [k EXCEPT !.event = ev], p)
  <2> DEFINE r == [k EXCEPT !.event = ev]
  <2>1. r \in Connections
    BY SetState
  <2>2. SameData(k, [r EXCEPT !.bufStart = k.bufStart])
    BY DEF SameData, SameBounds, Connections
  <2> HIDE DEF r
  <2>3. Remains(e, c, r, p)
    BY <2>1, <2>2, RemainsSame
  <2> QED
    BY <2>3 DEF r
<1>2. ASSUME NEW so \in SockState PROVE Remains(e, c, [k EXCEPT !.sockstate = so], p)
  <2> DEFINE r == [k EXCEPT !.sockstate = so]
  <2>1. r \in Connections
    BY SetState
  <2>2. SameData(k, [r EXCEPT !.bufStart = k.bufStart])
    BY DEF SameData, SameBounds, Connections
  <2> HIDE DEF r
  <2>3. Remains(e, c, r, p)
    BY <2>1, <2>2, RemainsSame
  <2> QED
    BY <2>3 DEF r
<1>3. ASSUME NEW n \in Nat PROVE Remains(e, c, [k EXCEPT !.bufStart = n], p)
  <2> DEFINE r == [k EXCEPT !.bufStart = n]
  <2>1. r \in Connections
    BY SetNat
  <2>2. SameData(k, [r EXCEPT !.bufStart = k.bufStart])
    BY DEF SameData, SameBounds, Connections
  <2> HIDE DEF r
  <2>3. Remains(e, c, r, p)
    BY <2>1, <2>2, RemainsSame
  <2> QED
    BY <2>3 DEF r
<1>4. ASSUME NEW n \in Nat PROVE Remains(e, c, [k EXCEPT !.rexmit_count = n], p)
  <2> DEFINE r == [k EXCEPT !.rexmit_count = n]
  <2>1. r \in Connections
    BY SetNat
  <2>2. SameData(k, [r EXCEPT !.bufStart = k.bufStart])
    BY DEF SameData, SameBounds, Connections
  <2> HIDE DEF r
  <2>3. Remains(e, c, r, p)
    BY <2>1, <2>2, RemainsSame
  <2> QED
    BY <2>3 DEF r
<1>5. ASSUME NEW i \in Indication PROVE Remains(e, c, Indicate(k, i), p)
  <2> DEFINE r == Indicate(k, i)
  <2>1. r \in Connections
    BY IndicateType
  <2>2. SameData(k, [r EXCEPT !.bufStart = k.bufStart])
    BY DEF SameData, SameBounds, Indicate, Connections
  <2> HIDE DEF r
  <2>3. Remains(e, c, r, p)
    BY <2>1, <2>2, RemainsSame
  <2> QED
    BY <2>3 DEF r
<1>6. ASSUME NEW ts PROVE Remains(e, c, Cancel(k, ts), p)
  <2> DEFINE r == Cancel(k, ts)
  <2>1. r \in Connections
    BY CancelType
  <2>2. SameData(k, [r EXCEPT !.bufStart = k.bufStart])
    BY DEF SameData, SameBounds, Cancel, Connections
  <2> HIDE DEF r
  <2>3. Remains(e, c, r, p)
    BY <2>1, <2>2, RemainsSame
  <2> QED
    BY <2>3 DEF r
<1>7. Remains(e, c, Assert(k, TRUE), p)
  <2> DEFINE r == Assert(k, TRUE)
  <2>1. r \in Connections
    BY AssertType
  <2>2. k.fault \in BOOLEAN
    BY Fields
  <2>3. r.fault = k.fault
    BY <2>2 DEF Assert, Connections
  <2>4. SameData(k, [r EXCEPT !.bufStart = k.bufStart])
    BY <2>3 DEF SameData, SameBounds, Assert, Connections
  <2> HIDE DEF r
  <2>5. Remains(e, c, r, p)
    BY <2>1, <2>4, RemainsSame
  <2> QED
    BY <2>5 DEF r
<1> QED
  BY <1>1, <1>2, <1>3, <1>4, <1>5, <1>6, <1>7

LEMMA AtRemains ==
  ASSUME NEW e, NEW k, NEW p, At(e, k, p), k.fsm # "INIT"
  PROVE  Remains(e, k, k, p)
BY SelfFine, FineRemains

\* A failure is told before the state changes.
LEMMA FailureFine ==
  ASSUME NEW e, NEW c \in Connections, NEW p, NEW r \in Connections,
         NEW f \in Failure,
         Application(c), c.fsm \notin {"INIT", "CLOSED", "TIME_WAIT"},
         Remains(e, c, r, p), r.fsm = c.fsm, r.ind = c.ind, NEW ev \in Event,
         Transition(c.fsm, ev, r.active) = "CLOSED"
  PROVE  Fine(e, c, PerformStateTransition([Indicate(r, f) EXCEPT !.event = ev]), p)
<1> DEFINE i == Indicate(r, f)
           q == [i EXCEPT !.event = ev]
<1>1. f \in Indication /\ SocketOf(f) = "SOCKERROR"
  BY DEF Failure, Indication, SocketOf
<1>2. /\ i \in Connections /\ i.fsm = c.fsm /\ i.ind = Append(c.ind, f)
      /\ i.sockstate = "SOCKERROR" /\ i.active = r.active
  BY <1>1, IndicateTells
<1>3. Remains(e, c, i, p)
  BY <1>1, SetRemains
<1> HIDE DEF i
<1>4. Remains(e, c, q, p)
  BY <1>2, <1>3, SetRemains
<1>5. q.fsm = c.fsm /\ q.ind = Append(c.ind, f) /\ q.sockstate = "SOCKERROR"
      /\ q.event = ev /\ q.active = r.active
  BY <1>2 DEF Connections
<1> HIDE DEF q
<1>6. Failed(c, q)
  BY <1>5 DEF Failed
<1>7. Fine(e, c, PerformStateTransition(q), p)
  BY <1>4, <1>5, <1>6, ClosedFine
<1> QED
  BY <1>7 DEF q, i

LEMMA EventKept ==
  ASSUME NEW k \in Connections, NEW f
  PROVE  [Indicate(k, f) EXCEPT !.event = k.event] = Indicate(k, f)
BY DEF Connections, Indicate

LEMMA ReceiveRstTransfer ==
  ASSUME TypeOK, TeardownInv, TransferInv, NEW e \in Endpoint, NEW s \in net[e],
         ReceiveRst(e, s)
  PROVE  TransferInv' /\ Served(e)
<1> DEFINE k == conn[e]
           p == conn[Peer(e)]
           b == IF k.fsm = "SYN_RCVD" THEN k.bufEnd ELSE k.bufStart
           k0 == [k EXCEPT !.event = "RCV_RST"]
           k1 == [k0 EXCEPT !.bufStart = b]
           r == CASE k.fsm = "SYN_RCVD" /\ k.active -> Indicate(k1, "CONNECTION_REFUSED")
                  [] k.fsm \in {"ESTABLISHED", "FIN_WAIT_1", "FIN_WAIT_2", "CLOSE_WAIT"}
                       -> Indicate(k1, "CONNECTION_RESET")
                  [] OTHER -> k1
           j == PerformStateTransition(r)
<1>1. At(e, k, p) /\ k \in Connections /\ p \in Connections
  BY TransferAt, SelfFine
<1>2. k.fsm \in {"SYN_RCVD"} \cup Synchronized
  BY DEF ReceiveRst
<1>3. k1 = [k EXCEPT !.event = "RCV_RST",
                      !.bufStart = IF k.fsm = "SYN_RCVD" THEN k.bufEnd ELSE @]
  BY <1>1 DEF Connections
<1>4. Take(e, s, j)
  BY <1>3 DEF ReceiveRst
<1>5. b \in Nat /\ "RCV_RST" \in Event
  BY <1>1, Fields DEF Event
<1> HIDE DEF k, p
<1>6. /\ k0 \in Connections /\ k0.fsm = k.fsm /\ k0.event = "RCV_RST" /\ k0.ind = k.ind
      /\ k0.sockstate = k.sockstate /\ k0.active = k.active /\ k0.timers = k.timers
      /\ SameData(k, k0) /\ k0.bufStart = k.bufStart
  <2>1. k0 \in Connections
    BY <1>1, <1>5, SetState
  <2>2. /\ k0.fsm = k.fsm /\ k0.event = "RCV_RST" /\ k0.ind = k.ind
        /\ k0.sockstate = k.sockstate /\ k0.active = k.active /\ k0.timers = k.timers
        /\ SameData(k, k0) /\ k0.bufStart = k.bufStart
    BY <1>1 DEF Connections, SameData, SameBounds
  <2> QED
    BY <2>1, <2>2
<1>7. Remains(e, k, k0, p)
  BY <1>1, <1>2, <1>5, AtRemains, SetRemains DEF Synchronized, Closing
<1> HIDE DEF k0
<1>8. /\ k1 \in Connections /\ k1.fsm = k.fsm /\ k1.event = "RCV_RST" /\ k1.ind = k.ind
      /\ k1.sockstate = k.sockstate /\ k1.active = k.active /\ k1.timers = k.timers
      /\ k1.bufStart = b
  <2>1. k1 \in Connections
    BY <1>5, <1>6, SetNat
  <2>2. /\ k1.fsm = k0.fsm /\ k1.event = k0.event /\ k1.ind = k0.ind
        /\ k1.sockstate = k0.sockstate /\ k1.active = k0.active /\ k1.timers = k0.timers
        /\ k1.bufStart = b
    BY <1>6 DEF Connections
  <2> QED
    BY <1>6, <2>1, <2>2
<1>9. Remains(e, k, k1, p)
  BY <1>5, <1>6, <1>7, SetRemains
<1>10. [k1 EXCEPT !.bufStart = k.bufStart] = k0
  BY <1>6 DEF Connections
<1>11. [k1 EXCEPT !.event = "RCV_RST"] = k1
  BY <1>8 DEF Connections
<1>12. \A f : [Indicate(k1, f) EXCEPT !.event = "RCV_RST"] = Indicate(k1, f)
  <2> HIDE DEF k1
  <2> QED
    BY <1>8, EventKept
<1>13. SendSide(k) /\ Application(k)
  BY <1>1 DEF At, Sides
<1> HIDE DEF k1
<1>14. /\ k.fsm \in Synchronized => Transition(k.fsm, "RCV_RST", k.active) = "CLOSED"
       /\ k.fsm = "SYN_RCVD" => \/ Transition(k.fsm, "RCV_RST", k.active) = "CLOSED"
                                \/ /\ ~k.active
                                   /\ Transition(k.fsm, "RCV_RST", k.active) = "LISTEN"
  BY <1>1, <1>5, Fields, TransitionTable
<1>15. "CONNECTION_REFUSED" \in Failure /\ "CONNECTION_RESET" \in Failure
  BY DEF Failure
<1>16. CASE k.fsm = "SYN_RCVD" /\ k.active
  <2>1. r = Indicate(k1, "CONNECTION_REFUSED")
    BY <1>16
  <2>2. Transition(k.fsm, "RCV_RST", k.active) = "CLOSED"
    BY <1>14, <1>16
  <2>0. k.fsm \notin {"INIT", "CLOSED", "TIME_WAIT"}
    BY <1>16
  <2> HIDE DEF j, r
  <2>4. Fine(e, k, PerformStateTransition(
              [Indicate(k1, "CONNECTION_REFUSED") EXCEPT !.event = "RCV_RST"]), p)
    BY <1>1, <1>5, <1>8, <1>9, <1>13, <1>15, <2>0, <2>2, FailureFine
  <2>3. Fine(e, k, j, p)
    BY <1>12, <2>1, <2>4 DEF j
  <2> HIDE DEF j
  <2> QED
    BY <1>4, <2>3, StepTransfer DEF k, p
<1>17. CASE k.fsm \in {"ESTABLISHED", "FIN_WAIT_1", "FIN_WAIT_2", "CLOSE_WAIT"}
  <2>1. r = Indicate(k1, "CONNECTION_RESET")
    BY <1>17
  <2>2. k.fsm \in Synchronized
    BY <1>17 DEF Synchronized, Closing
  <2>3. Fine(e, k, j, p)
    BY <1>1, <1>5, <1>8, <1>9, <1>12, <1>13, <1>14, <1>15, <1>17, <2>1, <2>2, FailureFine
  <2> HIDE DEF j
  <2> QED
    BY <1>4, <2>3, StepTransfer DEF k, p
<1>18. CASE ~(k.fsm = "SYN_RCVD" /\ k.active)
            /\ k.fsm \notin {"ESTABLISHED", "FIN_WAIT_1", "FIN_WAIT_2", "CLOSE_WAIT"}
  <2>1. r = k1
    BY <1>18
  <2>2. CASE Transition(k.fsm, "RCV_RST", k.active) = "CLOSED"
    <3>1. k.fsm \notin {"INIT", "CLOSED"}
      BY <1>2 DEF Synchronized, Closing
    <3>2. Fine(e, k, j, p)
      BY <1>1, <1>8, <1>9, <1>13, <1>18, <2>1, <2>2, <3>1, ClosedFine
    <3> HIDE DEF j
    <3> QED
      BY <1>4, <3>2, StepTransfer DEF k, p
  <2>3. CASE k.fsm = "SYN_RCVD" /\ ~k.active
             /\ Transition(k.fsm, "RCV_RST", k.active) = "LISTEN"
    <3>1. SameData(k, [k1 EXCEPT !.bufStart = k.bufStart]) /\ k1.bufStart \in {k.bufStart, k.bufEnd}
      BY <1>6, <1>8, <1>10
    <3>2. Fine(e, k, j, p)
      BY <1>1, <1>8, <2>1, <2>3, <3>1, FallBackFine
    <3> HIDE DEF j
    <3> QED
      BY <1>4, <3>2, StepTransfer DEF k, p
  <2> QED
    BY <1>2, <1>14, <1>18, <2>2, <2>3
<1> QED
  BY <1>16, <1>17, <1>18

\* A SYN that is acceptable in TIME_WAIT would be new, or acknowledge something.
LEMMA ReceiveUnexpectedSynTransfer ==
  ASSUME TypeOK, TeardownInv, TransferInv, NEW e \in Endpoint, NEW s \in net[e],
         ReceiveUnexpectedSyn(e, s)
  PROVE  TransferInv' /\ Served(e)
<1> DEFINE k == conn[e]
           p == conn[Peer(e)]
           j == PerformStateTransition(
                  [Indicate(k, "CONNECTION_RESET") EXCEPT !.event = "RCV_UNEXP_SYN"])
<1>1. At(e, k, p) /\ k \in Connections /\ p \in Connections
      /\ s \in Segments /\ Sound(s, p, k.iss)
  BY TransferAt, SelfFine
<1>2. /\ k.fsm \in {"SYN_RCVD"} \cup Synchronized
      /\ Acceptable(k, s) /\ "SYN" \in s.flags /\ Take(e, s, j)
  BY DEF ReceiveUnexpectedSyn
<1> HIDE DEF k, p
<1>3. SendSide(k) /\ Application(k) /\ ReceiveSide(k, p)
  BY <1>1 DEF At, Sides
<1>4. k.fsm # "TIME_WAIT"
  <2> SUFFICES ASSUME k.fsm = "TIME_WAIT" PROVE FALSE
    OBVIOUS
  <2>1. Window(k) /\ k.fin_ack_rcvd
    BY <1>3 DEF SendSide, Synchronized, Closing
  <2>2. /\ k.snd_una = k.bufEnd + 1 /\ k.snd_una <= k.snd_nxt /\ k.snd_nxt <= k.snd_max
        /\ k.snd_max <= k.bufEnd + 1
    BY <2>1 DEF Window
  <2>3. p.iss < k.rcv_nxt
    BY <1>3 DEF ReceiveSide, Received, Opened, Synchronized, Closing
  <2>4. s.len = 0 /\ s.seq = p.iss
    BY <1>1, <1>2 DEF Sound
  <2>5. /\ k.snd_una \in Nat /\ k.snd_nxt \in Nat /\ k.snd_max \in Nat /\ k.bufEnd \in Nat
        /\ p.iss \in Nat /\ k.rcv_nxt \in Nat /\ s.ackNo \in Nat
    BY <1>1, Fields DEF Segments
  <2>6. ~AcceptableAck(k, s)
    BY <2>2, <2>5 DEF AcceptableAck
  <2> QED
    BY <1>2, <2>3, <2>4, <2>5, <2>6 DEF Acceptable
<1>5. k.fsm \notin {"INIT", "CLOSED", "TIME_WAIT"}
  BY <1>2, <1>4 DEF Synchronized, Closing
<1>6. "RCV_UNEXP_SYN" \in Event /\ "CONNECTION_RESET" \in Failure
  BY DEF Event, Failure
<1>7. Transition(k.fsm, "RCV_UNEXP_SYN", k.active) = "CLOSED"
  BY <1>1, <1>2, <1>6, Fields, TransitionTable
<1>8. Fine(e, k, j, p)
  BY <1>1, <1>3, <1>5, <1>6, <1>7, AtRemains, FailureFine
<1> HIDE DEF j
<1> QED
  BY <1>2, <1>8, StepTransfer DEF k, p
-----------------------------------------------------------------------------
(* Connection setup.                                                       *)

\* The SYN is out, or about to be sent: the send variables of the handshake.
Begun(j) ==
  /\ j \in Connections /\ ~j.fault
  /\ j.timers \cap {"REXMIT", "DELAYEDACK"} = {} /\ ~j.send_fin /\ ~j.fin_ack_rcvd
  /\ ~j.lossRecovery /\ j.bufStart = j.iss + 1 /\ j.bufStart <= j.bufEnd
  /\ j.snd_una = j.iss /\ j.snd_nxt = j.iss + 1 /\ j.snd_max = j.iss + 1

\* What the handshake does not change by sending.
Kept(k, j) ==
  /\ j.fsm = k.fsm /\ j.event = k.event /\ j.active = k.active /\ j.ind = k.ind
  /\ j.sockstate = k.sockstate /\ j.iss = k.iss /\ j.bufEnd = k.bufEnd
  /\ j.rcv_nxt = k.rcv_nxt /\ j.rcvQueue = k.rcvQueue /\ j.fin_rcvd = k.fin_rcvd
  /\ j.rcv_fin_seq = k.rcv_fin_seq /\ j.delivered = k.delivered

LEMMA KeptTransitive ==
  ASSUME NEW k, NEW j, NEW i, Kept(k, j), Kept(j, i)
  PROVE  Kept(k, i)
BY DEF Kept

LEMMA SetupTimerBegun ==
  ASSUME NEW k, Begun(k), NEW x \in SetupTimers
  PROVE  LET j == [k EXCEPT !.timers = @ \cup {x}]
         IN Begun(j) /\ Kept(k, j) /\ j.out = k.out
<1> DEFINE j == [k EXCEPT !.timers = @ \cup {x}]
<1>1. k \in Connections
  BY DEF Begun
<1>2. k.timers \cup {x} \in SUBSET Timer /\ x \notin {"REXMIT", "DELAYEDACK"}
  BY <1>1, Fields DEF Timer, SetupTimers
<1>3. j \in Connections
  BY <1>1, <1>2, SetState
<1>4. /\ j.iss = k.iss /\ j.snd_una = k.snd_una /\ j.snd_nxt = k.snd_nxt
      /\ j.snd_max = k.snd_max /\ j.bufStart = k.bufStart
      /\ j.send_fin = k.send_fin /\ j.fin_ack_rcvd = k.fin_ack_rcvd
      /\ j.lossRecovery = k.lossRecovery /\ j.fault = k.fault
      /\ Kept(k, j) /\ j.out = k.out /\ j.timers = k.timers \cup {x}
  BY <1>1 DEF Connections, Kept
<1> HIDE DEF j
<1>5. Begun(j)
  BY <1>2, <1>3, <1>4 DEF Begun, Kept
<1> QED
  BY <1>4, <1>5 DEF j

LEMMA ScheduleBegun ==
  ASSUME NEW k, Begun(k), NEW x \in SetupTimers, x \notin k.timers
  PROVE  LET j == Schedule(k, x)
         IN Begun(j) /\ Kept(k, j) /\ j.out = k.out
<1>1. k \in Connections /\ k.fault = FALSE
  BY Fields DEF Begun
<1>2. Assert(k, x \notin k.timers) = k
  BY <1>1 DEF Assert, Connections
<1>3. Schedule(k, x) = [k EXCEPT !.timers = @ \cup {x}]
  BY <1>2 DEF Schedule
<1> QED
  BY <1>3, SetupTimerBegun

LEMMA StartSynRexmitTimerBegun ==
  ASSUME NEW k, Begun(k)
  PROVE  LET j == StartSynRexmitTimer(k)
         IN Begun(j) /\ Kept(k, j) /\ j.out = k.out
<1> DEFINE a == Cancel(k, {"SYN_REXMIT"})
           b == Schedule(a, "SYN_REXMIT")
           d == [b EXCEPT !.syn_rexmit_count = 0]
<1>1. k \in Connections
  BY DEF Begun
<1>2. a \in Connections /\ a.timers = k.timers \ {"SYN_REXMIT"}
  BY <1>1, CancelSame
<1>3. /\ a.iss = k.iss /\ a.snd_una = k.snd_una /\ a.snd_nxt = k.snd_nxt
      /\ a.snd_max = k.snd_max /\ a.bufStart = k.bufStart
      /\ a.send_fin = k.send_fin /\ a.fin_ack_rcvd = k.fin_ack_rcvd
      /\ a.lossRecovery = k.lossRecovery /\ a.fault = k.fault
      /\ Kept(k, a) /\ a.out = k.out
  BY <1>1 DEF Connections, Kept, Cancel
<1> HIDE DEF a
<1>4. Begun(a) /\ "SYN_REXMIT" \notin a.timers
  BY <1>2, <1>3 DEF Begun, Kept
<1>5. Begun(b) /\ Kept(a, b) /\ b.out = a.out
  BY <1>4, ScheduleBegun DEF SetupTimers
<1> HIDE DEF b
<1>6. b \in Connections /\ d \in Connections
  BY <1>5, SetNat DEF Begun
<1>7. /\ d.iss = b.iss /\ d.snd_una = b.snd_una /\ d.snd_nxt = b.snd_nxt
      /\ d.snd_max = b.snd_max /\ d.bufStart = b.bufStart
      /\ d.send_fin = b.send_fin /\ d.fin_ack_rcvd = b.fin_ack_rcvd
      /\ d.lossRecovery = b.lossRecovery /\ d.fault = b.fault
      /\ Kept(b, d) /\ d.out = b.out /\ d.timers = b.timers
  BY <1>6 DEF Connections, Kept
<1> HIDE DEF d
<1>8. Begun(d)
  BY <1>5, <1>6, <1>7 DEF Begun, Kept
<1>9. Kept(k, d)
  BY <1>3, <1>5, <1>7, KeptTransitive
<1>10. StartSynRexmitTimer(k) = d
  BY DEF StartSynRexmitTimer, a, b, d
<1> QED
  BY <1>3, <1>5, <1>7, <1>8, <1>9, <1>10

\* The SYN of an end that has sent nothing, or sends the SYN again.
Syn(k)    == Segment({"SYN"}, k.iss, 0, 0)
SynAck(k) == Segment({"SYN", "ACK"}, k.iss, k.rcv_nxt, 0)

LEMMA SynSegments ==
  ASSUME NEW k \in Connections, NEW p \in Connections, NEW e, k.snd_max = k.iss + 1
  PROVE  /\ Syn(k) \in Segments /\ SynAck(k) \in Segments
         /\ e \in ActiveOpeners => Sound(Syn(k), k, p.iss) /\ Opens(Syn(k), e)
         /\ p.iss < k.rcv_nxt => Sound(SynAck(k), k, p.iss) /\ Opens(SynAck(k), e)
<1>1. k.iss \in Nat /\ k.rcv_nxt \in Nat
  BY Fields
<1>2. Syn(k) \in Segments /\ SynAck(k) \in Segments
  <2>1. {"SYN"} \in SUBSET Flag /\ {"SYN", "ACK"} \in SUBSET Flag
    BY DEF Flag
  <2> QED
    BY <1>1, <2>1, SegmentType DEF Syn, SynAck
<1>3. /\ Syn(k).flags = {"SYN"} /\ Syn(k).seq = k.iss /\ Syn(k).len = 0
      /\ SynAck(k).flags = {"SYN", "ACK"} /\ SynAck(k).seq = k.iss /\ SynAck(k).len = 0
      /\ SynAck(k).ackNo = k.rcv_nxt
  BY DEF Syn, SynAck, Segment
<1>4. k.iss < k.snd_max
  BY <1>1
<1> QED
  BY <1>1, <1>2, <1>3, <1>4 DEF Sound, Opens

LEMMA SendSynBegun ==
  ASSUME NEW k \in Connections, ~k.fault, ~k.send_fin, ~k.fin_ack_rcvd, ~k.lossRecovery,
         k.timers \cap {"REXMIT", "DELAYEDACK"} = {},
         k.bufStart = k.iss + 1, k.bufStart <= k.bufEnd, k.snd_una = k.iss
  PROVE  /\ LET j == SendSyn(k)
            IN Begun(j) /\ Kept(k, j) /\ j.out = k.out \cup {Syn(k)} /\ j.timers = k.timers
         /\ LET j == SendSynAck(k)
            IN Begun(j) /\ Kept(k, j) /\ j.out = k.out \cup {SynAck(k)} /\ j.timers = k.timers
<1> DEFINE a == [k EXCEPT !.snd_max = k.iss + 1, !.snd_nxt = k.iss + 1]
           s(x) == Emit(a, x)
<1>1. /\ a.iss = k.iss /\ a.snd_una = k.snd_una /\ a.snd_nxt = k.iss + 1
      /\ a.snd_max = k.iss + 1 /\ a.bufStart = k.bufStart
      /\ a.send_fin = k.send_fin /\ a.fin_ack_rcvd = k.fin_ack_rcvd
      /\ a.lossRecovery = k.lossRecovery /\ a.fault = k.fault
      /\ Kept(k, a) /\ a.out = k.out /\ a.timers = k.timers
  BY DEF Connections, Kept
<1>2. SendSyn(k) = s(Syn(k)) /\ SendSynAck(k) = AckSent(s(SynAck(k)))
  <2>1. a.rcv_nxt = k.rcv_nxt /\ a.iss = k.iss
    BY <1>1 DEF Kept
  <2> QED
    BY <2>1 DEF SendSyn, SendSynAck, Syn, SynAck
<1>3. SendSyn(k) \in Connections /\ SendSynAck(k) \in Connections
  BY SendSynType
<1>4. a \in Connections
  <2>1. k.iss + 1 \in Nat
    BY Fields
  <2>2. [k EXCEPT !.snd_max = k.iss + 1] \in Connections
    BY <2>1, SetNat
  <2>3. [[k EXCEPT !.snd_max = k.iss + 1] EXCEPT !.snd_nxt = k.iss + 1] \in Connections
    BY <2>1, <2>2, SetNat
  <2>4. a = [[k EXCEPT !.snd_max = k.iss + 1] EXCEPT !.snd_nxt = k.iss + 1]
    BY DEF Connections
  <2> QED
    BY <2>3, <2>4
<1> HIDE DEF a
<1>5. ASSUME NEW x
      PROVE  /\ s(x).iss = a.iss /\ s(x).snd_una = a.snd_una /\ s(x).snd_nxt = a.snd_nxt
             /\ s(x).snd_max = a.snd_max /\ s(x).bufStart = a.bufStart
             /\ s(x).send_fin = a.send_fin /\ s(x).fin_ack_rcvd = a.fin_ack_rcvd
             /\ s(x).lossRecovery = a.lossRecovery /\ s(x).fault = a.fault
             /\ Kept(a, s(x)) /\ s(x).out = a.out \cup {x} /\ s(x).timers = a.timers
  BY <1>4 DEF Emit, Connections, Kept
<1>6. Begun(SendSyn(k)) /\ Kept(k, SendSyn(k)) /\ SendSyn(k).out = k.out \cup {Syn(k)}
      /\ SendSyn(k).timers = k.timers
  <2> DEFINE j == s(Syn(k))
  <2>1. /\ j.iss = a.iss /\ j.snd_una = a.snd_una /\ j.snd_nxt = a.snd_nxt
        /\ j.snd_max = a.snd_max /\ j.bufStart = a.bufStart
        /\ j.send_fin = a.send_fin /\ j.fin_ack_rcvd = a.fin_ack_rcvd
        /\ j.lossRecovery = a.lossRecovery /\ j.fault = a.fault
        /\ Kept(a, j) /\ j.out = a.out \cup {Syn(k)} /\ j.timers = a.timers
    BY <1>5
  <2>2. j \in Connections
    BY <1>2, <1>3
  <2> HIDE DEF j, s
  <2>3. Kept(k, j)
    BY <1>1, <2>1, KeptTransitive
  <2>4. Begun(j)
    BY <1>1, <2>1, <2>2, <2>3 DEF Begun, Kept
  <2> QED
    BY <1>1, <1>2, <2>1, <2>3, <2>4 DEF j
<1>7. Begun(SendSynAck(k)) /\ Kept(k, SendSynAck(k))
      /\ SendSynAck(k).out = k.out \cup {SynAck(k)} /\ SendSynAck(k).timers = k.timers
  <2> DEFINE i == s(SynAck(k))
             j == AckSent(i)
  <2>1. /\ i.iss = a.iss /\ i.snd_una = a.snd_una /\ i.snd_nxt = a.snd_nxt
        /\ i.snd_max = a.snd_max /\ i.bufStart = a.bufStart
        /\ i.send_fin = a.send_fin /\ i.fin_ack_rcvd = a.fin_ack_rcvd
        /\ i.lossRecovery = a.lossRecovery /\ i.fault = a.fault
        /\ Kept(a, i) /\ i.out = a.out \cup {SynAck(k)} /\ i.timers = a.timers
    BY <1>5
  <2>2. i \in Connections
    <3>1. SynAck(k) \in Segments
      <4>1. {"SYN", "ACK"} \in SUBSET Flag /\ k.iss \in Nat /\ k.rcv_nxt \in Nat
        BY Fields DEF Flag
      <4> QED
        BY <4>1, SegmentType DEF SynAck
    <3> QED
      BY <1>4, <3>1, EmitType
  <2>3. j \in Connections
    BY <1>2, <1>3
  <2> HIDE DEF i
  <2>4. /\ j.iss = i.iss /\ j.snd_una = i.snd_una /\ j.snd_nxt = i.snd_nxt
        /\ j.snd_max = i.snd_max /\ j.bufStart = i.bufStart
        /\ j.send_fin = i.send_fin /\ j.fin_ack_rcvd = i.fin_ack_rcvd
        /\ j.lossRecovery = i.lossRecovery /\ j.fault = i.fault
        /\ Kept(i, j) /\ j.out = i.out /\ j.timers = i.timers \ {"DELAYEDACK"}
    BY <2>2 DEF AckSent, Cancel, Connections, Kept
  <2> HIDE DEF j
  <2>5. Kept(k, j)
    BY <1>1, <2>1, <2>4, KeptTransitive
  <2>6. j.timers = k.timers
    BY <1>1, <2>1, <2>4
  <2>7. Begun(j)
    BY <1>1, <2>1, <2>3, <2>4, <2>5, <2>6 DEF Begun, Kept
  <2> QED
    BY <1>1, <1>2, <2>1, <2>4, <2>5, <2>6, <2>7 DEF j, i
<1> QED
  BY <1>6, <1>7

\* The two ways into connection setup, and the way through it.
LEMMA BegunFine ==
  ASSUME NEW e, NEW c, NEW p, NEW r, At(e, c, p), c.fsm \in {"INIT", "LISTEN", "SYN_SENT"},
         Begun(r), r.iss = c.iss, r.bufEnd = c.bufEnd, c.rcv_nxt <= r.rcv_nxt, r.ind = <<>>,
         NEW t, t = Transition(r.fsm, r.event, r.active), t # r.fsm,
         \/ /\ t = "SYN_SENT" /\ r.sockstate = "CONNECTING" /\ e \in ActiveOpeners
            /\ r.rcv_nxt = 0 /\ r.delivered = 0 /\ r.rcvQueue = {} /\ ~r.fin_rcvd
         \/ /\ t = "SYN_RCVD" /\ r.sockstate \in {"CONNECTING", "LISTENING"}
            /\ IF r.active THEN Peer(e) \in ActiveOpeners ELSE e \in PassiveOpeners
            /\ r.rcv_nxt = p.iss + 1 /\ Received(r, p),
         \A s \in r.out : Sound(s, r, p.iss) /\ Opens(s, e)
  PROVE  Fine(e, c, PerformStateTransition(r), p)
<1> DEFINE j == PerformStateTransition(r)
<1>1. r \in Connections /\ c \in Connections /\ p \in Connections /\ SendSide(c) /\ Fresh(c)
  BY DEF Begun, At, Sides, SendSide, Unopened
<1>2. /\ c.snd_max <= c.iss + 1 /\ c.iss < c.bufEnd
  BY <1>1, Fields DEF Fresh, SendSide
<1>3. Telling(r, t) = <<>>
  BY DEF Telling
<1>4. /\ j \in Connections /\ SameData(r, j) /\ j.fsm = t
      /\ "REXMIT" \in j.timers <=> "REXMIT" \in r.timers
      /\ "DELAYEDACK" \in j.timers <=> "DELAYEDACK" \in r.timers
      /\ j.ind = r.ind /\ j.sockstate = r.sockstate
  BY <1>1, <1>3, TransitedData
<1> HIDE DEF j
<1>5. /\ j.iss = r.iss /\ j.snd_una = r.snd_una /\ j.snd_nxt = r.snd_nxt
      /\ j.snd_max = r.snd_max /\ j.bufStart = r.bufStart /\ j.bufEnd = r.bufEnd
      /\ j.send_fin = r.send_fin /\ j.fin_ack_rcvd = r.fin_ack_rcvd
      /\ j.lossRecovery = r.lossRecovery /\ j.active = r.active /\ j.fault = r.fault
      /\ j.rcv_nxt = r.rcv_nxt /\ j.rcvQueue = r.rcvQueue /\ j.fin_rcvd = r.fin_rcvd
      /\ j.rcv_fin_seq = r.rcv_fin_seq /\ j.delivered = r.delivered /\ j.out = r.out
  BY <1>4 DEF SameData, SameBounds
<1>6. t \in {"SYN_SENT", "SYN_RCVD"}
  OBVIOUS
<1>7. SendSide(j)
  <2>1. Fresh(j)
    BY <1>4, <1>5, <1>6 DEF Begun, Fresh
  <2> QED
    BY <1>2, <1>4, <1>5, <1>6, <2>1 DEF SendSide, Begun, Synchronized, Closing
<1>8. Application(j)
  BY <1>4, <1>6 DEF Application
<1>9. RoleFits(e, j)
  BY <1>4, <1>5 DEF RoleFits
<1>10. ReceiveSide(j, p)
  <2>1. Received(r, p) => Received(j, p)
    BY <1>5 DEF Received
  <2>2. p.iss + 1 # 0
    BY <1>1, Fields
  <2> QED
    BY <1>4, <1>5, <2>1, <2>2 DEF ReceiveSide, Opened, Synchronized, Closing
<1>11. Grown(c, j) /\ j.bufEnd = c.bufEnd
  <2>1. r.snd_max = c.iss + 1
    BY DEF Begun
  <2>2. c.bufEnd \in Nat
    BY <1>1, Fields
  <2> QED
    BY <1>2, <1>5, <2>1, <2>2 DEF Grown
<1>12. \A s \in j.out : Sound(s, j, p.iss) /\ Opens(s, e)
  BY <1>5 DEF Sound
<1>13. ~(j.snd_una > j.iss)
  BY <1>1, <1>5, Fields DEF Begun
<1>14. Serves(c, j)
  <2>1. c.ind = <<>>
    BY DEF At, Sides, Application
  <2>2. ~c.send_fin /\ ~j.send_fin
    BY <1>1, <1>5 DEF Fresh, Begun
  <2>3. c.send_fin \in BOOLEAN /\ j.send_fin \in BOOLEAN
    BY <1>1, <1>4, Fields
  <2> QED
    BY <1>4, <1>11, <2>1, <2>2, <2>3, ServesSilently
<1> QED
  BY <1>4, <1>7, <1>8, <1>9, <1>10, <1>11, <1>12, <1>13, <1>14 DEF Fine, j

\* The SYN is the first of the peer's stream that an end takes.
LEMMA SynTaken ==
  ASSUME NEW c \in Connections, NEW p \in Connections, ReceiveSide(c, p),
         c.fsm \in {"LISTEN", "SYN_SENT"}, p.iss < p.snd_max, p.iss < p.bufEnd,
         NEW r \in Connections, r.rcv_nxt = p.iss + 1, r.rcvQueue = {},
         r.fin_rcvd = c.fin_rcvd, r.rcv_fin_seq = c.rcv_fin_seq, r.delivered = c.delivered
  PROVE  Received(r, p) /\ c.rcv_nxt <= r.rcv_nxt
<1>1. /\ p.iss \in Nat /\ p.snd_max \in Nat /\ p.bufEnd \in Nat /\ c.rcv_nxt \in Nat
  BY Fields
<1>2. CASE c.rcv_nxt = 0
  <2>1. c.delivered = 0 /\ ~c.fin_rcvd
    BY <1>2 DEF ReceiveSide
  <2> QED
    BY <1>1, <1>2, <2>1 DEF Received
<1>3. CASE c.rcv_nxt # 0
  <2>1. c.rcv_nxt = p.iss + 1 /\ Received(c, p)
    BY <1>3 DEF ReceiveSide
  <2> QED
    BY <1>1, <2>1 DEF Received
<1> QED
  BY <1>2, <1>3

LEMMA SelectSame ==
  ASSUME NEW k \in Connections, Fresh(k)
  PROVE  LET j == SelectInitialSeqNum(k)
         IN /\ j \in Connections /\ j.bufStart = j.iss + 1 /\ j.bufStart <= j.bufEnd
            /\ j.snd_una = j.iss /\ j.iss = k.iss /\ j.bufEnd = k.iss + 1
            /\ j.fsm = k.fsm /\ j.event = k.event /\ j.active = k.active /\ j.ind = k.ind
            /\ j.sockstate = k.sockstate /\ j.rcv_nxt = k.rcv_nxt
            /\ j.rcvQueue = k.rcvQueue /\ j.fin_rcvd = k.fin_rcvd
            /\ j.rcv_fin_seq = k.rcv_fin_seq /\ j.delivered = k.delivered
            /\ j.out = k.out /\ j.timers = k.timers /\ j.fault = k.fault
            /\ j.send_fin = k.send_fin /\ j.fin_ack_rcvd = k.fin_ack_rcvd
            /\ j.lossRecovery = k.lossRecovery
<1> DEFINE j == SelectInitialSeqNum(k)
<1>1. j \in Connections /\ k.iss \in Nat
  BY SelectInitialSeqNumType, Fields
<1>2. /\ j.iss = k.iss /\ j.bufEnd = k.iss + 1 /\ j.bufStart = k.iss + 1 /\ j.snd_una = k.iss
      /\ j.fsm = k.fsm /\ j.event = k.event /\ j.active = k.active /\ j.ind = k.ind
      /\ j.sockstate = k.sockstate /\ j.rcv_nxt = k.rcv_nxt
      /\ j.rcvQueue = k.rcvQueue /\ j.fin_rcvd = k.fin_rcvd
      /\ j.rcv_fin_seq = k.rcv_fin_seq /\ j.delivered = k.delivered
      /\ j.out = k.out /\ j.timers = k.timers /\ j.fault = k.fault
      /\ j.send_fin = k.send_fin /\ j.fin_ack_rcvd = k.fin_ack_rcvd
      /\ j.lossRecovery = k.lossRecovery
  BY DEF SelectInitialSeqNum, Connections
<1> HIDE DEF j
<1>3. j.bufStart <= j.bufEnd
  BY <1>1, <1>2
<1> QED
  BY <1>1, <1>2, <1>3 DEF j

LEMMA OpenActiveTransfer ==
  ASSUME TypeOK, TeardownInv, TransferInv, NEW e \in Endpoint, OpenActive(e)
  PROVE  TransferInv' /\ Served(e)
<1> DEFINE c == conn[e]
           p == conn[Peer(e)]
           a0 == [c EXCEPT !.active = TRUE]
           a1 == [a0 EXCEPT !.sockstate = "CONNECTING"]
           k == [a1 EXCEPT !.event = "OPEN_ACTIVE"]
           k1 == SelectInitialSeqNum(k)
           k2 == SendSyn(k1)
           k3 == StartSynRexmitTimer(k2)
           r == Schedule(k3, "CONN_ESTAB")
           j == PerformStateTransition(r)
<1>1. At(e, c, p) /\ c \in Connections /\ p \in Connections /\ c.out = {}
  BY TransferAt, SelfFine
<1>2. k = [c EXCEPT !.active = TRUE, !.sockstate = "CONNECTING", !.event = "OPEN_ACTIVE"]
  BY <1>1 DEF Connections
<1>3. e \in ActiveOpeners /\ c.fsm = "INIT" /\ Do(e, j)
  <2>1. c.fsm = k.fsm
    BY <1>1 DEF Connections
  <2> QED
    BY <1>2, <2>1 DEF OpenActive
<1> HIDE DEF c, p
<1>4. SendSide(c) /\ Fresh(c) /\ Application(c) /\ ReceiveSide(c, p) /\ TimersMatch(c)
  BY <1>1, <1>3 DEF At, Sides, Base, SendSide, Unopened
<1>5. k \in Connections
  <2>1. a0 \in Connections
    BY <1>1, SetBoolean
  <2>2. a1 \in Connections
    BY <2>1, SetState DEF SockState
  <2> QED
    BY <2>2, SetState DEF Event
<1>6. /\ k.iss = c.iss /\ k.bufEnd = c.bufEnd /\ k.fsm = c.fsm /\ k.active = TRUE
      /\ k.event = "OPEN_ACTIVE" /\ k.ind = c.ind /\ k.sockstate = "CONNECTING"
      /\ k.rcv_nxt = c.rcv_nxt /\ k.rcvQueue = c.rcvQueue /\ k.fin_rcvd = c.fin_rcvd
      /\ k.rcv_fin_seq = c.rcv_fin_seq /\ k.delivered = c.delivered /\ k.out = c.out
      /\ k.timers = c.timers /\ k.fault = c.fault /\ k.send_fin = c.send_fin
      /\ k.fin_ack_rcvd = c.fin_ack_rcvd /\ k.lossRecovery = c.lossRecovery
      /\ k.bufStart = c.bufStart /\ k.snd_una = c.snd_una /\ k.snd_max = c.snd_max
      /\ k.snd_nxt = c.snd_nxt
  BY <1>1 DEF Connections
<1> HIDE DEF k
<1>7. Fresh(k)
  BY <1>3, <1>4, <1>6 DEF Fresh
<1>8. /\ k1 \in Connections /\ k1.bufStart = k1.iss + 1 /\ k1.bufStart <= k1.bufEnd
      /\ k1.snd_una = k1.iss /\ k1.iss = k.iss /\ k1.bufEnd = k.iss + 1
      /\ k1.fsm = k.fsm /\ k1.event = k.event /\ k1.active = k.active /\ k1.ind = k.ind
      /\ k1.sockstate = k.sockstate /\ k1.rcv_nxt = k.rcv_nxt
      /\ k1.rcvQueue = k.rcvQueue /\ k1.fin_rcvd = k.fin_rcvd
      /\ k1.rcv_fin_seq = k.rcv_fin_seq /\ k1.delivered = k.delivered
      /\ k1.out = k.out /\ k1.timers = k.timers /\ k1.fault = k.fault
      /\ k1.send_fin = k.send_fin /\ k1.fin_ack_rcvd = k.fin_ack_rcvd
      /\ k1.lossRecovery = k.lossRecovery
  BY <1>5, <1>7, SelectSame
<1> HIDE DEF k1
<1>9. /\ ~k1.fault /\ ~k1.send_fin /\ ~k1.fin_ack_rcvd /\ ~k1.lossRecovery
      /\ k1.timers \cap {"REXMIT", "DELAYEDACK"} = {}
  BY <1>4, <1>6, <1>8 DEF SendSide, Fresh
<1>10. Begun(k2) /\ Kept(k1, k2) /\ k2.out = {Syn(k1)} /\ k2.timers = k1.timers
  BY <1>1, <1>6, <1>8, <1>9, SendSynBegun
<1> HIDE DEF k2
<1>11. Begun(k3) /\ Kept(k2, k3) /\ k3.out = k2.out
  BY <1>10, StartSynRexmitTimerBegun
<1>12. "CONN_ESTAB" \notin k3.timers
  <2>1. SetupTimers \cap c.timers = {}
    BY <1>3, <1>4 DEF TimersMatch
  <2>2. k2 \in Connections
    BY <1>10 DEF Begun
  <2>3. k3.timers = k2.timers \cup {"SYN_REXMIT"}
    BY <2>2, StartSynRexmitTimerSame
  <2> QED
    BY <1>6, <1>8, <1>10, <2>1, <2>3 DEF SetupTimers
<1> HIDE DEF k3
<1>13. Begun(r) /\ Kept(k3, r) /\ r.out = k3.out
  BY <1>11, <1>12, ScheduleBegun DEF SetupTimers
<1> HIDE DEF r
<1>14. Kept(k1, r)
  BY <1>10, <1>11, <1>13, KeptTransitive
<1>15. /\ r.iss = c.iss /\ r.bufEnd = c.bufEnd /\ r.rcv_nxt = 0 /\ c.rcv_nxt = 0
       /\ r.ind = <<>> /\ r.fsm = "INIT" /\ r.event = "OPEN_ACTIVE"
       /\ r.sockstate = "CONNECTING" /\ r.delivered = 0 /\ r.rcvQueue = {} /\ ~r.fin_rcvd
  <2>1. c.bufEnd = c.iss + 1 /\ c.ind = <<>>
    BY <1>3, <1>4 DEF Fresh, Application
  <2>2. c.rcv_nxt = 0 /\ c.delivered = 0 /\ c.rcvQueue = {} /\ ~c.fin_rcvd
    BY <1>3, <1>4 DEF ReceiveSide
  <2> QED
    BY <1>3, <1>6, <1>8, <1>14, <2>1, <2>2 DEF Kept
<1>16. Transition(r.fsm, r.event, r.active) = "SYN_SENT"
  <2>1. r.active \in BOOLEAN /\ "INIT" \in State /\ "OPEN_ACTIVE" \in Event
    BY <1>13, Fields DEF Begun, State, Event
  <2> QED
    BY <1>15, <2>1, TransitionTable
<1>17. \A s \in r.out : Sound(s, r, p.iss) /\ Opens(s, e)
  <2>1. r \in Connections /\ r.snd_max = r.iss + 1
    BY <1>13 DEF Begun
  <2>2. Syn(r) = Syn(k1)
    BY <1>14 DEF Syn, Kept
  <2> QED
    BY <1>1, <1>3, <1>10, <1>11, <1>13, <2>1, <2>2, SynSegments
<1>18. Fine(e, c, j, p)
  <2>1. c.rcv_nxt <= r.rcv_nxt
    BY <1>15
  <2>2. "SYN_SENT" # r.fsm
    BY <1>15
  <2> QED
    BY <1>1, <1>3, <1>13, <1>15, <1>16, <1>17, <2>1, <2>2, BegunFine
<1> HIDE DEF j
<1> QED
  BY <1>3, <1>18, StepTransfer DEF c, p

LEMMA OpenPassiveTransfer ==
  ASSUME TypeOK, TeardownInv, TransferInv, NEW e \in Endpoint, OpenPassive(e)
  PROVE  TransferInv' /\ Served(e)
<1> DEFINE c == conn[e]
           p == conn[Peer(e)]
           a0 == [c EXCEPT !.active = FALSE]
           a1 == [a0 EXCEPT !.sockstate = "LISTENING"]
           k == [a1 EXCEPT !.event = "OPEN_PASSIVE"]
           j == PerformStateTransition(k)
<1>1. At(e, c, p) /\ c \in Connections /\ p \in Connections /\ c.out = {}
  BY TransferAt, SelfFine
<1>2. k = [c EXCEPT !.active = FALSE, !.sockstate = "LISTENING", !.event = "OPEN_PASSIVE"]
  BY <1>1 DEF Connections
<1>3. e \in PassiveOpeners /\ c.fsm = "INIT" /\ Do(e, j)
  <2>1. c.fsm = k.fsm
    BY <1>1 DEF Connections
  <2> QED
    BY <1>2, <2>1 DEF OpenPassive
<1> HIDE DEF c, p
<1>4. SendSide(c) /\ Fresh(c) /\ Application(c) /\ ReceiveSide(c, p)
  BY <1>1, <1>3 DEF At, Sides, SendSide, Unopened
<1>5. k \in Connections
  <2>1. a0 \in Connections
    BY <1>1, SetBoolean
  <2>2. a1 \in Connections
    BY <2>1, SetState DEF SockState
  <2> QED
    BY <2>2, SetState DEF Event
<1>6. /\ SameBounds(c, k) /\ k.fsm = "INIT" /\ k.active = FALSE
      /\ k.event = "OPEN_PASSIVE" /\ k.ind = c.ind /\ k.sockstate = "LISTENING"
      /\ k.rcv_nxt = c.rcv_nxt /\ k.rcvQueue = c.rcvQueue /\ k.fin_rcvd = c.fin_rcvd
      /\ k.delivered = c.delivered /\ k.out = c.out /\ k.timers = c.timers
      /\ k.fault = c.fault
  BY <1>1, <1>3 DEF Connections, SameBounds
<1> HIDE DEF k
<1>7. Transition(k.fsm, k.event, k.active) = "LISTEN"
  <2>1. k.active \in BOOLEAN /\ "INIT" \in State /\ "OPEN_PASSIVE" \in Event
    BY <1>5, Fields DEF State, Event
  <2> QED
    BY <1>6, <2>1, TransitionTable
<1>8. Telling(k, "LISTEN") = <<>>
  BY DEF Telling
<1>9. /\ j \in Connections /\ SameData(k, j) /\ j.fsm = "LISTEN"
      /\ "REXMIT" \in j.timers <=> "REXMIT" \in k.timers /\ ("LISTEN" # "CLOSED" \/ "LISTEN" = k.fsm)
      /\ "DELAYEDACK" \in j.timers
                 <=> "DELAYEDACK" \in k.timers /\ ("LISTEN" # "CLOSED" \/ "LISTEN" = k.fsm)
      /\ j.ind = k.ind /\ j.sockstate = k.sockstate
  BY <1>5, <1>7, <1>8, TransitedData
<1> HIDE DEF j
<1>10. SameBounds(c, j) /\ j.fault = c.fault /\ j.out = {}
       /\ j.rcv_nxt = 0 /\ j.delivered = 0 /\ j.rcvQueue = {} /\ ~j.fin_rcvd
  <2>1. c.rcv_nxt = 0 /\ c.delivered = 0 /\ c.rcvQueue = {} /\ ~c.fin_rcvd
    BY <1>3, <1>4 DEF ReceiveSide
  <2> QED
    BY <1>1, <1>6, <1>9, <2>1 DEF SameBounds, SameData
<1>11. SendSide(j)
  <2>1. j.timers \cap {"REXMIT", "DELAYEDACK"} = {}
    BY <1>4, <1>6, <1>9 DEF Fresh
  <2>2. Fresh(j)
    BY <1>3, <1>4, <1>9, <1>10, <2>1 DEF Fresh, SameBounds
  <2>3. ~j.fault /\ j.iss < j.bufEnd
    BY <1>4, <1>10 DEF SendSide, SameBounds
  <2> QED
    BY <1>9, <2>2, <2>3 DEF SendSide, Synchronized, Closing
<1>12. Application(j)
  <2>1. c.ind = <<>>
    BY <1>3, <1>4 DEF Application
  <2> QED
    BY <1>6, <1>9, <2>1 DEF Application
<1>13. ReceiveSide(j, p)
  BY <1>9, <1>10 DEF ReceiveSide, Opened, Synchronized, Closing
<1>14. Fine(e, c, j, p)
  <2>1. RoleFits(e, j)
    BY <1>3, <1>9 DEF RoleFits
  <2>2. j.snd_una = j.iss /\ j.iss \in Nat
    BY <1>4, <1>9, <1>10, Fields DEF SameBounds, Fresh
  <2>3. Grown(c, j) /\ j.bufEnd = c.bufEnd
    <3>1. c.rcv_nxt = 0 /\ c.snd_max \in Nat /\ c.bufEnd \in Nat
      BY <1>1, <1>3, <1>4, Fields DEF ReceiveSide
    <3> QED
      BY <1>10, <3>1 DEF Grown, SameBounds
  <2>4. Serves(c, j)
    BY <1>6, <1>9, <1>10, <2>3, ServesSilently DEF SameBounds
  <2> QED
    BY <1>9, <1>10, <1>11, <1>12, <1>13, <2>1, <2>2, <2>3, <2>4 DEF Fine
<1> QED
  BY <1>3, <1>14, StepTransfer DEF c, p

\* A passive end takes the SYN of an end that opens.
LEMMA ReceiveInListenTransfer ==
  ASSUME TypeOK, TeardownInv, TransferInv, NEW e \in Endpoint, NEW s \in net[e],
         ReceiveInListen(e, s)
  PROVE  TransferInv' /\ Served(e)
<1> DEFINE c  == conn[e]
           p  == conn[Peer(e)]
           n  == [c EXCEPT !.rcv_nxt = s.seq + 1]
           k  == [n EXCEPT !.rcvQueue = {}]
           k1 == SelectInitialSeqNum(k)
           a  == SendSynAck(k1)
           k2 == StartSynRexmitTimer(a)
           b  == [k2 EXCEPT !.timers = @ \cup {"CONN_ESTAB"}]
           k3 == [b EXCEPT !.event = "RCV_SYN"]
           r  == CASE "RST" \in s.flags -> c
                   [] s.flags \cap {"RST", "ACK"} = {"ACK"} -> SendRst(c, s.ackNo)
                   [] s.flags \cap {"RST", "ACK", "SYN"} = {"SYN"}
                        -> PerformStateTransition(k3)
                   [] OTHER -> c
<1>1. At(e, c, p) /\ c \in Connections /\ p \in Connections /\ c.out = {} /\ Fine(e, c, c, p)
      /\ s \in Segments /\ Sound(s, p, c.iss) /\ Opens(s, Peer(e))
  BY TransferAt, SelfFine
<1>2. s.seq + 1 \in Nat /\ s.ackNo \in Nat
  BY <1>1 DEF Segments
<1>3. k = [c EXCEPT !.rcv_nxt = s.seq + 1, !.rcvQueue = {}]
  BY <1>1 DEF Connections
<1>4. k3 = [k2 EXCEPT !.timers = @ \cup {"CONN_ESTAB"}, !.event = "RCV_SYN"]
  <2>1. n \in Connections
    BY <1>1, <1>2, SetNat
  <2>2. k \in Connections
    BY <2>1, SetState
  <2> HIDE DEF k
  <2>3. a \in Connections
    BY <2>2, SelectInitialSeqNumType, SendSynType
  <2> HIDE DEF a
  <2>4. k2 \in Connections
    BY <2>3, StartSynRexmitTimerType
  <2> HIDE DEF k2
  <2> QED
    BY <2>4 DEF Connections
<1>5. c.fsm = "LISTEN" /\ Take(e, s, r)
  BY <1>3, <1>4 DEF ReceiveInListen
<1> HIDE DEF c, p
<1>6. CASE s.flags \cap {"RST", "ACK", "SYN"} = {"SYN"}
  <2>1. "SYN" \in s.flags /\ "ACK" \notin s.flags /\ "RST" \notin s.flags
    BY <1>6
  <2>2. s.seq = p.iss /\ p.iss < p.snd_max /\ Peer(e) \in ActiveOpeners
    BY <1>1, <2>1 DEF Sound, Opens
  <2>3. r = PerformStateTransition(k3)
    BY <1>6, <2>1
  <2>4. SendSide(c) /\ Fresh(c) /\ Application(c) /\ ReceiveSide(c, p) /\ p.iss < p.bufEnd
        /\ e \in PassiveOpeners
    BY <1>1, <1>5 DEF At, Sides, SendSide, Unopened, RoleFits
  <2>5. k \in Connections
    <3>1. n \in Connections
      BY <1>1, <1>2, SetNat
    <3> QED
      BY <3>1, SetState
  <2>6. /\ k.iss = c.iss /\ k.bufEnd = c.bufEnd /\ k.fsm = c.fsm /\ k.active = c.active
        /\ k.event = c.event /\ k.ind = c.ind /\ k.sockstate = c.sockstate
        /\ k.rcv_nxt = s.seq + 1 /\ k.rcvQueue = {} /\ k.fin_rcvd = c.fin_rcvd
        /\ k.rcv_fin_seq = c.rcv_fin_seq /\ k.delivered = c.delivered /\ k.out = c.out
        /\ k.timers = c.timers /\ k.fault = c.fault /\ k.send_fin = c.send_fin
        /\ k.fin_ack_rcvd = c.fin_ack_rcvd /\ k.lossRecovery = c.lossRecovery
        /\ k.bufStart = c.bufStart /\ k.snd_una = c.snd_una /\ k.snd_max = c.snd_max
        /\ k.snd_nxt = c.snd_nxt
    BY <1>1 DEF Connections
  <2> HIDE DEF k
  <2>7. Fresh(k)
    BY <1>5, <2>4, <2>6 DEF Fresh
  <2>8. /\ k1 \in Connections /\ k1.bufStart = k1.iss + 1 /\ k1.bufStart <= k1.bufEnd
        /\ k1.snd_una = k1.iss /\ k1.iss = k.iss /\ k1.bufEnd = k.iss + 1
        /\ k1.fsm = k.fsm /\ k1.event = k.event /\ k1.active = k.active /\ k1.ind = k.ind
        /\ k1.sockstate = k.sockstate /\ k1.rcv_nxt = k.rcv_nxt
        /\ k1.rcvQueue = k.rcvQueue /\ k1.fin_rcvd = k.fin_rcvd
        /\ k1.rcv_fin_seq = k.rcv_fin_seq /\ k1.delivered = k.delivered
        /\ k1.out = k.out /\ k1.timers = k.timers /\ k1.fault = k.fault
        /\ k1.send_fin = k.send_fin /\ k1.fin_ack_rcvd = k.fin_ack_rcvd
        /\ k1.lossRecovery = k.lossRecovery
    BY <2>5, <2>7, SelectSame
  <2> HIDE DEF k1
  <2>9. /\ ~k1.fault /\ ~k1.send_fin /\ ~k1.fin_ack_rcvd /\ ~k1.lossRecovery
        /\ k1.timers \cap {"REXMIT", "DELAYEDACK"} = {}
    BY <2>4, <2>6, <2>8 DEF SendSide, Fresh
  <2>10. Begun(a) /\ Kept(k1, a) /\ a.out = k1.out \cup {SynAck(k1)} /\ a.timers = k1.timers
    BY <2>8, <2>9, SendSynBegun
  <2> HIDE DEF a
  <2>11. Begun(k2) /\ Kept(a, k2) /\ k2.out = a.out
    BY <2>10, StartSynRexmitTimerBegun
  <2> HIDE DEF k2
  <2>12. Begun(b) /\ Kept(k2, b) /\ b.out = k2.out
    BY <2>11, SetupTimerBegun DEF SetupTimers
  <2> HIDE DEF b
  <2>13. Kept(k1, b)
    BY <2>10, <2>11, <2>12, KeptTransitive
  <2>14. k3 \in Connections
    BY <2>12, SetState DEF Begun, Event
  <2>15. /\ k3.fsm = b.fsm /\ k3.event = "RCV_SYN" /\ k3.active = b.active /\ k3.ind = b.ind
         /\ k3.sockstate = b.sockstate /\ k3.iss = b.iss /\ k3.bufEnd = b.bufEnd
         /\ k3.rcv_nxt = b.rcv_nxt /\ k3.rcvQueue = b.rcvQueue /\ k3.fin_rcvd = b.fin_rcvd
         /\ k3.rcv_fin_seq = b.rcv_fin_seq /\ k3.delivered = b.delivered
         /\ k3.out = b.out /\ k3.fault = b.fault /\ k3.timers = b.timers
         /\ k3.send_fin = b.send_fin /\ k3.fin_ack_rcvd = b.fin_ack_rcvd
         /\ k3.lossRecovery = b.lossRecovery /\ k3.bufStart = b.bufStart
         /\ k3.snd_una = b.snd_una /\ k3.snd_nxt = b.snd_nxt /\ k3.snd_max = b.snd_max
    BY <2>12 DEF Begun, Connections
  <2> HIDE DEF k3
  <2>16. Begun(k3)
    BY <2>12, <2>14, <2>15 DEF Begun
  <2>17. /\ k3.iss = c.iss /\ k3.bufEnd = c.bufEnd /\ k3.rcv_nxt = p.iss + 1
         /\ k3.ind = <<>> /\ k3.fsm = "LISTEN" /\ k3.sockstate = "LISTENING"
         /\ k3.rcvQueue = {} /\ k3.fin_rcvd = c.fin_rcvd /\ k3.rcv_fin_seq = c.rcv_fin_seq
         /\ k3.delivered = c.delivered /\ k3.active = c.active
         /\ k3.out = {SynAck(k1)}
    <3>1. c.bufEnd = c.iss + 1 /\ c.ind = <<>> /\ c.sockstate = "LISTENING"
      BY <1>5, <2>4 DEF Fresh, Application
    <3> QED
      BY <1>1, <1>5, <2>2, <2>6, <2>8, <2>10, <2>11, <2>12, <2>13, <2>15, <3>1 DEF Kept
  <2>18. Received(k3, p) /\ c.rcv_nxt <= k3.rcv_nxt
    BY <1>1, <1>5, <2>2, <2>4, <2>14, <2>17, SynTaken
  <2>19. Transition(k3.fsm, k3.event, k3.active) = "SYN_RCVD"
    <3>1. k3.active \in BOOLEAN /\ "LISTEN" \in State /\ "RCV_SYN" \in Event
      BY <2>14, Fields DEF State, Event
    <3> QED
      BY <2>15, <2>17, <3>1, TransitionTable
  <2>20. \A x \in k3.out : Sound(x, k3, p.iss) /\ Opens(x, e)
    <3>1. k3.snd_max = k3.iss + 1 /\ p.iss \in Nat
      BY <1>1, <2>16, Fields DEF Begun
    <3>2. SynAck(k3) = SynAck(k1) /\ p.iss < k3.rcv_nxt
      BY <2>13, <2>15, <2>17, <3>1 DEF SynAck, Kept
    <3> QED
      BY <1>1, <2>14, <2>17, <3>1, <3>2, SynSegments
  <2>21. Fine(e, c, r, p)
    <3>1. IF k3.active THEN Peer(e) \in ActiveOpeners ELSE e \in PassiveOpeners
      BY <2>2, <2>4
    <3>2. "SYN_RCVD" # k3.fsm /\ k3.sockstate \in {"CONNECTING", "LISTENING"}
      BY <2>17
    <3>3. Fine(e, c, PerformStateTransition(k3), p)
      BY <1>1, <1>5, <2>16, <2>17, <2>18, <2>19, <2>20, <3>1, <3>2, BegunFine
    <3> QED
      BY <2>3, <3>3
  <2> HIDE DEF r
  <2> QED
    BY <1>5, <2>21, StepTransfer DEF c, p
<1>7. CASE s.flags \cap {"RST", "ACK", "SYN"} # {"SYN"}
  <2>1. r = c \/ r = SendRst(c, s.ackNo)
    BY <1>7
  <2>2. Fine(e, c, r, p)
    BY <1>1, <1>2, <2>1, RstFine
  <2> HIDE DEF r
  <2> QED
    BY <1>5, <2>2, StepTransfer DEF c, p
<1> QED
  BY <1>6, <1>7

LEMMA EstablishedActiveSends ==
  ASSUME NEW k \in Connections, NEW w \in Nat, Window(k), Armed(k)
  PROVE  LET j == EstablishedActive(k, w)
         IN Sends(k, j) /\ Window(j) /\ Armed(j)
<1> DEFINE k1 == SendData(k, w)
           j  == EstablishedActive(k, w)
<1>1. Sends(k, k1) /\ Window(k1) /\ Armed(k1) /\ k1 \in Connections
  BY SendDataSends DEF Sends
<1>2. j = IF k1.out = k.out THEN SendAck(k1) ELSE k1
  BY DEF EstablishedActive
<1> HIDE DEF k1, j
<1>3. Sends(k1, SendAck(k1)) /\ SameWindow(k1, SendAck(k1))
  BY <1>1, SendAckSends
<1>4. Sends(k, SendAck(k1)) /\ Window(SendAck(k1)) /\ Armed(SendAck(k1))
  BY <1>1, <1>3, SendsTransitive, SameWindowKept
<1> QED
  BY <1>1, <1>2, <1>4 DEF j

\* What the SYN of a segment does to an end that has sent its own.
LEMMA SynSentTakes ==
  ASSUME NEW c \in Connections, NEW p \in Connections, NEW s \in Segments, ReceiveSide(c, p),
         c.fsm = "SYN_SENT", "SYN" \in s.flags, Sound(s, p, c.iss), p.iss < p.bufEnd
  PROVE  LET n == [c EXCEPT !.rcv_nxt = s.seq + 1]
             k == [n EXCEPT !.rcvQueue = {}]
         IN /\ k = [c EXCEPT !.rcv_nxt = s.seq + 1, !.rcvQueue = {}] /\ k \in Connections
            /\ k.fsm = c.fsm /\ k.event = c.event /\ k.active = c.active /\ k.ind = c.ind
            /\ k.sockstate = c.sockstate /\ k.iss = c.iss /\ k.bufEnd = c.bufEnd
            /\ k.rcv_nxt = p.iss + 1 /\ k.rcvQueue = {} /\ k.fin_rcvd = c.fin_rcvd
            /\ k.rcv_fin_seq = c.rcv_fin_seq /\ k.delivered = c.delivered
            /\ k.out = c.out /\ k.timers = c.timers /\ k.fault = c.fault
            /\ k.send_fin = c.send_fin /\ k.fin_ack_rcvd = c.fin_ack_rcvd
            /\ k.lossRecovery = c.lossRecovery /\ k.bufStart = c.bufStart
            /\ k.snd_una = c.snd_una /\ k.snd_max = c.snd_max /\ k.snd_nxt = c.snd_nxt
            /\ Received(k, p) /\ c.rcv_nxt <= k.rcv_nxt
<1> DEFINE n == [c EXCEPT !.rcv_nxt = s.seq + 1]
           k == [n EXCEPT !.rcvQueue = {}]
<1>1. s.seq = p.iss /\ p.iss < p.snd_max /\ s.seq + 1 \in Nat
  BY DEF Sound, Segments
<1>2. k \in Connections
  <2>1. n \in Connections
    BY <1>1, SetNat
  <2> QED
    BY <2>1, SetState
<1>3. /\ k = [c EXCEPT !.rcv_nxt = s.seq + 1, !.rcvQueue = {}]
      /\ k.fsm = c.fsm /\ k.event = c.event /\ k.active = c.active /\ k.ind = c.ind
      /\ k.sockstate = c.sockstate /\ k.iss = c.iss /\ k.bufEnd = c.bufEnd
      /\ k.rcv_nxt = s.seq + 1 /\ k.rcvQueue = {} /\ k.fin_rcvd = c.fin_rcvd
      /\ k.rcv_fin_seq = c.rcv_fin_seq /\ k.delivered = c.delivered
      /\ k.out = c.out /\ k.timers = c.timers /\ k.fault = c.fault
      /\ k.send_fin = c.send_fin /\ k.fin_ack_rcvd = c.fin_ack_rcvd
      /\ k.lossRecovery = c.lossRecovery /\ k.bufStart = c.bufStart
      /\ k.snd_una = c.snd_una /\ k.snd_max = c.snd_max /\ k.snd_nxt = c.snd_nxt
  BY DEF Connections
<1> HIDE DEF k
<1>4. k.rcv_nxt = p.iss + 1
  BY <1>1, <1>3
<1>5. Received(k, p) /\ c.rcv_nxt <= k.rcv_nxt
  BY <1>1, <1>2, <1>3, <1>4, SynTaken
<1> QED
  BY <1>2, <1>3, <1>4, <1>5 DEF k

\* The SYN+ACK opens the connection, and what is queued may go.
LEMMA SynAckFine ==
  ASSUME NEW e, NEW c, NEW p, NEW s \in Segments, NEW w \in Nat, At(e, c, p),
         c.fsm = "SYN_SENT", Sound(s, p, c.iss), "SYN" \in s.flags, "ACK" \in s.flags,
         s.ackNo <= c.snd_nxt
  PROVE  Fine(e, c, PerformStateTransition(ProcessSynInSynSent(c, s, w)), p)
<1> DEFINE n  == [c EXCEPT !.rcv_nxt = s.seq + 1]
           k1 == [n EXCEPT !.rcvQueue = {}]
           a0 == Assert(k1, TRUE)
           a1 == [a0 EXCEPT !.snd_una = s.ackNo]
           a2 == [a1 EXCEPT !.bufStart = s.ackNo]
           k2 == [a2 EXCEPT !.ack_now = TRUE]
           k3 == EstablishedActive(k2, w)
           k4 == Indicate(k3, "ESTABLISHED")
           r  == [k4 EXCEPT !.event = "RCV_SYN_ACK"]
           j  == PerformStateTransition(r)
<1>1. /\ c \in Connections /\ p \in Connections /\ c.out = {}
      /\ SendSide(c) /\ Fresh(c) /\ Application(c) /\ ReceiveSide(c, p) /\ p.iss < p.bufEnd
  BY SelfFine DEF At, Sides, SendSide, Unopened
<1>2. /\ k1 = [c EXCEPT !.rcv_nxt = s.seq + 1, !.rcvQueue = {}] /\ k1 \in Connections
      /\ k1.fsm = c.fsm /\ k1.event = c.event /\ k1.active = c.active /\ k1.ind = c.ind
      /\ k1.sockstate = c.sockstate /\ k1.iss = c.iss /\ k1.bufEnd = c.bufEnd
      /\ k1.rcv_nxt = p.iss + 1 /\ k1.rcvQueue = {} /\ k1.fin_rcvd = c.fin_rcvd
      /\ k1.rcv_fin_seq = c.rcv_fin_seq /\ k1.delivered = c.delivered
      /\ k1.out = c.out /\ k1.timers = c.timers /\ k1.fault = c.fault
      /\ k1.send_fin = c.send_fin /\ k1.fin_ack_rcvd = c.fin_ack_rcvd
      /\ k1.lossRecovery = c.lossRecovery /\ k1.bufStart = c.bufStart
      /\ k1.snd_una = c.snd_una /\ k1.snd_max = c.snd_max /\ k1.snd_nxt = c.snd_nxt
      /\ Received(k1, p) /\ c.rcv_nxt <= k1.rcv_nxt
  BY <1>1, SynSentTakes, Zenon
<1>3. /\ c.iss \in Nat /\ c.bufEnd \in Nat /\ p.rcv_nxt \in Nat /\ s.ackNo \in Nat
      /\ c.snd_una = c.iss /\ c.snd_nxt = c.iss + 1 /\ c.snd_max = c.iss + 1
      /\ c.bufStart = c.iss + 1 /\ c.bufStart <= c.bufEnd
      /\ ~c.send_fin /\ ~c.fin_ack_rcvd /\ ~c.lossRecovery /\ "REXMIT" \notin c.timers
      /\ ~c.fault /\ c.ind = <<>>
  BY <1>1, Fields DEF Fresh, SendSide, Segments, Application
<1>4. s.ackNo = c.iss + 1 /\ s.ackNo <= p.rcv_nxt
  BY <1>3 DEF Sound
<1>5. c.bufStart <= s.ackNo /\ s.ackNo <= c.bufEnd
  BY <1>3, <1>4
<1>6. ProcessSynInSynSent(c, s, w) = r
  <2>1. k2 = [a0 EXCEPT !.snd_una = s.ackNo, !.bufStart = s.ackNo, !.ack_now = TRUE]
    <3>1. a0 \in Connections
      BY <1>2, AssertType
    <3> HIDE DEF a0
    <3> QED
      BY <3>1 DEF Connections
  <2>2. Assert(k1, c.bufStart <= s.ackNo /\ s.ackNo <= c.bufEnd) = a0
    BY <1>5
  <2> HIDE DEF k1, a0, k2
  <2>3. k2 = [Assert(k1, c.bufStart <= s.ackNo /\ s.ackNo <= c.bufEnd) EXCEPT
               !.snd_una = s.ackNo, !.bufStart = s.ackNo, !.ack_now = TRUE]
    BY <2>1, <2>2
  <2> QED
    BY <1>2, <2>3 DEF ProcessSynInSynSent
<1> HIDE DEF k1
<1>7. k2 \in Connections
  <2>1. a0 \in Connections
    BY <1>2, AssertType
  <2> HIDE DEF a0
  <2>2. a1 \in Connections
    BY <1>3, <2>1, SetNat
  <2> HIDE DEF a1
  <2>3. a2 \in Connections
    BY <1>3, <2>2, SetNat
  <2> HIDE DEF a2
  <2> QED
    BY <2>3, SetBoolean
<1>8. /\ k2.iss = k1.iss /\ k2.bufEnd = k1.bufEnd /\ k2.fsm = k1.fsm
      /\ k2.active = k1.active /\ k2.ind = k1.ind /\ k2.sockstate = k1.sockstate
      /\ k2.snd_una = s.ackNo /\ k2.bufStart = s.ackNo /\ k2.snd_nxt = k1.snd_nxt
      /\ k2.snd_max = k1.snd_max /\ k2.send_fin = k1.send_fin
      /\ k2.fin_ack_rcvd = k1.fin_ack_rcvd /\ k2.lossRecovery = k1.lossRecovery
      /\ k2.fault = k1.fault /\ k2.out = k1.out /\ k2.timers = k1.timers
      /\ k2.rcv_nxt = k1.rcv_nxt /\ k2.rcvQueue = k1.rcvQueue /\ k2.delivered = k1.delivered
      /\ k2.fin_rcvd = k1.fin_rcvd /\ k2.rcv_fin_seq = k1.rcv_fin_seq
  <2>1. k1.fault \in BOOLEAN
    BY <1>2, Fields
  <2> QED
    BY <1>2, <2>1 DEF Connections, Assert
<1> HIDE DEF k2
<1>9. Window(k2) /\ Armed(k2)
  <2>1. /\ k2.snd_una = c.iss + 1 /\ k2.snd_nxt = c.iss + 1 /\ k2.snd_max = c.iss + 1
        /\ k2.bufStart = c.iss + 1 /\ k2.bufEnd = c.bufEnd /\ k2.iss = c.iss
        /\ ~k2.send_fin /\ ~k2.fin_ack_rcvd /\ ~k2.lossRecovery /\ "REXMIT" \notin k2.timers
    BY <1>2, <1>3, <1>4, <1>8
  <2> QED
    BY <1>3, <2>1 DEF Window, Armed
<1>10. Chain(k2, c, p)
  <2>1. Received(k2, p)
    BY <1>2, <1>8 DEF Received
  <2>2. Grown(c, k2)
    BY <1>2, <1>3, <1>8 DEF Grown
  <2>3. c.snd_una <= k2.snd_una /\ k2.snd_una <= p.rcv_nxt /\ ~k2.fault /\ k2.out = {}
    BY <1>1, <1>2, <1>3, <1>4, <1>8
  <2> QED
    BY <1>2, <1>7, <1>8, <2>1, <2>2, <2>3 DEF Chain
<1>11. Sends(k2, k3) /\ Window(k3) /\ Armed(k3)
  BY <1>7, <1>9, EstablishedActiveSends
<1> HIDE DEF k3
<1>12. Chain(k3, c, p)
  BY <1>1, <1>10, <1>11, SendsChain
<1>13. k3 \in Connections
  BY <1>12 DEF Chain
<1>14. /\ k4 \in Connections /\ SameWindow(k3, k4)
       /\ k4.fsm = k3.fsm /\ k4.active = k3.active /\ k4.event = k3.event
       /\ k4.fault = k3.fault /\ k4.rcv_nxt = k3.rcv_nxt /\ k4.rcvQueue = k3.rcvQueue
       /\ k4.fin_rcvd = k3.fin_rcvd /\ k4.rcv_fin_seq = k3.rcv_fin_seq
       /\ k4.delivered = k3.delivered /\ k4.out = k3.out /\ k4.timers = k3.timers
       /\ k4.ind = Append(k3.ind, "ESTABLISHED") /\ k4.sockstate = SocketOf("ESTABLISHED")
  BY <1>13, IndicateTells DEF Indication
<1> HIDE DEF k4
<1>15. /\ r \in Connections /\ SameWindow(k4, r)
       /\ r.fsm = k4.fsm /\ r.active = k4.active /\ r.ind = k4.ind /\ r.sockstate = k4.sockstate
       /\ r.fault = k4.fault /\ r.rcv_nxt = k4.rcv_nxt /\ r.rcvQueue = k4.rcvQueue
       /\ r.fin_rcvd = k4.fin_rcvd /\ r.rcv_fin_seq = k4.rcv_fin_seq
       /\ r.delivered = k4.delivered /\ r.out = k4.out /\ r.event = "RCV_SYN_ACK"
  <2>1. Alike(k4, r)
    BY <1>14, SetAlike DEF Event
  <2>2. r.event = "RCV_SYN_ACK"
    BY <1>14 DEF Connections
  <2> QED
    BY <2>1, <2>2 DEF Alike
<1> HIDE DEF r
<1>16. /\ SameWindow(k3, r) /\ r.fsm = "SYN_SENT" /\ r.ind = Told1 /\ r.sockstate = "CONNECTED"
       /\ ~r.fault /\ r.rcv_nxt = k3.rcv_nxt /\ r.rcvQueue = k3.rcvQueue
       /\ r.fin_rcvd = k3.fin_rcvd /\ r.rcv_fin_seq = k3.rcv_fin_seq
       /\ r.delivered = k3.delivered /\ r.out = k3.out
  <2>1. r.ind = Told1
    <3>1. k3.ind = <<>>
      BY <1>3, <1>12 DEF Chain
    <3> QED
      BY <1>14, <1>15, <3>1 DEF Told1
  <2> QED
    BY <1>12, <1>14, <1>15, <2>1 DEF SameWindow, SameBounds, Chain, SocketOf
<1>17. Transition(r.fsm, r.event, r.active) = "ESTABLISHED"
  <2>1. r.active \in BOOLEAN /\ "SYN_SENT" \in State /\ "RCV_SYN_ACK" \in Event
    BY <1>15, Fields DEF State, Event
  <2> QED
    BY <1>15, <1>16, <2>1, TransitionTable
<1>18. Telling(r, "ESTABLISHED") = <<>>
  BY DEF Telling
<1>19. /\ j \in Connections /\ SameData(r, j) /\ j.fsm = "ESTABLISHED"
       /\ "REXMIT" \in j.timers <=> "REXMIT" \in r.timers
                                      /\ ("ESTABLISHED" # "CLOSED" \/ "ESTABLISHED" = r.fsm)
       /\ j.ind = r.ind /\ j.sockstate = r.sockstate
  BY <1>15, <1>17, <1>18, TransitedData
<1>20. PerformStateTransition(ProcessSynInSynSent(c, s, w)) = j
  BY <1>6
<1> HIDE DEF j
<1>21. SameWindow(k3, j) /\ ~j.fault
  BY <1>16, <1>19 DEF SameWindow, SameBounds, SameData
<1>22. Grown(k3, j) /\ Grown(c, j) /\ j.bufEnd = c.bufEnd /\ ~j.send_fin
  <2>1. Grown(k3, j)
    <3>1. /\ j.iss = k3.iss /\ j.snd_max = k3.snd_max /\ j.bufEnd = k3.bufEnd
          /\ j.rcv_nxt = k3.rcv_nxt
      BY <1>16, <1>19, <1>21 DEF SameWindow, SameBounds, SameData
    <3> QED
      BY <1>13, <3>1, GrownReflexive DEF Grown
  <2>2. Grown(c, k3) /\ k3.bufEnd = c.bufEnd /\ k3.send_fin = c.send_fin
    BY <1>12 DEF Chain
  <2>3. Grown(c, j)
    BY <1>1, <1>13, <1>19, <2>1, <2>2, GrownTransitive
  <2> QED
    BY <1>3, <1>21, <2>1, <2>2, <2>3 DEF SameWindow, SameBounds
<1>23. SendSide(j)
  <2>1. Window(j) /\ Armed(j)
    BY <1>11, <1>21, SameWindowKept
  <2>2. j.iss < j.bufEnd
    BY <1>1, <1>22 DEF SendSide, Grown
  <2> QED
    BY <1>19, <1>21, <2>1, <2>2 DEF SendSide, Unopened, Closing
<1>24. Application(j)
  BY <1>16, <1>19, <1>22 DEF Application
<1>25. ReceiveSide(j, p)
  <2>1. Received(k3, p)
    BY <1>12 DEF Chain
  <2>2. /\ j.rcv_nxt = k3.rcv_nxt /\ j.rcvQueue = k3.rcvQueue /\ j.fin_rcvd = k3.fin_rcvd
        /\ j.rcv_fin_seq = k3.rcv_fin_seq /\ j.delivered = k3.delivered
    BY <1>16, <1>19 DEF SameData
  <2>3. Received(j, p)
    BY <2>1, <2>2 DEF Received
  <2>4. j.rcv_nxt # 0
    <3>1. p.iss \in Nat /\ j.rcv_nxt \in Nat
      BY <1>1, <1>19, Fields
    <3> QED
      BY <2>3, <3>1 DEF Received
  <2> QED
    BY <1>19, <2>3, <2>4 DEF ReceiveSide
<1>26. \A x \in j.out : Sound(x, j, p.iss) /\ Opens(x, e)
  <2> SUFFICES ASSUME NEW x \in j.out PROVE Sound(x, j, p.iss) /\ Opens(x, e)
    OBVIOUS
  <2>1. x \in k3.out
    BY <1>16, <1>19 DEF SameData
  <2>2. Sound(x, k3, p.iss) /\ "SYN" \notin x.flags
    BY <1>12, <2>1 DEF Chain
  <2>3. x \in Segments /\ p.iss \in Nat
    BY <1>1, <1>19, Fields
  <2>4. Sound(x, j, p.iss)
    BY <1>13, <1>19, <1>22, <2>2, <2>3, SoundKept
  <2> QED
    BY <2>2, <2>4 DEF Opens
<1>27. RoleFits(e, j)
  BY <1>19 DEF RoleFits
<1>28. j.snd_una <= p.rcv_nxt
  BY <1>12, <1>21 DEF Chain, SameWindow, SameBounds
<1>29. Serves(c, j)
  <2>1. c.fsm \notin Ended /\ c.fsm # "CLOSED" /\ j.fsm # "CLOSED"
    BY <1>19 DEF Ended
  <2>2. c.send_fin = j.send_fin
    BY <1>1, <1>3, <1>19, <1>22, Fields
  <2> QED
    BY <1>1, <1>19, <1>22, <1>24, <2>1, <2>2, ServesOpen
<1>30. Fine(e, c, j, p)
  BY <1>19, <1>22, <1>23, <1>24, <1>25, <1>26, <1>27, <1>28, <1>29 DEF Fine
<1> QED
  BY <1>20, <1>30

\* A SYN that crosses with the end's own.
LEMMA CrossedSynFine ==
  ASSUME NEW e, NEW c, NEW p, NEW s \in Segments, NEW w, At(e, c, p),
         c.fsm = "SYN_SENT", Sound(s, p, c.iss), "SYN" \in s.flags, "ACK" \notin s.flags,
         Peer(e) \in ActiveOpeners
  PROVE  Fine(e, c, PerformStateTransition(ProcessSynInSynSent(c, s, w)), p)
<1> DEFINE n  == [c EXCEPT !.rcv_nxt = s.seq + 1]
           k1 == [n EXCEPT !.rcvQueue = {}]
           a  == SendSynAck(k1)
           b  == StartSynRexmitTimer(a)
           r  == [b EXCEPT !.event = "RCV_SYN"]
           j  == PerformStateTransition(r)
<1>1. /\ c \in Connections /\ p \in Connections /\ c.out = {} /\ c.active
      /\ SendSide(c) /\ Fresh(c) /\ Application(c) /\ ReceiveSide(c, p) /\ p.iss < p.bufEnd
  BY SelfFine DEF At, Sides, SendSide, Unopened, Base, FinEndsQueue
<1>2. /\ k1 = [c EXCEPT !.rcv_nxt = s.seq + 1, !.rcvQueue = {}] /\ k1 \in Connections
      /\ k1.fsm = c.fsm /\ k1.event = c.event /\ k1.active = c.active /\ k1.ind = c.ind
      /\ k1.sockstate = c.sockstate /\ k1.iss = c.iss /\ k1.bufEnd = c.bufEnd
      /\ k1.rcv_nxt = p.iss + 1 /\ k1.rcvQueue = {} /\ k1.fin_rcvd = c.fin_rcvd
      /\ k1.rcv_fin_seq = c.rcv_fin_seq /\ k1.delivered = c.delivered
      /\ k1.out = c.out /\ k1.timers = c.timers /\ k1.fault = c.fault
      /\ k1.send_fin = c.send_fin /\ k1.fin_ack_rcvd = c.fin_ack_rcvd
      /\ k1.lossRecovery = c.lossRecovery /\ k1.bufStart = c.bufStart
      /\ k1.snd_una = c.snd_una /\ k1.snd_max = c.snd_max /\ k1.snd_nxt = c.snd_nxt
      /\ Received(k1, p) /\ c.rcv_nxt <= k1.rcv_nxt
  BY <1>1, SynSentTakes, Zenon
<1>3. ProcessSynInSynSent(c, s, w) = r
  BY <1>2 DEF ProcessSynInSynSent
<1> HIDE DEF k1
<1>4. /\ ~k1.fault /\ ~k1.send_fin /\ ~k1.fin_ack_rcvd /\ ~k1.lossRecovery
      /\ k1.timers \cap {"REXMIT", "DELAYEDACK"} = {} /\ k1.ind = <<>>
      /\ k1.sockstate = "CONNECTING"
      /\ k1.bufStart = k1.iss + 1 /\ k1.bufStart <= k1.bufEnd /\ k1.snd_una = k1.iss
  BY <1>1, <1>2 DEF SendSide, Fresh, Application
<1>5. Begun(a) /\ Kept(k1, a) /\ a.out = k1.out \cup {SynAck(k1)} /\ a.timers = k1.timers
  BY <1>2, <1>4, SendSynBegun
<1> HIDE DEF a
<1>6. Begun(b) /\ Kept(a, b) /\ b.out = a.out
  BY <1>5, StartSynRexmitTimerBegun
<1> HIDE DEF b
<1>7. Kept(k1, b) /\ b.out = {SynAck(k1)}
  BY <1>1, <1>2, <1>5, <1>6, KeptTransitive
<1>8. r \in Connections
  BY <1>6, SetState DEF Begun, Event
<1>9. /\ r.fsm = b.fsm /\ r.event = "RCV_SYN" /\ r.active = b.active /\ r.ind = b.ind
      /\ r.sockstate = b.sockstate /\ r.iss = b.iss /\ r.bufEnd = b.bufEnd
      /\ r.rcv_nxt = b.rcv_nxt /\ r.rcvQueue = b.rcvQueue /\ r.fin_rcvd = b.fin_rcvd
      /\ r.rcv_fin_seq = b.rcv_fin_seq /\ r.delivered = b.delivered
      /\ r.out = b.out /\ r.fault = b.fault /\ r.timers = b.timers
      /\ r.send_fin = b.send_fin /\ r.fin_ack_rcvd = b.fin_ack_rcvd
      /\ r.lossRecovery = b.lossRecovery /\ r.bufStart = b.bufStart
      /\ r.snd_una = b.snd_una /\ r.snd_nxt = b.snd_nxt /\ r.snd_max = b.snd_max
  BY <1>6 DEF Begun, Connections
<1> HIDE DEF r
<1>10. Begun(r)
  BY <1>6, <1>8, <1>9 DEF Begun
<1>11. /\ r.iss = c.iss /\ r.bufEnd = c.bufEnd /\ r.rcv_nxt = p.iss + 1 /\ c.rcv_nxt <= r.rcv_nxt
       /\ r.ind = <<>> /\ r.fsm = "SYN_SENT" /\ r.sockstate = "CONNECTING" /\ r.active
       /\ r.out = {SynAck(k1)}
  BY <1>1, <1>2, <1>4, <1>7, <1>9 DEF Kept
<1>12. Received(r, p)
  <2>1. /\ r.rcv_nxt = k1.rcv_nxt /\ r.rcvQueue = k1.rcvQueue /\ r.fin_rcvd = k1.fin_rcvd
        /\ r.rcv_fin_seq = k1.rcv_fin_seq /\ r.delivered = k1.delivered
    BY <1>7, <1>9 DEF Kept
  <2> QED
    BY <1>2, <2>1 DEF Received
<1>13. Transition(r.fsm, r.event, r.active) = "SYN_RCVD"
  <2>1. r.active \in BOOLEAN /\ "SYN_SENT" \in State /\ "RCV_SYN" \in Event
    BY <1>8, Fields DEF State, Event
  <2>2. r.fsm = "SYN_SENT" /\ r.event = "RCV_SYN"
    BY <1>9, <1>11
  <2> HIDE DEF j
  <2> QED
    BY <2>1, <2>2, TransitionTable
<1>14. \A x \in r.out : Sound(x, r, p.iss) /\ Opens(x, e)
  <2>1. r.snd_max = r.iss + 1 /\ p.iss \in Nat
    BY <1>1, <1>10, Fields DEF Begun
  <2>2. SynAck(r) = SynAck(k1) /\ p.iss < r.rcv_nxt
    BY <1>7, <1>9, <1>11, <2>1 DEF SynAck, Kept
  <2> QED
    BY <1>1, <1>8, <1>11, <2>1, <2>2, SynSegments
<1>15. "SYN_RCVD" # r.fsm /\ r.sockstate \in {"CONNECTING", "LISTENING"}
       /\ IF r.active THEN Peer(e) \in ActiveOpeners ELSE e \in PassiveOpeners
  BY <1>11
<1>16. Fine(e, c, PerformStateTransition(r), p)
  BY <1>10, <1>11, <1>12, <1>13, <1>14, <1>15, BegunFine
<1> QED
  BY <1>3, <1>16

LEMMA ReceiveInSynSentTransfer ==
  ASSUME TypeOK, TeardownInv, TransferInv, NEW e \in Endpoint, NEW s \in net[e],
         NEW w \in Nat, ReceiveInSynSent(e, s, w)
  PROVE  TransferInv' /\ Served(e)
<1> DEFINE k == conn[e]
           p == conn[Peer(e)]
           badAck == "ACK" \in s.flags /\ (s.ackNo <= k.iss \/ s.ackNo > k.snd_nxt)
           reset  == [Indicate(k, "CONNECTION_RESET") EXCEPT !.event = "RCV_RST"]
           r == CASE badAck /\ "RST" \notin s.flags          -> SendRst(k, s.ackNo)
                  [] ~badAck /\ {"RST", "ACK"} \subseteq s.flags -> reset
                  [] ~badAck /\ s.flags \cap {"RST", "SYN"} = {"SYN"}
                                                       -> ProcessSynInSynSent(k, s, w)
                  [] OTHER                                   -> k
           j == PerformStateTransition(r)
<1>1. At(e, k, p) /\ k \in Connections /\ p \in Connections /\ Fine(e, k, k, p)
      /\ s \in Segments /\ Sound(s, p, k.iss) /\ Opens(s, Peer(e))
  BY TransferAt, SelfFine
<1>2. k.fsm = "SYN_SENT" /\ Take(e, s, j)
  BY DEF ReceiveInSynSent
<1> HIDE DEF k, p
<1>3. k.event = "IGNORE" /\ Application(k)
  BY <1>1 DEF At, Sides, Base, Idle
<1>4. s.ackNo \in Nat /\ k.iss \in Nat /\ k.snd_nxt \in Nat
  BY <1>1, Fields DEF Segments
<1>5. r \in {SendRst(k, s.ackNo), reset, k}
        \/ (~badAck /\ s.flags \cap {"RST", "SYN"} = {"SYN"} /\ r = ProcessSynInSynSent(k, s, w))
  OBVIOUS
<1>6. CASE r = k
  <2>1. Fine(e, k, j, p)
    BY <1>1, <1>3, <1>6, IgnoredFine
  <2> HIDE DEF j
  <2> QED
    BY <1>2, <2>1, StepTransfer DEF k, p
<1>7. CASE r = SendRst(k, s.ackNo)
  <2>0. SendRst(k, s.ackNo).event = "IGNORE"
    BY <1>1, <1>3 DEF SendRst, Emit, Connections
  <2> HIDE DEF r
  <2>1. r.event = "IGNORE"
    BY <1>7, <2>0
  <2>2. Fine(e, k, r, p)
    BY <1>1, <1>4, <1>7, RstFine
  <2> HIDE DEF r
  <2>3. Fine(e, k, j, p)
    BY <2>1, <2>2, IgnoredFine
  <2> HIDE DEF j
  <2> QED
    BY <1>2, <2>3, StepTransfer DEF k, p
<1>8. CASE r = reset
  <2>1. "RCV_RST" \in Event /\ "CONNECTION_RESET" \in Failure /\ "SYN_SENT" \in State
    BY DEF Event, Failure, State
  <2>2. Transition(k.fsm, "RCV_RST", k.active) = "CLOSED"
    BY <1>1, <1>2, <2>1, Fields, TransitionTable
  <2>3. k.fsm \notin {"INIT", "CLOSED", "TIME_WAIT"}
    BY <1>2
  <2>4. Remains(e, k, k, p)
    BY <1>1, <2>3, AtRemains
  <2>5. Fine(e, k, PerformStateTransition(reset), p)
    BY <1>1, <1>3, <2>1, <2>2, <2>3, <2>4, FailureFine
  <2>6. Fine(e, k, j, p)
    BY <1>8, <2>5
  <2> HIDE DEF j
  <2> QED
    BY <1>2, <2>6, StepTransfer DEF k, p
<1>9. CASE ~badAck /\ s.flags \cap {"RST", "SYN"} = {"SYN"} /\ r = ProcessSynInSynSent(k, s, w)
  <2>1. "SYN" \in s.flags
    BY <1>9
  <2>2. CASE "ACK" \in s.flags
    <3>1. s.ackNo <= k.snd_nxt
      BY <1>4, <1>9, <2>2
    <3>2. Fine(e, k, PerformStateTransition(ProcessSynInSynSent(k, s, w)), p)
      BY <1>1, <1>2, <2>1, <2>2, <3>1, SynAckFine
    <3>3. Fine(e, k, j, p)
      BY <1>9, <3>2
    <3> HIDE DEF j
    <3> QED
      BY <1>2, <3>3, StepTransfer DEF k, p
  <2>3. CASE "ACK" \notin s.flags
    <3>1. Peer(e) \in ActiveOpeners
      BY <1>1, <2>1, <2>3 DEF Opens
    <3>2. Fine(e, k, PerformStateTransition(ProcessSynInSynSent(k, s, w)), p)
      BY <1>1, <1>2, <2>1, <2>3, <3>1, CrossedSynFine
    <3>3. Fine(e, k, j, p)
      BY <1>9, <3>2
    <3> HIDE DEF j
    <3> QED
      BY <1>2, <3>3, StepTransfer DEF k, p
  <2> QED
    BY <2>2, <2>3
<1> QED
  BY <1>5, <1>6, <1>7, <1>8, <1>9
-----------------------------------------------------------------------------
(* Timers.                                                                 *)

LEMMA QuietlyEmit ==
  ASSUME NEW e, NEW k, NEW p, NEW j, Quietly(k, j, p, e), NEW s \in Segments,
         Sound(s, k, p.iss), Opens(s, e)
  PROVE  Quietly(k, Emit(j, s), p, e)
<1> DEFINE i == Emit(j, s)
<1>1. i \in Connections
  BY EmitType DEF Quietly
<1>2. /\ SameData(j, [i EXCEPT !.out = j.out]) /\ i.fsm = j.fsm /\ i.ind = j.ind
      /\ i.sockstate = j.sockstate /\ i.timers = j.timers /\ i.out = j.out \cup {s}
      /\ [i EXCEPT !.out = k.out] = [j EXCEPT !.out = k.out]
  BY DEF Quietly, Emit, Connections, SameData, SameBounds
<1> HIDE DEF i
<1>3. SameData(k, [i EXCEPT !.out = k.out])
  BY <1>2 DEF Quietly
<1> QED
  BY <1>1, <1>2, <1>3 DEF Quietly, i

LEMMA QuietlySchedule ==
  ASSUME NEW e, NEW k, NEW p, NEW j, Quietly(k, j, p, e), NEW x \in SetupTimers,
         x \notin j.timers, k.timers # {}
  PROVE  Quietly(k, Schedule(j, x), p, e)
<1> DEFINE i == Schedule(j, x)
<1>1. x \in Timer /\ x \notin {"REXMIT", "DELAYEDACK"}
  BY DEF Timer, SetupTimers
<1>2. i \in Connections
  BY <1>1, ScheduleType DEF Quietly
<1>3. j.fault \in BOOLEAN /\ j \in Connections
  BY Fields DEF Quietly
<1>4. i = [j EXCEPT !.timers = @ \cup {x}]
  BY <1>3 DEF Schedule, Assert, Connections
<1>5. /\ i.fsm = j.fsm /\ i.ind = j.ind /\ i.sockstate = j.sockstate
      /\ i.timers = j.timers \cup {x} /\ i.out = j.out
  BY <1>3, <1>4 DEF Connections
<1>6. SameData(k, [i EXCEPT !.out = k.out])
  <2>1. SameData([j EXCEPT !.out = k.out], [i EXCEPT !.out = k.out])
    BY <1>3, <1>4 DEF SameData, SameBounds, Connections
  <2> QED
    BY <2>1, SameDataTransitive DEF Quietly
<1> HIDE DEF i
<1> QED
  BY <1>1, <1>2, <1>5, <1>6 DEF Quietly, i

\* Repeating the SYN changes nothing but the timers.
LEMMA SynRexmitTimeoutTransfer ==
  ASSUME TypeOK, TeardownInv, TransferInv, NEW e \in Endpoint, SynRexmitTimeout(e)
  PROVE  TransferInv' /\ Served(e)
<1> DEFINE c == conn[e]
           p == conn[Peer(e)]
           k0 == Cancel(c, {"SYN_REXMIT"})
           k == [k0 EXCEPT !.syn_rexmit_count = @ + 1]
           a == CASE k.fsm = "SYN_SENT" -> SendSyn(k)
                  [] k.fsm = "SYN_RCVD" -> SendSynAck(k)
                  [] OTHER -> Assert(k, FALSE)
           j == Schedule(a, "SYN_REXMIT")
<1>1. At(e, c, p) /\ c \in Connections /\ p \in Connections /\ c.out = {}
  BY TransferAt, SelfFine
<1>2. "SYN_REXMIT" \in c.timers /\ DoTimed(e, j)
  BY DEF SynRexmitTimeout, Expires, Fired
<1> HIDE DEF c, p
<1>3. c.fsm \in {"SYN_SENT", "SYN_RCVD"}
  BY <1>1, <1>2 DEF At, Sides, Base, TimersMatch, SetupTimers
<1>4. Fresh(c) /\ RoleFits(e, c) /\ ReceiveSide(c, p)
  BY <1>1, <1>3 DEF At, Sides, SendSide, Unopened
<1>5. k0 \in Connections /\ c.syn_rexmit_count + 1 \in Nat
  BY <1>1, CancelType, Fields
<1>6. k \in Connections /\ k0.syn_rexmit_count = c.syn_rexmit_count
  <2>1. k0.syn_rexmit_count = c.syn_rexmit_count
    BY <1>1 DEF Cancel, Connections
  <2> QED
    BY <1>5, <2>1, SetNat
<1>7. /\ SameBounds(c, k) /\ k.active = c.active /\ k.fault = c.fault
      /\ k.rcv_nxt = c.rcv_nxt /\ k.rcvQueue = c.rcvQueue /\ k.fin_rcvd = c.fin_rcvd
      /\ k.rcv_fin_seq = c.rcv_fin_seq /\ k.delivered = c.delivered
      /\ k.out = c.out /\ k.fsm = c.fsm /\ k.ind = c.ind /\ k.sockstate = c.sockstate
      /\ k.timers = c.timers \ {"SYN_REXMIT"}
  BY <1>1 DEF Cancel, Connections, SameBounds
<1>8. Quietly(c, k, p, e)
  <2>1. [k EXCEPT !.out = c.out] = k
    BY <1>6, <1>7 DEF Connections
  <2> HIDE DEF k
  <2>2. SameData(c, [k EXCEPT !.out = c.out])
    BY <1>7, <2>1 DEF SameData
  <2> QED
    BY <1>1, <1>6, <1>7, <2>2 DEF Quietly
<1> HIDE DEF k
<1>9. [k EXCEPT !.snd_max = k.iss + 1, !.snd_nxt = k.iss + 1] = k
  <2>1. k.snd_max = k.iss + 1 /\ k.snd_nxt = k.iss + 1
    BY <1>3, <1>4, <1>7 DEF Fresh, SameBounds
  <2> QED
    BY <1>6, <2>1 DEF Connections
<1>10. c.snd_max = c.iss + 1 /\ Syn(k) = Syn(c) /\ SynAck(k) = SynAck(c)
  BY <1>3, <1>4, <1>7 DEF Fresh, SameBounds, Syn, SynAck
<1>11. CASE c.fsm = "SYN_SENT"
  <2>1. e \in ActiveOpeners
    BY <1>4, <1>11 DEF RoleFits
  <2>2. Syn(c) \in Segments /\ Sound(Syn(c), c, p.iss) /\ Opens(Syn(c), e)
    BY <1>1, <1>10, <2>1, SynSegments
  <2>3. a = Emit(k, Syn(c))
    <3>1. a = SendSyn(k)
      BY <1>7, <1>11
    <3>2. SendSyn(k) = Emit(k, Syn(k))
      BY <1>9 DEF SendSyn, Syn
    <3> QED
      BY <1>10, <3>1, <3>2
  <2>4. Quietly(c, Emit(k, Syn(c)), p, e)
    BY <1>8, <2>2, QuietlyEmit
  <2>5. Emit(k, Syn(c)).timers = k.timers
    BY <1>6 DEF Emit, Connections
  <2> HIDE DEF a
  <2>6. Quietly(c, j, p, e)
    BY <1>2, <1>7, <2>3, <2>4, <2>5, QuietlySchedule DEF SetupTimers
  <2> HIDE DEF j
  <2>7. Fine(e, c, j, p)
    BY <1>1, <2>6, QuietFine
  <2> QED
    BY <1>2, <2>7, StepTransfer DEF c, p
<1>12. CASE c.fsm = "SYN_RCVD"
  <2>1. p.iss < c.rcv_nxt
    BY <1>4, <1>12 DEF ReceiveSide, Opened, Received
  <2>2. SynAck(c) \in Segments /\ Sound(SynAck(c), c, p.iss) /\ Opens(SynAck(c), e)
    BY <1>1, <1>10, <2>1, SynSegments
  <2>3. a = AckSent(Emit(k, SynAck(c)))
    <3>1. a = SendSynAck(k)
      BY <1>7, <1>12
    <3>2. SendSynAck(k) = AckSent(Emit(k, SynAck(k)))
      BY <1>9 DEF SendSynAck, SynAck
    <3> QED
      BY <1>10, <3>1, <3>2
  <2>4. Quietly(c, Emit(k, SynAck(c)), p, e)
    BY <1>8, <2>2, QuietlyEmit
  <2>5. Quietly(c, AckSent(Emit(k, SynAck(c))), p, e)
    BY <1>1, <2>4, QuietlyAckSent
  <2>6. AckSent(Emit(k, SynAck(c))).timers \subseteq k.timers
    BY <1>6 DEF AckSent, Cancel, Emit, Connections
  <2> HIDE DEF a
  <2>7. Quietly(c, j, p, e)
    BY <1>2, <1>7, <2>3, <2>5, <2>6, QuietlySchedule DEF SetupTimers
  <2> HIDE DEF j
  <2>8. Fine(e, c, j, p)
    BY <1>1, <2>7, QuietFine
  <2> QED
    BY <1>2, <2>8, StepTransfer DEF c, p
<1> QED
  BY <1>3, <1>11, <1>12

\* Connection setup takes too long: a passive connection listens again.
LEMMA ConnEstabTimeoutTransfer ==
  ASSUME TypeOK, TeardownInv, TransferInv, NEW e \in Endpoint, ConnEstabTimeout(e)
  PROVE  TransferInv' /\ Served(e)
<1> DEFINE c == conn[e]
           p == conn[Peer(e)]
           k0 == Cancel(c, {"CONN_ESTAB"})
           k == [k0 EXCEPT !.event = "TIMEOUT_CONN_ESTAB"]
           k1 == IF k.active THEN Indicate(k, "TIMED_OUT") ELSE k
           r == Assert(k1, k.fsm \in {"SYN_SENT", "SYN_RCVD"})
           j == PerformStateTransition(r)
<1>1. At(e, c, p) /\ c \in Connections /\ p \in Connections
  BY TransferAt, SelfFine
<1>2. "CONN_ESTAB" \in c.timers /\ DoTimed(e, j)
  BY DEF ConnEstabTimeout, Expires, Fired
<1> HIDE DEF c, p
<1>3. c.fsm \in {"SYN_SENT", "SYN_RCVD"} /\ Application(c) /\ (c.fsm = "SYN_SENT" => c.active)
  BY <1>1, <1>2 DEF At, Sides, Base, TimersMatch, SetupTimers, FinEndsQueue
<1>4. k0 \in Connections /\ "TIMEOUT_CONN_ESTAB" \in Event /\ "TIMED_OUT" \in Indication
      /\ "TIMED_OUT" \in Failure
  BY <1>1, CancelType DEF Event, Indication, Failure
<1>5. k \in Connections
  BY <1>4, SetState
<1>6. /\ SameData(c, k) /\ k.fsm = c.fsm /\ k.ind = c.ind /\ k.sockstate = c.sockstate
      /\ k.event = "TIMEOUT_CONN_ESTAB" /\ k.timers \subseteq c.timers /\ k.active = c.active
  BY <1>1 DEF Cancel, Connections, SameData, SameBounds
<1>7. Remains(e, c, k, p)
  <2>1. Remains(e, c, c, p)
    BY <1>1, <1>3, AtRemains
  <2>2. Remains(e, c, k0, p)
    BY <1>1, <2>1, SetRemains
  <2> QED
    BY <1>4, <2>2, SetRemains
<1>8. [Indicate(k, "TIMED_OUT") EXCEPT !.event = "TIMEOUT_CONN_ESTAB"] = Indicate(k, "TIMED_OUT")
      /\ [k EXCEPT !.bufStart = c.bufStart] = k
  BY <1>5, <1>6 DEF Connections, Indicate, SameData, SameBounds
<1> HIDE DEF k
<1>9. r = k1
  <2>1. k1 \in Connections
    BY <1>4, <1>5, IndicateType
  <2>2. k1.fault \in BOOLEAN
    BY <2>1, Fields
  <2> HIDE DEF k1
  <2>3. k.fsm \in {"SYN_SENT", "SYN_RCVD"}
    BY <1>3, <1>6
  <2> QED
    BY <2>1, <2>2, <2>3 DEF Assert, Connections
<1>10. \/ Transition(c.fsm, "TIMEOUT_CONN_ESTAB", c.active) = "CLOSED"
       \/ /\ c.fsm = "SYN_RCVD" /\ ~c.active
          /\ Transition(c.fsm, "TIMEOUT_CONN_ESTAB", c.active) = "LISTEN"
  BY <1>1, <1>3, <1>4, Fields, TransitionTable
<1>11. c.fsm \notin {"INIT", "CLOSED", "TIME_WAIT"}
  BY <1>3
<1>12. CASE c.active
  <2>1. Transition(c.fsm, "TIMEOUT_CONN_ESTAB", k.active) = "CLOSED"
    BY <1>6, <1>10, <1>12
  <2>2. Fine(e, c, PerformStateTransition(
              [Indicate(k, "TIMED_OUT") EXCEPT !.event = "TIMEOUT_CONN_ESTAB"]), p)
    BY <1>1, <1>3, <1>4, <1>5, <1>6, <1>7, <1>11, <2>1, FailureFine
  <2>3. r = Indicate(k, "TIMED_OUT")
    BY <1>6, <1>9, <1>12
  <2>4. Fine(e, c, j, p)
    BY <1>8, <2>2, <2>3
  <2> HIDE DEF j
  <2> QED
    BY <1>2, <2>4, StepTransfer DEF c, p
<1>13. CASE ~c.active
  <2>1. r = k
    BY <1>6, <1>9, <1>13
  <2> HIDE DEF r, k1
  <2>2. CASE Transition(c.fsm, "TIMEOUT_CONN_ESTAB", c.active) = "CLOSED"
    <3>1. Fine(e, c, PerformStateTransition(k), p)
      BY <1>1, <1>3, <1>6, <1>7, <1>11, <2>2, ClosedFine
    <3>2. Fine(e, c, j, p)
      BY <2>1, <3>1
    <3> HIDE DEF j
    <3> QED
      BY <1>2, <3>2, StepTransfer DEF c, p
  <2>3. CASE c.fsm = "SYN_RCVD" /\ Transition(c.fsm, "TIMEOUT_CONN_ESTAB", c.active) = "LISTEN"
    <3>1. Transition(k.fsm, k.event, k.active) = "LISTEN" /\ k.bufStart \in {c.bufStart, c.bufEnd}
          /\ SameData(c, [k EXCEPT !.bufStart = c.bufStart])
      BY <1>6, <1>8, <2>3 DEF SameData, SameBounds
    <3>2. Fine(e, c, PerformStateTransition(k), p)
      BY <1>1, <1>5, <1>6, <1>13, <2>3, <3>1, FallBackFine
    <3>3. Fine(e, c, j, p)
      BY <2>1, <3>2
    <3> HIDE DEF j
    <3> QED
      BY <1>2, <3>3, StepTransfer DEF c, p
  <2> QED
    BY <1>10, <2>2, <2>3
<1> QED
  BY <1>12, <1>13

LEMMA MSLTimeoutTransfer ==
  ASSUME TypeOK, TeardownInv, TransferInv, NEW e \in Endpoint, MSLTimeout(e)
  PROVE  TransferInv' /\ Served(e)
<1> DEFINE c == conn[e]
           p == conn[Peer(e)]
           k0 == Cancel(c, {"2MSL"})
           k == [k0 EXCEPT !.event = "TIMEOUT_2MSL"]
           r == Assert(k, k.fsm = "TIME_WAIT")
           j == PerformStateTransition(r)
<1>1. At(e, c, p) /\ c \in Connections /\ p \in Connections
  BY TransferAt, SelfFine
<1>2. "2MSL" \in c.timers /\ DoTimed(e, j)
  BY DEF MSLTimeout, Expires, Fired
<1> HIDE DEF c, p
<1>3. c.fsm = "TIME_WAIT" /\ Application(c)
  BY <1>1, <1>2 DEF At, Sides, Base, TimersMatch
<1>4. k0 \in Connections /\ "TIMEOUT_2MSL" \in Event /\ "TIME_WAIT" \in State
  BY <1>1, CancelType DEF Event, State
<1>5. k \in Connections
  BY <1>4, SetState
<1>6. /\ k.fsm = c.fsm /\ k.ind = c.ind /\ k.sockstate = c.sockstate
      /\ k.event = "TIMEOUT_2MSL" /\ k.active = c.active
  BY <1>1 DEF Cancel, Connections
<1>7. Remains(e, c, k, p)
  <2>1. Remains(e, c, c, p)
    BY <1>1, <1>3, AtRemains
  <2>2. Remains(e, c, k0, p)
    BY <1>1, <2>1, SetRemains
  <2> QED
    BY <1>4, <2>2, SetRemains
<1> HIDE DEF k
<1>8. r = k
  <2>1. k.fault \in BOOLEAN /\ k.fsm = "TIME_WAIT"
    BY <1>3, <1>5, <1>6, Fields
  <2> QED
    BY <1>5, <2>1 DEF Assert, Connections
<1> HIDE DEF r
<1>9. Transition(k.fsm, k.event, k.active) = "CLOSED"
  <2>1. k.active \in BOOLEAN
    BY <1>5, Fields
  <2> QED
    BY <1>3, <1>4, <1>6, <2>1, TransitionTable
<1>10. Fine(e, c, PerformStateTransition(k), p)
  <2>1. c.fsm \notin {"INIT", "CLOSED"}
    BY <1>3
  <2> QED
    BY <1>1, <1>3, <1>6, <1>7, <1>9, <2>1, ClosedFine
<1>11. Fine(e, c, j, p)
  BY <1>8, <1>10
<1> HIDE DEF j
<1> QED
  BY <1>2, <1>11, StepTransfer DEF c, p

\* The two timers of a transfer run only while there is one.
LEMMA TransferTimers ==
  ASSUME NEW e, NEW k, NEW p, At(e, k, p), k.timers \cap {"REXMIT", "DELAYEDACK"} # {}
  PROVE  k.fsm \in Synchronized /\ Window(k) /\ Armed(k)
<1>1. k.fsm \in State /\ SendSide(k)
  BY Fields DEF At, Sides
<1>2. k.fsm \notin Unopened /\ k.fsm # "CLOSED"
  BY <1>1 DEF SendSide, Fresh
<1>3. k.fsm \in Synchronized
  BY <1>1, <1>2 DEF State, Unopened, Synchronized, Closing
<1> QED
  BY <1>1, <1>3 DEF SendSide

LEMMA RexmitTimeoutTransfer ==
  ASSUME TypeOK, TeardownInv, TransferInv, NEW e \in Endpoint, RexmitTimeout(e)
  PROVE  TransferInv' /\ Served(e)
<1> DEFINE c == conn[e]
           p == conn[Peer(e)]
           k0 == Cancel(c, {"REXMIT"})
           k  == [k0 EXCEPT !.rexmit_count = @ + 1]
           abort == [Indicate(k, "TIMED_OUT") EXCEPT !.event = "ABORT"]
           again == [Schedule(k, "REXMIT") EXCEPT
                       !.lossRecovery = FALSE, !.recover = k.snd_max - 1, !.afterRto = TRUE]
<1>1. At(e, c, p) /\ c \in Connections /\ p \in Connections /\ Fine(e, c, c, p)
  BY TransferAt, SelfFine
<1>2. /\ "REXMIT" \in c.timers
      /\ \/ DoTimed(e, PerformStateTransition(abort))
         \/ DoTimed(e, RetransmitOneSegment(again, TRUE))
  BY DEF RexmitTimeout, Expires, Fired
<1> HIDE DEF c, p
<1>3. c.fsm \in Synchronized /\ Window(c) /\ Armed(c) /\ SendSide(c) /\ Application(c)
  BY <1>1, <1>2, TransferTimers DEF At, Sides
<1>4. c.snd_una < c.snd_max /\ c.snd_max \in Nat /\ c.rexmit_count + 1 \in Nat
  BY <1>1, <1>2, <1>3, Fields DEF Armed
<1>5. k0 \in Connections /\ k0.rexmit_count = c.rexmit_count
  <2>1. k0.rexmit_count = c.rexmit_count
    BY <1>1 DEF Cancel, Connections
  <2> QED
    BY <1>1, <2>1, CancelType
<1>6. k \in Connections
  BY <1>4, <1>5, SetNat
<1>7. CASE DoTimed(e, PerformStateTransition(abort))
  <2>1. c.fsm # "TIME_WAIT"
    <3> SUFFICES ASSUME c.fsm = "TIME_WAIT" PROVE FALSE
      OBVIOUS
    <3>1. c.fin_ack_rcvd
      BY <1>3 DEF SendSide
    <3>2. c.snd_una \in Nat /\ c.bufEnd \in Nat
      BY <1>1, Fields
    <3> QED
      BY <1>3, <1>4, <3>1, <3>2 DEF Window
  <2>2. c.fsm \notin {"INIT", "CLOSED", "TIME_WAIT"}
    BY <1>3, <2>1 DEF Synchronized, Closing
  <2>3. k.fsm = c.fsm /\ k.ind = c.ind /\ k.active = c.active
    BY <1>1 DEF Cancel, Connections
  <2>4. Remains(e, c, k, p)
    <3>1. Remains(e, c, c, p)
      BY <1>1, <2>2, AtRemains
    <3>2. Remains(e, c, k0, p)
      BY <1>1, <3>1, SetRemains
    <3> HIDE DEF k0
    <3> QED
      BY <1>4, <1>5, <3>2, SetRemains
  <2>5. "ABORT" \in Event /\ "TIMED_OUT" \in Failure
    BY DEF Event, Failure
  <2>6. Transition(c.fsm, "ABORT", k.active) = "CLOSED"
    <3>1. c.fsm \in State /\ k.active \in BOOLEAN
      BY <1>1, <1>6, Fields
    <3> QED
      BY <2>2, <2>5, <3>1, TransitionTable
  <2> HIDE DEF k
  <2>7. Fine(e, c, PerformStateTransition(abort), p)
    BY <1>1, <1>3, <1>6, <2>2, <2>3, <2>4, <2>5, <2>6, FailureFine
  <2> HIDE DEF abort
  <2> QED
    BY <1>7, <2>7, StepTransfer DEF c, p
<1>8. CASE DoTimed(e, RetransmitOneSegment(again, TRUE))
  <2> DEFINE a0 == RestartRexmitTimer(c)
             a1 == [a0 EXCEPT !.rexmit_count = c.rexmit_count + 1]
             a2 == [a1 EXCEPT !.lossRecovery = FALSE]
             a3 == [a2 EXCEPT !.recover = c.snd_max - 1]
             a4 == [a3 EXCEPT !.afterRto = TRUE]
             j  == RetransmitOneSegment(a4, TRUE)
  <2>1. again = a4
    <3>1. k.snd_max = c.snd_max
      BY <1>1 DEF Cancel, Connections
    <3>2. Schedule(k, "REXMIT") = a1
      BY <1>1, <1>5 DEF RestartRexmitTimer, StartRexmitTimer, Schedule, Assert, Cancel, Connections
    <3>3. a1 \in Connections
      BY <1>1, <1>4, RexmitTimerType, SetNat
    <3> HIDE DEF k, a1
    <3> QED
      BY <3>1, <3>2, <3>3 DEF Connections
  <2>2. Sends(c, a0) /\ SameBounds(c, a0) /\ "REXMIT" \in a0.timers /\ a0 \in Connections
    BY <1>1, RexmitTimerSends DEF Sends
  <2> HIDE DEF a0
  <2>3. Sends(a0, a1) /\ SameWindow(a0, a1) /\ a1 \in Connections
    <3>1. SameWindow(a0, a1)
      BY <2>2 DEF SameWindow, SameBounds, Connections
    <3> QED
      BY <1>4, <2>2, <3>1, SetSends DEF Sends
  <2> HIDE DEF a1
  <2>4. Sends(a1, a2) /\ a2 \in Connections
    BY <2>3, SetSends DEF Sends
  <2>5. SameBounds(a1, [a2 EXCEPT !.lossRecovery = a1.lossRecovery]) /\ a2.timers = a1.timers
        /\ ~a2.lossRecovery
    BY <2>3 DEF SameBounds, Connections
  <2>6. Window(a2) /\ Armed(a2) /\ a2.snd_una = c.snd_una /\ a2.snd_max = c.snd_max
    <3>1. Window(a1) /\ "REXMIT" \in a1.timers /\ a1.snd_una = c.snd_una /\ a1.snd_max = c.snd_max
      BY <1>3, <2>2, <2>3, SameWindowKept DEF SameWindow, SameBounds
    <3>2. /\ a2.iss = a1.iss /\ a2.snd_una = a1.snd_una /\ a2.snd_nxt = a1.snd_nxt
          /\ a2.snd_max = a1.snd_max /\ a2.bufStart = a1.bufStart /\ a2.bufEnd = a1.bufEnd
          /\ a2.send_fin = a1.send_fin /\ a2.snd_fin_seq = a1.snd_fin_seq
          /\ a2.fin_ack_rcvd = a1.fin_ack_rcvd /\ a2.timers = a1.timers /\ ~a2.lossRecovery
      BY <2>3 DEF Connections
    <3> HIDE DEF a2
    <3> QED
      BY <1>4, <3>1, <3>2 DEF Window, Armed
  <2> HIDE DEF a2
  <2>7. Sends(a2, a3) /\ a3 \in Connections
    BY <1>4, <2>4, SetSends DEF Sends
  <2>8. Window(a3) /\ Armed(a3) /\ a3.snd_una = c.snd_una /\ a3.snd_max = c.snd_max
    <3>1. /\ a3.iss = a2.iss /\ a3.snd_una = a2.snd_una /\ a3.snd_nxt = a2.snd_nxt
          /\ a3.snd_max = a2.snd_max /\ a3.bufStart = a2.bufStart /\ a3.bufEnd = a2.bufEnd
          /\ a3.send_fin = a2.send_fin /\ a3.snd_fin_seq = a2.snd_fin_seq
          /\ a3.fin_ack_rcvd = a2.fin_ack_rcvd /\ a3.timers = a2.timers
          /\ a3.lossRecovery = a2.lossRecovery /\ a3.recover = c.snd_max - 1
      BY <2>4 DEF Connections
    <3> HIDE DEF a3
    <3> QED
      BY <1>4, <2>6, <3>1 DEF Window, Armed
  <2> HIDE DEF a3
  <2>9. Sends(a3, a4) /\ a4 \in Connections
    BY <2>7, SetSends DEF Sends
  <2>10. SameWindow(a3, a4)
    BY <2>7 DEF SameWindow, SameBounds, Connections
  <2> HIDE DEF a4
  <2>11. Window(a4) /\ Armed(a4) /\ a4.snd_una < a4.snd_max
    BY <1>4, <2>8, <2>10, SameWindowKept DEF SameWindow, SameBounds
  <2>12. Sends(a4, j) /\ Window(j) /\ Armed(j)
    BY <2>9, <2>11, RetransmitOneSegmentSends
  <2> HIDE DEF j
  <2>13. Sends(c, a4)
    BY <1>1, <2>2, <2>3, <2>4, <2>7, <2>9, SendsTransitive
  <2>14. Sends(c, j)
    BY <1>1, <2>12, <2>13, SendsTransitive
  <2>15. Fine(e, c, j, p)
    BY <1>1, <1>3, <2>12, <2>14, SendsFine
  <2> HIDE DEF again
  <2>16. DoTimed(e, j)
    BY <1>8, <2>1 DEF j
  <2> QED
    BY <2>15, <2>16, StepTransfer DEF c, p
<1> QED
  BY <1>2, <1>7, <1>8

LEMMA DelayedAckTimeoutTransfer ==
  ASSUME TypeOK, TeardownInv, TransferInv, NEW e \in Endpoint, DelayedAckTimeout(e)
  PROVE  TransferInv' /\ Served(e)
<1> DEFINE c == conn[e]
           p == conn[Peer(e)]
           k == Cancel(c, {"DELAYEDACK"})
           j == SendAck(k)
<1>1. At(e, c, p) /\ c \in Connections /\ p \in Connections /\ Fine(e, c, c, p)
  BY TransferAt, SelfFine
<1>2. "DELAYEDACK" \in c.timers /\ Do(e, j)
  BY DEF DelayedAckTimeout, Expires, Fired
<1> HIDE DEF c, p
<1>3. c.fsm \in Synchronized /\ Window(c) /\ Armed(c)
  BY <1>1, <1>2, TransferTimers
<1>4. Sends(c, k) /\ k \in Connections
  BY <1>1, SetSends DEF Sends
<1>5. SameWindow(c, k)
  BY <1>1 DEF Cancel, SameWindow, SameBounds, Connections
<1> HIDE DEF k
<1>6. Sends(k, j) /\ SameWindow(k, j)
  BY <1>4, SendAckSends
<1> HIDE DEF j
<1>7. Sends(c, j) /\ Window(j) /\ Armed(j)
  BY <1>1, <1>3, <1>4, <1>5, <1>6, SendsTransitive, SameWindowKept
<1>8. Fine(e, c, j, p)
  BY <1>1, <1>3, <1>7, SendsFine
<1> QED
  BY <1>2, <1>8, StepTransfer DEF c, p

LEMMA LoseTransfer ==
  ASSUME TypeOK, TransferInv, NEW e \in Endpoint, Lose(e)
  PROVE  TransferInv' /\ conn' = conn
<1>1. conn' = conn /\ \A f \in Endpoint : net'[f] \subseteq net[f]
  BY DEF Lose, TypeOK
<1> SUFFICES ASSUME NEW f \in Endpoint
             PROVE  LET k == conn[f]  p == conn[Peer(f)]
                    IN /\ k.iss = Iss[f]
                       /\ RoleFits(f, k) /\ SendSide(k) /\ Application(k) /\ ReceiveSide(k, p)
                       /\ k.snd_una > k.iss => k.snd_una <= p.rcv_nxt
                       /\ \A s \in net'[f] : Sound(s, p, Iss[f]) /\ Opens(s, Peer(f))
  BY <1>1 DEF TransferInv
<1> QED
  BY <1>1 DEF TransferInv
-----------------------------------------------------------------------------
(* Socket commands.                                                        *)

\* What the peer has received has been sent.
LEMMA SentBeforeReceived ==
  ASSUME NEW c \in Connections, NEW p \in Connections, ReceiveSide(p, c),
         c.snd_max <= c.bufEnd
  PROVE  p.rcv_nxt <= c.bufEnd
<1>1. p.rcv_nxt \in Nat /\ c.snd_max \in Nat /\ c.bufEnd \in Nat
  BY Fields
<1>2. p.rcv_nxt # 0 => p.rcv_nxt <= c.snd_max
  BY DEF ReceiveSide, Received
<1> QED
  BY <1>1, <1>2

\* Data may be queued before the connection is open.
LEMMA QueueFine ==
  ASSUME NEW e, NEW c, NEW p, At(e, c, p), ~c.send_fin,
         c.sockstate \in {"CONNECTED", "CONNECTING", "PEER_CLOSED"},
         c.fsm \in {"SYN_SENT", "SYN_RCVD", "ESTABLISHED", "CLOSE_WAIT"}
  PROVE  Fine(e, c, [c EXCEPT !.bufEnd = @ + 1], p)
<1> DEFINE k == [c EXCEPT !.bufEnd = c.bufEnd + 1]
<1>1. /\ c \in Connections /\ p \in Connections /\ c.out = {} /\ SendSide(c)
      /\ Application(c) /\ ReceiveSide(c, p) /\ ReceiveSide(p, c) /\ RoleFits(e, c)
      /\ c.snd_una > c.iss => c.snd_una <= p.rcv_nxt
  BY SelfFine DEF At, Sides
<1>2. /\ c.bufEnd \in Nat /\ c.snd_max \in Nat /\ c.iss \in Nat /\ c.bufStart \in Nat
      /\ c.rcv_nxt \in Nat /\ c.snd_una \in Nat
  BY <1>1, Fields
<1>3. k \in Connections
  <2>1. c.bufEnd + 1 \in Nat
    BY <1>2
  <2> QED
    BY <1>1, <2>1, SetNat
<1>4. /\ k.fsm = c.fsm /\ k.active = c.active /\ k.ind = c.ind /\ k.sockstate = c.sockstate
      /\ k.iss = c.iss /\ k.snd_una = c.snd_una /\ k.snd_nxt = c.snd_nxt
      /\ k.snd_max = c.snd_max /\ k.bufStart = c.bufStart /\ k.bufEnd = c.bufEnd + 1
      /\ k.send_fin = c.send_fin /\ k.snd_fin_seq = c.snd_fin_seq
      /\ k.fin_ack_rcvd = c.fin_ack_rcvd /\ k.lossRecovery = c.lossRecovery
      /\ k.recover = c.recover /\ k.timers = c.timers /\ k.fault = c.fault
      /\ k.rcv_nxt = c.rcv_nxt /\ k.rcvQueue = c.rcvQueue /\ k.fin_rcvd = c.fin_rcvd
      /\ k.rcv_fin_seq = c.rcv_fin_seq /\ k.delivered = c.delivered /\ k.out = c.out
  BY <1>1 DEF Connections
<1>5. [c EXCEPT !.bufEnd = @ + 1] = k
  BY <1>1 DEF Connections
<1> HIDE DEF k
<1>6. c.snd_max <= c.bufEnd
  <2>1. CASE c.fsm \in {"SYN_SENT", "SYN_RCVD"}
    BY <1>1, <1>2, <2>1 DEF SendSide, Fresh, Unopened
  <2>2. CASE c.fsm \in {"ESTABLISHED", "CLOSE_WAIT"}
    <3>1. Window(c)
      BY <1>1, <2>2 DEF SendSide, Synchronized
    <3> QED
      BY <1>2, <3>1 DEF Window
  <2> QED
    BY <2>1, <2>2
<1>7. SendSide(k)
  <2>1. ~k.fault /\ k.iss < k.bufEnd
    BY <1>1, <1>2, <1>4 DEF SendSide
  <2>2. CASE c.fsm \in {"SYN_SENT", "SYN_RCVD"}
    <3>1. Fresh(c)
      BY <1>1, <2>2 DEF SendSide, Unopened
    <3>2. Fresh(k)
      BY <1>2, <1>4, <2>2, <3>1 DEF Fresh
    <3> QED
      BY <1>4, <2>1, <2>2, <3>2 DEF SendSide, Synchronized, Closing
  <2>3. CASE c.fsm \in {"ESTABLISHED", "CLOSE_WAIT"}
    <3>1. Window(c) /\ Armed(c)
      BY <1>1, <2>3 DEF SendSide, Synchronized
    <3>2. Window(k) /\ Armed(k)
      BY <1>2, <1>4, <1>6, <3>1 DEF Window, Armed
    <3> QED
      BY <1>4, <2>1, <2>3, <3>2 DEF SendSide, Unopened, Closing
  <2> QED
    BY <2>2, <2>3
<1>8. Application(k) /\ RoleFits(e, k) /\ ReceiveSide(k, p)
  BY <1>1, <1>4 DEF Application, RoleFits, ReceiveSide, Received
<1>9. Grown(c, k)
  BY <1>2, <1>4 DEF Grown
<1>10. p.rcv_nxt <= c.bufEnd
  BY <1>1, <1>6, SentBeforeReceived
<1>11. Serves(c, k)
  BY <1>4 DEF Serves, EndOfStream, Told
<1> QED
  BY <1>1, <1>3, <1>4, <1>5, <1>7, <1>8, <1>9, <1>10, <1>11 DEF Fine

LEMMA SendTransfer ==
  ASSUME TypeOK, TeardownInv, TransferInv, NEW e \in Endpoint, Send(e)
  PROVE  TransferInv' /\ Served(e)
<1> DEFINE c == conn[e]
           p == conn[Peer(e)]
           k == [c EXCEPT !.bufEnd = @ + 1]
<1>1. At(e, c, p) /\ c \in Connections /\ p \in Connections
  BY TransferAt, SelfFine
<1>2. k.sockstate = c.sockstate /\ k.send_fin = c.send_fin /\ k.fsm = c.fsm
  BY <1>1 DEF Connections
<1>3. /\ c.sockstate \in {"CONNECTED", "CONNECTING", "PEER_CLOSED"} /\ ~c.send_fin
      /\ \/ c.fsm \in {"SYN_SENT", "SYN_RCVD"} /\ Do(e, k)
         \/ /\ c.fsm \in {"ESTABLISHED", "CLOSE_WAIT"}
            /\ \E w \in Windows : Do(e, SendData(k, w))
  BY <1>2 DEF Send
<1> HIDE DEF c, p
<1>4. Fine(e, c, k, p)
  BY <1>1, <1>3, QueueFine
<1> HIDE DEF k
<1>5. CASE c.fsm \in {"SYN_SENT", "SYN_RCVD"} /\ Do(e, k)
  BY <1>4, <1>5, StepTransfer DEF c, p
<1>6. CASE c.fsm \in {"ESTABLISHED", "CLOSE_WAIT"} /\ \E w \in Windows : Do(e, SendData(k, w))
  <2>1. PICK w \in Windows : Do(e, SendData(k, w))
    BY <1>6
  <2>2. k \in Connections /\ k.fsm \in Synchronized /\ w \in Nat
    BY <1>2, <1>4, <1>6, WindowsType DEF Fine, Synchronized
  <2>3. Window(k) /\ Armed(k)
    BY <1>4, <2>2 DEF Fine, SendSide
  <2>4. Sends(k, SendData(k, w)) /\ Window(SendData(k, w)) /\ Armed(SendData(k, w))
    BY <2>2, <2>3, SendDataSends
  <2>5. Fine(e, c, SendData(k, w), p)
    BY <1>1, <1>4, <2>2, <2>4, SendsFine
  <2> QED
    BY <2>1, <2>5, StepTransfer DEF c, p
<1> QED
  BY <1>3, <1>5, <1>6

\* The FIN is the next to be sent, or waits for the data before it.
LEMMA CloseSendingWindow ==
  ASSUME NEW k \in Connections, Window(k), Armed(k)
  PROVE  LET j == CloseSending(k)
             now == k.snd_max = k.bufEnd
         IN /\ j \in Connections /\ Window(j) /\ Armed(j) /\ j.send_fin
            /\ j.fsm = k.fsm /\ j.active = k.active /\ j.ind = k.ind
            /\ j.sockstate = k.sockstate /\ j.iss = k.iss /\ j.bufEnd = k.bufEnd
            /\ j.snd_una = k.snd_una /\ j.fault = k.fault
            /\ j.rcv_nxt = k.rcv_nxt /\ j.rcvQueue = k.rcvQueue /\ j.fin_rcvd = k.fin_rcvd
            /\ j.rcv_fin_seq = k.rcv_fin_seq /\ j.delivered = k.delivered
            /\ j.snd_max = IF now THEN k.bufEnd + 1 ELSE k.snd_max
            /\ j.event = IF now THEN k.event ELSE "IGNORE"
            /\ j.out = IF now THEN k.out \cup {Segment({"FIN", "ACK"}, k.bufEnd, k.rcv_nxt, 0)}
                              ELSE k.out
<1> DEFINE f0  == [k EXCEPT !.snd_nxt = k.snd_max]
           fin == Segment({"FIN", "ACK"}, f0.snd_nxt, f0.rcv_nxt, 0)
           f1  == Emit(f0, fin)
           f2  == AckSent(f1)
           k1  == RestartRexmitTimer(f2)
           a   == [k1 EXCEPT !.snd_nxt = @ + 1]
           b   == [a EXCEPT !.snd_max = k.snd_max + 1]
           d   == [k EXCEPT !.event = "IGNORE"]
           j   == CloseSending(k)
           Marked(x) == [[x EXCEPT !.send_fin = TRUE] EXCEPT !.snd_fin_seq = k.bufEnd]
<1>1. /\ k.snd_max \in Nat /\ k.bufEnd \in Nat /\ k.snd_una \in Nat /\ k.snd_nxt \in Nat
      /\ k.iss \in Nat /\ k.bufStart \in Nat /\ k.rcv_nxt \in Nat /\ k.recover \in Int
  BY Fields
<1>2. j \in Connections
  BY CloseSendingType
<1>3. j = Marked(IF k.snd_max = k.bufEnd THEN b ELSE d)
  BY DEF CloseSending, SendFin
<1> HIDE DEF j
<1>4. ASSUME NEW x \in Connections
      PROVE  LET m == Marked(x)
             IN /\ m.fsm = x.fsm /\ m.active = x.active /\ m.ind = x.ind
                /\ m.sockstate = x.sockstate /\ m.iss = x.iss /\ m.bufEnd = x.bufEnd
                /\ m.bufStart = x.bufStart /\ m.fault = x.fault /\ m.timers = x.timers
                /\ m.snd_una = x.snd_una /\ m.snd_nxt = x.snd_nxt /\ m.snd_max = x.snd_max
                /\ m.rcv_nxt = x.rcv_nxt /\ m.rcvQueue = x.rcvQueue
                /\ m.fin_rcvd = x.fin_rcvd /\ m.rcv_fin_seq = x.rcv_fin_seq
                /\ m.delivered = x.delivered /\ m.event = x.event /\ m.out = x.out
                /\ m.fin_ack_rcvd = x.fin_ack_rcvd /\ m.lossRecovery = x.lossRecovery
                /\ m.recover = x.recover /\ m.send_fin = TRUE /\ m.snd_fin_seq = k.bufEnd
  BY <1>4 DEF Connections
<1> HIDE DEF Marked
<1>5. CASE k.snd_max = k.bufEnd
  <2>1. f0 \in Connections /\ f0.snd_nxt = k.snd_max
    <3>1. f0.snd_nxt = k.snd_max
      BY DEF Connections
    <3> QED
      BY <1>1, <3>1, SetNat
  <2>2. fin = Segment({"FIN", "ACK"}, k.bufEnd, k.rcv_nxt, 0) /\ fin \in Segments
    <3>1. f0.rcv_nxt = k.rcv_nxt
      BY DEF Connections
    <3>2. Segment({"FIN", "ACK"}, k.bufEnd, k.rcv_nxt, 0) \in Segments
      BY <1>1, SegmentType DEF Flag
    <3> QED
      BY <1>5, <2>1, <3>1, <3>2
  <2> HIDE DEF fin
  <2>3. f1 \in Connections
    BY <2>1, <2>2, EmitType
  <2>4. /\ f1.fsm = k.fsm /\ f1.active = k.active /\ f1.ind = k.ind
        /\ f1.sockstate = k.sockstate /\ f1.iss = k.iss /\ f1.bufEnd = k.bufEnd
        /\ f1.bufStart = k.bufStart /\ f1.fault = k.fault
        /\ f1.snd_una = k.snd_una /\ f1.snd_nxt = k.snd_max
        /\ f1.rcv_nxt = k.rcv_nxt /\ f1.rcvQueue = k.rcvQueue
        /\ f1.fin_rcvd = k.fin_rcvd /\ f1.rcv_fin_seq = k.rcv_fin_seq
        /\ f1.delivered = k.delivered /\ f1.event = k.event /\ f1.out = k.out \cup {fin}
        /\ f1.fin_ack_rcvd = k.fin_ack_rcvd /\ f1.lossRecovery = k.lossRecovery
        /\ f1.recover = k.recover
    BY DEF Emit, Connections
  <2> HIDE DEF f1
  <2>5. Sends(f1, f2) /\ SameWindow(f1, f2) /\ f2 \in Connections /\ f2.out = f1.out
    <3>1. f2.out = f1.out
      BY <2>3 DEF AckSent, Cancel, Connections
    <3> QED
      BY <2>3, <3>1, AckSentSends DEF Sends
  <2> HIDE DEF f2
  <2>6. Sends(f2, k1) /\ SameBounds(f2, k1) /\ "REXMIT" \in k1.timers /\ k1 \in Connections
        /\ k1.out = f2.out
    <3>1. k1.out = f2.out
      BY <2>5 DEF RestartRexmitTimer, StartRexmitTimer, Schedule, Assert, Cancel, Connections
    <3> QED
      BY <2>5, <3>1, RexmitTimerSends DEF Sends
  <2> HIDE DEF k1
  <2>7. Sends(f1, k1)
    BY <2>3, <2>5, <2>6, SendsTransitive
  <2>8. /\ k1.fsm = k.fsm /\ k1.active = k.active /\ k1.ind = k.ind
        /\ k1.sockstate = k.sockstate /\ k1.iss = k.iss /\ k1.bufEnd = k.bufEnd
        /\ k1.bufStart = k.bufStart /\ k1.fault = k.fault
        /\ k1.snd_una = k.snd_una /\ k1.snd_nxt = k.snd_max
        /\ k1.rcv_nxt = k.rcv_nxt /\ k1.rcvQueue = k.rcvQueue
        /\ k1.fin_rcvd = k.fin_rcvd /\ k1.rcv_fin_seq = k.rcv_fin_seq
        /\ k1.delivered = k.delivered /\ k1.event = k.event /\ k1.out = k.out \cup {fin}
        /\ k1.fin_ack_rcvd = k.fin_ack_rcvd /\ k1.lossRecovery = k.lossRecovery
        /\ k1.recover = k.recover
    BY <2>4, <2>5, <2>6, <2>7 DEF Sends, Sending, SameStream, Moves, SameBounds, SameWindow
  <2>9. a \in Connections /\ b \in Connections
    <3>1. k1.snd_nxt + 1 \in Nat /\ k.snd_max + 1 \in Nat
      BY <1>1, <2>6, Fields
    <3>2. a \in Connections
      BY <2>6, <3>1, SetNat
    <3> HIDE DEF a
    <3> QED
      BY <3>1, <3>2, SetNat
  <2>10. /\ b.fsm = k1.fsm /\ b.active = k1.active /\ b.ind = k1.ind
         /\ b.sockstate = k1.sockstate /\ b.iss = k1.iss /\ b.bufEnd = k1.bufEnd
         /\ b.bufStart = k1.bufStart /\ b.fault = k1.fault /\ b.timers = k1.timers
         /\ b.snd_una = k1.snd_una /\ b.snd_nxt = k1.snd_nxt + 1 /\ b.snd_max = k.snd_max + 1
         /\ b.rcv_nxt = k1.rcv_nxt /\ b.rcvQueue = k1.rcvQueue
         /\ b.fin_rcvd = k1.fin_rcvd /\ b.rcv_fin_seq = k1.rcv_fin_seq
         /\ b.delivered = k1.delivered /\ b.event = k1.event /\ b.out = k1.out
         /\ b.fin_ack_rcvd = k1.fin_ack_rcvd /\ b.lossRecovery = k1.lossRecovery
         /\ b.recover = k1.recover
    BY <2>6 DEF Connections
  <2> HIDE DEF a, b
  <2>11. j = Marked(b)
    BY <1>3, <1>5
  <2>12. /\ j.fsm = k.fsm /\ j.active = k.active /\ j.ind = k.ind
         /\ j.sockstate = k.sockstate /\ j.iss = k.iss /\ j.bufEnd = k.bufEnd
         /\ j.bufStart = k.bufStart /\ j.fault = k.fault /\ "REXMIT" \in j.timers
         /\ j.snd_una = k.snd_una /\ j.snd_nxt = k.bufEnd + 1 /\ j.snd_max = k.bufEnd + 1
         /\ j.rcv_nxt = k.rcv_nxt /\ j.rcvQueue = k.rcvQueue
         /\ j.fin_rcvd = k.fin_rcvd /\ j.rcv_fin_seq = k.rcv_fin_seq
         /\ j.delivered = k.delivered /\ j.event = k.event /\ j.out = k.out \cup {fin}
         /\ j.fin_ack_rcvd = k.fin_ack_rcvd /\ j.lossRecovery = k.lossRecovery
         /\ j.recover = k.recover /\ j.send_fin = TRUE /\ j.snd_fin_seq = k.bufEnd
    <3>1. /\ j.fsm = b.fsm /\ j.active = b.active /\ j.ind = b.ind
          /\ j.sockstate = b.sockstate /\ j.iss = b.iss /\ j.bufEnd = b.bufEnd
          /\ j.bufStart = b.bufStart /\ j.fault = b.fault /\ j.timers = b.timers
          /\ j.snd_una = b.snd_una /\ j.snd_nxt = b.snd_nxt /\ j.snd_max = b.snd_max
          /\ j.rcv_nxt = b.rcv_nxt /\ j.rcvQueue = b.rcvQueue
          /\ j.fin_rcvd = b.fin_rcvd /\ j.rcv_fin_seq = b.rcv_fin_seq
          /\ j.delivered = b.delivered /\ j.event = b.event /\ j.out = b.out
          /\ j.fin_ack_rcvd = b.fin_ack_rcvd /\ j.lossRecovery = b.lossRecovery
          /\ j.recover = b.recover /\ j.send_fin = TRUE /\ j.snd_fin_seq = k.bufEnd
      BY <1>4, <2>9, <2>11
    <3> QED
      BY <1>5, <2>6, <2>8, <2>10, <3>1
  <2>13. Window(j) /\ Armed(j)
    BY <1>1, <1>5, <2>12 DEF Window, Armed
  <2> QED
    BY <1>2, <1>5, <2>2, <2>12, <2>13 DEF j
<1>6. CASE k.snd_max # k.bufEnd
  <2>1. d \in Connections
    BY SetState DEF Event
  <2>2. /\ d.fsm = k.fsm /\ d.active = k.active /\ d.ind = k.ind
        /\ d.sockstate = k.sockstate /\ d.iss = k.iss /\ d.bufEnd = k.bufEnd
        /\ d.bufStart = k.bufStart /\ d.fault = k.fault /\ d.timers = k.timers
        /\ d.snd_una = k.snd_una /\ d.snd_nxt = k.snd_nxt /\ d.snd_max = k.snd_max
        /\ d.rcv_nxt = k.rcv_nxt /\ d.rcvQueue = k.rcvQueue
        /\ d.fin_rcvd = k.fin_rcvd /\ d.rcv_fin_seq = k.rcv_fin_seq
        /\ d.delivered = k.delivered /\ d.event = "IGNORE" /\ d.out = k.out
        /\ d.fin_ack_rcvd = k.fin_ack_rcvd /\ d.lossRecovery = k.lossRecovery
        /\ d.recover = k.recover
    BY DEF Connections
  <2> HIDE DEF d
  <2>3. j = Marked(d)
    BY <1>3, <1>6
  <2>4. /\ j.fsm = k.fsm /\ j.active = k.active /\ j.ind = k.ind
        /\ j.sockstate = k.sockstate /\ j.iss = k.iss /\ j.bufEnd = k.bufEnd
        /\ j.bufStart = k.bufStart /\ j.fault = k.fault /\ j.timers = k.timers
        /\ j.snd_una = k.snd_una /\ j.snd_nxt = k.snd_nxt /\ j.snd_max = k.snd_max
        /\ j.rcv_nxt = k.rcv_nxt /\ j.rcvQueue = k.rcvQueue
        /\ j.fin_rcvd = k.fin_rcvd /\ j.rcv_fin_seq = k.rcv_fin_seq
        /\ j.delivered = k.delivered /\ j.event = "IGNORE" /\ j.out = k.out
        /\ j.fin_ack_rcvd = k.fin_ack_rcvd /\ j.lossRecovery = k.lossRecovery
        /\ j.recover = k.recover /\ j.send_fin = TRUE /\ j.snd_fin_seq = k.bufEnd
    BY <1>4, <2>1, <2>2, <2>3
  <2>5. Window(j) /\ Armed(j)
    BY <1>1, <1>6, <2>4 DEF Window, Armed
  <2> QED
    BY <1>2, <1>6, <2>4, <2>5 DEF j
<1> QED
  BY <1>5, <1>6

\* A connection that has been closed by its application, and may have sent its FIN.
LEMMA ShutFine ==
  ASSUME NEW e, NEW c, NEW p, At(e, c, p), c.fsm \in {"ESTABLISHED", "CLOSE_WAIT"},
         NEW j \in Connections, Window(j), Armed(j), j.send_fin, Application(j),
         j.ind = c.ind,
         j.iss = c.iss, j.bufEnd = c.bufEnd, j.snd_una = c.snd_una, j.fault = c.fault,
         j.rcv_nxt = c.rcv_nxt, j.rcvQueue = c.rcvQueue, j.fin_rcvd = c.fin_rcvd,
         j.rcv_fin_seq = c.rcv_fin_seq, j.delivered = c.delivered, c.snd_max <= j.snd_max,
         \/ j.fsm \in {"ESTABLISHED", "CLOSE_WAIT"} /\ j.out = {}
         \/ /\ j.fsm \in {"FIN_WAIT_1", "LAST_ACK"} /\ j.snd_max = j.bufEnd + 1
            /\ j.out = {Segment({"FIN", "ACK"}, j.bufEnd, j.rcv_nxt, 0)}
  PROVE  Fine(e, c, j, p)
<1>1. /\ c \in Connections /\ p \in Connections /\ SendSide(c) /\ ReceiveSide(c, p)
      /\ c.snd_una > c.iss => c.snd_una <= p.rcv_nxt
  BY SelfFine DEF At, Sides
<1>2. j.bufEnd \in Nat /\ j.snd_max \in Nat /\ j.rcv_nxt \in Nat
  BY Fields
<1>3. SendSide(j)
  BY <1>1 DEF SendSide, Unopened, Synchronized, Closing
<1>4. ReceiveSide(j, p) /\ p.iss < j.rcv_nxt
  <2>1. c.rcv_nxt # 0 /\ Received(c, p)
    BY <1>1 DEF ReceiveSide, Opened, Synchronized
  <2>2. Received(j, p)
    BY <2>1 DEF Received
  <2>3. p.iss < j.rcv_nxt
    BY <2>2 DEF Received
  <2> QED
    BY <2>1, <2>2, <2>3 DEF ReceiveSide
<1>5. RoleFits(e, j)
  BY DEF RoleFits
<1>6. Grown(c, j)
  BY <1>1, <1>2 DEF Grown
<1>7. \A s \in j.out : Sound(s, j, p.iss) /\ Opens(s, e)
  <2>1. CASE j.out = {}
    BY <2>1
  <2>2. CASE /\ j.snd_max = j.bufEnd + 1
             /\ j.out = {Segment({"FIN", "ACK"}, j.bufEnd, j.rcv_nxt, 0)}
    <3> DEFINE s == Segment({"FIN", "ACK"}, j.bufEnd, j.rcv_nxt, 0)
    <3>1. s.flags = {"FIN", "ACK"} /\ s.seq = j.bufEnd /\ s.ackNo = j.rcv_nxt /\ s.len = 0
      BY DEF Segment
    <3>2. j.out = {s}
      BY <2>2
    <3> HIDE DEF s
    <3>3. Sound(s, j, p.iss) /\ Opens(s, e)
      BY <1>2, <1>4, <2>2, <3>1 DEF Sound, Opens
    <3> QED
      BY <3>2, <3>3
  <2> QED
    BY <2>1, <2>2
<1>8. Serves(c, j)
  BY DEF Serves, EndOfStream, Told
<1> QED
  BY <1>1, <1>3, <1>4, <1>5, <1>6, <1>7, <1>8 DEF Fine

LEMMA CloseTransfer ==
  ASSUME ClosesInSynSent, TypeOK, TeardownInv, TransferInv, NEW e \in Endpoint, Close(e)
  PROVE  TransferInv' /\ Served(e)
<1> DEFINE c  == conn[e]
           p  == conn[Peer(e)]
           so == IF c.sockstate = "CONNECTED" THEN "LOCALLY_CLOSED" ELSE "CLOSED"
           b  == [c EXCEPT !.event = "CLOSE"]
           k  == [b EXCEPT !.sockstate = so]
           r  == CloseSending(k)
           i  == PerformStateTransition(r)
<1>1. At(e, c, p) /\ c \in Connections /\ p \in Connections /\ c.out = {}
  BY TransferAt, SelfFine
<1>2. /\ \/ c.sockstate = "PEER_CLOSED"
         \/ c.sockstate = "CONNECTED"
         \/ c.sockstate \in {"CONNECTING", "LISTENING"} /\ e \in EarlyClosers
      /\ \/ c.fsm \in {"LISTEN", "SYN_SENT"} /\ Do(e, PerformStateTransition(k))
         \/ c.fsm \in {"SYN_RCVD", "ESTABLISHED", "CLOSE_WAIT"} /\ Do(e, i)
  <2>1. k = [c EXCEPT !.event = "CLOSE",
                      !.sockstate = IF @ = "CONNECTED" THEN "LOCALLY_CLOSED" ELSE "CLOSED"]
    BY <1>1 DEF Connections
  <2>2. k.fsm = c.fsm
    BY <1>1 DEF Connections
  <2> HIDE DEF k, b, so
  <2> QED
    BY <2>1, <2>2 DEF Close, CanClose
<1> HIDE DEF c, p
<1>3. /\ SendSide(c) /\ Application(c) /\ RoleFits(e, c)
  BY <1>1 DEF At, Sides
<1>4. c.fsm \in {"SYN_SENT", "ESTABLISHED", "CLOSE_WAIT"}
  <2>1. c.fsm \in {"LISTEN", "SYN_RCVD"} => e \in EarlyClosers
    BY <1>2, <1>3 DEF Application
  <2>2. e \in EarlyClosers => e \notin PassiveOpeners /\ Peer(e) \notin ActiveOpeners
    BY DEF ClosesInSynSent
  <2> QED
    BY <1>2, <1>3, <2>1, <2>2 DEF RoleFits
<1>5. b \in Connections /\ so \in SockState /\ "CLOSE" \in Event
  BY <1>1, SetState DEF Event, SockState
<1>6. k \in Connections
  BY <1>5, SetState
<1>7. /\ SameBounds(c, k) /\ k.active = c.active /\ k.fault = c.fault
      /\ k.rcv_nxt = c.rcv_nxt /\ k.rcvQueue = c.rcvQueue /\ k.fin_rcvd = c.fin_rcvd
      /\ k.rcv_fin_seq = c.rcv_fin_seq /\ k.delivered = c.delivered
      /\ k.out = c.out /\ k.fsm = c.fsm /\ k.ind = c.ind /\ k.sockstate = so
      /\ k.timers = c.timers /\ k.event = "CLOSE"
  BY <1>1 DEF Connections, SameBounds
<1>8. Remains(e, c, c, p) => Remains(e, c, k, p)
  <2>1. Remains(e, c, c, p) => Remains(e, c, b, p)
    BY <1>1, <1>5, SetRemains
  <2> QED
    BY <1>5, <2>1, SetRemains
<1> HIDE DEF k
<1>9. k.active \in BOOLEAN /\ {"SYN_SENT", "ESTABLISHED", "CLOSE_WAIT"} \subseteq State
  BY <1>6, Fields DEF State
<1>10. CASE c.fsm = "SYN_SENT"
  <2>1. Remains(e, c, k, p)
    BY <1>1, <1>8, <1>10, AtRemains
  <2>2. Transition(k.fsm, k.event, k.active) = "CLOSED"
    BY <1>5, <1>7, <1>9, <1>10, TransitionTable
  <2>3. k.sockstate = "CLOSED"
    BY <1>3, <1>7, <1>10 DEF Application
  <2>4. Fine(e, c, PerformStateTransition(k), p)
    BY <1>1, <1>3, <1>7, <1>10, <2>1, <2>2, <2>3, ClosedFine
  <2> QED
    BY <1>2, <1>10, <2>4, StepTransfer DEF c, p
<1>11. CASE c.fsm \in {"ESTABLISHED", "CLOSE_WAIT"}
  <2> DEFINE now == c.snd_max = c.bufEnd
  <2>1. Window(c) /\ Armed(c)
    BY <1>3, <1>11 DEF SendSide, Synchronized
  <2>2. Window(k) /\ Armed(k)
    BY <1>7, <2>1, SameWindowKept DEF SameWindow
  <2>3. k.snd_max = c.snd_max /\ k.bufEnd = c.bufEnd /\ k.iss = c.iss /\ k.snd_una = c.snd_una
    BY <1>7 DEF SameBounds
  <2>4. /\ r \in Connections /\ Window(r) /\ Armed(r) /\ r.send_fin
        /\ r.fsm = k.fsm /\ r.active = k.active /\ r.ind = k.ind
        /\ r.sockstate = k.sockstate /\ r.iss = k.iss /\ r.bufEnd = k.bufEnd
        /\ r.snd_una = k.snd_una /\ r.fault = k.fault
        /\ r.rcv_nxt = k.rcv_nxt /\ r.rcvQueue = k.rcvQueue /\ r.fin_rcvd = k.fin_rcvd
        /\ r.rcv_fin_seq = k.rcv_fin_seq /\ r.delivered = k.delivered
        /\ r.snd_max = IF k.snd_max = k.bufEnd THEN k.bufEnd + 1 ELSE k.snd_max
        /\ r.event = IF k.snd_max = k.bufEnd THEN k.event ELSE "IGNORE"
        /\ r.out = IF k.snd_max = k.bufEnd
                     THEN k.out \cup {Segment({"FIN", "ACK"}, k.bufEnd, k.rcv_nxt, 0)}
                     ELSE k.out
    BY <1>6, <2>2, CloseSendingWindow
  <2> HIDE DEF r
  <2>5. /\ r.iss = c.iss /\ r.bufEnd = c.bufEnd /\ r.snd_una = c.snd_una /\ r.fault = c.fault
        /\ r.rcv_nxt = c.rcv_nxt /\ r.rcvQueue = c.rcvQueue /\ r.fin_rcvd = c.fin_rcvd
        /\ r.rcv_fin_seq = c.rcv_fin_seq /\ r.delivered = c.delivered
        /\ r.fsm = c.fsm /\ r.ind = c.ind /\ r.sockstate = so
    BY <1>7, <2>3, <2>4
  <2>6. c.snd_max \in Nat /\ c.bufEnd \in Nat
    BY <1>1, Fields
  <2>7. /\ c.fsm = "ESTABLISHED" => r.ind = Told1 /\ so = "LOCALLY_CLOSED"
        /\ c.fsm = "CLOSE_WAIT" => r.ind = Told2 /\ so = "CLOSED"
    BY <1>2, <1>3, <2>5 DEF Application
  <2>8. CASE ~now
    <3>1. r.event = "IGNORE" /\ r.out = {} /\ r.snd_max = c.snd_max
      BY <1>1, <1>7, <2>3, <2>4, <2>8
    <3>2. Application(r)
      BY <1>11, <2>4, <2>5, <2>7 DEF Application
    <3>3. Fine(e, c, r, p)
      BY <1>1, <1>11, <2>4, <2>5, <2>6, <3>1, <3>2, ShutFine
    <3>4. Fine(e, c, i, p)
      BY <3>1, <3>3, IgnoredFine
    <3> HIDE DEF i
    <3> QED
      BY <1>2, <1>11, <3>4, StepTransfer DEF c, p
  <2>9. CASE now
    <3> DEFINE t == IF c.fsm = "ESTABLISHED" THEN "FIN_WAIT_1" ELSE "LAST_ACK"
    <3>1. /\ r.event = "CLOSE" /\ r.snd_max = c.bufEnd + 1
          /\ r.out = {Segment({"FIN", "ACK"}, c.bufEnd, c.rcv_nxt, 0)}
      BY <1>1, <1>7, <2>3, <2>4, <2>9
    <3>2. Transition(r.fsm, r.event, r.active) = t
      <4>1. r.active \in BOOLEAN
        BY <2>4, Fields
      <4> QED
        BY <1>5, <1>9, <1>11, <2>5, <3>1, <4>1, TransitionTable
    <3>3. Telling(r, t) = <<>> /\ t # "CLOSED" /\ t \in {"FIN_WAIT_1", "LAST_ACK"}
      BY <1>11 DEF Telling
    <3> HIDE DEF t
    <3>4. /\ i \in Connections /\ SameData(r, i) /\ i.fsm = t
          /\ "REXMIT" \in i.timers <=> "REXMIT" \in r.timers /\ (t # "CLOSED" \/ t = r.fsm)
          /\ i.ind = r.ind /\ i.sockstate = r.sockstate
      BY <2>4, <3>2, <3>3, TransitedData
    <3> HIDE DEF i
    <3>5. SameWindow(r, i)
      BY <3>3, <3>4 DEF SameWindow, SameData
    <3>6. Window(i) /\ Armed(i)
      BY <2>4, <3>5, SameWindowKept
    <3>7. /\ i.iss = r.iss /\ i.bufEnd = r.bufEnd /\ i.snd_una = r.snd_una /\ i.fault = r.fault
          /\ i.rcv_nxt = r.rcv_nxt /\ i.rcvQueue = r.rcvQueue /\ i.fin_rcvd = r.fin_rcvd
          /\ i.rcv_fin_seq = r.rcv_fin_seq /\ i.delivered = r.delivered
          /\ i.snd_max = r.snd_max /\ i.out = r.out /\ i.send_fin = r.send_fin
      BY <3>4 DEF SameData, SameBounds
    <3>8. Application(i)
      <4>1. i.fsm = IF c.fsm = "ESTABLISHED" THEN "FIN_WAIT_1" ELSE "LAST_ACK"
        BY <3>4 DEF t
      <4> QED
        BY <1>11, <2>5, <2>7, <3>4, <4>1 DEF Application
    <3>9. Fine(e, c, i, p)
      <4>1. c.snd_max <= i.snd_max
        BY <2>6, <2>9, <3>1, <3>7
      <4>2. /\ i.fsm \in {"FIN_WAIT_1", "LAST_ACK"} /\ i.snd_max = i.bufEnd + 1
            /\ i.out = {Segment({"FIN", "ACK"}, i.bufEnd, i.rcv_nxt, 0)}
        BY <2>5, <3>1, <3>3, <3>4, <3>7
      <4>3. /\ i.iss = c.iss /\ i.bufEnd = c.bufEnd /\ i.snd_una = c.snd_una
            /\ i.fault = c.fault /\ i.rcv_nxt = c.rcv_nxt /\ i.rcvQueue = c.rcvQueue
            /\ i.fin_rcvd = c.fin_rcvd /\ i.rcv_fin_seq = c.rcv_fin_seq
            /\ i.delivered = c.delivered /\ i.send_fin /\ i.ind = c.ind
        BY <2>4, <2>5, <3>4, <3>7
      <4> QED
        BY <1>1, <1>11, <3>4, <3>6, <3>8, <4>1, <4>2, <4>3, ShutFine
    <3> QED
      BY <1>2, <1>11, <3>9, StepTransfer DEF c, p
  <2> QED
    BY <2>8, <2>9
<1> QED
  BY <1>4, <1>10, <1>11

LEMMA AbortTransfer ==
  ASSUME TypeOK, TeardownInv, TransferInv, NEW e \in Endpoint, Abort(e)
  PROVE  TransferInv' /\ Served(e)
<1> DEFINE c  == conn[e]
           p  == conn[Peer(e)]
           b  == [c EXCEPT !.event = "ABORT"]
           k  == [b EXCEPT !.sockstate = "CLOSED"]
           k1 == IF k.fsm \in {"SYN_RCVD", "ESTABLISHED", "FIN_WAIT_1", "FIN_WAIT_2",
                               "CLOSE_WAIT"}
                   THEN SendRst(k, k.snd_nxt) ELSE k
           i  == PerformStateTransition(k1)
<1>1. At(e, c, p) /\ c \in Connections /\ p \in Connections /\ c.out = {}
  BY TransferAt, SelfFine
<1>2. c.fsm \notin {"INIT", "CLOSED"} /\ Do(e, i)
  <2>1. k = [c EXCEPT !.event = "ABORT", !.sockstate = "CLOSED"]
    BY <1>1 DEF Connections
  <2>2. k.fsm = c.fsm
    BY <1>1 DEF Connections
  <2> HIDE DEF k
  <2> QED
    BY <2>1, <2>2 DEF Abort
<1> HIDE DEF c, p
<1>3. Application(c)
  BY <1>1 DEF At, Sides
<1>4. b \in Connections /\ "CLOSED" \in SockState /\ "ABORT" \in Event
  BY <1>1, SetState DEF Event, SockState
<1>5. k \in Connections
  BY <1>4, SetState
<1>6. /\ k.fsm = c.fsm /\ k.ind = c.ind /\ k.sockstate = "CLOSED" /\ k.event = "ABORT"
  BY <1>1 DEF Connections
<1>7. Remains(e, c, k, p)
  <2>1. Remains(e, c, c, p)
    BY <1>1, <1>2, AtRemains
  <2>2. Remains(e, c, b, p)
    BY <1>1, <1>4, <2>1, SetRemains
  <2> HIDE DEF b
  <2> QED
    BY <1>4, <2>2, SetRemains
<1> HIDE DEF k
<1>8. /\ k1 \in Connections /\ k1.fsm = c.fsm /\ k1.ind = c.ind
      /\ k1.sockstate = "CLOSED" /\ k1.event = "ABORT" /\ Remains(e, c, k1, p)
  <2>1. CASE k1 = k
    BY <1>5, <1>6, <1>7, <2>1
  <2>2. CASE k1 = SendRst(k, k.snd_nxt)
    <3> DEFINE s == Segment({"RST"}, k.snd_nxt, 0, 0)
               m == Emit(k, s)
    <3>1. s \in Segments
      BY <1>5, Fields, SegmentType DEF Flag
    <3>2. s.flags = {"RST"} /\ s.len = 0
      BY DEF Segment
    <3> HIDE DEF s
    <3>3. m \in Connections
      BY <1>5, <3>1, EmitType
    <3>4. /\ m.fsm = k.fsm /\ m.ind = k.ind /\ m.sockstate = k.sockstate /\ m.event = k.event
          /\ m.fault = k.fault /\ m.iss = k.iss /\ m.bufEnd = k.bufEnd
          /\ m.fin_ack_rcvd = k.fin_ack_rcvd /\ m.send_fin = k.send_fin
          /\ m.snd_una = k.snd_una /\ m.snd_max = k.snd_max
          /\ m.rcv_nxt = k.rcv_nxt /\ m.rcvQueue = k.rcvQueue /\ m.fin_rcvd = k.fin_rcvd
          /\ m.rcv_fin_seq = k.rcv_fin_seq /\ m.delivered = k.delivered
          /\ m.out = k.out \cup {s}
      BY <1>5 DEF Emit, Connections
    <3> HIDE DEF m
    <3>5. \A x \in m.out : Sound(x, m, p.iss) /\ Opens(x, e)
      <4>1. Sound(s, m, p.iss) /\ Opens(s, e)
        BY <3>2 DEF Sound, Opens
      <4>2. \A x \in k.out : Sound(x, m, p.iss) /\ Opens(x, e)
        BY <1>7, <3>4 DEF Remains, Sound
      <4> QED
        BY <3>4, <4>1, <4>2
    <3>6. Remains(e, c, m, p)
      BY <1>7, <3>3, <3>4, <3>5 DEF Remains, Received, Grown
    <3>7. k1 = m
      BY <2>2 DEF SendRst, m, s
    <3> QED
      BY <1>6, <3>3, <3>4, <3>6, <3>7
  <2> QED
    BY <2>1, <2>2
<1> HIDE DEF k1
<1>9. Transition(k1.fsm, k1.event, k1.active) = "CLOSED"
  <2>1. c.fsm \in State /\ k1.active \in BOOLEAN
    BY <1>1, <1>8, Fields
  <2> QED
    BY <1>2, <1>4, <1>8, <2>1, TransitionTable
<1>10. Fine(e, c, i, p)
  BY <1>1, <1>2, <1>3, <1>8, <1>9, ClosedFine
<1> HIDE DEF i
<1> QED
  BY <1>2, <1>10, StepTransfer DEF c, p
-----------------------------------------------------------------------------
(* The invariant.                                                          *)

LEMMA InitTransfer ==
  ASSUME Init
  PROVE  TransferInv
<1> SUFFICES ASSUME NEW e \in Endpoint
             PROVE  LET k == conn[e]  p == conn[Peer(e)]
                    IN /\ k.iss = Iss[e]
                       /\ RoleFits(e, k) /\ SendSide(k) /\ Application(k) /\ ReceiveSide(k, p)
                       /\ k.snd_una > k.iss => k.snd_una <= p.rcv_nxt
                       /\ \A s \in net[e] : Sound(s, p, Iss[e]) /\ Opens(s, Peer(e))
  BY DEF TransferInv
<1> DEFINE k == conn[e]
<1>1. k = NewConnection(e) /\ net[e] = {}
  BY DEF Init
<1>2. Iss[e] \in Nat
  BY ConstantsAssumption
<1>3. /\ k.fsm = "INIT" /\ k.iss = Iss[e] /\ k.snd_una = Iss[e] /\ k.snd_max = Iss[e]
      /\ k.bufStart = Iss[e] + 1 /\ k.bufEnd = Iss[e] + 1 /\ ~k.send_fin /\ ~k.fin_ack_rcvd
      /\ ~k.lossRecovery /\ k.timers = {} /\ ~k.fault
  BY <1>1 DEF NewConnection
<1>4. /\ k.rcv_nxt = 0 /\ k.rcvQueue = {} /\ ~k.fin_rcvd /\ k.delivered = 0
      /\ k.ind = <<>> /\ k.sockstate = "NOT_BOUND"
  BY <1>1 DEF NewConnection
<1> HIDE DEF k
<1>5. RoleFits(e, k) /\ Application(k)
  BY <1>3, <1>4 DEF RoleFits, Application
<1>6. SendSide(k)
  BY <1>2, <1>3 DEF SendSide, Fresh, Unopened, Synchronized, Closing
<1>7. ReceiveSide(k, conn[Peer(e)])
  BY <1>3, <1>4 DEF ReceiveSide, Opened, Synchronized, Closing
<1>8. ~(k.snd_una > k.iss)
  BY <1>2, <1>3
<1> QED
  BY <1>1, <1>3, <1>5, <1>6, <1>7, <1>8 DEF k

LEMMA ReceiveTransfer ==
  ASSUME TypeOK, TeardownInv, TransferInv, NEW e \in Endpoint, Receive(e)
  PROVE  TransferInv' /\ Served(e)
<1>1. PICK s \in net[e] :
        \/ ReceiveWhileClosed(e, s)
        \/ ReceiveInListen(e, s)
        \/ \E w \in Windows : ReceiveInSynSent(e, s, w)
        \/ ReceiveUnacceptable(e, s)
        \/ ReceiveRst(e, s)
        \/ ReceiveUnexpectedSyn(e, s)
        \/ \E w \in Windows : \E nx \in {conn[e].rcv_nxt, s.seq + 1}
                                \cup {u + 1 : u \in conn[e].rcvQueue} :
             ReceiveSegment(e, s, w, nx)
  BY DEF Receive
<1>2. CASE \E w \in Windows : ReceiveInSynSent(e, s, w)
  BY <1>2, WindowsType, ReceiveInSynSentTransfer
<1>3. CASE \E w \in Windows : \E nx \in {conn[e].rcv_nxt, s.seq + 1}
                                \cup {u + 1 : u \in conn[e].rcvQueue} :
             ReceiveSegment(e, s, w, nx)
  <2>1. conn[e] \in Connections
    BY DEF TypeOK
  <2>2. conn[e].rcv_nxt \in Nat /\ conn[e].rcvQueue \in SUBSET Nat
    BY <2>1, Fields
  <2>3. s.seq + 1 \in Nat
    BY DEF Segments, TypeOK
  <2>4. {u + 1 : u \in conn[e].rcvQueue} \subseteq Nat
    BY <2>2
  <2> QED
    BY <1>3, <2>2, <2>3, <2>4, WindowsType, ReceiveSegmentTransfer
<1> QED
  BY <1>1, <1>2, <1>3, ReceiveWhileClosedTransfer, ReceiveInListenTransfer,
     ReceiveUnacceptableTransfer, ReceiveRstTransfer, ReceiveUnexpectedSynTransfer

LEMMA NextTransfer ==
  ASSUME ClosesInSynSent, TypeOK, TeardownInv, TransferInv, [Next]_vars
  PROVE  TransferInv' /\ (conn' = conn \/ \E e \in Endpoint : Served(e))
<1>1. CASE UNCHANGED vars
  BY <1>1 DEF vars, TransferInv
<1>2. CASE Next
  <2>1. PICK e \in Endpoint : Command(e) \/ Timeout(e) \/ Receive(e) \/ Lose(e)
    BY <1>2 DEF Next
  <2>2. CASE Command(e)
    BY <2>2, ClosesInSynSent, OpenActiveTransfer, OpenPassiveTransfer, SendTransfer,
       CloseTransfer, AbortTransfer DEF Command
  <2>3. CASE Timeout(e)
    BY <2>3, SynRexmitTimeoutTransfer, ConnEstabTimeoutTransfer, MSLTimeoutTransfer,
       RexmitTimeoutTransfer, DelayedAckTimeoutTransfer DEF Timeout
  <2>4. CASE Receive(e)
    BY <2>4, ReceiveTransfer
  <2>5. CASE Lose(e)
    BY <2>5, LoseTransfer
  <2> QED
    BY <2>1, <2>2, <2>3, <2>4, <2>5
<1> QED
  BY <1>1, <1>2

\* The send side of one end, the receive side of the other and what is in
\* flight between them agree, and the applications have been told no more and
\* no less, whatever is lost or duplicated and whoever aborts.
THEOREM TransferCorrect ==
  ASSUME ClosesInSynSent
  PROVE  Spec => []TransferInv
<1>1. Init => TransferInv
  BY InitTransfer
<1>2. TypeOK /\ TeardownInv /\ TransferInv /\ [Next]_vars => TransferInv'
  BY ClosesInSynSent, NextTransfer
<1> QED
  BY <1>1, <1>2, TypeCorrect, TeardownCorrect, PTL DEF Spec
-----------------------------------------------------------------------------
(* The properties.                                                         *)

\* As long as no application closes in SYN_RCVD, no assertion of the
\* connection or of its send queue fails, and no timer throws.
THEOREM NothingFaults ==
  ASSUME ClosesInSynSent
  PROVE  Spec => []NoFault
<1>1. TransferInv => NoFault
  BY DEF TransferInv, SendSide, NoFault
<1> QED
  BY <1>1, TransferCorrect, PTL

\* The retransmission timer runs exactly while something is unacknowledged.
THEOREM RexmitFollowsFlight ==
  ASSUME ClosesInSynSent
  PROVE  Spec => []RexmitArmed
<1>1. TransferInv => RexmitArmed
  <2> SUFFICES ASSUME TransferInv, NEW e \in Endpoint, conn[e].fsm \in Synchronized
               PROVE  "REXMIT" \in conn[e].timers <=> conn[e].snd_una < conn[e].snd_max
    BY DEF RexmitArmed
  <2>1. Armed(conn[e])
    BY DEF TransferInv, SendSide
  <2> QED
    BY <2>1 DEF Armed
<1> QED
  BY <1>1, TransferCorrect, PTL

\* The two ends of a connection agree on what has been sent, received and
\* acknowledged, for any initial sequence numbers, windows and number of faults.
THEOREM EndsAgree ==
  ASSUME ClosesInSynSent
  PROVE  Spec => []Agreement
<1>1. TransferInv => Agreement
  <2> SUFFICES ASSUME TransferInv, NEW e \in Endpoint, conn[e].fsm \in Synchronized,
                      conn[Peer(e)].fsm \in Synchronized
               PROVE  LET k == conn[e]  p == conn[Peer(e)]
                      IN /\ k.iss < k.snd_una
                         /\ k.snd_una <= p.rcv_nxt /\ p.rcv_nxt <= k.snd_max
                         /\ k.snd_una <= k.snd_nxt /\ k.snd_nxt <= k.snd_max
    BY DEF Agreement
  <2> DEFINE k == conn[e]
             p == conn[Peer(e)]
  <2>1. Peer(e) \in Endpoint /\ Peer(Peer(e)) = e
    BY PeerOf
  <2>2. Window(k) /\ (k.snd_una > k.iss => k.snd_una <= p.rcv_nxt)
    BY DEF TransferInv, SendSide
  <2>3. ReceiveSide(p, k)
    BY <2>1 DEF TransferInv
  <2>4. p.rcv_nxt <= k.snd_max
    BY <2>3 DEF ReceiveSide, Received, Opened
  <2> HIDE DEF k, p
  <2>5. /\ k.iss < k.snd_una /\ k.snd_una <= k.snd_nxt /\ k.snd_nxt <= k.snd_max
        /\ k.snd_una <= p.rcv_nxt
    BY <2>2 DEF Window
  <2> QED
    BY <2>4, <2>5 DEF k, p
<1> QED
  BY <1>1, TransferCorrect, PTL

\* An end forgets its send queue only when the other application has all of it.
THEOREM FinAckedDelivered ==
  ASSUME ClosesInSynSent
  PROVE  Spec => []FinAcked
<1>1. TypeOK /\ TransferInv => FinAcked
  <2> SUFFICES ASSUME TypeOK, TransferInv, NEW e \in Endpoint, conn[e].fin_ack_rcvd
               PROVE  conn[Peer(e)].delivered = Sent(conn[e])
    BY DEF FinAcked
  <2> DEFINE k == conn[e]
             p == conn[Peer(e)]
  <2>1. Peer(e) \in Endpoint /\ Peer(Peer(e)) = e
    BY PeerOf
  <2>2. k \in Connections /\ p \in Connections
    BY <2>1 DEF TypeOK
  <2>3. SendSide(k) /\ ReceiveSide(p, k) /\ (k.snd_una > k.iss => k.snd_una <= p.rcv_nxt)
    BY <2>1 DEF TransferInv
  <2>4. k.fin_ack_rcvd
    OBVIOUS
  <2> HIDE DEF k, p
  <2>5. /\ k.fsm \in State /\ k.iss \in Nat /\ k.bufEnd \in Nat /\ k.snd_una \in Nat
        /\ p.rcv_nxt \in Nat
    BY <2>2, Fields
  <2>6. k.snd_una = k.bufEnd + 1 /\ k.iss < k.bufEnd
    <3>1. k.fsm \notin Unopened
      BY <2>3, <2>4 DEF SendSide, Fresh
    <3>2. k.fsm = "CLOSED" \/ k.fsm \in Synchronized
      BY <2>5, <3>1 DEF State, Unopened, Synchronized, Closing
    <3> QED
      BY <2>3, <2>4, <3>2 DEF SendSide, Window
  <2>7. p.rcv_nxt >= k.bufEnd + 1 /\ p.rcv_nxt # 0
    BY <2>3, <2>5, <2>6
  <2>8. Received(p, k)
    BY <2>3, <2>7 DEF ReceiveSide
  <2>9. p.delivered = k.bufEnd - (k.iss + 1)
    BY <2>5, <2>7, <2>8 DEF Received
  <2> QED
    BY <2>9 DEF Sent, k, p
<1> QED
  BY <1>1, TypeCorrect, TransferCorrect, PTL

\* A TCPSocket is never left thinking that its connection is up when it is gone.
THEOREM SocketsAgree ==
  ASSUME ClosesInSynSent
  PROVE  Spec => []SocketAgrees
<1>1. TypeOK /\ TransferInv => SocketAgrees
  <2> SUFFICES ASSUME TypeOK, TransferInv, NEW e \in Endpoint
               PROVE  LET k == conn[e]
                      IN /\ k.fsm = "CLOSED" => k.sockstate \in {"CLOSED", "SOCKERROR"}
                         /\ k.sockstate = "CONNECTED" => k.fsm = "ESTABLISHED"
                         /\ k.sockstate = "PEER_CLOSED" => k.fsm \in {"CLOSE_WAIT", "LAST_ACK"}
    BY DEF SocketAgrees
  <2> DEFINE k == conn[e]
  <2>1. k.fsm \in State
    BY Fields DEF TypeOK
  <2>2. Application(k)
    BY DEF TransferInv
  <2> HIDE DEF k
  <2>3. k.fsm = "CLOSED" => k.sockstate \in {"CLOSED", "SOCKERROR"}
    BY <2>2 DEF Application
  <2>4. k.fsm \notin {"ESTABLISHED", "CLOSE_WAIT", "LAST_ACK"} =>
          k.sockstate \in {"NOT_BOUND", "LISTENING", "CONNECTING", "LOCALLY_CLOSED",
                           "CLOSED", "SOCKERROR"}
    BY <2>1, <2>2 DEF Application, State
  <2>5. k.fsm = "ESTABLISHED" => k.sockstate \in {"CONNECTED", "LOCALLY_CLOSED"}
    BY <2>2 DEF Application
  <2>6. k.fsm \in {"CLOSE_WAIT", "LAST_ACK"} => k.sockstate \in {"PEER_CLOSED", "CLOSED"}
    BY <2>2 DEF Application
  <2> QED
    BY <2>3, <2>4, <2>5, <2>6 DEF k
<1> QED
  BY <1>1, TypeCorrect, TransferCorrect, PTL
-----------------------------------------------------------------------------
(* The order of the indications.                                           *)

Ordered(ind) ==
  \A i, j \in DOMAIN ind : i < j =>
    /\ ind[j] \notin {ind[i], "ESTABLISHED"}
    /\ ind[i] # "CLOSED"
    /\ ind[i] \in Failure => ind[j] = "CLOSED"
    /\ ind[j] = "PEER_CLOSED" => ind[i] = "ESTABLISHED"

\* x may follow everything in ind.
Follows(ind, x) ==
  \A i \in DOMAIN ind :
    /\ x \notin {ind[i], "ESTABLISHED"}
    /\ ind[i] # "CLOSED"
    /\ ind[i] \in Failure => x = "CLOSED"
    /\ x = "PEER_CLOSED" => ind[i] = "ESTABLISHED"

LEMMA AppendElements ==
  ASSUME NEW ind \in Seq(Indication), NEW x \in Indication
  PROVE  /\ Append(ind, x) \in Seq(Indication)
         /\ DOMAIN ind = 1 .. Len(ind) /\ Len(ind) \in Nat
         /\ DOMAIN Append(ind, x) = 1 .. (Len(ind) + 1)
         /\ \A i \in DOMAIN ind : Append(ind, x)[i] = ind[i]
         /\ Append(ind, x)[Len(ind) + 1] = x
OBVIOUS

LEMMA OrderedAppend ==
  ASSUME NEW ind \in Seq(Indication), NEW x \in Indication, Ordered(ind), Follows(ind, x)
  PROVE  Ordered(Append(ind, x))
<1> DEFINE n == Len(ind)  l == Append(ind, x)
<1>1. /\ DOMAIN ind = 1 .. n /\ n \in Nat /\ DOMAIN l = 1 .. (n + 1)
      /\ \A i \in DOMAIN ind : l[i] = ind[i]
      /\ l[n + 1] = x
  BY AppendElements
<1> HIDE DEF n, l
<1> SUFFICES ASSUME NEW i \in DOMAIN l, NEW j \in DOMAIN l, i < j
             PROVE  /\ l[j] \notin {l[i], "ESTABLISHED"}
                    /\ l[i] # "CLOSED"
                    /\ l[i] \in Failure => l[j] = "CLOSED"
                    /\ l[j] = "PEER_CLOSED" => l[i] = "ESTABLISHED"
  BY DEF Ordered, l
<1>2. i \in DOMAIN ind /\ l[i] = ind[i]
  BY <1>1
<1>3. CASE j \in DOMAIN ind
  <2>1. l[j] = ind[j]
    BY <1>1, <1>3
  <2> QED
    BY <1>2, <1>3, <2>1 DEF Ordered
<1>4. CASE j \notin DOMAIN ind
  <2>1. l[j] = x
    BY <1>1, <1>4
  <2> QED
    BY <1>2, <2>1 DEF Follows
<1> QED
  BY <1>3, <1>4

\* What may follow a sequence to which something has been added.
LEMMA FollowsAppend ==
  ASSUME NEW ind \in Seq(Indication), NEW x \in Indication, NEW y, Follows(ind, y),
         y \notin {x, "ESTABLISHED"}, x # "CLOSED", x \in Failure => y = "CLOSED",
         y = "PEER_CLOSED" => x = "ESTABLISHED"
  PROVE  Follows(Append(ind, x), y)
<1> DEFINE l == Append(ind, x)
<1>1. /\ DOMAIN ind = 1 .. Len(ind) /\ Len(ind) \in Nat /\ DOMAIN l = 1 .. (Len(ind) + 1)
      /\ \A i \in DOMAIN ind : l[i] = ind[i]
      /\ l[Len(ind) + 1] = x
  BY AppendElements
<1> HIDE DEF l
<1>2. ASSUME NEW i \in DOMAIN l PROVE (i \in DOMAIN ind /\ l[i] = ind[i]) \/ l[i] = x
  BY <1>1, <1>2
<1> QED
  BY <1>2 DEF Follows, l

\* Everything that an application can have been told is in order.
LEMMA ToldOrdered ==
  ASSUME NEW i \in {<<>>, Told1, Told2}
  PROVE  Ordered(i) /\ \A x \in Ends(i) : Ordered(x)
<1>1. /\ {"ESTABLISHED", "PEER_CLOSED", "CLOSED"} \subseteq Indication
      /\ Failure \subseteq Indication
  BY DEF Indication, Failure
<1>2. Told1 = Append(<<>>, "ESTABLISHED") /\ <<>> \in Seq(Indication)
  BY DEF Told1
<1>3. Ordered(<<>>) /\ \A x : Follows(<<>>, x)
  BY DEF Ordered, Follows
<1> DEFINE Last == Failure \cup {"CLOSED"}
<1>4. Told1 \in Seq(Indication) /\ Ordered(Told1)
  BY <1>1, <1>2, <1>3, OrderedAppend, AppendElements
<1>5. \A x \in Last \cup {"PEER_CLOSED"} : Follows(Told1, x)
  BY <1>1, <1>2, <1>3, FollowsAppend DEF Failure
<1>6. Told2 \in Seq(Indication) /\ Ordered(Told2)
  BY <1>1, <1>4, <1>5, OrderedAppend, AppendElements DEF Told2
<1>7. \A x \in Last : Follows(Told2, x)
  BY <1>1, <1>4, <1>5, FollowsAppend DEF Failure, Told2
<1>8. i \in Seq(Indication) /\ Ordered(i) /\ \A x \in Last : Follows(i, x)
  BY <1>2, <1>3, <1>4, <1>5, <1>6, <1>7
<1>9. Ordered(Append(i, "CLOSED"))
  BY <1>1, <1>8, OrderedAppend
<1>10. ASSUME NEW f \in Failure
       PROVE  Ordered(Append(i, f)) /\ Ordered(Append(Append(i, f), "CLOSED"))
  <2>1. f \in Indication /\ f \in Last /\ f # "CLOSED" /\ "CLOSED" \in Last
    BY <1>1 DEF Failure
  <2>2. Append(i, f) \in Seq(Indication) /\ Ordered(Append(i, f))
    BY <1>8, <2>1, OrderedAppend, AppendElements
  <2>3. Follows(Append(i, f), "CLOSED")
    BY <1>8, <2>1, FollowsAppend
  <2> QED
    BY <1>1, <2>2, <2>3, OrderedAppend
<1> QED
  BY <1>8, <1>9, <1>10 DEF Ends

LEMMA ApplicationOrdered ==
  ASSUME NEW k \in Connections, Application(k)
  PROVE  Ordered(k.ind)
<1>1. k.fsm \in State
  BY Fields
<1>2. CASE k.fsm = "CLOSED"
  <2>1. PICK i \in {<<>>, Told1, Told2} : k.ind = i \/ k.ind \in Ends(i)
    BY <1>2 DEF Application
  <2> QED
    BY <2>1, ToldOrdered
<1>3. CASE k.fsm = "TIME_WAIT"
  BY <1>3, ToldOrdered DEF Application, Ends
<1>4. CASE k.fsm \notin {"CLOSED", "TIME_WAIT"}
  <2>1. k.ind \in {<<>>, Told1, Told2}
    BY <1>1, <1>4 DEF Application, State
  <2> QED
    BY <2>1, ToldOrdered
<1> QED
  BY <1>2, <1>3, <1>4

\* Whatever segments, timeouts, commands and resets come in whatever order, an
\* application is told what became of its connection in an order it can follow.
THEOREM IndicationsInOrder ==
  ASSUME ClosesInSynSent
  PROVE  Spec => []IndicationOrder
<1>1. TypeOK /\ TransferInv => IndicationOrder
  <2> SUFFICES ASSUME TypeOK, TransferInv, NEW e \in Endpoint
               PROVE  Ordered(conn[e].ind)
    BY DEF IndicationOrder, Ordered
  <2>1. conn[e] \in Connections /\ Application(conn[e])
    BY DEF TypeOK, TransferInv
  <2> QED
    BY <2>1, ApplicationOrdered
<1> QED
  BY <1>1, TypeCorrect, TransferCorrect, PTL
-----------------------------------------------------------------------------
(* The two streams.                                                        *)

\* An application that has been told that the peer's stream is complete has
\* been given the whole of it, and the peer writes no more.
Heard ==
  \A e \in Endpoint :
    EndOfStream(conn[e]) =>
      conn[Peer(e)].send_fin /\ conn[e].delivered = Sent(conn[Peer(e)])

LEMMA StreamBounds ==
  ASSUME NEW k \in Connections, NEW p \in Connections, ReceiveSide(k, p), p.iss < p.bufEnd
  PROVE  /\ k.delivered \in Nat /\ Sent(p) \in Nat /\ k.delivered <= Sent(p)
         /\ k.rcv_nxt # 0 => k.delivered = IF k.rcv_nxt <= p.bufEnd
                                           THEN k.rcv_nxt - (p.iss + 1) ELSE Sent(p)
<1>1. k.rcv_nxt \in Nat /\ k.delivered \in Nat /\ p.iss \in Nat /\ p.bufEnd \in Nat
  BY Fields
<1>2. Sent(p) \in Nat
  BY <1>1 DEF Sent
<1>3. CASE k.rcv_nxt = 0
  BY <1>1, <1>2, <1>3 DEF ReceiveSide
<1>4. CASE k.rcv_nxt # 0
  <2>1. k.delivered = (IF k.rcv_nxt <= p.bufEnd THEN k.rcv_nxt ELSE p.bufEnd) - (p.iss + 1)
    BY <1>4 DEF ReceiveSide, Received
  <2> QED
    BY <1>1, <1>2, <2>1 DEF Sent
<1> QED
  BY <1>3, <1>4

\* An end that has received more has delivered no less.
LEMMA StreamGrows ==
  ASSUME NEW k \in Connections, NEW j \in Connections, NEW p \in Connections,
         ReceiveSide(k, p), ReceiveSide(j, p), p.iss < p.bufEnd, k.rcv_nxt <= j.rcv_nxt
  PROVE  k.delivered <= j.delivered
<1>1. /\ k.rcv_nxt \in Nat /\ j.rcv_nxt \in Nat /\ p.iss \in Nat /\ p.bufEnd \in Nat
      /\ j.delivered \in Nat
  BY Fields
<1>2. CASE k.rcv_nxt = 0
  BY <1>1, <1>2 DEF ReceiveSide
<1>3. CASE k.rcv_nxt # 0
  <2>1. j.rcv_nxt # 0
    BY <1>1, <1>3
  <2>2. /\ k.delivered = IF k.rcv_nxt <= p.bufEnd THEN k.rcv_nxt - (p.iss + 1) ELSE Sent(p)
        /\ j.delivered = IF j.rcv_nxt <= p.bufEnd THEN j.rcv_nxt - (p.iss + 1) ELSE Sent(p)
    BY <1>3, <2>1, StreamBounds
  <2> QED
    BY <1>1, <2>2 DEF Sent
<1> QED
  BY <1>2, <1>3

\* An end that is past the peer's FIN has delivered all that the peer sent.
Complete ==
  \A e \in Endpoint :
    conn[e].fsm \in PeerFinSeen =>
      conn[Peer(e)].send_fin /\ conn[e].delivered = Sent(conn[Peer(e)])

LEMMA StreamComplete == TypeOK /\ TeardownInv /\ TransferInv => Complete
<1> SUFFICES ASSUME TypeOK, TeardownInv, TransferInv, NEW e \in Endpoint,
                    conn[e].fsm \in PeerFinSeen
             PROVE  conn[Peer(e)].send_fin /\ conn[e].delivered = Sent(conn[Peer(e)])
  BY DEF Complete
<1> DEFINE k == conn[e]
           p == conn[Peer(e)]
<1>1. At(e, k, p)
  BY TransferAt
<1>2. FinAt(p, k.rcv_nxt - 1)
  BY DEF TeardownInv, FinKnown
<1> HIDE DEF k, p
<1>3. /\ k \in Connections /\ p \in Connections /\ ReceiveSide(k, p) /\ p.iss < p.bufEnd
      /\ p.send_fin => p.snd_fin_seq = p.bufEnd
  BY <1>1 DEF At, Sides
<1>4. k.rcv_nxt \in Nat /\ p.bufEnd \in Nat
  BY <1>3, Fields
<1>5. p.send_fin /\ k.rcv_nxt = p.bufEnd + 1
  BY <1>2, <1>3, <1>4 DEF FinAt
<1>6. k.delivered = Sent(p)
  BY <1>3, <1>4, <1>5, StreamBounds
<1> QED
  BY <1>5, <1>6 DEF k, p

\* What a step of e leaves of the streams in both directions.
LEMMA ServedStreams ==
  ASSUME TypeOK, TypeOK', TeardownInv, TeardownInv', TransferInv, TransferInv',
         NEW e \in Endpoint, Served(e)
  PROVE  LET c == conn[e]  j == conn'[e]  p == conn[Peer(e)]
         IN /\ c.delivered \in Nat /\ j.delivered \in Nat /\ Sent(c) \in Nat /\ Sent(p) \in Nat
            /\ c.delivered <= j.delivered /\ j.delivered <= Sent(p)
            /\ j.rcv_nxt = c.rcv_nxt => j.delivered = c.delivered
            /\ j.bufEnd = c.bufEnd => Sent(j) = Sent(c)
            /\ j.bufEnd = c.bufEnd + 1 => Sent(j) = Sent(c) + 1
<1> DEFINE c == conn[e]
           j == conn'[e]
           p == conn[Peer(e)]
<1>1. Peer(e) \in Endpoint /\ Peer(Peer(e)) = e
  BY PeerOf
<1>2. /\ c \in Connections /\ j \in Connections /\ p \in Connections
      /\ conn'[Peer(e)] = p /\ c.rcv_nxt <= j.rcv_nxt
  BY <1>1 DEF TypeOK, Served
<1>3. ReceiveSide(c, p) /\ ReceiveSide(j, p) /\ ReceiveSide(p, c)
  BY <1>1, <1>2 DEF TransferInv
<1>4. c.iss = Iss[e] /\ j.iss = Iss[e] /\ p.iss < p.bufEnd /\ c.iss < c.bufEnd
  BY <1>1 DEF TransferInv, SendSide
<1> HIDE DEF c, j, p
<1>5. c.delivered \in Nat /\ Sent(p) \in Nat /\ j.delivered \in Nat /\ j.delivered <= Sent(p)
  BY <1>2, <1>3, <1>4, StreamBounds
<1>6. Sent(c) \in Nat
  BY <1>2, <1>3, <1>4, StreamBounds
<1>7. c.delivered <= j.delivered
  BY <1>2, <1>3, <1>4, StreamGrows
<1>8. j.rcv_nxt = c.rcv_nxt => j.delivered = c.delivered
  <2> SUFFICES ASSUME j.rcv_nxt = c.rcv_nxt PROVE j.delivered <= c.delivered
    BY <1>5, <1>7
  <2>1. j.rcv_nxt <= c.rcv_nxt
    BY <1>2
  <2> QED
    BY <1>2, <1>3, <1>4, <2>1, StreamGrows
<1>9. /\ j.bufEnd = c.bufEnd => Sent(j) = Sent(c)
      /\ j.bufEnd = c.bufEnd + 1 => Sent(j) = Sent(c) + 1
  <2>1. c.bufEnd \in Nat /\ c.iss \in Nat /\ j.iss = c.iss
    BY <1>2, <1>4, Fields
  <2> QED
    BY <2>1 DEF Sent
<1> QED
  BY <1>5, <1>6, <1>7, <1>8, <1>9 DEF c, j, p

LEMMA HeardStep ==
  ASSUME TypeOK, TypeOK', TeardownInv, TeardownInv', TransferInv, TransferInv', Heard,
         conn' = conn \/ \E e \in Endpoint : Served(e)
  PROVE  Heard'
<1>0. Complete /\ Complete'
  BY StreamComplete, PTL
<1>1. CASE conn' = conn
  BY <1>1 DEF Heard, EndOfStream, Told
<1>2. CASE \E e \in Endpoint : Served(e)
  <2>1. PICK e \in Endpoint : Served(e)
    BY <1>2
  <2> DEFINE c == conn[e]
             j == conn'[e]
             p == conn[Peer(e)]
  <2>2. /\ Peer(e) \in Endpoint /\ Peer(Peer(e)) = e /\ Endpoint = {e, Peer(e)}
        /\ conn'[Peer(e)] = p /\ Serves(c, j)
    BY <2>1, PeerOf DEF Served
  <2>3. /\ c.delivered \in Nat /\ j.delivered \in Nat /\ Sent(p) \in Nat
        /\ c.delivered <= j.delivered /\ j.delivered <= Sent(p)
        /\ j.bufEnd = c.bufEnd => Sent(j) = Sent(c)
    BY <2>1, ServedStreams
  <2>4. EndOfStream(j) => p.send_fin /\ j.delivered = Sent(p)
    <3>1. CASE EndOfStream(c)
      <4>1. p.send_fin /\ c.delivered = Sent(p)
        BY <3>1 DEF Heard
      <4> HIDE DEF c, j, p
      <4> QED
        BY <2>3, <4>1
    <3>2. CASE c.fsm \in PeerFinSeen
      <4>1. p.send_fin /\ c.delivered = Sent(p)
        BY <1>0, <3>2 DEF Complete
      <4> HIDE DEF c, j, p
      <4> QED
        BY <2>3, <4>1
    <3>3. CASE j.fsm \in PeerFinSeen
      <4>1. conn'[Peer(e)].send_fin /\ j.delivered = Sent(conn'[Peer(e)])
        BY <1>0, <3>3 DEF Complete
      <4> QED
        BY <2>2, <4>1
    <3> QED
      BY <2>2, <3>1, <3>2, <3>3 DEF Serves
  <2>5. EndOfStream(p) => j.send_fin /\ p.delivered = Sent(j)
    <3> SUFFICES ASSUME EndOfStream(p) PROVE j.send_fin /\ p.delivered = Sent(j)
      OBVIOUS
    <3>1. c.send_fin /\ p.delivered = Sent(c)
      BY <2>2 DEF Heard
    <3> HIDE DEF c, j, p
    <3>2. j.bufEnd = c.bufEnd /\ j.send_fin
      BY <2>2, <3>1 DEF Serves
    <3> QED
      BY <2>3, <3>1, <3>2
  <2>6. ASSUME NEW f \in Endpoint, EndOfStream(conn'[f])
        PROVE  conn'[Peer(f)].send_fin /\ conn'[f].delivered = Sent(conn'[Peer(f)])
    <3>1. f = e \/ f = Peer(e)
      BY <2>2
    <3> QED
      BY <2>2, <2>4, <2>5, <2>6, <3>1
  <2> QED
    BY <2>6 DEF Heard, EndOfStream, Told, Sent
<1> QED
  BY <1>1, <1>2

LEMMA HeardInit == Init => Heard
<1> SUFFICES ASSUME Init, NEW e \in Endpoint PROVE ~EndOfStream(conn[e])
  BY DEF Heard
<1>1. conn[e].ind = <<>>
  BY DEF Init, NewConnection
<1> QED
  BY <1>1, ToldOf DEF EndOfStream

LEMMA ServiceInit == Init => Service!Init
<1> SUFFICES ASSUME Init PROVE Service!Init
  OBVIOUS
<1>1. ASSUME NEW e \in Endpoint
      PROVE  /\ Sent(conn[e]) = 0 /\ conn[e].send_fin = FALSE
             /\ conn[Peer(e)].delivered = 0 /\ EndOfStream(conn[Peer(e)]) = FALSE
  <2>1. Peer(e) \in Endpoint /\ Iss[e] \in Nat
    BY PeerOf, ConstantsAssumption
  <2>2. conn[e] = NewConnection(e) /\ conn[Peer(e)] = NewConnection(Peer(e))
    BY <2>1 DEF Init
  <2>3. /\ conn[e].bufEnd = Iss[e] + 1 /\ conn[e].iss = Iss[e] /\ conn[e].send_fin = FALSE
        /\ conn[Peer(e)].delivered = 0 /\ conn[Peer(e)].ind = <<>>
    BY <2>2 DEF NewConnection
  <2>4. ~EndOfStream(conn[Peer(e)])
    BY <2>3, ToldOf DEF EndOfStream
  <2> QED
    BY <2>1, <2>3, <2>4 DEF Sent, EndOfStream
<1> QED
  BY <1>1 DEF Service!Init

\* A step of e, seen as a step of the two streams: e writes to its own stream or
\* closes it, or reads the stream of its peer.
LEMMA ServedImage ==
  ASSUME TypeOK, TypeOK', TeardownInv, TeardownInv', TransferInv, TransferInv', Heard, Heard',
         NEW e \in Endpoint, Served(e)
  PROVE  [Service!Next]_(Service!vars)
<1> DEFINE c == conn[e]
           j == conn'[e]
           q == Peer(e)
           p == conn[q]
<1>1. /\ q \in Endpoint /\ Peer(q) = e /\ Endpoint = {e, q} /\ q # e
      /\ conn'[q] = p /\ Serves(c, j)
  BY PeerOf DEF Served
<1>2. /\ c.delivered \in Nat /\ j.delivered \in Nat /\ Sent(c) \in Nat /\ Sent(p) \in Nat
      /\ c.delivered <= j.delivered /\ j.delivered <= Sent(p)
      /\ j.rcv_nxt = c.rcv_nxt => j.delivered = c.delivered
      /\ j.bufEnd = c.bufEnd => Sent(j) = Sent(c)
      /\ j.bufEnd = c.bufEnd + 1 => Sent(j) = Sent(c) + 1
  BY ServedStreams
<1>3. /\ EndOfStream(c) => p.send_fin /\ c.delivered = Sent(p)
      /\ EndOfStream(j) => p.send_fin /\ j.delivered = Sent(p)
  <2>1. EndOfStream(j) => conn'[q].send_fin /\ j.delivered = Sent(conn'[q])
    BY DEF Heard, EndOfStream, Told, Sent
  <2> QED
    BY <1>1, <2>1 DEF Heard
<1>4. c \in Connections /\ j \in Connections
  BY DEF TypeOK
<1> DEFINE sent      == [f \in Endpoint |-> Sent(conn[f])]
           shut      == [f \in Endpoint |-> conn[f].send_fin]
           delivered == [f \in Endpoint |-> conn[Peer(f)].delivered]
           eof       == [f \in Endpoint |-> EndOfStream(conn[Peer(f)])]
<1>5. /\ sent' = [sent EXCEPT ![e] = Sent(j)] /\ shut' = [shut EXCEPT ![e] = j.send_fin]
      /\ delivered' = [delivered EXCEPT ![q] = j.delivered]
      /\ eof' = [eof EXCEPT ![q] = EndOfStream(j)]
  <2>1. \A f \in Endpoint \ {e} : Sent(conn'[f]) = Sent(conn[f]) /\ conn'[f] = conn[f]
    BY <1>1
  <2>2. \A f \in Endpoint \ {q} : conn'[Peer(f)] = conn[Peer(f)]
    BY <1>1
  <2>3. sent' = [f \in Endpoint |-> Sent(conn'[f])]
    BY DEF Sent
  <2>4. eof' = [f \in Endpoint |-> EndOfStream(conn'[Peer(f)])]
    BY DEF EndOfStream, Told
  <2>5. sent' = [sent EXCEPT ![e] = Sent(j)] /\ shut' = [shut EXCEPT ![e] = j.send_fin]
    BY <2>1, <2>3
  <2>6. delivered' = [delivered EXCEPT ![q] = j.delivered]
        /\ eof' = [eof EXCEPT ![q] = EndOfStream(j)]
    BY <1>1, <2>2, <2>4
  <2> QED
    BY <2>5, <2>6
<1>6. /\ sent[e] = Sent(c) /\ shut[e] = c.send_fin /\ sent[q] = Sent(p) /\ shut[q] = p.send_fin
      /\ delivered[q] = c.delivered /\ eof[q] = EndOfStream(c)
  BY <1>1
<1>7. /\ sent[e] = Sent(j) => sent' = sent
      /\ shut[e] = j.send_fin => shut' = shut
      /\ delivered[q] = j.delivered => delivered' = delivered
      /\ eof[q] = EndOfStream(j) => eof' = eof
  BY <1>5
<1>8. CASE j.bufEnd = c.bufEnd /\ j.send_fin = c.send_fin
  <2>1. sent' = sent /\ shut' = shut
    BY <1>2, <1>6, <1>7, <1>8
  <2>2. CASE EndOfStream(c)
    <3>1. EndOfStream(j) /\ EndOfStream(j) = EndOfStream(c)
      BY <1>1, <2>2 DEF Serves, EndOfStream
    <3>2. j.delivered = c.delivered
      BY <1>2, <1>3, <2>2
    <3> QED
      BY <1>6, <1>7, <2>1, <3>1, <3>2 DEF Service!vars
  <2>3. CASE ~EndOfStream(c)
    <3>1. j.delivered \in delivered[q] .. sent[q]
      BY <1>2, <1>6
    <3>2. \/ eof' = eof
          \/ shut[q] /\ delivered'[q] = sent[q] /\ eof' = [eof EXCEPT ![q] = TRUE]
      <4>1. CASE EndOfStream(j)
        <5>1. EndOfStream(j) = TRUE
          BY <4>1 DEF EndOfStream
        <5>2. delivered'[q] = j.delivered
          BY <1>1, <1>5
        <5> QED
          BY <1>2, <1>3, <1>5, <1>6, <4>1, <5>1, <5>2
      <4>2. CASE ~EndOfStream(j)
        <5>1. EndOfStream(j) = EndOfStream(c)
          BY <2>3, <4>2 DEF EndOfStream
        <5>2. eof' = eof
          BY <1>6, <1>7, <5>1
        <5> QED
          BY <5>2
      <4> QED
        BY <4>1, <4>2
    <3>3. Service!Read(q)
      BY <1>5, <1>6, <2>1, <2>3, <3>1, <3>2 DEF Service!Read
    <3> QED
      BY <1>1, <3>3 DEF Service!Next
  <2> QED
    BY <2>2, <2>3
<1>9. CASE j.ind = c.ind /\ j.rcv_nxt = c.rcv_nxt
  <2>1. EndOfStream(j) = EndOfStream(c)
    BY <1>9 DEF EndOfStream, Told
  <2>2. delivered' = delivered /\ eof' = eof
    BY <1>2, <1>6, <1>7, <1>9, <2>1
  <2>3. CASE j.bufEnd = c.bufEnd + 1 /\ ~c.send_fin /\ ~j.send_fin
    <3>1. j.send_fin = c.send_fin
      BY <1>4, <2>3, Fields
    <3>2. shut' = shut /\ sent' = [sent EXCEPT ![e] = sent[e] + 1] /\ ~shut[e]
      BY <1>2, <1>5, <1>6, <1>7, <2>3, <3>1
    <3>3. Service!Write(e)
      BY <2>2, <3>2 DEF Service!Write
    <3> QED
      BY <3>3 DEF Service!Next
  <2>4. CASE j.bufEnd = c.bufEnd /\ j.send_fin
    <3>1. j.send_fin = TRUE
      BY <1>4, <2>4, Fields
    <3>2. sent' = sent /\ shut' = [shut EXCEPT ![e] = TRUE]
      BY <1>2, <1>5, <1>6, <1>7, <2>4, <3>1
    <3>3. Service!Shut(e)
      BY <2>2, <3>2 DEF Service!Shut
    <3> QED
      BY <3>3 DEF Service!Next
  <2>5. CASE j.bufEnd = c.bufEnd /\ j.send_fin = c.send_fin
    BY <1>8, <2>5
  <2> QED
    BY <1>1, <2>3, <2>4, <2>5 DEF Serves
<1> QED
  BY <1>1, <1>8, <1>9 DEF Serves

LEMMA ServiceStutter ==
  ASSUME conn' = conn
  PROVE  UNCHANGED Service!vars
BY DEF Service!vars, Sent, EndOfStream, Told

\* As long as no application closes in SYN_RCVD, the pair of ends is two byte
\* streams: each application is given what the other has sent, once and in order,
\* and is told that it has all of it only when that is so.
THEOREM ServiceImplemented ==
  ASSUME ClosesInSynSent
  PROVE  Spec => ImplementsService
<1>1. Init => Service!Init /\ Heard
  BY ServiceInit, HeardInit
<1>2. TypeOK /\ TypeOK' /\ TeardownInv /\ TeardownInv' /\ TransferInv /\ Heard /\ [Next]_vars
        => Heard' /\ [Service!Next]_(Service!vars)
  <2> SUFFICES ASSUME TypeOK, TypeOK', TeardownInv, TeardownInv', TransferInv, Heard,
                      [Next]_vars
               PROVE  Heard' /\ [Service!Next]_(Service!vars)
    OBVIOUS
  <2>1. TransferInv' /\ (conn' = conn \/ \E e \in Endpoint : Served(e))
    BY ClosesInSynSent, NextTransfer
  <2>2. Heard'
    BY <2>1, HeardStep
  <2>3. [Service!Next]_(Service!vars)
    BY <2>1, <2>2, ServedImage, ServiceStutter
  <2> QED
    BY <2>2, <2>3
<1> QED
  BY <1>1, <1>2, TypeCorrect, TeardownCorrect, TransferCorrect,
     PTL DEF Spec, ImplementsService, Service!Spec
=============================================================================
