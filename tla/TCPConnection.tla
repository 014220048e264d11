--------------------------- MODULE TCPConnection ---------------------------
(***************************************************************************)
(* Two TCPConnection objects, one at each end of a socket pair, with the   *)
(* socket commands, the segment handlers and the timers of                 *)
(* transport/tcp/TCPConnection*.cc and of flavours/TCPBaseAlg.cc.          *)
(*                                                                         *)
(* A connection is a record that holds the TCB, the timers that are        *)
(* scheduled and the state of the application's TCPSocket.  A handler of   *)
(* the code is an operator that takes the record to its next value, in the *)
(* order of the code's statements; `out' collects the segments the handler *)
(* gives to IP and `event' is the code's local variable of that name.      *)
(*                                                                         *)
(* The congestion control flavour is TCPNewReno.  One unit of data stands   *)
(* for one full-sized segment.  The congestion and the send window are the  *)
(* parameter w of a step: how far beyond snd_una sendData() may go in it.   *)
(* Sequence numbers do not wrap.                                           *)
(***************************************************************************)
EXTENDS Integers, Sequences, FiniteSets, TCPState

CONSTANTS
  Client, Server,      \* the two ends
  Iss,                 \* Iss[e]: initial send sequence number of end e
  ActiveOpeners,       \* ends whose application may call connect()
  PassiveOpeners,      \* ends whose application may call listen()
  MaxSend,             \* MaxSend[e]: units the application of e may send
  FirstClosers,        \* ends that may close() before the peer did
  EarlyClosers,        \* ends that may close() before being connected
  Aborters,            \* ends whose application may abort()
  DelayedAcks,         \* parameter delayedAcksEnabled
  DUPTHRESH,           \* duplicate ACKs that mean a loss
  MAX_REXMIT_COUNT,    \* retransmissions before giving up
  MaxSynRexmit,        \* SYN retransmissions that fit into CONN_ESTAB
  MaxCwnd,             \* bound of the window w
  MaxFaults            \* bound on lost and duplicated segments and early timeouts

Endpoint == {Client, Server}
Peer(e) == IF e = Client THEN Server ELSE Client

ASSUME ConstantsAssumption ==
  /\ Client # Server
  /\ Iss \in [Endpoint -> Nat \ {0}]
  /\ MaxSend \in [Endpoint -> Nat]
  /\ \A S \in {ActiveOpeners, PassiveOpeners, FirstClosers, EarlyClosers, Aborters} :
       S \subseteq Endpoint
  /\ DelayedAcks \in BOOLEAN
  /\ DUPTHRESH \in Nat \ {0} /\ MaxCwnd \in Nat \ {0}
  /\ MAX_REXMIT_COUNT \in Nat /\ MaxSynRexmit \in Nat /\ MaxFaults \in Nat

VARIABLES
  conn,     \* conn[e]: the connection record of end e
  net,      \* net[e]: the segments in flight to e
  faults    \* losses, duplications and early timeouts so far

vars == <<conn, net, faults>>
-----------------------------------------------------------------------------
(* Segments, timers, indications and the connection record.                *)

Flag == {"SYN", "ACK", "FIN", "RST"}
Segments == [flags : SUBSET Flag, seq : Nat, ackNo : Nat, len : Nat]
Segment(flags, seq, ackNo, len) ==
  [flags |-> flags, seq |-> seq, ackNo |-> ackNo, len |-> len]

SetupTimers == {"CONN_ESTAB", "SYN_REXMIT"}
Timer == SetupTimers \cup {"2MSL", "FIN_WAIT_2", "REXMIT", "DELAYEDACK"}

Indication == {"ESTABLISHED", "PEER_CLOSED", "CLOSED", "CONNECTION_REFUSED",
               "CONNECTION_RESET", "TIMED_OUT"}
SockState == {"NOT_BOUND", "LISTENING", "CONNECTING", "CONNECTED",
              "PEER_CLOSED", "LOCALLY_CLOSED", "CLOSED", "SOCKERROR"}

Connections ==
  [fsm : State, active : BOOLEAN, event : Event, iss : Nat,
   snd_una : Nat, snd_nxt : Nat, snd_max : Nat,
   bufStart : Nat, bufEnd : Nat,              \* the send queue [bufStart, bufEnd)
   send_fin : BOOLEAN, snd_fin_seq : Nat, fin_ack_rcvd : BOOLEAN,
   afterRto : BOOLEAN, dupacks : Nat, lossRecovery : BOOLEAN, recover : Int,
   rexmit_count : Nat, syn_rexmit_count : Nat,
   rcv_nxt : Nat, rcvQueue : SUBSET Nat,      \* units received above rcv_nxt
   fin_rcvd : BOOLEAN, rcv_fin_seq : Nat,
   ack_now : BOOLEAN, full_sized : Nat, last_ack_sent : Nat,
   timers : SUBSET Timer, sockstate : SockState,
   ind : Seq(Indication),                     \* indications given to the application
   delivered : Nat,                           \* units given to the application
   fault : BOOLEAN,                           \* an ASSERT failed or an error was thrown
   out : SUBSET Segments]

\* The object as the TCPConnection constructor and initConnection() leave it.
NewConnection(e) ==
  [fsm |-> "INIT", active |-> FALSE, event |-> "IGNORE", iss |-> Iss[e],
   snd_una |-> Iss[e], snd_nxt |-> Iss[e], snd_max |-> Iss[e],
   bufStart |-> Iss[e] + 1, bufEnd |-> Iss[e] + 1,
   send_fin |-> FALSE, snd_fin_seq |-> 0, fin_ack_rcvd |-> FALSE,
   afterRto |-> FALSE, dupacks |-> 0, lossRecovery |-> FALSE, recover |-> 0,
   rexmit_count |-> 0, syn_rexmit_count |-> 0,
   rcv_nxt |-> 0, rcvQueue |-> {}, fin_rcvd |-> FALSE, rcv_fin_seq |-> 0,
   ack_now |-> FALSE, full_sized |-> 0, last_ack_sent |-> 0,
   timers |-> {}, sockstate |-> "NOT_BOUND", ind |-> <<>>, delivered |-> 0,
   fault |-> FALSE, out |-> {}]

Init ==
  /\ conn = [e \in Endpoint |-> NewConnection(e)]
  /\ net = [e \in Endpoint |-> {}]
  /\ faults = 0
-----------------------------------------------------------------------------
(* Timers, indications and the state transition.                           *)

\* ASSERT(p), or an exception thrown unless p.
Assert(k, p) == [k EXCEPT !.fault = @ \/ ~p]

Cancel(k, ts) == [k EXCEPT !.timers = @ \ ts]

\* scheduleAt() throws when the timer is scheduled already.
Schedule(k, t) == [Assert(k, t \notin k.timers) EXCEPT !.timers = @ \cup {t}]

\* What TCPSocket::processMessage() makes of an indication.
SocketOf(i) == CASE i = "ESTABLISHED" -> "CONNECTED"
                 [] i = "PEER_CLOSED" -> "PEER_CLOSED"
                 [] i = "CLOSED"      -> "CLOSED"
                 [] OTHER             -> "SOCKERROR"

Indicate(k, i) == [k EXCEPT !.ind = Append(@, i), !.sockstate = SocketOf(i)]

\* Mutated: leaves the connection-setup timers running.
StateEntered_KeepsTimers(k, old) ==
  IF k.fsm = "CLOSED" THEN Cancel(k, Timer) ELSE k

\* Mutated: tells CLOSED again when TIME_WAIT ends.
StateEntered_ClosedTwice(k, old) ==
  IF k.fsm \in {"CLOSED", "TIME_WAIT"} THEN Cancel(Indicate(k, "CLOSED"), SetupTimers)
                                       ELSE Cancel(k, SetupTimers)

\* Mutated: takes a reset for an abort of its own.
StateEntered_Silent(k, old) ==
  IF k.fsm = "CLOSED" /\ k.event \in {"ABORT", "RCV_RST"} THEN Cancel(k, Timer)
  ELSE IF k.fsm = "CLOSED" THEN Cancel(Indicate(k, "CLOSED"), Timer)
  ELSE IF k.fsm = "CLOSE_WAIT" THEN Cancel(Indicate(k, "PEER_CLOSED"), SetupTimers)
  ELSE k

StateEntered(k, old) ==
  LET told == CASE k.fsm = "CLOSE_WAIT" -> Indicate(k, "PEER_CLOSED")
                [] k.fsm = "TIME_WAIT"  -> Indicate(k, "CLOSED")
                [] k.fsm = "CLOSED" /\ old # "TIME_WAIT" /\ k.event # "ABORT"
                                        -> Indicate(k, "CLOSED")
                [] OTHER                -> k
  IN CASE k.fsm = "CLOSED" -> Cancel(told, Timer)
       [] k.fsm \in {"SYN_SENT", "SYN_RCVD", "TIME_WAIT"} -> told
       [] OTHER -> Cancel(told, SetupTimers)

PerformStateTransition(k) ==
  LET next == Transition(k.fsm, k.event, k.active)
      k1   == IF next = k.fsm THEN k
              ELSE StateEntered([k EXCEPT !.fsm = next], k.fsm)
  IN [k1 EXCEPT !.event = "IGNORE"]
-----------------------------------------------------------------------------
(* Sending.                                                                *)

Emit(k, s) == [k EXCEPT !.out = @ \cup {s}]

AckSent(k) ==
  [Cancel(k, {"DELAYEDACK"}) EXCEPT
     !.full_sized = 0, !.ack_now = FALSE, !.last_ack_sent = k.rcv_nxt]

SendAck(k) == AckSent(Emit(k, Segment({"ACK"}, k.snd_nxt, k.rcv_nxt, 0)))

SendFin(k) == AckSent(Emit(k, Segment({"FIN", "ACK"}, k.snd_nxt, k.rcv_nxt, 0)))

SendRst(k, seq) == Emit(k, Segment({"RST"}, seq, 0, 0))

SendSyn(k) == Emit([k EXCEPT !.snd_max = k.iss + 1, !.snd_nxt = k.iss + 1],
                   Segment({"SYN"}, k.iss, 0, 0))

SendSynAck(k) ==
  AckSent(Emit([k EXCEPT !.snd_max = k.iss + 1, !.snd_nxt = k.iss + 1],
               Segment({"SYN", "ACK"}, k.iss, k.rcv_nxt, 0)))

SelectInitialSeqNum(k) ==
  [k EXCEPT !.snd_una = k.iss, !.snd_nxt = k.iss, !.snd_max = k.iss,
            !.bufStart = k.iss + 1, !.bufEnd = k.iss + 1]

BytesAvailable(k, from) == IF from < k.bufEnd THEN k.bufEnd - from ELSE 0

\* n calls of sendSegment(), each with one unit from snd_nxt on; the segment
\* that reaches snd_fin_seq carries the FIN.
SendSegments(k, n) ==
  LET end   == k.snd_nxt + n
      fin   == k.send_fin /\ end = k.snd_fin_seq
      flags == [i \in k.snd_nxt .. (end - 1) |->
                  IF fin /\ i = end - 1 THEN {"ACK", "FIN"} ELSE {"ACK"}]
      k1    == Assert(k, k.bufStart <= k.snd_nxt)
  IN [k1 EXCEPT
        !.out = @ \cup {Segment(flags[i], i, k.rcv_nxt, 1) : i \in k.snd_nxt .. (end - 1)},
        !.afterRto = @ /\ end < k.snd_max,
        !.snd_nxt = IF fin THEN end + 1 ELSE end]

StartRexmitTimer(k) == [Schedule(k, "REXMIT") EXCEPT !.rexmit_count = 0]

\* Mutated: a restart that only stops the timer.
RestartRexmitTimer_Stops(k) == Cancel(k, {"REXMIT"})

RestartRexmitTimer(k) == StartRexmitTimer(Cancel(k, {"REXMIT"}))

DataSent(k) == IF "REXMIT" \in k.timers THEN k ELSE StartRexmitTimer(k)

\* sendData() with a window of w units, the smaller of snd_wnd and the
\* congestion window.
SendData(k, w) ==
  LET k1       == IF k.afterRto THEN k ELSE [k EXCEPT !.snd_nxt = k.snd_max]
      flight   == k1.snd_nxt - k1.snd_una
      buffered == BytesAvailable(k1, k1.snd_nxt)
      n        == IF w - flight < buffered THEN w - flight ELSE buffered
      k2       == SendSegments(k1, n)
  IN IF buffered = 0 \/ w <= flight THEN k1
     ELSE DataSent(AckSent([k2 EXCEPT
            !.snd_max = IF k2.snd_nxt > @ THEN k2.snd_nxt ELSE @]))

RetransmitOneSegment(k, atRto) ==
  LET n  == IF k.snd_max > k.snd_una /\ BytesAvailable(k, k.snd_una) > 0 THEN 1 ELSE 0
      k1 == [k EXCEPT !.snd_nxt = k.snd_una]
      f1 == SendFin([k EXCEPT !.snd_nxt = k.bufEnd])
      k2 == SendSegments(Assert(k1, n # 0), n)
  IN IF n = 0 /\ k.send_fin /\ k.snd_fin_seq = k.bufEnd
       THEN [f1 EXCEPT !.snd_nxt = k.bufEnd + 1, !.snd_max = k.bufEnd + 1]
       ELSE AckSent([k2 EXCEPT
              !.snd_nxt = IF ~atRto /\ k.snd_nxt > @ THEN k.snd_nxt ELSE @])
-----------------------------------------------------------------------------
(* Acknowledgments.                                                        *)

\* Mutated: any ACK of new data stops the timer.
ReceivedDataAck_Stops(k, w) ==
  [SendData(Cancel(k, {"REXMIT"}), w) EXCEPT !.dupacks = 0]

\* receivedDataAck() of TCPBaseAlg and TCPNewReno.  The restart of the REXMIT
\* timer on the first partial ACK repeats the one done here.
ReceivedDataAck(k, w) ==
  LET k1 == IF k.snd_una = k.snd_max THEN Cancel(k, {"REXMIT"})
                                     ELSE RestartRexmitTimer(k)
      partial == k.lossRecovery /\ k.snd_una - 1 < k.recover
      k2 == IF partial THEN SendData(RetransmitOneSegment(k1, FALSE), w)
            ELSE [k1 EXCEPT !.lossRecovery = FALSE,
                            !.recover = IF k.lossRecovery THEN @ ELSE k.snd_una - 2]
  IN [SendData(k2, w) EXCEPT !.dupacks = 0]

ReceivedDuplicateAck(k, w) ==
  LET fast == ~k.lossRecovery /\ k.snd_una - 1 > k.recover
      k1   == [k EXCEPT !.lossRecovery = TRUE, !.recover = k.snd_max - 1]
  IN CASE k.dupacks = DUPTHRESH /\ fast
            -> SendData(RetransmitOneSegment(k1, FALSE), w)
       [] k.dupacks > DUPTHRESH /\ k.lossRecovery -> SendData(k, w)
       [] OTHER -> k

\* Mutated: leaves snd_nxt behind an ACK that overtakes a retransmission.
NewAck_KeepsSndNxt(k, s, w) ==
  [k EXCEPT !.snd_una = s.ackNo,
            !.fin_ack_rcvd = @ \/ (k.send_fin /\ s.ackNo = k.snd_fin_seq + 1)]

\* The ACK of something new.  The FIN's sequence number is not in the queue.
NewAck(k, s, w) ==
  LET fin  == k.send_fin /\ s.ackNo = k.snd_fin_seq + 1
      upTo == IF fin THEN s.ackNo - 1 ELSE s.ackNo
      k1   == [Assert(k, k.bufStart <= upTo /\ upTo <= k.bufEnd) EXCEPT
                 !.snd_una = s.ackNo,
                 !.snd_nxt = IF @ < s.ackNo THEN s.ackNo ELSE @,
                 !.fin_ack_rcvd = @ \/ fin,
                 !.bufStart = upTo]
  IN IF s.len = 0 /\ k.fsm # "SYN_RCVD" THEN ReceivedDataAck(k1, w) ELSE k1

\* The count of duplicate ACKs matters up to DUPTHRESH + 1.
CountDuplicate(k) ==
  [k EXCEPT !.dupacks = IF @ > DUPTHRESH THEN @ ELSE @ + 1]

\* processAckInEstabEtc() for an ACK of something that has been sent.
ProcessAck(k, s, w) ==
  CASE s.ackNo > k.snd_una -> NewAck(k, s, w)
    [] s.ackNo = k.snd_una /\ s.len = 0 /\ k.snd_una # k.snd_max
         -> ReceivedDuplicateAck(CountDuplicate(k), w)
    [] OTHER -> [k EXCEPT !.dupacks = 0]

Start2MSLTimer(k) == Schedule(k, "2MSL")

\* Mutated: schedules a timer that may be running.
Restart2MSLTimer_NoCancel(k) == Start2MSLTimer(k)

Restart2MSLTimer(k) == Start2MSLTimer(Cancel(k, {"2MSL"}))

\* Mutated: enters TIME_WAIT from CLOSING without its timer.
ProcessAckOfFin_NoTimer(k) ==
  CASE k.fsm \in {"FIN_WAIT_1", "CLOSING"} /\ k.fin_ack_rcvd -> [k EXCEPT !.event = "RCV_ACK"]
    [] k.fsm = "TIME_WAIT" -> Restart2MSLTimer(SendAck(k))
    [] OTHER -> k

\* What the ACK of our FIN does to the state.
ProcessAckOfFin(k) ==
  CASE k.fsm = "FIN_WAIT_1" /\ k.fin_ack_rcvd -> [k EXCEPT !.event = "RCV_ACK"]
    [] k.fsm = "CLOSING" /\ k.fin_ack_rcvd
         -> Start2MSLTimer([k EXCEPT !.event = "RCV_ACK"])
    [] k.fsm = "TIME_WAIT" -> Restart2MSLTimer(SendAck(k))
    [] OTHER -> k
-----------------------------------------------------------------------------
(* The text and the FIN of a segment.                                      *)

\* Mutated: forgets the 2MSL timer in FIN_WAIT_2.
FinArrived_NoTimer(k) ==
  LET acked == k.fsm = "FIN_WAIT_1" /\ k.fin_ack_rcvd
      k1    == [k EXCEPT !.rcv_nxt = @ + 1,
                         !.event = IF acked THEN "RCV_FIN_ACK" ELSE "RCV_FIN"]
  IN IF acked THEN Start2MSLTimer(k1) ELSE k1

\* rcv_nxt is about to go over the peer's FIN.
FinArrived(k) ==
  LET acked == k.fsm = "FIN_WAIT_1" /\ k.fin_ack_rcvd
      k1    == [k EXCEPT !.rcv_nxt = @ + 1,
                         !.event = IF acked THEN "RCV_FIN_ACK" ELSE "RCV_FIN"]
  IN CASE acked \/ k.fsm = "FIN_WAIT_2" -> Start2MSLTimer(k1)
       [] k.fsm = "TIME_WAIT"           -> Restart2MSLTimer(k1)
       [] OTHER                         -> k1

\* nx is the first unit that is still missing once q has been received.
NextMissing(from, q, nx) == from <= nx /\ nx \notin q /\ from .. (nx - 1) \subseteq q

ReceivesText(k, s) ==
  s.len > 0 /\ k.fsm \in {"SYN_RCVD", "ESTABLISHED", "FIN_WAIT_1", "FIN_WAIT_2"}

\* Mutated: counts the units from the wrong side.
ProcessText_Swapped(k, s, w, nx, una) ==
  [k EXCEPT !.full_sized = @ + 1, !.rcv_nxt = nx, !.delivered = @ + (k.rcv_nxt - nx)]

\* una is snd_una as it was when the segment arrived.
ProcessText(k, s, w, nx, una) ==
  LET q  == k.rcvQueue \cup {s.seq}
      k1 == [k EXCEPT !.full_sized = @ + 1, !.rcv_nxt = nx,
                      !.rcvQueue = {u \in q : u >= nx},
                      !.delivered = @ + Cardinality({u \in q : u < nx})]
      k2 == IF k.snd_una > una THEN ReceivedDataAck(k1, w) ELSE k1
  IN CASE nx = k.rcv_nxt -> SendAck(k2)
       [] nx # k.rcv_nxt /\ k.fin_rcvd /\ nx = k.rcv_fin_seq
            -> FinArrived([k2 EXCEPT !.ack_now = TRUE])
       [] OTHER -> k2

\* Mutated: counts a FIN that arrives early as the next unit of the stream.
ProcessFinBit_AnyOrder(k, s) == FinArrived([k EXCEPT !.ack_now = TRUE])

ProcessFinBit(k, s) ==
  LET finSeq == s.seq + s.len
      k1     == [k EXCEPT !.ack_now = TRUE]
  IN IF k.rcv_nxt = finSeq THEN FinArrived(k1)
     ELSE [k1 EXCEPT !.fin_rcvd = TRUE, !.rcv_fin_seq = finSeq]

ReceiveSeqChanged(k) ==
  LET piggybacked == /\ k.full_sized = 0 /\ ~k.ack_now
                     /\ k.last_ack_sent = k.rcv_nxt /\ "DELAYEDACK" \notin k.timers
      now == ~DelayedAcks \/ k.ack_now \/ k.lossRecovery \/ k.full_sized >= 2
  IN CASE piggybacked -> k
       [] ~piggybacked /\ now -> SendAck(k)
       [] OTHER -> [k EXCEPT !.timers = @ \cup {"DELAYEDACK"}]

\* The CLOSE that had to wait for the send queue to empty.
DeferredClose(k, old_snd_nxt) ==
  IF /\ k.send_fin /\ k.snd_nxt = k.snd_fin_seq + 1
     /\ \/ k.fsm \in {"ESTABLISHED", "SYN_RCVD"}
        \/ k.fsm = "CLOSE_WAIT" /\ k.snd_nxt # old_snd_nxt
    THEN [k EXCEPT !.event = "CLOSE"] ELSE k

\* processSegment1stThru8th() from the fifth step on, for an acceptable ACK.
ProcessAckedSegment(k, s, w, nx) ==
  LET k0 == IF k.fsm = "SYN_RCVD"
              THEN [Indicate(k, "ESTABLISHED") EXCEPT !.event = "RCV_ACK"] ELSE k
      k1 == IF k.fsm = "TIME_WAIT" THEN k0 ELSE ProcessAck(k0, s, w)
      k2 == ProcessAckOfFin(k1)
      k3 == IF ReceivesText(k, s) THEN ProcessText(k2, s, w, nx, k.snd_una) ELSE k2
      k4 == IF "FIN" \in s.flags THEN ProcessFinBit(k3, s) ELSE k3
      k5 == IF k4.rcv_nxt # k.rcv_nxt THEN ReceiveSeqChanged(k4) ELSE k4
  IN IF k.fsm = "LAST_ACK" /\ k.send_fin /\ s.ackNo = k.snd_fin_seq + 1
       THEN [k1 EXCEPT !.event = "RCV_ACK"]
       ELSE DeferredClose(k5, k.snd_nxt)
-----------------------------------------------------------------------------
(* Steps.                                                                  *)

\* The handler of end e has left connection k: its segments go to the peer.
Do(e, k) ==
  /\ conn' = [conn EXCEPT ![e] = [k EXCEPT !.out = {}]]
  /\ net' = [net EXCEPT ![Peer(e)] = @ \cup k.out]
  /\ UNCHANGED faults

\* One of the faults a run allows for.
Fault == faults < MaxFaults /\ faults' = faults + 1

\* End e takes s off the network, which may keep a second copy of it.
Take(e, s, k) ==
  /\ conn' = [conn EXCEPT ![e] = [k EXCEPT !.out = {}]]
  /\ \/ /\ net' = [net EXCEPT ![e] = @ \ {s}, ![Peer(e)] = @ \cup k.out]
        /\ UNCHANGED faults
     \/ /\ net' = [net EXCEPT ![Peer(e)] = @ \cup k.out]
        /\ Fault

\* The network loses a segment.
Lose(e) ==
  /\ Fault
  /\ \E s \in net[e] : net' = [net EXCEPT ![e] = @ \ {s}]
  /\ UNCHANGED conn

Windows == 1 .. MaxCwnd
Sent(k) == k.bufEnd - (k.iss + 1)        \* units the application has sent
-----------------------------------------------------------------------------
(* Socket commands.                                                        *)

\* selectInitialSeqNum(), the SYN and the two timers of connection setup.
StartSynRexmitTimer(k) ==
  [Schedule(Cancel(k, {"SYN_REXMIT"}), "SYN_REXMIT") EXCEPT !.syn_rexmit_count = 0]

CanOpen(e) == conn[e].fsm = "INIT" /\ e \in ActiveOpeners \cup PassiveOpeners

OpenActive(e) ==
  LET k == [conn[e] EXCEPT !.active = TRUE, !.sockstate = "CONNECTING",
                           !.event = "OPEN_ACTIVE"]
  IN /\ e \in ActiveOpeners
     /\ k.fsm = "INIT"
     /\ Do(e, PerformStateTransition(Schedule(
                StartSynRexmitTimer(SendSyn(SelectInitialSeqNum(k))), "CONN_ESTAB")))

OpenPassive(e) ==
  LET k == [conn[e] EXCEPT !.active = FALSE, !.sockstate = "LISTENING",
                           !.event = "OPEN_PASSIVE"]
  IN /\ e \in PassiveOpeners
     /\ k.fsm = "INIT"
     /\ Do(e, PerformStateTransition(k))

\* An application does not send() after its close().
Send(e) ==
  LET k == [conn[e] EXCEPT !.bufEnd = @ + 1]
  IN /\ k.sockstate \in {"CONNECTED", "CONNECTING", "PEER_CLOSED"}
     /\ ~k.send_fin /\ Sent(conn[e]) < MaxSend[e]
     /\ \/ k.fsm \in {"SYN_SENT", "SYN_RCVD"} /\ Do(e, k)
        \/ /\ k.fsm \in {"ESTABLISHED", "CLOSE_WAIT"}
           /\ \E w \in Windows : Do(e, SendData(k, w))

\* process_CLOSE() where the FIN has to be sent: now, or after the data.
CloseSending(k) ==
  LET k1 == RestartRexmitTimer(SendFin([k EXCEPT !.snd_nxt = k.snd_max]))
      k2 == IF k.snd_max = k.bufEnd
              THEN [k1 EXCEPT !.snd_nxt = @ + 1, !.snd_max = k.snd_max + 1]
              ELSE [k EXCEPT !.event = "IGNORE"]
  IN [k2 EXCEPT !.send_fin = TRUE, !.snd_fin_seq = k.bufEnd]

\* When TCPSocket::close() does not throw, and the application calls it.
CanClose(e) ==
  /\ conn[e].fsm \in {"LISTEN", "SYN_SENT", "SYN_RCVD", "ESTABLISHED", "CLOSE_WAIT"}
  /\ \/ conn[e].sockstate = "PEER_CLOSED"
     \/ conn[e].sockstate = "CONNECTED" /\ e \in FirstClosers
     \/ conn[e].sockstate \in {"CONNECTING", "LISTENING"} /\ e \in EarlyClosers

Close(e) ==
  LET k == [conn[e] EXCEPT
              !.event = "CLOSE",
              !.sockstate = IF @ = "CONNECTED" THEN "LOCALLY_CLOSED" ELSE "CLOSED"]
  IN /\ CanClose(e)
     /\ \/ k.fsm \in {"LISTEN", "SYN_SENT"} /\ Do(e, PerformStateTransition(k))
        \/ /\ k.fsm \in {"SYN_RCVD", "ESTABLISHED", "CLOSE_WAIT"}
           /\ Do(e, PerformStateTransition(CloseSending(k)))

Abort(e) ==
  LET k  == [conn[e] EXCEPT !.event = "ABORT", !.sockstate = "CLOSED"]
      k1 == IF k.fsm \in {"SYN_RCVD", "ESTABLISHED", "FIN_WAIT_1", "FIN_WAIT_2",
                          "CLOSE_WAIT"}
              THEN SendRst(k, k.snd_nxt) ELSE k
  IN /\ e \in Aborters
     /\ conn[e].sockstate \notin {"NOT_BOUND", "CLOSED", "SOCKERROR"}
     /\ k.fsm \notin {"INIT", "CLOSED"}
     /\ Do(e, PerformStateTransition(k1))
-----------------------------------------------------------------------------
(* Timers.                                                                 *)

\* Nothing is on its way and no acknowledgment is being held back.
Quiet == \A e \in Endpoint : net[e] = {} /\ "DELAYEDACK" \notin conn[e].timers

\* Timer t expires.  The timeouts exceed a round trip: one that expires while
\* the answer is still on its way is early.
Expires(e, t) == t \in conn[e].timers
Fired(e, t) == Cancel(conn[e], {t})

DoTimed(e, k) ==
  /\ conn' = [conn EXCEPT ![e] = [k EXCEPT !.out = {}]]
  /\ net' = [net EXCEPT ![Peer(e)] = @ \cup k.out]
  /\ IF Quiet THEN UNCHANGED faults ELSE Fault

\* CONN_ESTAB expires before MAX_SYN_REXMIT_COUNT is reached.
SynRexmitTimeout(e) ==
  LET k == [Fired(e, "SYN_REXMIT") EXCEPT !.syn_rexmit_count = @ + 1]
  IN /\ Expires(e, "SYN_REXMIT")
     /\ k.syn_rexmit_count <= MaxSynRexmit
     /\ DoTimed(e, Schedule(CASE k.fsm = "SYN_SENT" -> SendSyn(k)
                              [] k.fsm = "SYN_RCVD" -> SendSynAck(k)
                              [] OTHER -> Assert(k, FALSE), "SYN_REXMIT"))

ConnEstabTimeout(e) ==
  LET k  == [Fired(e, "CONN_ESTAB") EXCEPT !.event = "TIMEOUT_CONN_ESTAB"]
      k1 == IF k.active THEN Indicate(k, "TIMED_OUT") ELSE k
  IN /\ Expires(e, "CONN_ESTAB")
     /\ Quiet => k.syn_rexmit_count = MaxSynRexmit
     /\ DoTimed(e, PerformStateTransition(
                     Assert(k1, k.fsm \in {"SYN_SENT", "SYN_RCVD"})))

\* No segment lives for 2MSL.
MSLTimeout(e) ==
  LET k == [Fired(e, "2MSL") EXCEPT !.event = "TIMEOUT_2MSL"]
  IN /\ Expires(e, "2MSL") /\ Quiet
     /\ DoTimed(e, PerformStateTransition(Assert(k, k.fsm = "TIME_WAIT")))

RexmitTimeout(e) ==
  LET k     == [Fired(e, "REXMIT") EXCEPT !.rexmit_count = @ + 1]
      abort == [Indicate(k, "TIMED_OUT") EXCEPT !.event = "ABORT"]
      again == [Schedule(k, "REXMIT") EXCEPT
                  !.lossRecovery = FALSE, !.recover = k.snd_max - 1, !.afterRto = TRUE]
  IN /\ Expires(e, "REXMIT")
     /\ \/ /\ k.rexmit_count > MAX_REXMIT_COUNT
           /\ DoTimed(e, PerformStateTransition(abort))
        \/ /\ k.rexmit_count <= MAX_REXMIT_COUNT
           /\ DoTimed(e, RetransmitOneSegment(again, TRUE))

DelayedAckTimeout(e) ==
  /\ Expires(e, "DELAYEDACK")
  /\ Do(e, SendAck(Fired(e, "DELAYEDACK")))
-----------------------------------------------------------------------------
(* Segments that arrive.                                                   *)

\* segmentArrivalWhileClosed(): there is no connection for the segment.
ReceiveWhileClosed(e, s) ==
  LET k   == conn[e]
      end == s.seq + s.len + (IF "SYN" \in s.flags THEN 1 ELSE 0)
                           + (IF "FIN" \in s.flags THEN 1 ELSE 0)
  IN /\ k.fsm \in {"INIT", "CLOSED"}
     /\ Take(e, s, CASE "RST" \in s.flags -> k
                     [] s.flags \cap {"RST", "ACK"} = {}
                          -> Emit(k, Segment({"RST", "ACK"}, 0, end, 0))
                     [] OTHER -> SendRst(k, s.ackNo))

\* processSegmentInListen(), without the fork of the listening connection.
ReceiveInListen(e, s) ==
  LET k  == conn[e]
      k1 == SelectInitialSeqNum([k EXCEPT !.rcv_nxt = s.seq + 1, !.rcvQueue = {}])
      k2 == StartSynRexmitTimer(SendSynAck(k1))
      k3 == [k2 EXCEPT !.timers = @ \cup {"CONN_ESTAB"}, !.event = "RCV_SYN"]
  IN /\ k.fsm = "LISTEN"
     /\ Take(e, s, CASE "RST" \in s.flags -> k
                     [] s.flags \cap {"RST", "ACK"} = {"ACK"} -> SendRst(k, s.ackNo)
                     [] s.flags \cap {"RST", "ACK", "SYN"} = {"SYN"}
                          -> PerformStateTransition(k3)
                     [] OTHER -> k)

\* established(true): the ACK that completes connection setup, with data if any.
EstablishedActive(k, w) ==
  LET k1 == SendData(k, w) IN IF k1.out = k.out THEN SendAck(k1) ELSE k1

\* processSegmentInSynSent(), for a SYN that is not a reset.
ProcessSynInSynSent(k, s, w) ==
  LET k1 == [k EXCEPT !.rcv_nxt = s.seq + 1, !.rcvQueue = {}]
      k2 == [Assert(k1, k.bufStart <= s.ackNo /\ s.ackNo <= k.bufEnd) EXCEPT
               !.snd_una = s.ackNo, !.bufStart = s.ackNo, !.ack_now = TRUE]
  IN IF "ACK" \in s.flags
       THEN [Indicate(EstablishedActive(k2, w), "ESTABLISHED") EXCEPT
               !.event = "RCV_SYN_ACK"]
       ELSE [StartSynRexmitTimer(SendSynAck(k1)) EXCEPT !.event = "RCV_SYN"]

ReceiveInSynSent(e, s, w) ==
  LET k      == conn[e]
      badAck == "ACK" \in s.flags /\ (s.ackNo <= k.iss \/ s.ackNo > k.snd_nxt)
      reset  == [Indicate(k, "CONNECTION_RESET") EXCEPT !.event = "RCV_RST"]
  IN /\ k.fsm = "SYN_SENT"
     /\ Take(e, s, PerformStateTransition(
          CASE badAck /\ "RST" \notin s.flags          -> SendRst(k, s.ackNo)
            [] ~badAck /\ {"RST", "ACK"} \subseteq s.flags -> reset
            [] ~badAck /\ s.flags \cap {"RST", "SYN"} = {"SYN"}
                                                       -> ProcessSynInSynSent(k, s, w)
            [] OTHER                                   -> k))

\* isSegmentAcceptable(), in a receive window that nothing overruns.
AcceptableAck(k, s) ==
  /\ k.snd_una < s.ackNo
  /\ s.ackNo <= IF k.afterRto THEN k.snd_max ELSE k.snd_nxt

Acceptable(k, s) ==
  IF s.len = 0 THEN k.rcv_nxt <= s.seq \/ AcceptableAck(k, s)
               ELSE k.rcv_nxt < s.seq + s.len

\* processSegment1stThru8th(), first step.
ReceiveUnacceptable(e, s) ==
  LET k == conn[e]
  IN /\ k.fsm \in {"SYN_RCVD"} \cup Synchronized
     /\ ~Acceptable(k, s)
     /\ Take(e, s, IF "RST" \in s.flags THEN k ELSE SendAck(k))

\* Mutated: a reset looks like the end of the stream.
ReceiveRst_Quiet(e, s) ==
  /\ conn[e].fsm \in {"SYN_RCVD"} \cup Synchronized
  /\ Acceptable(conn[e], s) /\ "RST" \in s.flags
  /\ Take(e, s, PerformStateTransition([conn[e] EXCEPT !.event = "RCV_RST"]))

\* Second step: processRstInSynReceived() flushes the send queue.
ReceiveRst(e, s) ==
  LET k  == conn[e]
      k1 == [k EXCEPT !.event = "RCV_RST",
                      !.bufStart = IF k.fsm = "SYN_RCVD" THEN k.bufEnd ELSE @]
  IN /\ k.fsm \in {"SYN_RCVD"} \cup Synchronized
     /\ Acceptable(k, s) /\ "RST" \in s.flags
     /\ Take(e, s, PerformStateTransition(
          CASE k.fsm = "SYN_RCVD" /\ k.active -> Indicate(k1, "CONNECTION_REFUSED")
            [] k.fsm \in {"ESTABLISHED", "FIN_WAIT_1", "FIN_WAIT_2", "CLOSE_WAIT"}
                 -> Indicate(k1, "CONNECTION_RESET")
            [] OTHER -> k1))

\* Fourth step.
ReceiveUnexpectedSyn(e, s) ==
  LET k == conn[e]
  IN /\ k.fsm \in {"SYN_RCVD"} \cup Synchronized
     /\ Acceptable(k, s) /\ s.flags \cap {"RST", "SYN"} = {"SYN"}
     /\ Take(e, s, PerformStateTransition(
          [Indicate(k, "CONNECTION_RESET") EXCEPT !.event = "RCV_UNEXP_SYN"]))

\* The fifth to the eighth step.  A segment without ACK is dropped, and an ACK
\* of what has not been sent is answered: with a reset during connection setup.
ReceiveSegment(e, s, w, nx) ==
  LET k == conn[e]
      badAck == IF k.fsm = "SYN_RCVD"
                  THEN s.ackNo < k.snd_una \/ s.ackNo > k.snd_nxt
                  ELSE k.fsm # "TIME_WAIT" /\ s.ackNo > k.snd_max
      refused == IF k.fsm = "SYN_RCVD" THEN SendRst(k, s.ackNo)
                                       ELSE [SendAck(k) EXCEPT !.dupacks = 0]
  IN /\ k.fsm \in {"SYN_RCVD"} \cup Synchronized
     /\ Acceptable(k, s) /\ s.flags \cap {"RST", "SYN"} = {}
     /\ IF ReceivesText(k, s) THEN NextMissing(k.rcv_nxt, k.rcvQueue \cup {s.seq}, nx)
                              ELSE nx = k.rcv_nxt
     /\ Take(e, s, CASE "ACK" \notin s.flags           -> k
                     [] "ACK" \in s.flags /\ badAck    -> refused
                     [] "ACK" \in s.flags /\ ~badAck
                          -> PerformStateTransition(ProcessAckedSegment(k, s, w, nx)))

Receive(e) ==
  \E s \in net[e] :
    \/ ReceiveWhileClosed(e, s)
    \/ ReceiveInListen(e, s)
    \/ \E w \in Windows : ReceiveInSynSent(e, s, w)
    \/ ReceiveUnacceptable(e, s)
    \/ ReceiveRst(e, s)
    \/ ReceiveUnexpectedSyn(e, s)
    \/ \E w \in Windows : \E nx \in {conn[e].rcv_nxt, s.seq + 1}
                            \cup {u + 1 : u \in conn[e].rcvQueue} :
         ReceiveSegment(e, s, w, nx)
-----------------------------------------------------------------------------
Command(e) == OpenActive(e) \/ OpenPassive(e) \/ Send(e) \/ Close(e) \/ Abort(e)

Timeout(e) == \/ SynRexmitTimeout(e) \/ ConnEstabTimeout(e) \/ MSLTimeout(e)
              \/ RexmitTimeout(e) \/ DelayedAckTimeout(e)

Next == \E e \in Endpoint : Command(e) \/ Timeout(e) \/ Receive(e) \/ Lose(e)

Spec == Init /\ [][Next]_vars

\* Segments that stay on the network arrive, timers that are scheduled expire
\* once the network is quiet, and the applications open, and close when they can.
\* Where the fairness is not written WF it is weak fairness all the same, with
\* what enables the action written out.
Fairness ==
  \A e \in Endpoint :
    /\ WF_vars(DelayedAckTimeout(e))
    /\ <>[](net[e] # {}) => []<><<Receive(e)>>_vars
    /\ <>[](Quiet /\ conn[e].timers # {}) => []<><<Timeout(e)>>_vars
    /\ <>[]CanOpen(e) => []<><<OpenActive(e) \/ OpenPassive(e)>>_vars
    /\ <>[]CanClose(e) => []<><<Close(e)>>_vars

FairSpec == Spec /\ Fairness
=============================================================================
