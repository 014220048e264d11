----------------------------- MODULE TCPTransfer -----------------------------
(***************************************************************************)
(* The inductive invariant from which NoFault, RexmitArmed, Agreement,     *)
(* FinAcked, IndicationOrder and SocketAgrees are proved: the send side of *)
(* an end, its receive side, what its application has been told, and the   *)
(* segments in flight to it.                                               *)
(***************************************************************************)
EXTENDS TCPInvariant

\* An application that closes before it is connected is not in SYN_RCVD then:
\* it is an active opener, whose peer opens passively.
ClosesInSynSent ==
  \A e \in EarlyClosers : e \notin PassiveOpeners /\ Peer(e) \notin ActiveOpeners

Unopened == {"INIT", "LISTEN", "SYN_SENT", "SYN_RCVD"}
Opened   == {"SYN_RCVD"} \cup Synchronized
-----------------------------------------------------------------------------
\* The send variables of an end whose SYN has been acknowledged: the queue
\* begins at or before snd_una, snd_max is at most one past it, with the FIN.
Window(k) ==
  /\ k.iss < k.snd_una /\ k.snd_una <= k.snd_nxt /\ k.snd_nxt <= k.snd_max
  /\ k.snd_max <= k.bufEnd + 1 /\ k.snd_max # IF k.send_fin THEN k.bufEnd ELSE k.bufEnd + 1
  /\ k.send_fin => k.snd_fin_seq = k.bufEnd
  /\ k.bufStart <= k.snd_una /\ k.bufStart <= k.bufEnd
  /\ k.fin_ack_rcvd <=> k.send_fin /\ k.snd_una = k.bufEnd + 1
  /\ k.lossRecovery => k.recover < k.snd_max

Armed(k) == "REXMIT" \in k.timers <=> k.snd_una < k.snd_max

\* Before the connection is open, nothing but a SYN has been sent.
Fresh(k) ==
  /\ k.timers \cap {"REXMIT", "DELAYEDACK"} = {} /\ ~k.send_fin /\ ~k.fin_ack_rcvd /\ ~k.lossRecovery
  /\ k.bufStart = k.iss + 1 /\ k.bufStart <= k.bufEnd /\ k.snd_una = k.iss
  /\ k.fsm \in {"INIT", "LISTEN"} => k.bufEnd = k.iss + 1 /\ k.snd_max <= k.iss + 1
  /\ k.fsm \in {"SYN_SENT", "SYN_RCVD"} => k.snd_nxt = k.iss + 1 /\ k.snd_max = k.iss + 1

SendSide(k) ==
  /\ ~k.fault /\ k.iss < k.bufEnd
  /\ k.fsm \in Unopened => Fresh(k)
  /\ k.fsm \in Synchronized => Window(k) /\ Armed(k)
  /\ k.fsm \in Closing => k.send_fin /\ k.snd_max = k.bufEnd + 1
  /\ k.fsm \in {"FIN_WAIT_2", "TIME_WAIT"} => k.fin_ack_rcvd
  /\ k.fsm = "CLOSED" => k.timers = {} /\ (k.fin_ack_rcvd => k.send_fin /\ k.snd_una = k.bufEnd + 1)
-----------------------------------------------------------------------------
\* What the application of k has been told, and what its socket made of it.
Told1 == <<"ESTABLISHED">>
Told2 == Append(Told1, "PEER_CLOSED")

Ends(i) == {Append(i, "CLOSED")} \cup
           UNION {{Append(i, f), Append(Append(i, f), "CLOSED")} : f \in Failure}

Application(k) ==
  /\ k.fsm = "INIT" => k.ind = <<>> /\ k.sockstate = "NOT_BOUND"
  /\ k.fsm = "LISTEN" => k.ind = <<>> /\ k.sockstate = "LISTENING"
  /\ k.fsm = "SYN_SENT" => k.ind = <<>> /\ k.sockstate = "CONNECTING"
  /\ k.fsm = "SYN_RCVD" => k.ind = <<>> /\ k.sockstate \in {"CONNECTING", "LISTENING"}
  /\ k.fsm = "ESTABLISHED" =>
       k.ind = Told1 /\ k.sockstate = IF k.send_fin THEN "LOCALLY_CLOSED" ELSE "CONNECTED"
  /\ k.fsm \in {"FIN_WAIT_1", "FIN_WAIT_2", "CLOSING"} =>
       k.ind = Told1 /\ k.sockstate = "LOCALLY_CLOSED"
  /\ k.fsm \in {"CLOSE_WAIT", "LAST_ACK"} =>
       k.ind = Told2 /\ k.sockstate \in {"PEER_CLOSED", "CLOSED"}
  /\ k.fsm = "TIME_WAIT" => k.ind = Append(Told1, "CLOSED") /\ k.sockstate = "CLOSED"
  /\ k.fsm = "CLOSED" =>
       /\ \E i \in {<<>>, Told1, Told2} : k.ind = i \/ k.ind \in Ends(i)
       /\ k.sockstate \in {"CLOSED", "SOCKERROR"}
-----------------------------------------------------------------------------
\* What k, which has taken the SYN of p, has of the stream of p.
Received(k, p) ==
  /\ p.iss < k.rcv_nxt /\ k.rcv_nxt <= p.snd_max
  /\ \A u \in k.rcvQueue : k.rcv_nxt < u /\ u < p.bufEnd /\ u < p.snd_max
  /\ k.fin_rcvd => k.rcv_fin_seq < p.snd_max
  /\ k.delivered = (IF k.rcv_nxt <= p.bufEnd THEN k.rcv_nxt ELSE p.bufEnd) - (p.iss + 1)

ReceiveSide(k, p) ==
  /\ k.fsm \in {"INIT", "SYN_SENT"} => k.rcv_nxt = 0
  /\ k.fsm \in {"LISTEN", "SYN_RCVD"} => k.rcv_nxt \in {0, p.iss + 1}
  /\ k.fsm \in Opened => k.rcv_nxt # 0
  /\ k.rcv_nxt = 0 => k.delivered = 0 /\ k.rcvQueue = {} /\ ~k.fin_rcvd
  /\ k.rcv_nxt # 0 => Received(k, p)

\* A segment that p has sent, to an end whose initial sequence number is n.
Sound(s, p, n) ==
  /\ "SYN" \in s.flags =>
       s.seq = p.iss /\ p.iss < p.snd_max /\ s.len = 0 /\ "RST" \notin s.flags
  /\ "ACK" \in s.flags /\ "RST" \notin s.flags => n < s.ackNo /\ s.ackNo <= p.rcv_nxt
  /\ s.len # 0 => s.len = 1 /\ p.iss < s.seq /\ s.seq < p.bufEnd /\ s.seq < p.snd_max
  /\ "FIN" \in s.flags => s.seq + s.len < p.snd_max

\* Where end e can be: a connection is between the two openers.
RoleFits(e, k) ==
  /\ k.fsm = "LISTEN" => e \in PassiveOpeners
  /\ k.fsm = "SYN_SENT" => e \in ActiveOpeners
  /\ k.fsm = "SYN_RCVD" =>
       IF k.active THEN Peer(e) \in ActiveOpeners ELSE e \in PassiveOpeners

\* A SYN that e has sent to open the connection.
Opens(s, e) == "SYN" \in s.flags /\ "ACK" \notin s.flags => e \in ActiveOpeners

TransferInv ==
  \A e \in Endpoint :
    LET k == conn[e]  p == conn[Peer(e)]
    IN /\ k.iss = Iss[e]
       /\ RoleFits(e, k) /\ SendSide(k) /\ Application(k) /\ ReceiveSide(k, p)
       /\ k.snd_una > k.iss => k.snd_una <= p.rcv_nxt
       /\ \A s \in net[e] : Sound(s, p, Iss[e]) /\ Opens(s, Peer(e))
=============================================================================
