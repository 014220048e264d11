----------------------------- MODULE TCPSafety -----------------------------
(***************************************************************************)
(* What a pair of TCPConnection objects owes the two applications and each *)
(* other.                                                                  *)
(***************************************************************************)
EXTENDS TCPConnection

\* Every variable has the type of the state variables of TCPConnection.h.
TypeOK ==
  /\ conn \in [Endpoint -> Connections]
  /\ net \in [Endpoint -> SUBSET Segments]
  /\ faults \in Nat

\* No ASSERT of TCPConnection or of its send queue fails, no timer is scheduled
\* that is scheduled already, and no timer expires in a state that throws.
NoFault == \A e \in Endpoint : ~conn[e].fault

\* Between two synchronized ends, snd_una of one, rcv_nxt of the other and
\* snd_max of the first are in this order, whatever was lost or sent twice: an
\* end never acknowledges what was not sent nor forgets what it acknowledged.
Agreement ==
  \A e \in Endpoint :
    LET k == conn[e]  p == conn[Peer(e)]
    IN k.fsm \in Synchronized /\ p.fsm \in Synchronized =>
         /\ k.iss < k.snd_una
         /\ k.snd_una <= p.rcv_nxt /\ p.rcv_nxt <= k.snd_max
         /\ k.snd_una <= k.snd_nxt /\ k.snd_nxt <= k.snd_max

\* An end whose FIN has been acknowledged knows that the peer's application has
\* all the data, so the send queue it forgets is no longer needed.
FinAcked ==
  \A e \in Endpoint :
    conn[e].fin_ack_rcvd => conn[Peer(e)].delivered = Sent(conn[e])

\* The REXMIT timer runs exactly while something is unacknowledged: no loss
\* goes unnoticed, and the timer never expires with nothing to retransmit.
RexmitArmed ==
  \A e \in Endpoint :
    LET k == conn[e]
    IN k.fsm \in Synchronized => ("REXMIT" \in k.timers <=> k.snd_una < k.snd_max)

\* The connection-setup timers run exactly in SYN_SENT and SYN_RCVD and the
\* 2MSL timer exactly in TIME_WAIT, the states in which their handlers do not
\* throw.
TimersMatchState ==
  \A e \in Endpoint :
    LET k == conn[e]
    IN /\ "2MSL" \in k.timers <=> k.fsm = "TIME_WAIT"
       /\ k.fsm \in {"SYN_SENT", "SYN_RCVD"} => SetupTimers \subseteq k.timers
       /\ k.fsm \notin {"SYN_SENT", "SYN_RCVD"} => SetupTimers \cap k.timers = {}

\* A connection that has consumed the peer's FIN is in a state that knows it,
\* and does not wait for another one (TCPConnection.h:48, FIN_WAIT_2 "waiting
\* for peer's FIN").
HalfClose ==
  \A e \in Endpoint :
    LET k == conn[e]  p == conn[Peer(e)]
    IN k.fsm \in Synchronized /\ p.send_fin /\ k.rcv_nxt = p.snd_fin_seq + 1
         => k.fsm \in PeerFinSeen

\* A connection is in a state that says the peer has closed only once the peer
\* has called close() and everything before its FIN has been received, however
\* data segments, FINs and retransmissions overtake each other.
FinInSequence ==
  \A e \in Endpoint :
    LET k == conn[e]  p == conn[Peer(e)]
    IN k.fsm \in PeerFinSeen => p.send_fin /\ k.rcv_nxt = p.snd_fin_seq + 1
-----------------------------------------------------------------------------
(* What the applications are told.                                         *)

Failure == {"CONNECTION_REFUSED", "CONNECTION_RESET", "TIMED_OUT"}
Told(k, i) == \E n \in DOMAIN k.ind : k.ind[n] = i

\* An application is told ESTABLISHED first, each thing once, of a failure only
\* before CLOSED, and nothing after CLOSED, however segments, timeouts, commands
\* and resets interleave.
IndicationOrder ==
  \A e \in Endpoint :
    LET ind == conn[e].ind
    IN \A i, j \in DOMAIN ind : i < j =>
         /\ ind[j] \notin {ind[i], "ESTABLISHED"}
         /\ ind[i] # "CLOSED"
         /\ ind[i] \in Failure => ind[j] = "CLOSED"
         /\ ind[j] = "PEER_CLOSED" => ind[i] = "ESTABLISHED"

\* The TCPSocket of an application knows when its connection is gone, and says
\* CONNECTED only while the connection can still be closed from this end.
SocketAgrees ==
  \A e \in Endpoint :
    LET k == conn[e]
    IN /\ k.fsm = "CLOSED" => k.sockstate \in {"CLOSED", "SOCKERROR"}
       /\ k.sockstate = "CONNECTED" => k.fsm = "ESTABLISHED"
       /\ k.sockstate = "PEER_CLOSED" => k.fsm \in {"CLOSE_WAIT", "LAST_ACK"}

\* Two ends that have each received the other's SYN, on a network without
\* faults, do not reset the connection (TCP.ned:129, "connection setup and
\* teardown as in RFC 793"), also when both opened it.
SetupCompletes ==
  faults = 0 /\ (\A e \in Endpoint : conn[e].rcv_nxt > 0)
    => \A e \in Endpoint : ~Told(conn[e], "CONNECTION_RESET")

\* The application of k has been told that the peer's stream is complete.
EndOfStream(k) ==
  /\ Told(k, "ESTABLISHED")
  /\ \/ Told(k, "PEER_CLOSED")
     \/ Told(k, "CLOSED") /\ ~\E f \in Failure : Told(k, f)

Service == INSTANCE TCPService WITH
  Writer    <- Endpoint,
  sent      <- [e \in Endpoint |-> Sent(conn[e])],
  shut      <- [e \in Endpoint |-> conn[e].send_fin],
  delivered <- [e \in Endpoint |-> conn[Peer(e)].delivered],
  eof       <- [e \in Endpoint |-> EndOfStream(conn[Peer(e)])]

\* The pair implements two byte streams: an application is given what the other
\* one wrote, in order, and is told that the stream has ended only after all of
\* it and after the writer's close().
ImplementsService == Service!Spec
-----------------------------------------------------------------------------
(* Liveness, under FairSpec.                                               *)

Lost(e) == conn[e].fsm = "CLOSED" \/ conn[Peer(e)].fsm = "CLOSED"

\* Whatever an application sends on a connection that lasts is delivered.
DataArrives ==
  \A e \in Endpoint : \A n \in 1 .. MaxSend[e] :
    Sent(conn[e]) >= n ~> (conn[Peer(e)].delivered >= n \/ Lost(e))

\* A connection that one end closes ends up CLOSED at that end.
CloseCompletes ==
  \A e \in Endpoint :
    conn[e].sockstate = "LOCALLY_CLOSED" ~> conn[e].fsm = "CLOSED"

\* An end does not stay in TIME_WAIT, where nothing but a retransmission of the
\* remote FIN can arrive (TCPConnectionRcvSegment.cc:429) and so put it off.
TimeWaitEnds ==
  \A e \in Endpoint : conn[e].fsm = "TIME_WAIT" ~> conn[e].fsm = "CLOSED"
=============================================================================
