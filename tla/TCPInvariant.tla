---------------------------- MODULE TCPInvariant ----------------------------
(***************************************************************************)
(* The inductive invariant from which FinInSequence and TimersMatchState   *)
(* are proved.  It follows a FIN from the CLOSE that gives it its sequence *)
(* number, over the network, to the end that takes it off the stream.      *)
(***************************************************************************)
EXTENDS TCPSafety

\* Between two handlers no event is pending and every segment has been sent.
Idle(k) == k.event = "IGNORE" /\ k.out = {}

\* A FIN comes after everything in the send queue, which nothing is added to
\* any more.  A connection that is not open yet has no FIN, and a passive one
\* cannot have data in its queue before it is ESTABLISHED.
FinEndsQueue(k) ==
  /\ k.send_fin => k.snd_fin_seq = k.bufEnd
  /\ k.fsm \in {"INIT", "LISTEN"} => ~k.send_fin
  /\ k.fsm \in {"INIT", "LISTEN", "SYN_RCVD"} /\ ~k.active =>
       /\ ~k.send_fin
       /\ k.sockstate \notin {"CONNECTED", "CONNECTING", "PEER_CLOSED"}
  /\ k.fsm = "SYN_RCVD" /\ ~k.active => k.snd_max = k.iss + 1 /\ k.bufEnd = k.iss + 1
  /\ k.fsm = "SYN_SENT" => k.active

\* p has sent a FIN with sequence number n.
FinAt(p, n) == p.send_fin /\ p.snd_fin_seq = n

\* Every FIN on the way to k, and one k has stored, is the peer's.
FinKnown(k, segments, p) ==
  /\ \A s \in segments : "FIN" \in s.flags => FinAt(p, s.seq + s.len)
  /\ k.fin_rcvd => FinAt(p, k.rcv_fin_seq)
  /\ k.fsm \in PeerFinSeen => FinAt(p, k.rcv_nxt - 1)

TimersMatch(k) ==
  /\ "2MSL" \in k.timers <=> k.fsm = "TIME_WAIT"
  /\ k.fsm \in {"SYN_SENT", "SYN_RCVD"} => SetupTimers \subseteq k.timers
  /\ k.fsm \notin {"SYN_SENT", "SYN_RCVD"} => SetupTimers \cap k.timers = {}

\* Each end has sent at most one FIN, and the other end consumes no other.
TeardownInv ==
  \A e \in Endpoint :
    /\ Idle(conn[e])
    /\ FinEndsQueue(conn[e])
    /\ FinKnown(conn[e], net[e], conn[Peer(e)])
    /\ TimersMatch(conn[e])
=============================================================================
