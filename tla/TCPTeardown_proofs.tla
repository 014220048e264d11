------------------------- MODULE TCPTeardown_proofs -------------------------
(***************************************************************************)
(* Proof that TeardownInv is an invariant.  A handler that only sends      *)
(* keeps it (Sending, from TCPSending_proofs); the other handlers are      *)
(* followed up to the event they leave behind, and PerformStateTransition, *)
(* which consumes the event, then has to reach a record that fits the      *)
(* peer's (Good).                                                          *)
(***************************************************************************)
EXTENDS TCPSending_proofs
-----------------------------------------------------------------------------
(* State transitions.                                                      *)

\* A transition follows an arc, if there is one.
LEMMA TransitionArc ==
  ASSUME NEW st, NEW ev, NEW active
  PROVE  LET t == Transition(st, ev, active)
         IN /\ t = st \/ <<st, ev, t>> \in Arcs(active)
            /\ \A u \in State : <<st, ev, u>> \in Arcs(active)
                                  => <<st, ev, t>> \in Arcs(active)
BY DEF Transition

\* The rows of the table that the actions use.
LEMMA TransitionTable ==
  ASSUME NEW st \in State, NEW ev \in Event, NEW active \in BOOLEAN
  PROVE  LET t == Transition(st, ev, active)
         IN /\ ev = "IGNORE" => t = st
            /\ ev = "ABORT" => t = IF st = "INIT" THEN "INIT" ELSE "CLOSED"
            /\ ev \in {"RCV_RST", "RCV_UNEXP_SYN"} /\ st \in Synchronized => t = "CLOSED"
            /\ ev = "RCV_UNEXP_SYN" /\ st = "SYN_RCVD" => t = "CLOSED"
            /\ ev = "RCV_RST" /\ st = "SYN_RCVD" =>
                 t = "CLOSED" \/ (~active /\ t = "LISTEN")
            /\ ev = "RCV_RST" /\ st = "SYN_SENT" => t = "CLOSED"
            /\ ev = "OPEN_ACTIVE" /\ st = "INIT" => t = "SYN_SENT"
            /\ ev = "OPEN_PASSIVE" /\ st = "INIT" => t = "LISTEN"
            /\ ev = "CLOSE" /\ st \in {"LISTEN", "SYN_SENT"} => t = "CLOSED"
            /\ ev = "CLOSE" /\ st \in {"SYN_RCVD", "ESTABLISHED"} => t = "FIN_WAIT_1"
            /\ ev = "CLOSE" /\ st = "CLOSE_WAIT" => t = "LAST_ACK"
            /\ ev = "RCV_SYN" /\ st \in {"LISTEN", "SYN_SENT"} => t = "SYN_RCVD"
            /\ ev = "RCV_SYN_ACK" /\ st = "SYN_SENT" => t = "ESTABLISHED"
            /\ ev = "TIMEOUT_CONN_ESTAB" /\ st \in {"SYN_SENT", "SYN_RCVD"} =>
                 t = "CLOSED" \/ (st = "SYN_RCVD" /\ ~active /\ t = "LISTEN")
            /\ ev = "TIMEOUT_2MSL" /\ st = "TIME_WAIT" => t = "CLOSED"
            /\ ev = "RCV_ACK" /\ st = "SYN_RCVD" => t = "ESTABLISHED"
            /\ ev = "RCV_ACK" /\ st = "FIN_WAIT_1" => t = "FIN_WAIT_2"
            /\ ev = "RCV_ACK" /\ st = "CLOSING" => t = "TIME_WAIT"
            /\ ev = "RCV_ACK" /\ st = "LAST_ACK" => t = "CLOSED"
            /\ ev = "RCV_FIN" /\ st \in {"SYN_RCVD", "ESTABLISHED"} => t = "CLOSE_WAIT"
            /\ ev = "RCV_FIN" /\ st = "FIN_WAIT_1" => t = "CLOSING"
            /\ ev = "RCV_FIN_ACK" /\ st = "FIN_WAIT_1" => t = "TIME_WAIT"
            /\ ev = "RCV_FIN" /\ st = "FIN_WAIT_2" => t = "TIME_WAIT"
<1> DEFINE t == Transition(st, ev, active)
<1>1. t = st \/ <<st, ev, t>> \in Arcs(active)
  BY TransitionArc
<1>2. \A u \in State : <<st, ev, u>> \in Arcs(active) => <<st, ev, t>> \in Arcs(active)
  BY TransitionArc
<1> HIDE DEF t
<1> USE DEF Arcs, FallBack, Synchronized, Closing, State
<1>3. ev = "IGNORE" => t = st
  BY <1>1
<1>4. /\ ev = "ABORT" => t = IF st = "INIT" THEN "INIT" ELSE "CLOSED"
      /\ ev \in {"RCV_RST", "RCV_UNEXP_SYN"} /\ st \in Synchronized => t = "CLOSED"
      /\ ev = "RCV_UNEXP_SYN" /\ st = "SYN_RCVD" => t = "CLOSED"
      /\ ev = "RCV_RST" /\ st = "SYN_RCVD" =>
           t = "CLOSED" \/ (~active /\ t = "LISTEN")
      /\ ev = "RCV_RST" /\ st = "SYN_SENT" => t = "CLOSED"
  BY <1>1, <1>2
<1>5. /\ ev = "OPEN_ACTIVE" /\ st = "INIT" => t = "SYN_SENT"
      /\ ev = "OPEN_PASSIVE" /\ st = "INIT" => t = "LISTEN"
  BY <1>2
<1>6. /\ ev = "CLOSE" /\ st \in {"LISTEN", "SYN_SENT"} => t = "CLOSED"
      /\ ev = "CLOSE" /\ st \in {"SYN_RCVD", "ESTABLISHED"} => t = "FIN_WAIT_1"
      /\ ev = "CLOSE" /\ st = "CLOSE_WAIT" => t = "LAST_ACK"
  BY <1>2
<1>7. /\ ev = "RCV_SYN" /\ st \in {"LISTEN", "SYN_SENT"} => t = "SYN_RCVD"
      /\ ev = "RCV_SYN_ACK" /\ st = "SYN_SENT" => t = "ESTABLISHED"
  BY <1>2
<1>8. /\ ev = "TIMEOUT_CONN_ESTAB" /\ st \in {"SYN_SENT", "SYN_RCVD"} =>
           t = "CLOSED" \/ (st = "SYN_RCVD" /\ ~active /\ t = "LISTEN")
      /\ ev = "TIMEOUT_2MSL" /\ st = "TIME_WAIT" => t = "CLOSED"
  BY <1>2
<1>9. /\ ev = "RCV_ACK" /\ st = "SYN_RCVD" => t = "ESTABLISHED"
      /\ ev = "RCV_ACK" /\ st = "FIN_WAIT_1" => t = "FIN_WAIT_2"
      /\ ev = "RCV_ACK" /\ st = "CLOSING" => t = "TIME_WAIT"
      /\ ev = "RCV_ACK" /\ st = "LAST_ACK" => t = "CLOSED"
  BY <1>2
<1>10. /\ ev = "RCV_FIN" /\ st \in {"SYN_RCVD", "ESTABLISHED"} => t = "CLOSE_WAIT"
       /\ ev = "RCV_FIN" /\ st = "FIN_WAIT_1" => t = "CLOSING"
       /\ ev = "RCV_FIN_ACK" /\ st = "FIN_WAIT_1" => t = "TIME_WAIT"
       /\ ev = "RCV_FIN" /\ st = "FIN_WAIT_2" => t = "TIME_WAIT"
  BY <1>2
<1> QED
  BY <1>3, <1>4, <1>5, <1>6, <1>7, <1>8, <1>9, <1>10 DEF t

\* What a state transition leaves alone.
SameOutput(k, j) ==
  /\ j.active = k.active /\ j.iss = k.iss /\ j.bufEnd = k.bufEnd
  /\ j.send_fin = k.send_fin /\ j.snd_fin_seq = k.snd_fin_seq
  /\ j.snd_max = k.snd_max /\ j.rcv_nxt = k.rcv_nxt
  /\ j.fin_rcvd = k.fin_rcvd /\ j.rcv_fin_seq = k.rcv_fin_seq /\ j.out = k.out

LEMMA IndicateSame ==
  ASSUME NEW k \in Connections, NEW i
  PROVE  /\ SameOutput(k, Indicate(k, i))
         /\ Indicate(k, i).fsm = k.fsm /\ Indicate(k, i).event = k.event
         /\ Indicate(k, i).timers = k.timers
         /\ Indicate(k, i).sockstate = SocketOf(i)
BY DEF Indicate, SameOutput, Connections

LEMMA CancelSame ==
  ASSUME NEW k \in Connections, NEW ts
  PROVE  /\ Cancel(k, ts) \in Connections /\ SameOutput(k, Cancel(k, ts))
         /\ Cancel(k, ts).fsm = k.fsm /\ Cancel(k, ts).event = k.event
         /\ Cancel(k, ts).sockstate = k.sockstate
         /\ Cancel(k, ts).timers = k.timers \ ts
<1>1. Cancel(k, ts) \in Connections
  BY CancelType
<1>2. /\ SameOutput(k, Cancel(k, ts))
      /\ Cancel(k, ts).fsm = k.fsm /\ Cancel(k, ts).event = k.event
      /\ Cancel(k, ts).sockstate = k.sockstate
      /\ Cancel(k, ts).timers = k.timers \ ts
  BY DEF Cancel, SameOutput, Connections
<1> QED
  BY <1>1, <1>2

LEMMA Transited ==
  ASSUME NEW k \in Connections
  PROVE  LET t == Transition(k.fsm, k.event, k.active)
             j == PerformStateTransition(k)
         IN /\ SameOutput(k, j) /\ j.fsm = t /\ j.event = "IGNORE"
            /\ t \notin {"CLOSE_WAIT", "TIME_WAIT", "CLOSED"} => j.sockstate = k.sockstate
            /\ j.timers = IF t = k.fsm \/ t \in {"SYN_SENT", "SYN_RCVD", "TIME_WAIT"}
                            THEN k.timers
                            ELSE k.timers \ (IF t = "CLOSED" THEN Timer ELSE SetupTimers)
<1> DEFINE t == Transition(k.fsm, k.event, k.active)
           m == [k EXCEPT !.fsm = t]
           told == CASE t = "CLOSE_WAIT" -> Indicate(m, "PEER_CLOSED")
                     [] t = "TIME_WAIT"  -> Indicate(m, "CLOSED")
                     [] t = "CLOSED" /\ k.fsm # "TIME_WAIT" /\ k.event # "ABORT"
                                         -> Indicate(m, "CLOSED")
                     [] OTHER            -> m
           c == CASE t = "CLOSED" -> Cancel(told, Timer)
                  [] t \in {"SYN_SENT", "SYN_RCVD", "TIME_WAIT"} -> told
                  [] OTHER -> Cancel(told, SetupTimers)
           k1 == IF t = k.fsm THEN k ELSE c
<1>1. t \in State
  BY Fields, TransitionType
<1> HIDE DEF t
<1>2. m \in Connections /\ SameOutput(k, m) /\ m.fsm = t /\ m.timers = k.timers
      /\ m.sockstate = k.sockstate /\ m.event = k.event
  <2>1. m \in Connections
    BY <1>1, SetState
  <2>2. SameOutput(k, m) /\ m.fsm = t /\ m.timers = k.timers
        /\ m.sockstate = k.sockstate /\ m.event = k.event
    BY DEF SameOutput, Connections
  <2> QED
    BY <2>1, <2>2
<1> HIDE DEF m
<1>3. /\ told \in Connections /\ SameOutput(m, told) /\ told.fsm = t
      /\ told.timers = k.timers
      /\ t \notin {"CLOSE_WAIT", "TIME_WAIT", "CLOSED"} => told.sockstate = k.sockstate
  BY <1>2, IndicateSame, IndicateType DEF SameOutput, Indication
<1> HIDE DEF told
<1>4. \A ts : /\ Cancel(told, ts) \in Connections /\ SameOutput(told, Cancel(told, ts))
              /\ Cancel(told, ts).fsm = told.fsm
              /\ Cancel(told, ts).sockstate = told.sockstate
              /\ Cancel(told, ts).timers = told.timers \ ts
  BY <1>3, CancelSame
<1>5. /\ c \in Connections /\ SameOutput(told, c) /\ c.fsm = t
      /\ c.sockstate = told.sockstate
      /\ c.timers = IF t \in {"SYN_SENT", "SYN_RCVD", "TIME_WAIT"} THEN k.timers
                    ELSE k.timers \ (IF t = "CLOSED" THEN Timer ELSE SetupTimers)
  BY <1>3, <1>4 DEF SameOutput
<1>6. PerformStateTransition(k) = [k1 EXCEPT !.event = "IGNORE"]
  BY <1>2 DEF PerformStateTransition, StateEntered, t, m, told
<1> HIDE DEF c
<1>7. /\ k1 \in Connections /\ SameOutput(k, k1) /\ k1.fsm = t
      /\ t \notin {"CLOSE_WAIT", "TIME_WAIT", "CLOSED"} => k1.sockstate = k.sockstate
      /\ k1.timers = IF t = k.fsm \/ t \in {"SYN_SENT", "SYN_RCVD", "TIME_WAIT"}
                       THEN k.timers
                       ELSE k.timers \ (IF t = "CLOSED" THEN Timer ELSE SetupTimers)
  BY <1>2, <1>3, <1>5 DEF SameOutput
<1> HIDE DEF k1
<1> DEFINE j == [k1 EXCEPT !.event = "IGNORE"]
<1>8. SameOutput(k1, j) /\ j.fsm = k1.fsm /\ j.event = "IGNORE"
      /\ j.sockstate = k1.sockstate /\ j.timers = k1.timers
  BY <1>7 DEF SameOutput, Connections
<1> HIDE DEF j
<1> QED
  BY <1>6, <1>7, <1>8 DEF SameOutput, t, j
-----------------------------------------------------------------------------
(* What a step owes the invariant, where p is the other end.               *)

\* All but the timers: j may follow k.
Fits(k, j, p) ==
  /\ FinEndsQueue(j)
  /\ k.send_fin => FinAt(j, k.snd_fin_seq)
  /\ \A s \in j.out : "FIN" \in s.flags => FinAt(j, s.seq + s.len)
  /\ j.fin_rcvd => FinAt(p, j.rcv_fin_seq)
  /\ j.fsm \in PeerFinSeen => FinAt(p, j.rcv_nxt - 1)

Good(k, j, p) == j.event = "IGNORE" /\ Fits(k, j, p) /\ TimersMatch(j)

\* The timers of k are right for entering state t.
TimersFor(k, t) ==
  \/ t = "CLOSED"
  \/ /\ "2MSL" \in k.timers <=> t = "TIME_WAIT"
     /\ t \in {"SYN_SENT", "SYN_RCVD"} => SetupTimers \subseteq k.timers
     /\ t = "TIME_WAIT" => SetupTimers \cap k.timers = {}

LEMMA TransitionGood ==
  ASSUME NEW k, NEW p, NEW r \in Connections,
         NEW t, t = Transition(r.fsm, r.event, r.active),
         Fits(k, [r EXCEPT !.fsm = t], p),
         IF t = r.fsm THEN TimersMatch(r) ELSE TimersFor(r, t)
  PROVE  Good(k, PerformStateTransition(r), p)
<1> DEFINE j == PerformStateTransition(r)
           m == [r EXCEPT !.fsm = t]
<1>1. SameOutput(r, j) /\ j.fsm = t /\ j.event = "IGNORE"
  BY Transited
<1>2. t \notin {"CLOSE_WAIT", "TIME_WAIT", "CLOSED"} => j.sockstate = r.sockstate
  BY Transited
<1>3. j.timers = IF t = r.fsm \/ t \in {"SYN_SENT", "SYN_RCVD", "TIME_WAIT"}
                   THEN r.timers
                   ELSE r.timers \ (IF t = "CLOSED" THEN Timer ELSE SetupTimers)
  BY Transited
<1>4. SameOutput(r, m) /\ m.fsm = t /\ m.sockstate = r.sockstate
  BY DEF SameOutput, Connections
<1> HIDE DEF j, m
<1>5. TimersMatch(j)
  <2>1. r.timers \in SUBSET Timer
    BY Fields
  <2> QED
    BY <1>1, <1>3, <2>1 DEF TimersMatch, TimersFor, SetupTimers, Timer
<1>6. Fits(k, m, p)
  BY DEF m
<1>7. SameOutput(m, j)
  BY <1>1, <1>4 DEF SameOutput
<1>8. Fits(k, j, p)
  <2>1. FinEndsQueue(j)
    BY <1>1, <1>2, <1>4, <1>6, <1>7 DEF Fits, FinEndsQueue, SameOutput
  <2> QED
    BY <1>1, <1>4, <1>6, <1>7, <2>1 DEF Fits, SameOutput, FinAt
<1> QED
  BY <1>1, <1>5, <1>8 DEF Good, j

\* What the invariant says of a connection k whose peer is p.
Base(k, p) == Idle(k) /\ FinEndsQueue(k) /\ FinKnown(k, {}, p) /\ TimersMatch(k)

LEMMA TeardownBase ==
  ASSUME TypeOK, TeardownInv, NEW e \in Endpoint
  PROVE  conn[e] \in Connections /\ Base(conn[e], conn[Peer(e)])
BY DEF TypeOK, TeardownInv, Base, FinKnown

LEMMA SendingGood ==
  ASSUME NEW k, NEW p, NEW j, Base(k, p), Sending(k, j),
         k.fsm = "SYN_RCVD" => k.active \/ j.snd_max = k.snd_max
  PROVE  Good(k, j, p)
<1>1. SameStream(k, j)
  BY DEF Sending
<1>2. FinEndsQueue(j)
  BY <1>1 DEF SameStream, Base, FinEndsQueue
<1>3. \A s \in j.out : "FIN" \in s.flags => FinAt(j, s.seq + s.len)
  BY <1>1 DEF Sending, SameStream, NewFins, Base, Idle, FinAt
<1>4. TimersMatch(j)
  <2>1. \A t : t \notin {"REXMIT", "DELAYEDACK"} => (t \in j.timers <=> t \in k.timers)
    BY <1>1 DEF SameStream
  <2>2. /\ "2MSL" \in j.timers <=> "2MSL" \in k.timers
        /\ \A t \in SetupTimers : t \in j.timers <=> t \in k.timers
    BY <2>1 DEF SetupTimers
  <2>3. j.fsm = k.fsm /\ TimersMatch(k)
    BY <1>1 DEF SameStream, Base
  <2> QED
    BY <2>2, <2>3 DEF TimersMatch
<1> QED
  BY <1>1, <1>2, <1>3, <1>4 DEF Good, Fits, SameStream, Base, Idle, FinKnown, FinAt

\* A handler that leaves a good record keeps the invariant.
LEMMA StepTeardown ==
  ASSUME TypeOK, TeardownInv, NEW e \in Endpoint, NEW j \in Connections,
         Good(conn[e], j, conn[Peer(e)]),
         Do(e, j) \/ DoTimed(e, j) \/ (\E s : Take(e, s, j))
  PROVE  TeardownInv'
<1> DEFINE p == Peer(e)
           m == [j EXCEPT !.out = {}]
<1>1. p \in Endpoint /\ p # e /\ Peer(p) = e /\ Endpoint = {e, p}
  BY ConstantsAssumption DEF Peer, Endpoint
<1> HIDE DEF p
<1>2. conn' = [conn EXCEPT ![e] = m]
  BY DEF Do, DoTimed, Take, m
<1>3. conn'[e] = m /\ conn'[p] = conn[p]
  BY <1>1, <1>2 DEF TypeOK
<1>4. net'[p] = net[p] \cup j.out /\ net'[e] \subseteq net[e]
  BY <1>1 DEF Do, DoTimed, Take, TypeOK, p
<1>5. /\ SameOutput([j EXCEPT !.out = {}], m) /\ m.out = {} /\ m.event = j.event
      /\ m.fsm = j.fsm /\ m.timers = j.timers /\ m.sockstate = j.sockstate
      /\ m.send_fin = j.send_fin /\ m.snd_fin_seq = j.snd_fin_seq
      /\ m.bufEnd = j.bufEnd /\ m.active = j.active /\ m.iss = j.iss
      /\ m.snd_max = j.snd_max /\ m.rcv_nxt = j.rcv_nxt
      /\ m.fin_rcvd = j.fin_rcvd /\ m.rcv_fin_seq = j.rcv_fin_seq
  BY DEF SameOutput, Connections
<1> HIDE DEF m
<1>6. Good(conn[e], j, conn[p])
  BY DEF p
<1>7. \A n : FinAt(conn[e], n) => FinAt(m, n)
  BY <1>5, <1>6 DEF Good, Fits, FinAt
<1>8. Idle(m) /\ FinEndsQueue(m) /\ TimersMatch(m)
  BY <1>5, <1>6 DEF Good, Fits, Idle, FinEndsQueue, TimersMatch
<1>9. FinKnown(m, net'[e], conn[p])
  <2>1. FinKnown(conn[e], net[e], conn[p])
    BY <1>1 DEF TeardownInv, p
  <2> QED
    BY <1>4, <1>5, <1>6, <2>1 DEF Good, Fits, FinKnown
<1>10. Idle(conn[p]) /\ FinEndsQueue(conn[p]) /\ TimersMatch(conn[p])
  BY <1>1 DEF TeardownInv
<1>11. FinKnown(conn[p], net'[p], m)
  <2>1. FinKnown(conn[p], net[p], conn[e])
    BY <1>1 DEF TeardownInv
  <2>2. \A s \in j.out : "FIN" \in s.flags => FinAt(m, s.seq + s.len)
    BY <1>5, <1>6 DEF Good, Fits, FinAt
  <2> QED
    BY <1>4, <1>7, <2>1, <2>2 DEF FinKnown
<1>12. \A f \in {e, p} : /\ Idle(conn'[f]) /\ FinEndsQueue(conn'[f])
                         /\ FinKnown(conn'[f], net'[f], conn'[Peer(f)])
                         /\ TimersMatch(conn'[f])
  BY <1>1, <1>3, <1>8, <1>9, <1>10, <1>11 DEF p
<1> QED
  BY <1>1, <1>12 DEF TeardownInv

\* What a failing step keeps: all but the event, the timers and the socket.
Stream(k, r) ==
  /\ r.fsm = k.fsm /\ r.active = k.active /\ r.iss = k.iss /\ r.bufEnd = k.bufEnd
  /\ r.send_fin = k.send_fin /\ r.snd_fin_seq = k.snd_fin_seq
  /\ r.rcv_nxt = k.rcv_nxt /\ r.fin_rcvd = k.fin_rcvd
  /\ r.rcv_fin_seq = k.rcv_fin_seq /\ NewFins(r.out, k.out, k)

LEMMA SendingStream ==
  ASSUME NEW k, NEW j, Sending(k, j)
  PROVE  Stream(k, j) /\ j.event = k.event /\ j.sockstate = k.sockstate
BY DEF Sending, SameStream, Stream

LEMMA StreamTransitive ==
  ASSUME NEW k, NEW j, NEW i, Stream(k, j), Stream(j, i)
  PROVE  Stream(k, i)
BY DEF Stream, NewFins, FinAt

\* Setting the event, and telling the application, keeps the stream.
LEMMA SetStream ==
  ASSUME NEW k \in Connections
  PROVE  /\ \A v : Stream(k, [k EXCEPT !.event = v])
         /\ \A v : Stream(k, [k EXCEPT !.sockstate = v])
         /\ \A i : Stream(k, Indicate(k, i))
         /\ \A ts : Stream(k, Cancel(k, ts))
         /\ \A v : Stream(k, Assert(k, v))
BY DEF Stream, NewFins, Indicate, Cancel, Assert, Connections

\* A step that gives the connection up.
LEMMA ClosedGood ==
  ASSUME NEW k, NEW p, NEW r \in Connections, Base(k, p), Stream(k, r),
         NEW t, t = Transition(r.fsm, r.event, r.active),
         \/ t = "CLOSED" /\ (k.fsm = "CLOSED" => TimersMatch(r))
         \/ /\ t = "LISTEN" /\ k.fsm = "SYN_RCVD" /\ ~k.active
            /\ r.sockstate = k.sockstate /\ "2MSL" \notin r.timers
         \/ /\ t = "INIT" /\ k.fsm = "INIT" /\ TimersMatch(r)
            /\ r.sockstate \notin {"CONNECTED", "CONNECTING", "PEER_CLOSED"}
  PROVE  Good(k, PerformStateTransition(r), p)
<1> DEFINE m == [r EXCEPT !.fsm = t]
<1>1. SameOutput(r, m) /\ m.fsm = t /\ m.sockstate = r.sockstate
  BY DEF SameOutput, Connections
<1> HIDE DEF m
<1>2. Fits(k, m, p)
  <2>1. FinEndsQueue(m)
    BY <1>1 DEF Base, FinEndsQueue, Stream, SameOutput
  <2>2. \A s \in m.out : "FIN" \in s.flags => FinAt(m, s.seq + s.len)
    BY <1>1 DEF Base, Idle, Stream, SameOutput, NewFins, FinAt
  <2> QED
    BY <1>1, <2>1, <2>2
       DEF Fits, Base, FinKnown, FinAt, Stream, SameOutput, PeerFinSeen
<1>3. IF t = r.fsm THEN TimersMatch(r) ELSE TimersFor(r, t)
  BY DEF TimersFor, Stream
<1> QED
  BY <1>2, <1>3, TransitionGood DEF m

\* Without an event there is no transition.
LEMMA IgnoredGood ==
  ASSUME NEW k, NEW p, NEW r \in Connections, Good(k, r, p)
  PROVE  Good(k, PerformStateTransition(r), p)
<1>1. r.fsm \in State /\ r.event \in Event /\ r.active \in BOOLEAN
  BY Fields
<1>2. r.event = "IGNORE" /\ Fits(k, r, p) /\ TimersMatch(r)
  BY DEF Good
<1>3. Transition(r.fsm, r.event, r.active) = r.fsm
  BY <1>1, <1>2, TransitionTable
<1>4. [r EXCEPT !.fsm = r.fsm] = r
  BY DEF Connections
<1> QED
  BY <1>2, <1>3, <1>4, TransitionGood

\* The highest sequence number sent, which matters in SYN_RCVD.
LEMMA SndMaxKept ==
  ASSUME NEW k \in Connections
  PROVE  /\ SendAck(k).snd_max = k.snd_max
         /\ \A n : SendRst(k, n).snd_max = k.snd_max
         /\ \A ts : Cancel(k, ts).snd_max = k.snd_max
         /\ \A n : [k EXCEPT !.rexmit_count = n].snd_max = k.snd_max
         /\ \A n : [k EXCEPT !.dupacks = n].snd_max = k.snd_max
BY DEF SendAck, AckSent, SendRst, Emit, Cancel, Connections
-----------------------------------------------------------------------------
(* Socket commands.                                                        *)

LEMMA SendTeardown ==
  ASSUME TypeOK, TeardownInv, NEW e \in Endpoint, Send(e)
  PROVE  TeardownInv'
<1> DEFINE c == conn[e]
           p == conn[Peer(e)]
           k == [c EXCEPT !.bufEnd = @ + 1]
<1>1. c \in Connections /\ Base(c, p)
  BY TeardownBase
<1> HIDE DEF p
<1>2. c.bufEnd + 1 \in Nat
  BY <1>1, Fields
<1>3. k \in Connections
  BY <1>1, <1>2, SetNat
<1>4. /\ k.fsm = c.fsm /\ k.event = c.event /\ k.active = c.active /\ k.out = c.out
      /\ k.sockstate = c.sockstate /\ k.send_fin = c.send_fin
      /\ k.rcv_nxt = c.rcv_nxt /\ k.fin_rcvd = c.fin_rcvd
      /\ k.rcv_fin_seq = c.rcv_fin_seq /\ k.timers = c.timers
  BY <1>1 DEF Connections
<1>5. /\ k.sockstate \in {"CONNECTED", "CONNECTING", "PEER_CLOSED"} /\ ~k.send_fin
      /\ k.fsm \in {"SYN_SENT", "SYN_RCVD", "ESTABLISHED", "CLOSE_WAIT"}
      /\ \/ Do(e, k)
         \/ /\ k.fsm \in {"ESTABLISHED", "CLOSE_WAIT"}
            /\ \E w \in Windows : Do(e, SendData(k, w))
  BY DEF Send, k, c
<1> HIDE DEF k
<1>6. Base(k, p)
  BY <1>1, <1>4, <1>5 DEF Base, Idle, FinEndsQueue, FinKnown, TimersMatch
<1>7. \A j : Good(k, j, p) => Good(c, j, p)
  BY <1>4, <1>5 DEF Good, Fits
<1>8. CASE Do(e, k)
  <2>1. Good(k, k, p)
    BY <1>6, SendingReflexive, SendingGood
  <2> QED
    BY <1>3, <1>7, <1>8, <2>1, StepTeardown DEF c, p
<1>9. CASE /\ k.fsm \in {"ESTABLISHED", "CLOSE_WAIT"}
           /\ \E w \in Windows : Do(e, SendData(k, w))
  <2>1. PICK w \in Windows : Do(e, SendData(k, w))
    BY <1>9
  <2>2. SendData(k, w) \in Connections /\ Sending(k, SendData(k, w))
    BY <1>3, WindowsType, SendDataType, SendDataSending
  <2>3. Good(k, SendData(k, w), p)
    BY <1>6, <1>9, <2>2, SendingGood
  <2> QED
    BY <1>7, <2>1, <2>2, <2>3, StepTeardown DEF c, p
<1> QED
  BY <1>5, <1>8, <1>9

LEMMA AbortTeardown ==
  ASSUME TypeOK, TeardownInv, NEW e \in Endpoint, Abort(e)
  PROVE  TeardownInv'
<1> DEFINE c  == conn[e]
           p  == conn[Peer(e)]
           b  == [c EXCEPT !.event = "ABORT"]
           k  == [b EXCEPT !.sockstate = "CLOSED"]
           k1 == IF k.fsm \in {"SYN_RCVD", "ESTABLISHED", "FIN_WAIT_1", "FIN_WAIT_2",
                               "CLOSE_WAIT"}
                   THEN SendRst(k, k.snd_nxt) ELSE k
<1>1. c \in Connections /\ Base(c, p)
  BY TeardownBase
<1> HIDE DEF p
<1>2. b \in Connections /\ Stream(c, b) /\ b.event = "ABORT"
  <2>1. b.event = "ABORT"
    BY <1>1 DEF Connections
  <2> QED
    BY <1>1, <2>1, SetState, SetStream DEF Event
<1>3. k \in Connections /\ Stream(b, k) /\ k.event = "ABORT"
  <2>1. k.event = "ABORT"
    BY <1>2 DEF Connections
  <2> QED
    BY <1>2, <2>1, SetState, SetStream DEF SockState
<1>4. k.fsm \notin {"INIT", "CLOSED"} /\ Do(e, PerformStateTransition(k1))
  BY <1>1 DEF Abort, k, b, c, k1, Connections
<1> HIDE DEF b, k
<1>5. k1 \in Connections /\ Stream(k, k1) /\ k1.event = "ABORT"
  BY <1>3, Fields, SendRstType, SendRstSending, SendingReflexive, SendingStream
<1> HIDE DEF k1
<1>6. Stream(c, k1)
  BY <1>2, <1>3, <1>5, StreamTransitive
<1>7. Transition(k1.fsm, k1.event, k1.active) = "CLOSED" /\ c.fsm # "CLOSED"
  <2>1. k1.fsm \in State /\ k1.event \in Event /\ k1.active \in BOOLEAN
    BY <1>5, Fields
  <2>2. k1.fsm = k.fsm /\ k1.fsm = c.fsm
    BY <1>5, <1>6 DEF Stream
  <2> QED
    BY <1>4, <1>5, <2>1, <2>2, TransitionTable
<1>8. Good(c, PerformStateTransition(k1), p)
  BY <1>1, <1>5, <1>6, <1>7, ClosedGood
<1>9. PerformStateTransition(k1) \in Connections
  BY <1>5, PerformStateTransitionType
<1> QED
  BY <1>4, <1>8, <1>9, StepTeardown DEF c, p

LEMMA ScheduleSame ==
  ASSUME NEW k \in Connections, NEW t \in Timer
  PROVE  LET j == Schedule(k, t)
         IN /\ j \in Connections /\ SameOutput(k, j) /\ j.fsm = k.fsm
            /\ j.event = k.event /\ j.sockstate = k.sockstate
            /\ j.timers = k.timers \cup {t}
<1> DEFINE a == Assert(k, t \notin k.timers)
           j == [a EXCEPT !.timers = @ \cup {t}]
<1>1. a \in Connections
  BY AssertType
<1>2. SameOutput(k, a) /\ a.fsm = k.fsm /\ a.event = k.event
      /\ a.sockstate = k.sockstate /\ a.timers = k.timers
  BY DEF Assert, SameOutput, Connections
<1> HIDE DEF a
<1>3. SameOutput(a, j) /\ j.fsm = a.fsm /\ j.event = a.event
      /\ j.sockstate = a.sockstate /\ j.timers = a.timers \cup {t}
  BY <1>1 DEF SameOutput, Connections
<1>4. Schedule(k, t) = j
  BY DEF Schedule, a, j
<1> HIDE DEF j
<1> QED
  BY <1>2, <1>3, <1>4, ScheduleType DEF SameOutput

LEMMA StartSynRexmitTimerSame ==
  ASSUME NEW k \in Connections
  PROVE  LET j == StartSynRexmitTimer(k)
         IN /\ j \in Connections /\ SameOutput(k, j) /\ j.fsm = k.fsm
            /\ j.event = k.event /\ j.sockstate = k.sockstate
            /\ j.timers = k.timers \cup {"SYN_REXMIT"}
<1> DEFINE c == Cancel(k, {"SYN_REXMIT"})
           b == Schedule(c, "SYN_REXMIT")
           j == [b EXCEPT !.syn_rexmit_count = 0]
<1>1. /\ c \in Connections /\ SameOutput(k, c) /\ c.fsm = k.fsm /\ c.event = k.event
      /\ c.sockstate = k.sockstate /\ c.timers = k.timers \ {"SYN_REXMIT"}
  BY CancelSame
<1> HIDE DEF c
<1>2. /\ b \in Connections /\ SameOutput(c, b) /\ b.fsm = c.fsm /\ b.event = c.event
      /\ b.sockstate = c.sockstate /\ b.timers = c.timers \cup {"SYN_REXMIT"}
  BY <1>1, ScheduleSame DEF Timer, SetupTimers
<1> HIDE DEF b
<1>3. SameOutput(b, j) /\ j.fsm = b.fsm /\ j.event = b.event
      /\ j.sockstate = b.sockstate /\ j.timers = b.timers
  BY <1>2 DEF SameOutput, Connections
<1>4. StartSynRexmitTimer(k) = j
  BY DEF StartSynRexmitTimer, c, b, j
<1> HIDE DEF j
<1> QED
  BY <1>1, <1>2, <1>3, <1>4, StartSynRexmitTimerType DEF SameOutput

LEMMA SelectInitialSeqNumSame ==
  ASSUME NEW k \in Connections
  PROVE  LET j == SelectInitialSeqNum(k)
         IN /\ j.fsm = k.fsm /\ j.event = k.event /\ j.active = k.active
            /\ j.sockstate = k.sockstate /\ j.iss = k.iss /\ j.bufEnd = k.iss + 1
            /\ j.send_fin = k.send_fin /\ j.snd_fin_seq = k.snd_fin_seq
            /\ j.rcv_nxt = k.rcv_nxt /\ j.fin_rcvd = k.fin_rcvd
            /\ j.rcv_fin_seq = k.rcv_fin_seq /\ j.timers = k.timers /\ j.out = k.out
BY DEF SelectInitialSeqNum, Connections

LEMMA OpenActiveTeardown ==
  ASSUME TypeOK, TeardownInv, NEW e \in Endpoint, OpenActive(e)
  PROVE  TeardownInv'
<1> DEFINE c == conn[e]
           p == conn[Peer(e)]
           k == [c EXCEPT !.active = TRUE, !.sockstate = "CONNECTING",
                          !.event = "OPEN_ACTIVE"]
           i == SelectInitialSeqNum(k)
           s == SendSyn(i)
           u == StartSynRexmitTimer(s)
           o == Schedule(u, "CONN_ESTAB")
           m == [o EXCEPT !.fsm = "SYN_SENT"]
<1>1. c \in Connections /\ Base(c, p)
  BY TeardownBase
<1> HIDE DEF p
<1>2. c.fsm = "INIT" /\ Do(e, PerformStateTransition(o))
  BY <1>1 DEF OpenActive, c, k, i, s, u, o, Connections
<1>3. k \in Connections
  BY <1>1, SetBoolean, SetState DEF SockState, Event
<1>4. /\ k.fsm = "INIT" /\ k.event = "OPEN_ACTIVE" /\ k.active = TRUE
      /\ k.send_fin = c.send_fin /\ k.out = c.out /\ k.timers = c.timers
      /\ k.rcv_nxt = c.rcv_nxt /\ k.fin_rcvd = c.fin_rcvd
      /\ k.rcv_fin_seq = c.rcv_fin_seq
  BY <1>1, <1>2 DEF Connections
<1> HIDE DEF k
<1>5. i \in Connections
  BY <1>3, SelectInitialSeqNumType
<1>6. /\ i.fsm = "INIT" /\ i.event = "OPEN_ACTIVE" /\ i.active = TRUE
      /\ i.send_fin = c.send_fin /\ i.out = c.out /\ i.timers = c.timers
      /\ i.rcv_nxt = c.rcv_nxt /\ i.fin_rcvd = c.fin_rcvd
      /\ i.rcv_fin_seq = c.rcv_fin_seq
  BY <1>3, <1>4, SelectInitialSeqNumSame
<1> HIDE DEF i
<1>7. s \in Connections /\ Sending(i, s)
  BY <1>5, SendSynType, SendSynSending
<1> HIDE DEF s
<1>8. /\ u \in Connections /\ SameOutput(s, u) /\ u.fsm = s.fsm
      /\ u.event = s.event /\ u.timers = s.timers \cup {"SYN_REXMIT"}
  BY <1>7, StartSynRexmitTimerSame
<1> HIDE DEF u
<1>9. /\ o \in Connections /\ SameOutput(u, o) /\ o.fsm = u.fsm
      /\ o.event = u.event /\ o.timers = u.timers \cup {"CONN_ESTAB"}
  BY <1>8, ScheduleSame DEF Timer, SetupTimers
<1> HIDE DEF o
<1>10. ~c.send_fin
  BY <1>1, <1>2 DEF Base, FinEndsQueue
<1>11. /\ o.fsm = "INIT" /\ o.event = "OPEN_ACTIVE" /\ o.active = TRUE
       /\ ~o.send_fin /\ o.fin_rcvd = c.fin_rcvd /\ o.rcv_fin_seq = c.rcv_fin_seq
       /\ \A x \in o.out : "FIN" \notin x.flags
  BY <1>1, <1>6, <1>7, <1>8, <1>9, <1>10
     DEF Sending, SameStream, NewFins, FinAt, SameOutput, Base, Idle
<1>12. TimersFor(o, "SYN_SENT")
  <2>1. "2MSL" \notin s.timers
    BY <1>1, <1>2, <1>6, <1>7 DEF Base, TimersMatch, Sending, SameStream
  <2> QED
    BY <1>8, <1>9, <2>1 DEF TimersFor, SetupTimers
<1>13. Transition(o.fsm, o.event, o.active) = "SYN_SENT"
  <2>1. o.fsm \in State /\ o.event \in Event /\ o.active \in BOOLEAN
    BY <1>9, Fields
  <2> QED
    BY <1>11, <2>1, TransitionTable
<1>14. SameOutput(o, m) /\ m.fsm = "SYN_SENT"
  BY <1>9 DEF SameOutput, Connections
<1> HIDE DEF m
<1>15. Fits(c, m, p)
  BY <1>1, <1>10, <1>11, <1>14
     DEF Fits, FinEndsQueue, SameOutput, Base, FinKnown, PeerFinSeen
<1>16. Good(c, PerformStateTransition(o), p)
  BY <1>9, <1>11, <1>12, <1>13, <1>15, TransitionGood DEF m
<1> QED
  BY <1>2, <1>9, <1>16, PerformStateTransitionType, StepTeardown DEF c, p

LEMMA OpenPassiveTeardown ==
  ASSUME TypeOK, TeardownInv, NEW e \in Endpoint, OpenPassive(e)
  PROVE  TeardownInv'
<1> DEFINE c == conn[e]
           p == conn[Peer(e)]
           k == [c EXCEPT !.active = FALSE, !.sockstate = "LISTENING",
                          !.event = "OPEN_PASSIVE"]
           m == [k EXCEPT !.fsm = "LISTEN"]
<1>1. c \in Connections /\ Base(c, p)
  BY TeardownBase
<1> HIDE DEF p
<1>2. c.fsm = "INIT" /\ Do(e, PerformStateTransition(k))
  BY <1>1 DEF OpenPassive, c, k, Connections
<1>3. k \in Connections
  BY <1>1, SetBoolean, SetState DEF SockState, Event
<1>4. /\ k.fsm = "INIT" /\ k.event = "OPEN_PASSIVE" /\ k.active = FALSE
      /\ k.sockstate = "LISTENING" /\ k.timers = c.timers
  BY <1>1, <1>2 DEF Connections
<1>5. /\ m.fsm = "LISTEN" /\ m.sockstate = "LISTENING" /\ m.send_fin = c.send_fin
      /\ m.out = c.out /\ m.fin_rcvd = c.fin_rcvd /\ m.rcv_fin_seq = c.rcv_fin_seq
  BY <1>1 DEF Connections
<1> HIDE DEF k, m
<1>6. Transition(k.fsm, k.event, k.active) = "LISTEN"
  <2>1. k.fsm \in State /\ k.event \in Event /\ k.active \in BOOLEAN
    BY <1>3, Fields
  <2> QED
    BY <1>4, <2>1, TransitionTable
<1>7. Fits(c, m, p)
  BY <1>1, <1>2, <1>5 DEF Fits, FinEndsQueue, Base, Idle, FinKnown, PeerFinSeen
<1>8. TimersFor(k, "LISTEN")
  BY <1>1, <1>2, <1>4 DEF TimersFor, Base, TimersMatch
<1>9. Good(c, PerformStateTransition(k), p)
  BY <1>3, <1>4, <1>6, <1>7, <1>8, TransitionGood DEF m
<1> QED
  BY <1>2, <1>3, <1>9, PerformStateTransitionType, StepTeardown DEF c, p

\* What process_CLOSE() does where a FIN has to be sent.
LEMMA CloseSendingSame ==
  ASSUME NEW k \in Connections
  PROVE  LET j    == CloseSending(k)
             fins == {s \in j.out \ k.out : "FIN" \in s.flags}
         IN /\ j \in Connections
            /\ j.fsm = k.fsm /\ j.active = k.active /\ j.sockstate = k.sockstate
            /\ j.iss = k.iss /\ j.bufEnd = k.bufEnd /\ j.rcv_nxt = k.rcv_nxt
            /\ j.fin_rcvd = k.fin_rcvd /\ j.rcv_fin_seq = k.rcv_fin_seq
            /\ j.timers \ {"REXMIT", "DELAYEDACK"} = k.timers \ {"REXMIT", "DELAYEDACK"}
            /\ FinAt(j, k.bufEnd)
            /\ \A s \in fins : s.seq + s.len = k.bufEnd
            /\ j.event = IF k.snd_max = k.bufEnd THEN k.event ELSE "IGNORE"
<1> DEFINE j   == CloseSending(k)
           f0  == [k EXCEPT !.snd_nxt = k.snd_max]
           fin == Segment({"FIN", "ACK"}, f0.snd_nxt, f0.rcv_nxt, 0)
           f1  == Emit(f0, fin)
           f2  == AckSent(f1)
           k1  == RestartRexmitTimer(f2)
           a   == [k1 EXCEPT !.snd_nxt = @ + 1]
           b   == [a EXCEPT !.snd_max = k.snd_max + 1]
           k2  == IF k.snd_max = k.bufEnd THEN b ELSE [k EXCEPT !.event = "IGNORE"]
           g   == [k2 EXCEPT !.send_fin = TRUE]
           h   == [g EXCEPT !.snd_fin_seq = k.bufEnd]
<1>1. k.snd_max \in Nat /\ k.bufEnd \in Nat
  BY Fields
<1>2. f0 \in Connections /\ Sending(k, f0) /\ f0.snd_nxt = k.snd_max
      /\ f0.out = k.out
  <2>1. f0.snd_nxt = k.snd_max /\ f0.out = k.out
    BY DEF Connections
  <2> QED
    BY <1>1, <2>1, SetNat, SendingSet
<1>3. j = h
  BY DEF CloseSending, SendFin, f0, fin, f1, f2, k1, a, b, k2, g, h
<1> HIDE DEF f0, j
<1>4. fin \in Segments /\ fin.seq = k.snd_max /\ fin.len = 0
  BY <1>1, <1>2, Fields, SegmentType DEF Flag, Segment
<1> HIDE DEF fin
<1>5. f1 \in Connections /\ SameStream(f0, f1) /\ f1.out = k.out \cup {fin}
  <2>1. SameStream(f0, f1) /\ f1.out = k.out \cup {fin}
    BY <1>2 DEF Emit, SameStream, Connections
  <2> QED
    BY <1>2, <1>4, <2>1, EmitType
<1> HIDE DEF f1
<1>6. f2 \in Connections /\ Sending(f1, f2) /\ f2.out = f1.out
  <2>1. f2.out = f1.out
    BY <1>5 DEF AckSent, Cancel, Connections
  <2> QED
    BY <1>5, <2>1, AckSentType, AckSentSending
<1> HIDE DEF f2
<1>7. k1 \in Connections /\ Sending(f2, k1) /\ k1.out = f2.out
  <2>1. k1.out = f2.out
    BY <1>6 DEF RestartRexmitTimer, StartRexmitTimer, Schedule, Assert, Cancel, Connections
  <2> QED
    BY <1>6, <2>1, RexmitTimerType, RexmitTimerSending
<1> HIDE DEF k1
<1>8. b \in Connections /\ SameStream(k1, b) /\ b.out = k1.out
  <2>1. k1.snd_nxt + 1 \in Nat /\ k.snd_max + 1 \in Nat
    BY <1>1, <1>7, Fields
  <2>2. a \in Connections /\ Sending(k1, a) /\ a.out = k1.out
    <3>1. a.out = k1.out
      BY <1>7 DEF Connections
    <3> QED
      BY <1>7, <2>1, <3>1, SetNat, SendingSet
  <2> HIDE DEF a
  <2>3. b \in Connections /\ Sending(a, b) /\ b.out = a.out
    <3>1. b.out = a.out
      BY <2>2 DEF Connections
    <3> QED
      BY <2>1, <2>2, <3>1, SetNat, SendingSet
  <2> HIDE DEF b
  <2> QED
    BY <2>2, <2>3 DEF Sending, SameStream
<1> HIDE DEF b
<1>9. SameStream(k, b) /\ b.out = k.out \cup {fin}
  BY <1>2, <1>5, <1>6, <1>7, <1>8 DEF Sending, SameStream
<1>10. /\ k2 \in Connections
       /\ k2.fsm = k.fsm /\ k2.active = k.active /\ k2.sockstate = k.sockstate
       /\ k2.iss = k.iss /\ k2.bufEnd = k.bufEnd /\ k2.rcv_nxt = k.rcv_nxt
       /\ k2.fin_rcvd = k.fin_rcvd /\ k2.rcv_fin_seq = k.rcv_fin_seq
       /\ k2.timers \ {"REXMIT", "DELAYEDACK"} = k.timers \ {"REXMIT", "DELAYEDACK"}
       /\ k2.event = IF k.snd_max = k.bufEnd THEN k.event ELSE "IGNORE"
       /\ k2.out = IF k.snd_max = k.bufEnd THEN k.out \cup {fin} ELSE k.out
  <2>1. CASE k.snd_max = k.bufEnd
    BY <1>8, <1>9, <2>1 DEF SameStream
  <2>2. CASE k.snd_max # k.bufEnd
    <3>1. k2 \in Connections
      BY <2>2, SetState DEF Event
    <3> QED
      BY <2>2, <3>1, ZenonT(40) DEF Connections
  <2> QED
    BY <2>1, <2>2
<1> HIDE DEF k2
<1>11. /\ h.fsm = k2.fsm /\ h.active = k2.active /\ h.sockstate = k2.sockstate
       /\ h.iss = k2.iss /\ h.bufEnd = k2.bufEnd /\ h.rcv_nxt = k2.rcv_nxt
       /\ h.fin_rcvd = k2.fin_rcvd /\ h.rcv_fin_seq = k2.rcv_fin_seq
       /\ h.timers = k2.timers /\ h.event = k2.event /\ h.out = k2.out
       /\ h.send_fin = TRUE /\ h.snd_fin_seq = k.bufEnd
  BY <1>10 DEF Connections
<1> HIDE DEF h
<1>12. \A s \in j.out \ k.out : s.seq + s.len = k.bufEnd
  BY <1>1, <1>3, <1>4, <1>10, <1>11
<1>13. FinAt(j, k.bufEnd) /\ j \in Connections
  BY <1>3, <1>11, CloseSendingType DEF FinAt, j
<1> QED
  BY <1>3, <1>10, <1>11, <1>12, <1>13 DEF j

LEMMA CloseTeardown ==
  ASSUME TypeOK, TeardownInv, NEW e \in Endpoint, Close(e)
  PROVE  TeardownInv'
<1> DEFINE c  == conn[e]
           p  == conn[Peer(e)]
           so == IF c.sockstate = "CONNECTED" THEN "LOCALLY_CLOSED" ELSE "CLOSED"
           b  == [c EXCEPT !.event = "CLOSE"]
           k  == [b EXCEPT !.sockstate = so]
           j  == CloseSending(k)
<1>1. c \in Connections /\ Base(c, p)
  BY TeardownBase
<1> HIDE DEF p
<1>2. /\ b \in Connections /\ SameOutput(c, b) /\ b.fsm = c.fsm /\ b.event = "CLOSE"
      /\ b.timers = c.timers /\ Stream(c, b) /\ b.sockstate = c.sockstate
  <2>1. /\ SameOutput(c, b) /\ b.fsm = c.fsm /\ b.event = "CLOSE"
        /\ b.timers = c.timers /\ b.sockstate = c.sockstate
    BY <1>1 DEF SameOutput, Connections
  <2> QED
    BY <1>1, <2>1, SetState, SetStream DEF Event
<1>3. /\ \/ c.fsm \in {"LISTEN", "SYN_SENT"} /\ Do(e, PerformStateTransition(k))
         \/ /\ c.fsm \in {"SYN_RCVD", "ESTABLISHED", "CLOSE_WAIT"}
            /\ Do(e, PerformStateTransition(j))
  <2>1. k = [c EXCEPT !.event = "CLOSE",
                      !.sockstate = IF @ = "CONNECTED" THEN "LOCALLY_CLOSED" ELSE "CLOSED"]
    BY <1>1 DEF Connections
  <2>2. k.fsm = c.fsm
    BY <1>1 DEF Connections
  <2> HIDE DEF k, b, so
  <2> QED
    BY <2>1, <2>2 DEF Close, c, j
<1> HIDE DEF b
<1>4. /\ k \in Connections /\ SameOutput(c, k) /\ k.fsm = c.fsm /\ k.event = "CLOSE"
      /\ k.timers = c.timers /\ Stream(b, k)
      /\ k.sockstate \notin {"CONNECTED", "CONNECTING", "PEER_CLOSED"}
  <2>1. /\ SameOutput(b, k) /\ k.fsm = b.fsm /\ k.event = b.event
        /\ k.timers = b.timers /\ k.sockstate = so
    BY <1>2 DEF SameOutput, Connections
  <2>2. so \in SockState
    BY DEF SockState
  <2>3. k \in Connections /\ Stream(b, k)
    BY <1>2, <2>2, SetState, SetStream
  <2> QED
    BY <1>2, <2>1, <2>3 DEF SameOutput
<1> HIDE DEF k
<1>5. k.fsm \in State /\ k.event \in Event /\ k.active \in BOOLEAN
  BY <1>4, Fields
<1>6. CASE c.fsm \in {"LISTEN", "SYN_SENT"} /\ Do(e, PerformStateTransition(k))
  <2>1. Transition(k.fsm, k.event, k.active) = "CLOSED"
    BY <1>4, <1>5, <1>6, TransitionTable
  <2>2. Stream(c, k)
    BY <1>2, <1>4, StreamTransitive
  <2>3. Good(c, PerformStateTransition(k), p)
    BY <1>1, <1>4, <1>6, <2>1, <2>2, ClosedGood
  <2> QED
    BY <1>4, <1>6, <2>3, PerformStateTransitionType, StepTeardown DEF c, p
<1>7. CASE /\ c.fsm \in {"SYN_RCVD", "ESTABLISHED", "CLOSE_WAIT"}
           /\ Do(e, PerformStateTransition(j))
  <2> DEFINE t == Transition(j.fsm, j.event, j.active)
             m == [j EXCEPT !.fsm = t]
  <2>1. /\ j \in Connections /\ j.fsm = c.fsm /\ j.active = c.active
        /\ j.sockstate = k.sockstate
        /\ j.iss = c.iss /\ j.bufEnd = c.bufEnd /\ j.rcv_nxt = c.rcv_nxt
        /\ j.fin_rcvd = c.fin_rcvd /\ j.rcv_fin_seq = c.rcv_fin_seq
        /\ j.timers \ {"REXMIT", "DELAYEDACK"} = c.timers \ {"REXMIT", "DELAYEDACK"}
        /\ FinAt(j, c.bufEnd)
        /\ \A s \in j.out \ c.out : "FIN" \in s.flags => s.seq + s.len = c.bufEnd
        /\ j.event = IF c.snd_max = c.bufEnd THEN "CLOSE" ELSE "IGNORE"
    BY <1>4, CloseSendingSame DEF SameOutput
  <2> HIDE DEF j
  <2>2. t = CASE c.snd_max # c.bufEnd  -> c.fsm
              [] c.snd_max = c.bufEnd /\ c.fsm = "CLOSE_WAIT" -> "LAST_ACK"
              [] OTHER -> "FIN_WAIT_1"
    <3>1. j.fsm \in State /\ j.event \in Event /\ j.active \in BOOLEAN
      BY <2>1, Fields
    <3> QED
      BY <1>7, <2>1, <3>1, TransitionTable
  <2>3. c.fsm = "SYN_RCVD" /\ ~c.active => c.snd_max = c.bufEnd
    BY <1>1 DEF Base, FinEndsQueue
  <2>4. t \in State
    BY <2>1, Fields, TransitionType
  <2> HIDE DEF t
  <2>5. SameOutput(j, m) /\ m.fsm = t /\ m.sockstate = j.sockstate
    BY <2>1 DEF SameOutput, Connections
  <2> HIDE DEF m
  <2>6. FinEndsQueue(m)
    BY <1>7, <2>1, <2>2, <2>3, <2>5 DEF FinEndsQueue, SameOutput, FinAt
  <2>7. c.send_fin => FinAt(m, c.snd_fin_seq)
    BY <1>1, <2>1, <2>5 DEF Base, FinEndsQueue, SameOutput, FinAt
  <2>8. \A s \in m.out : "FIN" \in s.flags => FinAt(m, s.seq + s.len)
    BY <1>1, <2>1, <2>5 DEF Base, Idle, SameOutput, FinAt
  <2>9. Fits(c, m, p)
    BY <1>1, <1>7, <2>1, <2>2, <2>5, <2>6, <2>7, <2>8
       DEF Fits, Base, FinKnown, SameOutput, PeerFinSeen
  <2>10. \A x \in SetupTimers \cup {"2MSL"} : x \in j.timers <=> x \in c.timers
    <3>1. \A x : x \notin {"REXMIT", "DELAYEDACK"} => (x \in j.timers <=> x \in c.timers)
      BY <2>1
    <3> QED
      BY <3>1 DEF SetupTimers
  <2>11. IF t = j.fsm THEN TimersMatch(j) ELSE TimersFor(j, t)
    BY <1>1, <1>7, <2>1, <2>2, <2>10 DEF Base, TimersMatch, TimersFor
  <2>12. Good(c, PerformStateTransition(j), p)
    BY <2>1, <2>9, <2>11, TransitionGood DEF m, t
  <2> QED
    BY <1>7, <2>1, <2>12, PerformStateTransitionType, StepTeardown DEF c, p
<1> QED
  BY <1>3, <1>6, <1>7

-----------------------------------------------------------------------------
(* Timers.                                                                 *)

LEMMA FiredSame ==
  ASSUME TypeOK, NEW e \in Endpoint, NEW x
  PROVE  LET c == conn[e]  f == Fired(e, x)
         IN /\ f \in Connections /\ SameOutput(c, f) /\ f.fsm = c.fsm
            /\ f.event = c.event /\ f.sockstate = c.sockstate
            /\ f.timers = c.timers \ {x} /\ Stream(c, f)
<1>1. conn[e] \in Connections
  BY DEF TypeOK
<1> QED
  BY <1>1, CancelSame, SetStream DEF Fired

LEMMA SynRexmitTimeoutTeardown ==
  ASSUME TypeOK, TeardownInv, NEW e \in Endpoint, SynRexmitTimeout(e)
  PROVE  TeardownInv'
<1> DEFINE c  == conn[e]
           p  == conn[Peer(e)]
           f  == Fired(e, "SYN_REXMIT")
           k  == [f EXCEPT !.syn_rexmit_count = @ + 1]
           k1 == CASE k.fsm = "SYN_SENT" -> SendSyn(k)
                   [] k.fsm = "SYN_RCVD" -> SendSynAck(k)
                   [] OTHER -> Assert(k, FALSE)
           j  == Schedule(k1, "SYN_REXMIT")
<1>1. c \in Connections /\ Base(c, p)
  BY TeardownBase
<1> HIDE DEF p
<1>2. "SYN_REXMIT" \in c.timers /\ DoTimed(e, j)
  BY DEF SynRexmitTimeout, Expires, c, f, k, k1, j
<1>3. c.fsm \in {"SYN_SENT", "SYN_RCVD"}
  BY <1>1, <1>2 DEF Base, TimersMatch, SetupTimers
<1>4. /\ f \in Connections /\ SameOutput(c, f) /\ f.fsm = c.fsm /\ f.event = c.event
      /\ f.sockstate = c.sockstate /\ f.timers = c.timers \ {"SYN_REXMIT"}
  BY FiredSame
<1> HIDE DEF f
<1>5. k \in Connections /\ Sending(f, k)
  <2>1. f.syn_rexmit_count + 1 \in Nat
    BY <1>4, Fields
  <2> QED
    BY <1>4, <2>1, SetNat, SendingSet
<1> HIDE DEF k
<1>6. k1 \in {SendSyn(k), SendSynAck(k)}
  BY <1>3, <1>4, <1>5 DEF Sending, SameStream
<1> HIDE DEF k1
<1>7. k1 \in Connections /\ Sending(k, k1) /\ k1.snd_max = k.iss + 1
  BY <1>5, <1>6, SendSynType, SendSynSending
<1>8. /\ j \in Connections /\ SameOutput(k1, j) /\ j.fsm = k1.fsm /\ j.event = k1.event
      /\ j.sockstate = k1.sockstate /\ j.timers = k1.timers \cup {"SYN_REXMIT"}
  BY <1>7, ScheduleSame DEF Timer, SetupTimers
<1> HIDE DEF j
<1>9. Sending(f, k1)
  BY <1>5, <1>7, SendingTransitive
<1>10. Sending(c, j)
  <2>1. j.timers \ {"REXMIT", "DELAYEDACK"} = c.timers \ {"REXMIT", "DELAYEDACK"}
    BY <1>2, <1>4, <1>8, <1>9 DEF Sending, SameStream
  <2>2. SameStream(c, j)
    BY <1>4, <1>8, <1>9, <2>1 DEF Sending, SameStream, SameOutput
  <2>3. NewFins(j.out, c.out, c)
    BY <1>4, <1>8, <1>9 DEF Sending, NewFins, SameOutput, FinAt
  <2> QED
    BY <2>2, <2>3 DEF Sending
<1>11. c.fsm = "SYN_RCVD" => c.active \/ j.snd_max = c.snd_max
  <2>1. j.snd_max = c.iss + 1
    BY <1>4, <1>5, <1>7, <1>8 DEF SameOutput, Sending, SameStream
  <2> QED
    BY <1>1, <2>1 DEF Base, FinEndsQueue
<1>12. Good(c, j, p)
  BY <1>1, <1>10, <1>11, SendingGood
<1> QED
  BY <1>2, <1>8, <1>12, StepTeardown DEF c, p

LEMMA ConnEstabTimeoutTeardown ==
  ASSUME TypeOK, TeardownInv, NEW e \in Endpoint, ConnEstabTimeout(e)
  PROVE  TeardownInv'
<1> DEFINE c  == conn[e]
           p  == conn[Peer(e)]
           f  == Fired(e, "CONN_ESTAB")
           k  == [f EXCEPT !.event = "TIMEOUT_CONN_ESTAB"]
           k1 == IF k.active THEN Indicate(k, "TIMED_OUT") ELSE k
           r  == Assert(k1, k.fsm \in {"SYN_SENT", "SYN_RCVD"})
<1>1. c \in Connections /\ Base(c, p)
  BY TeardownBase
<1> HIDE DEF p
<1>2. "CONN_ESTAB" \in c.timers /\ DoTimed(e, PerformStateTransition(r))
  BY DEF ConnEstabTimeout, Expires, c, f, k, k1, r
<1>3. c.fsm \in {"SYN_SENT", "SYN_RCVD"}
  BY <1>1, <1>2 DEF Base, TimersMatch, SetupTimers
<1>4. /\ f \in Connections /\ Stream(c, f) /\ f.sockstate = c.sockstate
      /\ f.timers = c.timers \ {"CONN_ESTAB"}
  BY FiredSame
<1> HIDE DEF f
<1>5. /\ k \in Connections /\ Stream(f, k) /\ k.event = "TIMEOUT_CONN_ESTAB"
      /\ k.sockstate = f.sockstate /\ k.timers = f.timers
  <2>1. k.event = "TIMEOUT_CONN_ESTAB" /\ k.sockstate = f.sockstate /\ k.timers = f.timers
    BY <1>4 DEF Connections
  <2> QED
    BY <1>4, <2>1, SetState, SetStream DEF Event
<1> HIDE DEF k
<1>6. /\ k1 \in Connections /\ Stream(k, k1) /\ k1.event = k.event /\ k1.timers = k.timers
      /\ ~k1.active => k1.sockstate = k.sockstate
  <2>1. CASE k.active
    BY <1>5, <2>1, IndicateType, IndicateSame, SetStream DEF Indication, SameOutput
  <2>2. CASE ~k.active
    BY <1>5, <2>2 DEF Stream, NewFins
  <2> QED
    BY <2>1, <2>2
<1> HIDE DEF k1
<1>7. /\ r \in Connections /\ Stream(k1, r) /\ r.event = k1.event /\ r.timers = k1.timers
      /\ r.sockstate = k1.sockstate
  <2>1. r.event = k1.event /\ r.timers = k1.timers /\ r.sockstate = k1.sockstate
    BY <1>6 DEF Assert, Connections
  <2> QED
    BY <1>6, <2>1, AssertType, SetStream
<1> HIDE DEF r
<1>8. Stream(c, r)
  BY <1>4, <1>5, <1>6, <1>7, StreamTransitive
<1>9. LET t == Transition(r.fsm, r.event, r.active)
      IN t = "CLOSED" \/ (t = "LISTEN" /\ r.fsm = "SYN_RCVD" /\ ~r.active)
  <2>1. r.fsm \in State /\ r.event \in Event /\ r.active \in BOOLEAN /\ r.fsm = c.fsm
    BY <1>7, <1>8, Fields DEF Stream
  <2> QED
    BY <1>3, <1>5, <1>6, <1>7, <2>1, TransitionTable
<1>10. "2MSL" \notin r.timers /\ r.fsm = c.fsm /\ r.active = c.active
       /\ (~r.active => r.sockstate = c.sockstate)
  BY <1>1, <1>3, <1>4, <1>5, <1>6, <1>7, <1>8 DEF Base, TimersMatch, Stream
<1>11. Good(c, PerformStateTransition(r), p)
  BY <1>1, <1>3, <1>7, <1>8, <1>9, <1>10, ClosedGood
<1> QED
  BY <1>2, <1>7, <1>11, PerformStateTransitionType, StepTeardown DEF c, p

LEMMA MSLTimeoutTeardown ==
  ASSUME TypeOK, TeardownInv, NEW e \in Endpoint, MSLTimeout(e)
  PROVE  TeardownInv'
<1> DEFINE c == conn[e]
           p == conn[Peer(e)]
           f == Fired(e, "2MSL")
           k == [f EXCEPT !.event = "TIMEOUT_2MSL"]
           r == Assert(k, k.fsm = "TIME_WAIT")
<1>1. c \in Connections /\ Base(c, p)
  BY TeardownBase
<1> HIDE DEF p
<1>2. "2MSL" \in c.timers /\ DoTimed(e, PerformStateTransition(r))
  BY DEF MSLTimeout, Expires, c, f, k, r
<1>3. c.fsm = "TIME_WAIT"
  BY <1>1, <1>2 DEF Base, TimersMatch
<1>4. f \in Connections /\ Stream(c, f)
  BY FiredSame
<1> HIDE DEF f
<1>5. k \in Connections /\ Stream(f, k) /\ k.event = "TIMEOUT_2MSL"
  <2>1. k.event = "TIMEOUT_2MSL"
    BY <1>4 DEF Connections
  <2> QED
    BY <1>4, <2>1, SetState, SetStream DEF Event
<1> HIDE DEF k
<1>6. r \in Connections /\ Stream(k, r) /\ r.event = "TIMEOUT_2MSL"
  <2>1. r.event = k.event
    BY <1>5 DEF Assert, Connections
  <2> QED
    BY <1>5, <2>1, AssertType, SetStream
<1> HIDE DEF r
<1>7. Stream(c, r)
  BY <1>4, <1>5, <1>6, StreamTransitive
<1>8. Transition(r.fsm, r.event, r.active) = "CLOSED"
  <2>1. r.fsm \in State /\ r.event \in Event /\ r.active \in BOOLEAN /\ r.fsm = c.fsm
    BY <1>6, <1>7, Fields DEF Stream
  <2> QED
    BY <1>3, <1>6, <2>1, TransitionTable
<1>9. Good(c, PerformStateTransition(r), p)
  BY <1>1, <1>3, <1>6, <1>7, <1>8, ClosedGood
<1> QED
  BY <1>2, <1>6, <1>9, PerformStateTransitionType, StepTeardown DEF c, p

LEMMA RexmitTimeoutTeardown ==
  ASSUME TypeOK, TeardownInv, NEW e \in Endpoint, RexmitTimeout(e)
  PROVE  TeardownInv'
<1> DEFINE c     == conn[e]
           p     == conn[Peer(e)]
           f     == Fired(e, "REXMIT")
           k     == [f EXCEPT !.rexmit_count = @ + 1]
           told  == Indicate(k, "TIMED_OUT")
           abort == [told EXCEPT !.event = "ABORT"]
           b     == Schedule(k, "REXMIT")
           b1    == [b EXCEPT !.lossRecovery = FALSE]
           b2    == [b1 EXCEPT !.recover = k.snd_max - 1]
           again == [b2 EXCEPT !.afterRto = TRUE]
           j     == RetransmitOneSegment(again, TRUE)
<1>1. c \in Connections /\ Base(c, p)
  BY TeardownBase
<1> HIDE DEF p
<1>2. \/ DoTimed(e, PerformStateTransition(abort))
      \/ "REXMIT" \in c.timers /\ DoTimed(e, j)
  BY DEF RexmitTimeout, Expires, c, f, k, told, abort, b, b1, b2, again, j
<1>3. f \in Connections /\ f.timers = c.timers \ {"REXMIT"} /\ Sending(c, f)
      /\ f.snd_max = c.snd_max
  <2>1. f = Cancel(c, {"REXMIT"})
    BY DEF Fired
  <2> QED
    BY <1>1, <2>1, FiredSame, CancelSending, SndMaxKept
<1> HIDE DEF f
<1>4. k \in Connections /\ Sending(f, k) /\ k.timers = f.timers /\ k.snd_max = f.snd_max
  <2>1. f.rexmit_count + 1 \in Nat
    BY <1>3, Fields
  <2>2. k.timers = f.timers /\ k.snd_max = f.snd_max
    BY <1>3 DEF Connections
  <2> QED
    BY <1>3, <2>1, <2>2, SetNat, SendingSet
<1> HIDE DEF k
<1>5. Sending(c, k)
  BY <1>3, <1>4, SendingTransitive
<1>6. CASE DoTimed(e, PerformStateTransition(abort))
  <2>1. /\ told \in Connections /\ Stream(k, told) /\ told.timers = k.timers
        /\ told.sockstate = "SOCKERROR"
    BY <1>4, IndicateType, IndicateSame, SetStream DEF Indication, SocketOf
  <2> HIDE DEF told
  <2>2. /\ abort \in Connections /\ Stream(told, abort) /\ abort.timers = told.timers
        /\ abort.sockstate = told.sockstate /\ abort.event = "ABORT"
    <3>1. /\ abort.timers = told.timers /\ abort.sockstate = told.sockstate
          /\ abort.event = "ABORT"
      BY <2>1 DEF Connections
    <3> QED
      BY <2>1, <3>1, SetState, SetStream DEF Event
  <2> HIDE DEF abort
  <2>3. Stream(c, abort)
    BY <1>5, <2>1, <2>2, SendingStream, StreamTransitive
  <2>4. TimersMatch(abort)
    <3>1. abort.timers = c.timers \ {"REXMIT"} /\ abort.fsm = c.fsm
      BY <1>3, <1>4, <2>1, <2>2, <2>3 DEF Stream
    <3> QED
      BY <1>1, <3>1 DEF Base, TimersMatch, SetupTimers
  <2>5. Transition(abort.fsm, abort.event, abort.active)
          = IF c.fsm = "INIT" THEN "INIT" ELSE "CLOSED"
    <3>1. /\ abort.fsm \in State /\ abort.event \in Event /\ abort.active \in BOOLEAN
          /\ abort.fsm = c.fsm
      BY <2>2, <2>3, Fields DEF Stream
    <3> QED
      BY <2>2, <3>1, TransitionTable
  <2>6. Good(c, PerformStateTransition(abort), p)
    BY <1>1, <2>1, <2>2, <2>3, <2>4, <2>5, ClosedGood
  <2> QED
    BY <1>6, <2>2, <2>6, PerformStateTransitionType, StepTeardown DEF c, p
<1>7. CASE "REXMIT" \in c.timers /\ DoTimed(e, j)
  <2>1. b \in Connections /\ Sending(k, b) /\ b.snd_max = k.snd_max
    <3>1. /\ b \in Connections /\ SameOutput(k, b) /\ b.fsm = k.fsm /\ b.event = k.event
          /\ b.sockstate = k.sockstate /\ b.timers = k.timers \cup {"REXMIT"}
      BY <1>4, ScheduleSame DEF Timer
    <3>2. b.timers \ {"REXMIT", "DELAYEDACK"} = k.timers \ {"REXMIT", "DELAYEDACK"}
      BY <3>1
    <3> QED
      BY <3>1, <3>2 DEF SameOutput, Sending, SameStream, NewFins
  <2> HIDE DEF b
  <2>2. b1 \in Connections /\ Sending(b, b1) /\ b1.snd_max = b.snd_max
    <3>1. b1.snd_max = b.snd_max
      BY <2>1 DEF Connections
    <3> QED
      BY <2>1, <3>1, SetBoolean, SendingSet
  <2> HIDE DEF b1
  <2>3. b2 \in Connections /\ Sending(b1, b2) /\ b2.snd_max = b1.snd_max
    <3>1. k.snd_max - 1 \in Int
      BY <1>4, Fields
    <3>2. b2.snd_max = b1.snd_max
      BY <2>2 DEF Connections
    <3> QED
      BY <2>2, <3>1, <3>2, SetInt, SendingSet
  <2> HIDE DEF b2
  <2>4. again \in Connections /\ Sending(b2, again) /\ again.snd_max = b2.snd_max
    <3>1. again.snd_max = b2.snd_max
      BY <2>3 DEF Connections
    <3> QED
      BY <2>3, <3>1, SetBoolean, SendingSet
  <2> HIDE DEF again
  <2>5. Sending(c, again) /\ again.snd_max = c.snd_max
    BY <1>3, <1>4, <1>5, <2>1, <2>2, <2>3, <2>4, SendingTransitive
  <2>6. /\ j \in Connections /\ Sending(c, j)
        /\ ~again.send_fin => j.snd_max = c.snd_max
    BY <2>4, <2>5, RetransmitOneSegmentType, RetransmitOneSegmentSending,
       SendingTransitive
  <2> HIDE DEF j
  <2>7. c.fsm = "SYN_RCVD" => c.active \/ j.snd_max = c.snd_max
    BY <1>1, <2>5, <2>6 DEF Base, FinEndsQueue, Sending, SameStream
  <2>8. Good(c, j, p)
    BY <1>1, <2>6, <2>7, SendingGood
  <2> QED
    BY <1>7, <2>6, <2>8, StepTeardown DEF c, p
<1> QED
  BY <1>2, <1>6, <1>7

LEMMA DelayedAckTimeoutTeardown ==
  ASSUME TypeOK, TeardownInv, NEW e \in Endpoint, DelayedAckTimeout(e)
  PROVE  TeardownInv'
<1> DEFINE c == conn[e]
           f == Cancel(c, {"DELAYEDACK"})
           j == SendAck(f)
<1>1. c \in Connections /\ Base(c, conn[Peer(e)])
  BY TeardownBase
<1>2. f \in Connections /\ Sending(c, f) /\ f.snd_max = c.snd_max
  BY <1>1, CancelType, CancelSending, SndMaxKept
<1>3. Do(e, j)
  BY DEF DelayedAckTimeout, Fired, c, f, j
<1> HIDE DEF f
<1>4. j \in Connections /\ Sending(c, j) /\ j.snd_max = c.snd_max
  BY <1>2, SendAckType, SendAckSending, SendingTransitive, SndMaxKept
<1> HIDE DEF j
<1>5. Good(c, j, conn[Peer(e)])
  BY <1>1, <1>4, SendingGood
<1> QED
  BY <1>3, <1>4, <1>5, StepTeardown DEF c

LEMMA LoseTeardown ==
  ASSUME TypeOK, TeardownInv, NEW e \in Endpoint, Lose(e)
  PROVE  TeardownInv'
<1>1. conn' = conn /\ \A f \in Endpoint : net'[f] \subseteq net[f]
  BY DEF Lose, TypeOK
<1> QED
  BY <1>1 DEF TeardownInv, FinKnown
-----------------------------------------------------------------------------
(* Segments that arrive.                                                   *)

LEMMA ReceiveWhileClosedTeardown ==
  ASSUME TypeOK, TeardownInv, NEW e \in Endpoint, NEW s \in Segments,
         ReceiveWhileClosed(e, s)
  PROVE  TeardownInv'
<1> DEFINE k   == conn[e]
           end == s.seq + s.len + (IF "SYN" \in s.flags THEN 1 ELSE 0)
                                + (IF "FIN" \in s.flags THEN 1 ELSE 0)
           r   == Segment({"RST", "ACK"}, 0, end, 0)
           j   == CASE "RST" \in s.flags -> k
                    [] s.flags \cap {"RST", "ACK"} = {} -> Emit(k, r)
                    [] OTHER -> SendRst(k, s.ackNo)
<1>1. k \in Connections /\ Base(k, conn[Peer(e)])
  BY TeardownBase
<1>2. s.ackNo \in Nat /\ end \in Nat
  BY DEF Segments
<1>3. k.fsm \in {"INIT", "CLOSED"} /\ Take(e, s, j)
  BY DEF ReceiveWhileClosed, k, j, r, end
<1> HIDE DEF end
<1>4. r \in Segments /\ "FIN" \notin r.flags
  BY <1>2, SegmentType DEF Flag, Segment
<1> HIDE DEF r
<1>5. j \in Connections /\ Sending(k, j)
  BY <1>1, <1>2, <1>4, EmitType, EmitSending, SendRstType, SendRstSending,
     SendingReflexive
<1> HIDE DEF j
<1>6. Good(k, j, conn[Peer(e)])
  BY <1>1, <1>3, <1>5, SendingGood
<1> QED
  BY <1>3, <1>5, <1>6, StepTeardown DEF k

LEMMA ReceiveUnacceptableTeardown ==
  ASSUME TypeOK, TeardownInv, NEW e \in Endpoint, NEW s \in Segments,
         ReceiveUnacceptable(e, s)
  PROVE  TeardownInv'
<1> DEFINE k == conn[e]
           j == IF "RST" \in s.flags THEN k ELSE SendAck(k)
<1>1. k \in Connections /\ Base(k, conn[Peer(e)])
  BY TeardownBase
<1>2. Take(e, s, j)
  BY DEF ReceiveUnacceptable
<1>3. j \in Connections /\ Sending(k, j) /\ j.snd_max = k.snd_max
  BY <1>1, SendAckType, SendAckSending, SendingReflexive, SndMaxKept
<1> HIDE DEF j
<1>4. Good(k, j, conn[Peer(e)])
  BY <1>1, <1>3, SendingGood
<1> QED
  BY <1>2, <1>3, <1>4, StepTeardown DEF k

\* What an end has sent, and knows, of the two FINs.
SameFins(k, j) ==
  /\ j.bufEnd = k.bufEnd /\ j.send_fin = k.send_fin /\ j.snd_fin_seq = k.snd_fin_seq
  /\ j.fin_rcvd = k.fin_rcvd /\ j.rcv_fin_seq = k.rcv_fin_seq
  /\ NewFins(j.out, k.out, k)

SameTimers(k, j) ==
  \A x \in SetupTimers \cup {"2MSL"} : x \in j.timers <=> x \in k.timers

\* The part of Fits that no state transition disturbs.
Flows(k, j, p) ==
  /\ j.send_fin => j.snd_fin_seq = j.bufEnd
  /\ k.send_fin => FinAt(j, k.snd_fin_seq)
  /\ \A s \in j.out : "FIN" \in s.flags => FinAt(j, s.seq + s.len)
  /\ j.fin_rcvd => FinAt(p, j.rcv_fin_seq)

LEMMA BaseFlows ==
  ASSUME NEW k, NEW p, Base(k, p)
  PROVE  Flows(k, k, p)
BY DEF Base, Idle, FinEndsQueue, FinKnown, Flows, FinAt

LEMMA FlowsKept ==
  ASSUME NEW k, NEW j, NEW i, NEW p, Flows(k, j, p), SameFins(j, i)
  PROVE  Flows(k, i, p)
BY DEF Flows, SameFins, NewFins, FinAt

LEMMA SendingKept ==
  ASSUME NEW k, NEW j, Sending(k, j)
  PROVE  /\ SameFins(k, j) /\ SameTimers(k, j) /\ j.fsm = k.fsm /\ j.event = k.event
         /\ j.rcv_nxt = k.rcv_nxt
<1>1. \A x : x \notin {"REXMIT", "DELAYEDACK"} => (x \in j.timers <=> x \in k.timers)
  BY DEF Sending, SameStream
<1>2. SameTimers(k, j)
  BY <1>1 DEF SameTimers, SetupTimers
<1> QED
  BY <1>2 DEF Sending, SameStream, SameFins

LEMMA SameFinsTransitive ==
  ASSUME NEW k, NEW j, NEW i, SameFins(k, j), SameFins(j, i)
  PROVE  SameFins(k, i)
BY DEF SameFins, NewFins, FinAt

LEMMA SetSameFins ==
  ASSUME NEW k \in Connections
  PROVE  /\ \A v : SameFins(k, [k EXCEPT !.event = v])
         /\ \A v : SameFins(k, [k EXCEPT !.rcv_nxt = v])
         /\ \A i : SameFins(k, Indicate(k, i))
BY DEF SameFins, NewFins, Indicate, Connections

\* A connection that is set up, or given up, only has to agree with the peer.
LEMMA FlowsFits ==
  ASSUME NEW k, NEW p, NEW r \in Connections, Flows(k, r, p),
         NEW t, t \notin {"INIT", "LISTEN", "SYN_SENT", "SYN_RCVD"},
         t \in PeerFinSeen => FinAt(p, r.rcv_nxt - 1)
  PROVE  Fits(k, [r EXCEPT !.fsm = t], p)
<1> DEFINE m == [r EXCEPT !.fsm = t]
<1>1. SameOutput(r, m) /\ m.fsm = t
  BY DEF SameOutput, Connections
<1> HIDE DEF m
<1>2. FinEndsQueue(m)
  BY <1>1 DEF SameOutput, Flows, FinEndsQueue
<1>3. Fits(k, m, p)
  BY <1>1, <1>2 DEF SameOutput, Flows, Fits, FinAt
<1> QED
  BY <1>3 DEF m

LEMMA ReceiveInListenTeardown ==
  ASSUME TypeOK, TeardownInv, NEW e \in Endpoint, NEW s \in Segments,
         ReceiveInListen(e, s)
  PROVE  TeardownInv'
<1> DEFINE k  == conn[e]
           p  == conn[Peer(e)]
           n  == [k EXCEPT !.rcv_nxt = s.seq + 1]
           k0 == [n EXCEPT !.rcvQueue = {}]
           k1 == SelectInitialSeqNum(k0)
           a  == SendSynAck(k1)
           k2 == StartSynRexmitTimer(a)
           b  == [k2 EXCEPT !.timers = @ \cup {"CONN_ESTAB"}]
           k3 == [b EXCEPT !.event = "RCV_SYN"]
           m  == [k3 EXCEPT !.fsm = "SYN_RCVD"]
           r  == CASE "RST" \in s.flags -> k
                   [] s.flags \cap {"RST", "ACK"} = {"ACK"} -> SendRst(k, s.ackNo)
                   [] s.flags \cap {"RST", "ACK", "SYN"} = {"SYN"}
                        -> PerformStateTransition(k3)
                   [] OTHER -> k
<1>1. k \in Connections /\ Base(k, p)
  BY TeardownBase
<1> HIDE DEF p
<1>2. s.ackNo \in Nat /\ s.seq + 1 \in Nat
  BY DEF Segments
<1>3. k.fsm = "LISTEN" /\ Take(e, s, r)
  BY DEF ReceiveInListen, r, k3, b, k2, a, k1, k0, n, k
<1>4. n \in Connections /\ SameFins(k, n) /\ n.fsm = k.fsm /\ n.active = k.active
      /\ n.sockstate = k.sockstate /\ n.timers = k.timers
  <2>1. n.fsm = k.fsm /\ n.active = k.active /\ n.sockstate = k.sockstate
        /\ n.timers = k.timers
    BY <1>1 DEF Connections
  <2> QED
    BY <1>1, <1>2, <2>1, SetNat, SetSameFins
<1> HIDE DEF n
<1>5. k0 \in Connections /\ Sending(n, k0)
  BY <1>4, SetState, SendingSet
<1> HIDE DEF k0
<1>6. k1 \in Connections
  BY <1>5, SelectInitialSeqNumType
<1>7. /\ k1.fsm = k0.fsm /\ k1.active = k0.active /\ k1.sockstate = k0.sockstate
      /\ k1.iss = k0.iss /\ k1.bufEnd = k0.iss + 1
      /\ k1.send_fin = k0.send_fin /\ k1.snd_fin_seq = k0.snd_fin_seq
      /\ k1.rcv_nxt = k0.rcv_nxt /\ k1.fin_rcvd = k0.fin_rcvd
      /\ k1.rcv_fin_seq = k0.rcv_fin_seq /\ k1.timers = k0.timers /\ k1.out = k0.out
  BY <1>5, SelectInitialSeqNumSame
<1> HIDE DEF k1
<1>8. a \in Connections /\ Sending(k1, a) /\ a.snd_max = k1.iss + 1
  BY <1>6, SendSynType, SendSynSending
<1> HIDE DEF a
<1>9. /\ k2 \in Connections /\ SameOutput(a, k2) /\ k2.fsm = a.fsm
      /\ k2.sockstate = a.sockstate /\ k2.timers = a.timers \cup {"SYN_REXMIT"}
  BY <1>8, StartSynRexmitTimerSame
<1> HIDE DEF k2
<1>10. /\ b \in Connections /\ SameOutput(k2, b) /\ b.fsm = k2.fsm
       /\ b.sockstate = k2.sockstate /\ b.timers = k2.timers \cup {"CONN_ESTAB"}
  <2>1. k2.timers \cup {"CONN_ESTAB"} \in SUBSET Timer
    BY <1>9, Fields DEF Timer, SetupTimers
  <2>2. b \in Connections
    BY <1>9, <2>1, SetState
  <2>3. /\ SameOutput(k2, b) /\ b.fsm = k2.fsm
        /\ b.sockstate = k2.sockstate /\ b.timers = k2.timers \cup {"CONN_ESTAB"}
    BY <1>9 DEF SameOutput, Connections
  <2> QED
    BY <2>2, <2>3
<1> HIDE DEF b
<1>11. /\ k3 \in Connections /\ SameOutput(b, k3) /\ k3.fsm = b.fsm
       /\ k3.sockstate = b.sockstate /\ k3.timers = b.timers /\ k3.event = "RCV_SYN"
  <2>1. /\ SameOutput(b, k3) /\ k3.fsm = b.fsm
        /\ k3.sockstate = b.sockstate /\ k3.timers = b.timers /\ k3.event = "RCV_SYN"
    BY <1>10 DEF SameOutput, Connections
  <2> QED
    BY <1>10, <2>1, SetState DEF Event
<1> HIDE DEF k3
<1>12. SameOutput(k3, m) /\ m.fsm = "SYN_RCVD" /\ m.sockstate = k3.sockstate
  BY <1>11 DEF SameOutput, Connections
<1> HIDE DEF m
<1>13. SameOutput(a, k3) /\ k3.fsm = a.fsm /\ k3.sockstate = a.sockstate
       /\ k3.timers = a.timers \cup SetupTimers
  BY <1>9, <1>10, <1>11 DEF SameOutput, SetupTimers
<1>14. SameStream(n, k0) /\ SameStream(k1, a)
  BY <1>5, <1>8 DEF Sending
<1>15. ~k.send_fin /\ (~k.active => k.sockstate \notin {"CONNECTED", "CONNECTING", "PEER_CLOSED"})
  BY <1>1, <1>3 DEF Base, FinEndsQueue
<1>16. /\ k3.fsm = "LISTEN" /\ k3.active = k.active /\ k3.sockstate = k.sockstate
       /\ ~k3.send_fin /\ k3.snd_max = k3.iss + 1 /\ k3.bufEnd = k3.iss + 1
       /\ k3.fin_rcvd = k.fin_rcvd /\ k3.rcv_fin_seq = k.rcv_fin_seq
  BY <1>3, <1>4, <1>7, <1>8, <1>13, <1>14, <1>15 DEF SameFins, SameStream, SameOutput
<1>17. \A x \in k3.out : "FIN" \notin x.flags
  <2>1. \A x \in k.out : FALSE
    BY <1>1 DEF Base, Idle
  <2> QED
    BY <1>4, <1>5, <1>7, <1>8, <1>13, <1>14, <1>15, <2>1
       DEF SameFins, Sending, SameStream, NewFins, FinAt, SameOutput
<1>18. Fits(k, m, p)
  BY <1>1, <1>12, <1>15, <1>16, <1>17
     DEF Fits, FinEndsQueue, SameOutput, Base, FinKnown, PeerFinSeen
<1>19. TimersFor(k3, "SYN_RCVD")
  <2>1. "2MSL" \notin k.timers
    BY <1>1, <1>3 DEF Base, TimersMatch
  <2>2. "2MSL" \notin a.timers
    BY <1>4, <1>7, <1>14, <2>1 DEF SameStream
  <2> QED
    BY <1>13, <2>2 DEF TimersFor, SetupTimers
<1>20. Transition(k3.fsm, k3.event, k3.active) = "SYN_RCVD"
  <2>1. k3.fsm \in State /\ k3.event \in Event /\ k3.active \in BOOLEAN
    BY <1>11, Fields
  <2> QED
    BY <1>11, <1>16, <2>1, TransitionTable
<1>21. Good(k, PerformStateTransition(k3), p)
  BY <1>11, <1>16, <1>18, <1>19, <1>20, TransitionGood DEF m
<1>22. Good(k, k, p) /\ Good(k, SendRst(k, s.ackNo), p)
  BY <1>1, <1>3, SendRstSending, SendingReflexive, SendingGood
<1>23. r \in Connections /\ Good(k, r, p)
  BY <1>1, <1>2, <1>11, <1>21, <1>22, SendRstType, PerformStateTransitionType
<1> QED
  BY <1>3, <1>23, StepTeardown DEF k, p

\* The ACK of the SYN opens the connection; a bare SYN makes it SYN_RCVD.
LEMMA ProcessSynInSynSentGood ==
  ASSUME NEW k \in Connections, NEW s \in Segments, NEW w \in Nat, NEW p,
         Base(k, p), k.fsm = "SYN_SENT"
  PROVE  Good(k, PerformStateTransition(ProcessSynInSynSent(k, s, w)), p)
<1> DEFINE n  == [k EXCEPT !.rcv_nxt = s.seq + 1]
           k1 == [n EXCEPT !.rcvQueue = {}]
<1>1. s.ackNo \in Nat /\ s.seq + 1 \in Nat
  BY DEF Segments
<1>2. /\ n \in Connections /\ SameFins(k, n) /\ n.fsm = k.fsm /\ n.active = k.active
      /\ n.timers = k.timers /\ n.sockstate = k.sockstate
  <2>1. n.fsm = k.fsm /\ n.active = k.active /\ n.timers = k.timers
        /\ n.sockstate = k.sockstate
    BY DEF Connections
  <2> QED
    BY <1>1, <2>1, SetNat, SetSameFins
<1>3. k1 = [k EXCEPT !.rcv_nxt = s.seq + 1, !.rcvQueue = {}]
  BY DEF Connections
<1> HIDE DEF n
<1>4. k1 \in Connections /\ Sending(n, k1)
  BY <1>2, SetState, SendingSet
<1>5. k.active /\ "2MSL" \notin k.timers /\ SetupTimers \subseteq k.timers
  BY DEF Base, FinEndsQueue, TimersMatch
<1>6. CASE "ACK" \in s.flags
  <2> DEFINE a  == Assert(k1, k.bufStart <= s.ackNo /\ s.ackNo <= k.bufEnd)
             a1 == [a EXCEPT !.snd_una = s.ackNo]
             a2 == [a1 EXCEPT !.bufStart = s.ackNo]
             k2 == [a2 EXCEPT !.ack_now = TRUE]
             k3 == EstablishedActive(k2, w)
             i  == Indicate(k3, "ESTABLISHED")
             r  == [i EXCEPT !.event = "RCV_SYN_ACK"]
  <2>1. ProcessSynInSynSent(k, s, w) = r
    BY <1>3, <1>6 DEF ProcessSynInSynSent, a, a1, a2, k2, k3, i, r
  <2> HIDE DEF k1
  <2>2. a \in Connections /\ Sending(k1, a)
    BY <1>4, AssertType, AssertSending
  <2> HIDE DEF a
  <2>3. a1 \in Connections /\ Sending(a, a1)
    BY <1>1, <2>2, SetNat, SendingSet
  <2> HIDE DEF a1
  <2>4. a2 \in Connections /\ Sending(a1, a2)
    BY <1>1, <2>3, SetNat, SendingSet
  <2> HIDE DEF a2
  <2>5. k2 \in Connections /\ Sending(a2, k2)
    BY <2>4, SetBoolean, SendingSet
  <2> HIDE DEF k2
  <2>6. k3 \in Connections /\ Sending(k2, k3)
    <3>1. SendData(k2, w) \in Connections /\ Sending(k2, SendData(k2, w))
      BY <2>5, SendDataType, SendDataSending
    <3>2. SendAck(SendData(k2, w)) \in Connections /\ Sending(k2, SendAck(SendData(k2, w)))
      BY <3>1, SendAckType, SendAckSending, SendingTransitive
    <3> QED
      BY <3>1, <3>2 DEF EstablishedActive
  <2> HIDE DEF k3
  <2>7. Sending(n, k3)
    BY <1>4, <2>2, <2>3, <2>4, <2>5, <2>6, SendingTransitive
  <2>8. i \in Connections /\ SameFins(k3, i) /\ i.fsm = k3.fsm /\ i.timers = k3.timers
    BY <2>6, IndicateType, IndicateSame, SetSameFins DEF Indication
  <2> HIDE DEF i
  <2>9. /\ r \in Connections /\ SameFins(i, r) /\ r.fsm = i.fsm /\ r.timers = i.timers
        /\ r.event = "RCV_SYN_ACK"
    <3>1. r.fsm = i.fsm /\ r.timers = i.timers /\ r.event = "RCV_SYN_ACK"
      BY <2>8 DEF Connections
    <3> QED
      BY <2>8, <3>1, SetState, SetSameFins DEF Event
  <2> HIDE DEF r
  <2>10. SameFins(k, r) /\ r.fsm = "SYN_SENT" /\ SameTimers(n, r)
    BY <1>2, <2>7, <2>8, <2>9, SendingKept, SameFinsTransitive DEF SameTimers
  <2>11. Flows(k, r, p)
    BY <2>10, BaseFlows, FlowsKept
  <2>12. Transition(r.fsm, r.event, r.active) = "ESTABLISHED"
    <3>1. r.fsm \in State /\ r.event \in Event /\ r.active \in BOOLEAN
      BY <2>9, Fields
    <3> QED
      BY <2>9, <2>10, <3>1, TransitionTable
  <2>13. Fits(k, [r EXCEPT !.fsm = "ESTABLISHED"], p)
    BY <2>9, <2>11, FlowsFits DEF PeerFinSeen
  <2>14. TimersFor(r, "ESTABLISHED")
    BY <1>2, <1>5, <2>10 DEF TimersFor, SameTimers
  <2> QED
    BY <2>1, <2>9, <2>10, <2>12, <2>13, <2>14, TransitionGood
<1>7. CASE "ACK" \notin s.flags
  <2> DEFINE a == SendSynAck(k1)
             b == StartSynRexmitTimer(a)
             r == [b EXCEPT !.event = "RCV_SYN"]
             m == [r EXCEPT !.fsm = "SYN_RCVD"]
  <2>1. ProcessSynInSynSent(k, s, w) = r
    BY <1>3, <1>7 DEF ProcessSynInSynSent, a, b, r
  <2> HIDE DEF k1
  <2>2. a \in Connections /\ Sending(k1, a)
    BY <1>4, SendSynType, SendSynSending
  <2> HIDE DEF a
  <2>3. Sending(n, a)
    BY <1>4, <2>2, SendingTransitive
  <2>4. /\ b \in Connections /\ SameOutput(a, b) /\ b.fsm = a.fsm
        /\ b.timers = a.timers \cup {"SYN_REXMIT"}
    BY <2>2, StartSynRexmitTimerSame
  <2> HIDE DEF b
  <2>5. /\ r \in Connections /\ SameOutput(b, r) /\ r.fsm = b.fsm
        /\ r.timers = b.timers /\ r.event = "RCV_SYN"
    <3>1. SameOutput(b, r) /\ r.fsm = b.fsm /\ r.timers = b.timers /\ r.event = "RCV_SYN"
      BY <2>4 DEF SameOutput, Connections
    <3> QED
      BY <2>4, <3>1, SetState DEF Event
  <2> HIDE DEF r
  <2>6. SameFins(n, a) /\ SameTimers(n, a) /\ a.fsm = n.fsm
    BY <2>3, SendingKept
  <2>7. SameFins(k, r)
    <3>1. SameFins(a, r)
      BY <2>4, <2>5 DEF SameOutput, SameFins, NewFins
    <3> QED
      BY <1>2, <2>6, <3>1, SameFinsTransitive
  <2>8. r.fsm = "SYN_SENT" /\ r.active
    BY <1>2, <1>5, <2>3, <2>4, <2>5, <2>6 DEF Sending, SameStream, SameOutput
  <2>9. Transition(r.fsm, r.event, r.active) = "SYN_RCVD"
    <3>1. r.fsm \in State /\ r.event \in Event /\ r.active \in BOOLEAN
      BY <2>5, Fields
    <3>2. r.fsm = "SYN_SENT" /\ r.event = "RCV_SYN"
      BY <2>5, <2>8
    <3> QED
      BY <3>1, <3>2, TransitionTable
  <2>10. SameOutput(r, m) /\ m.fsm = "SYN_RCVD"
    BY <2>5 DEF SameOutput, Connections
  <2> HIDE DEF m
  <2>11. Fits(k, m, p)
    <3>1. Flows(k, r, p)
      BY <2>7, BaseFlows, FlowsKept
    <3>2. FinEndsQueue(m)
      BY <2>8, <2>10, <3>1 DEF FinEndsQueue, Flows, SameOutput
    <3> QED
      BY <2>10, <3>1, <3>2 DEF Fits, Flows, SameOutput, FinAt, PeerFinSeen
  <2>12. TimersFor(r, "SYN_RCVD")
    BY <1>2, <1>5, <2>4, <2>5, <2>6 DEF TimersFor, SameTimers, SetupTimers
  <2> QED
    BY <2>1, <2>5, <2>8, <2>9, <2>11, <2>12, TransitionGood DEF m
<1> QED
  BY <1>6, <1>7

LEMMA ReceiveInSynSentTeardown ==
  ASSUME TypeOK, TeardownInv, NEW e \in Endpoint, NEW s \in Segments, NEW w \in Nat,
         ReceiveInSynSent(e, s, w)
  PROVE  TeardownInv'
<1> DEFINE k      == conn[e]
           p      == conn[Peer(e)]
           badAck == "ACK" \in s.flags /\ (s.ackNo <= k.iss \/ s.ackNo > k.snd_nxt)
           told   == Indicate(k, "CONNECTION_RESET")
           reset  == [told EXCEPT !.event = "RCV_RST"]
           y      == ProcessSynInSynSent(k, s, w)
           r == CASE badAck /\ "RST" \notin s.flags -> SendRst(k, s.ackNo)
                  [] ~badAck /\ {"RST", "ACK"} \subseteq s.flags -> reset
                  [] ~badAck /\ s.flags \cap {"RST", "SYN"} = {"SYN"} -> y
                  [] OTHER -> k
<1>1. k \in Connections /\ Base(k, p) /\ s.ackNo \in Nat
  BY TeardownBase DEF Segments
<1> HIDE DEF p
<1>2. k.fsm = "SYN_SENT" /\ Take(e, s, PerformStateTransition(r))
  BY DEF ReceiveInSynSent, r, reset, told, badAck, k, y
<1> HIDE DEF badAck
<1>3. reset \in Connections /\ Good(k, PerformStateTransition(reset), p)
  <2>1. told \in Connections /\ Stream(k, told)
    BY <1>1, IndicateType, SetStream DEF Indication
  <2> HIDE DEF told
  <2>2. reset \in Connections /\ Stream(told, reset) /\ reset.event = "RCV_RST"
    <3>1. reset.event = "RCV_RST"
      BY <2>1 DEF Connections
    <3> QED
      BY <2>1, <3>1, SetState, SetStream DEF Event
  <2> HIDE DEF reset
  <2>3. Stream(k, reset)
    BY <2>1, <2>2, StreamTransitive
  <2>4. Transition(reset.fsm, reset.event, reset.active) = "CLOSED"
    <3>1. /\ reset.fsm \in State /\ reset.event \in Event /\ reset.active \in BOOLEAN
          /\ reset.fsm = k.fsm
      BY <2>2, <2>3, Fields DEF Stream
    <3> QED
      BY <1>2, <2>2, <3>1, TransitionTable
  <2> QED
    BY <1>1, <1>2, <2>2, <2>3, <2>4, ClosedGood
<1>4. y \in Connections /\ Good(k, PerformStateTransition(y), p)
  BY <1>1, <1>2, ProcessSynInSynSentType, ProcessSynInSynSentGood
<1>5. /\ SendRst(k, s.ackNo) \in Connections
      /\ Good(k, PerformStateTransition(SendRst(k, s.ackNo)), p)
      /\ Good(k, PerformStateTransition(k), p)
  <2>1. SendRst(k, s.ackNo) \in Connections
    BY <1>1, SendRstType
  <2>2. Good(k, SendRst(k, s.ackNo), p) /\ Good(k, k, p)
    BY <1>1, <1>2, SendRstSending, SendingReflexive, SendingGood
  <2> QED
    BY <1>1, <2>1, <2>2, IgnoredGood
<1> HIDE DEF reset, y
<1>6. r \in Connections /\ Good(k, PerformStateTransition(r), p)
  BY <1>1, <1>3, <1>4, <1>5
<1> HIDE DEF r
<1> QED
  BY <1>2, <1>6, PerformStateTransitionType, StepTeardown DEF k, p

LEMMA ReceiveRstTeardown ==
  ASSUME TypeOK, TeardownInv, NEW e \in Endpoint, NEW s \in Segments, ReceiveRst(e, s)
  PROVE  TeardownInv'
<1> DEFINE k  == conn[e]
           p  == conn[Peer(e)]
           v  == [k EXCEPT !.event = "RCV_RST"]
           to == IF v.fsm = "SYN_RCVD" THEN v.bufEnd ELSE v.bufStart
           k1 == [v EXCEPT !.bufStart = to]
           r == CASE k.fsm = "SYN_RCVD" /\ k.active -> Indicate(k1, "CONNECTION_REFUSED")
                  [] k.fsm \in {"ESTABLISHED", "FIN_WAIT_1", "FIN_WAIT_2", "CLOSE_WAIT"}
                       -> Indicate(k1, "CONNECTION_RESET")
                  [] OTHER -> k1
<1>1. k \in Connections /\ Base(k, p)
  BY TeardownBase
<1> HIDE DEF p
<1>2. k.fsm \in {"SYN_RCVD"} \cup Synchronized /\ Take(e, s, PerformStateTransition(r))
  <2>1. k1 = [k EXCEPT !.event = "RCV_RST",
                       !.bufStart = IF k.fsm = "SYN_RCVD" THEN k.bufEnd ELSE @]
    BY <1>1 DEF Connections
  <2> HIDE DEF k1
  <2> QED
    BY <2>1 DEF ReceiveRst, r, k
<1>3. /\ v \in Connections /\ Stream(k, v) /\ v.event = "RCV_RST"
      /\ v.sockstate = k.sockstate /\ v.timers = k.timers
  <2>1. v.event = "RCV_RST" /\ v.sockstate = k.sockstate /\ v.timers = k.timers
    BY <1>1 DEF Connections
  <2> QED
    BY <1>1, <2>1, SetState, SetStream DEF Event
<1> HIDE DEF v
<1>4. /\ k1 \in Connections /\ Stream(v, k1) /\ k1.event = v.event
      /\ k1.sockstate = v.sockstate /\ k1.timers = v.timers
  <2>1. to \in Nat
    BY <1>3, Fields
  <2> HIDE DEF to
  <2>2. k1.timers = v.timers
    BY <1>3 DEF Connections
  <2> QED
    BY <1>3, <2>1, <2>2, SetNat, SendingSet, SendingStream
<1> HIDE DEF k1
<1>5. /\ r \in Connections /\ Stream(k1, r) /\ r.event = k1.event /\ r.timers = k1.timers
      /\ k.fsm = "SYN_RCVD" /\ ~k.active => r.sockstate = k1.sockstate
  <2>1. \A i \in Indication :
          /\ Indicate(k1, i) \in Connections /\ Stream(k1, Indicate(k1, i))
          /\ Indicate(k1, i).event = k1.event /\ Indicate(k1, i).timers = k1.timers
    BY <1>4, IndicateType, IndicateSame, SetStream
  <2>2. Stream(k1, k1)
    BY DEF Stream, NewFins
  <2> QED
    BY <1>4, <2>1, <2>2 DEF Indication
<1> HIDE DEF r
<1>6. Stream(k, r)
  BY <1>3, <1>4, <1>5, StreamTransitive
<1>7. r.event = "RCV_RST" /\ r.timers = k.timers
      /\ (k.fsm = "SYN_RCVD" /\ ~k.active => r.sockstate = k.sockstate)
  BY <1>3, <1>4, <1>5
<1>8. LET t == Transition(r.fsm, r.event, r.active)
      IN t = "CLOSED" \/ (t = "LISTEN" /\ k.fsm = "SYN_RCVD" /\ ~k.active)
  <2>1. /\ r.fsm \in State /\ r.event \in Event /\ r.active \in BOOLEAN
        /\ r.fsm = k.fsm /\ r.active = k.active
    BY <1>5, <1>6, Fields DEF Stream
  <2> QED
    BY <1>2, <1>7, <2>1, TransitionTable
<1>9. /\ k.fsm # "CLOSED"
      /\ k.fsm = "SYN_RCVD" => "2MSL" \notin r.timers
  BY <1>1, <1>2, <1>7 DEF Base, TimersMatch, Synchronized, Closing
<1>10. Good(k, PerformStateTransition(r), p)
  BY <1>1, <1>5, <1>6, <1>7, <1>8, <1>9, ClosedGood
<1> QED
  BY <1>2, <1>5, <1>10, PerformStateTransitionType, StepTeardown DEF k, p

LEMMA ReceiveUnexpectedSynTeardown ==
  ASSUME TypeOK, TeardownInv, NEW e \in Endpoint, NEW s \in Segments,
         ReceiveUnexpectedSyn(e, s)
  PROVE  TeardownInv'
<1> DEFINE k    == conn[e]
           p    == conn[Peer(e)]
           told == Indicate(k, "CONNECTION_RESET")
           r    == [told EXCEPT !.event = "RCV_UNEXP_SYN"]
<1>1. k \in Connections /\ Base(k, p)
  BY TeardownBase
<1> HIDE DEF p
<1>2. k.fsm \in {"SYN_RCVD"} \cup Synchronized /\ Take(e, s, PerformStateTransition(r))
  BY DEF ReceiveUnexpectedSyn, k, told, r
<1>3. told \in Connections /\ Stream(k, told)
  BY <1>1, IndicateType, SetStream DEF Indication
<1> HIDE DEF told
<1>4. r \in Connections /\ Stream(told, r) /\ r.event = "RCV_UNEXP_SYN"
  <2>1. r.event = "RCV_UNEXP_SYN"
    BY <1>3 DEF Connections
  <2> QED
    BY <1>3, <2>1, SetState, SetStream DEF Event
<1> HIDE DEF r
<1>5. Stream(k, r)
  BY <1>3, <1>4, StreamTransitive
<1>6. Transition(r.fsm, r.event, r.active) = "CLOSED" /\ k.fsm # "CLOSED"
  <2>1. r.fsm \in State /\ r.event \in Event /\ r.active \in BOOLEAN /\ r.fsm = k.fsm
    BY <1>4, <1>5, Fields DEF Stream
  <2> QED
    BY <1>2, <1>4, <2>1, TransitionTable DEF Synchronized, Closing
<1>7. Good(k, PerformStateTransition(r), p)
  BY <1>1, <1>4, <1>5, <1>6, ClosedGood
<1> QED
  BY <1>2, <1>4, <1>7, PerformStateTransitionType, StepTeardown DEF k, p

-----------------------------------------------------------------------------
(* The fifth to the eighth step of processSegment1stThru8th().             *)

OpenStates == {"SYN_RCVD", "ESTABLISHED", "FIN_WAIT_1", "FIN_WAIT_2"}

\* The segment has not completed the peer's stream yet.
Before(r) ==
  /\ "2MSL" \notin r.timers
  /\ r.fsm = "SYN_RCVD" => r.event = "RCV_ACK"
  /\ r.fsm \in {"ESTABLISHED", "FIN_WAIT_2"} => r.event = "IGNORE"
  /\ r.fsm = "FIN_WAIT_1" => r.event \in {"IGNORE", "RCV_ACK"}

\* It has: rcv_nxt is past the FIN of p, and the event says so.
After(r, p) ==
  /\ FinAt(p, r.rcv_nxt - 1)
  /\ r.event \in {"RCV_FIN", "RCV_FIN_ACK"}
  /\ r.event = "RCV_FIN_ACK" => r.fsm = "FIN_WAIT_1"
  /\ "2MSL" \in r.timers <=> r.fsm = "FIN_WAIT_2" \/ r.event = "RCV_FIN_ACK"

SameSetup(k, j) == \A x \in SetupTimers : x \in j.timers <=> x \in k.timers

LEMMA SendingPhase ==
  ASSUME NEW k, NEW j, NEW p, Sending(k, j)
  PROVE  /\ Before(k) => Before(j)
         /\ After(k, p) => After(j, p)
         /\ SameSetup(k, j)
BY SendingKept DEF Before, After, SameSetup, SameTimers

LEMMA MSLTimerSame ==
  ASSUME NEW k \in Connections, NEW j \in {Start2MSLTimer(k), Restart2MSLTimer(k)}
  PROVE  /\ j \in Connections /\ SameOutput(k, j) /\ j.fsm = k.fsm /\ j.event = k.event
         /\ j.timers = k.timers \cup {"2MSL"}
<1> DEFINE c == Cancel(k, {"2MSL"})
<1>1. /\ c \in Connections /\ SameOutput(k, c) /\ c.fsm = k.fsm /\ c.event = k.event
      /\ c.timers = k.timers \ {"2MSL"}
  BY CancelSame
<1>2. j = Schedule(k, "2MSL") \/ j = Schedule(c, "2MSL")
  BY DEF Start2MSLTimer, Restart2MSLTimer
<1> HIDE DEF c
<1>3. \A i \in Connections :
        LET n == Schedule(i, "2MSL")
        IN /\ n \in Connections /\ SameOutput(i, n) /\ n.fsm = i.fsm
           /\ n.event = i.event /\ n.timers = i.timers \cup {"2MSL"}
  BY ScheduleSame DEF Timer
<1> QED
  BY <1>1, <1>2, <1>3 DEF SameOutput

LEMMA FinArrivedPhase ==
  ASSUME NEW k \in Connections, NEW p, k.fsm \in OpenStates, Before(k),
         FinAt(p, k.rcv_nxt)
  PROVE  LET j == FinArrived(k)
         IN /\ j \in Connections /\ SameFins(k, j) /\ j.fsm = k.fsm
            /\ After(j, p) /\ SameSetup(k, j)
<1> DEFINE acked == k.fsm = "FIN_WAIT_1" /\ k.fin_ack_rcvd
           n  == [k EXCEPT !.rcv_nxt = @ + 1]
           ev == IF acked THEN "RCV_FIN_ACK" ELSE "RCV_FIN"
           k1 == [n EXCEPT !.event = ev]
           j  == FinArrived(k)
<1>1. k.rcv_nxt + 1 \in Nat /\ ev \in Event
  BY Fields DEF Event
<1>2. /\ n \in Connections /\ SameFins(k, n) /\ n.fsm = k.fsm /\ n.timers = k.timers
      /\ n.rcv_nxt = k.rcv_nxt + 1
  <2>1. n.fsm = k.fsm /\ n.timers = k.timers /\ n.rcv_nxt = k.rcv_nxt + 1
    BY DEF Connections
  <2> QED
    BY <1>1, <2>1, SetNat, SetSameFins
<1>3. j = IF acked \/ k.fsm = "FIN_WAIT_2" THEN Start2MSLTimer(k1) ELSE k1
  BY DEF FinArrived, OpenStates, j, k1, n, ev
<1> HIDE DEF n, j
<1>4. /\ k1 \in Connections /\ SameFins(n, k1) /\ k1.fsm = n.fsm /\ k1.timers = n.timers
      /\ k1.rcv_nxt = n.rcv_nxt /\ k1.event = ev
  <2>1. k1.fsm = n.fsm /\ k1.timers = n.timers /\ k1.rcv_nxt = n.rcv_nxt /\ k1.event = ev
    BY <1>2 DEF Connections
  <2> QED
    BY <1>1, <1>2, <2>1, SetState, SetSameFins
<1> HIDE DEF k1
<1>5. SameFins(k, k1) /\ FinAt(p, k1.rcv_nxt - 1)
  <2>1. k1.rcv_nxt - 1 = k.rcv_nxt
    BY <1>2, <1>4, Fields
  <2> QED
    BY <1>2, <1>4, <2>1, SameFinsTransitive
<1>6. CASE acked \/ k.fsm = "FIN_WAIT_2"
  <2>1. /\ j \in Connections /\ SameOutput(k1, j) /\ j.fsm = k1.fsm
        /\ j.event = k1.event /\ j.timers = k1.timers \cup {"2MSL"}
    BY <1>3, <1>4, <1>6, MSLTimerSame
  <2>2. SameFins(k, j)
    BY <1>5, <2>1 DEF SameOutput, SameFins
  <2>3. After(j, p)
    BY <1>2, <1>4, <1>5, <1>6, <2>1 DEF After, SameOutput
  <2>4. SameSetup(k, j)
    BY <1>2, <1>4, <2>1 DEF SameSetup, SetupTimers
  <2> QED
    BY <1>2, <1>4, <2>1, <2>2, <2>3, <2>4 DEF j
<1>7. CASE ~(acked \/ k.fsm = "FIN_WAIT_2")
  <2>1. j = k1
    BY <1>3, <1>7
  <2>2. After(k1, p)
    BY <1>2, <1>4, <1>5, <1>7 DEF After, Before
  <2>3. SameSetup(k, k1)
    BY <1>2, <1>4 DEF SameSetup
  <2> QED
    BY <1>2, <1>4, <1>5, <2>1, <2>2, <2>3 DEF j
<1> QED
  BY <1>6, <1>7

\* The FIN that text completes is the one stored earlier.
LEMMA ProcessTextPhase ==
  ASSUME NEW k \in Connections, NEW s \in Segments, NEW w \in Nat, NEW nx \in Nat,
         NEW una, NEW p, k.fsm \in OpenStates, Before(k),
         k.fin_rcvd => FinAt(p, k.rcv_fin_seq)
  PROVE  LET j == ProcessText(k, s, w, nx, una)
         IN /\ j \in Connections /\ SameFins(k, j) /\ j.fsm = k.fsm
            /\ Before(j) \/ After(j, p)
            /\ SameSetup(k, j)
<1> DEFINE q    == k.rcvQueue \cup {s.seq}
           kept == {u \in q : u >= nx}
           got  == Cardinality({u \in q : u < nx})
           f  == [k EXCEPT !.full_sized = @ + 1]
           n  == [f EXCEPT !.rcv_nxt = nx]
           l  == [n EXCEPT !.rcvQueue = kept]
           k1 == [l EXCEPT !.delivered = @ + got]
           k2 == IF k.snd_una > una THEN ReceivedDataAck(k1, w) ELSE k1
           a  == [k2 EXCEPT !.ack_now = TRUE]
           j  == ProcessText(k, s, w, nx, una)
<1>1. q \in SUBSET Nat
  BY Fields DEF Segments
<1>2. got \in Nat /\ kept \in SUBSET Nat
  BY <1>1, UnitsBelow
<1>3. j = CASE nx = k.rcv_nxt -> SendAck(k2)
            [] nx # k.rcv_nxt /\ k.fin_rcvd /\ nx = k.rcv_fin_seq -> FinArrived(a)
            [] OTHER -> k2
  <2>1. k1 = [k EXCEPT !.full_sized = @ + 1, !.rcv_nxt = nx,
                       !.rcvQueue = kept, !.delivered = @ + got]
    BY DEF Connections
  <2> HIDE DEF k1, kept, got
  <2> QED
    BY <2>1 DEF ProcessText, j, k2, a, kept, got, q
<1> HIDE DEF q, got, kept, j
<1>4. f \in Connections /\ Sending(k, f)
  <2>1. k.full_sized + 1 \in Nat
    BY Fields
  <2> QED
    BY <2>1, SetNat, SendingSet
<1> HIDE DEF f
<1>5. /\ n \in Connections /\ SameFins(f, n) /\ n.fsm = f.fsm /\ n.event = f.event
      /\ n.timers = f.timers /\ n.rcv_nxt = nx
  <2>1. n.fsm = f.fsm /\ n.event = f.event /\ n.timers = f.timers /\ n.rcv_nxt = nx
    BY <1>4 DEF Connections
  <2> QED
    BY <1>4, <2>1, SetNat, SetSameFins
<1> HIDE DEF n
<1>6. l \in Connections /\ Sending(n, l)
  BY <1>2, <1>5, SetState, SendingSet
<1> HIDE DEF l
<1>7. k1 \in Connections /\ Sending(l, k1)
  <2>1. l.delivered + got \in Nat
    BY <1>2, <1>6, Fields
  <2> QED
    BY <1>6, <2>1, SetNat, SendingSet
<1> HIDE DEF k1
<1>8. k2 \in Connections /\ Sending(k1, k2)
  BY <1>7, ReceivedDataAckType, ReceivedDataAckSending, SendingReflexive
<1> HIDE DEF k2
<1>9. Sending(n, k2)
  BY <1>6, <1>7, <1>8, SendingTransitive
<1>10. /\ SameFins(k, k2) /\ k2.fsm = k.fsm /\ Before(k2) /\ SameSetup(k, k2)
       /\ k2.rcv_nxt = nx
  <2>1. Before(f) /\ SameSetup(k, f) /\ SameFins(k, f) /\ f.fsm = k.fsm
    BY <1>4, SendingPhase, SendingKept
  <2>2. Before(n) /\ SameSetup(f, n)
    BY <1>5, <2>1 DEF Before, SameSetup
  <2>3. Before(k2) /\ SameSetup(n, k2) /\ SameFins(n, k2) /\ k2.fsm = n.fsm
        /\ k2.rcv_nxt = n.rcv_nxt
    BY <1>9, <2>2, SendingPhase, SendingKept
  <2>4. SameFins(k, k2)
    BY <1>5, <2>1, <2>3, SameFinsTransitive
  <2> QED
    BY <1>5, <2>1, <2>2, <2>3, <2>4 DEF SameSetup
<1>11. CASE nx = k.rcv_nxt
  <2>1. j = SendAck(k2)
    BY <1>3, <1>11
  <2>2. SendAck(k2) \in Connections /\ Sending(k2, SendAck(k2))
    BY <1>8, SendAckType, SendAckSending
  <2>3. /\ Before(SendAck(k2)) /\ SameSetup(k2, SendAck(k2))
        /\ SameFins(k2, SendAck(k2)) /\ SendAck(k2).fsm = k2.fsm
    BY <1>10, <2>2, SendingPhase, SendingKept
  <2>4. SameFins(k, SendAck(k2))
    BY <1>10, <2>3, SameFinsTransitive
  <2> QED
    BY <1>10, <2>1, <2>2, <2>3, <2>4 DEF SameSetup, j
<1>12. CASE nx # k.rcv_nxt /\ k.fin_rcvd /\ nx = k.rcv_fin_seq
  <2>1. j = FinArrived(a)
    BY <1>3, <1>12
  <2>2. a \in Connections /\ Sending(k2, a)
    BY <1>8, SetBoolean, SendingSet
  <2> HIDE DEF a
  <2>3. /\ Before(a) /\ SameSetup(k2, a) /\ SameFins(k2, a) /\ a.fsm = k2.fsm
        /\ a.rcv_nxt = nx
    BY <1>10, <2>2, SendingPhase, SendingKept
  <2>4. FinAt(p, a.rcv_nxt)
    BY <1>12, <2>3
  <2>5. /\ j \in Connections /\ SameFins(a, j) /\ j.fsm = a.fsm
        /\ After(j, p) /\ SameSetup(a, j)
    BY <1>10, <2>1, <2>2, <2>3, <2>4, FinArrivedPhase
  <2>6. SameFins(k, j)
    BY <1>10, <2>3, <2>5, SameFinsTransitive
  <2> QED
    BY <1>10, <2>3, <2>5, <2>6 DEF SameSetup, j
<1>13. CASE ~(nx = k.rcv_nxt) /\ ~(k.fin_rcvd /\ nx = k.rcv_fin_seq)
  BY <1>3, <1>8, <1>10, <1>13 DEF j
<1> QED
  BY <1>11, <1>12, <1>13

\* The peer's FIN had been taken before the segment arrived.
Done(r, p) ==
  /\ r.fsm \in PeerFinSeen /\ FinAt(p, r.rcv_nxt - 1)
  /\ r.fsm # "CLOSING" => r.event = "IGNORE"
  /\ r.event \in {"IGNORE", "RCV_ACK"}
  /\ "2MSL" \in r.timers <=> r.fsm = "TIME_WAIT" \/ r.event = "RCV_ACK"

LEMMA ProcessAckOfFinPhase ==
  ASSUME NEW k \in Connections, NEW p, k.fsm \in {"SYN_RCVD"} \cup Synchronized,
         k.event = IF k.fsm = "SYN_RCVD" THEN "RCV_ACK" ELSE "IGNORE",
         "2MSL" \in k.timers <=> k.fsm = "TIME_WAIT",
         k.fsm \in PeerFinSeen => FinAt(p, k.rcv_nxt - 1)
  PROVE  LET j == ProcessAckOfFin(k)
         IN /\ j \in Connections /\ SameFins(k, j) /\ j.fsm = k.fsm /\ SameSetup(k, j)
            /\ j.rcv_nxt = k.rcv_nxt
            /\ k.fsm \in OpenStates => Before(j)
            /\ k.fsm \in PeerFinSeen => Done(j, p)
<1> DEFINE a == [k EXCEPT !.event = "RCV_ACK"]
           j == ProcessAckOfFin(k)
<1>1. /\ a \in Connections /\ SameFins(k, a) /\ a.fsm = k.fsm /\ a.timers = k.timers
      /\ a.event = "RCV_ACK" /\ a.rcv_nxt = k.rcv_nxt
  <2>1. /\ a.fsm = k.fsm /\ a.timers = k.timers /\ a.event = "RCV_ACK"
        /\ a.rcv_nxt = k.rcv_nxt
    BY DEF Connections
  <2> QED
    BY <2>1, SetState, SetSameFins DEF Event
<1>2. SameFins(k, k)
  BY DEF SameFins, NewFins
<1>3. CASE k.fsm = "FIN_WAIT_1" /\ k.fin_ack_rcvd
  <2>1. j = a
    BY <1>3 DEF ProcessAckOfFin
  <2> HIDE DEF a, j
  <2>2. Before(a) /\ SameSetup(k, a)
    BY <1>1, <1>3 DEF Before, SameSetup
  <2> QED
    BY <1>1, <1>3, <2>1, <2>2 DEF j, PeerFinSeen
<1>4. CASE k.fsm = "CLOSING" /\ k.fin_ack_rcvd
  <2>1. j = Start2MSLTimer(a)
    BY <1>4 DEF ProcessAckOfFin
  <2> HIDE DEF a, j
  <2>2. /\ j \in Connections /\ SameOutput(a, j) /\ j.fsm = a.fsm /\ j.event = a.event
        /\ j.timers = a.timers \cup {"2MSL"}
    BY <1>1, <2>1, MSLTimerSame
  <2>3. SameFins(k, j) /\ SameSetup(k, j) /\ j.rcv_nxt = k.rcv_nxt
    BY <1>1, <2>2 DEF SameFins, SameOutput, SameSetup, SetupTimers
  <2>4. Done(j, p)
    BY <1>1, <1>4, <2>2, <2>3 DEF Done, PeerFinSeen
  <2> QED
    BY <1>1, <1>4, <2>2, <2>3, <2>4 DEF j, OpenStates
<1>5. CASE k.fsm = "TIME_WAIT"
  <2> DEFINE b == SendAck(k)
  <2>1. j = Restart2MSLTimer(b)
    BY <1>5 DEF ProcessAckOfFin
  <2>2. b \in Connections /\ Sending(k, b)
    BY SendAckType, SendAckSending
  <2> HIDE DEF b, j
  <2>3. /\ SameFins(k, b) /\ SameTimers(k, b) /\ b.fsm = k.fsm /\ b.event = k.event
        /\ b.rcv_nxt = k.rcv_nxt
    BY <2>2, SendingKept
  <2>4. /\ j \in Connections /\ SameOutput(b, j) /\ j.fsm = b.fsm /\ j.event = b.event
        /\ j.timers = b.timers \cup {"2MSL"}
    BY <2>1, <2>2, MSLTimerSame
  <2>5. SameFins(k, j) /\ SameSetup(k, j) /\ j.rcv_nxt = k.rcv_nxt
    BY <2>3, <2>4 DEF SameFins, SameOutput, SameSetup, SameTimers, SetupTimers
  <2>6. Done(j, p)
    BY <1>5, <2>3, <2>4, <2>5 DEF Done, PeerFinSeen
  <2> QED
    BY <1>5, <2>3, <2>4, <2>5, <2>6 DEF j, OpenStates
<1>6. CASE /\ k.fsm # "TIME_WAIT"
           /\ ~(k.fsm \in {"FIN_WAIT_1", "CLOSING"} /\ k.fin_ack_rcvd)
  <2>1. j = k
    BY <1>6 DEF ProcessAckOfFin
  <2> HIDE DEF j
  <2>2. k.fsm \in OpenStates => Before(k)
    BY <1>6 DEF Before, OpenStates
  <2>3. k.fsm \in PeerFinSeen => Done(k, p)
    BY <1>6 DEF Done, PeerFinSeen
  <2> QED
    BY <1>2, <2>1, <2>2, <2>3 DEF j, SameSetup
<1> QED
  BY <1>3, <1>4, <1>5, <1>6

LEMMA ProcessFinBitPhase ==
  ASSUME NEW k \in Connections, NEW s \in Segments, NEW c, NEW p, Flows(c, k, p),
         FinAt(p, s.seq + s.len),
         \/ k.fsm \in OpenStates /\ (Before(k) \/ After(k, p))
         \/ Done(k, p)
  PROVE  LET j == ProcessFinBit(k, s)
         IN /\ j \in Connections /\ Flows(c, j, p) /\ j.fsm = k.fsm /\ SameSetup(k, j)
            /\ k.fsm \in OpenStates => Before(j) \/ After(j, p)
            /\ Done(k, p) => Done(j, p) /\ j.rcv_nxt = k.rcv_nxt
<1> DEFINE finSeq == s.seq + s.len
           k1     == [k EXCEPT !.ack_now = TRUE]
           f      == [k1 EXCEPT !.fin_rcvd = TRUE]
           g      == [f EXCEPT !.rcv_fin_seq = finSeq]
           j      == ProcessFinBit(k, s)
<1>1. finSeq \in Nat /\ k.rcv_nxt \in Nat
  BY Fields DEF Segments
<1>2. k1 \in Connections /\ Sending(k, k1)
  BY SetBoolean, SendingSet
<1>3. j = IF k.rcv_nxt = finSeq THEN FinArrived(k1) ELSE g
  BY DEF ProcessFinBit, j, k1, f, g, finSeq
<1> HIDE DEF k1, j
<1>4. /\ SameFins(k, k1) /\ k1.fsm = k.fsm /\ k1.event = k.event /\ k1.rcv_nxt = k.rcv_nxt
      /\ SameTimers(k, k1) /\ SameSetup(k, k1)
  BY <1>2, SendingKept, SendingPhase
<1>5. Flows(c, k1, p)
  BY <1>4, FlowsKept
<1>6. CASE k.rcv_nxt = finSeq
  <2>1. p.snd_fin_seq = k.rcv_nxt
    BY <1>6 DEF FinAt
  <2>2. ~After(k, p) /\ ~Done(k, p)
    BY <1>1, <2>1 DEF After, Done, FinAt
  <2>3. k1.fsm \in OpenStates /\ Before(k1) /\ FinAt(p, k1.rcv_nxt)
    BY <1>2, <1>4, <1>6, <2>2, SendingPhase
  <2>4. /\ j \in Connections /\ SameFins(k1, j) /\ j.fsm = k1.fsm
        /\ After(j, p) /\ SameSetup(k1, j)
    BY <1>2, <1>3, <1>6, <2>3, FinArrivedPhase
  <2>5. Flows(c, j, p)
    BY <1>5, <2>4, FlowsKept
  <2> QED
    BY <1>4, <2>2, <2>4, <2>5 DEF SameSetup, j
<1>7. CASE k.rcv_nxt # finSeq
  <2>1. f \in Connections
    BY <1>2, SetBoolean
  <2>2. g \in Connections
    BY <1>1, <2>1, SetNat
  <2>3. /\ g.fsm = k1.fsm /\ g.event = k1.event /\ g.timers = k1.timers
        /\ g.rcv_nxt = k1.rcv_nxt /\ g.out = k1.out /\ g.bufEnd = k1.bufEnd
        /\ g.send_fin = k1.send_fin /\ g.snd_fin_seq = k1.snd_fin_seq
        /\ g.rcv_fin_seq = finSeq
    BY <1>2 DEF Connections
  <2> HIDE DEF f, g
  <2>4. Flows(c, g, p)
    BY <1>5, <2>3 DEF Flows, FinAt
  <2>5. /\ Before(k) => Before(g)
        /\ After(k, p) => After(g, p)
        /\ Done(k, p) => Done(g, p)
        /\ SameSetup(k, g)
    BY <1>4, <2>3 DEF Before, After, Done, SameSetup, SameTimers
  <2>6. Done(k, p) => k.fsm \notin OpenStates
    BY DEF Done, PeerFinSeen, OpenStates
  <2> QED
    BY <1>3, <1>4, <1>7, <2>2, <2>3, <2>4, <2>5, <2>6 DEF j
<1> QED
  BY <1>6, <1>7

\* The event that the steps leave behind leads to a state that fits.
LEMMA OutcomeGood ==
  ASSUME NEW c, NEW p, NEW r \in Connections, Base(c, p), Flows(c, r, p),
         c.fsm \in {"SYN_RCVD"} \cup Synchronized, r.fsm = c.fsm, SameSetup(c, r),
         \/ r.fsm \in OpenStates /\ (Before(r) \/ After(r, p))
         \/ Done(r, p)
         \/ /\ r.fsm \in {"SYN_RCVD", "ESTABLISHED"} /\ r.event = "CLOSE"
            /\ "2MSL" \notin r.timers
         \/ /\ r.fsm = "CLOSE_WAIT" /\ r.event = "CLOSE" /\ "2MSL" \notin r.timers
            /\ FinAt(p, r.rcv_nxt - 1)
         \/ r.fsm = "LAST_ACK" /\ r.event = "RCV_ACK"
  PROVE  Good(c, PerformStateTransition(r), p)
<1> DEFINE t == Transition(r.fsm, r.event, r.active)
<1>1. r.fsm \in State /\ r.event \in Event /\ r.active \in BOOLEAN
  BY Fields
<1>2. c.fsm # "SYN_RCVD" => SetupTimers \cap r.timers = {}
  BY DEF Base, TimersMatch, SameSetup, Synchronized, Closing
<1>3. CASE r.fsm \in OpenStates /\ Before(r)
  <2>1. /\ r.fsm = "SYN_RCVD" => t = "ESTABLISHED"
        /\ r.fsm \in {"ESTABLISHED", "FIN_WAIT_2"} => t = r.fsm
        /\ r.fsm = "FIN_WAIT_1" => t \in {"FIN_WAIT_1", "FIN_WAIT_2"}
    BY <1>1, <1>3, TransitionTable DEF Before
  <2> HIDE DEF t
  <2>2. t \in {"ESTABLISHED", "FIN_WAIT_1", "FIN_WAIT_2"}
    BY <1>3, <2>1 DEF OpenStates
  <2>3. Fits(c, [r EXCEPT !.fsm = t], p)
    BY <2>2, FlowsFits DEF PeerFinSeen
  <2>4. IF t = r.fsm THEN TimersMatch(r) ELSE TimersFor(r, t)
    BY <1>2, <1>3, <2>2 DEF Before, TimersMatch, TimersFor
  <2> QED
    BY <2>3, <2>4, TransitionGood DEF t
<1>4. CASE r.fsm \in OpenStates /\ After(r, p)
  <2>1. /\ r.fsm \in {"SYN_RCVD", "ESTABLISHED"} => t = "CLOSE_WAIT"
        /\ r.fsm = "FIN_WAIT_1" /\ r.event = "RCV_FIN" => t = "CLOSING"
        /\ r.fsm = "FIN_WAIT_1" /\ r.event = "RCV_FIN_ACK" => t = "TIME_WAIT"
        /\ r.fsm = "FIN_WAIT_2" => t = "TIME_WAIT"
    BY <1>1, <1>4, TransitionTable DEF After
  <2> HIDE DEF t
  <2>2. /\ t \in {"CLOSE_WAIT", "CLOSING", "TIME_WAIT"} /\ FinAt(p, r.rcv_nxt - 1)
        /\ "2MSL" \in r.timers <=> t = "TIME_WAIT"
        /\ t = "TIME_WAIT" => r.fsm # "SYN_RCVD"
    BY <1>4, <2>1 DEF OpenStates, After
  <2>3. Fits(c, [r EXCEPT !.fsm = t], p)
    BY <2>2, FlowsFits
  <2>4. t # r.fsm /\ TimersFor(r, t)
    BY <1>2, <1>4, <2>2 DEF OpenStates, TimersFor
  <2> QED
    BY <2>3, <2>4, TransitionGood DEF t
<1>5. CASE Done(r, p)
  <2>1. /\ r.event = "IGNORE" => t = r.fsm
        /\ r.event = "RCV_ACK" => r.fsm = "CLOSING" /\ t = "TIME_WAIT"
    BY <1>1, <1>5, TransitionTable DEF Done
  <2> HIDE DEF t
  <2>2. t \in PeerFinSeen /\ FinAt(p, r.rcv_nxt - 1)
    BY <1>5, <2>1 DEF Done, PeerFinSeen
  <2>3. Fits(c, [r EXCEPT !.fsm = t], p)
    BY <2>2, FlowsFits DEF PeerFinSeen
  <2>4. IF t = r.fsm THEN TimersMatch(r) ELSE TimersFor(r, t)
    BY <1>2, <1>5, <2>1 DEF Done, PeerFinSeen, TimersMatch, TimersFor
  <2> QED
    BY <2>3, <2>4, TransitionGood DEF t
<1>6. CASE /\ r.fsm \in {"SYN_RCVD", "ESTABLISHED"} /\ r.event = "CLOSE"
           /\ "2MSL" \notin r.timers
  <2>1. t = "FIN_WAIT_1"
    BY <1>1, <1>6, TransitionTable
  <2> HIDE DEF t
  <2>2. Fits(c, [r EXCEPT !.fsm = t], p)
    BY <2>1, FlowsFits DEF PeerFinSeen
  <2>3. t # r.fsm /\ TimersFor(r, t)
    BY <1>6, <2>1 DEF TimersFor
  <2> QED
    BY <2>2, <2>3, TransitionGood DEF t
<1>7. CASE /\ r.fsm = "CLOSE_WAIT" /\ r.event = "CLOSE" /\ "2MSL" \notin r.timers
           /\ FinAt(p, r.rcv_nxt - 1)
  <2>1. t = "LAST_ACK"
    BY <1>1, <1>7, TransitionTable
  <2> HIDE DEF t
  <2>2. Fits(c, [r EXCEPT !.fsm = t], p)
    BY <1>7, <2>1, FlowsFits
  <2>3. t # r.fsm /\ TimersFor(r, t)
    BY <1>7, <2>1 DEF TimersFor
  <2> QED
    BY <2>2, <2>3, TransitionGood DEF t
<1>8. CASE r.fsm = "LAST_ACK" /\ r.event = "RCV_ACK"
  <2>1. t = "CLOSED"
    BY <1>1, <1>8, TransitionTable
  <2> HIDE DEF t
  <2>2. Fits(c, [r EXCEPT !.fsm = t], p)
    BY <2>1, FlowsFits DEF PeerFinSeen
  <2>3. t # r.fsm /\ TimersFor(r, t)
    BY <1>8, <2>1 DEF TimersFor
  <2> QED
    BY <2>2, <2>3, TransitionGood DEF t
<1> QED
  BY <1>3, <1>4, <1>5, <1>6, <1>7, <1>8

LEMMA ProcessAckedSegmentGood ==
  ASSUME NEW k \in Connections, NEW p, NEW s \in Segments, NEW w \in Nat, NEW nx \in Nat,
         Base(k, p), k.fsm \in {"SYN_RCVD"} \cup Synchronized,
         "FIN" \in s.flags => FinAt(p, s.seq + s.len)
  PROVE  Good(k, PerformStateTransition(ProcessAckedSegment(k, s, w, nx)), p)
<1> DEFINE told == Indicate(k, "ESTABLISHED")
           k0 == IF k.fsm = "SYN_RCVD" THEN [told EXCEPT !.event = "RCV_ACK"] ELSE k
           k1 == IF k.fsm = "TIME_WAIT" THEN k0 ELSE ProcessAck(k0, s, w)
           k2 == ProcessAckOfFin(k1)
           k3 == IF ReceivesText(k, s) THEN ProcessText(k2, s, w, nx, k.snd_una) ELSE k2
           k4 == IF "FIN" \in s.flags THEN ProcessFinBit(k3, s) ELSE k3
           k5 == IF k4.rcv_nxt # k.rcv_nxt THEN ReceiveSeqChanged(k4) ELSE k4
           acked == [k1 EXCEPT !.event = "RCV_ACK"]
           last == k.fsm = "LAST_ACK" /\ k.send_fin /\ s.ackNo = k.snd_fin_seq + 1
           r  == ProcessAckedSegment(k, s, w, nx)
           open == k.fsm \in OpenStates
           Phase(j) == IF open THEN Before(j) \/ After(j, p) ELSE Done(j, p)
           Reached(j) == /\ j \in Connections /\ Flows(k, j, p) /\ j.fsm = k.fsm
                         /\ SameSetup(k, j)
<1>1. ~open => k.fsm \in PeerFinSeen
  BY DEF OpenStates, PeerFinSeen, Synchronized, Closing
<1>2. r = IF last THEN acked ELSE DeferredClose(k5, k.snd_nxt)
  BY DEF ProcessAckedSegment, r, k0, told, k1, k2, k3, k4, k5, acked, last
<1> HIDE DEF last, open
<1>3. /\ k0 \in Connections /\ SameFins(k, k0) /\ k0.fsm = k.fsm /\ k0.timers = k.timers
      /\ k0.rcv_nxt = k.rcv_nxt
      /\ k0.event = IF k.fsm = "SYN_RCVD" THEN "RCV_ACK" ELSE "IGNORE"
  <2>1. /\ told \in Connections /\ SameFins(k, told) /\ told.fsm = k.fsm
        /\ told.timers = k.timers /\ told.rcv_nxt = k.rcv_nxt
    BY IndicateType, IndicateSame, SetSameFins DEF Indication, SameOutput
  <2> HIDE DEF told
  <2> DEFINE i == [told EXCEPT !.event = "RCV_ACK"]
  <2>2. /\ i \in Connections /\ SameFins(told, i) /\ i.fsm = told.fsm
        /\ i.timers = told.timers /\ i.rcv_nxt = told.rcv_nxt /\ i.event = "RCV_ACK"
    <3>1. /\ i.fsm = told.fsm /\ i.timers = told.timers /\ i.rcv_nxt = told.rcv_nxt
          /\ i.event = "RCV_ACK"
      BY <2>1 DEF Connections
    <3> QED
      BY <2>1, <3>1, SetState, SetSameFins DEF Event
  <2> HIDE DEF i
  <2>3. SameFins(k, i) /\ SameFins(k, k)
    BY <2>1, <2>2, SameFinsTransitive DEF SameFins, NewFins
  <2> QED
    BY <2>1, <2>2, <2>3 DEF k0, i, Base, Idle
<1> HIDE DEF k0
<1>4. k1 \in Connections /\ Sending(k0, k1)
  BY <1>3, ProcessAckType, ProcessAckSending, SendingReflexive
<1> HIDE DEF k1
<1>5. /\ Reached(k1) /\ k1.rcv_nxt = k.rcv_nxt /\ k1.event = k0.event
      /\ "2MSL" \in k1.timers <=> k1.fsm = "TIME_WAIT"
  <2>1. /\ SameFins(k0, k1) /\ SameTimers(k0, k1) /\ k1.fsm = k0.fsm
        /\ k1.event = k0.event /\ k1.rcv_nxt = k0.rcv_nxt
    BY <1>4, SendingKept
  <2>2. Flows(k, k1, p)
    BY <1>3, <2>1, BaseFlows, FlowsKept
  <2>3. SameSetup(k, k1) /\ ("2MSL" \in k1.timers <=> "2MSL" \in k.timers)
    BY <1>3, <2>1 DEF SameTimers, SameSetup
  <2> QED
    BY <1>3, <1>4, <2>1, <2>2, <2>3 DEF Base, TimersMatch
<1>6. /\ Reached(k2) /\ k2.rcv_nxt = k.rcv_nxt
      /\ IF open THEN Before(k2) ELSE Done(k2, p)
  <2>1. k1.fsm \in PeerFinSeen => FinAt(p, k1.rcv_nxt - 1)
    BY <1>5 DEF Base, FinKnown
  <2>2. /\ k2 \in Connections /\ SameFins(k1, k2) /\ k2.fsm = k1.fsm /\ SameSetup(k1, k2)
        /\ k2.rcv_nxt = k1.rcv_nxt
        /\ k1.fsm \in OpenStates => Before(k2)
        /\ k1.fsm \in PeerFinSeen => Done(k2, p)
    BY <1>3, <1>5, <2>1, ProcessAckOfFinPhase
  <2>3. Flows(k, k2, p)
    BY <1>5, <2>2, FlowsKept
  <2> QED
    BY <1>1, <1>5, <2>2, <2>3 DEF SameSetup, open
<1> HIDE DEF k2
<1>7. Reached(k3) /\ Phase(k3) /\ (~open => k3.rcv_nxt = k.rcv_nxt)
  <2>1. CASE ReceivesText(k, s)
    <3>1. open
      BY <2>1 DEF ReceivesText, open, OpenStates
    <3>2. k2.fsm \in OpenStates /\ (k2.fin_rcvd => FinAt(p, k2.rcv_fin_seq))
      BY <1>6, <3>1 DEF open, Flows
    <3>3. /\ k3 \in Connections /\ SameFins(k2, k3) /\ k3.fsm = k2.fsm
          /\ Before(k3) \/ After(k3, p)
          /\ SameSetup(k2, k3)
      BY <1>6, <2>1, <3>1, <3>2, ProcessTextPhase
    <3> HIDE DEF k3
    <3>4. Flows(k, k3, p)
      BY <1>6, <3>3, FlowsKept
    <3> QED
      BY <1>6, <3>1, <3>3, <3>4 DEF SameSetup
  <2>2. CASE ~ReceivesText(k, s)
    BY <1>6, <2>2
  <2> QED
    BY <2>1, <2>2
<1> HIDE DEF k3
<1>8. Reached(k4) /\ Phase(k4) /\ (~open => k4.rcv_nxt = k.rcv_nxt)
  <2>1. CASE "FIN" \in s.flags
    <3>1. \/ k3.fsm \in OpenStates /\ (Before(k3) \/ After(k3, p))
          \/ Done(k3, p)
      BY <1>7 DEF open
    <3>2. /\ k4 \in Connections /\ Flows(k, k4, p) /\ k4.fsm = k3.fsm /\ SameSetup(k3, k4)
          /\ k3.fsm \in OpenStates => Before(k4) \/ After(k4, p)
          /\ Done(k3, p) => Done(k4, p) /\ k4.rcv_nxt = k3.rcv_nxt
      BY <1>7, <2>1, <3>1, ProcessFinBitPhase
    <3> HIDE DEF k4
    <3> QED
      BY <1>7, <3>2 DEF SameSetup, open
  <2>2. CASE "FIN" \notin s.flags
    BY <1>7, <2>2
  <2> QED
    BY <2>1, <2>2
<1> HIDE DEF k4
<1>9. Reached(k5) /\ Phase(k5)
  <2>1. CASE k4.rcv_nxt # k.rcv_nxt
    <3>1. k5 \in Connections /\ Sending(k4, k5)
      BY <1>8, <2>1, ReceiveSeqChangedType, ReceiveSeqChangedSending
    <3> HIDE DEF k5
    <3>2. SameFins(k4, k5) /\ k5.fsm = k4.fsm /\ SameSetup(k4, k5)
      BY <3>1, SendingKept, SendingPhase
    <3>3. Flows(k, k5, p)
      BY <1>8, <3>2, FlowsKept
    <3>4. Before(k5) \/ After(k5, p)
      BY <1>8, <2>1, <3>1, SendingPhase
    <3> QED
      BY <1>8, <2>1, <3>1, <3>2, <3>3, <3>4 DEF SameSetup
  <2>2. CASE k4.rcv_nxt = k.rcv_nxt
    BY <1>8, <2>2
  <2> QED
    BY <2>1, <2>2
<1> HIDE DEF k5
<1>10. CASE last
  <2>1. /\ acked \in Connections /\ SameFins(k1, acked) /\ acked.fsm = k1.fsm
        /\ acked.timers = k1.timers /\ acked.event = "RCV_ACK"
    <3>1. acked.fsm = k1.fsm /\ acked.timers = k1.timers /\ acked.event = "RCV_ACK"
      BY <1>5 DEF Connections
    <3> QED
      BY <1>5, <3>1, SetState, SetSameFins DEF Event
  <2> HIDE DEF acked
  <2>2. Flows(k, acked, p) /\ SameSetup(k, acked) /\ acked.fsm = "LAST_ACK"
    BY <1>5, <1>10, <2>1, FlowsKept DEF SameSetup, last
  <2>3. Good(k, PerformStateTransition(acked), p)
    BY <1>5, <2>1, <2>2, OutcomeGood
  <2> QED
    BY <1>2, <1>10, <2>3
<1>11. CASE ~last
  <2> DEFINE d == [k5 EXCEPT !.event = "CLOSE"]
  <2>1. r = k5 \/ (r = d /\ k5.fsm \in {"ESTABLISHED", "SYN_RCVD", "CLOSE_WAIT"})
    BY <1>2, <1>11 DEF DeferredClose
  <2>2. Good(k, PerformStateTransition(k5), p)
    BY <1>9, OutcomeGood DEF open
  <2>3. ASSUME k5.fsm \in {"ESTABLISHED", "SYN_RCVD", "CLOSE_WAIT"}
        PROVE  Good(k, PerformStateTransition(d), p)
    <3>1. /\ d \in Connections /\ SameFins(k5, d) /\ d.fsm = k5.fsm
          /\ d.timers = k5.timers /\ d.event = "CLOSE" /\ d.rcv_nxt = k5.rcv_nxt
      <4>1. /\ d.fsm = k5.fsm /\ d.timers = k5.timers /\ d.event = "CLOSE"
            /\ d.rcv_nxt = k5.rcv_nxt
        BY <1>9 DEF Connections
      <4> QED
        BY <1>9, <4>1, SetState, SetSameFins DEF Event
    <3> HIDE DEF d
    <3>2. Flows(k, d, p) /\ SameSetup(k, d) /\ d.fsm = k.fsm
      BY <1>9, <3>1, FlowsKept DEF SameSetup
    <3>3. CASE k5.fsm \in {"ESTABLISHED", "SYN_RCVD"}
      <4>1. "2MSL" \notin d.timers
        BY <1>9, <3>1, <3>3 DEF open, OpenStates, Before, After
      <4> QED
        BY <3>1, <3>2, <3>3, <4>1, OutcomeGood
    <3>4. CASE k5.fsm = "CLOSE_WAIT"
      <4>1. Done(k5, p)
        BY <1>9, <3>4 DEF open, OpenStates
      <4>2. "2MSL" \notin d.timers /\ FinAt(p, d.rcv_nxt - 1)
        BY <3>1, <3>4, <4>1 DEF Done
      <4> QED
        BY <3>1, <3>2, <3>4, <4>2, OutcomeGood
    <3> QED
      BY <2>3, <3>3, <3>4
  <2> QED
    BY <2>1, <2>2, <2>3
<1> QED
  BY <1>10, <1>11

LEMMA ReceiveSegmentTeardown ==
  ASSUME TypeOK, TeardownInv, NEW e \in Endpoint, NEW s \in net[e], NEW w \in Nat,
         NEW nx \in Nat, ReceiveSegment(e, s, w, nx)
  PROVE  TeardownInv'
<1> DEFINE k   == conn[e]
           p   == conn[Peer(e)]
           rst == SendRst(k, s.ackNo)
           ack == SendAck(k)
           dup == [ack EXCEPT !.dupacks = 0]
           r   == ProcessAckedSegment(k, s, w, nx)
<1>1. k \in Connections /\ Base(k, p)
  BY TeardownBase
<1>2. s \in Segments /\ s.ackNo \in Nat /\ k.fsm \in {"SYN_RCVD"} \cup Synchronized
  BY DEF TypeOK, Segments, ReceiveSegment
<1>3. "FIN" \in s.flags => FinAt(p, s.seq + s.len)
  BY DEF TeardownInv, FinKnown
<1>4. \/ Take(e, s, k)
      \/ Take(e, s, rst)
      \/ k.fsm # "SYN_RCVD" /\ Take(e, s, dup)
      \/ Take(e, s, PerformStateTransition(r))
  BY DEF ReceiveSegment
<1>5. Good(k, k, p)
  BY <1>1, SendingReflexive, SendingGood
<1>6. rst \in Connections /\ Good(k, rst, p)
  <2>1. rst \in Connections /\ Sending(k, rst) /\ rst.snd_max = k.snd_max
    BY <1>1, <1>2, SendRstType, SendRstSending, SndMaxKept
  <2> HIDE DEF rst
  <2> QED
    BY <1>1, <2>1, SendingGood
<1>7. ASSUME k.fsm # "SYN_RCVD"
      PROVE  dup \in Connections /\ Good(k, dup, p)
  <2>1. ack \in Connections /\ Sending(k, ack)
    BY <1>1, SendAckType, SendAckSending
  <2> HIDE DEF ack
  <2>2. dup \in Connections /\ Sending(ack, dup)
    BY <2>1, SetNat, SendingSet
  <2> HIDE DEF dup
  <2>3. Sending(k, dup)
    BY <2>1, <2>2, SendingTransitive
  <2> QED
    BY <1>1, <1>7, <2>2, <2>3, SendingGood
<1>8. /\ PerformStateTransition(r) \in Connections
      /\ Good(k, PerformStateTransition(r), p)
  BY <1>1, <1>2, <1>3, ProcessAckedSegmentType, PerformStateTransitionType,
     ProcessAckedSegmentGood
<1> HIDE DEF rst, ack, dup, r
<1> QED
  BY <1>1, <1>4, <1>5, <1>6, <1>7, <1>8, StepTeardown DEF k, p

LEMMA ReceiveTeardown ==
  ASSUME TypeOK, TeardownInv, NEW e \in Endpoint, Receive(e)
  PROVE  TeardownInv'
<1>1. PICK s \in net[e] :
        \/ ReceiveWhileClosed(e, s)
        \/ ReceiveInListen(e, s)
        \/ \E w \in Windows : ReceiveInSynSent(e, s, w)
        \/ ReceiveUnacceptable(e, s)
        \/ ReceiveRst(e, s)
        \/ ReceiveUnexpectedSyn(e, s)
        \/ \E w \in Windows : \E nx \in {conn[e].rcv_nxt, s.seq + 1}
                                \cup {u + 1 : u \in conn[e].rcvQueue} :
             ReceiveSegment(e, s, w, nx)
  BY DEF Receive
<1>2. s \in Segments
  BY DEF TypeOK
<1>3. CASE \E w \in Windows : ReceiveInSynSent(e, s, w)
  BY <1>2, <1>3, WindowsType, ReceiveInSynSentTeardown
<1>4. CASE \E w \in Windows : \E nx \in {conn[e].rcv_nxt, s.seq + 1}
                                \cup {u + 1 : u \in conn[e].rcvQueue} :
             ReceiveSegment(e, s, w, nx)
  <2>1. conn[e] \in Connections
    BY DEF TypeOK
  <2>2. conn[e].rcv_nxt \in Nat /\ conn[e].rcvQueue \in SUBSET Nat
    BY <2>1, Fields
  <2>3. s.seq + 1 \in Nat
    BY <1>2 DEF Segments
  <2>4. {u + 1 : u \in conn[e].rcvQueue} \subseteq Nat
    BY <2>2
  <2> QED
    BY <1>4, <2>2, <2>3, <2>4, WindowsType, ReceiveSegmentTeardown
<1> QED
  BY <1>1, <1>2, <1>3, <1>4, ReceiveWhileClosedTeardown, ReceiveInListenTeardown,
     ReceiveUnacceptableTeardown, ReceiveRstTeardown, ReceiveUnexpectedSynTeardown

-----------------------------------------------------------------------------
(* The theorems.                                                           *)

LEMMA InitTeardown ==
  ASSUME Init
  PROVE  TeardownInv
<1> SUFFICES ASSUME NEW e \in Endpoint
             PROVE  /\ Idle(conn[e])
                    /\ FinEndsQueue(conn[e])
                    /\ FinKnown(conn[e], net[e], conn[Peer(e)])
                    /\ TimersMatch(conn[e])
  BY DEF TeardownInv
<1>1. conn[e] = NewConnection(e) /\ net[e] = {}
  BY DEF Init
<1>2. /\ conn[e].fsm = "INIT" /\ conn[e].event = "IGNORE" /\ conn[e].out = {}
      /\ conn[e].sockstate = "NOT_BOUND" /\ conn[e].timers = {}
      /\ ~conn[e].send_fin /\ ~conn[e].fin_rcvd
  BY <1>1 DEF NewConnection
<1> QED
  BY <1>1, <1>2 DEF Idle, FinEndsQueue, FinKnown, TimersMatch, PeerFinSeen, SetupTimers

\* A FIN and its sequence number stay the same from the CLOSE of one end, over
\* every loss, duplicate and retransmission, to the end that takes it off the
\* stream; and the timers of setup and of TIME_WAIT follow the state.
THEOREM TeardownCorrect == Spec => []TeardownInv
<1>1. Init => TeardownInv
  BY InitTeardown
<1>2. TypeOK /\ TeardownInv /\ [Next]_vars => TeardownInv'
  <2> SUFFICES ASSUME TypeOK, TeardownInv, [Next]_vars
               PROVE  TeardownInv'
    OBVIOUS
  <2>1. CASE UNCHANGED vars
    BY <2>1 DEF vars, TeardownInv
  <2>2. CASE Next
    <3>1. PICK e \in Endpoint : Command(e) \/ Timeout(e) \/ Receive(e) \/ Lose(e)
      BY <2>2 DEF Next
    <3>2. CASE Command(e)
      BY <3>2, OpenActiveTeardown, OpenPassiveTeardown, SendTeardown, CloseTeardown,
         AbortTeardown DEF Command
    <3>3. CASE Timeout(e)
      BY <3>3, SynRexmitTimeoutTeardown, ConnEstabTimeoutTeardown, MSLTimeoutTeardown,
         RexmitTimeoutTeardown, DelayedAckTimeoutTeardown DEF Timeout
    <3>4. CASE Receive(e)
      BY <3>4, ReceiveTeardown
    <3>5. CASE Lose(e)
      BY <3>5, LoseTeardown
    <3> QED
      BY <3>1, <3>2, <3>3, <3>4, <3>5
  <2> QED
    BY <2>1, <2>2
<1> QED
  BY <1>1, <1>2, TypeCorrect, PTL DEF Spec

\* A connection that is in a state after the peer's FIN has received everything
\* the peer sent before it, and the peer has closed.
THEOREM FinConsumedInSequence == Spec => []FinInSequence
<1>1. TypeOK /\ TeardownInv => FinInSequence
  <2> SUFFICES ASSUME TypeOK, TeardownInv, NEW e \in Endpoint,
                      conn[e].fsm \in PeerFinSeen
               PROVE  /\ conn[Peer(e)].send_fin
                      /\ conn[e].rcv_nxt = conn[Peer(e)].snd_fin_seq + 1
    BY DEF FinInSequence
  <2>1. conn[e].rcv_nxt \in Nat
    BY Fields DEF TypeOK
  <2>2. FinAt(conn[Peer(e)], conn[e].rcv_nxt - 1)
    BY DEF TeardownInv, FinKnown
  <2> QED
    BY <2>1, <2>2 DEF FinAt
<1> QED
  BY <1>1, TypeCorrect, TeardownCorrect, PTL

\* No timer of connection setup or of TIME_WAIT is ever left running in a state
\* whose handler would throw, and none is missing where it is needed.
THEOREM TimersFollowState == Spec => []TimersMatchState
<1>1. TeardownInv => TimersMatchState
  BY DEF TeardownInv, TimersMatch, TimersMatchState
<1> QED
  BY <1>1, TeardownCorrect, PTL
=============================================================================
