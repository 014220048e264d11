------------------------------ MODULE TCPState ------------------------------
(***************************************************************************)
(* The connection state machine of TCPConnection: the table in             *)
(* performStateTransition(), apart from what a transition does to timers   *)
(* and to the application, which is StateEntered in TCPConnection.         *)
(***************************************************************************)

\* The value of fsm.
State == {"INIT", "CLOSED", "LISTEN", "SYN_SENT", "SYN_RCVD", "ESTABLISHED",
          "CLOSE_WAIT", "LAST_ACK", "FIN_WAIT_1", "FIN_WAIT_2", "CLOSING",
          "TIME_WAIT"}

\* The event codes TCP_E_xxx that take part in a transition; IGNORE is the
\* code for "no transition".
Event == {"IGNORE", "OPEN_ACTIVE", "OPEN_PASSIVE", "SEND", "CLOSE", "ABORT",
          "RCV_SYN", "RCV_SYN_ACK", "RCV_ACK", "RCV_FIN", "RCV_FIN_ACK",
          "RCV_RST", "RCV_UNEXP_SYN", "TIMEOUT_2MSL", "TIMEOUT_CONN_ESTAB",
          "TIMEOUT_FIN_WAIT_2"}

\* States in which data may have been exchanged, or soon will be.
Closing == {"FIN_WAIT_1", "FIN_WAIT_2", "CLOSING", "LAST_ACK", "TIME_WAIT"}
Synchronized == {"ESTABLISHED", "CLOSE_WAIT"} \cup Closing

\* States in which the peer's FIN has been taken off the receive sequence.
PeerFinSeen == {"CLOSE_WAIT", "LAST_ACK", "CLOSING", "TIME_WAIT"}

\* SYN_RCVD falls back to LISTEN, unless this end opened the connection.
FallBack(active) == IF active THEN "CLOSED" ELSE "LISTEN"

\* <<from, event, to>> for every case of the two nested switches.
Arcs(active) ==
  {<<"INIT", "OPEN_PASSIVE", "LISTEN">>, <<"INIT", "OPEN_ACTIVE", "SYN_SENT">>}
  \cup
  {<<"LISTEN", "OPEN_ACTIVE", "SYN_SENT">>, <<"LISTEN", "SEND", "SYN_SENT">>,
   <<"LISTEN", "CLOSE", "CLOSED">>, <<"LISTEN", "RCV_SYN", "SYN_RCVD">>}
  \cup
  {<<"SYN_SENT", "CLOSE", "CLOSED">>, <<"SYN_SENT", "RCV_SYN", "SYN_RCVD">>,
   <<"SYN_SENT", "TIMEOUT_CONN_ESTAB", "CLOSED">>,
   <<"SYN_SENT", "RCV_RST", "CLOSED">>,
   <<"SYN_SENT", "RCV_SYN_ACK", "ESTABLISHED">>}
  \cup
  {<<"SYN_RCVD", "CLOSE", "FIN_WAIT_1">>,
   <<"SYN_RCVD", "TIMEOUT_CONN_ESTAB", FallBack(active)>>,
   <<"SYN_RCVD", "RCV_RST", FallBack(active)>>,
   <<"SYN_RCVD", "RCV_ACK", "ESTABLISHED">>,
   <<"SYN_RCVD", "RCV_FIN", "CLOSE_WAIT">>,
   <<"SYN_RCVD", "RCV_UNEXP_SYN", "CLOSED">>}
  \cup
  {<<"ESTABLISHED", "CLOSE", "FIN_WAIT_1">>,
   <<"ESTABLISHED", "RCV_FIN", "CLOSE_WAIT">>,
   <<"CLOSE_WAIT", "CLOSE", "LAST_ACK">>, <<"LAST_ACK", "RCV_ACK", "CLOSED">>,
   <<"FIN_WAIT_1", "RCV_FIN", "CLOSING">>,
   <<"FIN_WAIT_1", "RCV_ACK", "FIN_WAIT_2">>,
   <<"FIN_WAIT_1", "RCV_FIN_ACK", "TIME_WAIT">>,
   <<"FIN_WAIT_2", "RCV_FIN", "TIME_WAIT">>,
   <<"FIN_WAIT_2", "TIMEOUT_FIN_WAIT_2", "CLOSED">>,
   <<"CLOSING", "RCV_ACK", "TIME_WAIT">>,
   <<"TIME_WAIT", "TIMEOUT_2MSL", "CLOSED">>}
  \cup
  Synchronized \X {"RCV_RST", "RCV_UNEXP_SYN"} \X {"CLOSED"}
  \cup
  (State \ {"INIT", "CLOSED"}) \X {"ABORT"} \X {"CLOSED"}

\* The state an event leads to; an event without an arc changes nothing.
Transition(st, event, active) ==
  IF \E t \in State : <<st, event, t>> \in Arcs(active)
    THEN CHOOSE t \in State : <<st, event, t>> \in Arcs(active)
    ELSE st
=============================================================================
