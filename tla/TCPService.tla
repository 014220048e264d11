----------------------------- MODULE TCPService -----------------------------
(***************************************************************************)
(* What a TCP connection is to the two applications: one stream of units   *)
(* in each direction, delivered in order and without loss up to the end    *)
(* the writer has given it.  The connection may fail, which stops a stream *)
(* short of its end but never makes it look complete.                      *)
(***************************************************************************)
EXTENDS Naturals

CONSTANT Writer      \* a stream is named after the end that writes it

VARIABLES
  sent,        \* sent[s]: units written to stream s
  shut,        \* shut[s]: the writer has closed it
  delivered,   \* delivered[s]: units the reader has been given
  eof          \* eof[s]: the reader has been told that s is complete

vars == <<sent, shut, delivered, eof>>

Init ==
  /\ sent = [s \in Writer |-> 0] /\ delivered = [s \in Writer |-> 0]
  /\ shut = [s \in Writer |-> FALSE] /\ eof = [s \in Writer |-> FALSE]

Write(s) ==
  /\ ~shut[s]
  /\ sent' = [sent EXCEPT ![s] = @ + 1]
  /\ UNCHANGED <<shut, delivered, eof>>

Shut(s) ==
  /\ shut' = [shut EXCEPT ![s] = TRUE]
  /\ UNCHANGED <<sent, delivered, eof>>

\* The next units of the stream, its end, or both at once.
Read(s) ==
  /\ ~eof[s]
  /\ \E n \in delivered[s] .. sent[s] : delivered' = [delivered EXCEPT ![s] = n]
  /\ \/ eof' = eof
     \/ shut[s] /\ delivered'[s] = sent[s] /\ eof' = [eof EXCEPT ![s] = TRUE]
  /\ UNCHANGED <<sent, shut>>

Next == \E s \in Writer : Write(s) \/ Shut(s) \/ Read(s)

Spec == Init /\ [][Next]_vars
=============================================================================
