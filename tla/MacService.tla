----------------------------- MODULE MacService -----------------------------
(***************************************************************************)
(* What the MACs of a wireless network promise: every station sends its    *)
(* frames one after the other.  The frame at the head of its queue is      *)
(* handed up at most once by each receiver; it leaves the queue when it is *)
(* acknowledged, which the addressee has then handed up, when it is a      *)
(* multicast frame that was sent, or when the station gives up.            *)
(***************************************************************************)
EXTENDS Sequences, SequencesExt

CONSTANTS Node, Multicast

VARIABLES queue,     \* [Node -> the frames accepted and not finished]
          handedUp,  \* [Node -> the frames handed up, in order]
          numSent    \* the frames acknowledged, or sent to everybody

vars == <<queue, handedUp, numSent>>

Init == /\ queue = [n \in Node |-> <<>>]
        /\ handedUp = [n \in Node |-> <<>>]
        /\ numSent = {}

Accept(n) == /\ \E f \in Range(queue'[n]) :
                   /\ f.ta = n
                   /\ queue' = [queue EXCEPT ![n] = Append(@, f)]
             /\ UNCHANGED <<handedUp, numSent>>

\* The frames a receiver may get: those at the head of a queue, and multicast
\* frames that are still in the air when their sender has finished.
underWay == {Head(queue[n]) : n \in {m \in Node : queue[m] # <<>>}}
              \cup {f \in numSent : f.ra = Multicast}
handUp(r) == \E f \in underWay :
                /\ f.ra \in {r, Multicast}
                /\ f \notin Range(handedUp[r])
                /\ handedUp' = [handedUp EXCEPT ![r] = Append(@, f)]
HandUp(r) == handUp(r) /\ UNCHANGED <<queue, numSent>>

pop(n) == queue[n] # <<>> /\ queue' = [queue EXCEPT ![n] = Tail(@)]
Finish(n) == /\ pop(n)
             /\ \/ Head(queue[n]).ra = Multicast
                \/ Head(queue[n]) \in Range(handedUp[Head(queue[n]).ra])
             /\ numSent' = numSent \cup {Head(queue[n])}
             /\ UNCHANGED handedUp
GiveUp(n) == pop(n) /\ UNCHANGED <<handedUp, numSent>>
\* A frame of another station ends the wait for an acknowledgement.
Interrupted(n) == /\ pop(n)
                  /\ handUp(n)
                  /\ UNCHANGED numSent

Next == \E n \in Node : Accept(n) \/ HandUp(n) \/ Finish(n) \/ GiveUp(n) \/ Interrupted(n)

Spec == Init /\ [][Next]_vars

\* Every frame is finished in the end.
Leave(n) == Finish(n) \/ GiveUp(n) \/ Interrupted(n)
FairSpec == Spec /\ \A n \in Node : WF_vars(Leave(n))
=============================================================================
