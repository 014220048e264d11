---------------------------- MODULE NextHopQueue ----------------------------
(* What address resolution promises the datagrams that wait for a next hop,  *)
(* as a specification of its own: for each node and next hop a state and a   *)
(* queue.  A datagram waits only while a resolution runs, and a resolution   *)
(* always ends, either way, with the whole queue let go.                     *)
EXTENDS Integers, Sequences

CONSTANTS Node, Address

VARIABLES resolution,   \* resolution[n][a]: "none", "pending" or "known"
          waiting       \* waiting[n][a]: the datagrams that wait for a

vars == <<resolution, waiting>>

Init ==
  /\ resolution = [n \in Node |-> [a \in Address |-> "none"]]
  /\ waiting = [n \in Node |-> [a \in Address |-> <<>>]]

(* A datagram for a next hop that is not (or no longer) known: it is queued  *)
(* behind those that wait already.                                           *)
Wait(n, a) ==
  /\ resolution' = [resolution EXCEPT ![n][a] = "pending"]
  /\ \E w \in {waiting'[n][a]} :
       /\ Len(w) > Len(waiting[n][a])
       /\ \A i \in 1 .. Len(waiting[n][a]) : w[i] = waiting[n][a][i]
       /\ waiting' = [waiting EXCEPT ![n][a] = w]

(* The resolution ends: the address is known, or has not been found.         *)
Release(n, a) ==
  /\ resolution[n][a] = "pending"
  /\ \E r \in {"known", "none"} :
       resolution' = [resolution EXCEPT ![n][a] = r]
  /\ waiting' = [waiting EXCEPT ![n][a] = <<>>]

(* The address is learnt from somebody else's request.                       *)
Learn(n, a) ==
  /\ resolution[n][a] = "none"
  /\ resolution' = [resolution EXCEPT ![n][a] = "known"]
  /\ UNCHANGED waiting

(* The node stops.                                                           *)
Forget(n) ==
  /\ resolution' = [resolution EXCEPT ![n] = [a \in Address |-> "none"]]
  /\ waiting' = [waiting EXCEPT ![n] = [a \in Address |-> <<>>]]

Next == \E n \in Node : \/ Forget(n)
                        \/ \E a \in Address : \/ Wait(n, a)
                                              \/ Release(n, a)
                                              \/ Learn(n, a)

End(n, a) == resolution[n][a] = "pending" /\ (Release(n, a) \/ Forget(n))

(* Every resolution that has started ends.                                   *)
Spec == /\ Init /\ [][Next]_vars
        /\ \A n \in Node, a \in Address : WF_vars(End(n, a))
=============================================================================
