---------------------------- MODULE WlanInvariant ----------------------------
(***************************************************************************)
(* The inductive invariant of the delivery of frames: where the copies of  *)
(* the frame a station works on may be, and the times that keep an         *)
(* acknowledgement from meeting a later frame.                             *)
(***************************************************************************)
EXTENDS WlanSafety

(* A frame takes longer than its way through the air, and the space before *)
(* a contending station sends is longer than the one before an answer.     *)
Spaced == ControlTime > 1 /\ DataTime > 1 /\ Aifsn > 0

(* The twelve bits of a sequence number tell the frames of a station apart. *)
Numbered == \A n \in Node : Len(Workload[n]) <= 4096

-----------------------------------------------------------------------------
(* The frames of a station and their numbers.                              *)

numAccepted(n) == Len(Workload[n]) - Len(offered[n])
numFinished(n) == numAccepted(n) - Len(mac[n].queue)
Sent(n, k) == DataFrame(n, Workload[n][k + 1], k)

Numbering ==
    \A n \in Node :
        /\ Len(offered[n]) <= Len(Workload[n]) /\ numFinished(n) >= 0
        /\ \A i \in DOMAIN offered[n] : offered[n][i] = Workload[n][numAccepted(n) + i]
        /\ mac[n].sequenceNumber = numAccepted(n) % 4096
        /\ \A i \in DOMAIN mac[n].queue : mac[n].queue[i] = Sent(n, numFinished(n) + i - 1)

-----------------------------------------------------------------------------
(* What the radios hear.                                                   *)

(* The station begins to contend, and does not send, for k ticks.          *)
Holds(s, k) ==
    /\ s.state # "BACKOFF"
    /\ s.endAIFS # Off => s.endAIFS >= k
    /\ s.endDIFS # Off => s.endDIFS >= k
Rests(s) == Holds(s, 1) /\ s.endSIFS # 0

(* What a radio receives has begun after its own frame.                    *)
Receivers ==
    \A n \in Node :
        /\ recvBuff[n] \subseteq {m \in Hears[n] : air[m].frame # NoFrame /\ air[m].age >= 1}
        /\ recvBuff[n] # {} => mac[n].radioState # "IDLE"
        /\ \A m \in Node : starts(n, m) => air[m].age = 1
        /\ receiving[n] # Nobody =>
              /\ receiving[n] \in recvBuff[n] /\ mac[n].radioState = "RECV"
              /\ air[n].frame # NoFrame =>
                    air[receiving[n]].age <= air[n].age - airTime(air[n].frame) + 1

(* A frame that is over is followed by no other at once.                   *)
Senders ==
    \A n \in Node : LET age == air[n].age  whole == airTime(air[n].frame) IN
        /\ mac[n].radioState = "TRANSMIT" => air[n].frame # NoFrame /\ age <= whole
        /\ air[n].frame # NoFrame /\ mac[n].radioState # "TRANSMIT" =>
              age \in {whole, whole + 1} /\ (age = whole => Rests(mac[n]))

-----------------------------------------------------------------------------
(* The frame a station works on.                                           *)

Awaits(n, f) == mac[n].state = "WAITACK" /\ Head(mac[n].queue) = f

(* The station does not wait for an answer, nor begin to for k ticks.      *)
Waits(s, k) ==
    /\ Holds(s, k)
    /\ s.state \in {"IDLE", "DEFER", "WAITAIFS", "WAITSIFS"}
    /\ s.state = "WAITSIFS" => s.frameBeforeSIFS.type # "CTS"

(* A data frame in the air is the head of its sender's queue, or was sent  *)
(* to everybody; the timer that ends the wait for its answer runs past it. *)
InTheAir ==
    \A n \in Node : LET f == air[n].frame  s == mac[n] IN
        f.type = "DATA" =>
          /\ f = Sent(n, f.seq) /\ f.seq \in 0 .. numFinished(n) /\ f.seq < numAccepted(n)
          /\ \/ Awaits(n, f) /\ s.endTimeout + air[n].age >= DataTime + 2
             \/ /\ f.ra = Multicast
                /\ \/ f \in s.numSent
                   \/ /\ s.state = "WAITMULTICAST" /\ Head(s.queue) = f
                      /\ s.endTimeout + air[n].age >= DataTime

(* A frame that is about to be acknowledged.                               *)
elements(q) == {q[k] : k \in DOMAIN q}
given(r) == elements(handedUp[r])
ToAcknowledge ==
    \A r \in Node : LET f == mac[r].frameBeforeSIFS IN
        mac[r].state = "WAITSIFS" /\ f.type = "DATA" =>
          /\ f.ra = r /\ f.ta \in Hears[r] /\ mac[r].endSIFS <= Sifs
          /\ f \in given(r)
          /\ Awaits(f.ta, f) \/ Waits(mac[f.ta], mac[r].endSIFS + 1)

(* An acknowledgement in the air.                                          *)
Acknowledged ==
    \A r \in Node : LET ack == air[r].frame  n == ack.ra IN
        ack.type = "ACK" =>
          /\ n \in Hears[r]
          /\ \/ Waits(mac[n], IF starts(n, r) THEN 0 ELSE 1)
             \/ \E f \in given(r) : f.ra = r /\ Awaits(n, f)

-----------------------------------------------------------------------------
(* What has been handed up, and what the duplicate filter knows of it.     *)
givenBy(r, n) == {f \in given(r) : f.ta = n}
HandedUpOnce ==
    \A r, n \in Node :
        LET up == givenBy(r, n)
            last == mac[r].asfTuplesList[n]
            f == air[n].frame
            q == mac[n].queue
        IN
        /\ \A g \in up :
              /\ g = Sent(n, g.seq) /\ g.seq \in 0 .. numFinished(n) /\ g.seq < numAccepted(n)
              /\ f.type = "DATA" => g.seq <= f.seq
        /\ f.type = "DATA" /\ f \in up => last = f.seq
        /\ q # <<>> /\ Head(q) \in up => last = Head(q).seq
        /\ last # Off => /\ last \in 0 .. numAccepted(n) - 1
                         /\ Sent(n, last).ra \in {r, Multicast} => Sent(n, last) \in up

DeliveryInv ==
    Numbering /\ Receivers /\ Senders /\ InTheAir /\ ToAcknowledge /\ Acknowledged /\ HandedUpOnce
=============================================================================
