----------------------------- MODULE Wlan_proofs -----------------------------
(***************************************************************************)
(* TypeOK, FaultFree, TimersFollowState, ContendsWhenFree and              *)
(* OneFrameAtATime for any number of stations, any topology, any frames to *)
(* be sent and any times; and, where a frame is longer than its way        *)
(* through the air and the numbers tell the frames of a station apart      *)
(* (Spaced, Numbered), AcknowledgesCurrent and the refinement of           *)
(* MacService.                                                             *)
(***************************************************************************)
EXTENDS WlanInvariant, FiniteSetTheorems, TLAPS

-----------------------------------------------------------------------------
(* The inductive invariant.                                                *)

Reservation == {d \in Int : d <= Longest}
Data == [type : {"DATA"}, ta : Node, ra : Node \cup {Multicast}, seq : Int, duration : Reservation]
Rts == [type : {"RTS"}, ta : Node, ra : Node \cup {Multicast}, duration : Reservation]
Answer == [type : {"CTS", "ACK"}, ra : Node, duration : Reservation]
Frame == Data \cup Rts \cup Answer

Time == TimerRange
Queues == {q \in Seq(Data) : Len(q) <= 2}

(* A backoff of as many whole slots as can be drawn, and a part of one.    *)
InWindow(p) == p \div Slot \in Draws
Periods == {p \in Nat : InWindow(p)}

StationRecord ==
    [state : {"IDLE", "DEFER", "WAITAIFS", "BACKOFF", "WAITACK", "WAITMULTICAST", "WAITCTS", "WAITSIFS"},
     radioState : {"IDLE", "RECV", "TRANSMIT"}, queue : Queues,
     retryCounter : 0 .. transmissionLimit - 1, backoff : BOOLEAN, backoffPeriod : Periods \cup {Invalid},
     lastReceiveFailed : BOOLEAN, frameBeforeSIFS : Frame \cup {NoFrame},
     endAIFS : Time, endDIFS : Time, endBackoff : Time, endSIFS : Time,
     endTimeout : Time, endReserve : Time,
     sequenceNumber : Nat, asfTuplesList : [Node -> Int],
     numSent : SUBSET Data, numGivenUp : SUBSET Data,
     down : Frame \cup {NoFrame}, up : Frame \cup {NoFrame}, failed : BOOLEAN]

(* No timer but the network allocation vector runs: the station is between *)
(* two states.                                                             *)
Still(s) ==
    /\ s \in StationRecord /\ ~s.failed
    /\ s.endAIFS = Off /\ s.endDIFS = Off /\ s.endBackoff = Off
    /\ s.endSIFS = Off /\ s.endTimeout = Off

(* A station that has not looked at the medium yet.                        *)
Settled(s) ==
    /\ s \in StationRecord /\ ~s.failed
    /\ s.endTimeout # Off <=> s.state \in {"WAITACK", "WAITCTS", "WAITMULTICAST"}
    /\ s.endSIFS # Off <=> s.state = "WAITSIFS"
    /\ s.endBackoff # Off <=> s.state = "BACKOFF"
    /\ s.endAIFS # Off \/ s.endDIFS # Off <=> s.state = "WAITAIFS"
    /\ s.endAIFS = Off \/ s.endDIFS = Off
    /\ s.endAIFS # Off \/ s.endTimeout # Off => s.queue # <<>>
    /\ s.endBackoff <= s.backoffPeriod
    /\ s.state = "IDLE" => s.queue = <<>> /\ s.backoffPeriod \in {Invalid, 0}
    /\ s.state = "WAITSIFS" => /\ s.radioState # "TRANSMIT"
                               /\ s.frameBeforeSIFS # NoFrame
                               /\ s.frameBeforeSIFS.type # "ACK"
                               /\ s.frameBeforeSIFS.type = "CTS" => s.queue # <<>>

(* The medium and the state agree.                                         *)
Tuned(s) ==
    /\ s.state \in {"WAITAIFS", "BACKOFF"} => isMediumFree(s)
    /\ s.state = "DEFER" => ~isMediumFree(s)

Sound(s) == Settled(s) /\ Tuned(s)

IInv ==
    /\ DOMAIN mac = Node /\ DOMAIN air = Node /\ DOMAIN receiving = Node
    /\ DOMAIN recvBuff = Node /\ DOMAIN offered = Node
    /\ \A n \in Node :
          /\ Sound(mac[n]) /\ mac[n].down = NoFrame /\ mac[n].up = NoFrame
          /\ air[n] \in [frame : Frame \cup {NoFrame}, age : Nat]
          /\ mac[n].radioState = "TRANSMIT" => receiving[n] = Nobody
          /\ offered[n] \in Seq(Node \cup {Multicast})
          /\ \A m \in recvBuff[n] : m \in Node /\ air[m].frame # NoFrame

-----------------------------------------------------------------------------
(* The fields of a station are set one at a time.                          *)

(* No field but those named in F has changed.                              *)
SameBut(s, t, F) ==
    /\ "state" \notin F => t.state = s.state
    /\ "radioState" \notin F => t.radioState = s.radioState
    /\ "queue" \notin F => t.queue = s.queue
    /\ "retryCounter" \notin F => t.retryCounter = s.retryCounter
    /\ "backoff" \notin F => t.backoff = s.backoff
    /\ "backoffPeriod" \notin F => t.backoffPeriod = s.backoffPeriod
    /\ "lastReceiveFailed" \notin F => t.lastReceiveFailed = s.lastReceiveFailed
    /\ "frameBeforeSIFS" \notin F => t.frameBeforeSIFS = s.frameBeforeSIFS
    /\ "endAIFS" \notin F => t.endAIFS = s.endAIFS
    /\ "endDIFS" \notin F => t.endDIFS = s.endDIFS
    /\ "endBackoff" \notin F => t.endBackoff = s.endBackoff
    /\ "endSIFS" \notin F => t.endSIFS = s.endSIFS
    /\ "endTimeout" \notin F => t.endTimeout = s.endTimeout
    /\ "endReserve" \notin F => t.endReserve = s.endReserve
    /\ "sequenceNumber" \notin F => t.sequenceNumber = s.sequenceNumber
    /\ "asfTuplesList" \notin F => t.asfTuplesList = s.asfTuplesList
    /\ "numSent" \notin F => t.numSent = s.numSent
    /\ "numGivenUp" \notin F => t.numGivenUp = s.numGivenUp
    /\ "down" \notin F => t.down = s.down
    /\ "up" \notin F => t.up = s.up
    /\ "failed" \notin F => t.failed = s.failed

LEMMA StateSet ==
    ASSUME NEW s \in StationRecord, NEW v \in {"IDLE", "DEFER", "WAITAIFS", "BACKOFF", "WAITACK", "WAITMULTICAST",
                      "WAITCTS", "WAITSIFS"},
           NEW t, t = [s EXCEPT !.state = v]
    PROVE  t \in StationRecord /\ t.state = v /\ SameBut(s, t, {"state"})
<1>1. t \in StationRecord
  BY DEF StationRecord
<1>2. t.state = v /\ SameBut(s, t, {"state"})
  BY DEF StationRecord, SameBut
<1> QED
  BY <1>1, <1>2

LEMMA QueueSet ==
    ASSUME NEW s \in StationRecord, NEW v \in Queues, NEW t, t = [s EXCEPT !.queue = v]
    PROVE  t \in StationRecord /\ t.queue = v /\ SameBut(s, t, {"queue"})
<1>1. t \in StationRecord
  BY DEF StationRecord
<1>2. t.queue = v /\ SameBut(s, t, {"queue"})
  BY DEF StationRecord, SameBut
<1> QED
  BY <1>1, <1>2

LEMMA RetryCounterSet ==
    ASSUME NEW s \in StationRecord, NEW v \in 0 .. transmissionLimit - 1,
           NEW t, t = [s EXCEPT !.retryCounter = v]
    PROVE  t \in StationRecord /\ t.retryCounter = v /\ SameBut(s, t, {"retryCounter"})
<1>1. t \in StationRecord
  BY DEF StationRecord
<1>2. t.retryCounter = v /\ SameBut(s, t, {"retryCounter"})
  BY DEF StationRecord, SameBut
<1> QED
  BY <1>1, <1>2

LEMMA BackoffSet ==
    ASSUME NEW s \in StationRecord, NEW v \in BOOLEAN, NEW t, t = [s EXCEPT !.backoff = v]
    PROVE  t \in StationRecord /\ t.backoff = v /\ SameBut(s, t, {"backoff"})
<1>1. t \in StationRecord
  BY DEF StationRecord
<1>2. t.backoff = v /\ SameBut(s, t, {"backoff"})
  BY DEF StationRecord, SameBut
<1> QED
  BY <1>1, <1>2

LEMMA BackoffPeriodSet ==
    ASSUME NEW s \in StationRecord, NEW v \in Periods \cup {Invalid}, NEW t, t = [s EXCEPT !.backoffPeriod = v]
    PROVE  t \in StationRecord /\ t.backoffPeriod = v /\ SameBut(s, t, {"backoffPeriod"})
<1>1. t \in StationRecord
  BY DEF StationRecord
<1>2. t.backoffPeriod = v /\ SameBut(s, t, {"backoffPeriod"})
  BY DEF StationRecord, SameBut
<1> QED
  BY <1>1, <1>2

LEMMA FrameBeforeSIFSSet ==
    ASSUME NEW s \in StationRecord, NEW v \in Frame \cup {NoFrame}, NEW t, t = [s EXCEPT !.frameBeforeSIFS = v]
    PROVE  t \in StationRecord /\ t.frameBeforeSIFS = v /\ SameBut(s, t, {"frameBeforeSIFS"})
<1>1. t \in StationRecord
  BY DEF StationRecord
<1>2. t.frameBeforeSIFS = v /\ SameBut(s, t, {"frameBeforeSIFS"})
  BY DEF StationRecord, SameBut
<1> QED
  BY <1>1, <1>2

LEMMA EndAIFSSet ==
    ASSUME NEW s \in StationRecord, NEW v \in Time, NEW t, t = [s EXCEPT !.endAIFS = v]
    PROVE  t \in StationRecord /\ t.endAIFS = v /\ SameBut(s, t, {"endAIFS"})
<1>1. t \in StationRecord
  BY DEF StationRecord
<1>2. t.endAIFS = v /\ SameBut(s, t, {"endAIFS"})
  BY DEF StationRecord, SameBut
<1> QED
  BY <1>1, <1>2

LEMMA EndDIFSSet ==
    ASSUME NEW s \in StationRecord, NEW v \in Time, NEW t, t = [s EXCEPT !.endDIFS = v]
    PROVE  t \in StationRecord /\ t.endDIFS = v /\ SameBut(s, t, {"endDIFS"})
<1>1. t \in StationRecord
  BY DEF StationRecord
<1>2. t.endDIFS = v /\ SameBut(s, t, {"endDIFS"})
  BY DEF StationRecord, SameBut
<1> QED
  BY <1>1, <1>2

LEMMA EndBackoffSet ==
    ASSUME NEW s \in StationRecord, NEW v \in Time, NEW t, t = [s EXCEPT !.endBackoff = v]
    PROVE  t \in StationRecord /\ t.endBackoff = v /\ SameBut(s, t, {"endBackoff"})
<1>1. t \in StationRecord
  BY DEF StationRecord
<1>2. t.endBackoff = v /\ SameBut(s, t, {"endBackoff"})
  BY DEF StationRecord, SameBut
<1> QED
  BY <1>1, <1>2

LEMMA EndSIFSSet ==
    ASSUME NEW s \in StationRecord, NEW v \in Time, NEW t, t = [s EXCEPT !.endSIFS = v]
    PROVE  t \in StationRecord /\ t.endSIFS = v /\ SameBut(s, t, {"endSIFS"})
<1>1. t \in StationRecord
  BY DEF StationRecord
<1>2. t.endSIFS = v /\ SameBut(s, t, {"endSIFS"})
  BY DEF StationRecord, SameBut
<1> QED
  BY <1>1, <1>2

LEMMA EndTimeoutSet ==
    ASSUME NEW s \in StationRecord, NEW v \in Time, NEW t, t = [s EXCEPT !.endTimeout = v]
    PROVE  t \in StationRecord /\ t.endTimeout = v /\ SameBut(s, t, {"endTimeout"})
<1>1. t \in StationRecord
  BY DEF StationRecord
<1>2. t.endTimeout = v /\ SameBut(s, t, {"endTimeout"})
  BY DEF StationRecord, SameBut
<1> QED
  BY <1>1, <1>2

LEMMA EndReserveSet ==
    ASSUME NEW s \in StationRecord, NEW v \in Time, NEW t, t = [s EXCEPT !.endReserve = v]
    PROVE  t \in StationRecord /\ t.endReserve = v /\ SameBut(s, t, {"endReserve"})
<1>1. t \in StationRecord
  BY DEF StationRecord
<1>2. t.endReserve = v /\ SameBut(s, t, {"endReserve"})
  BY DEF StationRecord, SameBut
<1> QED
  BY <1>1, <1>2

LEMMA SequenceNumberSet ==
    ASSUME NEW s \in StationRecord, NEW v \in Nat, NEW t, t = [s EXCEPT !.sequenceNumber = v]
    PROVE  t \in StationRecord /\ t.sequenceNumber = v /\ SameBut(s, t, {"sequenceNumber"})
<1>1. t \in StationRecord
  BY DEF StationRecord
<1>2. t.sequenceNumber = v /\ SameBut(s, t, {"sequenceNumber"})
  BY DEF StationRecord, SameBut
<1> QED
  BY <1>1, <1>2

LEMMA DownSet ==
    ASSUME NEW s \in StationRecord, NEW v \in Frame \cup {NoFrame}, NEW t, t = [s EXCEPT !.down = v]
    PROVE  t \in StationRecord /\ t.down = v /\ SameBut(s, t, {"down"})
<1>1. t \in StationRecord
  BY DEF StationRecord
<1>2. t.down = v /\ SameBut(s, t, {"down"})
  BY DEF StationRecord, SameBut
<1> QED
  BY <1>1, <1>2

LEMMA UpSet ==
    ASSUME NEW s \in StationRecord, NEW v \in Frame \cup {NoFrame}, NEW t, t = [s EXCEPT !.up = v]
    PROVE  t \in StationRecord /\ t.up = v /\ SameBut(s, t, {"up"})
<1>1. t \in StationRecord
  BY DEF StationRecord
<1>2. t.up = v /\ SameBut(s, t, {"up"})
  BY DEF StationRecord, SameBut
<1> QED
  BY <1>1, <1>2

(***************************************************************************)
(* The times: every wait a handler starts is one of Time.                  *)
(***************************************************************************)
LEMMA ProductNatural == \A a, b \in Nat : a * b \in Nat
OBVIOUS

LEMMA WaitNatural == getAIFS \in Nat /\ getEIFS \in Nat /\ getAIFS <= getEIFS
<1>1. Aifsn * Slot \in Nat
  BY ProductNatural, TimeAssumption, LimitAssumption
<1> QED
  BY <1>1, TimeAssumption DEF getAIFS, getEIFS

LEMMA WaitsAreTimes ==
    /\ Longest \in Nat /\ Off \in Time /\ \A t \in Nat : t <= Longest => t \in Time
    /\ getAIFS \in Time /\ getEIFS \in Time /\ Sifs \in Time
    /\ dataTimeout \in Time /\ ctsTimeout \in Time /\ DataTime \in Time /\ ControlTime \in Time
    /\ 3 * Sifs + ControlTime + DataTime + ControlTime \in Reservation
    /\ Sifs + ControlTime \in Reservation /\ 0 \in Reservation
<1> DEFINE backoff == Slot * (1 + cwMax + cwMinMulticast)
           rest == getEIFS
<1>1. /\ Sifs \in Nat /\ Slot \in Nat /\ DataTime \in Nat /\ ControlTime \in Nat
      /\ PhyRxStart \in Nat /\ MaxPropagationDelay \in Nat
  BY TimeAssumption, LimitAssumption
<1>2. backoff \in Nat /\ Slot <= backoff
  <2>1. cwMax + cwMinMulticast \in Nat
    BY LimitAssumption
  <2> DEFINE more == cwMax + cwMinMulticast
  <2>2. backoff = Slot + Slot * more
    BY <1>1, LimitAssumption
  <2> HIDE DEF more, backoff
  <2>3. Slot * more \in Nat
    BY <1>1, <2>1, ProductNatural DEF more
  <2> QED
    BY <1>1, <2>2, <2>3
<1>3. rest \in Nat /\ getAIFS \in Nat /\ getAIFS <= rest
  BY WaitNatural
<1>4. Longest = 3 * (Sifs + ControlTime) + DataTime + rest + 2 * MaxPropagationDelay
                   + PhyRxStart + backoff
  BY DEF Longest
<1>5. getEIFS = rest
  OBVIOUS
<1> HIDE DEF backoff, rest
<1>6. Longest \in Nat
  BY <1>1, <1>2, <1>3, <1>4
<1>7. \A t \in Nat : t <= Longest => t \in Time
  BY <1>6 DEF Time, TimerRange, Off
<1>8. dataTimeout \in Nat /\ dataTimeout <= Longest
  BY <1>1, <1>2, <1>3, <1>4 DEF dataTimeout
<1>9. ctsTimeout \in Nat /\ ctsTimeout <= Longest
  BY <1>1, <1>2, <1>3, <1>4 DEF ctsTimeout
<1>10. /\ rest <= Longest /\ getAIFS <= Longest
       /\ Sifs <= Longest /\ DataTime <= Longest /\ ControlTime <= Longest
  BY <1>1, <1>2, <1>3, <1>4
<1>11. /\ 3 * Sifs + ControlTime + DataTime + ControlTime \in Reservation
       /\ Sifs + ControlTime \in Reservation /\ 0 \in Reservation
  BY <1>1, <1>2, <1>3, <1>4 DEF Reservation
<1>12. Off \in Time
  BY <1>6 DEF Time, TimerRange, Off
<1> QED
  BY <1>1, <1>3, <1>5, <1>6, <1>7, <1>8, <1>9, <1>10, <1>11, <1>12

LEMMA OffIsTime == Off \in Time
BY WaitsAreTimes

LEMMA TimeIsNumber == Time \subseteq Int /\ \A t \in Time : t # Off <=> t \in Nat
BY WaitsAreTimes DEF Time, TimerRange, Off

LEMMA AIFSCancelled ==
    ASSUME NEW s \in StationRecord, NEW t, t = cancelAIFSPeriod(s)
    PROVE  /\ t \in StationRecord /\ t.endAIFS = Off /\ t.endDIFS = Off
           /\ SameBut(s, t, {"endAIFS", "endDIFS"})
<1> DEFINE half == [s EXCEPT !.endAIFS = Off]
<1>1. Off \in Time
  BY OffIsTime
<1>2. half \in StationRecord /\ half.endAIFS = Off /\ SameBut(s, half, {"endAIFS"})
  BY <1>1, EndAIFSSet
<1>3. t = [half EXCEPT !.endDIFS = Off]
  BY DEF cancelAIFSPeriod
<1> HIDE DEF half
<1>4. t \in StationRecord /\ t.endDIFS = Off /\ SameBut(half, t, {"endDIFS"})
  BY <1>1, <1>2, <1>3, EndDIFSSet
<1> QED
  BY <1>2, <1>4 DEF SameBut

LEMMA TimeoutCancelled ==
    ASSUME NEW s \in StationRecord, NEW t, t = cancelTimeoutPeriod(s)
    PROVE  t \in StationRecord /\ t.endTimeout = Off /\ SameBut(s, t, {"endTimeout"})
BY EndTimeoutSet, OffIsTime DEF cancelTimeoutPeriod

-----------------------------------------------------------------------------
(* The draw of a backoff period.                                           *)

LEMMA PowerPositive ==
    ASSUME NEW k \in Nat
    PROVE  2 ^ k \in Nat \ {0}
<1>1. IsFiniteSet(1 .. k) /\ Cardinality(1 .. k) = k
  BY FS_Interval
<1>2. IsFiniteSet(SUBSET (1 .. k)) /\ Cardinality(SUBSET (1 .. k)) = 2 ^ k
  BY <1>1, FS_SUBSET
<1>3. Cardinality(SUBSET (1 .. k)) \in Nat
  BY <1>2, FS_CardinalityType
<1>4. Cardinality(SUBSET (1 .. k)) # 0
  BY <1>2, FS_EmptySet
<1> QED
  BY <1>2, <1>3, <1>4

(* Quotients by the slot: that of a product, of a smaller number, and what *)
(* it says of the number.                                                  *)
LEMMA Quotient ==
    ASSUME NEW k \in Nat
    PROVE  (k * Slot) \div Slot = k
<1> DEFINE p == k * Slot
           q == p \div Slot
           r == p % Slot
<1>1. Slot \in Nat \ {0} /\ p \in Nat
  BY TimeAssumption, ProductNatural
<1> HIDE DEF p
<1>2. q \in Nat /\ r \in 0 .. Slot - 1 /\ p = Slot * q + r
  BY <1>1
<1> HIDE DEF q, r
<1>3. Slot * (k - q) = r
  BY <1>1, <1>2 DEF p
<1>4. CASE k > q
  <2>1. k - q - 1 \in Nat /\ Slot * (k - q) = Slot + Slot * (k - q - 1)
    BY <1>1, <1>2, <1>4
  <2>2. Slot * (k - q - 1) \in Nat
    BY <1>1, <2>1, ProductNatural
  <2> QED
    BY <1>1, <1>2, <1>3, <2>1, <2>2
<1>5. CASE k < q
  <2>1. q - k - 1 \in Nat /\ Slot * (k - q) = -(Slot + Slot * (q - k - 1))
    BY <1>1, <1>2, <1>5
  <2>2. Slot * (q - k - 1) \in Nat
    BY <1>1, <2>1, ProductNatural
  <2> QED
    BY <1>1, <1>2, <1>3, <2>1, <2>2
<1> QED
  BY <1>2, <1>4, <1>5 DEF p, q

LEMMA QuotientGrows ==
    ASSUME NEW a \in Nat, NEW b \in Nat, a <= b
    PROVE  a \div Slot \in Nat /\ b \div Slot \in Nat /\ a \div Slot <= b \div Slot
<1> DEFINE k == a \div Slot
           l == b \div Slot
           r == a % Slot
           t == b % Slot
<1>1. Slot \in Nat \ {0}
  BY TimeAssumption
<1>2. /\ k \in Nat /\ r \in 0 .. Slot - 1 /\ a = Slot * k + r
      /\ l \in Nat /\ t \in 0 .. Slot - 1 /\ b = Slot * l + t
  BY <1>1
<1> HIDE DEF k, l, r, t
<1>3. CASE k > l
  <2>1. k - l - 1 \in Nat /\ Slot * k = Slot * l + Slot + Slot * (k - l - 1)
    BY <1>1, <1>2, <1>3
  <2>2. Slot * (k - l - 1) \in Nat /\ Slot * l \in Nat
    BY <1>1, <1>2, <2>1, ProductNatural
  <2> QED
    BY <1>1, <1>2, <2>1, <2>2
<1> QED
  BY <1>2, <1>3 DEF k, l

(* The periods are long enough for every draw, and no period outlasts the  *)
(* longest wait.                                                           *)
LEMMA DrawIsPeriod ==
    ASSUME NEW k \in Draws
    PROVE  k * Slot \in Periods
<1>1. k \in Nat
  BY LimitAssumption DEF Draws
<1> QED
  BY <1>1, Quotient, ProductNatural, TimeAssumption DEF Periods, InWindow

LEMMA PeriodIsTime ==
    ASSUME NEW p \in Periods
    PROVE  p \in Time /\ p # Off
<1> DEFINE k == p \div Slot
           r == p % Slot
           most == cwMax + cwMinMulticast
<1>1. Slot \in Nat \ {0} /\ p \in Nat
  BY TimeAssumption DEF Periods
<1>2. k \in Nat /\ r \in 0 .. Slot - 1 /\ p = Slot * k + r
  BY <1>1
<1>3. most \in Nat /\ k <= most
  BY LimitAssumption DEF Periods, InWindow, Draws
<1>4. Slot * (1 + cwMax + cwMinMulticast) = Slot * (1 + most)
  BY LimitAssumption
<1> HIDE DEF k, r, most
<1>5. Slot * (1 + most) = Slot * k + Slot + Slot * (most - k)
  BY <1>1, <1>2, <1>3
<1>6. Slot * (most - k) \in Nat /\ Slot * (1 + most) \in Nat
  <2>1. most - k \in Nat /\ 1 + most \in Nat
    BY <1>2, <1>3
  <2> QED
    BY <1>1, <2>1, ProductNatural
<1>7. p <= Slot * (1 + most)
  BY <1>1, <1>2, <1>5, <1>6
<1> DEFINE backoff == Slot * (1 + most)
           rest == getEIFS
<1>8. /\ Longest = 3 * (Sifs + ControlTime) + DataTime + rest + 2 * MaxPropagationDelay
                     + PhyRxStart + backoff
      /\ rest \in Nat /\ backoff \in Nat /\ p <= backoff
  BY <1>4, <1>6, <1>7, WaitNatural DEF Longest
<1> HIDE DEF backoff, rest
<1>9. p <= Longest
  BY <1>1, <1>8, TimeAssumption, LimitAssumption
<1> QED
  BY <1>1, <1>9, WaitsAreTimes DEF Off

LEMMA WindowNatural ==
    ASSUME NEW s \in StationRecord
    PROVE  contentionWindow(s) \in Nat /\ contentionWindow(s) \in Draws
<1> DEFINE power == 2 ^ s.retryCounter
<1>1. power \in Nat \ {0}
  BY PowerPositive, LimitAssumption DEF StationRecord
<1> HIDE DEF power
<1>2. (cwMin + 1) * power \in Nat \ {0}
  BY <1>1, LimitAssumption
<1>3. (cwMin + 1) * power - 1 \in Nat
  BY <1>2
<1>4. cwMax \in Nat /\ cwMinMulticast \in Nat
  BY LimitAssumption
<1>5. contentionWindow(s) \in Nat
  BY <1>3, <1>4 DEF contentionWindow, power
<1>6. contentionWindow(s) <= cwMax \/ contentionWindow(s) = cwMinMulticast
  BY <1>3, <1>4 DEF contentionWindow, power
<1> QED
  BY <1>4, <1>5, <1>6 DEF Draws

LEMMA AssertHolds ==
    ASSUME NEW s \in StationRecord, ~s.failed, NEW c, c
    PROVE  assert(s, c) = s
BY DEF assert, StationRecord

(* Everything but the backoff and the retry counter.                       *)
SameFrames(s, t) ==
    /\ t.state = s.state /\ t.radioState = s.radioState /\ t.endReserve = s.endReserve
    /\ t.down = s.down /\ t.up = s.up

LEMMA GenerateStill ==
    ASSUME NEW s, Still(s), NEW c \in Nat
    PROVE  /\ Still(generateBackoffPeriod(s, c)) /\ SameFrames(s, generateBackoffPeriod(s, c))
           /\ generateBackoffPeriod(s, c).backoffPeriod \in Periods
           /\ generateBackoffPeriod(s, c).queue = s.queue
<1> DEFINE period == (c % (contentionWindow(s) + 1)) * Slot
<1>1. period \in Periods
  <2>1. contentionWindow(s) \in Nat /\ contentionWindow(s) \in Draws
    BY WindowNatural DEF Still
  <2>2. c % (contentionWindow(s) + 1) \in 0 .. contentionWindow(s)
    BY <2>1
  <2>3. c % (contentionWindow(s) + 1) \in Draws
    BY <2>1, <2>2, LimitAssumption DEF Draws
  <2> QED
    BY <2>3, DrawIsPeriod
<1>2. assert(s, s.retryCounter \in 0 .. transmissionLimit - 1) = s
  BY AssertHolds DEF Still, StationRecord
<1>3. generateBackoffPeriod(s, c) = [s EXCEPT !.backoffPeriod = period]
  BY <1>2 DEF generateBackoffPeriod
<1> HIDE DEF period
<1> QED
  BY <1>1, <1>3 DEF Still, StationRecord, SameFrames

LEMMA GenerateIfInvalidStill ==
    ASSUME NEW s, Still(s), NEW c \in Nat
    PROVE  /\ Still(generateIfInvalid(s, c)) /\ SameFrames(s, generateIfInvalid(s, c))
           /\ generateIfInvalid(s, c).backoffPeriod \in Periods
           /\ generateIfInvalid(s, c).queue = s.queue
<1>1. CASE s.backoffPeriod = Invalid
  BY <1>1, GenerateStill DEF generateIfInvalid
<1>2. CASE s.backoffPeriod # Invalid
  BY <1>2 DEF generateIfInvalid, SameFrames, Still, StationRecord
<1> QED
  BY <1>1, <1>2

-----------------------------------------------------------------------------
(* The frame being sent.                                                   *)

LEMMA QueueTail ==
    ASSUME NEW q \in Queues, q # <<>>
    PROVE  Head(q) \in Data /\ Tail(q) \in Queues
BY DEF Queues

LEMMA NoPeriod == 0 \in Periods
<1>1. 0 \in Draws
  BY LimitAssumption DEF Draws
<1>2. 0 * Slot = 0
  BY TimeAssumption
<1> QED
  BY <1>1, <1>2, DrawIsPeriod

LEMMA ResetStill ==
    ASSUME NEW s, Still(s)
    PROVE  /\ Still(resetStateVariables(s)) /\ SameFrames(s, resetStateVariables(s))
           /\ resetStateVariables(s).queue = s.queue
           /\ resetStateVariables(s).backoffPeriod = 0
<1> DEFINE period == [s EXCEPT !.backoffPeriod = 0]
           counter == [period EXCEPT !.retryCounter = 0]
           t == resetStateVariables(s)
           more == s.queue # <<>>
<1>1. 0 \in 0 .. transmissionLimit - 1 /\ more \in BOOLEAN
  BY LimitAssumption
<1> HIDE DEF more
<1>2. s \in StationRecord
  BY DEF Still
<1>3. period \in StationRecord /\ period.backoffPeriod = 0 /\ SameBut(s, period, {"backoffPeriod"})
  BY <1>2, BackoffPeriodSet, NoPeriod
<1>4. t = [counter EXCEPT !.backoff = more]
  BY DEF resetStateVariables, more
<1> HIDE DEF period, t
<1>5. counter \in StationRecord /\ SameBut(period, counter, {"retryCounter"})
  BY <1>1, <1>3, RetryCounterSet
<1> HIDE DEF counter
<1>6. t \in StationRecord /\ SameBut(counter, t, {"backoff"})
  BY <1>1, <1>4, <1>5, BackoffSet
<1> QED
  BY <1>3, <1>5, <1>6 DEF Still, SameFrames, SameBut, t

LEMMA PopStill ==
    ASSUME NEW s, Still(s), s.queue # <<>>
    PROVE  /\ Still(finishCurrentTransmission(s)) /\ SameFrames(s, finishCurrentTransmission(s))
           /\ finishCurrentTransmission(s).backoffPeriod = 0
           /\ Still(giveUpCurrentTransmission(s)) /\ SameFrames(s, giveUpCurrentTransmission(s))
           /\ giveUpCurrentTransmission(s).backoffPeriod = 0
<1> DEFINE finished == [s EXCEPT !.numSent = @ \cup {Head(s.queue)}]
           givenUp  == [s EXCEPT !.numGivenUp = @ \cup {Head(s.queue)}]
<1>1. Head(s.queue) \in Data /\ Tail(s.queue) \in Queues
  BY QueueTail DEF Still, StationRecord
<1>2. Still(finished) /\ SameFrames(s, finished) /\ finished.queue = s.queue
  BY <1>1 DEF Still, StationRecord, SameFrames
<1>3. Still(givenUp) /\ SameFrames(s, givenUp) /\ givenUp.queue = s.queue
  BY <1>1 DEF Still, StationRecord, SameFrames
<1> HIDE DEF finished, givenUp
<1>4. Still(popTransmissionQueue(finished)) /\ SameFrames(s, popTransmissionQueue(finished))
  BY <1>1, <1>2 DEF popTransmissionQueue, Still, StationRecord, SameFrames
<1>5. Still(popTransmissionQueue(givenUp)) /\ SameFrames(s, popTransmissionQueue(givenUp))
  BY <1>1, <1>3 DEF popTransmissionQueue, Still, StationRecord, SameFrames
<1>6. /\ finishCurrentTransmission(s) = resetStateVariables(popTransmissionQueue(finished))
      /\ giveUpCurrentTransmission(s) = resetStateVariables(popTransmissionQueue(givenUp))
  BY DEF finishCurrentTransmission, giveUpCurrentTransmission, finished, givenUp
<1> QED
  BY <1>4, <1>5, <1>6, ResetStill DEF SameFrames

LEMMA BackOffStill ==
    ASSUME NEW s, Still(s)
    PROVE  Still(resetCurrentBackOff(s)) /\ SameFrames(s, resetCurrentBackOff(s))
BY DEF resetCurrentBackOff, Still, StationRecord, SameFrames, Invalid

LEMMA RetryStill ==
    ASSUME NEW s, Still(s), s.queue # <<>>, NEW c \in Nat
    PROVE  /\ Still(retryOrGiveUp(s, c)) /\ SameFrames(s, retryOrGiveUp(s, c))
           /\ lastTry(s) => retryOrGiveUp(s, c).backoffPeriod = 0
<1>1. CASE lastTry(s)
  BY <1>1, PopStill DEF retryOrGiveUp
<1>2. CASE ~lastTry(s)
  <2> DEFINE tried == [s EXCEPT !.retryCounter = @ + 1, !.backoff = TRUE]
  <2>1. s.retryCounter < transmissionLimit - 1
    BY <1>2, LimitAssumption DEF lastTry, Still, StationRecord
  <2>2. assert(s, s.retryCounter < transmissionLimit - 1) = s
    BY <2>1, AssertHolds DEF Still
  <2>3. Still(tried) /\ SameFrames(s, tried)
    <3>1. s.retryCounter + 1 \in 0 .. transmissionLimit - 1
      BY <2>1, LimitAssumption DEF Still, StationRecord
    <3> QED
      BY <3>1 DEF Still, StationRecord, SameFrames
  <2>4. retryOrGiveUp(s, c) = generateBackoffPeriod(tried, c)
    BY <1>2, <2>2 DEF retryOrGiveUp, retryCurrentTransmission
  <2> HIDE DEF tried
  <2> QED
    BY <1>2, <2>3, <2>4, GenerateStill DEF SameFrames
<1> QED
  BY <1>1, <1>2

LEMMA FinishReceptionStill ==
    ASSUME NEW s, Still(s)
    PROVE  /\ Still(finishReception(s)) /\ SameFrames(s, finishReception(s))
           /\ finishReception(s).queue = s.queue
           /\ s.queue = <<>> => finishReception(s).backoffPeriod = 0
<1>1. CASE s.queue = <<>>
  BY <1>1, ResetStill DEF finishReception
<1>2. CASE s.queue # <<>>
  BY <1>2 DEF finishReception, Still, StationRecord, SameFrames
<1> QED
  BY <1>1, <1>2

-----------------------------------------------------------------------------
(* Entering the states.                                                    *)

(* The operators below leave the radio and the two frames alone.           *)
SameRadio(s, t) ==
    t.radioState = s.radioState /\ t.endReserve = s.endReserve /\ t.down = s.down /\ t.up = s.up

(* A timer is started.                                                     *)
LEMMA TimerStarted ==
    ASSUME NEW s \in StationRecord, NEW t \in Time \ {Off}
    PROVE  /\ [s EXCEPT !.endAIFS = t] \in StationRecord
           /\ [s EXCEPT !.endDIFS = t] \in StationRecord
           /\ [s EXCEPT !.endSIFS = t] \in StationRecord
           /\ t # Off
<1>1. t \in Time /\ t # Off
  OBVIOUS
<1> QED
  BY <1>1 DEF StationRecord

LEMMA WaitAIFSSound ==
    ASSUME NEW s, Still(s)
    PROVE  Sound(WaitAIFS(s)) /\ SameRadio(s, WaitAIFS(s)) /\ WaitAIFS(s).state # "WAITSIFS"
<1> DEFINE wait == IF s.lastReceiveFailed THEN getEIFS ELSE getAIFS
           timed == IF s.queue # <<>> THEN [s EXCEPT !.endAIFS = wait] ELSE [s EXCEPT !.endDIFS = wait]
           waiting == [timed EXCEPT !.state = "WAITAIFS"]
<1>1. wait \in Time /\ wait # Off
  BY WaitNatural, WaitsAreTimes DEF Off
<1>2. scheduleAIFSPeriod(s) = timed
  BY DEF scheduleAIFSPeriod, Still
<1> HIDE DEF wait
<1>3. /\ waiting \in StationRecord /\ ~waiting.failed /\ waiting.state = "WAITAIFS"
      /\ SameRadio(s, waiting) /\ waiting.queue = s.queue
      /\ waiting.endBackoff = Off /\ waiting.endSIFS = Off /\ waiting.endTimeout = Off
      /\ IF s.queue # <<>> THEN waiting.endAIFS # Off /\ waiting.endDIFS = Off
                           ELSE waiting.endAIFS = Off /\ waiting.endDIFS # Off
      /\ waiting.backoffPeriod = s.backoffPeriod
  <2>1. /\ timed \in StationRecord /\ ~timed.failed
        /\ SameRadio(s, timed) /\ timed.queue = s.queue
        /\ timed.endBackoff = Off /\ timed.endSIFS = Off /\ timed.endTimeout = Off
        /\ IF s.queue # <<>> THEN timed.endAIFS # Off /\ timed.endDIFS = Off
                             ELSE timed.endAIFS = Off /\ timed.endDIFS # Off
        /\ timed.backoffPeriod = s.backoffPeriod
    <3>1. CASE s.queue # <<>>
      <4>1. timed = [s EXCEPT !.endAIFS = wait]
        BY <3>1
      <4> HIDE DEF timed
      <4> QED
        <5>1. wait \in Time /\ wait # Off /\ s \in StationRecord
          BY <1>1 DEF Still
        <5> QED
          BY <3>1, <4>1, <5>1, EndAIFSSet DEF Still, SameRadio, SameBut
    <3>2. CASE s.queue = <<>>
      <4>1. timed = [s EXCEPT !.endDIFS = wait]
        BY <3>2
      <4> HIDE DEF timed
      <4> QED
        <5>1. wait \in Time /\ wait # Off /\ s \in StationRecord
          BY <1>1 DEF Still
        <5> QED
          BY <3>2, <4>1, <5>1, EndDIFSSet DEF Still, SameRadio, SameBut
    <3> QED
      BY <3>1, <3>2
  <2> HIDE DEF timed
  <2> QED
    BY <2>1 DEF StationRecord, SameRadio
<1>4. WaitAIFS(s) = IF isMediumFree(s) THEN waiting ELSE Busy(waiting)
  BY <1>2 DEF WaitAIFS
<1> HIDE DEF waiting
<1>5. isMediumFree(waiting) <=> isMediumFree(s)
  BY <1>3 DEF isMediumFree, SameRadio
<1>6. CASE isMediumFree(s)
  BY <1>3, <1>4, <1>5, <1>6 DEF Sound, Settled, Tuned, StationRecord, Periods, Off, Invalid
<1>7. CASE ~isMediumFree(s)
  <2> DEFINE busy == Busy(waiting)
  <2>1. /\ busy \in StationRecord /\ ~busy.failed /\ busy.state = "DEFER"
        /\ SameRadio(s, busy)
        /\ busy.endAIFS = Off /\ busy.endDIFS = Off /\ busy.backoffPeriod = s.backoffPeriod
        /\ busy.endBackoff = Off /\ busy.endSIFS = Off /\ busy.endTimeout = Off
    <3> DEFINE still == cancelAIFSPeriod(waiting)
               back == still.backoff \/ waiting.endAIFS # Off \/ waiting.endDIFS # Off
    <3>1. /\ still \in StationRecord /\ ~still.failed /\ SameRadio(s, still)
          /\ still.endAIFS = Off /\ still.endDIFS = Off /\ still.backoffPeriod = s.backoffPeriod
          /\ still.endBackoff = Off /\ still.endSIFS = Off /\ still.endTimeout = Off
      BY <1>3, AIFSCancelled DEF SameRadio, SameBut
    <3>2. busy = [still EXCEPT !.state = "DEFER", !.backoff = back]
      BY <3>1 DEF Busy, StationRecord
    <3>3. back \in BOOLEAN
      OBVIOUS
    <3> DEFINE deferred == [still EXCEPT !.state = "DEFER"]
    <3> HIDE DEF still, back
    <3>4. deferred \in StationRecord /\ deferred.state = "DEFER" /\ SameBut(still, deferred, {"state"})
      BY <3>1, StateSet
    <3> HIDE DEF deferred, busy
    <3>5. busy \in StationRecord /\ SameBut(deferred, busy, {"backoff"})
      BY <3>2, <3>3, <3>4, BackoffSet DEF deferred
    <3> QED
      BY <3>1, <3>4, <3>5 DEF SameRadio, SameBut
  <2>2. ~isMediumFree(busy)
    BY <1>7, <2>1 DEF isMediumFree, SameRadio
  <2> HIDE DEF busy
  <2>3. Sound(busy)
    BY <2>1, <2>2 DEF Sound, Settled, Tuned, StationRecord, Periods, Off, Invalid
  <2> QED
    BY <1>4, <1>7, <2>1, <2>3 DEF busy
<1> QED
  BY <1>6, <1>7

LEMMA DeferSound ==
    ASSUME NEW s, Still(s)
    PROVE  Sound(Defer(s)) /\ SameRadio(s, Defer(s)) /\ Defer(s).state # "WAITSIFS"
<1> DEFINE deferred == [s EXCEPT !.state = "DEFER"]
<1>1. CASE isMediumFree(s) \/ ~s.backoff
  BY <1>1, WaitAIFSSound DEF Defer
<1>2. CASE ~(isMediumFree(s) \/ ~s.backoff)
  <2>1. /\ deferred \in StationRecord /\ ~deferred.failed /\ deferred.state = "DEFER"
        /\ SameRadio(s, deferred)
        /\ deferred.endAIFS = Off /\ deferred.endDIFS = Off
        /\ deferred.endBackoff = Off /\ deferred.endSIFS = Off /\ deferred.endTimeout = Off
    BY DEF Still, StationRecord, SameRadio
  <2>2. ~isMediumFree(deferred)
    BY <1>2, <2>1 DEF isMediumFree, SameRadio
  <2>3. Defer(s) = deferred
    BY <1>2 DEF Defer
  <2> HIDE DEF deferred
  <2>4. Sound(deferred)
    BY <2>1, <2>2 DEF Sound, Settled, Tuned, StationRecord, Periods, Off, Invalid
  <2> QED
    BY <2>1, <2>3, <2>4
<1> QED
  BY <1>1, <1>2

LEMMA IdleSound ==
    ASSUME NEW s, Still(s), s.queue = <<>> => s.backoffPeriod = 0
    PROVE  Sound(Idle(s)) /\ SameRadio(s, Idle(s)) /\ Idle(s).state # "WAITSIFS"
<1> DEFINE idle == [s EXCEPT !.state = "IDLE"]
<1>1. CASE s.queue # <<>>
  BY <1>1, DeferSound DEF Idle
<1>2. CASE s.queue = <<>>
  <2>1. /\ idle \in StationRecord /\ ~idle.failed /\ idle.state = "IDLE"
        /\ SameRadio(s, idle) /\ idle.queue = <<>> /\ idle.backoffPeriod = 0
        /\ idle.endAIFS = Off /\ idle.endDIFS = Off
        /\ idle.endBackoff = Off /\ idle.endSIFS = Off /\ idle.endTimeout = Off
    BY <1>2 DEF Still, StationRecord, SameRadio
  <2>2. Idle(s) = idle
    BY <1>2 DEF Idle
  <2> HIDE DEF idle
  <2>3. Sound(idle)
    BY <2>1 DEF Sound, Settled, Tuned, Off
  <2> QED
    BY <2>1, <2>2, <2>3
<1> QED
  BY <1>1, <1>2

LEMMA BackoffSound ==
    ASSUME NEW s, Still(s), s.backoffPeriod \in Periods, isMediumFree(s)
    PROVE  Sound(Backoff(s)) /\ SameRadio(s, Backoff(s))
<1> DEFINE b == Backoff(s)
<1>1. /\ b \in StationRecord /\ ~b.failed /\ b.state = "BACKOFF" /\ SameRadio(s, b)
      /\ b.endAIFS = Off /\ b.endDIFS = Off /\ b.endBackoff = s.backoffPeriod
      /\ b.endSIFS = Off /\ b.endTimeout = Off /\ b.backoffPeriod = s.backoffPeriod
  <2>1. s.backoffPeriod \in Time
    BY PeriodIsTime
  <2> QED
    BY <2>1 DEF Backoff, Still, StationRecord, SameRadio
<1> HIDE DEF b
<1>2. isMediumFree(b)
  BY <1>1 DEF isMediumFree, SameRadio
<1>3. Sound(b)
  <2>1. s.backoffPeriod \in Time /\ s.backoffPeriod # Off /\ s.backoffPeriod \in Nat
    BY PeriodIsTime DEF Periods
  <2> QED
    BY <1>1, <1>2, <2>1 DEF Sound, Settled, Tuned
<1> QED
  BY <1>1, <1>3 DEF b

(* A frame that is waited with for a SIFS, before it is answered.          *)
LEMMA WaitSIFSSound ==
    ASSUME NEW s, Still(s), s.radioState # "TRANSMIT",
           NEW f \in Frame, f.type # "ACK", f.type = "CTS" => s.queue # <<>>
    PROVE  Sound(WaitSIFS(s, f)) /\ SameRadio(s, WaitSIFS(s, f))
<1> DEFINE w == WaitSIFS(s, f)
           timed == [s EXCEPT !.state = "WAITSIFS", !.endSIFS = Sifs]
<1>1. /\ w \in StationRecord /\ ~w.failed /\ w.state = "WAITSIFS" /\ SameRadio(s, w)
      /\ w.endAIFS = Off /\ w.endDIFS = Off /\ w.endBackoff = Off /\ w.queue = s.queue
      /\ w.endSIFS # Off /\ w.endTimeout = Off /\ w.frameBeforeSIFS = f
  <2>1. /\ timed \in StationRecord /\ ~timed.failed /\ timed.state = "WAITSIFS"
        /\ SameRadio(s, timed) /\ timed.endAIFS = Off /\ timed.endDIFS = Off
        /\ timed.endBackoff = Off /\ timed.queue = s.queue
        /\ timed.endSIFS # Off /\ timed.endTimeout = Off
    <3>1. Sifs \in Time \ {Off}
      BY WaitsAreTimes, TimeAssumption DEF Off
    <3> QED
      <4> DEFINE begun == [s EXCEPT !.endSIFS = Sifs]
      <4>1. /\ begun \in StationRecord /\ ~begun.failed
            /\ SameRadio(s, begun) /\ begun.endAIFS = Off /\ begun.endDIFS = Off
            /\ begun.endBackoff = Off /\ begun.queue = s.queue
            /\ begun.endSIFS # Off /\ begun.endTimeout = Off
        <5>1. begun \in StationRecord /\ Sifs # Off
          BY <3>1, TimerStarted DEF Still
        <5> QED
          BY <5>1 DEF Still, StationRecord, SameRadio
      <4>2. timed = [begun EXCEPT !.state = "WAITSIFS"]
        BY DEF Still, StationRecord
      <4> HIDE DEF begun, timed
      <4> QED
        BY <4>1, <4>2 DEF StationRecord, SameRadio
  <2>2. w = [timed EXCEPT !.frameBeforeSIFS = f]
    BY DEF WaitSIFS
  <2> HIDE DEF timed, w
  <2> QED
    BY <2>1, <2>2 DEF StationRecord, SameRadio
<1> HIDE DEF w
<1>2. f # NoFrame
  BY DEF Frame, Data, Rts, Answer, NoFrame
<1>3. w.radioState # "TRANSMIT"
  BY <1>1 DEF SameRadio
<1>4. Settled(w)
  BY <1>1, <1>2, <1>3 DEF Settled, StationRecord, Periods, Off, Invalid
<1> QED
  BY <1>1, <1>4 DEF Sound, Tuned, w

(* A station that sends the frame at the head of its queue waits for its   *)
(* acknowledgement, or for its end, at least as long as it is in the air.  *)
Carries(s) ==
    s.down.type = "DATA" =>
        /\ s.state \in {"WAITACK", "WAITMULTICAST"}
        /\ Head(s.queue) = s.down
        /\ s.endTimeout >= DataTime

(* The station waits for what follows the frame it sends.                  *)
Sends(s, wait, f, state) == [scheduleTimeout(s, wait) EXCEPT !.state = state, !.down = f]

LEMMA SendSound ==
    ASSUME NEW s, Still(s), s.queue # <<>>, NEW wait \in Time \ {Off}, NEW f \in Frame,
           NEW state \in {"WAITACK", "WAITMULTICAST", "WAITCTS"}
    PROVE  /\ Sound(Sends(s, wait, f, state)) /\ Sends(s, wait, f, state).radioState = s.radioState
           /\ Sends(s, wait, f, state).state = state /\ Sends(s, wait, f, state).up = s.up
           /\ Sends(s, wait, f, state).queue = s.queue /\ Sends(s, wait, f, state).down = f
           /\ Sends(s, wait, f, state).endTimeout = wait
<1> DEFINE timed == [s EXCEPT !.endTimeout = wait]
           t == [timed EXCEPT !.state = state, !.down = f]
<1>1. scheduleTimeout(s, wait) = timed
  BY DEF scheduleTimeout, Still
<1>2. /\ timed \in StationRecord /\ ~timed.failed
      /\ timed.endAIFS = Off /\ timed.endDIFS = Off /\ timed.endBackoff = Off
      /\ timed.queue = s.queue /\ timed.endSIFS = Off /\ timed.endTimeout = wait
      /\ timed.radioState = s.radioState /\ timed.up = s.up
  BY DEF Still, StationRecord
<1> HIDE DEF timed
<1>3. /\ t \in StationRecord /\ ~t.failed /\ t.state = state
      /\ t.endAIFS = Off /\ t.endDIFS = Off /\ t.endBackoff = Off /\ t.queue = s.queue
      /\ t.endSIFS = Off /\ t.endTimeout = wait /\ t.radioState = s.radioState /\ t.up = s.up
      /\ t.down = f
  BY <1>2 DEF StationRecord
<1> HIDE DEF t
<1>4. Sound(t)
  BY <1>3 DEF Sound, Settled, Tuned, StationRecord, Periods, Off, Invalid
<1> QED
  BY <1>1, <1>3, <1>4 DEF t, Sends

LEMMA TransmitSound ==
    ASSUME NEW s, Still(s), s.queue # <<>>
    PROVE  /\ Sound(transmit(s)) /\ transmit(s).radioState = s.radioState
           /\ transmit(s).state # "WAITSIFS" /\ transmit(s).up = s.up /\ Carries(transmit(s))
           /\ Carries(sendDataFrame(s))
           /\ Sound(sendDataFrame(s)) /\ sendDataFrame(s).radioState = s.radioState
           /\ sendDataFrame(s).state # "WAITSIFS" /\ sendDataFrame(s).up = s.up
<1> DEFINE head == Head(s.queue)
<1>1. head \in Data
  BY QueueTail DEF Still, StationRecord
<1>2. head \in Frame /\ RTSFrame(head) \in Frame
  <2>1. 3 * Sifs + ControlTime + DataTime + ControlTime \in Reservation
    BY WaitsAreTimes
  <2> HIDE DEF head
  <2> QED
    BY <1>1, <2>1 DEF Frame, Data, Rts, RTSFrame
<1>3. /\ dataTimeout \in Time \ {Off} /\ ctsTimeout \in Time \ {Off} /\ DataTime \in Time \ {Off}
      /\ dataTimeout \in Nat /\ ctsTimeout \in Nat /\ DataTime \in Nat /\ dataTimeout >= DataTime
  <2>1. /\ DataTime \in Nat /\ Slot \in Nat /\ Sifs \in Nat /\ ControlTime \in Nat
        /\ PhyRxStart \in Nat /\ MaxPropagationDelay \in Nat
    BY TimeAssumption, LimitAssumption
  <2>2. dataTimeout \in Nat /\ ctsTimeout \in Nat /\ dataTimeout >= DataTime
    BY <2>1 DEF dataTimeout, ctsTimeout
  <2> QED
    BY <2>1, <2>2, WaitsAreTimes DEF Off
<1>4. cancelAIFSPeriod(s) = s
  BY DEF cancelAIFSPeriod, Still, StationRecord
<1>5. /\ Sound(sendDataFrame(s)) /\ sendDataFrame(s).radioState = s.radioState
      /\ sendDataFrame(s).state = "WAITACK" /\ sendDataFrame(s).up = s.up
      /\ Carries(sendDataFrame(s))
  <2>1. sendDataFrame(s) = Sends(s, dataTimeout, head, "WAITACK")
    BY DEF sendDataFrame, Sends
  <2>2. head = Head(s.queue)
    OBVIOUS
  <2> HIDE DEF head
  <2> DEFINE sent == Sends(s, dataTimeout, head, "WAITACK")
  <2>3. /\ Sound(sent) /\ sent.radioState = s.radioState /\ sent.state = "WAITACK"
        /\ sent.up = s.up /\ sent.queue = s.queue /\ sent.down = head
        /\ sent.endTimeout = dataTimeout
    BY <1>2, <1>3, SendSound
  <2> HIDE DEF sent
  <2>4. Carries(sent)
    BY <1>3, <2>2, <2>3 DEF Carries
  <2> QED
    BY <2>1, <2>3, <2>4 DEF sent
<1>6. /\ Sound(sendMulticastFrame(s)) /\ sendMulticastFrame(s).radioState = s.radioState
      /\ sendMulticastFrame(s).state = "WAITMULTICAST" /\ sendMulticastFrame(s).up = s.up
      /\ Carries(sendMulticastFrame(s))
  <2>1. sendMulticastFrame(s) = Sends(s, DataTime, head, "WAITMULTICAST")
    BY DEF sendMulticastFrame, Sends
  <2>2. head = Head(s.queue)
    OBVIOUS
  <2> HIDE DEF head
  <2> QED
    BY <1>2, <1>3, <2>1, <2>2, SendSound DEF Carries
<1>7. /\ Sound(sendRTSFrame(s)) /\ sendRTSFrame(s).radioState = s.radioState
      /\ sendRTSFrame(s).state = "WAITCTS" /\ sendRTSFrame(s).up = s.up
      /\ Carries(sendRTSFrame(s))
  <2>1. sendRTSFrame(s) = Sends(s, ctsTimeout, RTSFrame(head), "WAITCTS")
    BY DEF sendRTSFrame, Sends
  <2>2. RTSFrame(head).type = "RTS"
    BY DEF RTSFrame
  <2> HIDE DEF head
  <2> QED
    BY <1>2, <1>3, <2>1, <2>2, SendSound DEF Carries
<1> QED
  BY <1>4, <1>5, <1>6, <1>7 DEF transmit

-----------------------------------------------------------------------------
(* The medium changes.                                                     *)

(* The whole slots of a backoff that have passed are at most the backoff.  *)
LEMMA WholeSlots ==
    ASSUME NEW p \in Periods, NEW e \in Nat, e <= p
    PROVE  p - ((p - e) \div Slot) * Slot \in Periods
<1> DEFINE d == p - e
           k == d \div Slot
           r == d % Slot
<1>0. p \in Nat
  BY DEF Periods
<1>1. d \in Nat /\ Slot \in Nat \ {0}
  BY <1>0, TimeAssumption
<1>2. p - d = e
  BY <1>0
<1> HIDE DEF d
<1>3. k \in Nat /\ r \in Nat /\ d = Slot * k + r
  BY <1>1
<1> HIDE DEF k, r
<1>4. k * Slot \in Nat /\ k * Slot = Slot * k
  BY <1>1, <1>3, ProductNatural
<1> DEFINE t == k * Slot
<1>5. t \in Nat /\ d = t + r
  BY <1>3, <1>4
<1> HIDE DEF t
<1>6. p - t \in Nat /\ p - t <= p
  BY <1>0, <1>1, <1>2, <1>3, <1>5
<1>7. p - t \in Periods
  <2>1. (p - t) \div Slot \in Nat /\ (p - t) \div Slot <= p \div Slot
    BY <1>0, <1>6, QuotientGrows
  <2>2. p \div Slot \in Draws
    BY DEF Periods, InWindow
  <2>3. (p - t) \div Slot \in Draws
    BY <2>1, <2>2, LimitAssumption DEF Draws
  <2> QED
    BY <1>6, <2>3 DEF Periods, InWindow
<1> QED
  BY <1>7 DEF t, k, d

(* Settled is what is left of Sound when the medium has just changed.      *)
LEMMA MediumSound ==
    ASSUME NEW s, Settled(s)
    PROVE  /\ Sound(mediumStateChange(s)) /\ SameRadio(s, mediumStateChange(s))
           /\ s.state # "WAITSIFS" => mediumStateChange(s).state # "WAITSIFS"
<1> DEFINE t == mediumStateChange(s)
<1>1. CASE s.state = "DEFER" /\ isMediumFree(s)
  <2>1. Still(s)
    BY <1>1 DEF Settled, Still
  <2>2. t = WaitAIFS(s)
    BY <1>1 DEF mediumStateChange
  <2> QED
    BY <1>1, <2>1, <2>2, WaitAIFSSound
<1>2. CASE s.state = "WAITAIFS" /\ ~isMediumFree(s)
  <2> DEFINE still == cancelAIFSPeriod(s)
             back == still.backoff \/ s.endAIFS # Off \/ s.endDIFS # Off
  <2>1. Still(still) /\ SameRadio(s, still)
    BY <1>2, AIFSCancelled DEF Settled, Still, SameRadio, SameBut
  <2>2. back \in BOOLEAN
    OBVIOUS
  <2>3. t = [still EXCEPT !.state = "DEFER", !.backoff = back]
    BY <1>2, <2>1 DEF mediumStateChange, Busy, Still, StationRecord
  <2> HIDE DEF still, back, t
  <2>4. /\ Still(t) /\ SameRadio(s, t) /\ t.state = "DEFER"
    BY <2>1, <2>2, <2>3 DEF Still, StationRecord, SameRadio
  <2>5. ~isMediumFree(t)
    BY <1>2, <2>4 DEF isMediumFree, SameRadio
  <2>6. Sound(t)
    BY <2>4, <2>5 DEF Sound, Settled, Tuned, Still, StationRecord, Periods, Off, Invalid
  <2> QED
    BY <2>4, <2>6 DEF t
<1>3. CASE s.state = "BACKOFF" /\ ~isMediumFree(s)
  <2> DEFINE still == cancelAIFSPeriod(s)
             left == still.backoffPeriod - ((still.backoffPeriod - still.endBackoff) \div Slot) * Slot
             less == decreaseBackoffPeriod(still)
             none == cancelBackoffPeriod(less)
  <2>1. /\ still \in StationRecord /\ ~still.failed /\ SameRadio(s, still)
        /\ still.endAIFS = Off /\ still.endDIFS = Off /\ still.endSIFS = Off /\ still.endTimeout = Off
        /\ still.endBackoff \in Nat /\ still.backoffPeriod \in Periods /\ still.endBackoff <= still.backoffPeriod
    <3>1. /\ still \in StationRecord /\ ~still.failed /\ SameRadio(s, still)
          /\ still.endAIFS = Off /\ still.endDIFS = Off
          /\ still.endSIFS = s.endSIFS /\ still.endTimeout = s.endTimeout
          /\ still.endBackoff = s.endBackoff /\ still.backoffPeriod = s.backoffPeriod
      BY AIFSCancelled DEF Settled, SameRadio, SameBut
    <3>2. /\ s.endSIFS = Off /\ s.endTimeout = Off /\ s.endBackoff # Off
          /\ s.endBackoff <= s.backoffPeriod /\ s \in StationRecord
      BY <1>3 DEF Settled
    <3>3. s.endBackoff \in Nat
      BY <3>2, TimeIsNumber DEF StationRecord
    <3>4. s.backoffPeriod \in Periods
      BY <3>2, <3>3 DEF StationRecord, Invalid
    <3> QED
      BY <3>1, <3>2, <3>3, <3>4
  <2> HIDE DEF still
  <2>2. left \in Periods
    <3> DEFINE p == still.backoffPeriod  e == still.endBackoff
    <3>1. p \in Periods /\ e \in Nat /\ e <= p
      BY <2>1
    <3> HIDE DEF p, e
    <3> QED
      BY <3>1, WholeSlots DEF p, e
  <2>3. /\ less \in StationRecord /\ ~less.failed /\ SameRadio(s, less)
        /\ less.endAIFS = Off /\ less.endDIFS = Off /\ less.endSIFS = Off /\ less.endTimeout = Off
    <3> DEFINE shorter == [still EXCEPT !.backoffPeriod = left]
    <3>1. CASE still.backoff
      <4>1. still.endBackoff # Off
        BY <2>1 DEF Off
      <4>2. less = assert(shorter, left >= 0)
        BY <3>1, <4>1 DEF decreaseBackoffPeriod
      <4> HIDE DEF left
      <4>3. /\ shorter \in StationRecord /\ ~shorter.failed /\ SameRadio(s, shorter)
            /\ shorter.endAIFS = Off /\ shorter.endDIFS = Off
            /\ shorter.endSIFS = Off /\ shorter.endTimeout = Off
        BY <2>1, <2>2 DEF StationRecord, SameRadio
      <4> HIDE DEF shorter
      <4>4. left >= 0
        BY <2>2 DEF Periods
      <4>5. (left >= 0) = TRUE
        BY <4>4
      <4>6. assert(shorter, TRUE) = shorter
        BY <4>3, AssertHolds
      <4> HIDE DEF less
      <4> QED
        BY <4>2, <4>3, <4>5, <4>6
    <3>2. CASE ~still.backoff
      BY <2>1, <3>2 DEF decreaseBackoffPeriod
    <3> QED
      BY <3>1, <3>2
  <2> HIDE DEF less
  <2>4. Still(none) /\ SameRadio(s, none)
    BY <2>3 DEF cancelBackoffPeriod, Still, StationRecord, SameRadio, Time
  <2>5. t = [none EXCEPT !.state = "DEFER"]
    BY <1>3 DEF mediumStateChange, none, less, still
  <2> HIDE DEF none, t
  <2>6. Still(t) /\ SameRadio(s, t) /\ t.state = "DEFER"
    BY <2>4, <2>5 DEF Still, StationRecord, SameRadio
  <2>7. ~isMediumFree(t)
    BY <1>3, <2>6 DEF isMediumFree, SameRadio
  <2>8. Sound(t)
    BY <2>6, <2>7 DEF Sound, Settled, Tuned, Still, StationRecord, Periods, Off, Invalid
  <2> QED
    BY <2>6, <2>8 DEF t
<1>4. CASE /\ ~(s.state = "DEFER" /\ isMediumFree(s))
           /\ ~(s.state = "WAITAIFS" /\ ~isMediumFree(s))
           /\ ~(s.state = "BACKOFF" /\ ~isMediumFree(s))
  <2>1. t = s
    BY <1>4 DEF mediumStateChange
  <2>2. Tuned(s)
    BY <1>4 DEF Tuned
  <2> QED
    BY <2>1, <2>2 DEF Sound, SameRadio
<1> QED
  BY <1>1, <1>2, <1>3, <1>4

LEMMA RadioSound ==
    ASSUME NEW s, Settled(s), NEW new \in {"IDLE", "RECV", "TRANSMIT"},
           new = "TRANSMIT" => s.state # "WAITSIFS"
    PROVE  /\ Sound(setRadioState(s, new)) /\ setRadioState(s, new).radioState = new
           /\ setRadioState(s, new).down = s.down /\ setRadioState(s, new).up = s.up
           /\ s.state # "WAITSIFS" => setRadioState(s, new).state # "WAITSIFS"
<1> DEFINE changed == [s EXCEPT !.radioState = new]
<1>1. /\ Settled(changed) /\ changed.radioState = new /\ changed.state = s.state
      /\ changed.down = s.down /\ changed.up = s.up
  BY DEF Settled, StationRecord
<1> HIDE DEF changed
<1>2. setRadioState(s, new) = mediumStateChange(changed)
  BY DEF setRadioState, changed
<1> QED
  BY <1>1, <1>2, MediumSound DEF SameRadio

-----------------------------------------------------------------------------
(* A reception ends.                                                       *)

(* The operators below do not touch the radio or send a frame.             *)
Listens(s, t) == t.radioState = s.radioState /\ t.down = s.down

LEMMA HandUpStill ==
    ASSUME NEW s, Still(s), NEW f \in Data
    PROVE  /\ Still(sendUp(s, f)) /\ Listens(s, sendUp(s, f))
           /\ Still(promiscousFrame(s, f)) /\ Listens(s, promiscousFrame(s, f))
           /\ sendUp(s, f).queue = s.queue /\ promiscousFrame(s, f).queue = s.queue
<1> DEFINE filter == [s.asfTuplesList EXCEPT ![f.ta] = f.seq]
           noted == [s EXCEPT !.asfTuplesList = filter]
<1>1. f.ta \in Node /\ f.seq \in Int /\ f \in Frame \cup {NoFrame}
  BY DEF Data, Frame
<1>2. s.asfTuplesList \in [Node -> Int]
  BY DEF Still, StationRecord
<1>3. filter \in [Node -> Int]
  BY <1>1, <1>2
<1> HIDE DEF filter
<1>4. Still(noted) /\ Listens(s, noted) /\ noted.queue = s.queue
  BY <1>3 DEF Still, StationRecord, Listens
<1>5. promiscousFrame(s, f) = noted
  BY DEF promiscousFrame, filter, Still, StationRecord
<1>6. sendUp(s, f) = IF isDuplicated(s, f) THEN s ELSE [noted EXCEPT !.up = f]
  BY DEF sendUp, filter, Still, StationRecord
<1> HIDE DEF noted
<1>7. LET t == [noted EXCEPT !.up = f] IN Still(t) /\ Listens(noted, t) /\ t.queue = noted.queue
  BY <1>1, <1>4, UpSet DEF Still, Listens, SameBut
<1> QED
  BY <1>4, <1>5, <1>6, <1>7 DEF Listens

LEMMA FinishedSound ==
    ASSUME NEW s, Still(s)
    PROVE  /\ Sound(Idle(finishReception(s))) /\ Listens(s, Idle(finishReception(s)))
           /\ Idle(finishReception(s)).state # "WAITSIFS"
<1> DEFINE t == finishReception(s)
<1>1. Still(t) /\ SameFrames(s, t) /\ (t.queue = <<>> => t.backoffPeriod = 0)
  BY FinishReceptionStill
<1> HIDE DEF t
<1>2. Sound(Idle(t)) /\ SameRadio(t, Idle(t)) /\ Idle(t).state # "WAITSIFS"
  BY <1>1, IdleSound
<1> QED
  BY <1>1, <1>2 DEF SameFrames, SameRadio, Listens, t

LEMMA ReceiveSound ==
    ASSUME NEW s, Still(s), s.radioState # "TRANSMIT", NEW n \in Node, NEW f \in Frame,
           NEW failed \in BOOLEAN
    PROVE  Sound(Receive(s, n, f, failed)) /\ Listens(s, Receive(s, n, f, failed))
<1>1. f.type = "DATA" => f \in Data
  BY DEF Frame, Data, Rts, Answer
<1>2. CASE failed
  BY <1>2, FinishedSound DEF Receive
<1>3. CASE ~failed /\ f.type = "DATA" /\ f.ra = Multicast
  <2>1. Receive(s, n, f, failed) = Idle(finishReception(sendUp(s, f)))
    BY <1>3, StationAssumption DEF Receive
  <2>2. Still(sendUp(s, f)) /\ Listens(s, sendUp(s, f))
    BY <1>1, <1>3, HandUpStill
  <2> QED
    BY <2>1, <2>2, FinishedSound DEF Listens
<1>4. CASE ~failed /\ f.type = "DATA" /\ f.ra = n
  <2>1. Receive(s, n, f, failed) = WaitSIFS(sendUp(s, f), f)
    BY <1>4, StationAssumption DEF Receive
  <2>2. Still(sendUp(s, f)) /\ Listens(s, sendUp(s, f))
    BY <1>1, <1>4, HandUpStill
  <2> QED
    BY <1>4, <2>1, <2>2, WaitSIFSSound DEF Listens, SameRadio
<1>5. CASE ~failed /\ f.type = "RTS" /\ f.ra = n
  <2>1. Receive(s, n, f, failed) = WaitSIFS(s, f)
    BY <1>5 DEF Receive
  <2> QED
    BY <1>5, <2>1, WaitSIFSSound DEF Listens, SameRadio
<1>6. CASE /\ ~failed /\ ~(f.type = "RTS" /\ f.ra = n)
           /\ ~(f.type = "DATA" /\ f.ra \in {Multicast, n})
  <2> DEFINE heard == IF f.type = "DATA" THEN promiscousFrame(s, f) ELSE s
  <2>1. Receive(s, n, f, failed) = IF s.backoff THEN Defer(s) ELSE Idle(finishReception(heard))
    BY <1>6 DEF Receive
  <2>2. Still(heard) /\ Listens(s, heard)
    BY <1>1, HandUpStill DEF Listens
  <2> HIDE DEF heard
  <2>3. Sound(Defer(s)) /\ Listens(s, Defer(s))
    BY DeferSound DEF Listens, SameRadio
  <2>4. Sound(Idle(finishReception(heard))) /\ Listens(s, Idle(finishReception(heard)))
    BY <2>2, FinishedSound DEF Listens
  <2> QED
    BY <2>1, <2>3, <2>4
<1> QED
  BY <1>2, <1>3, <1>4, <1>5, <1>6

LEMMA AttemptFailedSound ==
    ASSUME NEW s, Still(s), s.queue # <<>>, NEW c \in Nat
    PROVE  /\ Sound(attemptFailed(s, c)) /\ Listens(s, attemptFailed(s, c))
           /\ attemptFailed(s, c).state # "WAITSIFS"
<1> DEFINE t == retryOrGiveUp(s, c)
<1>1. Still(t) /\ SameFrames(s, t) /\ (lastTry(s) => t.backoffPeriod = 0)
  BY RetryStill
<1>2. attemptFailed(s, c) = IF lastTry(s) THEN Idle(t) ELSE Defer(t)
  BY DEF attemptFailed
<1> HIDE DEF t
<1>3. CASE lastTry(s)
  BY <1>1, <1>2, <1>3, IdleSound DEF Listens, SameFrames, SameRadio
<1>4. CASE ~lastTry(s)
  BY <1>1, <1>2, <1>4, DeferSound DEF Listens, SameFrames, SameRadio
<1> QED
  BY <1>3, <1>4

(* The frame is done; the next one starts with a new backoff.              *)
LEMMA FinishedTransmissionSound ==
    ASSUME NEW s, Still(s), s.queue # <<>>
    PROVE  LET t == Defer(resetCurrentBackOff(finishCurrentTransmission(s))) IN
           Sound(t) /\ Listens(s, t) /\ t.state # "WAITSIFS"
<1> DEFINE finished == finishCurrentTransmission(s)
           reset == resetCurrentBackOff(finished)
<1>1. Still(finished) /\ SameFrames(s, finished)
  BY PopStill
<1> HIDE DEF finished
<1>2. Still(reset) /\ SameFrames(finished, reset)
  BY <1>1, BackOffStill
<1> HIDE DEF reset
<1>3. Sound(Defer(reset)) /\ SameRadio(reset, Defer(reset)) /\ Defer(reset).state # "WAITSIFS"
  BY <1>2, DeferSound
<1>4. Listens(s, Defer(reset))
  BY <1>1, <1>2, <1>3 DEF Listens, SameFrames, SameRadio
<1> QED
  BY <1>3, <1>4 DEF reset, finished

(* The network allocation vector takes the reservation of the frame.       *)
LEMMA NotedSettled ==
    ASSUME NEW s, Settled(s), NEW n \in Node, NEW f \in Frame, NEW failed \in BOOLEAN
    PROVE  LET t == scheduleReservePeriod([s EXCEPT !.lastReceiveFailed = failed], n, f) IN
           /\ Settled(t) /\ Listens(s, t) /\ t.state = s.state /\ t.queue = s.queue
           /\ t.endReserve = Off => s.endReserve = Off
<1> DEFINE heard == [s EXCEPT !.lastReceiveFailed = failed]
           vector == [heard EXCEPT !.endReserve = f.duration]
<1>1. Settled(heard) /\ Listens(s, heard) /\ heard.state = s.state /\ heard.queue = s.queue
      /\ heard.endReserve = s.endReserve
  BY DEF Settled, StationRecord, Listens
<1>2. f.duration \in Int /\ f.duration <= Longest
  BY DEF Reservation, Frame, Data, Rts, Answer
<1> HIDE DEF heard
<1>3. ASSUME f.duration > 0
      PROVE  /\ Settled(vector) /\ Listens(heard, vector) /\ vector.state = heard.state
             /\ vector.queue = heard.queue /\ vector.endReserve # Off
  <2>1. f.duration \in Time /\ f.duration # Off
    BY <1>2, <1>3, WaitsAreTimes DEF Off
  <2>2. vector \in StationRecord
    BY <1>1, <2>1 DEF Settled, StationRecord
  <2>3. heard \in StationRecord
    BY <1>1 DEF Settled
  <2> DEFINE d == f.duration
  <2>4. /\ vector.state = heard.state /\ vector.radioState = heard.radioState
        /\ vector.queue = heard.queue /\ vector.backoffPeriod = heard.backoffPeriod
        /\ vector.frameBeforeSIFS = heard.frameBeforeSIFS
        /\ vector.endAIFS = heard.endAIFS /\ vector.endDIFS = heard.endDIFS
        /\ vector.endBackoff = heard.endBackoff /\ vector.endSIFS = heard.endSIFS
        /\ vector.endTimeout = heard.endTimeout /\ vector.endReserve = d
        /\ vector.down = heard.down /\ vector.failed = heard.failed
    BY <2>3 DEF StationRecord
  <2> HIDE DEF vector, d
  <2>5. Settled(vector)
    BY <1>1, <2>2, <2>4 DEF Settled
  <2> QED
    BY <2>1, <2>4, <2>5 DEF d, Listens
<1>4. scheduleReservePeriod(heard, n, f) =
         IF f.ra # n /\ f.duration > 0 /\ (heard.endReserve = Off \/ heard.endReserve <= f.duration)
         THEN vector ELSE heard
  BY DEF scheduleReservePeriod
<1> HIDE DEF vector
<1> QED
  BY <1>1, <1>3, <1>4 DEF heard, Listens

LEMMA LowerSound ==
    ASSUME NEW s, Sound(s), s.radioState # "TRANSMIT", NEW n \in Node, NEW f \in Frame,
           NEW failed \in BOOLEAN, NEW c \in Nat
    PROVE  /\ Sound(handleLowerMsg(s, n, f, failed, c))
           /\ Listens(s, handleLowerMsg(s, n, f, failed, c))
<1> DEFINE noted == scheduleReservePeriod([s EXCEPT !.lastReceiveFailed = failed], n, f)
           got == cancelTimeoutPeriod(noted)
           quieter == cancelAIFSPeriod(noted)
           reserved == s.radioState = "IDLE" /\ s.endReserve = Off /\ noted.endReserve # Off
           ack == f.type = "ACK" /\ f.ra = n
           cts == f.type = "CTS" /\ f.ra = n
           handled ==
             CASE s.state \in {"IDLE", "DEFER"} -> Receive(noted, n, f, failed)
               [] s.state = "WAITAIFS" -> Receive(quieter, n, f, failed)
               [] s.state \in {"WAITACK", "WAITCTS"} /\ failed -> attemptFailed(got, c)
               [] s.state = "WAITACK" /\ ~failed /\ f.type = "ACK" /\ f.ra = n ->
                     acknowledged(noted)
               [] s.state = "WAITACK" /\ ~failed /\ ~(f.type = "ACK" /\ f.ra = n) ->
                     Receive(retryOrGiveUp(got, c), n, f, failed)
               [] s.state = "WAITCTS" /\ ~failed /\ f.type = "CTS" /\ f.ra = n ->
                     WaitSIFS(got, f)
               [] OTHER -> noted
<1>1. handleLowerMsg(s, n, f, failed, c) = IF reserved THEN mediumStateChange(handled) ELSE handled
  BY DEF handleLowerMsg
<1>2. /\ Settled(noted) /\ Listens(s, noted) /\ noted.state = s.state /\ noted.queue = s.queue
      /\ noted.endReserve = Off => s.endReserve = Off
  BY NotedSettled DEF Sound
<1> HIDE DEF noted
<1>3. Settled(handled) /\ Listens(s, handled) /\ (reserved \/ Tuned(handled))
  <2>1. CASE s.state \in {"IDLE", "DEFER"}
    <3>1. handled = Receive(noted, n, f, failed)
      BY <2>1
    <3>2. Still(noted)
      BY <1>2, <2>1 DEF Settled, Still
    <3> HIDE DEF handled
    <3> QED
      BY <1>2, <3>1, <3>2, ReceiveSound DEF Sound, Listens
  <2>2. CASE s.state = "WAITAIFS"
    <3>1. handled = Receive(quieter, n, f, failed)
      BY <2>2
    <3>2. Still(quieter) /\ Listens(noted, quieter)
      BY <1>2, <2>2, AIFSCancelled DEF Settled, Still, Listens, SameBut
    <3> HIDE DEF handled, quieter
    <3> QED
      BY <1>2, <3>1, <3>2, ReceiveSound DEF Sound, Listens
  <2>3. ASSUME s.state \in {"WAITACK", "WAITCTS"}
        PROVE  Still(got) /\ Listens(noted, got) /\ got.queue # <<>>
    BY <1>2, <2>3, TimeoutCancelled DEF Settled, Still, Listens, SameBut
  <2>4. CASE s.state \in {"WAITACK", "WAITCTS"} /\ failed
    <3>1. handled = attemptFailed(got, c)
      BY <2>4
    <3> HIDE DEF handled, got
    <3> QED
      BY <1>2, <2>3, <2>4, <3>1, AttemptFailedSound DEF Sound, Listens
  <2>5. CASE s.state = "WAITACK" /\ ~failed /\ ack
    <3>1. handled = Defer(resetCurrentBackOff(finishCurrentTransmission(got)))
      BY <2>5 DEF acknowledged
    <3> HIDE DEF handled, got
    <3> QED
      BY <1>2, <2>3, <2>5, <3>1, FinishedTransmissionSound DEF Sound, Listens
  <2>6. CASE s.state = "WAITACK" /\ ~failed /\ ~ack
    <3> DEFINE next == retryOrGiveUp(got, c)
    <3>1. handled = Receive(next, n, f, failed)
      BY <2>6
    <3> HIDE DEF handled, got
    <3>2. Still(next) /\ SameFrames(got, next)
      BY <2>3, <2>6, RetryStill
    <3> HIDE DEF next
    <3>3. next.radioState # "TRANSMIT" /\ Listens(s, next)
      BY <1>2, <2>3, <2>6, <3>2 DEF SameFrames, Listens
    <3> QED
      BY <3>1, <3>2, <3>3, ReceiveSound DEF Sound, Listens
  <2>7. CASE s.state = "WAITCTS" /\ ~failed /\ cts
    <3>1. handled = WaitSIFS(got, f)
      BY <2>7
    <3> HIDE DEF handled, got
    <3> QED
      BY <1>2, <2>3, <2>7, <3>1, WaitSIFSSound DEF Sound, SameRadio, Listens
  <2>8. CASE /\ s.state \notin {"IDLE", "DEFER", "WAITAIFS", "WAITACK"}
             /\ ~(s.state = "WAITCTS" /\ (failed \/ cts))
    <3>1. handled = noted
      BY <2>8
    <3>2. reserved \/ Tuned(noted)
      BY <1>2 DEF Sound, Tuned, isMediumFree, Listens
    <3> HIDE DEF handled
    <3> QED
      BY <1>2, <3>1, <3>2
  <2> QED
    BY <2>1, <2>2, <2>4, <2>5, <2>6, <2>7, <2>8
<1> HIDE DEF handled
<1>4. CASE reserved
  BY <1>1, <1>3, <1>4, MediumSound DEF Listens, SameRadio
<1>5. CASE ~reserved
  BY <1>1, <1>3, <1>5 DEF Sound
<1> QED
  BY <1>4, <1>5

-----------------------------------------------------------------------------
(* A frame from above, and the timers.                                     *)

LEMMA UpperSound ==
    ASSUME NEW s, Sound(s), s.down = NoFrame, Len(s.queue) < 2,
           NEW n \in Node, NEW to \in Node \cup {Multicast}
    PROVE  Sound(handleUpperMsg(s, n, to)) /\ Listens(s, handleUpperMsg(s, n, to))
<1> DEFINE frame == DataFrame(n, to, s.sequenceNumber)
           queue == Append(s.queue, frame)
           number == (s.sequenceNumber + 1) % 4096
           queued == [s EXCEPT !.queue = queue, !.sequenceNumber = number]
           first == [queued EXCEPT !.backoffPeriod = Invalid]
           joined == [queued EXCEPT !.endAIFS = s.endDIFS, !.endDIFS = Off]
<1>1. s \in StationRecord /\ ~s.failed
  BY DEF Sound, Settled
<1>2. s.sequenceNumber \in Nat /\ s.queue \in Seq(Data)
  BY <1>1 DEF StationRecord, Queues
<1>3. frame \in Data
  BY <1>2, WaitsAreTimes DEF DataFrame, Data
<1>4. number \in Nat
  BY <1>2
<1> HIDE DEF frame, number
<1>5. queue \in Queues /\ queue # <<>>
  BY <1>2, <1>3 DEF Queues
<1> HIDE DEF queue
<1>6. /\ queued \in StationRecord /\ ~queued.failed /\ queued.state = s.state
      /\ queued.radioState = s.radioState /\ queued.queue = queue
      /\ queued.backoffPeriod = s.backoffPeriod /\ queued.frameBeforeSIFS = s.frameBeforeSIFS
      /\ queued.endAIFS = s.endAIFS /\ queued.endDIFS = s.endDIFS
      /\ queued.endBackoff = s.endBackoff /\ queued.endSIFS = s.endSIFS
      /\ queued.endTimeout = s.endTimeout /\ queued.endReserve = s.endReserve
      /\ queued.down = s.down
  <2> DEFINE appended == [s EXCEPT !.queue = queue]
  <2>1. queued = [appended EXCEPT !.sequenceNumber = number]
    OBVIOUS
  <2>2. appended \in StationRecord /\ appended.queue = queue /\ SameBut(s, appended, {"queue"})
    BY <1>1, <1>5, QueueSet
  <2> HIDE DEF appended, queued
  <2>3. queued \in StationRecord /\ SameBut(appended, queued, {"sequenceNumber"})
    BY <1>4, <2>1, <2>2, SequenceNumberSet
  <2> QED
    BY <1>1, <2>2, <2>3 DEF SameBut
<1>7. handleUpperMsg(s, n, to) =
         CASE s.state = "IDLE" ->
                Defer([assert(queued, s.backoffPeriod \in {Invalid, 0}) EXCEPT !.backoffPeriod = Invalid])
           [] s.state = "WAITAIFS" /\ s.endDIFS # Off -> joined
           [] OTHER -> queued
  <2>1. queued = [s EXCEPT !.queue = Append(@, frame), !.sequenceNumber = (@ + 1) % 4096]
    BY DEF queue, number
  <2> HIDE DEF queued
  <2> QED
    BY <2>1 DEF handleUpperMsg, frame
<1> HIDE DEF queued
<1>8. CASE s.state = "IDLE"
  <2>1. s.backoffPeriod \in {Invalid, 0}
    BY <1>8 DEF Sound, Settled
  <2>2. (s.backoffPeriod \in {Invalid, 0}) = TRUE
    BY <2>1
  <2>3. assert(queued, TRUE) = queued
    BY <1>6, AssertHolds
  <2>4. handleUpperMsg(s, n, to) = Defer(first)
    BY <1>7, <1>8, <2>2, <2>3
  <2>5. first \in StationRecord /\ SameBut(queued, first, {"backoffPeriod"})
    BY <1>6, BackoffPeriodSet
  <2> HIDE DEF first
  <2>6. Still(first) /\ first.radioState = s.radioState /\ first.down = s.down
    BY <1>6, <1>8, <2>5 DEF Still, Sound, Settled, SameBut
  <2>7. Sound(Defer(first)) /\ SameRadio(first, Defer(first))
    BY <2>6, DeferSound
  <2> QED
    BY <2>4, <2>6, <2>7 DEF Listens, SameRadio
<1>9. CASE s.state = "WAITAIFS" /\ s.endDIFS # Off
  <2>1. handleUpperMsg(s, n, to) = joined
    BY <1>7, <1>9
  <2> DEFINE half == [queued EXCEPT !.endAIFS = s.endDIFS]
  <2>2. s.endDIFS \in Time
    BY <1>1 DEF StationRecord
  <2>3. half \in StationRecord /\ half.endAIFS = s.endDIFS /\ SameBut(queued, half, {"endAIFS"})
    BY <1>6, <2>2, EndAIFSSet
  <2>4. joined = [half EXCEPT !.endDIFS = Off]
    OBVIOUS
  <2> HIDE DEF half, joined
  <2>5. joined \in StationRecord /\ joined.endDIFS = Off /\ SameBut(half, joined, {"endDIFS"})
    BY <2>3, <2>4, EndDIFSSet, OffIsTime
  <2>6. joined.endAIFS = s.endDIFS /\ SameBut(queued, joined, {"endAIFS", "endDIFS"})
    BY <2>3, <2>5 DEF SameBut
  <2>7. Settled(joined) /\ Tuned(joined)
    BY <1>5, <1>6, <1>9, <2>5, <2>6 DEF Sound, Settled, Tuned, isMediumFree, SameBut
  <2> QED
    BY <1>6, <2>1, <2>6, <2>7 DEF Listens, Sound, SameBut
<1>10. CASE s.state # "IDLE" /\ ~(s.state = "WAITAIFS" /\ s.endDIFS # Off)
  <2>1. handleUpperMsg(s, n, to) = queued
    BY <1>7, <1>10
  <2>2. Settled(queued) /\ Tuned(queued)
    BY <1>5, <1>6, <1>10 DEF Sound, Settled, Tuned, isMediumFree
  <2> QED
    BY <1>6, <2>1, <2>2 DEF Listens, Sound
<1> QED
  BY <1>8, <1>9, <1>10

(* What a handler leaves behind: a station that sends does not wait for a  *)
(* SIFS and its radio is not sending.                                      *)
Handled(s, t) ==
    /\ Sound(t) /\ t.radioState = s.radioState /\ Carries(t)
    /\ t.down # NoFrame => t.state # "WAITSIFS" /\ t.radioState # "TRANSMIT"

LEMMA NoFrameCarried ==
    ASSUME NEW s, s.down = NoFrame
    PROVE  Carries(s)
BY DEF Carries, NoFrame

LEMMA AIFSSound ==
    ASSUME NEW s, Sound(s), s.down = NoFrame, s.endAIFS # Off, NEW c \in Nat
    PROVE  Handled(s, AIFSOver(s, c))
<1> DEFINE fired == [s EXCEPT !.endAIFS = Off]
           drawn == generateIfInvalid(fired, c)
<1>1. /\ s \in StationRecord /\ ~s.failed /\ isMediumFree(s) /\ s.queue # <<>>
      /\ s.endDIFS = Off /\ s.endBackoff = Off /\ s.endSIFS = Off /\ s.endTimeout = Off
  BY DEF Sound, Settled, Tuned
<1>2. /\ Still(fired) /\ fired.queue = s.queue /\ fired.down = s.down
      /\ fired.radioState = s.radioState /\ fired.endReserve = s.endReserve
  BY <1>1, EndAIFSSet, OffIsTime DEF Still, SameBut
<1>3. AIFSOver(s, c) = IF s.backoff THEN Backoff(drawn) ELSE transmit(fired)
  <2>1. assert(fired, TRUE) = fired
    BY <1>2, AssertHolds DEF Still
  <2>2. (s.queue # <<>>) = TRUE
    BY <1>1
  <2> HIDE DEF fired
  <2> QED
    BY <2>1, <2>2 DEF AIFSOver, fired
<1> HIDE DEF fired
<1>4. /\ Still(drawn) /\ SameFrames(fired, drawn) /\ drawn.backoffPeriod \in Periods
  BY <1>2, GenerateIfInvalidStill
<1>5. isMediumFree(drawn)
  BY <1>1, <1>2, <1>4 DEF isMediumFree, SameFrames
<1> HIDE DEF drawn
<1>6. Handled(s, Backoff(drawn))
  BY <1>2, <1>4, <1>5, BackoffSound, NoFrameCarried DEF Handled, SameRadio, SameFrames
<1>7. Handled(s, transmit(fired))
  BY <1>1, <1>2, TransmitSound DEF Handled, isMediumFree
<1> QED
  BY <1>3, <1>6, <1>7

LEMMA DIFSSound ==
    ASSUME NEW s, Sound(s), s.down = NoFrame, s.endDIFS # Off, NEW c \in Nat
    PROVE  Handled(s, DIFSOver(s, c))
<1> DEFINE fired == [s EXCEPT !.endDIFS = Off]
           drawn == generateIfInvalid(fired, c)
<1>1. /\ s \in StationRecord /\ ~s.failed /\ isMediumFree(s)
      /\ s.endAIFS = Off /\ s.endBackoff = Off /\ s.endSIFS = Off /\ s.endTimeout = Off
  BY DEF Sound, Settled, Tuned
<1>2. /\ Still(fired) /\ fired.down = s.down
      /\ fired.radioState = s.radioState /\ fired.endReserve = s.endReserve
  BY <1>1, EndDIFSSet, OffIsTime DEF Still, SameBut
<1>3. DIFSOver(s, c) = Backoff(drawn)
  BY DEF DIFSOver
<1> HIDE DEF fired
<1>4. /\ Still(drawn) /\ SameFrames(fired, drawn) /\ drawn.backoffPeriod \in Periods
  BY <1>2, GenerateIfInvalidStill
<1>5. isMediumFree(drawn)
  BY <1>1, <1>2, <1>4 DEF isMediumFree, SameFrames
<1> HIDE DEF drawn
<1> QED
  BY <1>2, <1>3, <1>4, <1>5, BackoffSound, NoFrameCarried DEF Handled, SameRadio, SameFrames

LEMMA BackoffOverSound ==
    ASSUME NEW s, Sound(s), s.down = NoFrame, s.endBackoff # Off
    PROVE  Handled(s, BackoffOver(s))
<1> DEFINE fired == [s EXCEPT !.endBackoff = Off]
           reset == resetStateVariables(fired)
<1>1. /\ s \in StationRecord /\ ~s.failed /\ isMediumFree(s)
      /\ s.endAIFS = Off /\ s.endDIFS = Off /\ s.endSIFS = Off /\ s.endTimeout = Off
  BY DEF Sound, Settled, Tuned
<1>2. /\ Still(fired) /\ fired.down = s.down /\ fired.queue = s.queue
      /\ fired.radioState = s.radioState /\ fired.endReserve = s.endReserve
  BY <1>1, EndBackoffSet, OffIsTime DEF Still, SameBut
<1>3. BackoffOver(s) = IF s.queue = <<>> THEN Idle(reset) ELSE transmit(fired)
  BY DEF BackoffOver
<1> HIDE DEF fired
<1>4. Still(reset) /\ SameFrames(fired, reset) /\ reset.backoffPeriod = 0
  BY <1>2, ResetStill
<1> HIDE DEF reset
<1>5. Handled(s, Idle(reset))
  BY <1>2, <1>4, IdleSound, NoFrameCarried DEF Handled, SameRadio, SameFrames
<1>6. s.queue # <<>> => Handled(s, transmit(fired))
  BY <1>1, <1>2, TransmitSound DEF Handled, isMediumFree
<1> QED
  BY <1>3, <1>5, <1>6

LEMMA SIFSSound ==
    ASSUME NEW s, Sound(s), s.down = NoFrame, s.endSIFS # Off
    PROVE  Handled(s, SIFSOver(s))
<1> DEFINE before == s.frameBeforeSIFS
           ended == [s EXCEPT !.endSIFS = Off]
           fired == [s EXCEPT !.endSIFS = Off, !.frameBeforeSIFS = NoFrame]
<1>1. /\ s \in StationRecord /\ ~s.failed /\ s.radioState # "TRANSMIT"
      /\ before \in Frame /\ before.type # "ACK"
      /\ before.type = "CTS" => s.queue # <<>>
      /\ s.endAIFS = Off /\ s.endDIFS = Off /\ s.endBackoff = Off /\ s.endTimeout = Off
  BY DEF Sound, Settled, StationRecord
<1> HIDE DEF before
<1>2. /\ Still(fired) /\ fired.down = s.down /\ fired.queue = s.queue
      /\ fired.radioState = s.radioState
  <2>1. /\ Still(ended) /\ ended.down = s.down /\ ended.queue = s.queue
        /\ ended.radioState = s.radioState
    BY <1>1, EndSIFSSet, OffIsTime DEF Still, SameBut
  <2>2. fired = [ended EXCEPT !.frameBeforeSIFS = NoFrame]
    OBVIOUS
  <2> HIDE DEF ended, fired
  <2> QED
    BY <2>1, <2>2, FrameBeforeSIFSSet DEF Still, SameBut
<1> DEFINE answer(f) == Idle(finishReception([fired EXCEPT !.down = f]))
<1>3. /\ before.type = "RTS" => SIFSOver(s) = answer(CTSFrame(before))
      /\ before.type = "CTS" => SIFSOver(s) = sendDataFrame(fired)
      /\ before.type = "DATA" => SIFSOver(s) = answer(ACKFrame(before))
  BY DEF SIFSOver, before
<1> HIDE DEF fired
<1>4. ASSUME NEW f \in Answer
      PROVE  Handled(s, answer(f))
  <2> DEFINE sending == [fired EXCEPT !.down = f]
  <2>1. Still(sending) /\ sending.radioState = s.radioState /\ sending.down = f
    BY <1>2, DownSet DEF Still, SameBut, Frame
  <2> HIDE DEF sending
  <2>2. /\ Sound(Idle(finishReception(sending))) /\ Listens(sending, Idle(finishReception(sending)))
        /\ Idle(finishReception(sending)).state # "WAITSIFS"
    BY <2>1, FinishedSound
  <2> QED
    BY <1>1, <2>1, <2>2 DEF Handled, Listens, sending, Carries, Answer
<1>5. CASE before.type = "RTS"
  <2>1. before.ta \in Node /\ before.duration \in Reservation
    BY <1>1, <1>5 DEF Frame, Data, Rts, Answer
  <2>2. before.duration - Sifs - ControlTime \in Reservation
    BY <2>1, WaitsAreTimes, TimeAssumption DEF Reservation
  <2>3. CTSFrame(before) \in Answer
    BY <2>1, <2>2 DEF CTSFrame, Answer
  <2> HIDE DEF answer
  <2> QED
    BY <1>3, <1>4, <1>5, <2>3
<1>6. CASE before.type = "CTS"
  BY <1>1, <1>2, <1>3, <1>6, TransmitSound DEF Handled
<1>7. CASE before.type = "DATA"
  <2>1. before.ta \in Node
    BY <1>1, <1>7 DEF Frame, Data, Rts, Answer
  <2>2. ACKFrame(before) \in Answer
    BY <2>1, WaitsAreTimes DEF ACKFrame, Answer
  <2> HIDE DEF answer
  <2> QED
    BY <1>3, <1>4, <1>7, <2>2
<1>8. before.type \in {"RTS", "CTS", "DATA"}
  BY <1>1 DEF Frame, Data, Rts, Answer
<1> QED
  BY <1>5, <1>6, <1>7, <1>8

LEMMA TimeoutSound ==
    ASSUME NEW s, Sound(s), s.down = NoFrame, s.endTimeout # Off, NEW c \in Nat
    PROVE  Handled(s, TimeoutOver(s, c))
<1> DEFINE fired == [s EXCEPT !.endTimeout = Off]
           postponed == [s EXCEPT !.endTimeout = ControlTime]
<1>1. /\ s \in StationRecord /\ ~s.failed /\ s.state \in {"WAITACK", "WAITCTS", "WAITMULTICAST"}
      /\ s.endAIFS = Off /\ s.endDIFS = Off /\ s.endBackoff = Off /\ s.endSIFS = Off
      /\ s.queue # <<>>
  BY DEF Sound, Settled
<1>2. /\ Still(fired) /\ fired.down = s.down /\ fired.queue = s.queue
      /\ fired.radioState = s.radioState
  BY <1>1, EndTimeoutSet, OffIsTime DEF Still, SameBut
<1>3. CASE timeoutPostponed(s)
  <2>1. ControlTime \in Time /\ ControlTime # Off
    BY WaitsAreTimes, TimeAssumption DEF Off
  <2>2. /\ postponed \in StationRecord /\ ~postponed.failed /\ postponed.state = s.state
        /\ postponed.radioState = s.radioState /\ postponed.queue = s.queue
        /\ postponed.backoffPeriod = s.backoffPeriod
        /\ postponed.endAIFS = s.endAIFS /\ postponed.endDIFS = s.endDIFS
        /\ postponed.endBackoff = s.endBackoff /\ postponed.endSIFS = s.endSIFS
        /\ postponed.endTimeout # Off /\ postponed.down = s.down
    BY <1>1, <2>1, EndTimeoutSet DEF SameBut
  <2>3. TimeoutOver(s, c) = postponed
    BY <1>1, <1>3 DEF TimeoutOver, timeoutPostponed
  <2> HIDE DEF postponed
  <2>4. Settled(postponed) /\ Tuned(postponed)
    BY <1>1, <2>2 DEF Sound, Settled, Tuned
  <2> QED
    BY <2>2, <2>3, <2>4, NoFrameCarried DEF Handled, Sound
<1>4. CASE ~timeoutPostponed(s) /\ s.state \in {"WAITACK", "WAITCTS"}
  <2>1. TimeoutOver(s, c) = attemptFailed(fired, c)
    BY <1>4 DEF TimeoutOver
  <2> HIDE DEF fired
  <2> QED
    BY <1>1, <1>2, <2>1, AttemptFailedSound, NoFrameCarried DEF Handled, Listens
<1>5. CASE s.state = "WAITMULTICAST"
  <2>1. TimeoutOver(s, c) = Defer(resetCurrentBackOff(finishCurrentTransmission(fired)))
    BY <1>5 DEF TimeoutOver, timeoutPostponed
  <2> HIDE DEF fired
  <2> QED
    BY <1>1, <1>2, <2>1, FinishedTransmissionSound, NoFrameCarried DEF Handled, Listens
<1> QED
  BY <1>1, <1>3, <1>4, <1>5

LEMMA ReserveSound ==
    ASSUME NEW s, Sound(s), s.down = NoFrame
    PROVE  Handled(s, ReserveOver(s))
<1> DEFINE fired == [s EXCEPT !.endReserve = Off]
<1>1. s \in StationRecord
  BY DEF Sound, Settled
<1>2. /\ fired \in StationRecord /\ fired.failed = s.failed /\ fired.state = s.state
      /\ fired.radioState = s.radioState /\ fired.queue = s.queue
      /\ fired.backoffPeriod = s.backoffPeriod /\ fired.frameBeforeSIFS = s.frameBeforeSIFS
      /\ fired.endAIFS = s.endAIFS /\ fired.endDIFS = s.endDIFS
      /\ fired.endBackoff = s.endBackoff /\ fired.endSIFS = s.endSIFS
      /\ fired.endTimeout = s.endTimeout /\ fired.down = s.down
  BY <1>1, EndReserveSet, OffIsTime DEF SameBut
<1>3. ReserveOver(s) = IF s.radioState = "IDLE" THEN mediumStateChange(fired) ELSE fired
  BY DEF ReserveOver
<1> HIDE DEF fired
<1>4. Settled(fired)
  BY <1>2 DEF Sound, Settled
<1>5. CASE s.radioState = "IDLE"
  BY <1>2, <1>3, <1>4, <1>5, MediumSound, NoFrameCarried DEF Handled, SameRadio
<1>6. CASE s.radioState # "IDLE"
  <2>1. Tuned(fired)
    BY <1>2, <1>6 DEF Sound, Tuned, isMediumFree
  <2> QED
    BY <1>2, <1>3, <1>4, <1>6, <2>1, NoFrameCarried DEF Handled, Sound
<1> QED
  BY <1>5, <1>6

-----------------------------------------------------------------------------
(* The channel.                                                            *)

(* Station n goes on in state s.                                           *)
LEMMA ContinueSound ==
    ASSUME IInv, NEW n \in Node, NEW s, Sound(s), Continue(n, s),
           s.down # NoFrame => s.state # "WAITSIFS" /\ s.radioState # "TRANSMIT"
    PROVE  /\ DOMAIN mac' = Node /\ DOMAIN air' = Node
           /\ \A m \in Node : /\ Sound(mac'[m]) /\ mac'[m].down = NoFrame /\ mac'[m].up = NoFrame
                              /\ air'[m] \in [frame : Frame \cup {NoFrame}, age : Nat]
                              /\ air[m].frame # NoFrame => air'[m].frame # NoFrame
           /\ \A m \in Node \ {n} : mac'[m] = mac[m]
           /\ s.down = NoFrame => mac'[n].radioState = s.radioState
<1> DEFINE sends == s.down # NoFrame
           sent == setRadioState(assert(s, s.radioState # "TRANSMIT"), "TRANSMIT")
           rest == IF sends THEN sent ELSE s
           delivered == [rest EXCEPT !.down = NoFrame, !.up = NoFrame]
<1>1. s.down \in Frame \cup {NoFrame}
  BY DEF Sound, Settled, StationRecord
<1>2. Sound(rest) /\ (~sends => rest.radioState = s.radioState)
  <2>1. CASE sends
    <3>1. Sound(s) /\ s.state # "WAITSIFS" /\ s.radioState # "TRANSMIT"
      BY <2>1
    <3>2. (s.radioState # "TRANSMIT") = TRUE
      BY <3>1
    <3>3. assert(s, TRUE) = s
      BY <3>1, AssertHolds DEF Sound, Settled
    <3>4. sent = setRadioState(s, "TRANSMIT")
      BY <3>2, <3>3
    <3>5. Sound(setRadioState(s, "TRANSMIT"))
      BY <3>1, RadioSound DEF Sound
    <3> HIDE DEF sent
    <3> QED
      BY <2>1, <3>4, <3>5
  <2>2. CASE ~sends
    BY <2>2
  <2> QED
    BY <2>1, <2>2
<1>3. /\ mac' = [mac EXCEPT ![n] = delivered]
      /\ air' = IF sends THEN [air EXCEPT ![n] = [frame |-> s.down, age |-> 0]] ELSE air
  BY DEF Continue
<1> HIDE DEF rest
<1>4. /\ delivered \in StationRecord /\ delivered.failed = rest.failed
      /\ delivered.state = rest.state /\ delivered.radioState = rest.radioState
      /\ delivered.queue = rest.queue /\ delivered.backoffPeriod = rest.backoffPeriod
      /\ delivered.frameBeforeSIFS = rest.frameBeforeSIFS
      /\ delivered.endAIFS = rest.endAIFS /\ delivered.endDIFS = rest.endDIFS
      /\ delivered.endBackoff = rest.endBackoff /\ delivered.endSIFS = rest.endSIFS
      /\ delivered.endTimeout = rest.endTimeout /\ delivered.endReserve = rest.endReserve
      /\ delivered.down = NoFrame /\ delivered.up = NoFrame
  <2> DEFINE taken == [rest EXCEPT !.down = NoFrame]
  <2>1. rest \in StationRecord
    BY <1>2 DEF Sound, Settled
  <2>2. taken \in StationRecord
    BY <2>1 DEF StationRecord
  <2>3. delivered = [taken EXCEPT !.up = NoFrame]
    BY <2>1 DEF StationRecord
  <2>4. [taken EXCEPT !.up = NoFrame] \in StationRecord
    BY <2>2 DEF StationRecord
  <2> QED
    BY <2>1, <2>3, <2>4 DEF StationRecord
<1> HIDE DEF delivered
<1>5. Sound(delivered)
  BY <1>2, <1>4 DEF Sound, Settled, Tuned, isMediumFree
<1>6. DOMAIN mac = Node /\ DOMAIN air = Node
  BY DEF IInv
<1>7. /\ DOMAIN mac' = Node /\ mac'[n] = delivered
      /\ \A m \in Node \ {n} : mac'[m] = mac[m]
  BY <1>3, <1>6
<1>8. DOMAIN air' = Node
  BY <1>3, <1>6
<1>9. ASSUME NEW m \in Node
      PROVE  /\ Sound(mac'[m]) /\ mac'[m].down = NoFrame /\ mac'[m].up = NoFrame
             /\ air'[m] \in [frame : Frame \cup {NoFrame}, age : Nat]
             /\ air[m].frame # NoFrame => air'[m].frame # NoFrame
  <2>1. /\ Sound(mac[m]) /\ mac[m].down = NoFrame /\ mac[m].up = NoFrame
        /\ air[m] \in [frame : Frame \cup {NoFrame}, age : Nat]
    BY DEF IInv
  <2>2. Sound(mac'[m]) /\ mac'[m].down = NoFrame /\ mac'[m].up = NoFrame
    BY <1>4, <1>5, <1>7, <2>1
  <2>3. CASE sends /\ m = n
    BY <1>1, <1>3, <1>6, <2>2, <2>3
  <2>4. CASE ~(sends /\ m = n)
    <3>1. air'[m] = air[m]
      BY <1>3, <1>6, <2>4
    <3> QED
      BY <2>1, <2>2, <3>1
  <2> QED
    BY <2>3, <2>4
<1>10. ~sends => mac'[n].radioState = s.radioState
  BY <1>2, <1>4, <1>7
<1> QED
  BY <1>7, <1>8, <1>9, <1>10

(* A timer of the MAC expires.                                             *)
LEMMA ExpireSound ==
    ASSUME IInv, NEW n \in Node, NEW timer, NEW s, Handled(mac[n], s), Expire(n, timer, s)
    PROVE  IInv'
<1>1. Continue(n, s) /\ StopsReceiving(n, s) /\ UNCHANGED <<recvBuff, offered>>
  BY DEF Expire
<1>2. /\ DOMAIN mac' = Node /\ DOMAIN air' = Node
      /\ \A m \in Node : /\ Sound(mac'[m]) /\ mac'[m].down = NoFrame /\ mac'[m].up = NoFrame
                         /\ air'[m] \in [frame : Frame \cup {NoFrame}, age : Nat]
                         /\ air[m].frame # NoFrame => air'[m].frame # NoFrame
      /\ \A m \in Node \ {n} : mac'[m] = mac[m]
      /\ s.down = NoFrame => mac'[n].radioState = s.radioState
  BY <1>1, ContinueSound DEF Handled
<1>3. /\ DOMAIN receiving = Node /\ DOMAIN recvBuff = Node /\ DOMAIN offered = Node
      /\ \A m \in Node : /\ mac[m].radioState = "TRANSMIT" => receiving[m] = Nobody
                         /\ offered[m] \in Seq(Node \cup {Multicast})
                         /\ \A k \in recvBuff[m] : k \in Node /\ air[k].frame # NoFrame
  BY DEF IInv
<1>4. s.radioState = mac[n].radioState
  BY DEF Handled
<1>5. receiving' = IF s.down = NoFrame THEN receiving ELSE [receiving EXCEPT ![n] = Nobody]
  BY <1>1 DEF StopsReceiving
<1>6. /\ DOMAIN receiving' = Node
      /\ \A m \in Node : mac'[m].radioState = "TRANSMIT" => receiving'[m] = Nobody
  BY <1>2, <1>3, <1>4, <1>5
<1>7. recvBuff' = recvBuff /\ offered' = offered
  BY <1>1
<1> QED
  BY <1>2, <1>3, <1>6, <1>7 DEF IInv

(* The other steps of station n do not send.                               *)
LEMMA QuietSteps ==
    ASSUME IInv, NEW n \in Node, NEW s, Sound(s), s.down = NoFrame, Continue(n, s),
           receiving' = receiving \/ \E m \in Node \cup {Nobody} : receiving' = [receiving EXCEPT ![n] = m],
           s.radioState = "TRANSMIT" => receiving'[n] = Nobody,
           DOMAIN offered' = Node, \A m \in Node : offered'[m] \in Seq(Node \cup {Multicast}),
           DOMAIN recvBuff' = Node,
           \A m \in Node : \A k \in recvBuff'[m] : k \in Node /\ air[k].frame # NoFrame
    PROVE  IInv'
<1>1. /\ DOMAIN mac' = Node /\ DOMAIN air' = Node
      /\ \A m \in Node : /\ Sound(mac'[m]) /\ mac'[m].down = NoFrame /\ mac'[m].up = NoFrame
                         /\ air'[m] \in [frame : Frame \cup {NoFrame}, age : Nat]
                         /\ air[m].frame # NoFrame => air'[m].frame # NoFrame
      /\ \A m \in Node \ {n} : mac'[m] = mac[m]
      /\ mac'[n].radioState = s.radioState
  BY ContinueSound
<1>2. DOMAIN receiving = Node /\ \A m \in Node : mac[m].radioState = "TRANSMIT" => receiving[m] = Nobody
  BY DEF IInv
<1>3. DOMAIN receiving' = Node /\ \A m \in Node \ {n} : receiving'[m] = receiving[m]
  BY <1>2
<1>4. \A m \in Node : mac'[m].radioState = "TRANSMIT" => receiving'[m] = Nobody
  BY <1>1, <1>2, <1>3
<1> QED
  BY <1>1, <1>3, <1>4 DEF IInv

LEMMA ReceptionStartSound ==
    ASSUME IInv, NEW n \in Node, NEW m \in Node, ReceptionStart(n, m)
    PROVE  IInv'
<1> DEFINE receives == mac[n].radioState # "TRANSMIT" /\ receiving[n] = Nobody
           s == IF receives /\ mac[n].radioState # "RECV" THEN setRadioState(mac[n], "RECV") ELSE mac[n]
<1>1. Sound(mac[n]) /\ mac[n].down = NoFrame /\ air[m].frame # NoFrame
      /\ (mac[n].radioState = "TRANSMIT" => receiving[n] = Nobody)
  BY DEF IInv, ReceptionStart, starts, audible
<1>2. Sound(s) /\ s.down = NoFrame /\ (s.radioState = "TRANSMIT" => mac[n].radioState = "TRANSMIT")
  BY <1>1, RadioSound DEF Sound
<1>3. /\ Continue(n, s) /\ offered' = offered
      /\ recvBuff' = [recvBuff EXCEPT ![n] = @ \cup {m}]
      /\ receiving' = IF receives THEN [receiving EXCEPT ![n] = m] ELSE receiving
  BY DEF ReceptionStart
<1> HIDE DEF s
<1>4. s.radioState = "TRANSMIT" => receiving'[n] = Nobody
  BY <1>1, <1>2, <1>3
<1>5. /\ DOMAIN recvBuff' = Node
      /\ \A k \in Node : \A l \in recvBuff'[k] : l \in Node /\ air[l].frame # NoFrame
  BY <1>1, <1>3 DEF IInv
<1>6. DOMAIN offered' = Node /\ \A k \in Node : offered'[k] \in Seq(Node \cup {Multicast})
  BY <1>3 DEF IInv
<1>7. receiving' = receiving \/ \E k \in Node \cup {Nobody} : receiving' = [receiving EXCEPT ![n] = k]
  BY <1>3
<1> QED
  BY <1>2, <1>3, <1>4, <1>5, <1>6, <1>7, QuietSteps

LEMMA QuietSound ==
    ASSUME IInv, NEW n \in Node, NEW m \in Node
    PROVE  /\ Sound(quiet(n, m)) /\ quiet(n, m).down = NoFrame
           /\ quiet(n, m).radioState = "TRANSMIT" => mac[n].radioState = "TRANSMIT"
<1>1. Sound(mac[n]) /\ mac[n].down = NoFrame
  BY DEF IInv
<1>2. Sound(setRadioState(mac[n], "IDLE")) /\ setRadioState(mac[n], "IDLE").down = NoFrame
      /\ setRadioState(mac[n], "IDLE").radioState = "IDLE"
  BY <1>1, RadioSound DEF Sound
<1> QED
  BY <1>1, <1>2 DEF quiet

LEMMA ReceptionEndSound ==
    ASSUME IInv, NEW n \in Node, NEW m \in Node, NEW failed \in BOOLEAN, NEW c \in Nat,
           ReceptionEnd(n, m, failed, c)
    PROVE  IInv'
<1> DEFINE f == air[m].frame
           s == handleLowerMsg(quiet(n, m), n, f, failed, c)
<1>1. /\ m \in recvBuff[n] /\ receiving[n] = m /\ Continue(n, s) /\ offered' = offered
      /\ recvBuff' = [recvBuff EXCEPT ![n] = @ \ {m}]
      /\ receiving' = [receiving EXCEPT ![n] = Nobody]
  BY DEF ReceptionEnd, ends
<1>2. f \in Frame
  BY <1>1 DEF IInv
<1>3. mac[n].radioState # "TRANSMIT"
  BY <1>1, NobodyAssumption DEF IInv
<1>4. Sound(quiet(n, m)) /\ quiet(n, m).down = NoFrame /\ quiet(n, m).radioState # "TRANSMIT"
  BY <1>3, QuietSound
<1>5. Sound(s) /\ s.down = NoFrame
  BY <1>2, <1>4, LowerSound DEF Listens
<1> HIDE DEF s
<1>6. /\ DOMAIN recvBuff' = Node
      /\ \A k \in Node : \A l \in recvBuff'[k] : l \in Node /\ air[l].frame # NoFrame
  BY <1>1 DEF IInv
<1>7. DOMAIN offered' = Node /\ \A k \in Node : offered'[k] \in Seq(Node \cup {Multicast})
  BY <1>1 DEF IInv
<1>8. receiving'[n] = Nobody
  BY <1>1 DEF IInv
<1> QED
  BY <1>1, <1>5, <1>6, <1>7, <1>8, QuietSteps

LEMMA NoiseEndSound ==
    ASSUME IInv, NEW n \in Node, NEW m \in Node, NoiseEnd(n, m)
    PROVE  IInv'
<1>1. /\ Continue(n, quiet(n, m)) /\ offered' = offered /\ receiving' = receiving
      /\ recvBuff' = [recvBuff EXCEPT ![n] = @ \ {m}]
  BY DEF NoiseEnd
<1>2. /\ DOMAIN recvBuff' = Node
      /\ \A k \in Node : \A l \in recvBuff'[k] : l \in Node /\ air[l].frame # NoFrame
  BY <1>1 DEF IInv
<1>3. DOMAIN offered' = Node /\ \A k \in Node : offered'[k] \in Seq(Node \cup {Multicast})
  BY <1>1 DEF IInv
<1>4. mac[n].radioState = "TRANSMIT" => receiving'[n] = Nobody
  BY <1>1 DEF IInv
<1> QED
  BY <1>1, <1>2, <1>3, <1>4, QuietSound, QuietSteps

LEMMA TransmissionOverSound ==
    ASSUME IInv, NEW n \in Node, TransmissionOver(n)
    PROVE  IInv'
<1> DEFINE new == IF recvBuff[n] = {} THEN "IDLE" ELSE "RECV"
           s == setRadioState(mac[n], new)
<1>1. Continue(n, s) /\ recvBuff' = recvBuff /\ offered' = offered /\ receiving' = receiving
  BY DEF TransmissionOver
<1>2. Sound(mac[n]) /\ mac[n].down = NoFrame
  BY DEF IInv
<1>3. new \in {"IDLE", "RECV"}
  OBVIOUS
<1> HIDE DEF new
<1>4. Sound(s) /\ s.down = NoFrame /\ s.radioState # "TRANSMIT"
  BY <1>2, <1>3, RadioSound DEF Sound
<1> HIDE DEF s
<1>5. /\ DOMAIN recvBuff' = Node
      /\ \A k \in Node : \A l \in recvBuff'[k] : l \in Node /\ air[l].frame # NoFrame
  BY <1>1 DEF IInv
<1>6. DOMAIN offered' = Node /\ \A k \in Node : offered'[k] \in Seq(Node \cup {Multicast})
  BY <1>1 DEF IInv
<1> QED
  BY <1>1, <1>4, <1>5, <1>6, QuietSteps

LEMMA UpperMsgSound ==
    ASSUME IInv, NEW n \in Node, UpperMsg(n)
    PROVE  IInv'
<1> DEFINE to == Head(offered[n])
           s == handleUpperMsg(mac[n], n, to)
<1>1. /\ Continue(n, s) /\ recvBuff' = recvBuff /\ receiving' = receiving /\ offered[n] # <<>>
      /\ Len(mac[n].queue) < 2
      /\ offered' = [offered EXCEPT ![n] = Tail(@)]
  BY DEF UpperMsg
<1>2. /\ Sound(mac[n]) /\ mac[n].down = NoFrame
      /\ offered[n] \in Seq(Node \cup {Multicast}) /\ DOMAIN offered = Node
      /\ mac[n].radioState = "TRANSMIT" => receiving[n] = Nobody
  BY DEF IInv
<1>3. to \in Node \cup {Multicast} /\ Tail(offered[n]) \in Seq(Node \cup {Multicast})
  BY <1>1, <1>2
<1> HIDE DEF to
<1>4. Sound(s) /\ s.down = NoFrame /\ s.radioState = mac[n].radioState
  BY <1>1, <1>2, <1>3, UpperSound DEF Listens
<1> HIDE DEF s
<1>5. DOMAIN offered' = Node /\ \A k \in Node : offered'[k] \in Seq(Node \cup {Multicast})
  BY <1>1, <1>2, <1>3 DEF IInv
<1>6. /\ DOMAIN recvBuff' = Node
      /\ \A k \in Node : \A l \in recvBuff'[k] : l \in Node /\ air[l].frame # NoFrame
  BY <1>1 DEF IInv
<1>7. s.radioState = "TRANSMIT" => receiving'[n] = Nobody
  BY <1>1, <1>2, <1>4
<1> QED
  BY <1>1, <1>4, <1>5, <1>6, <1>7, QuietSteps

(* Time advances.                                                          *)
Less(t) == IF t # Off THEN t - 1 ELSE t

LEMMA LessTime ==
    ASSUME NEW t \in Time, t # Off => t > 0
    PROVE  Less(t) \in Time /\ (Less(t) # Off <=> t # Off)
BY WaitsAreTimes DEF Less, Time, TimerRange, Off

LEMMA TickedSound ==
    ASSUME NEW s, Sound(s), s.down = NoFrame, s.up = NoFrame,
           \A timer \in Timers : s[timer] # Off => s[timer] > 0
    PROVE  LET t == [field \in DOMAIN s |->
                        IF field \in Timers /\ s[field] # Off THEN s[field] - 1 ELSE s[field]]
           IN  Sound(t) /\ t.down = NoFrame /\ t.up = NoFrame /\ t.radioState = s.radioState
<1> DEFINE t == [field \in DOMAIN s |->
                    IF field \in Timers /\ s[field] # Off THEN s[field] - 1 ELSE s[field]]
<1>1. s \in StationRecord /\ Settled(s) /\ Tuned(s)
  BY DEF Sound, Settled
<1>2. DOMAIN s = {"state", "radioState", "queue", "retryCounter", "backoff", "backoffPeriod",
                  "lastReceiveFailed", "frameBeforeSIFS", "endAIFS", "endDIFS", "endBackoff",
                  "endSIFS", "endTimeout", "endReserve", "sequenceNumber", "asfTuplesList",
                  "numSent", "numGivenUp", "down", "up", "failed"}
  BY <1>1 DEF StationRecord
<1>3. /\ s.endAIFS \in Time /\ s.endDIFS \in Time /\ s.endBackoff \in Time
      /\ s.endSIFS \in Time /\ s.endTimeout \in Time /\ s.endReserve \in Time
  BY <1>1 DEF StationRecord
<1>4. /\ t.state = s.state /\ t.radioState = s.radioState /\ t.queue = s.queue
      /\ t.retryCounter = s.retryCounter /\ t.backoff = s.backoff
      /\ t.backoffPeriod = s.backoffPeriod /\ t.lastReceiveFailed = s.lastReceiveFailed
      /\ t.frameBeforeSIFS = s.frameBeforeSIFS /\ t.sequenceNumber = s.sequenceNumber
      /\ t.asfTuplesList = s.asfTuplesList /\ t.numSent = s.numSent
      /\ t.numGivenUp = s.numGivenUp /\ t.down = s.down /\ t.up = s.up /\ t.failed = s.failed
  BY <1>2 DEF Timers
<1>5. /\ t.endAIFS = Less(s.endAIFS) /\ t.endDIFS = Less(s.endDIFS)
      /\ t.endBackoff = Less(s.endBackoff) /\ t.endSIFS = Less(s.endSIFS)
      /\ t.endTimeout = Less(s.endTimeout) /\ t.endReserve = Less(s.endReserve)
  BY <1>2 DEF Timers, Less
<1>6. t = [state |-> s.state, radioState |-> s.radioState, queue |-> s.queue,
           retryCounter |-> s.retryCounter, backoff |-> s.backoff,
           backoffPeriod |-> s.backoffPeriod, lastReceiveFailed |-> s.lastReceiveFailed,
           frameBeforeSIFS |-> s.frameBeforeSIFS,
           endAIFS |-> t.endAIFS, endDIFS |-> t.endDIFS, endBackoff |-> t.endBackoff,
           endSIFS |-> t.endSIFS, endTimeout |-> t.endTimeout, endReserve |-> t.endReserve,
           sequenceNumber |-> s.sequenceNumber, asfTuplesList |-> s.asfTuplesList,
           numSent |-> s.numSent, numGivenUp |-> s.numGivenUp,
           down |-> s.down, up |-> s.up, failed |-> s.failed]
  <2>1. DOMAIN t = DOMAIN s /\ t = [field \in DOMAIN t |-> t[field]]
    OBVIOUS
  <2> HIDE DEF t
  <2> QED
    BY <1>2, <1>4, <2>1
<1> HIDE DEF t
<1>7. /\ t.endAIFS \in Time /\ t.endDIFS \in Time /\ t.endBackoff \in Time
      /\ t.endSIFS \in Time /\ t.endTimeout \in Time /\ t.endReserve \in Time
      /\ t.endAIFS # Off <=> s.endAIFS # Off
      /\ t.endDIFS # Off <=> s.endDIFS # Off
      /\ t.endBackoff # Off <=> s.endBackoff # Off
      /\ t.endSIFS # Off <=> s.endSIFS # Off
      /\ t.endTimeout # Off <=> s.endTimeout # Off
      /\ t.endReserve # Off <=> s.endReserve # Off
  BY <1>3, <1>5, LessTime DEF Timers
<1>8. t \in StationRecord
  BY <1>1, <1>6, <1>7 DEF StationRecord
<1>9. t.endBackoff <= t.backoffPeriod
  <2>1. s.endBackoff <= s.backoffPeriod /\ s.backoffPeriod \in Int
    BY <1>1 DEF Settled, StationRecord, Periods, Invalid
  <2>2. s.endBackoff \in Int
    BY <1>3, TimeIsNumber
  <2> QED
    BY <1>4, <1>5, <2>1, <2>2 DEF Less, Off
<1>10. Settled(t)
  BY <1>1, <1>4, <1>7, <1>8, <1>9 DEF Settled
<1>11. Tuned(t)
  BY <1>1, <1>4, <1>7 DEF Tuned, isMediumFree
<1> QED
  BY <1>4, <1>10, <1>11 DEF Sound, t

LEMMA TickSound ==
    ASSUME IInv, Tick
    PROVE  IInv'
<1>1. /\ ~signalDue /\ recvBuff' = recvBuff /\ receiving' = receiving /\ offered' = offered
      /\ \A r \in running : mac[r[1]][r[2]] > 0
      /\ mac' = [n \in Node |-> [field \in DOMAIN mac[n] |->
                    IF field \in Timers /\ <<n, field>> \in running
                    THEN mac[n][field] - 1 ELSE mac[n][field]]]
      /\ air' = [n \in Node |-> IF air[n].frame = NoFrame \/ air[n].age > airTime(air[n].frame)
                                THEN Silent ELSE [air[n] EXCEPT !.age = @ + 1]]
  BY DEF Tick
<1>2. \A n \in Node, field \in Timers : <<n, field>> \in running <=> mac[n][field] # Off
  BY DEF running
<1>3. ASSUME NEW n \in Node
      PROVE  /\ Sound(mac'[n]) /\ mac'[n].down = NoFrame /\ mac'[n].up = NoFrame
             /\ mac'[n].radioState = mac[n].radioState
  <2>1. \A timer \in Timers : mac[n][timer] # Off => mac[n][timer] > 0
    BY <1>1, <1>2
  <2>2. mac'[n] = [field \in DOMAIN mac[n] |->
                     IF field \in Timers /\ mac[n][field] # Off
                     THEN mac[n][field] - 1 ELSE mac[n][field]]
    BY <1>1, <1>2
  <2>3. Sound(mac[n]) /\ mac[n].down = NoFrame /\ mac[n].up = NoFrame
    BY DEF IInv
  <2> QED
    BY <2>1, <2>2, <2>3, TickedSound
<1>4. ASSUME NEW n \in Node
      PROVE  air'[n] \in [frame : Frame \cup {NoFrame}, age : Nat]
  BY <1>1 DEF IInv, Silent
<1>5. ASSUME NEW n \in Node, NEW m \in recvBuff[n]
      PROVE  m \in Node /\ air'[m].frame # NoFrame
  <2>1. m \in Node /\ air[m].frame # NoFrame /\ air[m] \in [frame : Frame \cup {NoFrame}, age : Nat]
    BY DEF IInv
  <2>2. audible(n, m)
    BY <1>1, <2>1 DEF signalDue, ends
  <2>3. airTime(air[m].frame) \in Nat
    BY TimeAssumption DEF airTime
  <2>4. ~(air[m].age > airTime(air[m].frame))
    BY <2>1, <2>2, <2>3 DEF audible
  <2>5. air'[m].frame = air[m].frame
    BY <1>1, <2>1, <2>4
  <2> QED
    BY <2>1, <2>5
<1>6. DOMAIN mac' = Node /\ DOMAIN air' = Node
  BY <1>1
<1> QED
  BY <1>1, <1>3, <1>4, <1>5, <1>6 DEF IInv

-----------------------------------------------------------------------------
(* The invariant is inductive.                                             *)

LEMMA IInvInit == Init => IInv
<1> SUFFICES ASSUME Init PROVE IInv
  OBVIOUS
<1>1. initialStation \in StationRecord
  <2>1. <<>> \in Queues /\ 0 \in 0 .. transmissionLimit - 1 /\ [m \in Node |-> Off] \in [Node -> Int]
    BY LimitAssumption DEF Off, Queues
  <2> QED
    BY <2>1, OffIsTime DEF initialStation, StationRecord
<1>2. Sound(initialStation)
  BY <1>1 DEF Sound, Settled, Tuned, initialStation, Off, Invalid
<1>3. initialStation.down = NoFrame /\ initialStation.up = NoFrame
      /\ initialStation.radioState = "IDLE"
  BY DEF initialStation
<1>4. /\ Silent \in [frame : Frame \cup {NoFrame}, age : Nat]
      /\ \A n \in Node : Workload[n] \in Seq(Node \cup {Multicast})
      /\ DOMAIN Workload = Node
  BY WorkloadAssumption DEF Silent
<1> QED
  BY <1>2, <1>3, <1>4 DEF Init, IInv

LEMMA IInvNext == IInv /\ [Next]_vars => IInv'
<1> SUFFICES ASSUME IInv, [Next]_vars PROVE IInv'
  OBVIOUS
<1>1. CASE Tick
  BY <1>1, TickSound
<1>2. ASSUME NEW n \in Node, TransmissionOver(n) \/ UpperMsg(n)
      PROVE  IInv'
  BY <1>2, TransmissionOverSound, UpperMsgSound
<1>3. ASSUME NEW n \in Node, EndBackoff(n) \/ EndSIFS(n) \/ EndReserve(n)
      PROVE  IInv'
  <2>1. Sound(mac[n]) /\ mac[n].down = NoFrame
    BY DEF IInv
  <2>2. CASE EndBackoff(n)
    <3>1. Expire(n, "endBackoff", BackoffOver(mac[n])) /\ mac[n].endBackoff # Off
      BY <2>2 DEF EndBackoff, Expire, Off
    <3> QED
      BY <2>1, <3>1, BackoffOverSound, ExpireSound
  <2>3. CASE EndSIFS(n)
    <3>1. Expire(n, "endSIFS", SIFSOver(mac[n])) /\ mac[n].endSIFS # Off
      BY <2>3 DEF EndSIFS, Expire, Off
    <3> QED
      BY <2>1, <3>1, SIFSSound, ExpireSound
  <2>4. CASE EndReserve(n)
    BY <2>1, <2>4, ReserveSound, ExpireSound DEF EndReserve
  <2> QED
    BY <1>3, <2>2, <2>3, <2>4
<1>4. ASSUME NEW n \in Node, NEW c \in Nat, EndAIFS(n, c) \/ EndDIFS(n, c) \/ EndTimeout(n, c)
      PROVE  IInv'
  <2>1. Sound(mac[n]) /\ mac[n].down = NoFrame
    BY DEF IInv
  <2>2. CASE EndAIFS(n, c)
    <3>1. Expire(n, "endAIFS", AIFSOver(mac[n], c)) /\ mac[n].endAIFS # Off
      BY <2>2 DEF EndAIFS, Expire, Off
    <3> QED
      BY <2>1, <3>1, AIFSSound, ExpireSound
  <2>3. CASE EndDIFS(n, c)
    <3>1. Expire(n, "endDIFS", DIFSOver(mac[n], c)) /\ mac[n].endDIFS # Off
      BY <2>3 DEF EndDIFS, Expire, Off
    <3> QED
      BY <2>1, <3>1, DIFSSound, ExpireSound
  <2>4. CASE EndTimeout(n, c)
    <3>1. Expire(n, "endTimeout", TimeoutOver(mac[n], c)) /\ mac[n].endTimeout # Off
      BY <2>4 DEF EndTimeout, Expire, Off
    <3> QED
      BY <2>1, <3>1, TimeoutSound, ExpireSound
  <2> QED
    BY <1>4, <2>2, <2>3, <2>4
<1>5. ASSUME NEW n \in Node, NEW m \in Node, ReceptionStart(n, m) \/ NoiseEnd(n, m)
      PROVE  IInv'
  BY <1>5, ReceptionStartSound, NoiseEndSound
<1>6. ASSUME NEW n \in Node, NEW m \in Node, NEW failed \in BOOLEAN, NEW c \in Nat,
             ReceptionEnd(n, m, failed, c)
      PROVE  IInv'
  BY <1>6, ReceptionEndSound
<1>7. CASE UNCHANGED vars
  BY <1>7 DEF vars, IInv
<1>8. Draws \subseteq Nat
  BY LimitAssumption DEF Draws
<1> QED
  BY <1>1, <1>2, <1>3, <1>4, <1>5, <1>6, <1>7, <1>8 DEF Next

LEMMA Invariance == Spec => []IInv
BY IInvInit, IInvNext, PTL DEF Spec

-----------------------------------------------------------------------------
(* The frame in the air.                                                   *)

(* The data frame a station sends is the one it works on, whose timer runs *)
(* at least until the frame has left.                                      *)
Current(s, sent) ==
    /\ sent.frame # NoFrame /\ sent.age <= airTime(sent.frame)
    /\ sent.frame.type = "DATA" =>
          /\ s.state \in {"WAITACK", "WAITMULTICAST"}
          /\ Head(s.queue) = sent.frame
          /\ s.endTimeout + sent.age >= DataTime

Sending == \A n \in Node : mac[n].radioState = "TRANSMIT" => Current(mac[n], air[n])

LEMMA AirTimes == DataTime \in Nat /\ \A f : airTime(f) \in Nat
BY TimeAssumption DEF airTime

(* A station that waits for the answer to its frame does not look at the   *)
(* medium.                                                                 *)
LEMMA RadioKeeps ==
    ASSUME NEW s, s \in StationRecord, NEW new \in {"IDLE", "RECV", "TRANSMIT"},
           s.state \in {"WAITACK", "WAITMULTICAST"}
    PROVE  LET t == setRadioState(s, new) IN
           t.state = s.state /\ t.queue = s.queue /\ t.endTimeout = s.endTimeout
<1> DEFINE changed == [s EXCEPT !.radioState = new]
<1>1. /\ changed.state = s.state /\ changed.queue = s.queue
      /\ changed.endTimeout = s.endTimeout
  BY DEF StationRecord
<1> HIDE DEF changed
<1>2. mediumStateChange(changed) = changed
  BY <1>1 DEF mediumStateChange
<1> QED
  BY <1>1, <1>2 DEF setRadioState, changed

LEMMA ContinueCurrent ==
    ASSUME IInv, Sending, NEW n \in Node, NEW s, Sound(s), Continue(n, s),
           s.down # NoFrame => s.radioState # "TRANSMIT" /\ Carries(s),
           s.down = NoFrame /\ s.radioState = "TRANSMIT" => Current(s, air[n])
    PROVE  Sending'
<1> DEFINE sends == s.down # NoFrame
           sent == setRadioState(s, "TRANSMIT")
           rest == IF sends THEN sent ELSE s
           delivered == [rest EXCEPT !.down = NoFrame, !.up = NoFrame]
<1>1. s \in StationRecord /\ ~s.failed /\ s.down \in Frame \cup {NoFrame}
  BY DEF Sound, Settled, StationRecord
<1>2. assert(s, TRUE) = s
  BY <1>1, AssertHolds
<1>3. sends => (s.radioState # "TRANSMIT") = TRUE
  OBVIOUS
<1>4. /\ mac' = [mac EXCEPT ![n] = delivered]
      /\ air' = IF sends THEN [air EXCEPT ![n] = [frame |-> s.down, age |-> 0]] ELSE air
  BY <1>2, <1>3 DEF Continue
<1>5. DOMAIN mac = Node /\ DOMAIN air = Node
  BY DEF IInv
<1>6. /\ delivered.state = rest.state /\ delivered.radioState = rest.radioState
      /\ delivered.queue = rest.queue /\ delivered.endTimeout = rest.endTimeout
  OBVIOUS
<1>7. sends /\ s.down.type = "DATA" => /\ rest.state = s.state /\ rest.queue = s.queue
                                       /\ rest.endTimeout = s.endTimeout
  BY <1>1, RadioKeeps DEF Carries
<1> HIDE DEF delivered
<1>8. ASSUME NEW m \in Node \ {n}
      PROVE  mac'[m] = mac[m] /\ air'[m] = air[m]
  BY <1>4, <1>5
<1>9. CASE sends
  <2>1. mac'[n] = delivered /\ air'[n] = [frame |-> s.down, age |-> 0]
    BY <1>4, <1>5, <1>9
  <2>2. s.endTimeout \in Int
    BY <1>1, TimeIsNumber DEF StationRecord
  <2> HIDE DEF rest
  <2>3. Current(delivered, [frame |-> s.down, age |-> 0])
    BY <1>6, <1>7, <1>9, <2>2, AirTimes DEF Current, Carries
  <2> QED
    BY <1>8, <2>1, <2>3 DEF Sending
<1>10. CASE ~sends
  <2>1. mac'[n] = delivered /\ air'[n] = air[n] /\ rest = s
    BY <1>4, <1>5, <1>10
  <2> HIDE DEF rest
  <2>2. delivered.radioState = "TRANSMIT" => Current(delivered, air[n])
    BY <1>6, <1>10, <2>1 DEF Current
  <2> QED
    BY <1>8, <2>1, <2>2 DEF Sending
<1> QED
  BY <1>9, <1>10

(* Of the timers of a station whose data frame is in the air, only the one *)
(* of the network allocation vector expires.                               *)
LEMMA ExpireCurrent ==
    ASSUME IInv, Sending, NEW n \in Node, NEW timer \in Timers, NEW s, Handled(mac[n], s),
           Expire(n, timer, s),
           timer = "endReserve" => (Current(mac[n], air[n]) => Current(s, air[n]))
    PROVE  Sending'
<1>1. mac[n].radioState = "TRANSMIT" => Current(mac[n], air[n])
  BY DEF Sending
<1>2. /\ Continue(n, s) /\ ~transmitted(n) /\ mac[n][timer] = 0
      /\ Sound(s) /\ s.radioState = mac[n].radioState
      /\ s.down # NoFrame => s.radioState # "TRANSMIT" /\ Carries(s)
  BY DEF Expire, Handled, signalDue
<1>3. Settled(mac[n]) /\ air[n] \in [frame : Frame \cup {NoFrame}, age : Nat]
  BY DEF IInv, Sound
<1>4. SUFFICES ASSUME mac[n].radioState = "TRANSMIT", timer # "endReserve"
               PROVE  Current(s, air[n])
  BY <1>1, <1>2, ContinueCurrent
<1>5. air[n].frame.type # "DATA"
  <2>1. SUFFICES ASSUME air[n].frame.type = "DATA"
                 PROVE  FALSE
    OBVIOUS
  <2>2. air[n].age < DataTime
    BY <1>1, <1>2, <1>3, <1>4, <2>1, AirTimes DEF transmitted, Current, airTime
  <2>3. /\ mac[n].state \in {"WAITACK", "WAITMULTICAST"}
        /\ mac[n].endTimeout + air[n].age >= DataTime
    BY <1>1, <1>4, <2>1 DEF Current
  <2>4. mac[n].endTimeout # 0
    BY <1>3, <2>2, <2>3, AirTimes
  <2>5. /\ mac[n].endAIFS = Off /\ mac[n].endDIFS = Off /\ mac[n].endBackoff = Off
        /\ mac[n].endSIFS = Off
    BY <1>3, <2>3 DEF Settled
  <2> QED
    BY <1>2, <1>4, <2>4, <2>5 DEF Timers, Off
<1> QED
  BY <1>1, <1>4, <1>5 DEF Current

LEMMA ReserveCurrent ==
    ASSUME NEW s, Sound(s), s.radioState = "TRANSMIT", NEW sent, Current(s, sent)
    PROVE  Current(ReserveOver(s), sent)
<1> DEFINE fired == [s EXCEPT !.endReserve = Off]
<1>1. ReserveOver(s) = fired
  BY DEF ReserveOver
<1>2. fired.state = s.state /\ fired.queue = s.queue /\ fired.endTimeout = s.endTimeout
  OBVIOUS
<1> HIDE DEF fired
<1> QED
  BY <1>1, <1>2 DEF Current

LEMMA UpperCurrent ==
    ASSUME NEW s, Sound(s), NEW n \in Node, NEW to \in Node \cup {Multicast}, NEW sent, Current(s, sent)
    PROVE  Current(handleUpperMsg(s, n, to), sent)
<1> SUFFICES ASSUME sent.frame.type = "DATA"
             PROVE  Current(handleUpperMsg(s, n, to), sent)
  BY DEF Current
<1> DEFINE data == DataFrame(n, to, s.sequenceNumber)
           queue == Append(s.queue, data)
           queued == [s EXCEPT !.queue = queue, !.sequenceNumber = (s.sequenceNumber + 1) % 4096]
<1>1. s.state \in {"WAITACK", "WAITMULTICAST"}
  BY DEF Current
<1>2. s.queue \in Seq(Data) /\ s.queue # <<>> /\ s \in StationRecord
  BY <1>1 DEF Sound, Settled, StationRecord, Queues
<1>3. handleUpperMsg(s, n, to) = queued
  BY <1>1 DEF handleUpperMsg
<1>4. Head(queue) = Head(s.queue)
  BY <1>2
<1> HIDE DEF queue
<1>5. queued.state = s.state /\ queued.queue = queue /\ queued.endTimeout = s.endTimeout
  BY <1>2 DEF StationRecord
<1> HIDE DEF queued
<1> QED
  BY <1>3, <1>4, <1>5 DEF Current

LEMMA TickCurrent ==
    ASSUME IInv, Sending, Tick
    PROVE  Sending'
<1>1. /\ ~signalDue
      /\ \A r \in running : mac[r[1]][r[2]] > 0
      /\ mac' = [n \in Node |-> [field \in DOMAIN mac[n] |->
                    IF field \in Timers /\ <<n, field>> \in running
                    THEN mac[n][field] - 1 ELSE mac[n][field]]]
      /\ air' = [n \in Node |-> IF air[n].frame = NoFrame \/ air[n].age > airTime(air[n].frame)
                                THEN Silent ELSE [air[n] EXCEPT !.age = @ + 1]]
  BY DEF Tick
<1>2. SUFFICES ASSUME NEW n \in Node, mac'[n].radioState = "TRANSMIT"
               PROVE  Current(mac'[n], air'[n])
  BY DEF Sending
<1>3. mac[n] \in StationRecord /\ Settled(mac[n])
  BY DEF IInv, Sound, Settled
<1>4. {"state", "radioState", "queue", "endTimeout"} \subseteq DOMAIN mac[n]
  BY <1>3 DEF StationRecord
<1>5. <<n, "endTimeout">> \in running <=> mac[n].endTimeout # Off
  BY DEF running, Timers
<1>6. /\ mac'[n].state = mac[n].state /\ mac'[n].radioState = mac[n].radioState
      /\ mac'[n].queue = mac[n].queue
      /\ mac[n].endTimeout # Off => mac'[n].endTimeout = mac[n].endTimeout - 1
  BY <1>1, <1>4, <1>5 DEF Timers
<1>7. Current(mac[n], air[n])
  BY <1>2, <1>6 DEF Sending
<1>8. air[n] \in [frame : Frame \cup {NoFrame}, age : Nat] /\ mac[n].endTimeout \in Time
  BY <1>3 DEF IInv, StationRecord
<1>9. air[n].frame # NoFrame /\ air[n].age < airTime(air[n].frame)
  <2>1. ~transmitted(n) /\ mac[n].radioState = "TRANSMIT"
    BY <1>1, <1>2, <1>6 DEF signalDue
  <2>2. air[n].frame # NoFrame /\ air[n].age <= airTime(air[n].frame)
    BY <1>7 DEF Current
  <2>3. air[n].age # airTime(air[n].frame) /\ airTime(air[n].frame) \in Nat
    BY <2>1, AirTimes DEF transmitted
  <2> QED
    BY <1>8, <2>2, <2>3
<1>10. air'[n].frame = air[n].frame /\ air'[n].age = air[n].age + 1
  BY <1>1, <1>8, <1>9, AirTimes
<1>11. air'[n].frame # NoFrame /\ air'[n].age <= airTime(air'[n].frame)
  BY <1>8, <1>9, <1>10, AirTimes
<1>12. ASSUME air'[n].frame.type = "DATA"
       PROVE  /\ mac'[n].state \in {"WAITACK", "WAITMULTICAST"}
              /\ Head(mac'[n].queue) = air'[n].frame
              /\ mac'[n].endTimeout + air'[n].age >= DataTime
  <2>1. /\ mac[n].state \in {"WAITACK", "WAITMULTICAST"}
        /\ Head(mac[n].queue) = air[n].frame
        /\ mac[n].endTimeout + air[n].age >= DataTime
    BY <1>7, <1>10, <1>12 DEF Current
  <2>2. mac[n].endTimeout # Off
    BY <1>3, <2>1 DEF Settled
  <2>3. mac[n].endTimeout \in Int
    BY <1>3, TimeIsNumber DEF StationRecord, Settled
  <2> QED
    BY <1>6, <1>8, <1>10, <2>1, <2>2, <2>3, AirTimes
<1> QED
  BY <1>11, <1>12 DEF Current

LEMMA ReceptionCurrent ==
    ASSUME IInv, Sending, NEW n \in Node, NEW m \in Node,
           ReceptionStart(n, m) \/ NoiseEnd(n, m) \/ TransmissionOver(n)
    PROVE  Sending'
<1>1. /\ Sound(mac[n]) /\ mac[n].down = NoFrame
      /\ mac[n].radioState = "TRANSMIT" => Current(mac[n], air[n])
  BY DEF IInv, Sending
<1>2. ASSUME NEW new \in {"IDLE", "RECV"}
      PROVE  /\ Sound(setRadioState(mac[n], new)) /\ setRadioState(mac[n], new).down = NoFrame
             /\ setRadioState(mac[n], new).radioState # "TRANSMIT"
  BY <1>1, RadioSound DEF Sound
<1>3. CASE ReceptionStart(n, m)
  <2>1. Continue(n, setRadioState(mac[n], "RECV")) \/ Continue(n, mac[n])
    BY <1>3 DEF ReceptionStart
  <2> QED
    BY <1>1, <1>2, <2>1, ContinueCurrent
<1>4. CASE NoiseEnd(n, m)
  <2>1. Continue(n, setRadioState(mac[n], "IDLE")) \/ Continue(n, mac[n])
    BY <1>4 DEF NoiseEnd, quiet
  <2> QED
    BY <1>1, <1>2, <2>1, ContinueCurrent
<1>5. CASE TransmissionOver(n)
  <2>1. Continue(n, setRadioState(mac[n], "IDLE")) \/ Continue(n, setRadioState(mac[n], "RECV"))
    BY <1>5 DEF TransmissionOver
  <2> QED
    BY <1>2, <2>1, ContinueCurrent
<1> QED
  BY <1>3, <1>4, <1>5

LEMMA ReceptionEndCurrent ==
    ASSUME IInv, Sending, NEW n \in Node, NEW m \in Node, NEW failed \in BOOLEAN, NEW c \in Nat,
           ReceptionEnd(n, m, failed, c)
    PROVE  Sending'
<1> DEFINE f == air[m].frame
           s == handleLowerMsg(quiet(n, m), n, f, failed, c)
<1>1. m \in recvBuff[n] /\ receiving[n] = m /\ Continue(n, s)
  BY DEF ReceptionEnd, ends
<1>2. f \in Frame
  BY <1>1 DEF IInv
<1>3. mac[n].radioState # "TRANSMIT"
  BY <1>1, NobodyAssumption DEF IInv
<1>4. Sound(quiet(n, m)) /\ quiet(n, m).down = NoFrame /\ quiet(n, m).radioState # "TRANSMIT"
  BY <1>3, QuietSound
<1>5. Sound(s) /\ s.down = NoFrame /\ s.radioState # "TRANSMIT"
  BY <1>2, <1>4, LowerSound DEF Listens
<1> HIDE DEF s
<1> QED
  BY <1>1, <1>5, ContinueCurrent

LEMMA UpperMsgCurrent ==
    ASSUME IInv, Sending, NEW n \in Node, UpperMsg(n)
    PROVE  Sending'
<1> DEFINE to == Head(offered[n])
           s == handleUpperMsg(mac[n], n, to)
<1>1. /\ Sound(mac[n]) /\ mac[n].down = NoFrame /\ offered[n] \in Seq(Node \cup {Multicast})
      /\ mac[n].radioState = "TRANSMIT" => Current(mac[n], air[n])
  BY DEF IInv, Sending
<1>2. Continue(n, s) /\ offered[n] # <<>> /\ Len(mac[n].queue) < 2
  BY DEF UpperMsg
<1>3. to \in Node \cup {Multicast}
  BY <1>1, <1>2
<1> HIDE DEF to
<1>4. Sound(s) /\ s.down = NoFrame /\ s.radioState = mac[n].radioState
  BY <1>1, <1>2, <1>3, UpperSound DEF Listens
<1>5. s.radioState = "TRANSMIT" => Current(s, air[n])
  BY <1>1, <1>3, <1>4, UpperCurrent
<1> HIDE DEF s
<1> QED
  BY <1>2, <1>4, <1>5, ContinueCurrent

LEMMA SendingNext == IInv /\ Sending /\ [Next]_vars => Sending'
<1> SUFFICES ASSUME IInv, Sending, [Next]_vars PROVE Sending'
  OBVIOUS
<1>1. CASE Tick
  BY <1>1, TickCurrent
<1>2. ASSUME NEW n \in Node, EndBackoff(n) \/ EndSIFS(n) \/ EndReserve(n)
      PROVE  Sending'
  <2>1. Sound(mac[n]) /\ mac[n].down = NoFrame
    BY DEF IInv
  <2>2. CASE EndBackoff(n)
    <3>1. Expire(n, "endBackoff", BackoffOver(mac[n])) /\ mac[n].endBackoff # Off
      BY <2>2 DEF EndBackoff, Expire, Off
    <3> QED
      BY <2>1, <3>1, BackoffOverSound, ExpireCurrent DEF Timers
  <2>3. CASE EndSIFS(n)
    <3>1. Expire(n, "endSIFS", SIFSOver(mac[n])) /\ mac[n].endSIFS # Off
      BY <2>3 DEF EndSIFS, Expire, Off
    <3> QED
      BY <2>1, <3>1, SIFSSound, ExpireCurrent DEF Timers
  <2>4. CASE EndReserve(n)
    <3> DEFINE s == ReserveOver(mac[n])
    <3>1. Expire(n, "endReserve", s) /\ Handled(mac[n], s)
      BY <2>1, <2>4, ReserveSound DEF EndReserve
    <3>2. mac[n].radioState = "TRANSMIT" => Current(s, air[n])
      BY <2>1, ReserveCurrent DEF Sending
    <3> HIDE DEF s
    <3>3. /\ Continue(n, s) /\ Sound(s) /\ s.radioState = mac[n].radioState
          /\ s.down # NoFrame => s.radioState # "TRANSMIT" /\ Carries(s)
      BY <3>1 DEF Expire, Handled
    <3> QED
      BY <3>2, <3>3, ContinueCurrent
  <2> QED
    BY <1>2, <2>2, <2>3, <2>4
<1>3. ASSUME NEW n \in Node, NEW c \in Nat, EndAIFS(n, c) \/ EndDIFS(n, c) \/ EndTimeout(n, c)
      PROVE  Sending'
  <2>1. Sound(mac[n]) /\ mac[n].down = NoFrame
    BY DEF IInv
  <2>2. CASE EndAIFS(n, c)
    <3>1. Expire(n, "endAIFS", AIFSOver(mac[n], c)) /\ mac[n].endAIFS # Off
      BY <2>2 DEF EndAIFS, Expire, Off
    <3> QED
      BY <2>1, <3>1, AIFSSound, ExpireCurrent DEF Timers
  <2>3. CASE EndDIFS(n, c)
    <3>1. Expire(n, "endDIFS", DIFSOver(mac[n], c)) /\ mac[n].endDIFS # Off
      BY <2>3 DEF EndDIFS, Expire, Off
    <3> QED
      BY <2>1, <3>1, DIFSSound, ExpireCurrent DEF Timers
  <2>4. CASE EndTimeout(n, c)
    <3>1. Expire(n, "endTimeout", TimeoutOver(mac[n], c)) /\ mac[n].endTimeout # Off
      BY <2>4 DEF EndTimeout, Expire, Off
    <3> QED
      BY <2>1, <3>1, TimeoutSound, ExpireCurrent DEF Timers
  <2> QED
    BY <1>3, <2>2, <2>3, <2>4
<1>4. ASSUME NEW n \in Node, NEW m \in Node,
             ReceptionStart(n, m) \/ NoiseEnd(n, m) \/ TransmissionOver(n)
      PROVE  Sending'
  BY <1>4, ReceptionCurrent
<1>5. ASSUME NEW n \in Node, NEW m \in Node, NEW failed \in BOOLEAN, NEW c \in Nat,
             ReceptionEnd(n, m, failed, c)
      PROVE  Sending'
  BY <1>5, ReceptionEndCurrent
<1>6. ASSUME NEW n \in Node, UpperMsg(n)
      PROVE  Sending'
  BY <1>6, UpperMsgCurrent
<1>7. CASE UNCHANGED vars
  BY <1>7 DEF vars, Sending
<1>8. Draws \subseteq Nat
  BY LimitAssumption DEF Draws
<1> QED
  BY <1>1, <1>2, <1>3, <1>4, <1>5, <1>6, <1>7, <1>8 DEF Next

-----------------------------------------------------------------------------
(* The theorems.                                                           *)

(* No ASSERT of the MAC is false (the state of the retry counter and of    *)
(* the backoff, a queue that is not empty when a frame is sent), and the   *)
(* radio is never asked to send while it sends (Radio.cc:427).             *)
THEOREM MacNeverFails == Spec => []FaultFree
<1>1. IInv => FaultFree
  BY DEF IInv, Sound, Settled, FaultFree
<1> QED
  BY <1>1, Invariance, PTL

(* A timer runs exactly in the state that waits for it, and so ends no     *)
(* later wait: each state of handleWithFSM() cancels what it started.      *)
THEOREM MacTimersFollowState == Spec => []TimersFollowState
<1>1. IInv => TimersFollowState
  BY DEF IInv, Sound, Settled, TimersFollowState
<1> QED
  BY <1>1, Invariance, PTL

(* A station contends for the medium only while it is free, and defers     *)
(* only while it is not, whatever frames and reservations it has heard.    *)
THEOREM MacContendsWhenFree == Spec => []ContendsWhenFree
<1>1. IInv => ContendsWhenFree
  BY DEF IInv, Sound, Settled, Tuned, ContendsWhenFree
<1> QED
  BY <1>1, Invariance, PTL

(* The radios alone: what they receive comes from stations, and the bound  *)
(* on the errors holds.                                                    *)
RadiosTyped ==
    /\ recvBuff \in [Node -> SUBSET Node]
    /\ receiving \in [Node -> Node \cup {Nobody}]
    /\ noisy \in [Node -> BOOLEAN]
    /\ errors \in 0 .. MaxErrors

LEMMA RadiosTypedNext == RadiosTyped /\ [Next]_vars => RadiosTyped'
<1> SUFFICES ASSUME RadiosTyped, [Next]_vars PROVE RadiosTyped'
  OBVIOUS
<1>1. ASSUME NEW n \in Node, NEW m \in Node, ReceptionStart(n, m)
      PROVE  RadiosTyped'
  <2>1. recvBuff' = [recvBuff EXCEPT ![n] = @ \cup {m}] /\ errors' = errors
    BY <1>1 DEF ReceptionStart
  <2>2. receiving' = receiving \/ receiving' = [receiving EXCEPT ![n] = m]
    BY <1>1 DEF ReceptionStart
  <2>3. \E b \in BOOLEAN : noisy' = [noisy EXCEPT ![n] = b]
    <3> DEFINE receives == mac[n].radioState # "TRANSMIT" /\ receiving[n] = Nobody
               b == IF receives THEN recvBuff[n] # {} ELSE receiving[n] # Nobody
    <3>1. noisy' = [noisy EXCEPT ![n] = b]
      BY <1>1 DEF ReceptionStart
    <3>2. b \in BOOLEAN
      OBVIOUS
    <3> HIDE DEF b
    <3> QED
      BY <3>1, <3>2
  <2> QED
    BY <2>1, <2>2, <2>3 DEF RadiosTyped
<1>2. ASSUME NEW n \in Node, NEW m \in Node, NEW failed \in BOOLEAN, NEW c \in Draws,
             ReceptionEnd(n, m, failed, c)
      PROVE  RadiosTyped'
  <2>1. /\ recvBuff' = [recvBuff EXCEPT ![n] = @ \ {m}]
        /\ receiving' = [receiving EXCEPT ![n] = Nobody]
        /\ noisy' = [noisy EXCEPT ![n] = FALSE]
        /\ failed => noisy[n] \/ errors < MaxErrors
        /\ errors' = IF failed /\ ~noisy[n] THEN errors + 1 ELSE errors
    BY <1>2 DEF ReceptionEnd
  <2>2. errors' \in 0 .. MaxErrors
    BY <2>1, RangeAssumption DEF RadiosTyped
  <2> QED
    BY <2>1, <2>2 DEF RadiosTyped
<1>3. ASSUME NEW n \in Node, NEW m \in Node, NoiseEnd(n, m)
      PROVE  RadiosTyped'
  BY <1>3 DEF NoiseEnd, RadiosTyped
<1>4. ASSUME NEW n \in Node, TransmissionOver(n) \/ UpperMsg(n)
      PROVE  RadiosTyped'
  BY <1>4 DEF TransmissionOver, UpperMsg, RadiosTyped
<1>5. ASSUME NEW n \in Node, NEW timer, NEW s, Expire(n, timer, s)
      PROVE  RadiosTyped'
  <2>1. /\ receiving' = receiving \/ receiving' = [receiving EXCEPT ![n] = Nobody]
        /\ recvBuff' = recvBuff /\ noisy' = noisy /\ errors' = errors
    BY <1>5 DEF Expire, StopsReceiving
  <2> QED
    BY <2>1 DEF RadiosTyped
<1>6. CASE Tick
  BY <1>6 DEF Tick, RadiosTyped
<1>7. CASE UNCHANGED vars
  BY <1>7 DEF vars, RadiosTyped
<1>8. ASSUME NEW n \in Node, NEW c \in Draws,
             \/ EndBackoff(n) \/ EndSIFS(n) \/ EndReserve(n)
             \/ EndAIFS(n, c) \/ EndDIFS(n, c) \/ EndTimeout(n, c)
      PROVE  RadiosTyped'
  BY <1>5, <1>8 DEF EndBackoff, EndSIFS, EndReserve, EndAIFS, EndDIFS, EndTimeout
<1>9. 0 \in Draws
  BY LimitAssumption DEF Draws
<1> QED
  BY <1>1, <1>2, <1>3, <1>4, <1>6, <1>7, <1>8, <1>9 DEF Next

(* Every field keeps its type and its range: a backoff period is no more   *)
(* slots than can be drawn, no timer is set beyond the longest wait, the   *)
(* retry counter stays below its limit, and the queue holds no more than   *)
(* the two frames that were asked for.                                     *)
THEOREM MacTypeCorrect == Spec => []TypeOK
<1>1. Init => RadiosTyped
  BY RangeAssumption DEF Init, RadiosTyped
<1>2. IInv /\ RadiosTyped => TypeOK
  <2> SUFFICES ASSUME IInv, RadiosTyped PROVE TypeOK
    OBVIOUS
  <2>1. ASSUME NEW n \in Node
        PROVE  /\ mac[n].state \in {"IDLE", "DEFER", "WAITAIFS", "BACKOFF", "WAITACK",
                                    "WAITMULTICAST", "WAITCTS", "WAITSIFS"}
               /\ mac[n].radioState \in {"IDLE", "RECV", "TRANSMIT"}
               /\ Len(mac[n].queue) <= 2
               /\ mac[n].retryCounter \in 0 .. transmissionLimit - 1
               /\ mac[n].backoff \in BOOLEAN /\ mac[n].lastReceiveFailed \in BOOLEAN
               /\ mac[n].backoffPeriod = Invalid \/ mac[n].backoffPeriod \div Slot \in Draws
               /\ \A timer \in Timers : mac[n][timer] \in TimerRange
               /\ mac[n].down = NoFrame /\ mac[n].up = NoFrame
    <3>1. mac[n] \in StationRecord /\ mac[n].down = NoFrame /\ mac[n].up = NoFrame
      BY DEF IInv, Sound, Settled
    <3>2. mac[n].queue \in Queues /\ mac[n].backoffPeriod \in Periods \cup {Invalid}
      BY <3>1 DEF StationRecord
    <3>3. \A timer \in Timers : mac[n][timer] \in TimerRange
      BY <3>1 DEF StationRecord, Timers, Time
    <3> QED
      BY <3>1, <3>2, <3>3 DEF StationRecord, Queues, Periods, InWindow
  <2> QED
    BY <2>1 DEF TypeOK, RadiosTyped
<1> QED
  BY <1>1, <1>2, RadiosTypedNext, Invariance, PTL DEF Spec

(* A station works on one frame at a time: the data frame it has in the    *)
(* air is the one at the head of its queue, and the timer after which the  *)
(* MAC retries it or drops it (scheduleDataTimeoutPeriod,                  *)
(* scheduleMulticastTimeoutPeriod) does not expire before it has left.     *)
THEOREM MacOneFrameAtATime == Spec => []OneFrameAtATime
<1>1. Init => Sending
  BY DEF Init, initialStation, Sending
<1>2. IInv /\ Sending => OneFrameAtATime
  BY DEF Sending, Current, OneFrameAtATime
<1> QED
  BY <1>1, <1>2, SendingNext, Invariance, PTL DEF Spec

-----------------------------------------------------------------------------
(* The delivery of frames. First what the functions on a station record    *)
(* change of what the delivery depends on.                                 *)

(* The duplicate filter, the numbering and what is on its way between the  *)
(* MAC and its neighbours are kept; and so are the queue and what has been *)
(* sent.                                                                   *)
KeepsOthers(s, t) ==
    /\ t.asfTuplesList = s.asfTuplesList /\ t.sequenceNumber = s.sequenceNumber
    /\ t.down = s.down /\ t.up = s.up
Keeps(s, t) == KeepsOthers(s, t) /\ t.queue = s.queue /\ t.numSent = s.numSent

(* The station is idle, defers, or has just begun to wait for the medium.  *)
Begins(t) ==
    /\ t.state \in {"IDLE", "DEFER", "WAITAIFS"}
    /\ t.endAIFS # Off => t.endAIFS > Sifs
    /\ t.endDIFS # Off => t.endDIFS > Sifs

(* The station waits for what it waited for.                               *)
Stays(s, t) ==
    /\ t.state = s.state /\ t.frameBeforeSIFS = s.frameBeforeSIFS
    /\ t.endSIFS = s.endSIFS /\ t.endTimeout = s.endTimeout
    /\ t.endAIFS \in {s.endAIFS, s.endDIFS, Off} /\ t.endDIFS \in {s.endDIFS, Off}

Moves(s, t) ==
    \/ Stays(s, t)
    \/ Begins(t) /\ s.state \in {"IDLE", "DEFER", "WAITAIFS", "BACKOFF"}

LEMMA SpaceLonger ==
    ASSUME Spaced
    PROVE  getAIFS > Sifs /\ getEIFS > Sifs
<1>1. Sifs \in Nat /\ Slot \in Nat \ {0} /\ Aifsn \in Nat \ {0} /\ ControlTime \in Nat
  BY TimeAssumption, LimitAssumption DEF Spaced
<1>2. \A x, y \in Nat \ {0} : x * y \in Nat \ {0}
  OBVIOUS
<1>3. Aifsn * Slot \in Nat \ {0}
  BY <1>1, <1>2
<1> QED
  BY <1>1, <1>3 DEF getAIFS, getEIFS

LEMMA WaitAIFSBegins ==
    ASSUME Spaced, NEW s, Still(s)
    PROVE  Begins(WaitAIFS(s)) /\ Keeps(s, WaitAIFS(s))
<1> DEFINE wait == IF s.lastReceiveFailed THEN getEIFS ELSE getAIFS
           timed == IF s.queue # <<>> THEN [s EXCEPT !.endAIFS = wait] ELSE [s EXCEPT !.endDIFS = wait]
           waiting == [timed EXCEPT !.state = "WAITAIFS"]
           still == cancelAIFSPeriod(waiting)
           busy == Busy(waiting)
<1>1. wait \in Time /\ wait # Off /\ wait > Sifs
  BY WaitNatural, WaitsAreTimes, SpaceLonger DEF Off
<1>2. scheduleAIFSPeriod(s) = timed /\ s \in StationRecord
  BY DEF scheduleAIFSPeriod, Still
<1> HIDE DEF wait
<1>3. /\ timed \in StationRecord /\ Keeps(s, timed)
      /\ timed.endAIFS \in {Off, wait} /\ timed.endDIFS \in {Off, wait}
  BY <1>1, <1>2, EndAIFSSet, EndDIFSSet DEF Still, Keeps, KeepsOthers, SameBut
<1>4. WaitAIFS(s) = IF isMediumFree(s) THEN waiting ELSE busy
  BY <1>2 DEF WaitAIFS
<1> HIDE DEF timed
<1>5. /\ waiting \in StationRecord /\ waiting.state = "WAITAIFS" /\ Keeps(s, waiting)
      /\ waiting.endAIFS \in {Off, wait} /\ waiting.endDIFS \in {Off, wait}
  BY <1>3, StateSet DEF Keeps, KeepsOthers, SameBut
<1> HIDE DEF waiting
<1>6. still \in StationRecord /\ Keeps(s, still) /\ still.endAIFS = Off /\ still.endDIFS = Off
  BY <1>5, AIFSCancelled DEF Keeps, KeepsOthers, SameBut
<1>7. \E back : busy = [still EXCEPT !.state = "DEFER", !.backoff = back]
  BY <1>6 DEF Busy
<1> HIDE DEF still, busy
<1>8. busy.state = "DEFER" /\ Keeps(s, busy) /\ busy.endAIFS = Off /\ busy.endDIFS = Off
  BY <1>6, <1>7 DEF Keeps, KeepsOthers, StationRecord
<1> QED
  BY <1>1, <1>4, <1>5, <1>8 DEF Begins

LEMMA DeferBegins ==
    ASSUME Spaced, NEW s, Still(s)
    PROVE  Begins(Defer(s)) /\ Keeps(s, Defer(s))
<1> DEFINE deferred == [s EXCEPT !.state = "DEFER"]
<1>1. Begins(deferred) /\ Keeps(s, deferred)
  BY DEF Still, StationRecord, Begins, Keeps, KeepsOthers
<1>2. Defer(s) = WaitAIFS(s) \/ Defer(s) = deferred
  BY DEF Defer
<1> HIDE DEF deferred
<1> QED
  BY <1>1, <1>2, WaitAIFSBegins

LEMMA IdleBegins ==
    ASSUME Spaced, NEW s, Still(s)
    PROVE  Begins(Idle(s)) /\ Keeps(s, Idle(s))
<1> DEFINE idle == [s EXCEPT !.state = "IDLE"]
<1>1. Begins(idle) /\ Keeps(s, idle)
  BY DEF Still, StationRecord, Begins, Keeps, KeepsOthers
<1>2. Idle(s) = Defer(s) \/ Idle(s) = idle
  BY DEF Idle
<1> HIDE DEF idle
<1> QED
  BY <1>1, <1>2, DeferBegins

(* A change of the medium keeps all that, and moves the station at most    *)
(* between idling, deferring and the wait for a free medium.               *)
LEMMA MediumMoves ==
    ASSUME Spaced, NEW s, Settled(s)
    PROVE  Keeps(s, mediumStateChange(s)) /\ Moves(s, mediumStateChange(s))
<1> DEFINE t == mediumStateChange(s)
           still == cancelAIFSPeriod(s)
           less == decreaseBackoffPeriod(still)
           none == cancelBackoffPeriod(less)
<1>1. /\ still \in StationRecord /\ still.endAIFS = Off /\ still.endDIFS = Off /\ Keeps(s, still)
      /\ s \in StationRecord
  BY AIFSCancelled DEF Settled, SameBut, Keeps, KeepsOthers
<1>2. CASE s.state = "DEFER" /\ isMediumFree(s)
  <2>1. Still(s)
    BY <1>2 DEF Settled, Still
  <2>2. t = WaitAIFS(s)
    BY <1>2 DEF mediumStateChange
  <2> QED
    BY <1>2, <2>1, <2>2, WaitAIFSBegins DEF Moves
<1>3. CASE s.state = "WAITAIFS" /\ ~isMediumFree(s)
  <2>1. \E back : t = [still EXCEPT !.state = "DEFER", !.backoff = back]
    BY <1>3 DEF mediumStateChange, Busy
  <2> HIDE DEF t, still
  <2>2. t.state = "DEFER" /\ t.endAIFS = Off /\ t.endDIFS = Off /\ Keeps(s, t)
    BY <1>1, <2>1 DEF StationRecord, Keeps, KeepsOthers
  <2> QED
    BY <1>3, <2>2 DEF Moves, Begins, t
<1>4. CASE s.state = "BACKOFF" /\ ~isMediumFree(s)
  <2> HIDE DEF still
  <2>1. \E left, b : less = still \/ less = [still EXCEPT !.backoffPeriod = left, !.failed = b]
    BY <1>1 DEF decreaseBackoffPeriod, assert, StationRecord
  <2>2. t = [none EXCEPT !.state = "DEFER"]
    BY <1>4 DEF mediumStateChange, still
  <2> HIDE DEF less, t
  <2>3. t = [[less EXCEPT !.endBackoff = Off] EXCEPT !.state = "DEFER"]
    BY <2>2 DEF cancelBackoffPeriod
  <2>4. t.state = "DEFER" /\ t.endAIFS = Off /\ t.endDIFS = Off /\ Keeps(s, t)
    BY <1>1, <2>1, <2>3 DEF StationRecord, Keeps, KeepsOthers
  <2> QED
    BY <1>4, <2>4 DEF Moves, Begins, t
<1>5. CASE /\ ~(s.state = "DEFER" /\ isMediumFree(s))
           /\ ~(s.state = "WAITAIFS" /\ ~isMediumFree(s))
           /\ ~(s.state = "BACKOFF" /\ ~isMediumFree(s))
  <2>1. t = s
    BY <1>5 DEF mediumStateChange
  <2> QED
    BY <2>1 DEF Moves, Stays, Keeps, KeepsOthers
<1> QED
  BY <1>2, <1>3, <1>4, <1>5

LEMMA MovesOn ==
    ASSUME NEW s, NEW t, NEW u, Moves(s, t), Moves(t, u), Keeps(s, t), Keeps(t, u)
    PROVE  Keeps(s, u) /\ Moves(s, u)
BY DEF Moves, Keeps, KeepsOthers, Stays, Begins

LEMMA RadioMoves ==
    ASSUME Spaced, NEW s, Settled(s), NEW new \in {"IDLE", "RECV", "TRANSMIT"}
    PROVE  Keeps(s, setRadioState(s, new)) /\ Moves(s, setRadioState(s, new))
<1> DEFINE changed == [s EXCEPT !.radioState = new]
<1>1. /\ Settled(changed) \/ (changed.state = "WAITSIFS" /\ new = "TRANSMIT")
      /\ Keeps(s, changed) /\ Stays(s, changed) /\ changed.endDIFS = s.endDIFS
      /\ changed.endAIFS = s.endAIFS
  BY DEF Settled, StationRecord, Keeps, KeepsOthers, Stays
<1> HIDE DEF changed
<1>2. setRadioState(s, new) = mediumStateChange(changed)
  BY DEF setRadioState, changed
<1>3. CASE changed.state = "WAITSIFS"
  <2>1. mediumStateChange(changed) = changed
    BY <1>3 DEF mediumStateChange
  <2> QED
    BY <1>1, <1>2, <2>1 DEF Moves
<1>4. CASE changed.state # "WAITSIFS"
  <2>1. Keeps(changed, mediumStateChange(changed)) /\ Moves(changed, mediumStateChange(changed))
    BY <1>1, <1>4, MediumMoves
  <2> QED
    BY <1>1, <1>2, <2>1 DEF Keeps, KeepsOthers, Moves, Stays, Begins
<1> QED
  BY <1>3, <1>4

-----------------------------------------------------------------------------
(* The end of a transmission.                                              *)

(* The frame at the head of the queue is tried again, or dropped.          *)
Tries(s, t) ==
    KeepsOthers(s, t) /\ t.queue \in {s.queue, Tail(s.queue)} /\ t.numSent = s.numSent
(* The frame at the head of the queue counts as sent and leaves it.        *)
Finishes(s, t) ==
    /\ KeepsOthers(s, t)
    /\ t.queue = Tail(s.queue) /\ t.numSent = s.numSent \cup {Head(s.queue)}

LEMMA ResetKeeps ==
    ASSUME NEW s \in StationRecord
    PROVE  Keeps(s, resetStateVariables(s))
BY DEF resetStateVariables, StationRecord, Keeps, KeepsOthers

LEMMA GenerateKeeps ==
    ASSUME NEW s \in StationRecord, NEW c
    PROVE  /\ Keeps(s, generateBackoffPeriod(s, c))
           /\ Keeps(s, generateIfInvalid(s, c))
<1>1. \E b, p : generateBackoffPeriod(s, c) = [s EXCEPT !.failed = b, !.backoffPeriod = p]
  BY DEF generateBackoffPeriod, assert
<1>2. Keeps(s, generateBackoffPeriod(s, c))
  BY <1>1 DEF StationRecord, Keeps, KeepsOthers
<1> QED
  BY <1>2 DEF generateIfInvalid, Keeps, KeepsOthers

LEMMA FinishReceptionKeeps ==
    ASSUME NEW s \in StationRecord
    PROVE  Keeps(s, finishReception(s))
<1>1. Keeps(s, [s EXCEPT !.backoff = TRUE])
  BY DEF StationRecord, Keeps, KeepsOthers
<1> QED
  BY <1>1, ResetKeeps DEF finishReception

LEMMA FinishesFrame ==
    ASSUME NEW s \in StationRecord, s.queue # <<>>
    PROVE  Finishes(s, finishCurrentTransmission(s))
<1> DEFINE head == Head(s.queue)  tail == Tail(s.queue)
           finished == [s EXCEPT !.numSent = @ \cup {head}]
           popped == [finished EXCEPT !.queue = tail]
<1>1. head \in Data /\ tail \in Queues
  BY QueueTail DEF StationRecord
<1>2. finishCurrentTransmission(s) = resetStateVariables(popped)
  BY DEF finishCurrentTransmission, popTransmissionQueue
<1> HIDE DEF head, tail
<1>3. popped \in StationRecord /\ KeepsOthers(s, popped) /\ popped.queue = tail
      /\ popped.numSent = s.numSent \cup {head}
  BY <1>1 DEF StationRecord, KeepsOthers
<1> HIDE DEF popped
<1> QED
  BY <1>2, <1>3, ResetKeeps DEF Finishes, Keeps, KeepsOthers, head, tail

LEMMA TriesAgain ==
    ASSUME NEW s, Still(s), s.queue # <<>>, NEW c \in Nat
    PROVE  Tries(s, retryOrGiveUp(s, c))
<1> DEFINE head == Head(s.queue)  tail == Tail(s.queue)
           givenUp == [s EXCEPT !.numGivenUp = @ \cup {head}]
           popped == [givenUp EXCEPT !.queue = tail]
           tried == [s EXCEPT !.retryCounter = @ + 1, !.backoff = TRUE]
<1>1. head \in Data /\ tail \in Queues /\ s \in StationRecord /\ ~s.failed
  BY QueueTail DEF StationRecord, Still
<1>2. CASE lastTry(s)
  <2>1. retryOrGiveUp(s, c) = resetStateVariables(popped)
    BY <1>2 DEF retryOrGiveUp, giveUpCurrentTransmission, popTransmissionQueue
  <2> HIDE DEF head, tail
  <2>2. popped \in StationRecord /\ KeepsOthers(s, popped) /\ popped.queue = tail
        /\ popped.numSent = s.numSent
    BY <1>1 DEF StationRecord, KeepsOthers
  <2> HIDE DEF popped
  <2> QED
    BY <2>1, <2>2, ResetKeeps DEF Tries, Keeps, KeepsOthers, tail
<1>3. CASE ~lastTry(s)
  <2>1. s.retryCounter < transmissionLimit - 1
    BY <1>1, <1>3, LimitAssumption DEF lastTry, StationRecord
  <2>2. assert(s, s.retryCounter < transmissionLimit - 1) = s
    BY <1>1, <2>1, AssertHolds
  <2>3. retryOrGiveUp(s, c) = generateBackoffPeriod(tried, c)
    BY <1>3, <2>2 DEF retryOrGiveUp, retryCurrentTransmission
  <2>4. tried \in StationRecord /\ Keeps(s, tried)
    <3>1. s.retryCounter + 1 \in 0 .. transmissionLimit - 1
      BY <1>1, <2>1, LimitAssumption DEF StationRecord
    <3> QED
      BY <1>1, <3>1 DEF StationRecord, Keeps, KeepsOthers
  <2> HIDE DEF tried
  <2> QED
    BY <2>3, <2>4, GenerateKeeps DEF Tries, Keeps, KeepsOthers
<1> QED
  BY <1>2, <1>3

LEMMA AttemptFailedTries ==
    ASSUME Spaced, NEW s, Still(s), s.queue # <<>>, NEW c \in Nat
    PROVE  Begins(attemptFailed(s, c)) /\ Tries(s, attemptFailed(s, c))
<1> DEFINE t == retryOrGiveUp(s, c)
<1>1. Still(t) /\ Tries(s, t)
  BY RetryStill, TriesAgain
<1>2. attemptFailed(s, c) = Idle(t) \/ attemptFailed(s, c) = Defer(t)
  BY DEF attemptFailed
<1> HIDE DEF t
<1>3. Begins(Idle(t)) /\ Keeps(t, Idle(t)) /\ Begins(Defer(t)) /\ Keeps(t, Defer(t))
  BY <1>1, IdleBegins, DeferBegins
<1> QED
  BY <1>1, <1>2, <1>3 DEF Tries, Keeps, KeepsOthers

LEMMA FinishedFinishes ==
    ASSUME Spaced, NEW s, Still(s), s.queue # <<>>
    PROVE  LET t == Defer(resetCurrentBackOff(finishCurrentTransmission(s))) IN
           Begins(t) /\ Finishes(s, t)
<1> DEFINE finished == finishCurrentTransmission(s)
           reset == resetCurrentBackOff(finished)
<1>1. Still(finished) /\ Finishes(s, finished)
  BY PopStill, FinishesFrame DEF Still
<1> HIDE DEF finished
<1>2. Still(reset) /\ Keeps(finished, reset)
  BY <1>1, BackOffStill DEF Still, StationRecord, resetCurrentBackOff, Keeps, KeepsOthers
<1> HIDE DEF reset
<1>3. Begins(Defer(reset)) /\ Keeps(reset, Defer(reset))
  BY <1>2, DeferBegins
<1> QED
  BY <1>1, <1>2, <1>3 DEF Finishes, Keeps, KeepsOthers, reset, finished

(* The end of a reception.                                                 *)

(* The frame received will be answered after a SIFS.                       *)
Answers(t, n, f) ==
    /\ t.state = "WAITSIFS" /\ t.endSIFS = Sifs
    /\ t.frameBeforeSIFS = f /\ f.ra = n

(* The frame is handed up unless the duplicate filter knows it; the filter *)
(* notes it, and now and then a frame that other stations sent each other. *)
Notes(s, t, f) == t.asfTuplesList = [s.asfTuplesList EXCEPT ![f.ta] = f.seq]
Takes(s, t, up, n, f) ==
    /\ t.sequenceNumber = s.sequenceNumber /\ t.numSent = s.numSent /\ t.down = s.down
    /\ \/ /\ Begins(t) \/ (Answers(t, n, f) /\ f.type = "RTS")
          /\ t.asfTuplesList = s.asfTuplesList /\ up = s.up
       \/ /\ f.type = "DATA" /\ f.ra \notin {n, Multicast}
          /\ Begins(t)
          /\ Notes(s, t, f) /\ up = s.up
       \/ /\ f.type = "DATA" /\ f.ra \in {n, Multicast}
          /\ IF f.ra = n THEN Answers(t, n, f) ELSE Begins(t)
          /\ IF s.asfTuplesList[f.ta] = f.seq
             THEN t.asfTuplesList = s.asfTuplesList /\ up = s.up
             ELSE Notes(s, t, f) /\ up = f

LEMMA FinishedBegins ==
    ASSUME Spaced, NEW s, Still(s)
    PROVE  Begins(Idle(finishReception(s))) /\ Keeps(s, Idle(finishReception(s)))
<1> DEFINE t == finishReception(s)
<1>1. Still(t) /\ Keeps(s, t)
  BY FinishReceptionStill, FinishReceptionKeeps DEF Still
<1> HIDE DEF t
<1>2. Begins(Idle(t)) /\ Keeps(t, Idle(t))
  BY <1>1, IdleBegins
<1> QED
  BY <1>1, <1>2 DEF Keeps, KeepsOthers, t

LEMMA SendUpNotes ==
    ASSUME NEW s, Still(s), NEW f \in Data
    PROVE  /\ LET t == sendUp(s, f) IN
              /\ t.sequenceNumber = s.sequenceNumber /\ t.numSent = s.numSent
              /\ t.down = s.down /\ t.queue = s.queue
              /\ IF s.asfTuplesList[f.ta] = f.seq
                 THEN t.asfTuplesList = s.asfTuplesList /\ t.up = s.up
                 ELSE Notes(s, t, f) /\ t.up = f
           /\ LET t == promiscousFrame(s, f) IN
              /\ t.sequenceNumber = s.sequenceNumber /\ t.numSent = s.numSent
              /\ t.down = s.down /\ t.queue = s.queue
              /\ Notes(s, t, f) /\ t.up = s.up
<1> DEFINE filter == [s.asfTuplesList EXCEPT ![f.ta] = f.seq]
<1>1. /\ sendUp(s, f) = IF s.asfTuplesList[f.ta] = f.seq THEN s
                        ELSE [s EXCEPT !.asfTuplesList = filter, !.up = f]
      /\ promiscousFrame(s, f) = [s EXCEPT !.asfTuplesList = filter]
  BY DEF sendUp, isDuplicated, promiscousFrame, Still, StationRecord
<1>2. \A t : Notes(s, t, f) <=> t.asfTuplesList = filter
  BY DEF Notes
<1> HIDE DEF filter
<1> QED
  BY <1>1, <1>2 DEF Still, StationRecord

LEMMA WaitSIFSAnswers ==
    ASSUME NEW s, Still(s), NEW f, NEW n, f.ra = n
    PROVE  Answers(WaitSIFS(s, f), n, f) /\ Keeps(s, WaitSIFS(s, f))
BY DEF WaitSIFS, Answers, Still, StationRecord, Keeps, KeepsOthers

LEMMA ReceiveTakes ==
    ASSUME Spaced, NEW s, Still(s), NEW n \in Node, NEW f \in Frame, NEW failed \in BOOLEAN
    PROVE  LET t == Receive(s, n, f, failed) IN
           t.queue = s.queue /\ Takes(s, t, t.up, n, f)
<1> DEFINE t == Receive(s, n, f, failed)
<1>1. f.type = "DATA" => f \in Data
  BY DEF Frame, Data, Rts, Answer
<1>2. CASE failed
  <2>1. t = Idle(finishReception(s))
    BY <1>2 DEF Receive
  <2> QED
    BY <2>1, FinishedBegins DEF Takes, Keeps, KeepsOthers
<1>3. CASE ~failed /\ f.type = "DATA" /\ f.ra = Multicast
  <2>1. t = Idle(finishReception(sendUp(s, f)))
    BY <1>3, StationAssumption DEF Receive
  <2> HIDE DEF t
  <2>2. Begins(t) /\ Keeps(sendUp(s, f), t)
    BY <1>1, <1>3, <2>1, HandUpStill, FinishedBegins
  <2>3. f.ra # n
    BY <1>3, StationAssumption
  <2> QED
    BY <1>1, <1>3, <2>2, <2>3, SendUpNotes DEF Takes, Keeps, KeepsOthers, Notes, t
<1>4. CASE ~failed /\ f.type = "DATA" /\ f.ra = n
  <2>1. t = WaitSIFS(sendUp(s, f), f)
    BY <1>4, StationAssumption DEF Receive
  <2> HIDE DEF t
  <2>2. Answers(t, n, f) /\ Keeps(sendUp(s, f), t)
    BY <1>1, <1>4, <2>1, HandUpStill, WaitSIFSAnswers
  <2> QED
    BY <1>1, <1>4, <2>2, SendUpNotes DEF Takes, Keeps, KeepsOthers, Notes, t
<1>5. CASE ~failed /\ f.type = "RTS" /\ f.ra = n
  <2>1. t = WaitSIFS(s, f)
    BY <1>5 DEF Receive
  <2> QED
    BY <1>5, <2>1, WaitSIFSAnswers DEF Takes, Keeps, KeepsOthers
<1>6. CASE /\ ~failed /\ ~(f.type = "RTS" /\ f.ra = n)
           /\ ~(f.type = "DATA" /\ f.ra \in {Multicast, n})
  <2>1. \/ t = Defer(s)
        \/ f.type = "DATA" /\ t = Idle(finishReception(promiscousFrame(s, f)))
        \/ f.type # "DATA" /\ t = Idle(finishReception(s))
    BY <1>6 DEF Receive
  <2> HIDE DEF t
  <2>2. CASE t = Defer(s) \/ t = Idle(finishReception(s))
    BY <2>2, DeferBegins, FinishedBegins DEF Takes, Keeps, KeepsOthers, t
  <2>3. CASE f.type = "DATA" /\ t = Idle(finishReception(promiscousFrame(s, f)))
    <3>1. Begins(t) /\ Keeps(promiscousFrame(s, f), t)
      BY <1>1, <2>3, HandUpStill, FinishedBegins
    <3> QED
      BY <1>1, <1>6, <2>3, <3>1, SendUpNotes DEF Takes, Keeps, KeepsOthers, Notes, t
  <2> QED
    BY <2>1, <2>2, <2>3
<1> QED
  BY <1>2, <1>3, <1>4, <1>5, <1>6

(* What the end of a reception does to a station.                          *)
Receives(s, t, up, n, f) ==
    \/ Keeps(s, t) /\ Moves(s, t) /\ up = s.up
    \/ /\ Takes(s, t, up, n, f)
       /\ \/ t.queue = s.queue
          \/ s.state \in {"WAITACK", "WAITCTS"} /\ t.queue = Tail(s.queue)
    \/ /\ s.state = "WAITACK" /\ f.type = "ACK" /\ f.ra = n
       /\ Begins(t) /\ Finishes(s, t) /\ up = s.up
    \/ /\ s.state = "WAITCTS" /\ f.type = "CTS"
       /\ Answers(t, n, f) /\ Keeps(s, t) /\ up = s.up

LEMMA ReceivesOn ==
    ASSUME NEW s, NEW t, NEW u, NEW v, NEW n, NEW f, Keeps(s, t), Moves(s, t),
           Receives(t, u, u.up, n, f), Keeps(u, v), Moves(u, v)
    PROVE  Receives(s, v, v.up, n, f)
<1>1. /\ Begins(u) => Begins(v)
      /\ Answers(u, n, f) => Answers(v, n, f)
      /\ t.state \in {"WAITACK", "WAITCTS"} => s.state = t.state
  BY DEF Moves, Stays, Begins, Answers
<1>2. CASE Keeps(t, u) /\ Moves(t, u)
  <2>1. Keeps(s, u) /\ Moves(s, u)
    BY <1>2, MovesOn
  <2>2. Keeps(s, v) /\ Moves(s, v)
    BY <2>1, MovesOn
  <2> QED
    BY <2>2 DEF Receives, Keeps, KeepsOthers
<1>3. CASE /\ Takes(t, u, u.up, n, f)
           /\ \/ u.queue = t.queue
              \/ t.state \in {"WAITACK", "WAITCTS"} /\ u.queue = Tail(t.queue)
  <2>1. v.queue = s.queue \/ (s.state \in {"WAITACK", "WAITCTS"} /\ v.queue = Tail(s.queue))
    BY <1>1, <1>3 DEF Keeps
  <2>2. Takes(s, v, v.up, n, f)
    BY <1>1, <1>3 DEF Takes, Notes, Keeps, KeepsOthers
  <2> QED
    BY <2>1, <2>2 DEF Receives
<1>4. CASE /\ t.state = "WAITACK" /\ f.type = "ACK" /\ f.ra = n
           /\ Begins(u) /\ Finishes(t, u)
  BY <1>1, <1>4 DEF Receives, Finishes, Keeps, KeepsOthers
<1>5. CASE /\ t.state = "WAITCTS" /\ f.type = "CTS"
           /\ Answers(u, n, f) /\ Keeps(t, u)
  BY <1>1, <1>5 DEF Receives, Keeps, KeepsOthers
<1> QED
  BY <1>2, <1>3, <1>4, <1>5 DEF Receives

LEMMA NotedKeeps ==
    ASSUME NEW s \in StationRecord, NEW n, NEW f, NEW failed
    PROVE  LET t == scheduleReservePeriod([s EXCEPT !.lastReceiveFailed = failed], n, f) IN
           Keeps(s, t) /\ Stays(s, t)
<1>1. LET heard == [s EXCEPT !.lastReceiveFailed = failed]
          vector == [heard EXCEPT !.endReserve = f.duration]
          t == scheduleReservePeriod(heard, n, f)
      IN  t = heard \/ t = vector
  BY DEF scheduleReservePeriod
<1> QED
  BY <1>1 DEF StationRecord, Keeps, KeepsOthers, Stays

LEMMA LowerReceives ==
    ASSUME Spaced, NEW s, Sound(s), s.radioState # "TRANSMIT", NEW n \in Node, NEW f \in Frame,
           NEW failed \in BOOLEAN, NEW c \in Nat
    PROVE  LET t == handleLowerMsg(s, n, f, failed, c) IN Receives(s, t, t.up, n, f)
<1> DEFINE noted == scheduleReservePeriod([s EXCEPT !.lastReceiveFailed = failed], n, f)
           got == cancelTimeoutPeriod(noted)
           quieter == cancelAIFSPeriod(noted)
           reserved == s.radioState = "IDLE" /\ s.endReserve = Off /\ noted.endReserve # Off
           ack == f.type = "ACK" /\ f.ra = n
           cts == f.type = "CTS" /\ f.ra = n
           handled ==
             CASE s.state \in {"IDLE", "DEFER"} -> Receive(noted, n, f, failed)
               [] s.state = "WAITAIFS" -> Receive(quieter, n, f, failed)
               [] s.state \in {"WAITACK", "WAITCTS"} /\ failed -> attemptFailed(got, c)
               [] s.state = "WAITACK" /\ ~failed /\ f.type = "ACK" /\ f.ra = n ->
                     acknowledged(noted)
               [] s.state = "WAITACK" /\ ~failed /\ ~(f.type = "ACK" /\ f.ra = n) ->
                     Receive(retryOrGiveUp(got, c), n, f, failed)
               [] s.state = "WAITCTS" /\ ~failed /\ f.type = "CTS" /\ f.ra = n ->
                     WaitSIFS(got, f)
               [] OTHER -> noted
<1>1. handleLowerMsg(s, n, f, failed, c) = IF reserved THEN mediumStateChange(handled) ELSE handled
  BY DEF handleLowerMsg
<1>2. /\ Settled(noted) /\ noted.state = s.state /\ noted.radioState = s.radioState
      /\ Keeps(s, noted) /\ Stays(s, noted)
  <2>1. s \in StationRecord
    BY DEF Sound, Settled
  <2>2. Keeps(s, noted) /\ Stays(s, noted)
    BY <2>1, NotedKeeps
  <2> QED
    BY <2>2, NotedSettled DEF Sound, Listens
<1> HIDE DEF noted
<1>3. Settled(handled) /\ Receives(s, handled, handled.up, n, f)
  <2>1. CASE s.state \in {"IDLE", "DEFER"}
    <3>1. handled = Receive(noted, n, f, failed)
      BY <2>1
    <3>2. Still(noted)
      BY <1>2, <2>1 DEF Settled, Still
    <3> HIDE DEF handled
    <3>3. Settled(handled) /\ Takes(noted, handled, handled.up, n, f) /\ handled.queue = noted.queue
      BY <1>2, <3>1, <3>2, ReceiveSound, ReceiveTakes DEF Sound
    <3> QED
      BY <1>2, <3>3 DEF Receives, Takes, Notes, Keeps, KeepsOthers
  <2>2. CASE s.state = "WAITAIFS"
    <3>1. handled = Receive(quieter, n, f, failed)
      BY <2>2
    <3>2. Still(quieter) /\ Keeps(noted, quieter) /\ quieter.radioState = noted.radioState
      BY <1>2, <2>2, AIFSCancelled DEF Settled, Still, Keeps, KeepsOthers, SameBut
    <3> HIDE DEF handled, quieter
    <3>3. Settled(handled) /\ Takes(quieter, handled, handled.up, n, f) /\ handled.queue = quieter.queue
      BY <1>2, <3>1, <3>2, ReceiveSound, ReceiveTakes DEF Sound
    <3> QED
      BY <1>2, <3>2, <3>3 DEF Receives, Takes, Notes, Keeps, KeepsOthers
  <2>3. ASSUME s.state \in {"WAITACK", "WAITCTS"}
        PROVE  /\ Still(got) /\ Keeps(noted, got) /\ got.queue # <<>>
               /\ got.radioState = noted.radioState
    BY <1>2, <2>3, TimeoutCancelled DEF Settled, Still, Keeps, KeepsOthers, SameBut
  <2>4. CASE s.state \in {"WAITACK", "WAITCTS"} /\ failed
    <3>1. handled = attemptFailed(got, c)
      BY <2>4
    <3> HIDE DEF handled, got
    <3>2. Settled(handled) /\ Begins(handled) /\ Tries(got, handled)
      BY <2>3, <2>4, <3>1, AttemptFailedSound, AttemptFailedTries DEF Sound
    <3> QED
      BY <1>2, <2>3, <2>4, <3>2 DEF Receives, Takes, Tries, Keeps, KeepsOthers
  <2>5. CASE s.state = "WAITACK" /\ ~failed /\ ack
    <3>1. handled = Defer(resetCurrentBackOff(finishCurrentTransmission(got)))
      BY <2>5 DEF acknowledged
    <3> HIDE DEF handled, got
    <3>2. Settled(handled) /\ Begins(handled) /\ Finishes(got, handled)
      BY <2>3, <2>5, <3>1, FinishedTransmissionSound, FinishedFinishes DEF Sound
    <3> QED
      BY <1>2, <2>3, <2>5, <3>2 DEF Receives, Finishes, Keeps, KeepsOthers
  <2>6. CASE s.state = "WAITACK" /\ ~failed /\ ~ack
    <3> DEFINE next == retryOrGiveUp(got, c)
    <3>1. handled = Receive(next, n, f, failed)
      BY <2>6
    <3> HIDE DEF handled, got
    <3>2. Still(next) /\ SameFrames(got, next) /\ Tries(got, next)
      BY <2>3, <2>6, RetryStill, TriesAgain
    <3> HIDE DEF next
    <3>3. next.radioState # "TRANSMIT"
      BY <1>2, <2>3, <2>6, <3>2 DEF SameFrames
    <3>4. Settled(handled) /\ Takes(next, handled, handled.up, n, f) /\ handled.queue = next.queue
      BY <3>1, <3>2, <3>3, ReceiveSound, ReceiveTakes DEF Sound
    <3>5. Takes(s, handled, handled.up, n, f)
      BY <1>2, <2>3, <2>6, <3>2, <3>4 DEF Takes, Notes, Tries, Keeps, KeepsOthers
    <3> QED
      BY <1>2, <2>3, <2>6, <3>2, <3>4, <3>5 DEF Receives, Tries, Keeps
  <2>7. CASE s.state = "WAITCTS" /\ ~failed /\ cts
    <3>1. handled = WaitSIFS(got, f)
      BY <2>7
    <3> HIDE DEF handled, got
    <3>2. Settled(handled) /\ Answers(handled, n, f) /\ Keeps(got, handled)
      BY <1>2, <2>3, <2>7, <3>1, WaitSIFSSound, WaitSIFSAnswers DEF Sound
    <3> QED
      BY <1>2, <2>3, <2>7, <3>2 DEF Receives, Keeps, KeepsOthers
  <2>8. CASE /\ s.state \notin {"IDLE", "DEFER", "WAITAIFS", "WAITACK"}
             /\ ~(s.state = "WAITCTS" /\ (failed \/ cts))
    <3>1. handled = noted
      BY <2>8
    <3> HIDE DEF handled
    <3> QED
      BY <1>2, <3>1 DEF Receives, Moves, Keeps, KeepsOthers
  <2> QED
    BY <2>1, <2>2, <2>4, <2>5, <2>6, <2>7, <2>8
<1> HIDE DEF handled
<1>4. Keeps(s, s) /\ Moves(s, s)
  BY DEF Keeps, KeepsOthers, Moves, Stays
<1>5. CASE reserved
  <2> DEFINE t == mediumStateChange(handled)
  <2>1. Keeps(handled, t) /\ Moves(handled, t)
    BY <1>3, MediumMoves
  <2> HIDE DEF t
  <2>2. Receives(s, t, t.up, n, f)
    BY <1>3, <1>4, <2>1, ReceivesOn
  <2> QED
    BY <1>1, <1>5, <2>2 DEF t
<1>6. CASE ~reserved
  BY <1>1, <1>3, <1>6
<1> QED
  BY <1>5, <1>6

-----------------------------------------------------------------------------
(* The timers.                                                             *)

(* The station has the frame at the head of its queue, or an RTS for it,   *)
(* sent.                                                                   *)
Transmits(s, t, down) ==
    /\ s.queue # <<>>
    /\ \/ t.state = "WAITACK" /\ down = Head(s.queue) /\ t.endTimeout = dataTimeout
       \/ /\ t.state = "WAITMULTICAST" /\ down = Head(s.queue) /\ down.ra = Multicast
          /\ t.endTimeout = DataTime
       \/ t.state = "WAITCTS" /\ down = RTSFrame(Head(s.queue))

(* The station answers the frame it has received.                          *)
Replies(s, t, down) ==
    /\ s.state = "WAITSIFS" /\ Begins(t)
    /\ \/ s.frameBeforeSIFS.type = "RTS" /\ down = CTSFrame(s.frameBeforeSIFS)
       \/ s.frameBeforeSIFS.type = "DATA" /\ down = ACKFrame(s.frameBeforeSIFS)

KeepsData(s, t) ==
    /\ t.queue = s.queue /\ t.numSent = s.numSent /\ t.asfTuplesList = s.asfTuplesList
    /\ t.sequenceNumber = s.sequenceNumber /\ t.up = s.up

LEMMA Transmitting ==
    ASSUME NEW s, Still(s), s.queue # <<>>
    PROVE  /\ KeepsData(s, transmit(s)) /\ Transmits(s, transmit(s), transmit(s).down)
           /\ KeepsData(s, sendDataFrame(s)) /\ Transmits(s, sendDataFrame(s), sendDataFrame(s).down)
<1> DEFINE head == Head(s.queue)
<1>1. s \in StationRecord /\ s.endTimeout = Off
  BY DEF Still
<1>2. cancelAIFSPeriod(s) = s
  BY DEF cancelAIFSPeriod, Still, StationRecord
<1>3. ASSUME NEW wait, NEW f, NEW state
      PROVE  LET t == Sends(s, wait, f, state) IN
             KeepsData(s, t) /\ t.state = state /\ t.down = f /\ t.endTimeout = wait
  <2>1. scheduleTimeout(s, wait) = [s EXCEPT !.endTimeout = wait]
    BY <1>1 DEF scheduleTimeout
  <2> QED
    BY <1>1, <2>1 DEF StationRecord, KeepsData, Sends
<1>4. /\ sendDataFrame(s) = Sends(s, dataTimeout, head, "WAITACK")
      /\ sendMulticastFrame(s) = Sends(s, DataTime, head, "WAITMULTICAST")
      /\ sendRTSFrame(s) = Sends(s, ctsTimeout, RTSFrame(head), "WAITCTS")
  BY DEF sendDataFrame, sendMulticastFrame, sendRTSFrame, Sends
<1>5. /\ KeepsData(s, sendDataFrame(s)) /\ Transmits(s, sendDataFrame(s), sendDataFrame(s).down)
      /\ KeepsData(s, sendRTSFrame(s)) /\ Transmits(s, sendRTSFrame(s), sendRTSFrame(s).down)
  BY <1>3, <1>4 DEF Transmits
<1>6. isMulticast(head) => /\ KeepsData(s, sendMulticastFrame(s))
                           /\ Transmits(s, sendMulticastFrame(s), sendMulticastFrame(s).down)
  BY <1>3, <1>4 DEF Transmits, isMulticast
<1> QED
  BY <1>2, <1>5, <1>6 DEF transmit

(* The station counts down a backoff.                                      *)
Contends(s, t) == t.state = "BACKOFF" /\ Keeps(s, t)

LEMMA BackoffContends ==
    ASSUME NEW s \in StationRecord
    PROVE  Contends(s, Backoff(s))
BY DEF Backoff, StationRecord, Contends, Keeps, KeepsOthers

LEMMA AIFSContends ==
    ASSUME NEW s, Sound(s), s.endAIFS # Off, NEW c \in Nat
    PROVE  LET t == AIFSOver(s, c) IN
           Contends(s, t) \/ (KeepsData(s, t) /\ Transmits(s, t, t.down))
<1> DEFINE fired == [s EXCEPT !.endAIFS = Off]
           drawn == generateIfInvalid(fired, c)
<1>1. /\ s \in StationRecord /\ ~s.failed /\ s.queue # <<>>
      /\ s.endDIFS = Off /\ s.endBackoff = Off /\ s.endSIFS = Off /\ s.endTimeout = Off
  BY DEF Sound, Settled, Tuned
<1>2. Still(fired) /\ Keeps(s, fired)
  BY <1>1, EndAIFSSet, OffIsTime DEF Still, SameBut, Keeps, KeepsOthers
<1>3. AIFSOver(s, c) = IF s.backoff THEN Backoff(drawn) ELSE transmit(fired)
  <2>1. assert(fired, TRUE) = fired
    BY <1>2, AssertHolds DEF Still
  <2>2. (s.queue # <<>>) = TRUE
    BY <1>1
  <2> HIDE DEF fired
  <2> QED
    BY <2>1, <2>2 DEF AIFSOver, fired
<1> HIDE DEF fired
<1>4. drawn \in StationRecord /\ Keeps(fired, drawn)
  BY <1>2, GenerateIfInvalidStill, GenerateKeeps DEF Still
<1> HIDE DEF drawn
<1>5. Contends(s, Backoff(drawn))
  BY <1>2, <1>4, BackoffContends DEF Contends, Keeps, KeepsOthers
<1>6. KeepsData(s, transmit(fired)) /\ Transmits(s, transmit(fired), transmit(fired).down)
  BY <1>1, <1>2, Transmitting DEF Keeps, KeepsOthers, KeepsData, Transmits
<1> QED
  BY <1>3, <1>5, <1>6

LEMMA DIFSContends ==
    ASSUME NEW s, Sound(s), s.endDIFS # Off, NEW c \in Nat
    PROVE  Contends(s, DIFSOver(s, c))
<1> DEFINE fired == [s EXCEPT !.endDIFS = Off]
           drawn == generateIfInvalid(fired, c)
<1>1. /\ s \in StationRecord /\ ~s.failed
      /\ s.endAIFS = Off /\ s.endBackoff = Off /\ s.endSIFS = Off /\ s.endTimeout = Off
  BY DEF Sound, Settled, Tuned
<1>2. Still(fired) /\ Keeps(s, fired)
  BY <1>1, EndDIFSSet, OffIsTime DEF Still, SameBut, Keeps, KeepsOthers
<1>3. DIFSOver(s, c) = Backoff(drawn)
  BY DEF DIFSOver
<1> HIDE DEF fired
<1>4. drawn \in StationRecord /\ Keeps(fired, drawn)
  BY <1>2, GenerateIfInvalidStill, GenerateKeeps DEF Still
<1> HIDE DEF drawn
<1> QED
  BY <1>2, <1>3, <1>4, BackoffContends DEF Contends, Keeps, KeepsOthers

LEMMA BackoffTransmits ==
    ASSUME Spaced, NEW s, Sound(s), s.endBackoff # Off
    PROVE  LET t == BackoffOver(s) IN
           (Begins(t) /\ Keeps(s, t)) \/ (KeepsData(s, t) /\ Transmits(s, t, t.down))
<1> DEFINE fired == [s EXCEPT !.endBackoff = Off]
           reset == resetStateVariables(fired)
<1>1. /\ s \in StationRecord /\ ~s.failed
      /\ s.endAIFS = Off /\ s.endDIFS = Off /\ s.endSIFS = Off /\ s.endTimeout = Off
  BY DEF Sound, Settled, Tuned
<1>2. Still(fired) /\ Keeps(s, fired)
  BY <1>1, EndBackoffSet, OffIsTime DEF Still, SameBut, Keeps, KeepsOthers
<1>3. BackoffOver(s) = IF s.queue = <<>> THEN Idle(reset) ELSE transmit(fired)
  BY DEF BackoffOver
<1> HIDE DEF fired
<1>4. Still(reset) /\ Keeps(fired, reset)
  BY <1>2, ResetStill, ResetKeeps DEF Still
<1> HIDE DEF reset
<1>5. Begins(Idle(reset)) /\ Keeps(s, Idle(reset))
  BY <1>2, <1>4, IdleBegins DEF Keeps, KeepsOthers
<1>6. s.queue # <<>> => KeepsData(s, transmit(fired)) /\ Transmits(s, transmit(fired), transmit(fired).down)
  BY <1>2, Transmitting DEF Keeps, KeepsOthers, KeepsData, Transmits
<1> QED
  BY <1>3, <1>5, <1>6

LEMMA SIFSReplies ==
    ASSUME Spaced, NEW s, Sound(s), s.endSIFS # Off
    PROVE  LET t == SIFSOver(s) IN
           /\ KeepsData(s, t)
           /\ \/ Replies(s, t, t.down)
              \/ s.frameBeforeSIFS.type = "CTS" /\ Transmits(s, t, t.down)
<1> DEFINE before == s.frameBeforeSIFS
           ended == [s EXCEPT !.endSIFS = Off]
           fired == [s EXCEPT !.endSIFS = Off, !.frameBeforeSIFS = NoFrame]
<1>1. /\ s \in StationRecord /\ ~s.failed /\ s.state = "WAITSIFS"
      /\ before \in Frame /\ before.type # "ACK"
      /\ before.type = "CTS" => s.queue # <<>>
      /\ s.endAIFS = Off /\ s.endDIFS = Off /\ s.endBackoff = Off /\ s.endTimeout = Off
  BY DEF Sound, Settled, StationRecord
<1> HIDE DEF before
<1>2. Still(fired) /\ Keeps(s, fired)
  <2>1. Still(ended) /\ Keeps(s, ended)
    BY <1>1, EndSIFSSet, OffIsTime DEF Still, SameBut, Keeps, KeepsOthers
  <2>2. fired = [ended EXCEPT !.frameBeforeSIFS = NoFrame]
    OBVIOUS
  <2> HIDE DEF ended, fired
  <2> QED
    BY <2>1, <2>2, FrameBeforeSIFSSet DEF Still, SameBut, Keeps, KeepsOthers
<1> DEFINE answer(f) == Idle(finishReception([fired EXCEPT !.down = f]))
<1>3. /\ before.type = "RTS" => SIFSOver(s) = answer(CTSFrame(before))
      /\ before.type = "CTS" => SIFSOver(s) = sendDataFrame(fired)
      /\ before.type = "DATA" => SIFSOver(s) = answer(ACKFrame(before))
  BY DEF SIFSOver, before
<1> HIDE DEF fired
<1>4. ASSUME NEW f \in Answer
      PROVE  Begins(answer(f)) /\ KeepsData(s, answer(f)) /\ answer(f).down = f
  <2> DEFINE sending == [fired EXCEPT !.down = f]
  <2>1. Still(sending) /\ KeepsData(s, sending) /\ sending.down = f
    BY <1>2, DownSet DEF Still, SameBut, Frame, Keeps, KeepsOthers, KeepsData
  <2> HIDE DEF sending
  <2>2. LET t == Idle(finishReception(sending)) IN Begins(t) /\ Keeps(sending, t)
    BY <2>1, FinishedBegins
  <2> QED
    BY <2>1, <2>2 DEF sending, KeepsData, Keeps, KeepsOthers
<1>5. CASE before.type = "RTS"
  <2>1. before.ta \in Node /\ before.duration \in Reservation
    BY <1>1, <1>5 DEF Frame, Data, Rts, Answer
  <2>2. before.duration - Sifs - ControlTime \in Reservation
    BY <2>1, WaitsAreTimes, TimeAssumption DEF Reservation
  <2>3. CTSFrame(before) \in Answer
    BY <2>1, <2>2 DEF CTSFrame, Answer
  <2> HIDE DEF answer
  <2> QED
    BY <1>1, <1>3, <1>4, <1>5, <2>3 DEF Replies, before
<1>6. CASE before.type = "CTS"
  BY <1>1, <1>2, <1>3, <1>6, Transmitting DEF Keeps, KeepsOthers, KeepsData, Transmits, before
<1>7. CASE before.type = "DATA"
  <2>1. before.ta \in Node
    BY <1>1, <1>7 DEF Frame, Data, Rts, Answer
  <2>2. ACKFrame(before) \in Answer
    BY <2>1, WaitsAreTimes DEF ACKFrame, Answer
  <2> HIDE DEF answer
  <2> QED
    BY <1>1, <1>3, <1>4, <1>7, <2>2 DEF Replies, before
<1>8. before.type \in {"RTS", "CTS", "DATA"}
  BY <1>1 DEF Frame, Data, Rts, Answer
<1> QED
  BY <1>5, <1>6, <1>7, <1>8

(* The wait for an answer is over, or a little longer.                     *)
GivesUp(s, t) ==
    \/ s.state \in {"WAITACK", "WAITCTS"} /\ Begins(t) /\ Tries(s, t)
    \/ s.state = "WAITMULTICAST" /\ Begins(t) /\ Finishes(s, t)
    \/ s.state = "WAITACK" /\ t.state = "WAITACK" /\ Keeps(s, t) /\ t.endTimeout = ControlTime

LEMMA TimeoutGivesUp ==
    ASSUME Spaced, NEW s, Sound(s), s.endTimeout # Off, NEW c \in Nat
    PROVE  GivesUp(s, TimeoutOver(s, c)) /\ s.queue # <<>>
<1> DEFINE fired == [s EXCEPT !.endTimeout = Off]
           postponed == [s EXCEPT !.endTimeout = ControlTime]
<1>1. /\ s \in StationRecord /\ ~s.failed /\ s.state \in {"WAITACK", "WAITCTS", "WAITMULTICAST"}
      /\ s.endAIFS = Off /\ s.endDIFS = Off /\ s.endBackoff = Off /\ s.endSIFS = Off
      /\ s.queue # <<>>
  BY DEF Sound, Settled
<1>2. Still(fired) /\ Keeps(s, fired)
  BY <1>1, EndTimeoutSet, OffIsTime DEF Still, SameBut, Keeps, KeepsOthers
<1>3. CASE timeoutPostponed(s)
  <2>1. TimeoutOver(s, c) = postponed /\ s.state = "WAITACK"
    BY <1>1, <1>3 DEF TimeoutOver, timeoutPostponed
  <2>2. Keeps(s, postponed) /\ postponed.state = s.state /\ postponed.endTimeout = ControlTime
    BY <1>1 DEF StationRecord, Keeps, KeepsOthers
  <2> QED
    BY <1>1, <2>1, <2>2 DEF GivesUp
<1>4. CASE ~timeoutPostponed(s) /\ s.state \in {"WAITACK", "WAITCTS"}
  <2>1. TimeoutOver(s, c) = attemptFailed(fired, c)
    BY <1>4 DEF TimeoutOver
  <2> HIDE DEF fired
  <2>2. LET t == attemptFailed(fired, c) IN Begins(t) /\ Tries(s, t)
    BY <1>1, <1>2, AttemptFailedTries DEF Keeps, KeepsOthers, Tries
  <2> QED
    BY <1>1, <1>4, <2>1, <2>2 DEF GivesUp
<1>5. CASE s.state = "WAITMULTICAST"
  <2>1. TimeoutOver(s, c) = Defer(resetCurrentBackOff(finishCurrentTransmission(fired)))
    BY <1>5 DEF TimeoutOver, timeoutPostponed
  <2> HIDE DEF fired
  <2>2. LET t == TimeoutOver(s, c) IN Begins(t) /\ Finishes(s, t)
    BY <1>1, <1>2, <2>1, FinishedFinishes DEF Keeps, KeepsOthers, Finishes
  <2> QED
    BY <1>1, <1>5, <2>2 DEF GivesUp
<1> QED
  BY <1>1, <1>3, <1>4, <1>5

LEMMA ReserveMoves ==
    ASSUME Spaced, NEW s, Sound(s)
    PROVE  Keeps(s, ReserveOver(s)) /\ Moves(s, ReserveOver(s))
<1> DEFINE fired == [s EXCEPT !.endReserve = Off]
<1>1. fired \in StationRecord /\ SameBut(s, fired, {"endReserve"})
  BY EndReserveSet, OffIsTime DEF Sound, Settled
<1>2. ReserveOver(s) = IF s.radioState = "IDLE" THEN mediumStateChange(fired) ELSE fired
  BY DEF ReserveOver
<1> HIDE DEF fired
<1>3. Settled(fired) /\ Keeps(s, fired) /\ Moves(s, fired)
  BY <1>1 DEF Sound, Settled, SameBut, Keeps, KeepsOthers, Moves, Stays
<1>4. Keeps(fired, mediumStateChange(fired)) /\ Moves(fired, mediumStateChange(fired))
  BY <1>3, MediumMoves
<1> QED
  BY <1>2, <1>3, <1>4, MovesOn

(* A frame from above is numbered and joins the queue.                     *)
Joins(s, t, n, to) ==
    /\ t.queue = Append(s.queue, DataFrame(n, to, s.sequenceNumber))
    /\ t.sequenceNumber = (s.sequenceNumber + 1) % 4096
    /\ t.numSent = s.numSent /\ t.asfTuplesList = s.asfTuplesList
    /\ t.down = s.down /\ t.up = s.up

LEMMA UpperJoins ==
    ASSUME Spaced, NEW s, Sound(s), Len(s.queue) < 2,
           NEW n \in Node, NEW to \in Node \cup {Multicast}
    PROVE  LET t == handleUpperMsg(s, n, to) IN Joins(s, t, n, to) /\ Moves(s, t)
<1> DEFINE frame == DataFrame(n, to, s.sequenceNumber)
           queue == Append(s.queue, frame)
           number == (s.sequenceNumber + 1) % 4096
           queued == [s EXCEPT !.queue = queue, !.sequenceNumber = number]
           first == [queued EXCEPT !.backoffPeriod = Invalid]
           joined == [queued EXCEPT !.endAIFS = s.endDIFS, !.endDIFS = Off]
<1>1. s \in StationRecord /\ ~s.failed
  BY DEF Sound, Settled
<1>2. s.sequenceNumber \in Nat /\ s.queue \in Seq(Data)
  BY <1>1 DEF StationRecord, Queues
<1>3. frame \in Data
  BY <1>2, WaitsAreTimes DEF DataFrame, Data
<1>4. number \in Nat
  BY <1>2
<1>5. Joins(s, queued, n, to)
  BY <1>1 DEF Joins, StationRecord
<1> HIDE DEF frame, number
<1>6. queue \in Queues /\ queue # <<>>
  BY <1>2, <1>3 DEF Queues
<1> HIDE DEF queue
<1>7. queued \in StationRecord /\ SameBut(s, queued, {"queue", "sequenceNumber"})
  <2> DEFINE appended == [s EXCEPT !.queue = queue]
  <2>1. queued = [appended EXCEPT !.sequenceNumber = number]
    OBVIOUS
  <2>2. appended \in StationRecord /\ SameBut(s, appended, {"queue"})
    BY <1>1, <1>6, QueueSet
  <2> HIDE DEF appended, queued
  <2>3. queued \in StationRecord /\ SameBut(appended, queued, {"sequenceNumber"})
    BY <1>4, <2>1, <2>2, SequenceNumberSet
  <2> QED
    BY <1>1, <2>2, <2>3 DEF SameBut
<1>8. handleUpperMsg(s, n, to) =
         CASE s.state = "IDLE" ->
                Defer([assert(queued, s.backoffPeriod \in {Invalid, 0}) EXCEPT !.backoffPeriod = Invalid])
           [] s.state = "WAITAIFS" /\ s.endDIFS # Off -> joined
           [] OTHER -> queued
  <2>1. queued = [s EXCEPT !.queue = Append(@, frame), !.sequenceNumber = (@ + 1) % 4096]
    BY DEF queue, number
  <2> HIDE DEF queued
  <2> QED
    BY <2>1 DEF handleUpperMsg, frame
<1> HIDE DEF queued
<1>9. CASE s.state = "IDLE"
  <2>1. (s.backoffPeriod \in {Invalid, 0}) = TRUE
    BY <1>9 DEF Sound, Settled
  <2>2. assert(queued, TRUE) = queued
    BY <1>1, <1>7, AssertHolds DEF SameBut
  <2>3. handleUpperMsg(s, n, to) = Defer(first)
    BY <1>8, <1>9, <2>1, <2>2
  <2>4. first \in StationRecord /\ SameBut(queued, first, {"backoffPeriod"})
    BY <1>7, BackoffPeriodSet
  <2> HIDE DEF first
  <2>5. Still(first)
    BY <1>1, <1>7, <1>9, <2>4 DEF Still, Sound, Settled, SameBut
  <2>6. Begins(Defer(first)) /\ Keeps(first, Defer(first))
    BY <2>5, DeferBegins
  <2> QED
    BY <1>5, <1>9, <2>3, <2>4, <2>6 DEF Joins, Moves, Keeps, KeepsOthers, SameBut
<1>10. CASE s.state = "WAITAIFS" /\ s.endDIFS # Off
  <2>1. handleUpperMsg(s, n, to) = joined
    BY <1>8, <1>10
  <2>2. Joins(s, joined, n, to)
    BY <1>5, <1>7 DEF Joins, StationRecord
  <2>3. Stays(s, joined)
    BY <1>7 DEF Stays, SameBut, StationRecord
  <2> QED
    BY <2>1, <2>2, <2>3 DEF Moves
<1>11. CASE s.state # "IDLE" /\ ~(s.state = "WAITAIFS" /\ s.endDIFS # Off)
  <2>1. handleUpperMsg(s, n, to) = queued
    BY <1>8, <1>11
  <2>2. Stays(s, queued)
    BY <1>7 DEF Stays, SameBut
  <2> QED
    BY <1>5, <2>1, <2>2 DEF Moves
<1> QED
  BY <1>9, <1>10, <1>11

-----------------------------------------------------------------------------
(* The kinds of steps a station takes.                                     *)

HandedTyped == handedUp \in [Node -> Seq(Data)]

(* The other stations do not move.                                         *)
Alone(n) == \A m \in Node \ {n} : mac'[m] = mac[m]
SteadyRadio(n) ==
    mac'[n].radioState = mac[n].radioState /\ recvBuff' = recvBuff /\ receiving' = receiving

(* The medium changes for the station.                                     *)
Quiet(n) ==
    /\ Alone(n) /\ Keeps(mac[n], mac'[n]) /\ Moves(mac[n], mac'[n])
    /\ UNCHANGED <<air, offered, handedUp>>

(* It accepts a frame from above.                                          *)
Accepts(n) ==
    /\ Alone(n) /\ SteadyRadio(n) /\ ~signalDue
    /\ offered[n] # <<>> /\ offered' = [offered EXCEPT ![n] = Tail(@)]
    /\ Joins(mac[n], mac'[n], n, Head(offered[n])) /\ Moves(mac[n], mac'[n])
    /\ UNCHANGED <<air, handedUp>>

(* A timer expires and nothing is sent.                                    *)
Elapses(s, t) ==
    \/ Contends(s, t) /\ s.state = "WAITAIFS" /\ ~Rests(s)
    \/ s.state = "BACKOFF" /\ Begins(t) /\ Keeps(s, t)
    \/ s.endTimeout = 0 /\ s.queue # <<>> /\ GivesUp(s, t)
Fires(n) ==
    /\ Alone(n) /\ SteadyRadio(n) /\ ~signalDue
    /\ Elapses(mac[n], mac'[n])
    /\ UNCHANGED <<air, offered, handedUp>>

(* A timer expires and frame f is sent.                                    *)
Emits(s, t, f) ==
    /\ KeepsData(s, t) /\ ~Rests(s) /\ s.state # "WAITACK"
    /\ \/ Transmits(s, t, f) /\ ~Waits(s, 1)
       \/ s.endSIFS = 0 /\ Replies(s, t, f)
Radiates(n, f) ==
    /\ Alone(n) /\ ~signalDue /\ f # NoFrame
    /\ mac[n].radioState # "TRANSMIT" /\ mac'[n].radioState = "TRANSMIT"
    /\ recvBuff' = recvBuff /\ receiving' = [receiving EXCEPT ![n] = Nobody]
    /\ Emits(mac[n], mac'[n], f)
    /\ air' = [air EXCEPT ![n] = [frame |-> f, age |-> 0]]
    /\ UNCHANGED <<offered, handedUp>>

(* It has received the frame of station m.                                 *)
Gets(n, m) ==
    /\ Alone(n) /\ ends(n, m) /\ receiving[n] = m
    /\ \E up \in Data \cup {NoFrame} :
          /\ Receives(mac[n], mac'[n], up, n, air[m].frame)
          /\ handedUp' = IF up = NoFrame THEN handedUp
                         ELSE [handedUp EXCEPT ![n] = Append(@, up)]
    /\ UNCHANGED <<air, offered>>

LEMMA ContinueDelivers ==
    ASSUME Spaced, IInv, NEW n \in Node, NEW s, Sound(s), Continue(n, s),
           s.down # NoFrame => s.state # "WAITSIFS" /\ s.radioState # "TRANSMIT"
    PROVE  /\ Alone(n)
           /\ LET t == mac'[n] IN
              /\ s.down = NoFrame => SameBut(s, t, {"down", "up"})
              /\ s.down # NoFrame => t.radioState = "TRANSMIT"
              /\ t.queue = s.queue /\ t.numSent = s.numSent
              /\ t.asfTuplesList = s.asfTuplesList /\ t.sequenceNumber = s.sequenceNumber
              /\ t.down = NoFrame /\ t.up = NoFrame
              /\ Moves(s, t)
           /\ air' = IF s.down = NoFrame THEN air
                     ELSE [air EXCEPT ![n] = [frame |-> s.down, age |-> 0]]
           /\ handedUp' = IF s.up = NoFrame THEN handedUp
                          ELSE [handedUp EXCEPT ![n] = Append(@, s.up)]
<1> DEFINE sends == s.down # NoFrame
           sent == setRadioState(s, "TRANSMIT")
           rest == IF sends THEN sent ELSE s
           t == [rest EXCEPT !.down = NoFrame, !.up = NoFrame]
<1>1. s \in StationRecord /\ ~s.failed /\ DOMAIN mac = Node
  BY DEF Sound, Settled, IInv
<1>2. assert(s, TRUE) = s /\ (sends => (s.radioState # "TRANSMIT") = TRUE)
  BY <1>1, AssertHolds
<1>3. /\ mac' = [mac EXCEPT ![n] = t]
      /\ air' = IF s.down = NoFrame THEN air
                ELSE [air EXCEPT ![n] = [frame |-> s.down, age |-> 0]]
      /\ handedUp' = IF s.up = NoFrame THEN handedUp
                     ELSE [handedUp EXCEPT ![n] = Append(@, s.up)]
  BY <1>2 DEF Continue
<1>4. sends => /\ sent \in StationRecord /\ sent.radioState = "TRANSMIT"
               /\ Keeps(s, sent) /\ Moves(s, sent)
  BY RadioSound, RadioMoves DEF Sound, Settled
<1> HIDE DEF sent
<1>5. rest \in StationRecord /\ Keeps(s, rest) /\ Moves(s, rest)
      /\ (sends => rest.radioState = "TRANSMIT")
  <2>1. Keeps(s, s) /\ Moves(s, s)
    BY DEF Keeps, KeepsOthers, Moves, Stays
  <2> QED
    BY <1>1, <1>4, <2>1
<1>6. ~sends => rest = s
  OBVIOUS
<1> HIDE DEF rest
<1>7. SameBut(rest, t, {"down", "up"}) /\ t.down = NoFrame /\ t.up = NoFrame
  BY <1>5 DEF StationRecord, SameBut
<1> HIDE DEF t
<1>8. mac'[n] = t /\ Alone(n)
  BY <1>1, <1>3 DEF Alone
<1>9. Moves(s, t)
  BY <1>5, <1>7 DEF Moves, Stays, Begins, SameBut
<1>10. /\ t.queue = s.queue /\ t.numSent = s.numSent
       /\ t.asfTuplesList = s.asfTuplesList /\ t.sequenceNumber = s.sequenceNumber
       /\ sends => t.radioState = "TRANSMIT"
  BY <1>5, <1>7 DEF SameBut, Keeps, KeepsOthers
<1> QED
  BY <1>3, <1>6, <1>7, <1>8, <1>9, <1>10

(* The steps that neither send nor hand up.                                *)
LEMMA ContinueQuiet ==
    ASSUME Spaced, IInv, NEW n \in Node, NEW s, Sound(s), Continue(n, s),
           Keeps(mac[n], s), Moves(mac[n], s), UNCHANGED offered
    PROVE  Quiet(n) /\ mac'[n].radioState = s.radioState
<1>1. s.down = NoFrame /\ s.up = NoFrame
  BY DEF IInv, Keeps, KeepsOthers
<1>2. /\ Alone(n) /\ SameBut(s, mac'[n], {"down", "up"}) /\ Moves(s, mac'[n])
      /\ mac'[n].down = NoFrame /\ mac'[n].up = NoFrame
      /\ air' = air /\ handedUp' = handedUp
  BY <1>1, ContinueDelivers
<1>3. Keeps(s, mac'[n])
  BY <1>1, <1>2 DEF Keeps, KeepsOthers, SameBut
<1>4. Keeps(mac[n], mac'[n]) /\ Moves(mac[n], mac'[n])
  BY <1>2, <1>3, MovesOn
<1> QED
  BY <1>2, <1>4 DEF Quiet, SameBut

LEMMA StationSound ==
    ASSUME IInv, NEW n \in Node
    PROVE  /\ Sound(mac[n]) /\ Settled(mac[n]) /\ mac[n] \in StationRecord
           /\ mac[n].down = NoFrame /\ mac[n].up = NoFrame
           /\ Keeps(mac[n], mac[n]) /\ Moves(mac[n], mac[n])
BY DEF IInv, Sound, Settled, Keeps, KeepsOthers, Moves, Stays

LEMMA ReceptionStartQuiet ==
    ASSUME Spaced, IInv, NEW n \in Node, NEW m \in Node, ReceptionStart(n, m)
    PROVE  /\ Quiet(n) /\ starts(n, m)
           /\ recvBuff' = [recvBuff EXCEPT ![n] = @ \cup {m}]
           /\ IF mac[n].radioState # "TRANSMIT" /\ receiving[n] = Nobody
              THEN mac'[n].radioState = "RECV" /\ receiving' = [receiving EXCEPT ![n] = m]
              ELSE mac'[n].radioState = mac[n].radioState /\ receiving' = receiving
<1> DEFINE receives == mac[n].radioState # "TRANSMIT" /\ receiving[n] = Nobody
           s == IF receives /\ mac[n].radioState # "RECV" THEN setRadioState(mac[n], "RECV") ELSE mac[n]
<1>1. /\ Continue(n, s) /\ offered' = offered /\ starts(n, m)
      /\ recvBuff' = [recvBuff EXCEPT ![n] = @ \cup {m}]
      /\ receiving' = IF receives THEN [receiving EXCEPT ![n] = m] ELSE receiving
  BY DEF ReceptionStart
<1>2. /\ Sound(s) /\ Keeps(mac[n], s) /\ Moves(mac[n], s)
      /\ s.radioState = IF receives THEN "RECV" ELSE mac[n].radioState
  BY StationSound, RadioSound, RadioMoves
<1> HIDE DEF s
<1>3. Quiet(n) /\ mac'[n].radioState = s.radioState
  BY <1>1, <1>2, ContinueQuiet
<1> QED
  BY <1>1, <1>2, <1>3

(* The medium may be free when a frame is over.                            *)
LEMMA QuietMoves ==
    ASSUME Spaced, IInv, NEW n \in Node, NEW m \in Node
    PROVE  LET s == quiet(n, m) IN
           /\ Sound(s) /\ Keeps(mac[n], s) /\ Moves(mac[n], s)
           /\ \/ s.radioState = mac[n].radioState
              \/ /\ s.radioState = "IDLE" /\ mac[n].radioState = "RECV"
                 /\ recvBuff[n] = {m} /\ receiving[n] \in {Nobody, m}
<1>1. LET s == setRadioState(mac[n], "IDLE") IN
      Sound(s) /\ Keeps(mac[n], s) /\ Moves(mac[n], s) /\ s.radioState = "IDLE"
  BY StationSound, RadioSound, RadioMoves
<1>2. \/ /\ quiet(n, m) = setRadioState(mac[n], "IDLE") /\ mac[n].radioState = "RECV"
         /\ recvBuff[n] = {m} /\ receiving[n] \in {Nobody, m}
      \/ quiet(n, m) = mac[n]
  BY DEF quiet
<1> QED
  BY <1>1, <1>2, StationSound

LEMMA NoiseEndQuiet ==
    ASSUME Spaced, IInv, NEW n \in Node, NEW m \in Node, NoiseEnd(n, m)
    PROVE  /\ Quiet(n) /\ ends(n, m) /\ receiving[n] # m /\ receiving' = receiving
           /\ recvBuff' = [recvBuff EXCEPT ![n] = @ \ {m}]
           /\ \/ mac'[n].radioState = mac[n].radioState
              \/ /\ mac'[n].radioState = "IDLE" /\ mac[n].radioState = "RECV"
                 /\ recvBuff[n] = {m} /\ receiving[n] \in {Nobody, m}
<1>1. /\ Continue(n, quiet(n, m)) /\ offered' = offered /\ ends(n, m)
      /\ receiving[n] # m /\ receiving' = receiving
      /\ recvBuff' = [recvBuff EXCEPT ![n] = @ \ {m}]
  BY DEF NoiseEnd
<1>2. Quiet(n) /\ mac'[n].radioState = quiet(n, m).radioState
  BY <1>1, QuietMoves, ContinueQuiet
<1> QED
  BY <1>1, <1>2, QuietMoves

LEMMA TransmissionOverQuiet ==
    ASSUME Spaced, IInv, NEW n \in Node, TransmissionOver(n)
    PROVE  /\ Quiet(n) /\ transmitted(n) /\ recvBuff' = recvBuff /\ receiving' = receiving
           /\ mac'[n].radioState = IF recvBuff[n] = {} THEN "IDLE" ELSE "RECV"
<1> DEFINE new == IF recvBuff[n] = {} THEN "IDLE" ELSE "RECV"
           s == setRadioState(mac[n], new)
<1>1. /\ Continue(n, s) /\ offered' = offered /\ transmitted(n)
      /\ recvBuff' = recvBuff /\ receiving' = receiving
  BY DEF TransmissionOver
<1>2. new \in {"IDLE", "RECV"}
  OBVIOUS
<1> HIDE DEF new
<1>3. Sound(s) /\ Keeps(mac[n], s) /\ Moves(mac[n], s) /\ s.radioState = new
  BY <1>2, StationSound, RadioSound, RadioMoves
<1> HIDE DEF s
<1> QED
  BY <1>1, <1>3, ContinueQuiet DEF new

LEMMA EndReserveQuiet ==
    ASSUME Spaced, IInv, NEW n \in Node, EndReserve(n)
    PROVE  Quiet(n) /\ SteadyRadio(n)
<1> DEFINE s == ReserveOver(mac[n])
<1>1. /\ Continue(n, s) /\ StopsReceiving(n, s) /\ recvBuff' = recvBuff /\ offered' = offered
  BY DEF EndReserve, Expire
<1>2. Sound(s) /\ s.radioState = mac[n].radioState /\ Keeps(mac[n], s) /\ Moves(mac[n], s)
  BY StationSound, ReserveSound, ReserveMoves DEF Handled
<1>3. s.down = NoFrame
  BY <1>2, StationSound DEF Keeps, KeepsOthers
<1> HIDE DEF s
<1>4. receiving' = receiving
  BY <1>1, <1>3 DEF StopsReceiving
<1> QED
  BY <1>1, <1>2, <1>4, ContinueQuiet DEF SteadyRadio

LEMMA UpperMsgAccepts ==
    ASSUME Spaced, IInv, NEW n \in Node, UpperMsg(n)
    PROVE  Accepts(n)
<1> DEFINE to == Head(offered[n])
           s == handleUpperMsg(mac[n], n, to)
<1>1. /\ Continue(n, s) /\ recvBuff' = recvBuff /\ receiving' = receiving /\ offered[n] # <<>>
      /\ Len(mac[n].queue) < 2 /\ ~signalDue
      /\ offered' = [offered EXCEPT ![n] = Tail(@)]
  BY DEF UpperMsg
<1>2. to \in Node \cup {Multicast}
  <2>1. offered[n] \in Seq(Node \cup {Multicast})
    BY DEF IInv
  <2> QED
    BY <1>1, <2>1
<1> HIDE DEF to
<1>3. /\ Sound(s) /\ s.radioState = mac[n].radioState
      /\ Joins(mac[n], s, n, to) /\ Moves(mac[n], s)
  BY <1>1, <1>2, StationSound, UpperSound, UpperJoins DEF Listens
<1>4. s.down = NoFrame /\ s.up = NoFrame
  BY <1>3, StationSound DEF Joins
<1> HIDE DEF s
<1>5. /\ Alone(n) /\ SameBut(s, mac'[n], {"down", "up"})
      /\ mac'[n].down = NoFrame /\ mac'[n].up = NoFrame
      /\ air' = air /\ handedUp' = handedUp
  BY <1>1, <1>3, <1>4, ContinueDelivers
<1>6. Joins(mac[n], mac'[n], n, to)
  BY <1>3, <1>5, StationSound DEF Joins, SameBut
<1>7. Moves(mac[n], mac'[n])
  BY <1>3, <1>5 DEF Moves, Stays, Begins, SameBut
<1> QED
  BY <1>1, <1>3, <1>5, <1>6, <1>7 DEF Accepts, SteadyRadio, SameBut, to

LEMMA ElapsesFires ==
    ASSUME Spaced, IInv, NEW n \in Node, NEW timer, NEW s,
           Handled(mac[n], s), s.down = NoFrame, s.up = NoFrame, Elapses(mac[n], s),
           Expire(n, timer, s)
    PROVE  Fires(n)
<1>1. /\ Continue(n, s) /\ StopsReceiving(n, s) /\ ~signalDue
      /\ recvBuff' = recvBuff /\ offered' = offered
  BY DEF Expire
<1>2. Sound(s) /\ s.radioState = mac[n].radioState
  BY DEF Handled
<1>3. /\ Alone(n) /\ SameBut(s, mac'[n], {"down", "up"})
      /\ mac'[n].down = NoFrame /\ mac'[n].up = NoFrame
      /\ air' = air /\ handedUp' = handedUp
  BY <1>1, <1>2, ContinueDelivers
<1>4. receiving' = receiving
  BY <1>1 DEF StopsReceiving
<1>5. Elapses(mac[n], mac'[n])
  BY <1>3, StationSound
  DEF Elapses, Contends, GivesUp, Begins, Keeps, KeepsOthers, Tries, Finishes, SameBut
<1> QED
  BY <1>1, <1>2, <1>3, <1>4, <1>5 DEF Fires, SteadyRadio, SameBut

LEMMA EmitsRadiates ==
    ASSUME Spaced, IInv, NEW n \in Node, NEW timer, NEW s,
           Handled(mac[n], s), s.down # NoFrame, Emits(mac[n], s, s.down),
           Expire(n, timer, s)
    PROVE  Radiates(n, s.down)
<1>1. /\ Continue(n, s) /\ StopsReceiving(n, s) /\ ~signalDue
      /\ recvBuff' = recvBuff /\ offered' = offered
  BY DEF Expire
<1>2. /\ Sound(s) /\ s.radioState = mac[n].radioState
      /\ s.state # "WAITSIFS" /\ s.radioState # "TRANSMIT"
  BY DEF Handled
<1>3. s.up = NoFrame
  BY StationSound DEF Emits, KeepsData
<1>4. LET t == mac'[n] IN
      /\ Alone(n) /\ t.radioState = "TRANSMIT"
      /\ t.queue = s.queue /\ t.numSent = s.numSent
      /\ t.asfTuplesList = s.asfTuplesList /\ t.sequenceNumber = s.sequenceNumber
      /\ t.up = NoFrame /\ Moves(s, t)
      /\ air' = [air EXCEPT ![n] = [frame |-> s.down, age |-> 0]]
      /\ handedUp' = handedUp
  BY <1>1, <1>2, <1>3, ContinueDelivers
<1>5. receiving' = [receiving EXCEPT ![n] = Nobody]
  BY <1>1 DEF StopsReceiving
<1>6. KeepsData(mac[n], mac'[n])
  BY <1>3, <1>4 DEF Emits, KeepsData
<1>7. Transmits(mac[n], s, s.down) => Transmits(mac[n], mac'[n], s.down)
  BY <1>4 DEF Transmits, Moves, Stays
<1>8. Replies(mac[n], s, s.down) => Replies(mac[n], mac'[n], s.down)
  BY <1>4 DEF Replies, Moves, Stays, Begins
<1> QED
  BY <1>1, <1>2, <1>4, <1>5, <1>6, <1>7, <1>8 DEF Radiates, Emits

LEMMA FramesAreSent ==
    /\ NoFrame \notin Frame
    /\ \A f : CTSFrame(f) # NoFrame /\ ACKFrame(f) # NoFrame /\ RTSFrame(f) # NoFrame
    /\ \A f \in Data : f # NoFrame
BY DEF NoFrame, Frame, Data, Rts, Answer, CTSFrame, ACKFrame, RTSFrame

LEMMA TransmitsFrame ==
    ASSUME NEW s \in StationRecord, NEW t, NEW f, Transmits(s, t, f)
    PROVE  f # NoFrame
<1>1. Head(s.queue) \in Data
  BY QueueTail DEF Transmits, StationRecord
<1> QED
  BY <1>1, FramesAreSent DEF Transmits

LEMMA ExpiredFires ==
    ASSUME Spaced, IInv, NEW n \in Node, NEW c \in Nat,
           \/ EndAIFS(n, c) \/ EndDIFS(n, c) \/ EndTimeout(n, c)
           \/ EndBackoff(n) \/ EndSIFS(n)
    PROVE  Fires(n) \/ \E f : Radiates(n, f)
<1> DEFINE s == mac[n]
<1>1. Sound(s) /\ Settled(s) /\ s \in StationRecord /\ s.down = NoFrame /\ s.up = NoFrame
  BY StationSound
<1>2. 0 # Off /\ ~(0 >= 1)
  BY DEF Off
<1> HIDE DEF s
<1>3. CASE EndAIFS(n, c)
  <2> DEFINE t == AIFSOver(s, c)
  <2>1. s.endAIFS = 0 /\ Expire(n, "endAIFS", t)
    BY <1>3 DEF EndAIFS, Expire, s
  <2>2. s.state = "WAITAIFS" /\ ~Rests(s) /\ ~Waits(s, 1)
    BY <1>1, <1>2, <2>1 DEF Settled, Rests, Holds, Waits
  <2>3. Handled(s, t) /\ (Contends(s, t) \/ (KeepsData(s, t) /\ Transmits(s, t, t.down)))
    BY <1>1, <1>2, <2>1, AIFSSound, AIFSContends
  <2> HIDE DEF t
  <2>4. CASE Contends(s, t)
    BY <1>1, <2>1, <2>2, <2>3, <2>4, ElapsesFires DEF Elapses, Contends, Keeps, KeepsOthers, s
  <2>5. CASE KeepsData(s, t) /\ Transmits(s, t, t.down)
    BY <1>1, <2>1, <2>2, <2>3, <2>5, TransmitsFrame, EmitsRadiates DEF Emits, s
  <2> QED
    BY <2>3, <2>4, <2>5
<1>4. CASE EndDIFS(n, c)
  <2> DEFINE t == DIFSOver(s, c)
  <2>1. s.endDIFS = 0 /\ Expire(n, "endDIFS", t)
    BY <1>4 DEF EndDIFS, Expire, s
  <2>2. s.state = "WAITAIFS" /\ ~Rests(s)
    BY <1>1, <1>2, <2>1 DEF Settled, Rests, Holds
  <2>3. Handled(s, t) /\ Contends(s, t)
    BY <1>1, <1>2, <2>1, DIFSSound, DIFSContends
  <2> HIDE DEF t
  <2> QED
    BY <1>1, <2>1, <2>2, <2>3, ElapsesFires DEF Elapses, Contends, Keeps, KeepsOthers, s
<1>5. CASE EndTimeout(n, c)
  <2> DEFINE t == TimeoutOver(s, c)
  <2>1. s.endTimeout = 0 /\ Expire(n, "endTimeout", t)
    BY <1>5 DEF EndTimeout, Expire, s
  <2>2. Handled(s, t) /\ GivesUp(s, t) /\ s.queue # <<>>
    BY <1>1, <1>2, <2>1, TimeoutSound, TimeoutGivesUp
  <2> HIDE DEF t
  <2>3. t.down = NoFrame /\ t.up = NoFrame
    BY <1>1, <2>2 DEF GivesUp, Tries, Finishes, Keeps, KeepsOthers
  <2> QED
    BY <2>1, <2>2, <2>3, ElapsesFires DEF Elapses, s
<1>6. CASE EndBackoff(n)
  <2> DEFINE t == BackoffOver(s)
  <2>1. s.endBackoff = 0 /\ Expire(n, "endBackoff", t)
    BY <1>6 DEF EndBackoff, Expire, s
  <2>2. s.state = "BACKOFF" /\ ~Rests(s) /\ ~Waits(s, 1)
    BY <1>1, <1>2, <2>1 DEF Settled, Rests, Holds, Waits
  <2>3. /\ Handled(s, t)
        /\ (Begins(t) /\ Keeps(s, t)) \/ (KeepsData(s, t) /\ Transmits(s, t, t.down))
    BY <1>1, <1>2, <2>1, BackoffOverSound, BackoffTransmits
  <2> HIDE DEF t
  <2>4. CASE Begins(t) /\ Keeps(s, t)
    BY <1>1, <2>1, <2>2, <2>3, <2>4, ElapsesFires DEF Elapses, Keeps, KeepsOthers, s
  <2>5. CASE KeepsData(s, t) /\ Transmits(s, t, t.down)
    BY <1>1, <2>1, <2>2, <2>3, <2>5, TransmitsFrame, EmitsRadiates DEF Emits, s
  <2> QED
    BY <2>3, <2>4, <2>5
<1>7. CASE EndSIFS(n)
  <2> DEFINE t == SIFSOver(s)
  <2>1. s.endSIFS = 0 /\ Expire(n, "endSIFS", t)
    BY <1>7 DEF EndSIFS, Expire, s
  <2>2. s.state = "WAITSIFS" /\ ~Rests(s)
    BY <1>1, <1>2, <2>1 DEF Settled, Rests
  <2>3. /\ Handled(s, t) /\ KeepsData(s, t)
        /\ \/ Replies(s, t, t.down)
           \/ s.frameBeforeSIFS.type = "CTS" /\ Transmits(s, t, t.down)
    BY <1>1, <1>2, <2>1, SIFSSound, SIFSReplies
  <2> HIDE DEF t
  <2>4. t.down # NoFrame
    BY <1>1, <2>3, TransmitsFrame, FramesAreSent DEF Replies
  <2>5. Emits(s, t, t.down)
    BY <2>1, <2>2, <2>3 DEF Emits, Waits
  <2> QED
    BY <2>1, <2>3, <2>4, <2>5, EmitsRadiates DEF s
<1> QED
  BY <1>3, <1>4, <1>5, <1>6, <1>7

LEMMA ReceptionEndGets ==
    ASSUME Spaced, IInv, NEW n \in Node, NEW m \in Node, NEW failed \in BOOLEAN, NEW c \in Nat,
           ReceptionEnd(n, m, failed, c)
    PROVE  /\ Gets(n, m) /\ air[m].frame \in Frame
           /\ recvBuff' = [recvBuff EXCEPT ![n] = @ \ {m}]
           /\ receiving' = [receiving EXCEPT ![n] = Nobody]
           /\ mac[n].radioState # "TRANSMIT"
           /\ \/ mac'[n].radioState = mac[n].radioState
              \/ mac'[n].radioState = "IDLE" /\ recvBuff[n] = {m}
<1> DEFINE f == air[m].frame
           before == quiet(n, m)
           s == handleLowerMsg(before, n, f, failed, c)
           t == mac'[n]
<1>1. /\ m \in recvBuff[n] /\ receiving[n] = m /\ Continue(n, s) /\ offered' = offered
      /\ recvBuff' = [recvBuff EXCEPT ![n] = @ \ {m}]
      /\ receiving' = [receiving EXCEPT ![n] = Nobody]
      /\ ends(n, m)
  BY DEF ReceptionEnd, ends
<1>2. f \in Frame
  BY <1>1 DEF IInv
<1>3. mac[n].radioState # "TRANSMIT"
  BY <1>1, NobodyAssumption DEF IInv
<1>4. /\ Sound(before) /\ Keeps(mac[n], before) /\ Moves(mac[n], before)
      /\ before.radioState = mac[n].radioState \/ (before.radioState = "IDLE" /\ recvBuff[n] = {m})
  BY QuietMoves
<1> HIDE DEF before
<1>5. /\ Sound(s) /\ s.down = before.down /\ s.radioState = before.radioState
      /\ Receives(before, s, s.up, n, f)
  BY <1>2, <1>3, <1>4, LowerSound, LowerReceives DEF Listens
<1> HIDE DEF s
<1>6. s.down = NoFrame
  BY <1>4, <1>5, StationSound DEF Keeps, KeepsOthers
<1>7. Keeps(s, s) /\ Moves(s, s)
  BY DEF Keeps, KeepsOthers, Moves, Stays
<1> HIDE DEF f
<1>8. Receives(mac[n], s, s.up, n, f)
  BY <1>4, <1>5, <1>7, ReceivesOn
<1>9. /\ Alone(n) /\ SameBut(s, t, {"down", "up"}) /\ t.down = NoFrame /\ t.up = NoFrame
      /\ air' = air
      /\ handedUp' = IF s.up = NoFrame THEN handedUp
                     ELSE [handedUp EXCEPT ![n] = Append(@, s.up)]
  BY <1>1, <1>5, <1>6, ContinueDelivers
<1> HIDE DEF t
<1>10. mac[n].down = NoFrame /\ mac[n].up = NoFrame
  BY StationSound
<1>11. Receives(mac[n], t, s.up, n, f)
  <2>1. CASE Keeps(mac[n], s) /\ Moves(mac[n], s) /\ s.up = mac[n].up
    BY <1>9, <1>10, <2>1 DEF Receives, Keeps, KeepsOthers, Moves, Stays, Begins, SameBut
  <2>2. CASE /\ Takes(mac[n], s, s.up, n, f)
             /\ \/ s.queue = mac[n].queue
                \/ mac[n].state \in {"WAITACK", "WAITCTS"} /\ s.queue = Tail(mac[n].queue)
    <3>1. Takes(mac[n], t, s.up, n, f)
      BY <1>9, <1>10, <2>2 DEF Takes, Notes, Answers, Begins, SameBut
    <3> QED
      BY <1>9, <2>2, <3>1 DEF Receives, SameBut
  <2>3. CASE /\ mac[n].state = "WAITACK" /\ f.type = "ACK" /\ f.ra = n
             /\ Begins(s) /\ Finishes(mac[n], s) /\ s.up = mac[n].up
    BY <1>9, <1>10, <2>3 DEF Receives, Finishes, KeepsOthers, Begins, SameBut
  <2>4. CASE /\ mac[n].state = "WAITCTS" /\ f.type = "CTS"
             /\ Answers(s, n, f) /\ Keeps(mac[n], s) /\ s.up = mac[n].up
    BY <1>9, <1>10, <2>4 DEF Receives, Keeps, KeepsOthers, Answers, SameBut
  <2> QED
    BY <1>8, <2>1, <2>2, <2>3, <2>4 DEF Receives
<1>12. s.up \in Data \cup {NoFrame}
  <2>1. s.up \in {mac[n].up, f} /\ (s.up # mac[n].up => f.type = "DATA")
    BY <1>11 DEF Receives, Takes
  <2>2. f.type = "DATA" => f \in Data
    BY <1>2 DEF Frame, Data, Rts, Answer, f
  <2> QED
    BY <1>10, <2>1, <2>2
<1>13. t.radioState = s.radioState
  BY <1>9 DEF SameBut
<1> QED
  BY <1>1, <1>2, <1>3, <1>4, <1>5, <1>9, <1>11, <1>12, <1>13 DEF Gets, f, t

LEMMA StepKinds ==
    ASSUME Spaced, IInv, Next
    PROVE  Tick \/ \E n \in Node : \/ Quiet(n) \/ Accepts(n) \/ Fires(n)
                                   \/ \E f : Radiates(n, f)
                                   \/ \E m \in Node : Gets(n, m)
<1>1. ASSUME NEW n \in Node, TransmissionOver(n) \/ EndReserve(n)
      PROVE  Quiet(n)
  BY <1>1, TransmissionOverQuiet, EndReserveQuiet
<1>2. ASSUME NEW n \in Node, NEW m \in Node, ReceptionStart(n, m) \/ NoiseEnd(n, m)
      PROVE  Quiet(n)
  BY <1>2, ReceptionStartQuiet, NoiseEndQuiet
<1>3. Draws \subseteq Nat /\ 0 \in Draws
  BY LimitAssumption DEF Draws
<1> QED
  BY <1>1, <1>2, <1>3, UpperMsgAccepts, ExpiredFires, ReceptionEndGets DEF Next

-----------------------------------------------------------------------------
(* The radios.                                                             *)

LEMMA TimersAreNumbers ==
    ASSUME NEW s, Sound(s)
    PROVE  /\ s.endAIFS \in Int /\ s.endDIFS \in Int /\ s.endSIFS \in Int /\ s.endTimeout \in Int
           /\ Sifs \in Nat \ {0} /\ s \in StationRecord
BY TimeIsNumber, TimeAssumption DEF Sound, Settled, StationRecord

LEMMA BeginsRests ==
    ASSUME NEW t, Sound(t), Begins(t)
    PROVE  Rests(t)
<1>1. t.endSIFS = Off
  BY DEF Begins, Sound, Settled
<1> QED
  BY <1>1, TimersAreNumbers DEF Rests, Holds, Begins, Off

LEMMA RestsOn ==
    ASSUME NEW s, Sound(s), NEW t, Sound(t), Moves(s, t), Rests(s)
    PROVE  Rests(t)
<1>1. CASE Stays(s, t)
  BY <1>1 DEF Stays, Rests, Holds
<1> QED
  BY <1>1, BeginsRests DEF Moves

LEMMA TransmittingRests ==
    ASSUME NEW s, Sound(s), s.radioState = "TRANSMIT"
    PROVE  Rests(s)
BY DEF Sound, Settled, Tuned, isMediumFree, Rests, Holds, Off

(* Ages are numbers.                                                       *)
LEMMA AgeNatural ==
    ASSUME IInv, NEW n \in Node
    PROVE  /\ air[n].age \in Nat /\ air[n].frame \in Frame \cup {NoFrame}
           /\ airTime(air[n].frame) \in Nat
           /\ Spaced => airTime(air[n].frame) > 1
<1>1. air[n] \in [frame : Frame \cup {NoFrame}, age : Nat]
  BY DEF IInv
<1> QED
  BY <1>1, AirTimes DEF airTime, Spaced

(* A station about to send is heard by nobody.                             *)
LEMMA SenderUnheard ==
    ASSUME IInv, Receivers, Senders, ~signalDue, NEW n \in Node,
           mac[n].radioState # "TRANSMIT", ~Rests(mac[n])
    PROVE  \A m \in Node : n \notin recvBuff[m]
<1> SUFFICES ASSUME NEW m \in Node, n \in recvBuff[m]
             PROVE  FALSE
  OBVIOUS
<1>1. audible(m, n)
  BY DEF signalDue, ends
<1>2. air[n].frame # NoFrame /\ air[n].age <= airTime(air[n].frame)
  BY <1>1, AgeNatural DEF audible
<1> QED
  BY <1>2, AgeNatural DEF Senders

(* A station that receives a frame to its end has long been silent.        *)
LEMMA ReceiverSilent ==
    ASSUME Spaced, IInv, Receivers, Senders, NEW n \in Node, NEW m \in Node,
           ends(n, m), receiving[n] = m
    PROVE  air[n].frame = NoFrame
<1> SUFFICES ASSUME air[n].frame # NoFrame
             PROVE  FALSE
  OBVIOUS
<1>1. m \in Hears[n] /\ air[m].frame # NoFrame /\ air[m].age >= 1 /\ ~audible(n, m)
  BY DEF Receivers, ends
<1>2. air[m].age > airTime(air[m].frame)
  BY <1>1, AgeNatural DEF audible
<1>3. /\ mac[n].radioState = "RECV"
      /\ air[m].age <= air[n].age - airTime(air[n].frame) + 1
  BY NobodyAssumption DEF Receivers
<1>4. air[n].age <= airTime(air[n].frame) + 1
  BY <1>3, AgeNatural DEF Senders
<1> QED
  BY <1>2, <1>3, <1>4, AgeNatural

(* What a station has to see to when nothing is sent.                      *)
LEMMA AirKept ==
    ASSUME IInv, IInv', Receivers, Senders, NEW n \in Node, Alone(n), air' = air,
           \A m \in Node \ {n} : recvBuff'[m] = recvBuff[m] /\ receiving'[m] = receiving[m],
           recvBuff'[n] \subseteq recvBuff[n] \cup {m \in Node : starts(n, m)},
           \A m \in recvBuff[n] \ recvBuff'[n] : ~audible(n, m),
           recvBuff'[n] # {} => mac'[n].radioState # "IDLE",
           receiving'[n] # Nobody =>
               /\ receiving'[n] \in recvBuff'[n] /\ mac'[n].radioState = "RECV"
               /\ \/ receiving'[n] = receiving[n]
                  \/ starts(n, receiving'[n]) /\ mac[n].radioState # "TRANSMIT",
           mac'[n].radioState = "TRANSMIT" => mac[n].radioState = "TRANSMIT",
           mac[n].radioState = "TRANSMIT" /\ mac'[n].radioState # "TRANSMIT" => transmitted(n),
           air[n].frame # NoFrame /\ mac'[n].radioState # "TRANSMIT"
               /\ air[n].age = airTime(air[n].frame) => Rests(mac'[n])
    PROVE  Receivers' /\ Senders'
<1>1. ASSUME NEW m \in Node, starts(n, m)
      PROVE  m \in Hears[n] /\ air[m].frame # NoFrame /\ air[m].age = 1
  BY <1>1 DEF starts, audible, Receivers
<1>2. ASSUME NEW k \in Node
      PROVE  recvBuff'[k] \subseteq {m \in Hears[k] : air[m].frame # NoFrame /\ air[m].age >= 1}
  <2>1. recvBuff[k] \subseteq {m \in Hears[k] : air[m].frame # NoFrame /\ air[m].age >= 1}
    BY DEF Receivers
  <2> QED
    BY <1>1, <2>1, AgeNatural
<1>3. ASSUME NEW k \in Node
      PROVE  recvBuff'[k] # {} => mac'[k].radioState # "IDLE"
  BY DEF Receivers, Alone
<1>4. ASSUME NEW k \in Node, NEW m \in Node, starts(k, m)'
      PROVE  air[m].age = 1
  <2>1. audible(k, m) /\ m \notin recvBuff'[k]
    BY <1>4 DEF starts, audible
  <2>2. starts(k, m)
    BY <2>1 DEF starts
  <2> QED
    BY <2>2 DEF Receivers
<1>5. ASSUME NEW k \in Node, receiving'[k] # Nobody
      PROVE  /\ receiving'[k] \in recvBuff'[k] /\ mac'[k].radioState = "RECV"
             /\ air[k].frame # NoFrame =>
                   air[receiving'[k]].age <= air[k].age - airTime(air[k].frame) + 1
  <2>1. CASE receiving'[k] = receiving[k]
    BY <1>5, <2>1 DEF Receivers, Alone
  <2>2. CASE receiving'[k] # receiving[k]
    <3>1. k = n /\ starts(n, receiving'[n]) /\ mac[n].radioState # "TRANSMIT"
      BY <1>5, <2>2
    <3>2. receiving'[n] \in recvBuff'[n] /\ receiving'[n] \in Node
      BY <1>5, <3>1 DEF IInv
    <3>3. air[receiving'[n]].age = 1
      BY <1>1, <3>1, <3>2
    <3>4. air[n].frame # NoFrame => air[n].age >= airTime(air[n].frame)
      BY <3>1, AgeNatural DEF Senders
    <3> QED
      BY <1>5, <3>1, <3>3, <3>4, AgeNatural
  <2> QED
    BY <2>1, <2>2
<1>6. Receivers'
  BY <1>2, <1>3, <1>4, <1>5 DEF Receivers
<1>7. ASSUME NEW k \in Node
      PROVE  /\ mac'[k].radioState = "TRANSMIT" => air[k].frame # NoFrame /\ air[k].age <= airTime(air[k].frame)
             /\ air[k].frame # NoFrame /\ mac'[k].radioState # "TRANSMIT" =>
                  /\ air[k].age \in {airTime(air[k].frame), airTime(air[k].frame) + 1}
                  /\ air[k].age = airTime(air[k].frame) => Rests(mac'[k])
  <2>1. CASE k = n
    BY <2>1 DEF Senders, transmitted
  <2>2. CASE k # n
    BY <2>2 DEF Senders, Alone
  <2> QED
    BY <2>1, <2>2
<1>8. Senders'
  BY <1>7 DEF Senders
<1> QED
  BY <1>6, <1>8

(* The steps of the radios.                                                *)
LEMMA RadioAir ==
    ASSUME Spaced, IInv, IInv', Receivers, Senders, NEW n \in Node, NEW m \in Node,
           ReceptionStart(n, m) \/ NoiseEnd(n, m) \/ TransmissionOver(n)
    PROVE  Receivers' /\ Senders'
<1>1. /\ Sound(mac[n]) /\ Sound(mac'[n]) /\ DOMAIN recvBuff = Node /\ DOMAIN receiving = Node
      /\ \A k \in recvBuff[n] : k \in Node
      /\ mac[n].radioState = "TRANSMIT" => receiving[n] = Nobody
      /\ mac[n].radioState \in {"IDLE", "RECV", "TRANSMIT"}
  BY DEF IInv, Sound, Settled, StationRecord
<1>2. Quiet(n) => /\ Alone(n) /\ air' = air
                  /\ air[n].frame # NoFrame /\ air[n].age = airTime(air[n].frame) => Rests(mac'[n])
  BY <1>1, RestsOn, TransmittingRests DEF Quiet, Senders
<1>3. CASE ReceptionStart(n, m)
  <2>1. /\ Quiet(n) /\ starts(n, m)
        /\ recvBuff' = [recvBuff EXCEPT ![n] = @ \cup {m}]
        /\ IF mac[n].radioState # "TRANSMIT" /\ receiving[n] = Nobody
           THEN mac'[n].radioState = "RECV" /\ receiving' = [receiving EXCEPT ![n] = m]
           ELSE mac'[n].radioState = mac[n].radioState /\ receiving' = receiving
    BY <1>3, ReceptionStartQuiet
  <2>2. /\ \A k \in Node \ {n} : recvBuff'[k] = recvBuff[k] /\ receiving'[k] = receiving[k]
        /\ recvBuff'[n] = recvBuff[n] \cup {m}
    BY <1>1, <2>1
  <2>3. CASE mac[n].radioState # "TRANSMIT" /\ receiving[n] = Nobody
    <3>1. mac'[n].radioState = "RECV" /\ receiving'[n] = m
      BY <1>1, <2>1, <2>3
    <3> QED
      BY <1>2, <2>1, <2>2, <2>3, <3>1, AirKept
  <2>4. CASE ~(mac[n].radioState # "TRANSMIT" /\ receiving[n] = Nobody)
    <3>1. mac'[n].radioState = mac[n].radioState /\ receiving' = receiving
      BY <2>1, <2>4
    <3>2. mac[n].radioState # "IDLE"
      BY <2>4 DEF Receivers
    <3>3. receiving[n] # Nobody => receiving[n] \in recvBuff[n] /\ mac[n].radioState = "RECV"
      BY DEF Receivers
    <3> QED
      BY <1>2, <2>1, <2>2, <3>1, <3>2, <3>3, AirKept
  <2> QED
    BY <2>3, <2>4
<1>4. CASE NoiseEnd(n, m)
  <2>1. /\ Quiet(n) /\ ends(n, m) /\ receiving[n] # m /\ receiving' = receiving
        /\ recvBuff' = [recvBuff EXCEPT ![n] = @ \ {m}]
        /\ \/ mac'[n].radioState = mac[n].radioState
           \/ /\ mac'[n].radioState = "IDLE" /\ mac[n].radioState = "RECV"
              /\ recvBuff[n] = {m} /\ receiving[n] \in {Nobody, m}
    BY <1>4, NoiseEndQuiet
  <2>2. /\ \A k \in Node \ {n} : recvBuff'[k] = recvBuff[k] /\ receiving'[k] = receiving[k]
        /\ recvBuff'[n] = recvBuff[n] \ {m} /\ ~audible(n, m)
    BY <1>1, <2>1 DEF ends
  <2>3. /\ recvBuff[n] # {} => mac[n].radioState # "IDLE"
        /\ receiving[n] # Nobody => receiving[n] \in recvBuff[n] /\ mac[n].radioState = "RECV"
    BY DEF Receivers
  <2> QED
    BY <1>2, <2>1, <2>2, <2>3, AirKept
<1>5. CASE TransmissionOver(n)
  <2>1. /\ Quiet(n) /\ transmitted(n) /\ recvBuff' = recvBuff /\ receiving' = receiving
        /\ mac'[n].radioState = IF recvBuff[n] = {} THEN "IDLE" ELSE "RECV"
    BY <1>5, TransmissionOverQuiet
  <2>2. receiving[n] = Nobody
    BY <1>1, <2>1 DEF transmitted
  <2> QED
    BY <1>2, <2>1, <2>2, AirKept
<1> QED
  BY <1>3, <1>4, <1>5

(* The steps of the MAC that send nothing.                                 *)
LEMMA SteadyAir ==
    ASSUME Spaced, IInv, IInv', Receivers, Senders, NEW n \in Node,
           EndReserve(n) \/ Accepts(n) \/ Fires(n)
    PROVE  Receivers' /\ Senders'
<1>1. Sound(mac[n]) /\ Sound(mac'[n])
  BY DEF IInv
<1>2. EndReserve(n) => Quiet(n) /\ SteadyRadio(n)
  BY EndReserveQuiet
<1>3. Alone(n) /\ SteadyRadio(n) /\ air' = air
  BY <1>2 DEF Quiet, Accepts, Fires
<1>4. ASSUME air[n].frame # NoFrame, mac'[n].radioState # "TRANSMIT",
             air[n].age = airTime(air[n].frame)
      PROVE  Rests(mac'[n])
  <2>1. Rests(mac[n])
    BY <1>3, <1>4 DEF Senders, SteadyRadio
  <2>2. CASE EndReserve(n) \/ Accepts(n)
    BY <1>1, <1>2, <2>1, <2>2, RestsOn DEF Quiet, Accepts
  <2>3. CASE Fires(n)
    <3> DEFINE s == mac[n]  t == mac'[n]
    <3>1. Elapses(s, t)
      BY <2>3 DEF Fires
    <3>2. CASE Begins(t)
      BY <1>1, <3>2, BeginsRests
    <3>3. CASE t.state = "WAITACK"
      BY <1>1, <3>3 DEF Sound, Settled, Rests, Holds, Off
    <3> QED
      BY <2>1, <3>1, <3>2, <3>3 DEF Elapses, GivesUp
  <2> QED
    BY <2>2, <2>3
<1>5. /\ recvBuff[n] # {} => mac[n].radioState # "IDLE"
      /\ receiving[n] # Nobody => receiving[n] \in recvBuff[n] /\ mac[n].radioState = "RECV"
  BY DEF Receivers
<1> QED
  BY <1>3, <1>4, <1>5, AirKept DEF SteadyRadio

LEMMA ReceptionEndAir ==
    ASSUME Spaced, IInv, IInv', Receivers, Senders, NEW n \in Node, NEW m \in Node,
           NEW failed \in BOOLEAN, NEW c \in Nat, ReceptionEnd(n, m, failed, c)
    PROVE  Receivers' /\ Senders'
<1>1. /\ Gets(n, m) /\ recvBuff' = [recvBuff EXCEPT ![n] = @ \ {m}]
      /\ receiving' = [receiving EXCEPT ![n] = Nobody]
      /\ mac[n].radioState # "TRANSMIT"
      /\ \/ mac'[n].radioState = mac[n].radioState
         \/ mac'[n].radioState = "IDLE" /\ recvBuff[n] = {m}
  BY ReceptionEndGets
<1>2. Alone(n) /\ air' = air /\ ends(n, m) /\ receiving[n] = m
  BY <1>1 DEF Gets
<1>3. air[n].frame = NoFrame
  BY <1>2, ReceiverSilent
<1>4. DOMAIN recvBuff = Node /\ DOMAIN receiving = Node
  BY DEF IInv
<1>5. /\ \A k \in Node \ {n} : recvBuff'[k] = recvBuff[k] /\ receiving'[k] = receiving[k]
      /\ recvBuff'[n] = recvBuff[n] \ {m} /\ ~audible(n, m) /\ receiving'[n] = Nobody
  BY <1>1, <1>2, <1>4 DEF ends
<1>6. recvBuff[n] # {} => mac[n].radioState # "IDLE"
  BY DEF Receivers
<1> QED
  BY <1>1, <1>2, <1>3, <1>5, <1>6, AirKept

(* A station sends a frame.                                                *)
LEMMA RadiatesAir ==
    ASSUME Spaced, IInv, IInv', Receivers, Senders, NEW n \in Node, NEW f, Radiates(n, f)
    PROVE  Receivers' /\ Senders'
<1>1. /\ Alone(n) /\ ~signalDue /\ f # NoFrame /\ ~Rests(mac[n])
      /\ mac[n].radioState # "TRANSMIT" /\ mac'[n].radioState = "TRANSMIT"
      /\ recvBuff' = recvBuff /\ receiving' = [receiving EXCEPT ![n] = Nobody]
      /\ air' = [air EXCEPT ![n] = [frame |-> f, age |-> 0]]
  BY DEF Radiates, Emits
<1>2. DOMAIN air = Node /\ DOMAIN receiving = Node
  BY DEF IInv
<1>3. /\ air'[n].frame = f /\ air'[n].age = 0 /\ receiving'[n] = Nobody
      /\ \A m \in Node \ {n} : air'[m] = air[m] /\ receiving'[m] = receiving[m]
  BY <1>1, <1>2
<1>4. \A m \in Node : n \notin recvBuff[m]
  BY <1>1, SenderUnheard
<1>5. ASSUME NEW k \in Node
      PROVE  recvBuff'[k] \subseteq {m \in Hears[k] : air'[m].frame # NoFrame /\ air'[m].age >= 1}
  <2>1. recvBuff[k] \subseteq {m \in Hears[k] : air[m].frame # NoFrame /\ air[m].age >= 1}
    BY DEF Receivers
  <2>2. Hears[k] \subseteq Node
    BY RangeAssumption
  <2> QED
    BY <1>1, <1>3, <1>4, <2>1, <2>2
<1>6. ASSUME NEW k \in Node
      PROVE  recvBuff'[k] # {} => mac'[k].radioState # "IDLE"
  BY <1>1 DEF Receivers, Alone
<1>7. ASSUME NEW k \in Node, NEW m \in Node, starts(k, m)'
      PROVE  air'[m].age = 1
  <2>1. m # n
    BY <1>3, <1>7 DEF starts, audible
  <2>2. starts(k, m)
    BY <1>1, <1>3, <1>7, <2>1 DEF starts, audible
  <2> QED
    BY <1>1, <2>2 DEF signalDue
<1>8. ASSUME NEW k \in Node, receiving'[k] # Nobody
      PROVE  /\ receiving'[k] \in recvBuff'[k] /\ mac'[k].radioState = "RECV"
             /\ air'[k].frame # NoFrame =>
                   air'[receiving'[k]].age <= air'[k].age - airTime(air'[k].frame) + 1
  <2>1. k # n /\ receiving'[k] = receiving[k]
    BY <1>3, <1>8
  <2>2. receiving[k] \in recvBuff[k] /\ receiving[k] \in Node
    BY <1>8, <2>1 DEF Receivers, IInv
  <2>3. receiving[k] # n
    BY <1>4, <2>2
  <2> QED
    BY <1>1, <1>3, <1>8, <2>1, <2>2, <2>3 DEF Receivers, Alone
<1>9. Receivers'
  BY <1>5, <1>6, <1>7, <1>8 DEF Receivers
<1>10. Senders'
  BY <1>1, <1>3, AirTimes DEF Senders, Alone
<1> QED
  BY <1>9, <1>10

(* Time advances for a station.                                            *)
Ages(s, t) ==
    /\ t.state = s.state /\ t.radioState = s.radioState /\ t.queue = s.queue
    /\ t.frameBeforeSIFS = s.frameBeforeSIFS /\ t.sequenceNumber = s.sequenceNumber
    /\ t.asfTuplesList = s.asfTuplesList /\ t.numSent = s.numSent
    /\ t.endAIFS = Less(s.endAIFS) /\ t.endDIFS = Less(s.endDIFS)
    /\ t.endSIFS = Less(s.endSIFS) /\ t.endTimeout = Less(s.endTimeout)
    /\ s.endAIFS # 0 /\ s.endDIFS # 0 /\ s.endSIFS # 0 /\ s.endTimeout # 0

LEMMA TickAges ==
    ASSUME IInv, Tick
    PROVE  /\ ~signalDue
           /\ UNCHANGED <<recvBuff, receiving, offered, handedUp>>
           /\ \A n \in Node :
                 /\ Ages(mac[n], mac'[n])
                 /\ air'[n] = IF air[n].frame = NoFrame \/ air[n].age > airTime(air[n].frame)
                              THEN Silent ELSE [air[n] EXCEPT !.age = @ + 1]
<1>1. /\ ~signalDue /\ UNCHANGED <<recvBuff, receiving, offered, handedUp>>
      /\ \A r \in running : mac[r[1]][r[2]] > 0
      /\ mac' = [n \in Node |-> [field \in DOMAIN mac[n] |->
                    IF field \in Timers /\ <<n, field>> \in running
                    THEN mac[n][field] - 1 ELSE mac[n][field]]]
      /\ air' = [n \in Node |-> IF air[n].frame = NoFrame \/ air[n].age > airTime(air[n].frame)
                                THEN Silent ELSE [air[n] EXCEPT !.age = @ + 1]]
  BY DEF Tick
<1>2. ASSUME NEW n \in Node
      PROVE  Ages(mac[n], mac'[n])
  <2>1. \A timer \in Timers : <<n, timer>> \in running <=> mac[n][timer] # Off
    BY DEF running
  <2>2. \A timer \in Timers : mac[n][timer] # Off => mac[n][timer] > 0
    BY <1>1, <2>1
  <2>3. {"state", "radioState", "queue", "frameBeforeSIFS", "sequenceNumber", "asfTuplesList",
         "numSent", "endAIFS", "endDIFS", "endSIFS", "endTimeout"} \subseteq DOMAIN mac[n]
    BY DEF IInv, Sound, Settled, StationRecord
  <2>4. ASSUME NEW field \in DOMAIN mac[n]
        PROVE  mac'[n][field] = IF field \in Timers /\ mac[n][field] # Off
                                THEN mac[n][field] - 1 ELSE mac[n][field]
    BY <1>1, <2>1
  <2>5. /\ mac'[n].state = mac[n].state /\ mac'[n].radioState = mac[n].radioState
        /\ mac'[n].queue = mac[n].queue /\ mac'[n].frameBeforeSIFS = mac[n].frameBeforeSIFS
        /\ mac'[n].sequenceNumber = mac[n].sequenceNumber
        /\ mac'[n].asfTuplesList = mac[n].asfTuplesList /\ mac'[n].numSent = mac[n].numSent
    BY <2>3, <2>4 DEF Timers
  <2>6. /\ mac'[n].endAIFS = Less(mac[n].endAIFS) /\ mac'[n].endDIFS = Less(mac[n].endDIFS)
        /\ mac'[n].endSIFS = Less(mac[n].endSIFS) /\ mac'[n].endTimeout = Less(mac[n].endTimeout)
    BY <2>3, <2>4 DEF Timers, Less
  <2>7. /\ mac[n].endAIFS # 0 /\ mac[n].endDIFS # 0 /\ mac[n].endSIFS # 0
        /\ mac[n].endTimeout # 0
    BY <2>2 DEF Timers, Off
  <2> QED
    BY <2>5, <2>6, <2>7 DEF Ages
<1> QED
  BY <1>1, <1>2

(* A frame that is heard does not vanish.                                  *)
LEMMA TickAir ==
    ASSUME Spaced, IInv, IInv', Receivers, Senders, Tick
    PROVE  Receivers' /\ Senders'
<1>1. /\ ~signalDue /\ recvBuff' = recvBuff /\ receiving' = receiving
      /\ \A n \in Node : mac'[n].radioState = mac[n].radioState
      /\ \A n \in Node :
            air'[n] = IF air[n].frame = NoFrame \/ air[n].age > airTime(air[n].frame)
                      THEN Silent ELSE [air[n] EXCEPT !.age = @ + 1]
  BY TickAges DEF Ages
<1>2. ASSUME NEW n \in Node
      PROVE  \/ air'[n].frame = NoFrame
             \/ /\ air[n].frame # NoFrame /\ air'[n].frame = air[n].frame
                /\ air'[n].age = air[n].age + 1 /\ air[n].age <= airTime(air[n].frame)
  <2>1. air[n] \in [frame : Frame \cup {NoFrame}, age : Nat]
    BY DEF IInv
  <2>2. CASE air[n].frame = NoFrame \/ air[n].age > airTime(air[n].frame)
    <3>1. air'[n] = Silent
      BY <1>1, <2>2
    <3>2. Silent.frame = NoFrame
      BY DEF Silent
    <3> QED
      BY <3>1, <3>2
  <2>3. CASE ~(air[n].frame = NoFrame \/ air[n].age > airTime(air[n].frame))
    <3>1. air'[n] = [air[n] EXCEPT !.age = @ + 1]
      BY <1>1, <2>3
    <3> QED
      BY <2>1, <2>3, <3>1, AgeNatural
  <2> QED
    BY <2>2, <2>3
<1>3. ASSUME NEW n \in Node, NEW m \in recvBuff[n]
      PROVE  /\ m \in Node /\ m \in Hears[n] /\ air[m].frame # NoFrame /\ air[m].age >= 1
             /\ air'[m].frame = air[m].frame /\ air'[m].age = air[m].age + 1
  <2>1. m \in Node /\ m \in Hears[n] /\ air[m].frame # NoFrame /\ air[m].age >= 1
    BY DEF IInv, Receivers
  <2>2. audible(n, m)
    BY <1>1, <2>1 DEF signalDue, ends
  <2>3. ~(air[m].frame = NoFrame \/ air[m].age > airTime(air[m].frame))
    BY <2>1, <2>2, AgeNatural DEF audible
  <2>4. air'[m] = [air[m] EXCEPT !.age = @ + 1]
    BY <1>1, <2>1, <2>3
  <2>5. air[m] \in [frame : Frame \cup {NoFrame}, age : Nat]
    BY <2>1 DEF IInv
  <2> QED
    BY <2>1, <2>4, <2>5
<1>4. ASSUME NEW n \in Node, NEW m \in Node, starts(n, m)'
      PROVE  air'[m].age = 1
  <2>1. /\ m \in Hears[n] /\ air'[m].frame # NoFrame /\ air'[m].age \in 1 .. airTime(air'[m].frame)
        /\ m \notin recvBuff[n]
    BY <1>1, <1>4 DEF starts, audible
  <2>2. /\ air[m].frame # NoFrame /\ air'[m].frame = air[m].frame
        /\ air'[m].age = air[m].age + 1 /\ air[m].age <= airTime(air[m].frame)
    BY <1>2, <2>1
  <2>3. ~audible(n, m)
    BY <1>1, <2>1 DEF signalDue, starts
  <2> QED
    BY <2>1, <2>2, <2>3, AgeNatural DEF audible
<1>5. ASSUME NEW n \in Node, receiving[n] # Nobody
      PROVE  /\ receiving[n] \in recvBuff[n] /\ mac[n].radioState = "RECV"
             /\ air'[n].frame # NoFrame =>
                   air'[receiving[n]].age <= air'[n].age - airTime(air'[n].frame) + 1
  <2>1. /\ receiving[n] \in recvBuff[n] /\ mac[n].radioState = "RECV"
        /\ air[n].frame # NoFrame =>
              air[receiving[n]].age <= air[n].age - airTime(air[n].frame) + 1
    BY <1>5 DEF Receivers
  <2>2. receiving[n] \in Node /\ air'[receiving[n]].age = air[receiving[n]].age + 1
    BY <1>3, <2>1
  <2> QED
    BY <1>2, <2>1, <2>2, AgeNatural
<1>6. \A n \in Node : recvBuff'[n] # {} => mac'[n].radioState # "IDLE"
  BY <1>1 DEF Receivers
<1>7. \A n \in Node : recvBuff'[n] \subseteq {m \in Hears[n] : air'[m].frame # NoFrame /\ air'[m].age >= 1}
  BY <1>1, <1>3, AgeNatural
<1>8. Receivers'
  BY <1>1, <1>4, <1>5, <1>6, <1>7 DEF Receivers
<1>9. ASSUME NEW n \in Node, air'[n].frame # NoFrame
      PROVE  /\ mac[n].radioState = "TRANSMIT" => air'[n].age <= airTime(air'[n].frame)
             /\ mac[n].radioState # "TRANSMIT" => air'[n].age = airTime(air'[n].frame) + 1
  <2>1. /\ air[n].frame # NoFrame /\ air'[n].frame = air[n].frame
        /\ air'[n].age = air[n].age + 1 /\ air[n].age <= airTime(air[n].frame)
    BY <1>2, <1>9
  <2>2. mac[n].radioState = "TRANSMIT" => air[n].age # airTime(air[n].frame)
    BY <1>1 DEF signalDue, transmitted
  <2> QED
    BY <2>1, <2>2, AgeNatural DEF Senders
<1>10. ASSUME NEW n \in Node, mac[n].radioState = "TRANSMIT"
       PROVE  air'[n].frame # NoFrame
  <2>1. air[n].frame # NoFrame /\ air[n].age <= airTime(air[n].frame)
    BY <1>10 DEF Senders
  <2>2. air'[n] = [air[n] EXCEPT !.age = @ + 1]
    BY <1>1, <2>1, AgeNatural
  <2>3. air[n] \in [frame : Frame \cup {NoFrame}, age : Nat]
    BY DEF IInv
  <2> QED
    BY <2>1, <2>2, <2>3
<1>11. \A n \in Node : airTime(air'[n].frame) \in Nat
  BY AirTimes
<1>12. Senders'
  BY <1>1, <1>9, <1>10, <1>11 DEF Senders
<1> QED
  BY <1>8, <1>12

LEMMA AirNext ==
    ASSUME Spaced, IInv, Receivers, Senders, [Next]_vars
    PROVE  Receivers' /\ Senders'
<1>1. IInv'
  BY IInvNext
<1>2. CASE UNCHANGED vars
  BY <1>2 DEF vars, Receivers, Senders, starts, audible
<1>3. CASE Tick
  BY <1>1, <1>3, TickAir
<1>4. ASSUME NEW n \in Node, NEW m \in Node,
             ReceptionStart(n, m) \/ NoiseEnd(n, m) \/ TransmissionOver(n)
      PROVE  Receivers' /\ Senders'
  BY <1>1, <1>4, RadioAir
<1>5. ASSUME NEW n \in Node, UpperMsg(n) \/ EndReserve(n)
      PROVE  Receivers' /\ Senders'
  BY <1>1, <1>5, UpperMsgAccepts, SteadyAir
<1>6. ASSUME NEW n \in Node, NEW c \in Nat,
             \/ EndAIFS(n, c) \/ EndDIFS(n, c) \/ EndTimeout(n, c)
             \/ EndBackoff(n) \/ EndSIFS(n)
      PROVE  Receivers' /\ Senders'
  BY <1>1, <1>6, ExpiredFires, SteadyAir, RadiatesAir
<1>7. ASSUME NEW n \in Node, NEW m \in Node, NEW failed \in BOOLEAN, NEW c \in Nat,
             ReceptionEnd(n, m, failed, c)
      PROVE  Receivers' /\ Senders'
  BY <1>1, <1>7, ReceptionEndAir
<1>8. Draws \subseteq Nat /\ 0 \in Draws
  BY LimitAssumption DEF Draws
<1> QED
  BY <1>2, <1>3, <1>4, <1>5, <1>6, <1>7, <1>8 DEF Next

-----------------------------------------------------------------------------
(* What has been handed up.                                                *)

LEMMA AppendElements ==
    ASSUME NEW q \in Seq(Data), NEW f \in Data, NEW p, p = Append(q, f)
    PROVE  p \in Seq(Data) /\ elements(p) = elements(q) \cup {f}
<1>1. p \in Seq(Data) /\ DOMAIN p = 1 .. Len(q) + 1 /\ DOMAIN q = 1 .. Len(q) /\ Len(q) \in Nat
  OBVIOUS
<1>2. p[Len(q) + 1] = f /\ \A k \in 1 .. Len(q) : p[k] = q[k]
  OBVIOUS
<1> QED
  BY <1>1, <1>2 DEF elements

(* A frame that is handed up joins what has been handed up.                *)
LEMMA GetsGiven ==
    ASSUME HandedTyped, NEW n \in Node, NEW up \in Data \cup {NoFrame},
           handedUp' = IF up = NoFrame THEN handedUp
                       ELSE [handedUp EXCEPT ![n] = Append(@, up)]
    PROVE  /\ HandedTyped'
           /\ given(n)' = given(n) \cup ({up} \ {NoFrame})
           /\ \A r \in Node \ {n} : given(r)' = given(r)
<1>1. CASE up = NoFrame
  BY <1>1 DEF HandedTyped, given
<1>2. CASE up # NoFrame
  <2>1. PICK p : p = Append(handedUp[n], up)
    OBVIOUS
  <2>2. handedUp[n] \in Seq(Data)
    BY DEF HandedTyped
  <2>3. p \in Seq(Data) /\ elements(p) = elements(handedUp[n]) \cup {up}
    BY <1>2, <2>1, <2>2, AppendElements
  <2>4. handedUp' = [handedUp EXCEPT ![n] = p]
    BY <1>2, <2>1
  <2>5. HandedTyped' /\ handedUp'[n] = p /\ \A r \in Node \ {n} : handedUp'[r] = handedUp[r]
    BY <2>3, <2>4 DEF HandedTyped
  <2> QED
    BY <1>2, <2>3, <2>5 DEF given
<1> QED
  BY <1>1, <1>2

LEMMA GivenGrows ==
    ASSUME Spaced, IInv, HandedTyped, [Next]_vars
    PROVE  HandedTyped' /\ \A r \in Node : given(r) \subseteq given(r)'
<1>1. CASE handedUp' = handedUp
  BY <1>1 DEF HandedTyped, given
<1>2. CASE \E n, m \in Node : Gets(n, m)
  <2>1. PICK n \in Node, m \in Node : Gets(n, m)
    BY <1>2
  <2>2. PICK up \in Data \cup {NoFrame} :
           handedUp' = IF up = NoFrame THEN handedUp
                       ELSE [handedUp EXCEPT ![n] = Append(@, up)]
    BY <2>1 DEF Gets
  <2> QED
    BY <2>2, GetsGiven
<1>3. \/ handedUp' = handedUp
      \/ \E n, m \in Node : Gets(n, m)
  <2>1. CASE UNCHANGED vars
    BY <2>1 DEF vars
  <2>2. CASE Tick
    BY <2>2, TickAges
  <2>3. CASE Next /\ ~Tick
    BY <2>3, StepKinds DEF Quiet, Accepts, Fires, Radiates
  <2> QED
    BY <2>1, <2>2, <2>3
<1> QED
  BY <1>1, <1>2, <1>3

-----------------------------------------------------------------------------
(* The numbers of the frames.                                              *)

QueueStays(n) ==
    /\ mac'[n].queue = mac[n].queue /\ offered'[n] = offered[n]
    /\ mac'[n].sequenceNumber = mac[n].sequenceNumber
QueuePops(n) ==
    /\ mac[n].queue # <<>>
    /\ mac'[n].queue = Tail(mac[n].queue) /\ offered'[n] = offered[n]
    /\ mac'[n].sequenceNumber = mac[n].sequenceNumber
QueueGrows(n) ==
    /\ offered[n] # <<>> /\ offered'[n] = Tail(offered[n])
    /\ mac'[n].queue = Append(mac[n].queue, DataFrame(n, Head(offered[n]), mac[n].sequenceNumber))
    /\ mac'[n].sequenceNumber = (mac[n].sequenceNumber + 1) % 4096

LEMMA GetsQueue ==
    ASSUME IInv, NEW n \in Node, NEW t, NEW up, NEW f, Receives(mac[n], t, up, n, f)
    PROVE  /\ t.sequenceNumber = mac[n].sequenceNumber
           /\ \/ t.queue = mac[n].queue
              \/ mac[n].queue # <<>> /\ t.queue = Tail(mac[n].queue)
<1>1. mac[n].state \in {"WAITACK", "WAITCTS"} => mac[n].queue # <<>>
  BY StationSound DEF Settled
<1> QED
  BY <1>1 DEF Receives, Takes, Finishes, Keeps, KeepsOthers

LEMMA QueueSteps ==
    ASSUME Spaced, IInv, [Next]_vars, NEW n \in Node
    PROVE  QueueStays(n) \/ QueuePops(n) \/ QueueGrows(n)
<1>1. CASE UNCHANGED vars
  BY <1>1 DEF vars, QueueStays
<1>2. CASE Tick
  BY <1>2, TickAges DEF Ages, QueueStays
<1>3. ASSUME NEW p \in Node, Quiet(p)
      PROVE  QueueStays(n)
  BY <1>3 DEF Quiet, QueueStays, Alone, Keeps, KeepsOthers
<1>4. ASSUME NEW p \in Node, Accepts(p)
      PROVE  QueueStays(n) \/ QueueGrows(n)
  <2>1. DOMAIN offered = Node
    BY DEF IInv
  <2> QED
    BY <1>4, <2>1 DEF Accepts, Alone, Joins, QueueStays, QueueGrows
<1>5. ASSUME NEW p \in Node, Fires(p)
      PROVE  QueueStays(n) \/ QueuePops(n)
  <2>1. CASE p = n
    BY <1>5, <2>1
    DEF Fires, Elapses, Contends, GivesUp, Tries, Finishes, Keeps, KeepsOthers, QueueStays, QueuePops
  <2>2. CASE p # n
    BY <1>5, <2>2 DEF Fires, Alone, QueueStays
  <2> QED
    BY <2>1, <2>2
<1>6. ASSUME NEW p \in Node, NEW f, Radiates(p, f)
      PROVE  QueueStays(n)
  BY <1>6 DEF Radiates, Emits, KeepsData, Alone, QueueStays
<1>7. ASSUME NEW p \in Node, NEW m \in Node, Gets(p, m)
      PROVE  QueueStays(n) \/ QueuePops(n)
  <2>1. CASE p = n
    BY <1>7, <2>1, GetsQueue DEF Gets, QueueStays, QueuePops
  <2>2. CASE p # n
    BY <1>7, <2>2 DEF Gets, Alone, QueueStays
  <2> QED
    BY <2>1, <2>2
<1> QED
  BY <1>1, <1>2, <1>3, <1>4, <1>5, <1>6, <1>7, StepKinds

LEMMA CountsAreNumbers ==
    ASSUME IInv, NEW n \in Node
    PROVE  /\ Len(Workload[n]) \in Nat /\ Len(offered[n]) \in Nat /\ Len(mac[n].queue) \in Nat
           /\ numAccepted(n) \in Int /\ numFinished(n) \in Int
           /\ offered[n] \in Seq(Node \cup {Multicast}) /\ mac[n].queue \in Seq(Data)
           /\ Workload[n] \in Seq(Node \cup {Multicast})
<1>1. Workload[n] \in Seq(Node \cup {Multicast})
  BY WorkloadAssumption
<1>2. offered[n] \in Seq(Node \cup {Multicast})
  BY DEF IInv
<1>3. mac[n].queue \in Seq(Data)
  BY StationSound DEF StationRecord, Queues
<1> QED
  BY <1>1, <1>2, <1>3 DEF numAccepted, numFinished

(* The frame at the head of the queue is the first that is not finished.   *)
LEMMA HeadIsNext ==
    ASSUME IInv, Numbering, NEW n \in Node, mac[n].queue # <<>>
    PROVE  /\ Head(mac[n].queue) = Sent(n, numFinished(n))
           /\ numFinished(n) >= 0 /\ numFinished(n) < numAccepted(n)
<1>1. mac[n].queue \in Seq(Data) /\ Len(mac[n].queue) >= 1 /\ 1 \in DOMAIN mac[n].queue
      /\ Head(mac[n].queue) = mac[n].queue[1]
  BY CountsAreNumbers
<1>2. mac[n].queue[1] = Sent(n, numFinished(n) + 1 - 1)
  BY <1>1 DEF Numbering
<1>3. numFinished(n) + 1 - 1 = numFinished(n)
  BY CountsAreNumbers
<1> QED
  BY <1>1, <1>2, <1>3, CountsAreNumbers DEF Numbering, numFinished

(* Nothing is forgotten, and nothing finished is taken up again.           *)
LEMMA CountsGrow ==
    ASSUME IInv, NEW n \in Node
    PROVE  /\ QueueStays(n) => numAccepted(n)' = numAccepted(n) /\ numFinished(n)' = numFinished(n)
           /\ QueuePops(n) => numAccepted(n)' = numAccepted(n) /\ numFinished(n)' = numFinished(n) + 1
           /\ QueueGrows(n) => numAccepted(n)' = numAccepted(n) + 1 /\ numFinished(n)' = numFinished(n)
<1>1. QueueStays(n) => numAccepted(n)' = numAccepted(n) /\ numFinished(n)' = numFinished(n)
  BY DEF QueueStays, numAccepted, numFinished
<1>2. ASSUME QueuePops(n)
      PROVE  numAccepted(n)' = numAccepted(n) /\ numFinished(n)' = numFinished(n) + 1
  <2>1. Len(mac'[n].queue) = Len(mac[n].queue) - 1
    BY <1>2, CountsAreNumbers DEF QueuePops
  <2>2. offered'[n] = offered[n]
    BY <1>2 DEF QueuePops
  <2>3. numAccepted(n)' = numAccepted(n)
    BY <2>2 DEF numAccepted
  <2> QED
    BY <2>1, <2>3, CountsAreNumbers DEF numFinished
<1>3. ASSUME QueueGrows(n)
      PROVE  numAccepted(n)' = numAccepted(n) + 1 /\ numFinished(n)' = numFinished(n)
  <2>1. Len(mac'[n].queue) = Len(mac[n].queue) + 1
    BY <1>3, CountsAreNumbers DEF QueueGrows
  <2>2. Len(offered'[n]) = Len(offered[n]) - 1
    BY <1>3, CountsAreNumbers DEF QueueGrows
  <2> QED
    BY <2>1, <2>2, CountsAreNumbers DEF numAccepted, numFinished
<1> QED
  BY <1>1, <1>2, <1>3

LEMMA NumberingNext ==
    ASSUME Spaced, Numbered, IInv, Numbering, [Next]_vars
    PROVE  Numbering'
<1> SUFFICES ASSUME NEW n \in Node
             PROVE  /\ Len(offered'[n]) <= Len(Workload[n]) /\ numFinished(n)' >= 0
                    /\ \A i \in DOMAIN offered'[n] : offered'[n][i] = Workload[n][numAccepted(n)' + i]
                    /\ mac'[n].sequenceNumber = numAccepted(n)' % 4096
                    /\ \A i \in DOMAIN mac'[n].queue : mac'[n].queue[i] = Sent(n, numFinished(n)' + i - 1)
  BY DEF Numbering
<1> DEFINE q == mac[n].queue  p == mac'[n].queue
<1>1. /\ Len(offered[n]) <= Len(Workload[n]) /\ numFinished(n) >= 0
      /\ \A i \in DOMAIN offered[n] : offered[n][i] = Workload[n][numAccepted(n) + i]
      /\ mac[n].sequenceNumber = numAccepted(n) % 4096
      /\ \A i \in DOMAIN q : q[i] = Sent(n, numFinished(n) + i - 1)
  BY DEF Numbering
<1>2. CASE QueueStays(n)
  BY <1>1, <1>2, CountsGrow DEF QueueStays
<1>3. CASE QueuePops(n)
  <2>1. numAccepted(n)' = numAccepted(n) /\ numFinished(n)' = numFinished(n) + 1
    BY <1>3, CountsGrow
  <2>2. p = Tail(q) /\ q # <<>> /\ q \in Seq(Data) /\ offered'[n] = offered[n]
        /\ mac'[n].sequenceNumber = mac[n].sequenceNumber
    BY <1>3, CountsAreNumbers DEF QueuePops
  <2>3. ASSUME NEW i \in DOMAIN p
        PROVE  p[i] = Sent(n, numFinished(n)' + i - 1)
    <3>1. i \in Nat /\ i + 1 \in DOMAIN q /\ p[i] = q[i + 1]
      BY <2>2
    <3>2. p[i] = Sent(n, numFinished(n) + (i + 1) - 1)
      BY <1>1, <3>1
    <3>3. numFinished(n) + (i + 1) - 1 = numFinished(n)' + i - 1
      BY <2>1, <3>1, CountsAreNumbers
    <3> QED
      BY <3>2, <3>3
  <2>4. numFinished(n)' >= 0
    BY <1>1, <2>1, CountsAreNumbers
  <2> QED
    BY <1>1, <2>1, <2>2, <2>3, <2>4
<1>4. CASE QueueGrows(n)
  <2> DEFINE to == Head(offered[n])
             frame == DataFrame(n, to, mac[n].sequenceNumber)
  <2>1. numAccepted(n)' = numAccepted(n) + 1 /\ numFinished(n)' = numFinished(n)
    BY <1>4, CountsGrow
  <2>2. /\ offered[n] # <<>> /\ offered'[n] = Tail(offered[n]) /\ p = Append(q, frame)
        /\ mac'[n].sequenceNumber = (mac[n].sequenceNumber + 1) % 4096
        /\ q \in Seq(Data) /\ offered[n] \in Seq(Node \cup {Multicast})
    BY <1>4, CountsAreNumbers DEF QueueGrows
  <2>3. /\ Len(offered[n]) >= 1 /\ numAccepted(n) >= 0 /\ numAccepted(n) < Len(Workload[n])
        /\ to = offered[n][1] /\ 1 \in DOMAIN offered[n]
    <3>1. Len(offered[n]) >= 1 /\ to = offered[n][1] /\ 1 \in DOMAIN offered[n]
      BY <2>2
    <3>2. /\ Len(offered[n]) <= Len(Workload[n])
          /\ Len(offered[n]) \in Nat /\ Len(Workload[n]) \in Nat
      BY <1>1, CountsAreNumbers
    <3>3. numAccepted(n) >= 0 /\ numAccepted(n) < Len(Workload[n])
      <4>1. \A a, b \in Nat : a >= 1 /\ a <= b => b - a >= 0 /\ b - a < b
        OBVIOUS
      <4> QED
        BY <3>1, <3>2, <4>1 DEF numAccepted
    <3> QED
      BY <3>1, <3>3
  <2>4. numAccepted(n) < 4096
    <3>1. Len(Workload[n]) <= 4096
      BY DEF Numbered
    <3> QED
      BY <2>3, <3>1, CountsAreNumbers
  <2>5. mac[n].sequenceNumber = numAccepted(n) /\ mac'[n].sequenceNumber = numAccepted(n)' % 4096
    <3>1. numAccepted(n) \in Int /\ numAccepted(n) >= 0
      BY <2>3, CountsAreNumbers
    <3>2. numAccepted(n) % 4096 = numAccepted(n)
      BY <2>4, <3>1
    <3> QED
      BY <1>1, <2>1, <2>2, <3>2
  <2>6. frame = Sent(n, numAccepted(n))
    BY <1>1, <2>3, <2>5 DEF Sent
  <2>7. ASSUME NEW i \in DOMAIN offered'[n]
        PROVE  offered'[n][i] = Workload[n][numAccepted(n)' + i]
    <3>1. i \in Nat /\ i + 1 \in DOMAIN offered[n] /\ offered'[n][i] = offered[n][i + 1]
      BY <2>2
    <3>2. offered'[n][i] = Workload[n][numAccepted(n) + (i + 1)]
      BY <1>1, <3>1
    <3>3. numAccepted(n) + (i + 1) = numAccepted(n)' + i
      BY <2>1, <3>1, CountsAreNumbers
    <3> QED
      BY <3>2, <3>3
  <2>8. ASSUME NEW i \in DOMAIN p
        PROVE  p[i] = Sent(n, numFinished(n)' + i - 1)
    <3>1. CASE i \in DOMAIN q
      <4>1. p[i] = q[i]
        BY <2>2, <3>1
      <4> QED
        BY <1>1, <2>1, <3>1, <4>1
    <3>2. CASE i \notin DOMAIN q
      <4>1. i = Len(q) + 1 /\ p[i] = frame
        BY <2>2, <3>2
      <4>2. numFinished(n)' + i - 1 = numAccepted(n)
        BY <2>1, <4>1, CountsAreNumbers DEF numFinished
      <4> QED
        BY <2>6, <4>1, <4>2
    <3> QED
      BY <3>1, <3>2
  <2>9. Len(offered'[n]) <= Len(Workload[n]) /\ numFinished(n)' >= 0
    BY <1>1, <2>1, <2>2, CountsAreNumbers
  <2> QED
    BY <2>5, <2>7, <2>8, <2>9
<1> QED
  BY <1>2, <1>3, <1>4, QueueSteps

-----------------------------------------------------------------------------
(* The frame in the air.                                                   *)

Held(s, f, age) ==
    \/ s.state = "WAITACK" /\ Head(s.queue) = f /\ s.endTimeout + age >= DataTime + 2
    \/ /\ f.ra = Multicast
       /\ \/ f \in s.numSent
          \/ /\ s.state = "WAITMULTICAST" /\ Head(s.queue) = f
             /\ s.endTimeout + age >= DataTime

LEMMA InTheAirIsHeld ==
    ASSUME InTheAir, NEW n \in Node, air[n].frame.type = "DATA"
    PROVE  LET f == air[n].frame IN
           /\ f = Sent(n, f.seq) /\ f.seq \in 0 .. numFinished(n) /\ f.seq < numAccepted(n)
           /\ Held(mac[n], f, air[n].age)
BY DEF InTheAir, Awaits, Held

LEMMA TypedData ==
    ASSUME NEW f \in Frame \cup {NoFrame}, f.type = "DATA"
    PROVE  f \in Data /\ f.seq \in Int
BY DEF Frame, Data, Rts, Answer, NoFrame

(* The station holds on to the frame while it is in the air.               *)
LEMMA MovesHeld ==
    ASSUME NEW s, Sound(s), NEW t, Moves(s, t), NEW f, NEW age, Held(s, f, age),
           t.queue = s.queue \/ (s.queue # <<>> /\ Head(t.queue) = Head(s.queue)),
           t.numSent = s.numSent
    PROVE  Held(t, f, age)
<1>1. s.state \in {"WAITACK", "WAITMULTICAST"} => s.queue # <<>>
  BY DEF Sound, Settled
<1> QED
  BY <1>1 DEF Held, Moves, Stays

LEMMA FiresHeld ==
    ASSUME IInv, Senders, NEW n \in Node, Fires(n), air[n].frame.type = "DATA",
           Held(mac[n], air[n].frame, air[n].age)
    PROVE  Held(mac'[n], air[n].frame, air[n].age)
<1> DEFINE s == mac[n]  t == mac'[n]  f == air[n].frame
<1>1. Elapses(s, t)
  BY DEF Fires
<1>2. f.type = "DATA" => f # NoFrame
  BY DEF NoFrame
<1>3. air[n].age <= DataTime + 1 /\ air[n].age \in Nat /\ DataTime \in Nat
  <2>1. airTime(f) = DataTime
    BY DEF airTime
  <2> QED
    BY <1>2, <2>1, AgeNatural, AirTimes DEF Senders
<1>4. CASE Contends(s, t) /\ s.state = "WAITAIFS"
  BY <1>4 DEF Held, Contends, Keeps
<1>5. CASE s.state = "BACKOFF" /\ Begins(t) /\ Keeps(s, t)
  BY <1>5 DEF Held, Keeps
<1>6. CASE s.endTimeout = 0 /\ s.queue # <<>> /\ GivesUp(s, t)
  <2>1. ~(s.state = "WAITACK" /\ Head(s.queue) = f /\ s.endTimeout + air[n].age >= DataTime + 2)
    BY <1>3, <1>6
  <2>2. f.ra = Multicast /\ (f \in s.numSent \/ (s.state = "WAITMULTICAST" /\ Head(s.queue) = f))
    BY <2>1 DEF Held
  <2>3. f \in t.numSent
    BY <1>6, <2>2 DEF GivesUp, Tries, Finishes, Keeps
  <2> QED
    BY <2>2, <2>3 DEF Held
<1> QED
  BY <1>1, <1>4, <1>5, <1>6 DEF Elapses

(* The frame just sent.                                                    *)
LEMMA RadiatesHeld ==
    ASSUME Spaced, IInv, Numbering, NEW n \in Node, NEW f, Radiates(n, f), f.type = "DATA"
    PROVE  /\ mac[n].queue # <<>> /\ f = Head(mac[n].queue)
           /\ Held(mac'[n], f, 0)
<1> DEFINE s == mac[n]  t == mac'[n]
<1>1. KeepsData(s, t) /\ (Transmits(s, t, f) \/ Replies(s, t, f))
  BY DEF Radiates, Emits
<1>2. ~Replies(s, t, f)
  BY DEF Replies, CTSFrame, ACKFrame
<1>3. f # RTSFrame(Head(s.queue))
  BY DEF RTSFrame
<1>4. dataTimeout >= DataTime + 2 /\ dataTimeout \in Int /\ DataTime \in Int
  BY TimeAssumption, LimitAssumption DEF dataTimeout
<1> QED
  BY <1>1, <1>2, <1>3, <1>4 DEF Transmits, Held, KeepsData

LEMMA TickHeld ==
    ASSUME NEW s, Sound(s), NEW t, Ages(s, t), NEW f, NEW age \in Nat, Held(s, f, age)
    PROVE  Held(t, f, age + 1)
<1>1. s.state \in {"WAITACK", "WAITMULTICAST"} =>
         s.endTimeout \in Int /\ t.endTimeout = s.endTimeout - 1
  BY TimersAreNumbers DEF Sound, Settled, Ages, Less
<1> QED
  BY <1>1, AirTimes DEF Held, Ages

LEMMA InTheAirNext ==
    ASSUME Spaced, Numbered, IInv, Numbering, Receivers, Senders, InTheAir, [Next]_vars
    PROVE  InTheAir'
<1> SUFFICES ASSUME NEW n \in Node, air'[n].frame.type = "DATA"
             PROVE  LET f == air'[n].frame IN
                    /\ f = Sent(n, f.seq) /\ f.seq \in 0 .. numFinished(n)' /\ f.seq < numAccepted(n)'
                    /\ Held(mac'[n], f, air'[n].age)
  BY DEF InTheAir, Awaits, Held
<1>1. /\ numFinished(n) \in Int /\ numAccepted(n) \in Int /\ numFinished(n) >= 0
      /\ numFinished(n)' \in {numFinished(n), numFinished(n) + 1}
      /\ numAccepted(n)' \in {numAccepted(n), numAccepted(n) + 1}
  BY CountsAreNumbers, CountsGrow, QueueSteps DEF Numbering
<1>2. ASSUME air'[n].frame = air[n].frame,
             Held(mac[n], air[n].frame, air[n].age) => Held(mac'[n], air[n].frame, air'[n].age)
      PROVE  LET f == air'[n].frame IN
             /\ f = Sent(n, f.seq) /\ f.seq \in 0 .. numFinished(n)' /\ f.seq < numAccepted(n)'
             /\ Held(mac'[n], f, air'[n].age)
  <2> DEFINE f == air[n].frame
  <2>1. /\ f = Sent(n, f.seq) /\ f.seq \in 0 .. numFinished(n) /\ f.seq < numAccepted(n)
        /\ Held(mac'[n], f, air'[n].age)
    BY <1>2, InTheAirIsHeld
  <2>2. f.seq \in 0 .. numFinished(n)' /\ f.seq < numAccepted(n)'
    BY <1>1, <2>1
  <2> QED
    BY <1>2, <2>1, <2>2
<1>3. Sound(mac[n]) /\ DOMAIN air = Node
  BY DEF IInv
<1>4. CASE mac'[n] = mac[n] /\ air'[n] = air[n]
  BY <1>2, <1>4
<1>5. CASE UNCHANGED vars
  BY <1>4, <1>5 DEF vars
<1>6. CASE Tick
  <2>1. /\ Ages(mac[n], mac'[n])
        /\ air'[n] = IF air[n].frame = NoFrame \/ air[n].age > airTime(air[n].frame)
                     THEN Silent ELSE [air[n] EXCEPT !.age = @ + 1]
    BY <1>6, TickAges
  <2>2. Silent.frame.type # "DATA"
    BY DEF Silent, NoFrame
  <2>3. air'[n] = [air[n] EXCEPT !.age = @ + 1]
    BY <2>1, <2>2
  <2>4. air[n] \in [frame : Frame \cup {NoFrame}, age : Nat]
    BY DEF IInv
  <2>5. air'[n].frame = air[n].frame /\ air'[n].age = air[n].age + 1 /\ air[n].age \in Nat
    BY <2>3, <2>4
  <2> QED
    BY <1>2, <1>3, <2>1, <2>5, TickHeld
<1>7. ASSUME NEW p \in Node, Quiet(p) \/ Accepts(p) \/ Fires(p) \/ \E m \in Node : Gets(p, m)
      PROVE  LET f == air'[n].frame IN
             /\ f = Sent(n, f.seq) /\ f.seq \in 0 .. numFinished(n)' /\ f.seq < numAccepted(n)'
             /\ Held(mac'[n], f, air'[n].age)
  <2>1. air' = air /\ Alone(p)
    BY <1>7 DEF Quiet, Accepts, Fires, Gets
  <2>2. CASE p # n
    BY <1>4, <2>1, <2>2 DEF Alone
  <2>3. CASE p = n /\ Quiet(p)
    BY <1>2, <1>3, <2>1, <2>3, MovesHeld DEF Quiet, Keeps
  <2>4. CASE p = n /\ Accepts(p)
    <3>1. mac[n].queue # <<>> => Head(mac'[n].queue) = Head(mac[n].queue)
      BY <2>4, CountsAreNumbers DEF Accepts, Joins
    <3>2. mac[n].state \in {"WAITACK", "WAITMULTICAST"} => mac[n].queue # <<>>
      BY <1>3 DEF Sound, Settled
    <3>3. Held(mac[n], air[n].frame, air[n].age) => Held(mac'[n], air[n].frame, air[n].age)
      BY <2>4, <3>1, <3>2 DEF Held, Accepts, Joins, Moves, Stays
    <3> QED
      BY <1>2, <2>1, <3>3
  <2>5. CASE p = n /\ Fires(p)
    BY <1>2, <2>1, <2>5, FiresHeld
  <2>6. CASE p = n /\ \E m \in Node : Gets(p, m)
    <3>1. air[n].frame = NoFrame
      BY <2>6, ReceiverSilent DEF Gets
    <3> QED
      BY <2>1, <3>1 DEF NoFrame
  <2> QED
    BY <1>7, <2>2, <2>3, <2>4, <2>5, <2>6
<1>8. ASSUME NEW p \in Node, NEW f, Radiates(p, f)
      PROVE  LET g == air'[n].frame IN
             /\ g = Sent(n, g.seq) /\ g.seq \in 0 .. numFinished(n)' /\ g.seq < numAccepted(n)'
             /\ Held(mac'[n], g, air'[n].age)
  <2>1. air' = [air EXCEPT ![p] = [frame |-> f, age |-> 0]] /\ Alone(p)
    BY <1>8 DEF Radiates
  <2>2. CASE p # n
    BY <1>3, <1>4, <2>1, <2>2 DEF Alone
  <2>3. CASE p = n
    <3>1. air'[n].frame = f /\ air'[n].age = 0
      BY <1>3, <2>1, <2>3
    <3>2. mac[n].queue # <<>> /\ f = Head(mac[n].queue) /\ Held(mac'[n], f, 0)
      BY <1>8, <2>3, <3>1, RadiatesHeld
    <3>3. f = Sent(n, numFinished(n)) /\ numFinished(n) < numAccepted(n)
      BY <3>2, HeadIsNext
    <3>4. f.seq = numFinished(n)
      BY <3>3 DEF Sent, DataFrame
    <3>5. f.seq \in 0 .. numFinished(n)' /\ f.seq < numAccepted(n)'
      BY <1>1, <3>3, <3>4
    <3> QED
      BY <3>1, <3>2, <3>3, <3>4, <3>5
  <2> QED
    BY <2>2, <2>3
<1> QED
  BY <1>5, <1>6, <1>7, <1>8, StepKinds

-----------------------------------------------------------------------------
(* The acknowledgement.                                                    *)

(* The station waits for the acknowledgement of f, or for none for k ticks. *)
Expects(s, k, f) == (s.state = "WAITACK" /\ Head(s.queue) = f) \/ Waits(s, k)
Patient(s, t, j) == \A k \in j .. Sifs + 1 : \A f : Expects(s, k, f) => Expects(t, k, f)

LEMMA BeginsWaits ==
    ASSUME NEW t, Sound(t), Begins(t), NEW k \in 0 .. Sifs + 1
    PROVE  Waits(t, k)
BY TimersAreNumbers DEF Begins, Waits, Holds

LEMMA MovesPatient ==
    ASSUME NEW s, Sound(s), NEW t, Sound(t), Moves(s, t),
           t.queue = s.queue \/ (s.queue # <<>> => Head(t.queue) = Head(s.queue))
    PROVE  Patient(s, t, 0)
<1> SUFFICES ASSUME NEW k \in 0 .. Sifs + 1, NEW f, Expects(s, k, f)
             PROVE  Expects(t, k, f)
  BY DEF Patient
<1>1. CASE Begins(t)
  BY <1>1, BeginsWaits DEF Expects
<1>2. CASE Stays(s, t)
  <2>1. s.state = "WAITACK" => s.queue # <<>>
    BY DEF Sound, Settled
  <2>2. Waits(s, k) => Waits(t, k)
    BY <1>2 DEF Stays, Waits, Holds
  <2> QED
    BY <1>2, <2>1, <2>2 DEF Expects, Stays
<1> QED
  BY <1>1, <1>2 DEF Moves

LEMMA FiresPatient ==
    ASSUME NEW s, Sound(s), NEW t, Sound(t), Elapses(s, t)
    PROVE  Patient(s, t, 1)
<1> SUFFICES ASSUME NEW k \in 1 .. Sifs + 1, NEW f, Expects(s, k, f)
             PROVE  Expects(t, k, f)
  BY DEF Patient
<1>1. k \in 0 .. Sifs + 1 /\ k >= 1 /\ k \in Int
  BY TimersAreNumbers
<1>2. CASE Begins(t)
  BY <1>1, <1>2, BeginsWaits DEF Expects
<1>3. CASE Contends(s, t) /\ s.state = "WAITAIFS" /\ ~Rests(s)
  <2>1. s.endSIFS # 0
    BY <1>3 DEF Sound, Settled, Off
  <2>2. ~Holds(s, 1)
    BY <1>3, <2>1 DEF Rests
  <2>3. ~Holds(s, k)
    BY <1>1, <2>2, TimersAreNumbers DEF Holds
  <2> QED
    BY <1>3, <2>3 DEF Expects, Waits
<1>4. CASE s.state = "WAITACK" /\ t.state = "WAITACK" /\ Keeps(s, t)
  BY <1>4 DEF Expects, Waits, Keeps
<1> QED
  BY <1>2, <1>3, <1>4 DEF Elapses, GivesUp

LEMMA EmitsPatient ==
    ASSUME NEW s, Sound(s), NEW t, Sound(t), NEW f, Emits(s, t, f)
    PROVE  Patient(s, t, 1)
<1> SUFFICES ASSUME NEW k \in 1 .. Sifs + 1, NEW g, Expects(s, k, g)
             PROVE  Expects(t, k, g)
  BY DEF Patient
<1>1. k \in 0 .. Sifs + 1 /\ k >= 1 /\ k \in Int
  BY TimersAreNumbers
<1>2. CASE Replies(s, t, f)
  BY <1>1, <1>2, BeginsWaits DEF Expects, Replies
<1>3. CASE ~Waits(s, 1)
  <2>1. ~Waits(s, k)
    BY <1>1, <1>3, TimersAreNumbers DEF Waits, Holds
  <2> QED
    BY <2>1 DEF Expects, Emits
<1> QED
  BY <1>2, <1>3 DEF Emits

LEMMA ReceivesPatient ==
    ASSUME NEW s, Sound(s), NEW t, Sound(t), NEW up, NEW n, NEW f, Receives(s, t, up, n, f)
    PROVE  Patient(s, t, 0)
<1>1. CASE Keeps(s, t) /\ Moves(s, t)
  BY <1>1, MovesPatient DEF Keeps
<1> SUFFICES ASSUME ~(Keeps(s, t) /\ Moves(s, t)),
                    NEW k \in 0 .. Sifs + 1, NEW g, Expects(s, k, g)
             PROVE  Expects(t, k, g)
  BY <1>1 DEF Patient
<1>2. CASE Begins(t)
  BY <1>2, BeginsWaits DEF Expects
<1>3. CASE Answers(t, n, f) /\ f.type # "CTS"
  <2>1. t.endAIFS = Off /\ t.endDIFS = Off
    BY <1>3 DEF Answers, Sound, Settled
  <2>2. Waits(t, k)
    BY <1>3, <2>1 DEF Waits, Holds, Answers
  <2> QED
    BY <2>2 DEF Expects
<1>4. CASE s.state = "WAITCTS"
  BY <1>4 DEF Expects, Waits
<1> QED
  BY <1>2, <1>3, <1>4 DEF Receives, Takes

LEMMA AgesExpects ==
    ASSUME NEW s, Sound(s), NEW t, Ages(s, t), NEW f, NEW k \in Nat, Expects(s, k + 1, f)
    PROVE  Expects(t, k, f)
<1>1. CASE s.state = "WAITACK" /\ Head(s.queue) = f
  BY <1>1 DEF Expects, Ages
<1>2. CASE Waits(s, k + 1)
  <2>1. t.endAIFS # Off => s.endAIFS # Off /\ t.endAIFS = s.endAIFS - 1
    BY <1>2 DEF Ages, Less
  <2>2. t.endDIFS # Off => s.endDIFS # Off /\ t.endDIFS = s.endDIFS - 1
    BY <1>2 DEF Ages, Less
  <2>3. Holds(t, k)
    BY <1>2, <2>1, <2>2, TimersAreNumbers DEF Waits, Holds, Ages
  <2> QED
    BY <1>2, <2>3 DEF Expects, Waits, Ages
<1> QED
  BY <1>1, <1>2 DEF Expects

(* The sender is patient: in the steps of a radio and of time always, in   *)
(* those of its own timers for what is more than a tick away.              *)
LEMMA SendersPatient ==
    ASSUME Spaced, IInv, IInv', Next, ~Tick, NEW n \in Node
    PROVE  Patient(mac[n], mac'[n], IF signalDue THEN 0 ELSE 1)
<1>1. Sound(mac[n]) /\ Sound(mac'[n])
  BY DEF IInv
<1>2. Patient(mac[n], mac[n], 0)
  BY DEF Patient
<1>3. Patient(mac[n], mac'[n], 0) => Patient(mac[n], mac'[n], IF signalDue THEN 0 ELSE 1)
  BY TimersAreNumbers, <1>1 DEF Patient
<1>4. ASSUME NEW p \in Node, Quiet(p) \/ Accepts(p) \/ \E m \in Node : Gets(p, m)
      PROVE  Patient(mac[n], mac'[n], 0)
  <2>1. CASE p # n
    BY <1>2, <1>4, <2>1 DEF Quiet, Accepts, Gets, Alone
  <2>2. CASE p = n /\ Quiet(p)
    BY <1>1, <2>2, MovesPatient DEF Quiet, Keeps
  <2>3. CASE p = n /\ Accepts(p)
    <3>1. mac[n].queue # <<>> => Head(mac'[n].queue) = Head(mac[n].queue)
      BY <2>3, CountsAreNumbers DEF Accepts, Joins
    <3> QED
      BY <1>1, <2>3, <3>1, MovesPatient DEF Accepts
  <2>4. CASE p = n /\ \E m \in Node : Gets(p, m)
    BY <1>1, <2>4, ReceivesPatient DEF Gets
  <2> QED
    BY <1>4, <2>1, <2>2, <2>3, <2>4
<1>5. ASSUME NEW p \in Node, Fires(p) \/ \E f : Radiates(p, f)
      PROVE  Patient(mac[n], mac'[n], IF signalDue THEN 0 ELSE 1)
  <2>1. CASE p # n
    BY <1>2, <1>3, <1>5, <2>1 DEF Fires, Radiates, Alone
  <2>2. CASE p = n
    <3>1. ~signalDue
      BY <1>5 DEF Fires, Radiates
    <3>2. Patient(mac[n], mac'[n], 1)
      BY <1>1, <1>5, <2>2, FiresPatient, EmitsPatient DEF Fires, Radiates
    <3> QED
      BY <3>1, <3>2
  <2> QED
    BY <2>1, <2>2
<1> QED
  BY <1>3, <1>4, <1>5, StepKinds

(* A data frame that has been received.                                    *)
LEMMA GetsData ==
    ASSUME Spaced, IInv, Receivers, InTheAir, NEW n \in Node, NEW m \in Node, Gets(n, m),
           air[m].frame.type = "DATA"
    PROVE  LET f == air[m].frame IN
           /\ m # n /\ m \in Hears[n] /\ mac'[m] = mac[m] /\ f \in Data
           /\ f = Sent(m, f.seq) /\ f.ta = m
           /\ f.seq \in 0 .. numFinished(m) /\ f.seq < numAccepted(m)
           /\ f.ra # Multicast => Awaits(m, f)
<1> DEFINE f == air[m].frame
<1>1. m \in recvBuff[n] /\ Alone(n)
  BY DEF Gets, ends
<1>2. m \in Hears[n]
  BY <1>1 DEF Receivers
<1>3. m # n
  BY <1>2, RangeAssumption
<1>4. f \in Data
  BY AgeNatural, TypedData
<1>5. f = Sent(m, f.seq) /\ f.seq \in 0 .. numFinished(m) /\ f.seq < numAccepted(m)
      /\ Held(mac[m], f, air[m].age)
  BY InTheAirIsHeld
<1>6. f.ta = m
  BY <1>5 DEF Sent, DataFrame
<1> QED
  BY <1>1, <1>2, <1>3, <1>4, <1>5, <1>6 DEF Held, Awaits, Alone

(* A frame for the station that it answers has been handed up, now or      *)
(* before.                                                                 *)
LEMMA GetsAnswers ==
    ASSUME Spaced, IInv, HandedTyped, Receivers, InTheAir, HandedUpOnce,
           NEW r \in Node, NEW m \in Node, Gets(r, m),
           mac'[r].state = "WAITSIFS", mac'[r].frameBeforeSIFS.type = "DATA",
           ~(Moves(mac[r], mac'[r]))
    PROVE  LET f == mac'[r].frameBeforeSIFS IN
           /\ f.ra = r /\ f.ta \in Hears[r] /\ mac'[r].endSIFS = Sifs /\ f \in given(r)'
           /\ mac'[f.ta].state = "WAITACK" /\ Head(mac'[f.ta].queue) = f
<1> DEFINE f == air[m].frame  t == mac'[r]
<1>1. PICK up \in Data \cup {NoFrame} :
         /\ Receives(mac[r], t, up, r, f)
         /\ handedUp' = IF up = NoFrame THEN handedUp
                        ELSE [handedUp EXCEPT ![r] = Append(@, up)]
  BY DEF Gets
<1>2. ~Begins(t)
  BY DEF Begins
<1>3. /\ f.type = "DATA" /\ f.ra = r /\ Answers(t, r, f)
      /\ mac[r].asfTuplesList[f.ta] = f.seq \/ up = f
  <2>1. Takes(mac[r], t, up, r, f)
    BY <1>1, <1>2 DEF Receives, Answers
  <2> QED
    BY <1>2, <2>1, StationAssumption DEF Takes, Answers
<1>4. t.frameBeforeSIFS = f /\ t.endSIFS = Sifs
  BY <1>3 DEF Answers
<1>5. /\ m # r /\ m \in Hears[r] /\ mac'[m] = mac[m] /\ f \in Data
      /\ f = Sent(m, f.seq) /\ f.ta = m /\ f.seq \in 0 .. numFinished(m)
      /\ Awaits(m, f)
  BY <1>3, GetsData, StationAssumption
<1>6. given(r)' = given(r) \cup ({up} \ {NoFrame})
  BY <1>1, GetsGiven
<1>7. f \in given(r)'
  <2>1. CASE up = f
    BY <1>5, <1>6, <2>1, FramesAreSent
  <2>2. CASE mac[r].asfTuplesList[m] = f.seq
    <3>1. f.seq # Off
      BY <1>5 DEF Off
    <3>2. Sent(m, f.seq) \in givenBy(r, m)
      BY <1>3, <1>5, <2>2, <3>1 DEF HandedUpOnce
    <3> QED
      BY <1>5, <1>6, <3>2 DEF givenBy
  <2> QED
    BY <1>3, <1>5, <2>1, <2>2
<1> QED
  BY <1>3, <1>4, <1>5, <1>7 DEF Awaits

(* A station begins to answer a data frame only when it has received it.   *)
LEMMA AnswersOnly ==
    ASSUME Spaced, IInv, Next, ~Tick, NEW r \in Node,
           mac'[r].state = "WAITSIFS", mac'[r].frameBeforeSIFS.type = "DATA"
    PROVE  \/ /\ mac[r].state = "WAITSIFS" /\ mac'[r].endSIFS = mac[r].endSIFS
              /\ mac'[r].frameBeforeSIFS = mac[r].frameBeforeSIFS
           \/ ~Moves(mac[r], mac'[r]) /\ \E m \in Node : Gets(r, m)
<1> DEFINE s == mac[r]  t == mac'[r]
<1>1. CASE Moves(s, t)
  BY <1>1 DEF Moves, Stays, Begins
<1>2. CASE ~Moves(s, t)
  <2>1. ASSUME NEW p \in Node, Alone(p)
        PROVE  p = r
    BY <1>2, <2>1, StationSound DEF Alone
  <2>2. ~Quiet(r) /\ ~Accepts(r)
    BY <1>2 DEF Quiet, Accepts
  <2>3. ~Fires(r)
    BY DEF Fires, Elapses, Contends, GivesUp, Begins
  <2>4. \A f : ~Radiates(r, f)
    BY DEF Radiates, Emits, Transmits, Replies, Begins
  <2>5. PICK p \in Node : \/ Quiet(p) \/ Accepts(p) \/ Fires(p)
                          \/ \E f : Radiates(p, f)
                          \/ \E m \in Node : Gets(p, m)
    BY StepKinds
  <2>6. Alone(p)
    BY <2>5 DEF Quiet, Accepts, Fires, Radiates, Gets
  <2>7. p = r
    BY <2>1, <2>6
  <2> QED
    BY <1>2, <2>2, <2>3, <2>4, <2>5, <2>7
<1> QED
  BY <1>1, <1>2

LEMMA ToAcknowledgeNext ==
    ASSUME Spaced, IInv, HandedTyped, Receivers, InTheAir, HandedUpOnce, ToAcknowledge, [Next]_vars
    PROVE  ToAcknowledge'
<1>1. IInv'
  BY IInvNext
<1> SUFFICES ASSUME NEW r \in Node,
                    mac'[r].state = "WAITSIFS", mac'[r].frameBeforeSIFS.type = "DATA"
             PROVE  LET f == mac'[r].frameBeforeSIFS IN
                    /\ f.ra = r /\ f.ta \in Hears[r] /\ mac'[r].endSIFS <= Sifs
                    /\ f \in given(r)'
                    /\ Expects(mac'[f.ta], mac'[r].endSIFS + 1, f)
  BY DEF ToAcknowledge, Expects, Awaits
<1> DEFINE f == mac'[r].frameBeforeSIFS
<1>2. given(r) \subseteq given(r)'
  BY GivenGrows
<1>3. ASSUME mac[r].state = "WAITSIFS", mac[r].frameBeforeSIFS = f
      PROVE  /\ f.ra = r /\ f.ta \in Hears[r] /\ f.ta \in Node /\ f.ta # r
             /\ mac[r].endSIFS <= Sifs /\ mac[r].endSIFS \in Int /\ mac[r].endSIFS >= 0
             /\ f \in given(r)' /\ Expects(mac[f.ta], mac[r].endSIFS + 1, f)
  <2>1. /\ f.ra = r /\ f.ta \in Hears[r] /\ mac[r].endSIFS <= Sifs /\ f \in given(r)
        /\ Expects(mac[f.ta], mac[r].endSIFS + 1, f)
    BY <1>3 DEF ToAcknowledge, Expects, Awaits
  <2>2. f.ta \in Node /\ f.ta # r
    BY <2>1, RangeAssumption
  <2>3. mac[r].endSIFS \in Int /\ mac[r].endSIFS >= 0
    <3>1. mac[r].endSIFS # Off /\ mac[r].endSIFS \in Time
      BY <1>3, StationSound DEF Settled, StationRecord
    <3> QED
      BY <3>1, TimeIsNumber DEF Off, Time, TimerRange
  <2> QED
    BY <1>2, <2>1, <2>2, <2>3
<1>4. CASE UNCHANGED vars
  BY <1>3, <1>4 DEF vars
<1>5. CASE Tick
  <2>1. \A n \in Node : Ages(mac[n], mac'[n])
    BY <1>5, TickAges
  <2>2. mac[r].state = "WAITSIFS" /\ mac[r].frameBeforeSIFS = f
        /\ mac'[r].endSIFS = Less(mac[r].endSIFS) /\ mac[r].endSIFS # 0
    BY <2>1 DEF Ages
  <2>3. mac'[r].endSIFS = mac[r].endSIFS - 1 /\ mac[r].endSIFS >= 1 /\ mac[r].endSIFS \in Int
        /\ mac[r].endSIFS <= Sifs
    BY <1>3, <2>2 DEF Less, Off
  <2>4. Expects(mac'[f.ta], mac[r].endSIFS, f)
    BY <1>3, <2>1, <2>2, <2>3, StationSound, AgesExpects
  <2>5. mac'[r].endSIFS + 1 = mac[r].endSIFS /\ mac'[r].endSIFS <= Sifs
    BY <2>3, TimeAssumption
  <2> QED
    BY <1>3, <2>2, <2>4, <2>5
<1>6. CASE Next /\ ~Tick
  <2>1. CASE /\ mac[r].state = "WAITSIFS" /\ mac'[r].endSIFS = mac[r].endSIFS
             /\ mac'[r].frameBeforeSIFS = mac[r].frameBeforeSIFS
    <3>1. Patient(mac[f.ta], mac'[f.ta], IF signalDue THEN 0 ELSE 1)
      BY <1>1, <1>3, <1>6, <2>1, SendersPatient
    <3>2. mac[r].endSIFS + 1 \in (IF signalDue THEN 0 ELSE 1) .. Sifs + 1
      BY <1>3, <2>1, TimeAssumption
    <3>3. Expects(mac'[f.ta], mac[r].endSIFS + 1, f)
      BY <1>3, <2>1, <3>1, <3>2 DEF Patient
    <3> QED
      BY <1>3, <2>1, <3>3
  <2>2. CASE ~Moves(mac[r], mac'[r]) /\ \E m \in Node : Gets(r, m)
    <3>1. /\ f.ra = r /\ f.ta \in Hears[r] /\ mac'[r].endSIFS = Sifs /\ f \in given(r)'
          /\ mac'[f.ta].state = "WAITACK" /\ Head(mac'[f.ta].queue) = f
      BY <2>2, GetsAnswers
    <3> QED
      BY <3>1, TimeAssumption DEF Expects
  <2> QED
    BY <1>6, <2>1, <2>2, AnswersOnly
<1> QED
  BY <1>4, <1>5, <1>6

(* The addressee of an acknowledgement in the air waits for it, or for     *)
(* none for k ticks.                                                       *)
Awaited(s, k, r, handed) == Waits(s, k) \/ \E f \in handed : f.ra = r /\ Expects(s, k, f)

LEMMA AwaitedMeans ==
    ASSUME NEW n \in Node, NEW r \in Node, NEW k
    PROVE  Awaited(mac[n], k, r, given(r)) <=>
              Waits(mac[n], k) \/ \E f \in given(r) : f.ra = r /\ Awaits(n, f)
BY DEF Awaited, Expects, Awaits

LEMMA PatientAwaits ==
    ASSUME NEW s, NEW t, NEW j, NEW k \in j .. Sifs + 1, Patient(s, t, j), NEW r, NEW g, NEW h,
           g \subseteq h, Awaited(s, k, r, g)
    PROVE  Awaited(t, k, r, h)
<1>1. \A f : Expects(s, k, f) => Expects(t, k, f)
  BY DEF Patient
<1>2. CASE \E f \in g : f.ra = r /\ Expects(s, k, f)
  BY <1>1, <1>2 DEF Awaited
<1>3. CASE Waits(s, k)
  <2>1. Expects(t, k, 0) /\ Expects(t, k, 1)
    BY <1>1, <1>3 DEF Expects
  <2> QED
    BY <2>1 DEF Expects, Awaited
<1> QED
  BY <1>2, <1>3 DEF Awaited

(* While the medium is not free the station does not contend.              *)
LEMMA BusyWaits ==
    ASSUME NEW t, Sound(t), t.radioState # "IDLE", Waits(t, 0)
    PROVE  Waits(t, 1)
BY DEF Sound, Settled, Tuned, isMediumFree, Waits, Holds

LEMMA WaitsLess ==
    ASSUME NEW t, Sound(t), Waits(t, 1)
    PROVE  Waits(t, 0)
BY TimersAreNumbers DEF Waits, Holds

LEMMA BusyAwaits ==
    ASSUME NEW t, Sound(t), t.radioState # "IDLE", NEW r, NEW g, Awaited(t, 0, r, g)
    PROVE  Awaited(t, 1, r, g)
BY BusyWaits DEF Awaited, Expects

LEMMA AwaitsLess ==
    ASSUME NEW t, Sound(t), NEW r, NEW g, Awaited(t, 1, r, g)
    PROVE  Awaited(t, 0, r, g)
BY WaitsLess DEF Awaited, Expects

LEMMA AgesAwaits ==
    ASSUME NEW s, Sound(s), NEW t, Ages(s, t), NEW r, NEW g, Awaited(s, 1, r, g)
    PROVE  Awaited(t, 0, r, g)
<1>1. \A f : Expects(s, 0 + 1, f) => Expects(t, 0, f)
  BY AgesExpects
<1>2. 0 + 1 = 1
  OBVIOUS
<1>3. \A f : Expects(s, 1, f) => Expects(t, 0, f)
  BY <1>1, <1>2
<1>4. CASE \E f \in g : f.ra = r /\ Expects(s, 1, f)
  BY <1>3, <1>4 DEF Awaited
<1>5. CASE Waits(s, 1)
  <2>1. Expects(t, 0, 0) /\ Expects(t, 0, 1)
    BY <1>3, <1>5 DEF Expects
  <2> QED
    BY <2>1 DEF Expects, Awaited
<1> QED
  BY <1>4, <1>5 DEF Awaited

LEMMA AcknowledgedNext ==
    ASSUME Spaced, IInv, HandedTyped, Receivers, Senders, ToAcknowledge, Acknowledged, [Next]_vars
    PROVE  Acknowledged'
<1>1. IInv' /\ Receivers'
  BY IInvNext, AirNext
<1> SUFFICES ASSUME NEW r \in Node, NEW n, air'[r].frame.type = "ACK", n = air'[r].frame.ra
             PROVE  /\ n \in Hears[r]
                    /\ Awaited(mac'[n], IF starts(n, r)' THEN 0 ELSE 1, r, given(r)')
  BY DEF Acknowledged, Awaited, Expects, Awaits, starts, audible
<1>2. given(r) \subseteq given(r)'
  BY GivenGrows
<1>3. ASSUME air'[r].frame = air[r].frame
      PROVE  /\ n \in Hears[r] /\ n \in Node /\ n # r /\ r \in Hears[n]
             /\ Awaited(mac[n], IF starts(n, r) THEN 0 ELSE 1, r, given(r))
  <2>1. /\ n \in Hears[r]
        /\ \/ Waits(mac[n], IF starts(n, r) THEN 0 ELSE 1)
           \/ \E f \in given(r) : f.ra = r /\ Awaits(n, f)
    BY <1>3 DEF Acknowledged
  <2>2. n \in Node /\ n # r /\ r \in Hears[n]
    BY <2>1, RangeAssumption
  <2> QED
    BY <2>1, <2>2, AwaitedMeans
<1>4. CASE UNCHANGED vars
  <2>1. air'[r].frame = air[r].frame /\ (starts(n, r)' <=> starts(n, r)) /\ mac' = mac
        /\ given(r)' = given(r)
    BY <1>4 DEF vars, starts, audible, given
  <2> QED
    BY <1>3, <2>1
<1>5. ASSUME n \in Node, r \in recvBuff'[n]
      PROVE  mac'[n].radioState # "IDLE"
  BY <1>1, <1>5 DEF Receivers
<1>6. ASSUME n \in Node
      PROVE  Sound(mac[n]) /\ Sound(mac'[n])
  BY <1>1, <1>6 DEF IInv
<1>7. CASE Tick
  <2>1. /\ ~signalDue /\ recvBuff' = recvBuff /\ (n \in Node => Ages(mac[n], mac'[n]))
        /\ air'[r] = IF air[r].frame = NoFrame \/ air[r].age > airTime(air[r].frame)
                     THEN Silent ELSE [air[r] EXCEPT !.age = @ + 1]
        /\ given(r)' = given(r)
    BY <1>7, TickAges DEF given
  <2>2. /\ air'[r].frame = air[r].frame /\ air'[r].age = air[r].age + 1
        /\ air[r].age <= airTime(air[r].frame)
        /\ air[r].frame # NoFrame /\ air[r].age \in Nat /\ airTime(air[r].frame) \in Nat
        /\ airTime(air[r].frame) > 1
    <3>1. Silent.frame.type # "ACK"
      BY DEF Silent, NoFrame
    <3>2. /\ air'[r] = [air[r] EXCEPT !.age = @ + 1] /\ air[r].frame # NoFrame
          /\ ~(air[r].age > airTime(air[r].frame))
      BY <2>1, <3>1
    <3>3. air[r] \in [frame : Frame \cup {NoFrame}, age : Nat]
      BY DEF IInv
    <3> QED
      BY <3>2, <3>3, AgeNatural
  <2>3. n \in Hears[r] /\ n \in Node /\ r \in Hears[n] /\ Awaited(mac[n], 1, r, given(r))
    <3>1. ~starts(n, r) \/ n \notin Node
      BY <2>1 DEF signalDue
    <3> QED
      BY <1>3, <2>2, <3>1
  <2>4. Awaited(mac'[n], 0, r, given(r)')
    BY <1>6, <2>1, <2>3, AgesAwaits
  <2>5. CASE r \in recvBuff'[n]
    BY <1>5, <1>6, <2>3, <2>4, <2>5, BusyAwaits
  <2>6. CASE r \notin recvBuff'[n]
    <3>1. starts(n, r)'
      <4>1. ~audible(n, r)
        BY <2>1, <2>3, <2>6 DEF signalDue, starts
      <4>2. air[r].age < airTime(air[r].frame)
        BY <2>2, <2>3, <4>1 DEF audible
      <4> QED
        BY <2>2, <2>3, <2>6, <4>2 DEF starts, audible
    <3> QED
      BY <2>3, <2>4, <3>1
  <2> QED
    BY <2>3, <2>5, <2>6, <2>4, <1>6, BusyAwaits, <1>5
<1>8. ASSUME Next, ~Tick, air'[r] = air[r]
      PROVE  /\ n \in Hears[r]
             /\ Awaited(mac'[n], IF starts(n, r)' THEN 0 ELSE 1, r, given(r)')
  <2>1. n \in Hears[r] /\ n \in Node /\ Awaited(mac[n], IF starts(n, r) THEN 0 ELSE 1, r, given(r))
    BY <1>3, <1>8
  <2>2. Patient(mac[n], mac'[n], IF signalDue THEN 0 ELSE 1)
    BY <1>1, <1>8, <2>1, SendersPatient
  <2>3. starts(n, r) => signalDue
    BY <2>1 DEF signalDue
  <2>4. Awaited(mac'[n], IF starts(n, r) THEN 0 ELSE 1, r, given(r)')
    <3>1. 0 \in 0 .. Sifs + 1 /\ 1 \in 0 .. Sifs + 1 /\ 1 \in 1 .. Sifs + 1
      BY TimeAssumption
    <3>2. CASE starts(n, r)
      <4>1. Awaited(mac[n], 0, r, given(r)) /\ Patient(mac[n], mac'[n], 0)
        BY <2>1, <2>2, <2>3, <3>2
      <4>2. Awaited(mac'[n], 0, r, given(r)')
        BY <1>2, <3>1, <4>1, PatientAwaits
      <4> QED
        BY <3>2, <4>2
    <3>3. CASE ~starts(n, r)
      <4>1. Awaited(mac[n], 1, r, given(r)) /\ (Patient(mac[n], mac'[n], 0) \/ Patient(mac[n], mac'[n], 1))
        BY <2>1, <2>2, <3>3
      <4>2. Awaited(mac'[n], 1, r, given(r)')
        BY <1>2, <3>1, <4>1, PatientAwaits
      <4> QED
        BY <3>3, <4>2
    <3> QED
      BY <3>2, <3>3
  <2>5. CASE starts(n, r)'
    BY <1>6, <2>1, <2>4, <2>5, AwaitsLess
  <2>6. CASE ~starts(n, r)' /\ starts(n, r)
    <3>1. r \in recvBuff'[n]
      BY <1>8, <2>6 DEF starts, audible
    <3> QED
      BY <1>5, <1>6, <2>1, <2>4, <2>6, <3>1, BusyAwaits
  <2> QED
    BY <2>1, <2>4, <2>5, <2>6
<1>9. ASSUME NEW f, Radiates(r, f)
      PROVE  /\ n \in Hears[r]
             /\ Awaited(mac'[n], IF starts(n, r)' THEN 0 ELSE 1, r, given(r)')
  <2> DEFINE before == mac[r].frameBeforeSIFS
  <2>1. /\ Alone(r) /\ Emits(mac[r], mac'[r], f)
        /\ air' = [air EXCEPT ![r] = [frame |-> f, age |-> 0]]
    BY <1>9 DEF Radiates
  <2>2. air'[r].frame = f /\ air'[r].age = 0
    BY <2>1 DEF IInv
  <2>3. mac[r].endSIFS = 0 /\ mac[r].state = "WAITSIFS" /\ before.type = "DATA" /\ f = ACKFrame(before)
    <3>1. ~Transmits(mac[r], mac'[r], f)
      <4>1. mac[r].queue # <<>> => Head(mac[r].queue) \in Data
        BY QueueTail, StationSound DEF StationRecord
      <4> QED
        BY <2>2, <4>1 DEF Transmits, RTSFrame, Data
    <3>2. mac[r].endSIFS = 0 /\ Replies(mac[r], mac'[r], f)
      BY <2>1, <3>1 DEF Emits
    <3> QED
      BY <2>2, <3>2 DEF Replies, CTSFrame
  <2>4. n = before.ta
    BY <2>2, <2>3 DEF ACKFrame
  <2>5. before.ra = r /\ n \in Hears[r] /\ before \in given(r) /\ Expects(mac[n], 0 + 1, before)
    BY <2>3, <2>4 DEF ToAcknowledge, Expects, Awaits
  <2>6. mac'[n] = mac[n]
    BY <2>1, <2>5, RangeAssumption DEF Alone
  <2>7. ~starts(n, r)'
    BY <2>2 DEF starts, audible
  <2> QED
    BY <1>2, <2>5, <2>6, <2>7 DEF Awaited
<1>10. CASE Next /\ ~Tick
  <2>1. CASE air'[r] = air[r]
    BY <1>8, <1>10, <2>1
  <2>2. CASE air'[r] # air[r]
    <3>1. ASSUME NEW p \in Node, NEW f, Radiates(p, f)
          PROVE  p = r
      BY <2>2, <3>1 DEF Radiates, IInv
    <3> QED
      BY <1>9, <1>10, <2>2, <3>1, StepKinds DEF Quiet, Accepts, Fires, Gets
  <2> QED
    BY <2>1, <2>2
<1> QED
  BY <1>4, <1>7, <1>10

-----------------------------------------------------------------------------
(* What is handed up, and the duplicate filter.                            *)

(* A receiver learns of a station only by receiving its frame.             *)
Learns(r, n) ==
    LET f == air[n].frame IN
    /\ f.type = "DATA" /\ mac'[r].asfTuplesList[n] = f.seq
    /\ givenBy(r, n)' = givenBy(r, n) \cup (IF f.ra \in {r, Multicast} THEN {f} ELSE {})
Unaware(r, n) ==
    givenBy(r, n)' = givenBy(r, n) /\ mac'[r].asfTuplesList[n] = mac[r].asfTuplesList[n]

LEMMA GetsLearns ==
    ASSUME Spaced, IInv, HandedTyped, Receivers, InTheAir,
           NEW r \in Node, NEW m \in Node, Gets(r, m), NEW n \in Node
    PROVE  Unaware(r, n) \/ (n = m /\ Learns(r, n))
<1> DEFINE f == air[m].frame  s == mac[r]  t == mac'[r]
<1>1. PICK up \in Data \cup {NoFrame} :
         /\ Receives(s, t, up, r, f)
         /\ handedUp' = IF up = NoFrame THEN handedUp
                        ELSE [handedUp EXCEPT ![r] = Append(@, up)]
  BY DEF Gets
<1>2. given(r)' = given(r) \cup ({up} \ {NoFrame})
  BY <1>1, GetsGiven
<1>3. s.up = NoFrame /\ s.asfTuplesList \in [Node -> Int]
  BY StationSound DEF StationRecord
<1>4. CASE t.asfTuplesList = s.asfTuplesList /\ up = NoFrame
  BY <1>2, <1>4 DEF Unaware, givenBy
<1>5. CASE f.type = "DATA" /\ Notes(s, t, f) /\ up = (IF f.ra \in {r, Multicast} THEN f ELSE NoFrame)
  <2>1. f.ta = m /\ f \in Data
    BY <1>5, GetsData
  <2>2. f # NoFrame
    BY <2>1, FramesAreSent
  <2>3. t.asfTuplesList = [s.asfTuplesList EXCEPT ![m] = f.seq]
    BY <1>5, <2>1 DEF Notes
  <2>4. CASE n = m
    BY <1>2, <1>3, <1>5, <2>1, <2>2, <2>3, <2>4 DEF Learns, givenBy
  <2>5. CASE n # m
    <3>1. t.asfTuplesList[n] = s.asfTuplesList[n]
      BY <1>3, <2>3, <2>5
    <3>2. givenBy(r, n)' = givenBy(r, n)
      BY <1>2, <1>5, <2>1, <2>5 DEF givenBy
    <3> QED
      BY <3>1, <3>2 DEF Unaware
  <2> QED
    BY <2>4, <2>5
<1>6. \/ t.asfTuplesList = s.asfTuplesList /\ up = NoFrame
      \/ f.type = "DATA" /\ Notes(s, t, f) /\ up = (IF f.ra \in {r, Multicast} THEN f ELSE NoFrame)
  <2>1. CASE Takes(s, t, up, r, f)
    BY <1>3, <2>1 DEF Takes
  <2>2. CASE ~Takes(s, t, up, r, f)
    BY <1>1, <1>3, <2>2 DEF Receives, Finishes, Keeps, KeepsOthers
  <2> QED
    BY <2>1, <2>2
<1> QED
  BY <1>4, <1>5, <1>6

LEMMA NextLearns ==
    ASSUME Spaced, IInv, HandedTyped, Receivers, InTheAir, [Next]_vars,
           NEW r \in Node, NEW n \in Node
    PROVE  Unaware(r, n) \/ (Gets(r, n) /\ Learns(r, n))
<1>1. CASE UNCHANGED vars
  BY <1>1 DEF vars, Unaware, givenBy, given
<1>2. CASE Tick
  BY <1>2, TickAges DEF Ages, Unaware, givenBy, given
<1>3. ASSUME NEW p \in Node, handedUp' = handedUp, Alone(p),
             mac'[p].asfTuplesList = mac[p].asfTuplesList
      PROVE  Unaware(r, n)
  <2>1. mac'[r].asfTuplesList = mac[r].asfTuplesList
    BY <1>3 DEF Alone
  <2> QED
    BY <1>3, <2>1 DEF Unaware, givenBy, given
<1>4. ASSUME NEW p \in Node, Quiet(p) \/ Accepts(p) \/ Fires(p) \/ \E f : Radiates(p, f)
      PROVE  Unaware(r, n)
  <2>1. handedUp' = handedUp /\ Alone(p)
    BY <1>4 DEF Quiet, Accepts, Fires, Radiates
  <2>2. mac'[p].asfTuplesList = mac[p].asfTuplesList
    <3>1. CASE Quiet(p) \/ Accepts(p)
      BY <3>1 DEF Quiet, Accepts, Joins, Keeps, KeepsOthers
    <3>2. CASE Fires(p)
      BY <3>2 DEF Fires, Elapses, Contends, GivesUp, Tries, Finishes, Keeps, KeepsOthers
    <3>3. CASE \E f : Radiates(p, f)
      BY <3>3 DEF Radiates, Emits, KeepsData
    <3> QED
      BY <1>4, <3>1, <3>2, <3>3
  <2> QED
    BY <1>3, <2>1, <2>2
<1>5. ASSUME NEW p \in Node, NEW m \in Node, Gets(p, m)
      PROVE  Unaware(r, n) \/ (Gets(r, n) /\ Learns(r, n))
  <2>1. CASE p = r
    BY <1>5, <2>1, GetsLearns
  <2>2. CASE p # r
    <3>1. mac'[r] = mac[r]
      BY <1>5, <2>2 DEF Gets, Alone
    <3>2. PICK up \in Data \cup {NoFrame} :
             handedUp' = IF up = NoFrame THEN handedUp
                         ELSE [handedUp EXCEPT ![p] = Append(@, up)]
      BY <1>5 DEF Gets
    <3>3. given(r)' = given(r)
      BY <2>2, <3>2, GetsGiven
    <3> QED
      BY <3>1, <3>3 DEF Unaware, givenBy
  <2> QED
    BY <2>1, <2>2
<1> QED
  BY <1>1, <1>2, <1>4, <1>5, StepKinds

(* What a station has in the air is what it had, or the head of its queue. *)
LEMMA SenderAir ==
    ASSUME Spaced, IInv, Numbering, [Next]_vars, NEW n \in Node, air'[n].frame.type = "DATA"
    PROVE  \/ air'[n].frame = air[n].frame
           \/ mac[n].queue # <<>> /\ air'[n].frame = Head(mac[n].queue)
<1>1. CASE UNCHANGED vars
  BY <1>1 DEF vars
<1>2. CASE Tick
  <2>1. air'[n] = IF air[n].frame = NoFrame \/ air[n].age > airTime(air[n].frame)
                  THEN Silent ELSE [air[n] EXCEPT !.age = @ + 1]
    BY <1>2, TickAges
  <2>2. Silent.frame.type # "DATA"
    BY DEF Silent, NoFrame
  <2>3. air'[n] = [air[n] EXCEPT !.age = @ + 1]
    BY <2>1, <2>2
  <2>4. air[n] \in [frame : Frame \cup {NoFrame}, age : Nat]
    BY DEF IInv
  <2> QED
    BY <2>3, <2>4
<1>3. ASSUME NEW p \in Node, NEW f, Radiates(p, f)
      PROVE  \/ air'[n].frame = air[n].frame
             \/ mac[n].queue # <<>> /\ air'[n].frame = Head(mac[n].queue)
  <2>1. air' = [air EXCEPT ![p] = [frame |-> f, age |-> 0]] /\ DOMAIN air = Node
    BY <1>3 DEF Radiates, IInv
  <2>2. CASE p = n
    BY <1>3, <2>1, <2>2, RadiatesHeld
  <2>3. CASE p # n
    BY <2>1, <2>3
  <2> QED
    BY <2>2, <2>3
<1> QED
  BY <1>1, <1>2, <1>3, StepKinds DEF Quiet, Accepts, Fires, Gets

(* The pair of a receiver and a sender.                                    *)
Once(r, n) ==
    LET up == givenBy(r, n)
        last == mac[r].asfTuplesList[n]
        f == air[n].frame
        q == mac[n].queue
    IN
    /\ \A g \in up :
          /\ g = Sent(n, g.seq) /\ g.seq \in 0 .. numFinished(n) /\ g.seq < numAccepted(n)
          /\ f.type = "DATA" => g.seq <= f.seq
    /\ f.type = "DATA" /\ f \in up => last = f.seq
    /\ q # <<>> /\ Head(q) \in up => last = Head(q).seq
    /\ last # Off => /\ last \in 0 .. numAccepted(n) - 1
                     /\ Sent(n, last).ra \in {r, Multicast} => Sent(n, last) \in up

LEMMA LearnsOnce ==
    ASSUME Spaced, IInv, Numbering, Receivers, InTheAir,
           NEW r \in Node, NEW n \in Node, Gets(r, n), Learns(r, n), Once(r, n)
    PROVE  Once(r, n)'
<1> DEFINE f == air[n].frame  q == mac[n].queue  up == givenBy(r, n)
<1>1. /\ n # r /\ mac'[n] = mac[n] /\ air' = air /\ offered' = offered
      /\ f.type = "DATA" /\ f = Sent(n, f.seq)
      /\ f.seq \in 0 .. numFinished(n) /\ f.seq < numAccepted(n)
  BY GetsData DEF Learns, Gets
<1>2. numAccepted(n)' = numAccepted(n) /\ numFinished(n)' = numFinished(n)
      /\ numAccepted(n) \in Int /\ numFinished(n) \in Int
  BY <1>1, CountsAreNumbers DEF numAccepted, numFinished
<1>3. /\ mac'[r].asfTuplesList[n] = f.seq
      /\ givenBy(r, n)' = up \cup (IF f.ra \in {r, Multicast} THEN {f} ELSE {})
  BY DEF Learns
<1>4. \A g \in up :
         /\ g = Sent(n, g.seq) /\ g.seq \in 0 .. numFinished(n) /\ g.seq < numAccepted(n)
         /\ g.seq <= f.seq
  BY <1>1 DEF Once
<1>5. ASSUME q # <<>>, Head(q) \in up \cup {f}
      PROVE  f.seq = Head(q).seq
  <2>1. Head(q) = Sent(n, numFinished(n)) /\ Head(q).seq = numFinished(n)
    BY <1>5, HeadIsNext DEF Sent, DataFrame
  <2>2. CASE Head(q) \in up
    BY <1>1, <1>2, <1>4, <2>1, <2>2
  <2> QED
    BY <1>5, <2>2
<1>6. f.seq \in 0 .. numAccepted(n) - 1
  BY <1>1, <1>2
<1> HIDE DEF f, q, up
<1>7. \A g \in givenBy(r, n)' :
         /\ g = Sent(n, g.seq) /\ g.seq \in 0 .. numFinished(n) /\ g.seq < numAccepted(n)
         /\ g.seq <= f.seq
  BY <1>1, <1>2, <1>3, <1>4
<1>8. f.ra \in {r, Multicast} => f \in givenBy(r, n)'
  BY <1>3
<1>9. q # <<>> /\ Head(q) \in givenBy(r, n)' => f.seq = Head(q).seq
  BY <1>3, <1>5
<1>10. air'[n].frame = f /\ mac'[n].queue = q
  BY <1>1 DEF f, q
<1> QED
  BY <1>1, <1>2, <1>3, <1>6, <1>7, <1>8, <1>9, <1>10 DEF Once

LEMMA UnawareOnce ==
    ASSUME Spaced, IInv, IInv', Numbering, Numbering', [Next]_vars,
           NEW r \in Node, NEW n \in Node, Unaware(r, n), Once(r, n)
    PROVE  Once(r, n)'
<1> DEFINE f == air[n].frame  q == mac[n].queue  up == givenBy(r, n)
           g == air'[n].frame  p == mac'[n].queue
           last == mac[r].asfTuplesList[n]
<1>1. givenBy(r, n)' = up /\ mac'[r].asfTuplesList[n] = last
  BY DEF Unaware
<1>2. /\ numFinished(n) \in Int /\ numAccepted(n) \in Int /\ numFinished(n) >= 0
      /\ numFinished(n)' \in {numFinished(n), numFinished(n) + 1}
      /\ numAccepted(n)' \in {numAccepted(n), numAccepted(n) + 1}
  BY CountsAreNumbers, CountsGrow, QueueSteps DEF Numbering
<1>3. /\ \A h \in up :
            /\ h = Sent(n, h.seq) /\ h.seq \in 0 .. numFinished(n) /\ h.seq < numAccepted(n)
            /\ f.type = "DATA" => h.seq <= f.seq
      /\ f.type = "DATA" /\ f \in up => last = f.seq
      /\ q # <<>> /\ Head(q) \in up => last = Head(q).seq
      /\ last # Off => /\ last \in 0 .. numAccepted(n) - 1
                       /\ Sent(n, last).ra \in {r, Multicast} => Sent(n, last) \in up
  BY DEF Once
<1>4. g.type = "DATA" => g = f \/ (q # <<>> /\ g = Head(q))
  BY SenderAir
<1>5. q # <<>> => Head(q) = Sent(n, numFinished(n)) /\ Head(q).seq = numFinished(n)
  BY HeadIsNext DEF Sent, DataFrame
<1>6. p # <<>> => Head(p) = Sent(n, numFinished(n)') /\ Head(p).seq = numFinished(n)'
  <2>1. p \in Seq(Data)
    BY DEF IInv, Sound, Settled, StationRecord, Queues
  <2>2. p # <<>> => 1 \in DOMAIN p /\ Head(p) = p[1]
    BY <2>1
  <2>3. p # <<>> => Head(p) = Sent(n, numFinished(n)' + 1 - 1)
    BY <2>2 DEF Numbering
  <2>4. numFinished(n)' + 1 - 1 = numFinished(n)'
    BY <1>2
  <2> QED
    BY <2>3, <2>4 DEF Sent, DataFrame
<1>7. numFinished(n) < numAccepted(n) => q # <<>>
  <2>1. Len(q) \in Nat
    BY CountsAreNumbers
  <2>2. numFinished(n) < numAccepted(n) => Len(q) # 0
    BY <1>2, <2>1 DEF numFinished
  <2> QED
    BY <2>2
<1> HIDE DEF f, q, up, g, p, last
<1>8. ASSUME NEW h \in up
      PROVE  /\ h = Sent(n, h.seq) /\ h.seq \in 0 .. numFinished(n)' /\ h.seq < numAccepted(n)'
             /\ g.type = "DATA" => h.seq <= g.seq
  BY <1>2, <1>3, <1>4, <1>5
<1>9. ASSUME g.type = "DATA", g \in up
      PROVE  last = g.seq
  BY <1>3, <1>4, <1>9
<1>10. ASSUME p # <<>>, Head(p) \in up
       PROVE  last = Head(p).seq
  <2>1. Head(p).seq = numFinished(n) /\ numFinished(n) < numAccepted(n) /\ Head(p) = Sent(n, numFinished(n))
    BY <1>2, <1>3, <1>6, <1>10
  <2> QED
    BY <1>3, <1>5, <1>7, <1>10, <2>1
<1>11. ASSUME last # Off
       PROVE  last \in 0 .. numAccepted(n)' - 1
  BY <1>2, <1>3, <1>11
<1>12. /\ givenBy(r, n)' = up /\ mac'[r].asfTuplesList[n] = last
       /\ air'[n].frame = g /\ mac'[n].queue = p
  BY <1>1 DEF g, p
<1> QED
  BY <1>3, <1>8, <1>9, <1>10, <1>11, <1>12 DEF Once

LEMMA HandedUpOnceNext ==
    ASSUME Spaced, Numbered, IInv, HandedTyped, Numbering, Receivers, InTheAir, HandedUpOnce,
           [Next]_vars
    PROVE  HandedUpOnce'
<1>1. IInv' /\ Numbering'
  BY IInvNext, NumberingNext
<1>2. ASSUME NEW r \in Node, NEW n \in Node
      PROVE  Once(r, n)'
  <2>1. Once(r, n)
    BY DEF HandedUpOnce, Once
  <2> QED
    BY <1>1, <2>1, NextLearns, LearnsOnce, UnawareOnce
<1>3. \A r, n \in Node : Once(r, n)'
  BY <1>2
<1> QED
  BY <1>3 DEF HandedUpOnce, Once

LEMMA DeliveryInit == Init => DeliveryInv /\ HandedTyped
<1> SUFFICES ASSUME Init PROVE DeliveryInv /\ HandedTyped
  OBVIOUS
<1>1. ASSUME NEW n \in Node
      PROVE  /\ mac[n].state = "IDLE" /\ mac[n].radioState = "IDLE" /\ mac[n].queue = <<>>
             /\ mac[n].sequenceNumber = 0 /\ mac[n].asfTuplesList = [m \in Node |-> Off]
             /\ air[n].frame = NoFrame /\ recvBuff[n] = {} /\ receiving[n] = Nobody
             /\ offered[n] = Workload[n] /\ handedUp[n] = <<>>
  BY DEF Init, initialStation, Silent
<1>2. NoFrame.type # "DATA" /\ NoFrame.type # "ACK"
  BY DEF NoFrame
<1>3. ASSUME NEW n \in Node
      PROVE  numAccepted(n) = 0 /\ numFinished(n) = 0 /\ given(n) = {}
  <2>1. Len(Workload[n]) \in Nat
    BY WorkloadAssumption
  <2>2. \A a \in Nat : a - a = 0
    OBVIOUS
  <2>3. numAccepted(n) = 0
    BY <1>1, <2>1, <2>2 DEF numAccepted
  <2>4. numFinished(n) = 0
    BY <1>1, <2>3 DEF numFinished
  <2> QED
    BY <1>1, <2>3, <2>4 DEF given, elements
<1>4. Numbering
  <2>1. ASSUME NEW n \in Node
        PROVE  /\ Len(offered[n]) <= Len(Workload[n]) /\ numFinished(n) >= 0
               /\ \A i \in DOMAIN offered[n] : offered[n][i] = Workload[n][numAccepted(n) + i]
               /\ mac[n].sequenceNumber = numAccepted(n) % 4096
               /\ \A i \in DOMAIN mac[n].queue : mac[n].queue[i] = Sent(n, numFinished(n) + i - 1)
    <3>1. Workload[n] \in Seq(Node \cup {Multicast})
      BY WorkloadAssumption
    <3>2. \A i \in DOMAIN Workload[n] : 0 + i = i
      BY <3>1
    <3> QED
      BY <1>1, <1>3, <3>1, <3>2
  <2> QED
    BY <2>1 DEF Numbering
<1>5. Receivers /\ Senders
  BY <1>1 DEF Receivers, Senders, starts, audible
<1>6. InTheAir /\ ToAcknowledge /\ Acknowledged
  BY <1>1, <1>2 DEF InTheAir, ToAcknowledge, Acknowledged
<1>7. HandedUpOnce
  BY <1>1, <1>2, <1>3 DEF HandedUpOnce, givenBy
<1>8. HandedTyped
  BY DEF Init, HandedTyped
<1> QED
  BY <1>4, <1>5, <1>6, <1>7, <1>8 DEF DeliveryInv

LEMMA DeliveryNext ==
    ASSUME Spaced, Numbered
    PROVE  IInv /\ DeliveryInv /\ HandedTyped /\ [Next]_vars => DeliveryInv' /\ HandedTyped'
BY GivenGrows, NumberingNext, AirNext, InTheAirNext, ToAcknowledgeNext, AcknowledgedNext,
   HandedUpOnceNext DEF DeliveryInv

LEMMA Delivery ==
    ASSUME Spaced, Numbered
    PROVE  Spec => [](IInv /\ DeliveryInv /\ HandedTyped)
<1>1. Spec => []IInv
  BY Invariance
<1> QED
  BY <1>1, DeliveryInit, DeliveryNext, PTL DEF Spec

(* An acknowledgement carries no number, and yet it is about the frame the *)
(* station waits for (handleWithFSM, the state WAITACK): its addressee has *)
(* handed that very frame up.                                              *)
THEOREM AcknowledgementsCurrent ==
    ASSUME Spaced, Numbered
    PROVE  Spec => []AcknowledgesCurrent
<1>1. DeliveryInv => AcknowledgesCurrent
  <2> SUFFICES ASSUME DeliveryInv, NEW n \in Node, NEW r \in Node, air[r].frame.type = "ACK",
                      air[r].frame.ra = n, mac[n].state = "WAITACK"
               PROVE  /\ Head(mac[n].queue).ra = r
                      /\ \E k \in DOMAIN handedUp[r] : handedUp[r][k] = Head(mac[n].queue)
    BY DEF AcknowledgesCurrent
  <2>1. PICK f \in given(r) : f.ra = r /\ Awaits(n, f)
    BY DEF DeliveryInv, Acknowledged, Waits
  <2> QED
    BY <2>1 DEF Awaits, given, elements
<1> QED
  BY <1>1, Delivery, PTL

-----------------------------------------------------------------------------
(* The service.                                                            *)

mappedQueue == [n \in Node |-> mac[n].queue]
mappedSent == UNION {mac[n].numSent : n \in Node}

(* A frame that is sent to everybody is addressed to everybody.            *)
Multicasts == \A n \in Node : mac[n].state = "WAITMULTICAST" => isMulticast(Head(mac[n].queue))

LEMMA MulticastsNext ==
    ASSUME Spaced, IInv, Multicasts, [Next]_vars
    PROVE  Multicasts'
<1> SUFFICES ASSUME NEW n \in Node, mac'[n].state = "WAITMULTICAST"
             PROVE  Head(mac'[n].queue).ra = Multicast
  BY DEF Multicasts, isMulticast
<1> DEFINE s == mac[n]  t == mac'[n]
<1>1. s.state = "WAITMULTICAST" => Head(s.queue).ra = Multicast /\ s.queue # <<>>
  BY StationSound DEF Multicasts, isMulticast, Settled
<1>2. CASE t = s
  BY <1>1, <1>2
<1>3. CASE Tick
  BY <1>1, <1>3, TickAges DEF Ages
<1>4. CASE Quiet(n)
  BY <1>1, <1>4 DEF Quiet, Keeps, Moves, Stays, Begins
<1>5. CASE Accepts(n)
  <2>1. s.state = "WAITMULTICAST"
    BY <1>5 DEF Accepts, Moves, Stays, Begins
  <2>2. Head(t.queue) = Head(s.queue)
    BY <1>1, <1>5, <2>1, CountsAreNumbers DEF Accepts, Joins
  <2> QED
    BY <1>1, <2>1, <2>2
<1>6. ~Fires(n)
  BY DEF Fires, Elapses, Contends, GivesUp, Begins
<1>7. ASSUME NEW f, Radiates(n, f)
      PROVE  Head(t.queue).ra = Multicast
  BY <1>7 DEF Radiates, Emits, KeepsData, Transmits, Replies, Begins
<1>8. ASSUME NEW m \in Node, Gets(n, m)
      PROVE  Head(t.queue).ra = Multicast
  BY <1>1, <1>8 DEF Gets, Receives, Takes, Answers, Begins, Keeps, Moves, Stays
<1>9. ASSUME NEW p \in Node, p # n, Alone(p)
      PROVE  t = s
  BY <1>9 DEF Alone
<1>10. CASE UNCHANGED vars
  BY <1>2, <1>10 DEF vars
<1>11. CASE Next /\ ~Tick
  <2>1. PICK p \in Node : \/ Quiet(p) \/ Accepts(p) \/ Fires(p)
                          \/ \E f : Radiates(p, f)
                          \/ \E m \in Node : Gets(p, m)
    BY <1>11, StepKinds
  <2>2. Alone(p)
    BY <2>1 DEF Quiet, Accepts, Fires, Radiates, Gets
  <2> QED
    BY <1>2, <1>4, <1>5, <1>6, <1>7, <1>8, <1>9, <2>1, <2>2
<1> QED
  BY <1>3, <1>10, <1>11

(* The station's step as the service sees it.                              *)
LEMMA Seen ==
    ASSUME IInv, IInv', NEW n \in Node, Alone(n)
    PROVE  /\ mappedQueue' = [mappedQueue EXCEPT ![n] = mac'[n].queue] /\ mappedQueue[n] = mac[n].queue
           /\ mac'[n].queue = mac[n].queue => mappedQueue' = mappedQueue
           /\ \A X : mac'[n].numSent = mac[n].numSent \cup X => mappedSent' = mappedSent \cup X
           /\ mac'[n].numSent = mac[n].numSent => mappedSent' = mappedSent
<1>1. \A m \in Node \ {n} : mac'[m].queue = mac[m].queue /\ mac'[m].numSent = mac[m].numSent
  BY DEF Alone
<1>2. mappedQueue' = [mappedQueue EXCEPT ![n] = mac'[n].queue] /\ mappedQueue[n] = mac[n].queue
  BY <1>1 DEF mappedQueue
<1>3. mac'[n].queue = mac[n].queue => mappedQueue' = mappedQueue
  BY <1>1 DEF mappedQueue
<1>4. ASSUME NEW X, mac'[n].numSent = mac[n].numSent \cup X
      PROVE  mappedSent' = mappedSent \cup X
  BY <1>1, <1>4 DEF mappedSent
<1>5. mac'[n].numSent = mac[n].numSent => mappedSent' = mappedSent
  <2>1. mac'[n].numSent = mac[n].numSent => mac'[n].numSent = mac[n].numSent \cup {}
    OBVIOUS
  <2> QED
    BY <1>4, <2>1
<1> QED
  BY <1>2, <1>3, <1>4, <1>5

LEMMA ServiceStutters ==
    ASSUME mappedQueue' = mappedQueue, mappedSent' = mappedSent, handedUp' = handedUp
    PROVE  UNCHANGED Service!vars
BY DEF Service!vars, mappedQueue, mappedSent

LEMMA ServiceAccepts ==
    ASSUME NEW n \in Node, NEW f, mappedQueue[n] \in Seq(Data), f \in Data, f.ta = n,
           mappedQueue' = [mappedQueue EXCEPT ![n] = Append(@, f)], mappedSent' = mappedSent, handedUp' = handedUp
    PROVE  Service!Accept(n)
<1>1. mappedQueue'[n] = Append(mappedQueue[n], f)
  BY DEF mappedQueue
<1>2. f \in Service!Range(mappedQueue'[n])
  <2>1. /\ Len(mappedQueue[n]) + 1 \in DOMAIN mappedQueue'[n]
        /\ mappedQueue'[n][Len(mappedQueue[n]) + 1] = f
    BY <1>1
  <2> QED
    BY <2>1 DEF Service!Range
<1> QED
  BY <1>2 DEF Service!Accept, mappedQueue, mappedSent

LEMMA ServiceLeaves ==
    ASSUME NEW n \in Node, mappedQueue[n] # <<>>, mappedQueue' = [mappedQueue EXCEPT ![n] = Tail(@)]
    PROVE  /\ mappedSent' = mappedSent /\ handedUp' = handedUp => Service!GiveUp(n)
           /\ mappedSent' = mappedSent \cup {Head(mappedQueue[n])} /\ handedUp' = handedUp
                /\ (Head(mappedQueue[n]).ra = Multicast
                      \/ \E k \in DOMAIN handedUp[Head(mappedQueue[n]).ra] :
                            handedUp[Head(mappedQueue[n]).ra][k] = Head(mappedQueue[n]))
              => Service!Finish(n)
           /\ mappedSent' = mappedSent /\ Service!handUp(n) => Service!Interrupted(n)
<1>1. Service!pop(n)
  BY DEF Service!pop, mappedQueue
<1>2. mappedSent' = mappedSent /\ handedUp' = handedUp => Service!GiveUp(n)
  BY <1>1 DEF Service!GiveUp, mappedSent
<1>3. ASSUME mappedSent' = mappedSent \cup {Head(mappedQueue[n])}, handedUp' = handedUp,
             \/ Head(mappedQueue[n]).ra = Multicast
             \/ \E k \in DOMAIN handedUp[Head(mappedQueue[n]).ra] :
                   handedUp[Head(mappedQueue[n]).ra][k] = Head(mappedQueue[n])
      PROVE  Service!Finish(n)
  BY <1>1, <1>3 DEF Service!Finish, Service!Range, mappedQueue, mappedSent
<1>4. mappedSent' = mappedSent /\ Service!handUp(n) => Service!Interrupted(n)
  BY <1>1 DEF Service!Interrupted, mappedSent
<1> QED
  BY <1>2, <1>3, <1>4

LEMMA ServiceHands ==
    ASSUME NEW n \in Node, NEW m \in Node, NEW f, f.ra \in {n, Multicast}, f \notin given(n),
           \/ mappedQueue[m] # <<>> /\ f = Head(mappedQueue[m])
           \/ f.ra = Multicast /\ f \in mac[m].numSent
    PROVE  f \in Service!underWay /\ f \notin Service!Range(handedUp[n])
<1>1. f \in Service!underWay
  BY DEF Service!underWay, mappedQueue
<1>2. f \notin Service!Range(handedUp[n])
  BY DEF Service!Range, given, elements
<1> QED
  BY <1>1, <1>2

LEMMA AcceptsSeen ==
    ASSUME IInv, IInv', NEW n \in Node, Accepts(n)
    PROVE  Service!Accept(n)
<1> DEFINE frame == DataFrame(n, Head(offered[n]), mac[n].sequenceNumber)
<1>1. /\ mac'[n].queue = Append(mac[n].queue, frame) /\ mac'[n].numSent = mac[n].numSent
      /\ handedUp' = handedUp /\ Alone(n) /\ mac[n].queue \in Seq(Data)
  BY CountsAreNumbers DEF Accepts, Joins
<1>2. frame \in Data /\ frame.ta = n
  <2>1. mac'[n].queue \in Seq(Data)
    BY DEF IInv, Sound, Settled, StationRecord, Queues
  <2>2. Append(mac[n].queue, frame)[Len(mac[n].queue) + 1] = frame
        /\ Len(mac[n].queue) + 1 \in DOMAIN Append(mac[n].queue, frame)
    BY <1>1
  <2>3. frame \in Data
    BY <1>1, <2>1, <2>2
  <2> QED
    BY <2>3 DEF DataFrame
<1> HIDE DEF frame
<1>3. mappedQueue[n] = mac[n].queue /\ mappedSent' = mappedSent
      /\ mappedQueue' = [mappedQueue EXCEPT ![n] = Append(@, frame)]
  BY <1>1, Seen
<1> QED
  BY <1>1, <1>2, <1>3, ServiceAccepts

LEMMA FiresSeen ==
    ASSUME IInv, IInv', Multicasts, NEW n \in Node, Fires(n)
    PROVE  UNCHANGED Service!vars \/ Service!GiveUp(n) \/ Service!Finish(n)
<1> DEFINE s == mac[n]  t == mac'[n]
<1>1. Alone(n) /\ handedUp' = handedUp /\ Elapses(s, t)
  BY DEF Fires
<1>2. CASE t.queue = s.queue /\ t.numSent = s.numSent
  BY <1>1, <1>2, Seen, ServiceStutters
<1>3. CASE s.queue # <<>> /\ t.queue = Tail(s.queue) /\ t.numSent = s.numSent
  <2>1. mappedQueue[n] # <<>> /\ mappedQueue' = [mappedQueue EXCEPT ![n] = Tail(@)] /\ mappedSent' = mappedSent
    BY <1>1, <1>3, Seen
  <2> QED
    BY <1>1, <2>1, ServiceLeaves
<1>4. CASE s.queue # <<>> /\ s.state = "WAITMULTICAST" /\ Finishes(s, t)
  <2>1. t.queue = Tail(s.queue) /\ t.numSent = s.numSent \cup {Head(s.queue)}
        /\ Head(s.queue).ra = Multicast
    BY <1>4 DEF Finishes, Multicasts, isMulticast
  <2>2. /\ mappedQueue[n] # <<>> /\ mappedQueue' = [mappedQueue EXCEPT ![n] = Tail(@)]
        /\ mappedSent' = mappedSent \cup {Head(mappedQueue[n])} /\ Head(mappedQueue[n]).ra = Multicast
    BY <1>1, <1>4, <2>1, Seen
  <2> QED
    BY <1>1, <2>2, ServiceLeaves
<1> QED
  BY <1>1, <1>2, <1>3, <1>4 DEF Elapses, Contends, GivesUp, Tries, Keeps

(* A frame is handed up at most once, while its sender works on it.        *)
LEMMA HandsSeen ==
    ASSUME Spaced, IInv, Receivers, InTheAir, HandedUpOnce,
           NEW n \in Node, NEW m \in Node, Gets(n, m),
           LET f == air[m].frame IN
           /\ f.type = "DATA" /\ f.ra \in {n, Multicast} /\ mac[n].asfTuplesList[f.ta] # f.seq
           /\ handedUp' = [handedUp EXCEPT ![n] = Append(@, f)]
    PROVE  Service!handUp(n)
<1> DEFINE f == air[m].frame
<1>1. f.ta = m /\ f \in Data
  BY GetsData
<1>2. f \notin given(n)
  BY <1>1 DEF HandedUpOnce, givenBy
<1>3. Held(mac[m], f, air[m].age)
  BY InTheAirIsHeld
<1>4. mac[m].state \in {"WAITACK", "WAITMULTICAST"} => mac[m].queue # <<>>
  BY StationSound DEF Settled
<1>5. \/ mappedQueue[m] # <<>> /\ f = Head(mappedQueue[m])
      \/ f.ra = Multicast /\ f \in mac[m].numSent
  BY <1>3, <1>4 DEF Held, mappedQueue
<1>6. f.ra \in {n, Multicast} /\ handedUp' = [handedUp EXCEPT ![n] = Append(@, f)]
  OBVIOUS
<1> HIDE DEF f
<1>7. f \in Service!underWay /\ f \notin Service!Range(handedUp[n])
  BY <1>2, <1>5, <1>6, ServiceHands
<1> QED
  BY <1>6, <1>7 DEF Service!handUp

LEMMA GetsSeen ==
    ASSUME Spaced, IInv, IInv', HandedTyped, Receivers, InTheAir, HandedUpOnce, AcknowledgesCurrent,
           NEW n \in Node, NEW m \in Node, Gets(n, m)
    PROVE  UNCHANGED Service!vars \/ Service!Next
<1> DEFINE s == mac[n]  t == mac'[n]  f == air[m].frame
<1>1. PICK up \in Data \cup {NoFrame} :
         /\ Receives(s, t, up, n, f)
         /\ handedUp' = IF up = NoFrame THEN handedUp
                        ELSE [handedUp EXCEPT ![n] = Append(@, up)]
  BY DEF Gets
<1>2. Alone(n) /\ s.up = NoFrame
      /\ (s.state \in {"WAITACK", "WAITCTS"} => s.queue # <<>>)
  BY StationSound DEF Gets, Settled
<1>3. CASE Keeps(s, t) /\ up = NoFrame
  BY <1>1, <1>2, <1>3, Seen, ServiceStutters DEF Keeps
<1>4. CASE s.state = "WAITACK" /\ f.type = "ACK" /\ f.ra = n /\ Finishes(s, t) /\ up = NoFrame
  <2>1. /\ t.queue = Tail(s.queue) /\ t.numSent = s.numSent \cup {Head(s.queue)}
        /\ Head(s.queue).ra = m
        /\ \E k \in DOMAIN handedUp[m] : handedUp[m][k] = Head(s.queue)
    BY <1>4 DEF Finishes, AcknowledgesCurrent
  <2>2. /\ mappedQueue[n] # <<>> /\ mappedQueue' = [mappedQueue EXCEPT ![n] = Tail(@)]
        /\ mappedSent' = mappedSent \cup {Head(mappedQueue[n])} /\ mappedQueue[n] = s.queue /\ handedUp' = handedUp
    BY <1>1, <1>2, <1>4, <2>1, Seen
  <2>3. Service!Finish(n)
    BY <2>1, <2>2, ServiceLeaves
  <2> QED
    BY <2>3 DEF Service!Next
<1>5. CASE /\ Takes(s, t, up, n, f)
           /\ \/ t.queue = s.queue
              \/ s.state \in {"WAITACK", "WAITCTS"} /\ t.queue = Tail(s.queue)
  <2>1. mappedSent' = mappedSent
    BY <1>2, <1>5, Seen DEF Takes
  <2>2. CASE up = NoFrame
    <3>1. handedUp' = handedUp
      BY <1>1, <2>2
    <3>2. CASE t.queue = s.queue
      BY <1>2, <2>1, <3>1, <3>2, Seen, ServiceStutters
    <3>3. CASE s.state \in {"WAITACK", "WAITCTS"} /\ t.queue = Tail(s.queue)
      <4>1. mappedQueue[n] # <<>> /\ mappedQueue' = [mappedQueue EXCEPT ![n] = Tail(@)]
        BY <1>2, <3>3, Seen
      <4>2. Service!GiveUp(n)
        BY <2>1, <3>1, <4>1, ServiceLeaves
      <4> QED
        BY <4>2 DEF Service!Next
    <3> QED
      BY <1>5, <3>2, <3>3
  <2>3. CASE up # NoFrame
    <3>1. /\ f.type = "DATA" /\ f.ra \in {n, Multicast} /\ s.asfTuplesList[f.ta] # f.seq
          /\ up = f
      BY <1>2, <1>5, <2>3 DEF Takes
    <3>2. handedUp' = [handedUp EXCEPT ![n] = Append(@, f)]
      BY <1>1, <2>3, <3>1
    <3>3. Service!handUp(n)
      BY <3>1, <3>2, HandsSeen
    <3>4. CASE t.queue = s.queue
      <4>1. mappedQueue' = mappedQueue
        BY <1>2, <3>4, Seen
      <4>2. Service!HandUp(n)
        BY <2>1, <3>3, <4>1 DEF Service!HandUp, mappedQueue, mappedSent
      <4> QED
        BY <4>2 DEF Service!Next
    <3>5. CASE s.state \in {"WAITACK", "WAITCTS"} /\ t.queue = Tail(s.queue)
      <4>1. mappedQueue[n] # <<>> /\ mappedQueue' = [mappedQueue EXCEPT ![n] = Tail(@)]
        BY <1>2, <3>5, Seen
      <4>2. Service!Interrupted(n)
        BY <2>1, <3>3, <4>1, ServiceLeaves
      <4> QED
        BY <4>2 DEF Service!Next
    <3> QED
      BY <1>5, <3>4, <3>5
  <2> QED
    BY <2>2, <2>3
<1> QED
  BY <1>1, <1>2, <1>3, <1>4, <1>5 DEF Receives

LEMMA StepsSeen ==
    ASSUME Spaced, IInv, IInv', HandedTyped, DeliveryInv, AcknowledgesCurrent, Multicasts, [Next]_vars
    PROVE  [Service!Next]_(Service!vars)
<1>1. CASE UNCHANGED vars
  BY <1>1 DEF vars, Service!vars
<1>2. CASE Tick
  <2>1. /\ \A n \in Node : mac'[n].queue = mac[n].queue /\ mac'[n].numSent = mac[n].numSent
        /\ handedUp' = handedUp
    BY <1>2, TickAges DEF Ages
  <2>2. mappedQueue' = mappedQueue /\ mappedSent' = mappedSent
    BY <2>1 DEF mappedQueue, mappedSent
  <2> QED
    BY <2>1, <2>2, ServiceStutters
<1>3. ASSUME NEW n \in Node, Quiet(n) \/ \E f : Radiates(n, f)
      PROVE  UNCHANGED Service!vars
  <2>1. /\ Alone(n) /\ handedUp' = handedUp
        /\ mac'[n].queue = mac[n].queue /\ mac'[n].numSent = mac[n].numSent
    BY <1>3 DEF Quiet, Radiates, Emits, KeepsData, Keeps
  <2> QED
    BY <2>1, Seen, ServiceStutters
<1>4. ASSUME NEW n \in Node, Accepts(n) \/ Fires(n)
      PROVE  UNCHANGED Service!vars \/ Service!Next
  BY <1>4, AcceptsSeen, FiresSeen DEF Service!Next
<1>5. ASSUME NEW n \in Node, NEW m \in Node, Gets(n, m)
      PROVE  UNCHANGED Service!vars \/ Service!Next
  BY <1>5, GetsSeen DEF DeliveryInv
<1> QED
  BY <1>1, <1>2, <1>3, <1>4, <1>5, StepKinds

LEMMA ServiceBegins == Init => Service!Init /\ Multicasts
<1> SUFFICES ASSUME Init PROVE Service!Init /\ Multicasts
  OBVIOUS
<1>1. \A n \in Node : mac[n].queue = <<>> /\ mac[n].numSent = {} /\ mac[n].state = "IDLE"
  BY DEF Init, initialStation
<1>2. handedUp = [n \in Node |-> <<>>]
  BY DEF Init
<1> QED
  BY <1>1, <1>2 DEF Service!Init, Multicasts

(* The stations keep what MacService promises, for any topology and load:  *)
(* a frame is handed up at most once by each receiver and only while its   *)
(* sender works on it, and it counts as sent (numSent) only when its       *)
(* addressee has handed it up or it was for everybody.                     *)
THEOREM MacServiceImplemented ==
    ASSUME Spaced, Numbered
    PROVE  Spec => Service!Spec
<1>1. IInv /\ Multicasts /\ [Next]_vars => Multicasts'
  BY MulticastsNext
<1>2. IInv /\ IInv' /\ HandedTyped /\ DeliveryInv /\ AcknowledgesCurrent /\ Multicasts /\ [Next]_vars
        => [Service!Next]_(Service!vars)
  BY StepsSeen
<1> QED
  BY <1>1, <1>2, ServiceBegins, Delivery, AcknowledgementsCurrent, PTL DEF Spec, Service!Spec
=============================================================================
