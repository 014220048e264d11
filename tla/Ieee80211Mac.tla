---------------------------- MODULE Ieee80211Mac ----------------------------
(***************************************************************************)
(* The distributed coordination function of one IEEE 802.11 station        *)
(* (linklayer/ieee80211/mac/Ieee80211Mac.cc) with one access category, as  *)
(* operators on the record of its state.  A handler is the event           *)
(* transition of handleWithFSM() followed by the no-event transitions of   *)
(* the states it enters, which Idle, Defer, WaitAIFS and Receive stand     *)
(* for.  A handler leaves the frame it sends down and the one it hands up  *)
(* in the fields `down' and `up'; `failed' records an ASSERT that is       *)
(* false.  Timers hold the ticks they still have to run; the counters      *)
(* numSent and numGivenUp hold the frames they count.                      *)
(***************************************************************************)
EXTENDS Integers, Sequences

CONSTANTS Node,               \* the stations, which are their MAC addresses
          Multicast,          \* the multicast address
          Sifs, Slot, Aifsn,  \* interframe space, slot, AIFSN
          DataTime,           \* time on air of a data frame
          ControlTime,        \* time on air of an RTS, CTS or ACK
          MaxPropagationDelay,
          transmissionLimit,
          cwMin, cwMax, cwMinMulticast,
          useRts,             \* are the frames as long as rtsThreshold?
          useModulationParameters,
          PhyRxStart          \* aPHY_RX_START_Delay

ASSUME StationAssumption == /\ Multicast \notin Node
                            /\ useRts \in BOOLEAN
                            /\ useModulationParameters \in BOOLEAN
ASSUME TimeAssumption == {Sifs, Slot, DataTime, ControlTime, PhyRxStart} \subseteq Nat \ {0}
ASSUME LimitAssumption == /\ Aifsn \in Nat /\ MaxPropagationDelay \in Nat
                          /\ transmissionLimit \in Nat \ {0}
                          /\ {cwMin, cwMax, cwMinMulticast} \subseteq Nat

Off == -1       \* a timer that is not scheduled
Invalid == -1   \* an invalid backoff period
NoFrame == [type |-> "none"]

(***************************************************************************)
(* Frames: data (and management) frames, RTS, CTS and ACK; `duration' is   *)
(* the reservation the frame announces.                                    *)
(***************************************************************************)
DataFrame(from, to, number) ==
    [type |-> "DATA", ta |-> from, ra |-> to, seq |-> number,
     duration |-> IF to = Multicast THEN 0 ELSE Sifs + ControlTime]
RTSFrame(data) ==
    [type |-> "RTS", ta |-> data.ta, ra |-> data.ra,
     duration |-> 3 * Sifs + ControlTime + DataTime + ControlTime]
CTSFrame(rts) ==
    [type |-> "CTS", ra |-> rts.ta, duration |-> rts.duration - Sifs - ControlTime]
ACKFrame(data) == [type |-> "ACK", ra |-> data.ta, duration |-> 0]

airTime(f) == IF f.type = "DATA" THEN DataTime ELSE ControlTime
isMulticast(f) == f.ra = Multicast

initialStation ==
    [state |-> "IDLE", radioState |-> "IDLE", queue |-> <<>>,
     retryCounter |-> 0, backoff |-> FALSE, backoffPeriod |-> Invalid,
     lastReceiveFailed |-> FALSE, frameBeforeSIFS |-> NoFrame,
     endAIFS |-> Off, endDIFS |-> Off, endBackoff |-> Off, endSIFS |-> Off,
     endTimeout |-> Off, endReserve |-> Off,
     sequenceNumber |-> 0, asfTuplesList |-> [m \in Node |-> Off],
     numSent |-> {}, numGivenUp |-> {},
     down |-> NoFrame, up |-> NoFrame, failed |-> FALSE]

Timers == {"endAIFS", "endDIFS", "endBackoff", "endSIFS", "endTimeout", "endReserve"}

assert(s, condition) == [s EXCEPT !.failed = @ \/ ~condition]

isMediumFree(s) == s.radioState = "IDLE" /\ s.endReserve = Off
getAIFS == Sifs + Aifsn * Slot
getEIFS == Sifs + getAIFS + ControlTime

-----------------------------------------------------------------------------
(* Timers *)

scheduleAIFSPeriod(s) ==
    LET wait == IF s.lastReceiveFailed THEN getEIFS ELSE getAIFS IN
    IF s.endAIFS = Off /\ s.queue # <<>> THEN [s EXCEPT !.endAIFS = wait]
    ELSE IF s.endAIFS = Off /\ s.endDIFS = Off THEN [s EXCEPT !.endDIFS = wait]
    ELSE s
cancelAIFSPeriod(s) == [s EXCEPT !.endAIFS = Off, !.endDIFS = Off]

dataTimeout == IF useModulationParameters
               THEN DataTime + Slot + Sifs + PhyRxStart
               ELSE DataTime + Slot + Sifs + ControlTime + 2 * MaxPropagationDelay
ctsTimeout == ControlTime + Sifs + ControlTime + 2 * MaxPropagationDelay
scheduleTimeout(s, wait) == IF s.endTimeout = Off THEN [s EXCEPT !.endTimeout = wait] ELSE s
\* Mutated: the timer runs on.
cancelTimeoutPeriod_RunsOn(s) == s
cancelTimeoutPeriod(s) == [s EXCEPT !.endTimeout = Off]

\* The contention window of the frame being sent, and the backoff period that
\* the draw c of intrand() stands for.
contentionWindow(s) ==
    LET cw == (cwMin + 1) * 2 ^ s.retryCounter - 1 IN
    IF s.queue # <<>> /\ isMulticast(Head(s.queue)) THEN cwMinMulticast
    ELSE IF cw > cwMax THEN cwMax ELSE cw
generateBackoffPeriod(s, c) ==
    [assert(s, s.retryCounter \in 0 .. transmissionLimit - 1) EXCEPT
        !.backoffPeriod = (c % (contentionWindow(s) + 1)) * Slot]
generateIfInvalid(s, c) == IF s.backoffPeriod = Invalid THEN generateBackoffPeriod(s, c) ELSE s

\* Mutated: a slot that has begun is taken off as well.
decreaseBackoffPeriod_RoundsUp(s) ==
    IF s.backoff /\ s.endBackoff # Off
    THEN LET left == s.backoffPeriod - ((s.backoffPeriod - s.endBackoff) \div Slot + 1) * Slot
         IN  assert([s EXCEPT !.backoffPeriod = left], left >= 0)
    ELSE s
\* Whole slots that have passed are taken off the backoff that is running.
decreaseBackoffPeriod(s) ==
    IF s.backoff /\ s.endBackoff # Off
    THEN LET elapsed == s.backoffPeriod - s.endBackoff
             left == s.backoffPeriod - (elapsed \div Slot) * Slot
         IN  assert([s EXCEPT !.backoffPeriod = left], left >= 0)
    ELSE s
cancelBackoffPeriod(s) == [s EXCEPT !.endBackoff = Off]

\* The network allocation vector; a corrupted frame sets it as well.
scheduleReservePeriod(s, n, f) ==
    IF f.ra # n /\ f.duration > 0 /\ (s.endReserve = Off \/ s.endReserve <= f.duration)
    THEN [s EXCEPT !.endReserve = f.duration] ELSE s

-----------------------------------------------------------------------------
(* The frame being sent *)

resetStateVariables(s) ==
    [s EXCEPT !.backoffPeriod = 0, !.retryCounter = 0, !.backoff = s.queue # <<>>]
popTransmissionQueue(s) == [s EXCEPT !.queue = Tail(@)]
finishCurrentTransmission(s) ==
    resetStateVariables(popTransmissionQueue([s EXCEPT !.numSent = @ \cup {Head(s.queue)}]))
giveUpCurrentTransmission(s) ==
    resetStateVariables(popTransmissionQueue([s EXCEPT !.numGivenUp = @ \cup {Head(s.queue)}]))
resetCurrentBackOff(s) == [s EXCEPT !.backoff = TRUE, !.backoffPeriod = Invalid]
retryCurrentTransmission(s, c) ==
    generateBackoffPeriod([assert(s, s.retryCounter < transmissionLimit - 1) EXCEPT
                              !.retryCounter = @ + 1, !.backoff = TRUE], c)
finishReception(s) ==
    IF s.queue # <<>> THEN [s EXCEPT !.backoff = TRUE] ELSE resetStateVariables(s)
\* Mutated: one try too many.
lastTry_OneMore(s) == s.retryCounter = transmissionLimit
lastTry(s) == s.retryCounter = transmissionLimit - 1
-----------------------------------------------------------------------------
(* Entering the states of the state machine *)

\* WAITAIFS: the timer runs only while the medium is free.
Busy(s) == [cancelAIFSPeriod(s) EXCEPT !.state = "DEFER",
                !.backoff = @ \/ s.endAIFS # Off \/ s.endDIFS # Off]
WaitAIFS(s) ==
    LET waiting == [scheduleAIFSPeriod(s) EXCEPT !.state = "WAITAIFS"] IN
    IF isMediumFree(s) THEN waiting ELSE Busy(waiting)
Defer(s) ==
    IF isMediumFree(s) \/ ~s.backoff THEN WaitAIFS(s) ELSE [s EXCEPT !.state = "DEFER"]
Idle(s) == IF s.queue # <<>> THEN Defer(s) ELSE [s EXCEPT !.state = "IDLE"]
Backoff(s) == [s EXCEPT !.state = "BACKOFF", !.endBackoff = s.backoffPeriod]
WaitSIFS(s, f) == [s EXCEPT !.state = "WAITSIFS", !.endSIFS = Sifs, !.frameBeforeSIFS = f]

\* The frame at the head of the queue, or an RTS for it, is handed to the radio.
sendDataFrame(s) == [scheduleTimeout(s, dataTimeout) EXCEPT
                        !.state = "WAITACK", !.down = Head(s.queue)]
sendMulticastFrame(s) == [scheduleTimeout(s, DataTime) EXCEPT
                             !.state = "WAITMULTICAST", !.down = Head(s.queue)]
sendRTSFrame(s) == [scheduleTimeout(s, ctsTimeout) EXCEPT
                       !.state = "WAITCTS", !.down = RTSFrame(Head(s.queue))]
transmit(s) ==
    LET ready == cancelAIFSPeriod(s) IN
    IF isMulticast(Head(s.queue)) THEN sendMulticastFrame(ready)
    ELSE IF useRts THEN sendRTSFrame(ready) ELSE sendDataFrame(ready)

\* The duplicate filter keeps the last sequence number of each transmitter.
\* Mutated: without the filter.
isDuplicated_Never(s, f) == FALSE
isDuplicated(s, f) == s.asfTuplesList[f.ta] = f.seq
sendUp(s, f) ==
    IF isDuplicated(s, f) THEN s
    ELSE [s EXCEPT !.asfTuplesList[f.ta] = f.seq, !.up = f]
promiscousFrame(s, f) == [s EXCEPT !.asfTuplesList[f.ta] = f.seq]

\* Mutated: every data frame is acknowledged, not only those for the station.
Receive_All(s, n, f, failed) ==
    CASE failed -> Idle(finishReception(s))
      [] ~failed /\ f.type = "DATA" /\ f.ra = Multicast -> Idle(finishReception(sendUp(s, f)))
      [] ~failed /\ f.type = "DATA" /\ f.ra # Multicast -> WaitSIFS(sendUp(s, f), f)
      [] OTHER -> IF s.backoff THEN Defer(s) ELSE Idle(finishReception(s))
Receive(s, n, f, failed) ==
    CASE failed -> Idle(finishReception(s))
      [] ~failed /\ f.type = "DATA" /\ f.ra = Multicast -> Idle(finishReception(sendUp(s, f)))
      [] ~failed /\ f.type = "DATA" /\ f.ra = n -> WaitSIFS(sendUp(s, f), f)
      [] ~failed /\ f.type = "RTS" /\ f.ra = n -> WaitSIFS(s, f)
      [] OTHER ->
            IF s.backoff THEN Defer(s)
            ELSE Idle(finishReception(IF f.type = "DATA" THEN promiscousFrame(s, f) ELSE s))

-----------------------------------------------------------------------------
(* The events *)

\* Mutated: the new frame becomes the first of the queue.
handleUpperMsg_First(s, n, to) ==
    LET queued == [s EXCEPT !.queue = <<DataFrame(n, to, s.sequenceNumber)>> \o @,
                            !.sequenceNumber = (@ + 1) % 4096] IN
    CASE s.state = "IDLE" -> Defer([queued EXCEPT !.backoffPeriod = Invalid])
      [] s.state = "WAITAIFS" /\ s.endDIFS # Off ->
            [queued EXCEPT !.endAIFS = s.endDIFS, !.endDIFS = Off]
      [] OTHER -> queued
\* A frame from the management module, numbered and queued (handleUpperMsg).
handleUpperMsg(s, n, to) ==
    LET queued == [s EXCEPT !.queue = Append(@, DataFrame(n, to, s.sequenceNumber)),
                            !.sequenceNumber = (@ + 1) % 4096] IN
    CASE s.state = "IDLE" ->
            Defer([assert(queued, s.backoffPeriod \in {Invalid, 0}) EXCEPT
                      !.backoffPeriod = Invalid])
      [] s.state = "WAITAIFS" /\ s.endDIFS # Off ->
            [queued EXCEPT !.endAIFS = s.endDIFS, !.endDIFS = Off]
      [] OTHER -> queued

\* Mutated: a backoff that runs is not interrupted.
mediumStateChange_BackoffRunsOn(s) ==
    CASE s.state = "DEFER" /\ isMediumFree(s) -> WaitAIFS(s)
      [] s.state = "WAITAIFS" /\ ~isMediumFree(s) -> Busy(s)
      [] OTHER -> s
\* Mutated: a station that defers misses the end of the busy period.
mediumStateChange_Misses(s) ==
    CASE s.state = "WAITAIFS" /\ ~isMediumFree(s) -> Busy(s)
      [] s.state = "BACKOFF" /\ ~isMediumFree(s) ->
            [cancelBackoffPeriod(decreaseBackoffPeriod(s)) EXCEPT !.state = "DEFER"]
      [] OTHER -> s
\* The radio state, or the network allocation vector, has changed.
mediumStateChange(s) ==
    CASE s.state = "DEFER" /\ isMediumFree(s) -> WaitAIFS(s)
      [] s.state = "WAITAIFS" /\ ~isMediumFree(s) -> Busy(s)
      [] s.state = "BACKOFF" /\ ~isMediumFree(s) ->
            [cancelBackoffPeriod(decreaseBackoffPeriod(cancelAIFSPeriod(s))) EXCEPT
                !.state = "DEFER"]
      [] OTHER -> s
setRadioState(s, new) == mediumStateChange([s EXCEPT !.radioState = new])

\* The wait for an answer ends without one; c is the draw of a new backoff period.
retryOrGiveUp(s, c) ==
    IF lastTry(s) THEN giveUpCurrentTransmission(s) ELSE retryCurrentTransmission(s, c)
attemptFailed(s, c) ==
    IF lastTry(s) THEN Idle(retryOrGiveUp(s, c)) ELSE Defer(retryOrGiveUp(s, c))
acknowledged(s) ==
    Defer(resetCurrentBackOff(finishCurrentTransmission(cancelTimeoutPeriod(s))))
\* The reception of frame f ends.
handleLowerMsg(s, n, f, failed, c) ==
    LET noted == scheduleReservePeriod([s EXCEPT !.lastReceiveFailed = failed], n, f)
        got == cancelTimeoutPeriod(noted)
        receive(t) == Receive(t, n, f, failed)
        handled ==
            CASE s.state \in {"IDLE", "DEFER"} -> receive(noted)
              [] s.state = "WAITAIFS" -> receive(cancelAIFSPeriod(noted))
              [] s.state \in {"WAITACK", "WAITCTS"} /\ failed ->
                    attemptFailed(got, c)
              [] s.state = "WAITACK" /\ ~failed /\ f.type = "ACK" /\ f.ra = n ->
                    acknowledged(noted)
              [] s.state = "WAITACK" /\ ~failed /\ ~(f.type = "ACK" /\ f.ra = n) ->
                    receive(retryOrGiveUp(got, c))
              [] s.state = "WAITCTS" /\ ~failed /\ f.type = "CTS" /\ f.ra = n ->
                    WaitSIFS(got, f)
              [] OTHER -> noted
    IN  IF s.radioState = "IDLE" /\ s.endReserve = Off /\ noted.endReserve # Off
        THEN mediumStateChange(handled) ELSE handled

-----------------------------------------------------------------------------
(* The timers expire *)

AIFSOver(s, c) ==
    LET fired == assert([s EXCEPT !.endAIFS = Off], s.queue # <<>>) IN
    IF s.backoff THEN Backoff(generateIfInvalid(fired, c)) ELSE transmit(fired)
DIFSOver(s, c) == Backoff(generateIfInvalid([s EXCEPT !.endDIFS = Off], c))
BackoffOver(s) ==
    LET fired == [s EXCEPT !.endBackoff = Off] IN
    IF s.queue = <<>> THEN Idle(resetStateVariables(fired)) ELSE transmit(fired)
SIFSOver(s) ==
    LET fired == [s EXCEPT !.endSIFS = Off, !.frameBeforeSIFS = NoFrame]
        answer(f) == Idle(finishReception([fired EXCEPT !.down = f])) IN
    CASE s.frameBeforeSIFS.type = "RTS" -> answer(CTSFrame(s.frameBeforeSIFS))
      [] s.frameBeforeSIFS.type = "CTS" -> sendDataFrame(fired)
      [] s.frameBeforeSIFS.type = "DATA" -> answer(ACKFrame(s.frameBeforeSIFS))
timeoutPostponed(s) == useModulationParameters /\ s.radioState = "RECV" /\ s.state = "WAITACK"
TimeoutOver(s, c) ==
    LET fired == [s EXCEPT !.endTimeout = Off] IN
    CASE timeoutPostponed(s) -> [s EXCEPT !.endTimeout = ControlTime]
      [] ~timeoutPostponed(s) /\ s.state \in {"WAITACK", "WAITCTS"} ->
            attemptFailed(fired, c)
      [] s.state = "WAITMULTICAST" ->
            Defer(resetCurrentBackOff(finishCurrentTransmission(fired)))
ReserveOver(s) ==
    LET fired == [s EXCEPT !.endReserve = Off] IN
    IF s.radioState = "IDLE" THEN mediumStateChange(fired) ELSE fired
=============================================================================
