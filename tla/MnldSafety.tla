----------------------------- MODULE MnldSafety -----------------------------
(***************************************************************************)
(* The two handshakes of Mnld are invariants, and with them the safety     *)
(* properties that TLC checks on small instances hold for all.             *)
(***************************************************************************)
EXTENDS MnldProofs

-----------------------------------------------------------------------------
(* The variables the handshakes speak of, and steps that leave them intact. *)

handshakeVars == <<gps_state, gps_pc, mnl, power, mainq, gpsq>>

LEMMA SocketTypes ==
    TypeOK => /\ mainq \in Seq(MainEvents) /\ Len(mainq) <= QLen
              /\ gpsq \in Seq(GpsEvents) /\ Len(gpsq) <= QLen
  BY DEF TypeOK, MainEvents, GpsEvents

LEMMA Intact ==
    ASSUME Handshakes, UNCHANGED handshakeVars
    PROVE  Handshakes'
  BY DEF handshakeVars, Handshakes, StopHandshake, StartHandshake, Has, Once, LastIsStop, Quiet

(* A datagram that is no part of a handshake may be sent at any time. *)
LEMMA MainSent ==
    ASSUME TypeOK, Handshakes, NEW m \in MainEvents \ {"START_DONE", "STOP_DONE"},
           mainq' = Send(mainq, m), UNCHANGED <<gps_state, gps_pc, mnl, power, gpsq>>
    PROVE  Handshakes'
  <1>1. \A x \in {"START_DONE", "STOP_DONE"} : Has(mainq', x) => Has(mainq, x)
    BY SendHas, SocketTypes
  <1>2. Once(mainq, "STOP_DONE") => Once(mainq', "STOP_DONE")
    BY SendOnce, SocketTypes
  <1>3. LastIsStop(mainq) => LastIsStop(mainq')
    BY SendLastIsStop, SocketTypes
  <1> QED BY <1>1, <1>2, <1>3 DEF Handshakes, StopHandshake, StartHandshake, Quiet

LEMMA GpsSent ==
    ASSUME TypeOK, Handshakes, NEW m \in GpsEvents \ {"START", "STOP"},
           gpsq' = Send(gpsq, m), UNCHANGED <<gps_state, gps_pc, mnl, power, mainq>>
    PROVE  Handshakes'
  <1>1. \A x \in {"START", "STOP"} : Has(gpsq', x) => Has(gpsq, x)
    BY SendHas, SocketTypes
  <1>2. \A x \in {"START", "STOP"} : Once(gpsq, x) => Once(gpsq', x)
    BY SendOnce, SocketTypes
  <1> QED BY <1>1, <1>2 DEF Handshakes, StopHandshake, StartHandshake, Quiet

(* A datagram that is no part of a handshake may be received at any time. *)
LEMMA MainReceived ==
    ASSUME TypeOK, Handshakes, mainq # <<>>, mainq' = Tail(mainq),
           UNCHANGED <<gps_state, gps_pc, mnl, power, gpsq>>
    PROVE  Handshakes'
  <1>1. \A x : Has(mainq', x) => Has(mainq, x)
    BY TailFacts, SocketTypes
  <1>2. \A x : Once(mainq, x) => Once(mainq', x)
    BY TailFacts, SocketTypes
  <1>3. LastIsStop(mainq) => LastIsStop(mainq')
    BY TailFacts, SocketTypes
  <1> QED BY <1>1, <1>2, <1>3 DEF Handshakes, StopHandshake, StartHandshake, Quiet

LEMMA CrashHandshakes == Crash => Handshakes'
  BY DEF Crash, Handshakes, StopHandshake, StartHandshake, Has, Once, LastIsStop, Quiet

-----------------------------------------------------------------------------
(* The session's state machine takes part in the handshakes. *)

(* A deletion ordered for AGPS adds neither a start nor a stop: ResetQueue. *)
LEMMA ResetQueueHas ==
    ASSUME TypeOK, NEW fl
    PROVE  /\ ResetQueue(fl, gpsq) \in Seq(GpsEvents)
           /\ \A x \in {"START", "STOP"} : Has(ResetQueue(fl, gpsq), x) => Has(gpsq, x)
           /\ \A x \in {"START", "STOP"} : Once(gpsq, x) => Once(ResetQueue(fl, gpsq), x)
  <1>1. CASE fl
    <2>1. ResetQueue(fl, gpsq) = Send(gpsq, "DELETE_AIDING_DATA")
      BY <1>1 DEF ResetQueue
    <2>2. "DELETE_AIDING_DATA" \in GpsEvents /\ gpsq \in Seq(GpsEvents) /\ Len(gpsq) <= QLen
      BY SocketTypes DEF GpsEvents
    <2>3. \A x \in {"START", "STOP"} : Has(ResetQueue(fl, gpsq), x) => Has(gpsq, x)
      BY <2>1, <2>2, SendHas
    <2>4. \A x \in {"START", "STOP"} : Once(gpsq, x) => Once(ResetQueue(fl, gpsq), x)
      BY <2>1, <2>2, SendOnce
    <2> QED BY <2>1, <2>2, <2>3, <2>4, SendType
  <1>2. CASE ~fl
    BY <1>2, SocketTypes DEF ResetQueue
  <1> QED BY <1>1, <1>2

(* A start is ordered when nothing runs and nothing else is ordered. *)
LEMMA StartOrdered ==
    ASSUME TypeOK, gps_pc = "wait", ~mnl, ~Has(gpsq, "START"), ~Has(gpsq, "STOP"),
           ~Has(mainq', "START_DONE"), ~Has(mainq', "STOP_DONE"),
           gps_state' = "STARTING", gpsq' = Send(gpsq, "START"), UNCHANGED <<gps_pc, mnl>>,
           Once(gpsq, "START"), Once(gpsq, "STOP"), Once(mainq', "STOP_DONE"), LastIsStop(mainq')
    PROVE  Handshakes'
  <1>1. ~Has(gpsq', "STOP")
    BY SendHas, SocketTypes DEF GpsEvents
  <1>2. Once(gpsq', "START") /\ Once(gpsq', "STOP")
    BY SendOnce, SocketTypes DEF GpsEvents
  <1> QED BY <1>1, <1>2 DEF Handshakes, StopHandshake, StartHandshake, Quiet

(* A stop is ordered in a session that no start or stop is under way in. *)
LEMMA StopOrdered ==
    ASSUME NEW q \in Seq(GpsEvents), ~Has(q, "START"), ~Has(q, "STOP"),
           gps_pc \notin {"start", "stop"}, gps_pc = "signal" => mnl,
           ~Has(mainq', "STOP_DONE"),
           gps_state' = "STOPPING", gpsq' = Send(q, "STOP"), UNCHANGED <<gps_pc, mnl>>,
           Once(q, "START"), Once(q, "STOP"), Once(mainq', "STOP_DONE"), LastIsStop(mainq')
    PROVE  Handshakes'
  <1>1. ~Has(gpsq', "START")
    BY SendHas DEF GpsEvents
  <1>2. Once(gpsq', "START") /\ Once(gpsq', "STOP")
    BY SendOnce DEF GpsEvents
  <1> QED BY <1>1, <1>2 DEF Handshakes, StopHandshake, StartHandshake, Quiet

LEMMA EventStartHandshakes ==
    ASSUME TypeOK, Handshakes, NEW cl, NEW ofl, EventStart(cl, ofl),
           UNCHANGED <<mainq, gps_pc, mnl, power>>
    PROVE  Handshakes'
  <1>1. CASE gps_state = "IDLE" /\ StartGps(cl, ofl, armed)
    BY <1>1, StartOrdered DEF StartGps, Handshakes, StopHandshake, StartHandshake, Quiet
  <1>2. CASE UNCHANGED <<gps_state, gpsq>>
    BY <1>2, Intact DEF handshakeVars
  <1>3. CASE gps_state = "STARTED" /\ gpsq' = ResetQueue(delete_aiding_flag, gpsq)
             /\ UNCHANGED gps_state
    <2>1. /\ \A x \in {"START", "STOP"} : Has(gpsq', x) => Has(gpsq, x)
          /\ \A x \in {"START", "STOP"} : Once(gpsq, x) => Once(gpsq', x)
      BY <1>3, ResetQueueHas
    <2> QED BY <1>3, <2>1 DEF Handshakes, StopHandshake, StartHandshake, Quiet
  <1> QED BY <1>1, <1>2, <1>3 DEF EventStart, StartsNow

LEMMA EventStopHandshakes ==
    ASSUME TypeOK, Handshakes, NEW cl, NEW ra, EventStop(cl, ra),
           UNCHANGED <<gps_pc, mnl, power>>,
           mainq' = mainq \/ (mainq # <<>> /\ mainq' = Tail(mainq))
    PROVE  Handshakes'
  <1>1. /\ \A x : Has(mainq', x) => Has(mainq, x)
        /\ Once(mainq', "STOP_DONE") /\ LastIsStop(mainq')
    BY TailFacts, SocketTypes DEF Handshakes, StopHandshake
  <1>2. CASE UNCHANGED <<gps_state, gpsq>>
    BY <1>1, <1>2 DEF Handshakes, StopHandshake, StartHandshake, Quiet
  <1>3. CASE StopsNow(cl) /\ StopGps(armed, gpsq)
    <2>1. gps_state = "STARTED" /\ gps_state' = "STOPPING" /\ gpsq' = Send(gpsq, "STOP")
      BY <1>3 DEF StopsNow, StopGps
    <2> QED BY <1>1, <2>1, StopOrdered, SocketTypes
            DEF Handshakes, StopHandshake, StartHandshake, Quiet
  <1> QED BY <1>2, <1>3 DEF EventStop

LEMMA EventResetHandshakes ==
    ASSUME TypeOK, Handshakes, NEW ra, NEW fl, EventReset(ra, fl),
           UNCHANGED <<mainq, gps_pc, mnl, power>>
    PROVE  Handshakes'
  <1>1. CASE UNCHANGED gpsq
    BY <1>1, Intact DEF EventReset, handshakeVars
  <1>2. CASE gpsq' = ResetQueue(fl, gpsq)
    <2>1. /\ \A x \in {"START", "STOP"} : Has(gpsq', x) => Has(gpsq, x)
          /\ \A x \in {"START", "STOP"} : Once(gpsq, x) => Once(gpsq', x)
      BY <1>2, ResetQueueHas
    <2>2. UNCHANGED gps_state
      BY DEF EventReset
    <2> QED BY <2>1, <2>2 DEF Handshakes, StopHandshake, StartHandshake, Quiet
  <1> QED BY <1>1, <1>2 DEF EventReset

(* A start report ends a start: no start is ordered or under way any more. *)
LEMMA StartDoneHandshakes ==
    ASSUME TypeOK, Handshakes, MainStartDone
    PROVE  Handshakes'
  <1>1. /\ mainq # <<>> /\ Head(mainq) = "START_DONE" /\ mainq' = Tail(mainq)
        /\ EventStartDone /\ UNCHANGED <<gps_pc, mnl, power>>
    BY DEF MainStartDone, MainRecv, gpsVars
  <1>2. /\ \A x : Has(mainq', x) => Has(mainq, x)
        /\ Once(mainq', "STOP_DONE") /\ LastIsStop(mainq') /\ Has(mainq, "START_DONE")
    BY <1>1, TailFacts, SocketTypes DEF Handshakes, StopHandshake
  <1>3. CASE UNCHANGED fsmVars
    BY <1>1, <1>3, MainReceived DEF fsmVars
  <1>4. CASE /\ gps_state = "STARTING"
             /\ RunOrStop(client, ResetTimers(delete_aiding_flag, armed \ {"start"}),
                                  ResetQueue(delete_aiding_flag, gpsq))
    <2> DEFINE q == ResetQueue(delete_aiding_flag, gpsq)
    <2>1. /\ ~Has(gpsq, "START") /\ ~Has(gpsq, "STOP") /\ gps_pc \notin {"start", "stop"}
          /\ gps_pc = "signal" => mnl
          /\ Once(gpsq, "START") /\ Once(gpsq, "STOP") /\ ~Has(mainq, "STOP_DONE")
      BY <1>2, <1>4 DEF Handshakes, StopHandshake, StartHandshake, Quiet
    <2>2. /\ q \in Seq(GpsEvents) /\ ~Has(q, "START") /\ ~Has(q, "STOP")
          /\ Once(q, "START") /\ Once(q, "STOP")
      BY <2>1, ResetQueueHas
    <2>3. CASE gps_state' = "STARTED" /\ gpsq' = q
      <3> HIDE DEF q
      <3> QED BY <1>1, <1>2, <2>1, <2>2, <2>3
              DEF Handshakes, StopHandshake, StartHandshake, Quiet
    <2>4. CASE gps_state' = "STOPPING" /\ gpsq' = Send(q, "STOP")
      <3> HIDE DEF q
      <3> QED BY <1>1, <1>2, <2>1, <2>2, <2>4, StopOrdered
    <2> QED BY <1>4, <2>3, <2>4 DEF RunOrStop, StopGps
  <1> QED BY <1>1, <1>3, <1>4 DEF EventStartDone

(* A stop report ends a stop: the receiver is off and all is quiet. *)
LEMMA StopDoneHandshakes ==
    ASSUME TypeOK, Handshakes, MainStopDone
    PROVE  Handshakes'
  <1>1. mainq # <<>> /\ Head(mainq) = "STOP_DONE"
    BY DEF MainStopDone, MainRecv
  <1>2. Has(mainq, "STOP_DONE")
    BY <1>1, TailFacts, SocketTypes
  <1>3. /\ gps_state = "STOPPING" /\ gps_pc = "wait" /\ ~mnl
        /\ ~Has(gpsq, "START") /\ ~Has(gpsq, "STOP")
        /\ Once(gpsq, "START") /\ Once(gpsq, "STOP")
    BY <1>2 DEF Handshakes, StopHandshake, StartHandshake, Quiet
  <1>4. mainq' = Tail(mainq) /\ EventStopDone /\ UNCHANGED <<gps_pc, mnl, power>>
    BY <1>3 DEF MainStopDone, gpsVars
  <1>5. /\ ~Has(mainq', "START_DONE") /\ ~Has(mainq', "STOP_DONE")
        /\ Once(mainq', "STOP_DONE") /\ LastIsStop(mainq')
    BY <1>1, <1>4, TailFacts, SocketTypes DEF Handshakes, StopHandshake
  <1>6. CASE Reopen(client, armed \ {"stop"})
    BY <1>3, <1>4, <1>5, <1>6, StartOrdered DEF Reopen, StartGps
  <1>7. CASE GoIdle(armed \ {"stop"})
    BY <1>3, <1>4, <1>5, <1>7
       DEF GoIdle, Handshakes, StopHandshake, StartHandshake, Quiet
  <1> QED BY <1>4, <1>6, <1>7 DEF EventStopDone

-----------------------------------------------------------------------------
(* Every thread keeps the handshakes. *)

LEMMA RequestHandshakes == TypeOK /\ Handshakes /\ ClientRequest => Handshakes'
  <1> SUFFICES ASSUME TypeOK, Handshakes, ClientRequest PROVE Handshakes'
    OBVIOUS
  <1> USE DEF gpsVars
  <1>1. CASE HalStart
    BY <1>1, EventStartHandshakes DEF HalStart
  <1>2. CASE HalInit
    BY <1>2 DEF HalInit, SwitchedOff, fsmVars, Handshakes, StopHandshake, StartHandshake, Quiet
  <1>3. ASSUME NEW flags \in Flags, HalDeleteAidingData(flags)
        PROVE  Handshakes'
    BY <1>3, EventResetHandshakes DEF HalDeleteAidingData
  <1>4. ASSUME NEW net \in Networks, HalUpdateNetworkState(net)
        PROVE  Handshakes'
    BY <1>4, Intact DEF HalUpdateNetworkState, fsmVars, handshakeVars
  <1>5. ASSUME NEW c \in Clients, ClientStart(c)
        PROVE  Handshakes'
    BY <1>5, EventStartHandshakes DEF ClientStart
  <1>6. ASSUME NEW c \in Clients, ClientStop(c)
        PROVE  Handshakes'
    BY <1>6, EventStopHandshakes DEF ClientStop
  <1>7. ASSUME NEW mode \in Modes, FlpStart(mode)
        PROVE  Handshakes'
    BY <1>7, EventStartHandshakes DEF FlpStart
  <1>8. ASSUME NEW mode \in Modes, FlpStop(mode)
        PROVE  Handshakes'
    BY <1>8, EventStopHandshakes DEF FlpStop
  <1>9. ASSUME NEW c \in Clients, ClientReboot(c)
        PROVE  Handshakes'
    BY <1>9, EventStopHandshakes DEF ClientReboot
  <1>10. CASE AgpsReset
    BY <1>10, EventResetHandshakes DEF AgpsReset
  <1> QED BY <1>1, <1>2, <1>3, <1>4, <1>5, <1>6, <1>7, <1>8, <1>9, <1>10
          DEF ClientRequest, HalRequest

LEMMA MainHandshakes ==
    TypeOK /\ Handshakes /\ (MainThread \/ MainHandlerTimeout) => Handshakes'
  <1> SUFFICES ASSUME TypeOK, Handshakes, MainThread \/ MainHandlerTimeout PROVE Handshakes'
    OBVIOUS
  <1> USE DEF gpsVars, fsmVars, MainRecv
  <1>1. CASE MainResetDone
    BY <1>1, MainReceived DEF MainResetDone
  <1>2. CASE MainNmeaTimeout
    <2>1. CASE EventStop([c \in Clients |-> [client[c] EXCEPT !.gps_used = FALSE]], need_reset_ack)
      BY <1>2, <2>1, EventStopHandshakes DEF MainNmeaTimeout
    <2>2. CASE UNCHANGED fsmVars
      BY <1>2, <2>2, MainReceived DEF MainNmeaTimeout
    <2> QED BY <1>2, <2>1, <2>2 DEF MainNmeaTimeout
  <1>3. CASE MainEpoDone
    BY <1>3, MainReceived DEF MainEpoDone
  <1>4. CASE MainHandlerTimeout
    BY <1>4, CrashHandshakes DEF MainHandlerTimeout
  <1> QED BY <1>1, <1>2, <1>3, <1>4, StartDoneHandshakes, StopDoneHandshakes DEF MainThread

(* Received by the GPS control thread: what is left in its socket. *)
LEMMA GpsReceived ==
    ASSUME TypeOK, Handshakes, NEW m, GpsRecv(m)
    PROVE  /\ \A x : Has(gpsq', x) => Has(gpsq, x)
           /\ Once(gpsq', "START") /\ Once(gpsq', "STOP")
           /\ m \in {"START", "STOP"} => ~Has(gpsq', m)
           /\ Has(gpsq, m) /\ gps_pc = "wait"
  BY TailFacts, SocketTypes DEF GpsRecv, Handshakes, StopHandshake, StartHandshake

LEMMA GpsHandshakes == TypeOK /\ Handshakes /\ GpsThread => Handshakes'
  <1> SUFFICES ASSUME TypeOK, Handshakes, GpsThread PROVE Handshakes'
    OBVIOUS
  <1> USE DEF otherVars, gpsVars, Handshakes, StopHandshake, StartHandshake, Quiet
  <1>1. CASE GpsRecvStart
    BY <1>1, GpsReceived DEF GpsRecvStart
  <1>2. CASE GpsRun
    BY <1>2 DEF GpsRun
  <1>3. CASE GpsStartFails
    BY <1>3 DEF GpsStartFails
  <1>4. CASE GpsStarted
    <2>1. gps_pc = "signal" /\ gps_pc' = "wait" /\ UNCHANGED <<gps_state, mainq, gpsq, power>>
      BY <1>4 DEF GpsStarted
    <2> QED BY <2>1
  <1>5. CASE GpsRecvStop
    BY <1>5, GpsReceived DEF GpsRecvStop
  <1>6. CASE GpsStopped
    <2>1. /\ gps_pc = "stop" /\ gps_pc' = "wait" /\ ~mnl' /\ power' # "on"
          /\ mainq' = Send(mainq, "STOP_DONE") /\ UNCHANGED <<gps_state, gpsq>>
      BY <1>6 DEF GpsStopped, SwitchedOff
    <2>2. /\ Has(mainq', "START_DONE") => Has(mainq, "START_DONE")
          /\ Once(mainq', "STOP_DONE") /\ LastIsStop(mainq')
      BY <2>1, SendHas, SendOnce, SendLastIsStop, SocketTypes DEF MainEvents
    <2> QED BY <2>1, <2>2
  <1>7. CASE GpsStopFails
    BY <1>7 DEF GpsStopFails
  <1>8. CASE GpsDeleteAidingData
    <2>1. mainq' = Send(mainq, "RESET_DONE") /\ UNCHANGED <<gps_state, gps_pc, mnl, power>>
      BY <1>8 DEF GpsDeleteAidingData
    <2>2. /\ Has(mainq', "START_DONE") => Has(mainq, "START_DONE")
          /\ Has(mainq', "STOP_DONE") => Has(mainq, "STOP_DONE")
          /\ Once(mainq', "STOP_DONE") /\ LastIsStop(mainq')
      BY <2>1, SendHas, SendOnce, SendLastIsStop, SocketTypes DEF MainEvents
    <2> QED BY <1>8, <2>1, <2>2, GpsReceived DEF GpsDeleteAidingData
  <1>9. CASE GpsNmeaData
    BY <1>9, GpsReceived DEF GpsNmeaData
  <1>10. CASE GpsHandlerTimeout
    BY <1>10, CrashHandshakes DEF GpsHandlerTimeout
  <1> QED BY <1>1, <1>2, <1>3, <1>4, <1>5, <1>6, <1>7, <1>8, <1>9, <1>10 DEF GpsThread

LEMMA OtherHandshakes == TypeOK /\ Handshakes /\ OtherThreads => Handshakes'
  <1> SUFFICES ASSUME TypeOK, Handshakes, OtherThreads PROVE Handshakes'
    OBVIOUS
  <1> USE DEF fsmVars, otherVars, gpsVars, handshakeVars
  <1>1. CASE MnlStartReq
    <2>1. mnl /\ mainq' = Send(mainq, "START_DONE") /\ UNCHANGED <<gps_state, gps_pc, mnl, power, gpsq>>
      BY <1>1 DEF MnlStartReq
    <2>2. ~Has(mainq, "STOP_DONE") /\ Once(mainq, "STOP_DONE") /\ LastIsStop(mainq)
      BY <2>1 DEF Handshakes, StopHandshake
    <2>3. ~Has(mainq', "STOP_DONE") /\ Once(mainq', "STOP_DONE") /\ LastIsStop(mainq')
      BY <2>1, <2>2, SendHas, SendOnce, SendLastIsStop, SocketTypes DEF MainEvents
    <2> QED BY <2>1, <2>3 DEF Handshakes, StopHandshake, StartHandshake, Quiet
  <1>2. CASE MnlNotify
    BY <1>2, GpsSent DEF MnlNotify, GpsEvents
  <1>3. CASE MnlRestartReq
    BY <1>3, MainSent DEF MnlRestartReq, MainEvents
  <1>4. CASE EpoRecv
    BY <1>4, Intact DEF EpoRecv
  <1>5. CASE EpoDone
    BY <1>5, MainSent DEF EpoDone, MainEvents
  <1>6. ASSUME NEW t \in Timers, Expire(t)
        PROVE  Handshakes'
    BY <1>6, Intact DEF Expire
  <1>7. ASSUME NEW t \in Timers, Callback(t)
        PROVE  Handshakes'
    <2>1. CASE TimeoutCrash(t)
      BY <2>1, CrashHandshakes DEF TimeoutCrash
    <2>2. CASE NmeaTimeout
      BY <2>2, MainSent DEF NmeaTimeout, MainEvents
    <2> QED BY <1>7, <2>1, <2>2 DEF Callback
  <1>8. CASE Restart
    <2>1. power' # "on" /\ UNCHANGED <<gps_state, gps_pc, mnl, mainq, gpsq>>
      BY <1>8 DEF Restart, SwitchedOff
    <2> QED BY <2>1 DEF Handshakes, StopHandshake, StartHandshake, Quiet, Has, Once, LastIsStop
  <1>9. CASE HalWakelock \/ HalDies
    BY <1>9, Intact DEF HalWakelock, HalDies, otherThanHal
  <1> QED BY <1>1, <1>2, <1>3, <1>4, <1>5, <1>6, <1>7, <1>8, <1>9 DEF OtherThreads

LEMMA HandshakesInit == Init => Handshakes
  BY DEF Init, Handshakes, StopHandshake, StartHandshake, Has, Once, LastIsStop, Quiet

LEMMA HandshakesStep == TypeOK /\ Handshakes /\ [Next]_vars => Handshakes'
  <1> SUFFICES ASSUME TypeOK, Handshakes, [Next]_vars PROVE Handshakes'
    OBVIOUS
  <1>1. CASE UNCHANGED vars
    BY <1>1, Intact DEF vars, fsmVars, gpsVars, handshakeVars
  <1> QED BY <1>1, NextThreads, RequestHandshakes, MainHandshakes, GpsHandshakes, OtherHandshakes

(* The main thread and the GPS control thread are never out of step: a stop  *)
(* is pending at one place at most and only while the session is stopping, a *)
(* start only while it is starting and nothing of an older session is left.  *)
THEOREM HandshakesHold == Spec => []Handshakes
  <1>1. TypeOK /\ Handshakes /\ [Next]_vars => (TypeOK /\ Handshakes)'
    BY TypeStep, HandshakesStep
  <1> QED BY <1>1, TypeInit, HandshakesInit, PTL DEF Spec

(* STOP_DONE is only ever read by a stopping session: the CRASH_TO_DEBUG() of *)
(* fsm_gps_state_starting() and fsm_gps_state_started() is never reached.     *)
THEOREM StopDoneIsExpected == Spec => []StopDoneExpected
  <1>1. TypeOK /\ Handshakes => StopDoneExpected
    <2> SUFFICES ASSUME TypeOK, Handshakes, mainq # <<>>, Head(mainq) = "STOP_DONE"
                 PROVE  gps_state = "STOPPING"
      BY DEF StopDoneExpected
    <2>1. Has(mainq, "STOP_DONE")
      BY TailFacts, SocketTypes
    <2> QED BY <2>1 DEF Handshakes, StopHandshake
  <1> QED BY <1>1, TypeCorrect, HandshakesHold, PTL

(* mtk_gps_mnl_run() is called by a starting session, and never twice. *)
THEOREM LibraryStartsOnce == Spec => []StartsOnce
  <1>1. Handshakes => StartsOnce
    BY DEF Handshakes, StartHandshake, StartsOnce, Quiet
  <1> QED BY <1>1, HandshakesHold, PTL

(* An order sent to the HAL is told apart from everything else that becomes *)
(* of its socket.                                                            *)
LEMMA OrdersDiffer ==
    ASSUME TypeOK
    PROVE  /\ halq # Append(halq, "RELEASE")
           /\ Append(halq, "REQUEST") # Append(halq, "RELEASE")
           /\ <<>> # Append(halq, "RELEASE")
           /\ halq # <<>> => Tail(halq) # Append(halq, "RELEASE")
  <1>1. halq \in Seq(HalOrders) /\ Len(halq) \in Nat
    BY DEF TypeOK, HalOrders
  <1>2. /\ Len(Append(halq, "RELEASE")) = Len(halq) + 1
        /\ Append(halq, "RELEASE")[Len(halq) + 1] = "RELEASE"
        /\ Append(halq, "REQUEST")[Len(halq) + 1] = "REQUEST"
        /\ halq # <<>> => Len(Tail(halq)) = Len(halq) - 1
    BY <1>1
  <1> QED BY <1>1, <1>2

(* Whatever becomes of the order, the HAL is told to release its wakelock    *)
(* only when the library has stopped and the switch has been told to go off. *)
THEOREM WakelockReleasedWhenOff == Spec => ReleasedWhenOff
  <1>1. TypeOK /\ Handshakes /\ [Next]_vars
            => [halq' = Append(halq, "RELEASE") => ~mnl /\ power # "on"]_vars
    <2> SUFFICES ASSUME TypeOK, Handshakes, Next, halq' = Append(halq, "RELEASE")
                 PROVE  ~mnl /\ power # "on"
      OBVIOUS
    <2> USE DEF fsmVars, otherVars, halVars
    <2>1. ~Crash /\ halq' # halq
      BY OrdersDiffer DEF Crash
    <2>2. CASE ClientRequest
      BY <2>1, <2>2, OrdersDiffer
         DEF ClientRequest, HalRequest, HalStart, HalInit, HalDeleteAidingData,
             HalUpdateNetworkState, ClientStart, ClientStop, FlpStart, FlpStop,
             ClientReboot, AgpsReset, EventStart, EventStop, EventReset, Tell
    <2>3. CASE MainStopDone
      <3>1. EventStopDone \/ UNCHANGED fsmVars
        BY <2>1, <2>3 DEF MainStopDone
      <3>2. Has(mainq, "STOP_DONE")
        BY <2>3, TailFacts, SocketTypes DEF MainStopDone, MainRecv
      <3> QED BY <3>2 DEF Handshakes, StopHandshake
    <2>4. CASE MainThread /\ ~MainStopDone
      BY <2>1, <2>4 DEF MainThread, MainStartDone, MainResetDone, MainNmeaTimeout, MainEpoDone,
                        EventStartDone, EventStop
    <2>5. CASE MainHandlerTimeout
      BY <2>1, <2>5 DEF MainHandlerTimeout
    <2>6. CASE GpsThread
      BY <2>1, <2>6 DEF GpsThread, GpsRecvStart, GpsRun, GpsStartFails, GpsStarted, GpsRecvStop,
                  GpsStopped, GpsStopFails, GpsDeleteAidingData, GpsNmeaData, GpsHandlerTimeout
    <2>7. CASE OtherThreads
      BY <2>1, <2>7, OrdersDiffer
         DEF OtherThreads, MnlStartReq, MnlNotify, MnlRestartReq, EpoRecv, EpoDone, HalWakelock,
             HalDies, Expire, Callback, TimeoutCrash, NmeaTimeout, Restart
    <2> QED BY <2>2, <2>3, <2>4, <2>5, <2>6, <2>7, NextThreads
  <1> QED BY <1>1, TypeCorrect, HandshakesHold, PTL DEF Spec, ReleasedWhenOff

-----------------------------------------------------------------------------
(* What the users are owed. *)

Owed(cl) ==
    \A c \in Clients : /\ cl[c].need_open_ack => cl[c].gps_used
                       /\ cl[c].need_close_ack => ~cl[c].gps_used
Known(cl) == \A c \in Clients : ~cl[c].need_open_ack
Gone(cl)  == \A c \in Clients : ~cl[c].gps_used

AllClosed == [c \in Clients |-> Closed]

LEMMA ClientsInvDef ==
    ClientsInv <=> /\ Owed(client)
                   /\ gps_state = "STARTED" => Known(client)
                   /\ gps_state = "IDLE" => client = AllClosed /\ ~need_reset_ack
  BY DEF ClientsInv, AcksAreOwed, StartedIsKnown, Owed, Known, AllClosed

(* A registry nobody uses, once the closes are acknowledged, is the empty one. *)
LEMMA GoneIsClosed ==
    ASSUME NEW cl \in Registry, Owed(cl), Gone(cl)
    PROVE  CloseAcked(cl) = AllClosed
  <1>1. ASSUME NEW r \in Records, ~r.gps_used, ~r.need_open_ack
        PROVE  [r EXCEPT !.need_close_ack = FALSE] = Closed
    <2> DEFINE a == [r EXCEPT !.need_close_ack = FALSE]
    <2>1. a \in Records /\ a.gps_used = FALSE /\ a.need_open_ack = FALSE /\ a.need_close_ack = FALSE
      BY <1>1 DEF Records
    <2> HIDE DEF a
    <2>2. PICK u, o, k \in BOOLEAN :
              a = [gps_used |-> u, need_open_ack |-> o, need_close_ack |-> k]
      BY <2>1 DEF Records
    <2>3. u = FALSE /\ o = FALSE /\ k = FALSE
      BY <2>1, <2>2
    <2>4. a = Closed
      BY <2>2, <2>3, Zenon DEF Closed
    <2> QED BY <2>4 DEF a
  <1>2. ASSUME NEW c \in Clients
        PROVE  cl[c] \in Records /\ ~cl[c].gps_used /\ ~cl[c].need_open_ack
    BY DEF Registry, Owed, Gone
  <1> QED BY <1>1, <1>2 DEF CloseAcked, AllClosed

(* The answers leave nobody with an answer owed for another request. *)
LEMMA AckedOwed ==
    ASSUME NEW cl \in Registry, Owed(cl)
    PROVE  /\ Owed(OpenAcked(cl)) /\ Owed(CloseAcked(cl)) /\ Known(OpenAcked(cl))
           /\ Known(cl) => Known(CloseAcked(cl))
           /\ Gone(cl) => Gone(CloseAcked(cl)) /\ Gone(OpenAcked(cl))
  BY DEF Registry, Records, Owed, Known, Gone, OpenAcked, CloseAcked

(* Nor do the requests. *)
LEMMA RequestOwed ==
    ASSUME TypeOK, ClientsInv, NEW c
    PROVE  /\ Owed(Set(c, Opening(c)))
           /\ \A r \in {Closing(c), Closed} :
                 /\ Owed(Set(c, r))
                 /\ gps_state = "STARTED" => Known(Set(c, r))
                 /\ gps_state = "IDLE" => Gone(Set(c, r))
  <1>1. client \in Registry /\ Opening(c) \in Records /\ Closing(c) \in Records /\ Closed \in Records
    BY RegistryType
  <1>2. /\ Opening(c).gps_used /\ ~Opening(c).need_close_ack
        /\ ~Closing(c).gps_used /\ ~Closing(c).need_open_ack
        /\ ~Closed.gps_used /\ ~Closed.need_open_ack /\ ~Closed.need_close_ack
    BY DEF Opening, Closing, Closed
  <1>3. Owed(Set(c, Opening(c)))
    BY <1>1, <1>2, ClientsInvDef DEF Owed, Set, Registry
  <1>4. ASSUME NEW r \in {Closing(c), Closed}
        PROVE  /\ Owed(Set(c, r))
               /\ gps_state = "STARTED" => Known(Set(c, r))
               /\ gps_state = "IDLE" => Gone(Set(c, r))
    <2>1. ~r.gps_used /\ ~r.need_open_ack
      BY <1>2
    <2>2. Owed(Set(c, r))
      BY <1>1, <2>1, ClientsInvDef DEF Owed, Set, Registry
    <2>3. gps_state = "STARTED" => Known(Set(c, r))
      BY <1>1, <2>1, ClientsInvDef DEF Known, Set, Registry
    <2>4. gps_state = "IDLE" => Gone(Set(c, r))
      BY <1>1, <1>2, <2>1, ClientsInvDef DEF Gone, Set, Registry, AllClosed
    <2> QED BY <2>2, <2>3, <2>4
  <1> QED BY <1>3, <1>4

LEMMA EventStartClients ==
    ASSUME ClientsInv, NEW cl \in Registry, Owed(cl), NEW ofl, EventStart(cl, ofl)
    PROVE  ClientsInv'
  <1>1. Owed(OpenAcked(cl)) /\ Known(OpenAcked(cl))
    BY AckedOwed
  <1>2. \/ client' = cl /\ gps_state' \in {"STARTING", "STOPPING"}
        \/ client' = OpenAcked(cl) /\ gps_state' = "STARTED"
    BY DEF EventStart, StartGps
  <1>3. Owed(client') /\ (gps_state' = "STARTED" => Known(client')) /\ gps_state' # "IDLE"
    BY <1>1, <1>2
  <1> QED BY <1>3 DEF ClientsInv, AcksAreOwed, StartedIsKnown, Owed, Known

LEMMA EventStopClients ==
    ASSUME ClientsInv, NEW cl \in Registry, Owed(cl), NEW ra, EventStop(cl, ra),
           gps_state = "STARTED" => Known(cl), gps_state = "IDLE" => Gone(cl)
    PROVE  ClientsInv'
  <1>1. CASE gps_state = "IDLE"
    <2>1. client' = CloseAcked(cl) /\ need_reset_ack' = FALSE /\ gps_state' = "IDLE"
      BY <1>1 DEF EventStop, StopsNow
    <2>2. client' = AllClosed /\ Owed(client')
      BY <1>1, <2>1, GoneIsClosed, AckedOwed
    <2> QED BY <2>1, <2>2 DEF ClientsInv, AcksAreOwed, StartedIsKnown, Owed, AllClosed
  <1>2. CASE gps_state = "STARTED"
    <2>1. \/ client' = CloseAcked(cl) /\ gps_state' = "STARTED"
          \/ client' = cl /\ gps_state' = "STOPPING"
      BY <1>2 DEF EventStop, StopsNow, StopGps
    <2>2. Owed(client') /\ Known(client') /\ gps_state' # "IDLE"
      BY <1>2, <2>1, AckedOwed
    <2> QED BY <2>2 DEF ClientsInv, AcksAreOwed, StartedIsKnown, Owed, Known
  <1>3. CASE gps_state \in {"STARTING", "STOPPING"}
    <2>1. client' = cl /\ gps_state' = gps_state
      BY <1>3 DEF EventStop, StopsNow
    <2> QED BY <1>3, <2>1 DEF ClientsInv, AcksAreOwed, StartedIsKnown, Owed
  <1> QED BY <1>1, <1>2, <1>3 DEF EventStop, StopsNow

LEMMA EventResetClients ==
    ASSUME ClientsInv, NEW ra, NEW fl, EventReset(ra, fl)
    PROVE  ClientsInv'
  <1>1. UNCHANGED <<client, gps_state>> /\ (gps_state = "IDLE" => need_reset_ack' = FALSE)
    BY DEF EventReset
  <1> QED BY <1>1 DEF ClientsInv, AcksAreOwed, StartedIsKnown

LEMMA StartDoneClients ==
    ASSUME TypeOK, ClientsInv, EventStartDone
    PROVE  ClientsInv'
  <1>1. CASE UNCHANGED fsmVars
    BY <1>1 DEF fsmVars, clientVars, ClientsInv, AcksAreOwed, StartedIsKnown
  <1>2. CASE client' = OpenAcked(client) /\ gps_state' \in {"STARTED", "STOPPING"}
    <2>1. Owed(client') /\ Known(client')
      BY <1>2, AckedOwed, ClientsInvDef, RegistryType
    <2> QED BY <1>2, <2>1 DEF ClientsInv, AcksAreOwed, StartedIsKnown, Owed, Known
  <1> QED BY <1>1, <1>2 DEF EventStartDone, RunOrStop, StopGps

LEMMA StopDoneClients ==
    ASSUME TypeOK, ClientsInv, EventStopDone
    PROVE  ClientsInv'
  <1>1. client \in Registry /\ Owed(client)
    BY ClientsInvDef, RegistryType
  <1>2. client' = CloseAcked(client) /\ Owed(client') /\ need_reset_ack' = FALSE
    BY <1>1, AckedOwed DEF EventStopDone
  <1>3. CASE gps_state' = "STARTING"
    BY <1>2, <1>3 DEF ClientsInv, AcksAreOwed, StartedIsKnown, Owed
  <1>4. CASE ~ClientExists(client) /\ gps_state' = "IDLE"
    <2>1. client' = AllClosed
      BY <1>1, <1>2, <1>4, GoneIsClosed DEF ClientExists, Gone
    <2> QED BY <1>2, <1>4, <2>1 DEF ClientsInv, AcksAreOwed, StartedIsKnown, Owed, AllClosed
  <1> QED BY <1>3, <1>4 DEF EventStopDone, Reopen, GoIdle, StartGps

LEMMA SameClients ==
    ASSUME ClientsInv, UNCHANGED <<gps_state, client, need_reset_ack>>
    PROVE  ClientsInv'
  BY DEF ClientsInv, AcksAreOwed, StartedIsKnown

LEMMA CrashClients == Crash => ClientsInv'
  BY DEF Crash, ClientsInv, AcksAreOwed, StartedIsKnown, Closed

LEMMA ClientsStep == TypeOK /\ ClientsInv /\ [Next]_vars => ClientsInv'
  <1> SUFFICES ASSUME TypeOK, ClientsInv, [Next]_vars PROVE ClientsInv'
    OBVIOUS
  <1> USE DEF fsmVars, clientVars, otherVars
  <1>1. \A c : /\ Set(c, Opening(c)) \in Registry
               /\ Set(c, Closing(c)) \in Registry
               /\ Set(c, Closed) \in Registry
    BY RegistryType, Zenon
  <1>2. ASSUME NEW c, NEW ofl, EventStart(Set(c, Opening(c)), ofl)
        PROVE  ClientsInv'
    BY <1>1, <1>2, RequestOwed, EventStartClients
  <1>3. ASSUME NEW c, NEW ra, EventStop(Set(c, Closing(c)), ra)
        PROVE  ClientsInv'
    BY <1>1, <1>3, RequestOwed, EventStopClients
  <1>4. ASSUME NEW c, NEW ra, EventStop(Set(c, Closed), ra)
        PROVE  ClientsInv'
    BY <1>1, <1>4, RequestOwed, EventStopClients
  <1>5. CASE ClientRequest
    <2>1. CASE HalRequest
      BY <1>2, <2>1, EventResetClients, SameClients
         DEF HalRequest, HalStart, HalInit, HalDeleteAidingData, HalUpdateNetworkState
    <2>2. ASSUME NEW c, ClientStart(c) \/ ClientStop(c) \/ ClientReboot(c)
          PROVE  ClientsInv'
      BY <1>2, <1>3, <1>4, <2>2 DEF ClientStart, ClientStop, ClientReboot
    <2>3. ASSUME NEW mode, FlpStart(mode) \/ FlpStop(mode)
          PROVE  ClientsInv'
      BY <1>2, <1>3, <2>3 DEF FlpStart, FlpStop
    <2>4. CASE AgpsReset
      BY <2>4, EventResetClients DEF AgpsReset
    <2> QED BY <1>5, <2>1, <2>2, <2>3, <2>4 DEF ClientRequest
  <1>6. CASE MainNmeaTimeout
    <2> DEFINE cl == [c \in Clients |-> [client[c] EXCEPT !.gps_used = FALSE]]
    <2>1. CASE gps_state = "STARTED" /\ EventStop(cl, need_reset_ack)
      <3>1. cl \in Registry /\ client \in Registry
        BY RegistryType
      <3>2. Known(client) /\ Owed(client)
        BY <2>1, ClientsInvDef
      <3>3. Known(cl) /\ Owed(cl)
        BY <3>1, <3>2 DEF Known, Owed, Registry, Records
      <3> HIDE DEF cl
      <3> QED BY <2>1, <3>1, <3>3, EventStopClients
    <2>2. CASE UNCHANGED fsmVars
      BY <2>2, SameClients
    <2> QED BY <1>6, <2>1, <2>2 DEF MainNmeaTimeout
  <1>7. CASE MainResetDone
    BY <1>7 DEF MainResetDone, ClientsInv, AcksAreOwed, StartedIsKnown
  <1>8. CASE MainStartDone \/ MainStopDone \/ MainEpoDone \/ MainHandlerTimeout
    BY <1>8, StartDoneClients, StopDoneClients, CrashClients, SameClients
       DEF MainStartDone, MainStopDone, MainEpoDone, MainHandlerTimeout
  <1>9. CASE GpsThread
    BY <1>9, CrashClients, SameClients
       DEF GpsThread, GpsRecvStart, GpsRun, GpsStartFails, GpsStarted, GpsRecvStop, GpsStopped,
           GpsStopFails, GpsDeleteAidingData, GpsNmeaData, GpsHandlerTimeout
  <1>10. CASE OtherThreads
    BY <1>10, CrashClients, SameClients
       DEF OtherThreads, MnlStartReq, MnlNotify, MnlRestartReq, EpoRecv, EpoDone,
           HalWakelock, HalDies, otherThanHal, Expire, Callback, TimeoutCrash, NmeaTimeout, Restart
  <1>11. CASE UNCHANGED vars
    BY <1>11, SameClients DEF vars
  <1> QED BY <1>5, <1>6, <1>7, <1>8, <1>9, <1>10, <1>11, NextThreads DEF MainThread

LEMMA ClientsInit == Init => ClientsInv
  BY DEF Init, ClientsInv, AcksAreOwed, StartedIsKnown, Closed

(* No user waits for both answers or for one it did not ask for, nobody is    *)
(* left waiting for a receiver that runs, and an idle daemon owes nothing.    *)
THEOREM ClientsHold == Spec => []ClientsInv
  <1>1. TypeOK /\ ClientsInv /\ [Next]_vars => (TypeOK /\ ClientsInv)'
    BY TypeStep, ClientsStep
  <1> QED BY <1>1, TypeInit, ClientsInit, PTL DEF Spec

(* A close request cancels an open one and the other way round, so no user   *)
(* waits for two answers, nor for one it did not ask for.                    *)
THEOREM AnswersAreOwed == Spec => []AcksAreOwed
  <1>1. ClientsInv => AcksAreOwed
    BY DEF ClientsInv
  <1> QED BY <1>1, ClientsHold, PTL

(* Nobody waits for a receiver that already runs: who comes while it runs is *)
(* answered on arrival, who came while it started by do_gps_started_hdlr().  *)
THEOREM RunningIsKnown == Spec => []StartedIsKnown
  <1>1. ClientsInv => StartedIsKnown
    BY DEF ClientsInv
  <1> QED BY <1>1, ClientsHold, PTL

(* In IDLE the library and the GPS control thread rest and nobody is owed an *)
(* answer: nothing of a session outlives it.                                 *)
THEOREM IdleLeavesNothing == Spec => []IdleIsClean
  <1>1. Handshakes /\ ClientsInv => IdleIsClean
    BY DEF Handshakes, StartHandshake, Quiet, ClientsInv, IdleIsClean
  <1> QED BY <1>1, HandshakesHold, ClientsHold, PTL

-----------------------------------------------------------------------------
(* The watchdogs. *)

LEMMA SameWatch ==
    ASSUME WatchdogsMatch, UNCHANGED <<gps_state, armed, expired>>
    PROVE  WatchdogsMatch'
  BY DEF WatchdogsMatch

LEMMA CrashWatch == Crash => WatchdogsMatch'
  BY DEF Crash, WatchdogsMatch

(* Every event of the session moves the watchdogs along with the state. *)
LEMMA EventWatch ==
    ASSUME WatchdogsMatch, UNCHANGED expired,
           \/ \E cl, ofl : EventStart(cl, ofl)
           \/ \E cl, ra : EventStop(cl, ra)
           \/ \E ra, fl : EventReset(ra, fl)
           \/ EventStartDone
           \/ gps_state = "STOPPING" /\ EventStopDone
    PROVE  WatchdogsMatch'
  <1> USE DEF WatchdogsMatch
  <1>1. \A fl, timers : \A t \in {"start", "stop"} : t \in ResetTimers(fl, timers) <=> t \in timers
    BY DEF ResetTimers
  <1>2. ASSUME NEW cl, NEW ofl, EventStart(cl, ofl)
        PROVE  WatchdogsMatch'
    BY <1>1, <1>2 DEF EventStart, StartsNow, StartGps
  <1>3. ASSUME NEW cl, NEW ra, EventStop(cl, ra)
        PROVE  WatchdogsMatch'
    BY <1>3 DEF EventStop, StopsNow, StopGps
  <1>4. ASSUME NEW ra, NEW fl, EventReset(ra, fl)
        PROVE  WatchdogsMatch'
    BY <1>1, <1>4 DEF EventReset
  <1>5. CASE EventStartDone
    BY <1>1, <1>5 DEF EventStartDone, RunOrStop, StopGps, fsmVars
  <1>6. CASE gps_state = "STOPPING" /\ EventStopDone
    BY <1>6 DEF EventStopDone, Reopen, GoIdle, StartGps
  <1> QED BY <1>2, <1>3, <1>4, <1>5, <1>6

LEMMA WatchStep == WatchdogsMatch /\ [Next]_vars => WatchdogsMatch'
  <1> SUFFICES ASSUME WatchdogsMatch, [Next]_vars PROVE WatchdogsMatch'
    OBVIOUS
  <1> USE DEF fsmVars, otherVars
  <1>1. CASE ClientRequest
    BY <1>1, EventWatch, SameWatch
       DEF ClientRequest, HalRequest, HalStart, HalInit, HalDeleteAidingData,
           HalUpdateNetworkState, ClientStart, ClientStop, FlpStart, FlpStop, ClientReboot, AgpsReset
  <1>2. CASE MainResetDone
    BY <1>2 DEF MainResetDone, WatchdogsMatch
  <1>3. CASE (MainThread /\ ~MainResetDone) \/ MainHandlerTimeout
    BY <1>3, EventWatch, SameWatch, CrashWatch
       DEF MainThread, MainStartDone, MainStopDone, MainNmeaTimeout, MainEpoDone, MainHandlerTimeout
  <1>4. CASE GpsRecvStop \/ GpsNmeaData
    BY <1>4 DEF GpsRecvStop, GpsNmeaData, WatchdogsMatch
  <1>5. CASE GpsThread /\ ~GpsRecvStop /\ ~GpsNmeaData
    BY <1>5, CrashWatch, SameWatch
       DEF GpsThread, GpsRecvStart, GpsRun, GpsStartFails, GpsStarted,
           GpsStopped, GpsStopFails, GpsDeleteAidingData, GpsHandlerTimeout
  <1>6. ASSUME NEW t \in Timers, Expire(t)
        PROVE  WatchdogsMatch'
    BY <1>6 DEF Expire, WatchdogsMatch
  <1>7. CASE NmeaTimeout
    BY <1>7 DEF NmeaTimeout, WatchdogsMatch
  <1>8. CASE OtherThreads /\ ~NmeaTimeout /\ ~\E t \in Timers : Expire(t)
    BY <1>8, CrashWatch, SameWatch
       DEF OtherThreads, MnlStartReq, MnlNotify, MnlRestartReq, EpoRecv, EpoDone,
           HalWakelock, HalDies, otherThanHal, Callback, TimeoutCrash, Restart
  <1>9. CASE UNCHANGED vars
    BY <1>9, SameWatch DEF vars
  <1> QED BY <1>1, <1>2, <1>3, <1>4, <1>5, <1>6, <1>7, <1>8, <1>9, NextThreads

(* Every stop is watched, and no watchdog outlives the state it watches: the *)
(* start and stop timers of mnld.c never kill a session that has moved on.   *)
THEOREM SessionIsWatched == Spec => []WatchdogsMatch
  <1>1. Init => WatchdogsMatch
    BY DEF Init, WatchdogsMatch
  <1> QED BY <1>1, WatchStep, PTL DEF Spec

-----------------------------------------------------------------------------
(* The wakelock. *)

LEMMA SameWake ==
    ASSUME WakelockTold, UNCHANGED <<gps_state, halVars>>
    PROVE  WakelockTold'
  BY DEF WakelockTold, Told, halVars

(* A session that dies with the daemon is one whose end the HAL misses. *)
LEMMA CrashWake == WakelockTold /\ Crash => WakelockTold'
  <1> SUFFICES ASSUME WakelockTold, Crash PROVE WakelockTold'
    OBVIOUS
  <1>1. /\ gps_state' = "IDLE" /\ missed' = (missed \/ gps_state # "IDLE")
        /\ UNCHANGED <<wakelock, halq>>
    BY DEF Crash
  <1>2. CASE missed \/ gps_state # "IDLE"
    BY <1>1, <1>2 DEF WakelockTold
  <1>3. CASE ~missed /\ gps_state = "IDLE"
    <2>1. ~Told
      BY <1>3 DEF WakelockTold
    <2>2. ~Told'
      BY <1>1, <2>1 DEF Told
    <2> QED BY <1>1, <2>2 DEF WakelockTold
  <1> QED BY <1>2, <1>3

(* An order that reaches the HAL's socket is the last word, one that does    *)
(* not is missed.                                                            *)
LEMMA TellWake ==
    ASSUME TypeOK, NEW order \in HalOrders, Tell(order)
    PROVE  missed' \/ (Told' <=> order = "REQUEST")
  <1>1. CASE halq' = Append(halq, order)
    <2>1. halq \in Seq(HalOrders) /\ Len(halq) \in Nat
      BY DEF TypeOK, HalOrders
    <2>2. halq' # <<>> /\ Len(halq') = Len(halq) + 1 /\ halq'[Len(halq')] = order
      BY <1>1, <2>1
    <2> QED BY <2>2 DEF Told
  <1>2. CASE missed' = TRUE
    BY <1>2
  <1> QED BY <1>1, <1>2 DEF Tell

(* A session's events tell the HAL when it begins or ends, and only then. *)
LEMMA EventWake ==
    ASSUME TypeOK, WakelockTold,
           \/ \E cl, ofl : EventStart(cl, ofl)
           \/ \E cl, ra : EventStop(cl, ra)
           \/ \E ra, fl : EventReset(ra, fl)
           \/ EventStartDone
           \/ gps_state = "STOPPING" /\ EventStopDone
    PROVE  WakelockTold'
  <1>1. ASSUME NEW cl, NEW ofl, EventStart(cl, ofl)
        PROVE  WakelockTold'
    <2>1. CASE StartsNow /\ Tell("REQUEST") /\ StartGps(cl, ofl, armed)
      <3>1. missed' \/ Told'
        BY <2>1, TellWake DEF HalOrders
      <3> QED BY <2>1, <3>1 DEF StartGps, WakelockTold
    <2>2. CASE UNCHANGED <<gps_state, halVars>>
      BY <2>2, SameWake
    <2> QED BY <1>1, <2>1, <2>2 DEF EventStart
  <1>2. ASSUME NEW cl, NEW ra, EventStop(cl, ra)
        PROVE  WakelockTold'
    <2>1. CASE UNCHANGED <<gps_state, halVars>>
      BY <2>1, SameWake
    <2>2. CASE StopsNow(cl) /\ StopGps(armed, gpsq) /\ UNCHANGED halVars
      BY <2>2 DEF StopsNow, StopGps, WakelockTold, Told, halVars
    <2> QED BY <1>2, <2>1, <2>2 DEF EventStop
  <1>3. ASSUME NEW ra, NEW fl, EventReset(ra, fl)
        PROVE  WakelockTold'
    BY <1>3, SameWake DEF EventReset
  <1>4. CASE EventStartDone
    <2>1. CASE UNCHANGED fsmVars
      BY <2>1, SameWake DEF fsmVars
    <2>2. /\ ~UNCHANGED fsmVars => gps_state = "STARTING" /\ gps_state' \in {"STARTED", "STOPPING"}
          /\ UNCHANGED halVars
      BY <1>4 DEF EventStartDone, RunOrStop, StopGps, fsmVars
    <2> QED BY <2>1, <2>2 DEF WakelockTold, Told, halVars
  <1>5. CASE gps_state = "STOPPING" /\ EventStopDone
    <2>1. CASE Reopen(client, armed \ {"stop"})
      <3>1. gps_state' = "STARTING" /\ UNCHANGED halVars
        BY <2>1 DEF Reopen, StartGps
      <3> QED BY <1>5, <3>1 DEF WakelockTold, Told, halVars
    <2>2. CASE GoIdle(armed \ {"stop"})
      <3>1. gps_state' = "IDLE" /\ Tell("RELEASE")
        BY <2>2 DEF GoIdle
      <3>2. missed' \/ ~Told'
        BY <3>1, TellWake DEF HalOrders
      <3> QED BY <3>1, <3>2 DEF WakelockTold
    <2> QED BY <1>5, <2>1, <2>2 DEF EventStopDone
  <1> QED BY <1>1, <1>2, <1>3, <1>4, <1>5

(* The HAL's worker acts on the oldest order; the last word stays. *)
LEMMA HalWake ==
    ASSUME TypeOK, WakelockTold, HalWakelock \/ HalDies
    PROVE  WakelockTold'
  <1>1. CASE HalDies
    BY <1>1 DEF HalDies, WakelockTold
  <1>2. CASE HalWakelock
    <2>1. /\ halq # <<>> /\ halq' = Tail(halq) /\ wakelock' = (Head(halq) = "REQUEST")
          /\ UNCHANGED <<gps_state, missed>>
      BY <1>2 DEF HalWakelock, otherThanHal
    <2>2. halq \in Seq(HalOrders) /\ Len(halq) \in Nat /\ Len(halq) > 0 /\ Head(halq) = halq[1]
      BY <2>1 DEF TypeOK, HalOrders
    <2>3. CASE Len(halq) = 1
      <3>1. halq' = <<>>
        BY <2>1, <2>2, <2>3
      <3> QED BY <2>1, <2>2, <2>3, <3>1 DEF WakelockTold, Told
    <2>4. CASE Len(halq) # 1
      <3> DEFINE q == Tail(halq)
      <3>1. halq' # <<>> /\ halq'[Len(halq')] = halq[Len(halq)]
        <4>1. Len(q) = Len(halq) - 1 /\ Len(q) \in Nat /\ Len(q) > 0 /\ q # <<>>
          <5>1. Len(q) = Len(halq) - 1 /\ q \in Seq(HalOrders)
            BY <2>2
          <5>2. Len(q) \in Nat /\ Len(q) > 0
            BY <2>2, <2>4, <5>1
          <5> HIDE DEF q
          <5>3. q # <<>>
            BY <5>1, <5>2
          <5> QED BY <5>1, <5>2, <5>3
        <4>2. q[Len(q)] = halq[Len(q) + 1]
          BY <2>2, <4>1
        <4>3. Len(q) + 1 = Len(halq)
          BY <2>2, <4>1
        <4> QED BY <2>1, <4>1, <4>2, <4>3
      <3>2. Told <=> halq[Len(halq)] = "REQUEST"
        BY <2>1, Zenon DEF Told
      <3>3. Told' <=> halq'[Len(halq')] = "REQUEST"
        BY <3>1, Zenon DEF Told
      <3>4. gps_state' = gps_state /\ missed' = missed
        BY <2>1
      <3> QED BY <3>1, <3>2, <3>3, <3>4, Zenon DEF WakelockTold
    <2> QED BY <2>3, <2>4
  <1> QED BY <1>1, <1>2

LEMMA WakeStep == TypeOK /\ WakelockTold /\ [Next]_vars => WakelockTold'
  <1> SUFFICES ASSUME TypeOK, WakelockTold, [Next]_vars PROVE WakelockTold'
    OBVIOUS
  <1> USE DEF fsmVars, otherVars
  <1>1. CASE ClientRequest
    BY <1>1, EventWake, SameWake
       DEF ClientRequest, HalRequest, HalStart, HalInit, HalDeleteAidingData,
           HalUpdateNetworkState, ClientStart, ClientStop, FlpStart, FlpStop, ClientReboot, AgpsReset
  <1>2. CASE MainThread \/ MainHandlerTimeout
    BY <1>2, EventWake, SameWake, CrashWake
       DEF MainThread, MainStartDone, MainStopDone, MainResetDone, MainNmeaTimeout, MainEpoDone,
           MainHandlerTimeout
  <1>3. CASE GpsThread
    BY <1>3, CrashWake, SameWake
       DEF GpsThread, GpsRecvStart, GpsRun, GpsStartFails, GpsStarted, GpsRecvStop,
           GpsStopped, GpsStopFails, GpsDeleteAidingData, GpsNmeaData, GpsHandlerTimeout
  <1>4. CASE OtherThreads
    BY <1>4, CrashWake, SameWake, HalWake
       DEF OtherThreads, MnlStartReq, MnlNotify, MnlRestartReq, EpoRecv, EpoDone,
           Expire, Callback, TimeoutCrash, NmeaTimeout, Restart
  <1>5. CASE UNCHANGED vars
    BY <1>5, SameWake DEF vars
  <1> QED BY <1>1, <1>2, <1>3, <1>4, <1>5, NextThreads

(* The last order in the HAL's socket, or the wakelock once it has read all  *)
(* of them, fits the session: however late the HAL reads, it ends up holding *)
(* the lock during a session and giving it up after one.  A word it missed   *)
(* (its socket full or not bound, its process or mnld killed) is excepted    *)
(* until the next one reaches it, because mnld never looks nor repeats it.   *)
THEOREM SessionIsAwake == Spec => []WakelockTold
  <1>1. Init => WakelockTold
    BY DEF Init, WakelockTold, Told
  <1>2. TypeOK /\ WakelockTold /\ [Next]_vars => (TypeOK /\ WakelockTold)'
    BY TypeStep, WakeStep
  <1> QED BY <1>1, <1>2, TypeInit, PTL DEF Spec

-----------------------------------------------------------------------------
(* The aiding data AGPS wants deleted. *)

(* A deletion AGPS waits for is watched as soon as it is ordered: whatever   *)
(* moves the session on leaves the reset timer running or the answer given.  *)
LEMMA EventReseted ==
    ASSUME ResetIsWatched, UNCHANGED expired,
           \/ \E cl, ofl : EventStart(cl, ofl)
           \/ \E cl, ra : (ra => need_reset_ack) /\ EventStop(cl, ra)
           \/ \E ra, fl : (ra => need_reset_ack \/ fl) /\ EventReset(ra, fl)
           \/ EventStartDone
           \/ EventStopDone
    PROVE  ResetIsWatched'
  <1> USE DEF ResetIsWatched
  <1>1. ASSUME NEW cl, NEW ofl, EventStart(cl, ofl)
        PROVE  ResetIsWatched'
    BY <1>1 DEF EventStart, StartsNow, StartGps
  <1>2. ASSUME NEW cl, NEW ra, ra => need_reset_ack, EventStop(cl, ra)
        PROVE  ResetIsWatched'
    BY <1>2 DEF EventStop, StopsNow, StopGps
  <1>3. ASSUME NEW ra, NEW fl, ra => need_reset_ack \/ fl, EventReset(ra, fl)
        PROVE  ResetIsWatched'
    BY <1>3 DEF EventReset, ResetTimers
  <1>4. CASE EventStartDone
    BY <1>4 DEF EventStartDone, fsmVars, clientVars
  <1>5. CASE EventStopDone
    BY <1>5 DEF EventStopDone
  <1> QED BY <1>1, <1>2, <1>3, <1>4, <1>5

LEMMA SameReset ==
    ASSUME ResetIsWatched, UNCHANGED <<gps_state, need_reset_ack, armed, expired>>
    PROVE  ResetIsWatched'
  BY DEF ResetIsWatched

LEMMA CrashReset == Crash => ResetIsWatched'
  BY DEF Crash, ResetIsWatched

LEMMA ResetStep == ResetIsWatched /\ [Next]_vars => ResetIsWatched'
  <1> SUFFICES ASSUME ResetIsWatched, [Next]_vars PROVE ResetIsWatched'
    OBVIOUS
  <1> USE DEF fsmVars, clientVars, otherVars
  <1>1. CASE HalRequest
    BY <1>1, EventReseted, SameReset
       DEF HalRequest, HalStart, HalInit, HalDeleteAidingData, HalUpdateNetworkState
  <1>2. ASSUME NEW c, ClientStart(c) \/ ClientStop(c) \/ ClientReboot(c)
        PROVE  ResetIsWatched'
    BY <1>2, EventReseted DEF ClientStart, ClientStop, ClientReboot
  <1>3. ASSUME NEW mode, FlpStart(mode) \/ FlpStop(mode)
        PROVE  ResetIsWatched'
    BY <1>3, EventReseted DEF FlpStart, FlpStop
  <1>4. CASE AgpsReset
    BY <1>4, EventReseted DEF AgpsReset
  <1>5. CASE MainThread \/ MainHandlerTimeout
    <2>1. CASE MainStopDone \/ MainStartDone
      BY <2>1, EventReseted, SameReset, CrashReset DEF MainStopDone, MainStartDone
    <2>2. CASE MainNmeaTimeout \/ MainEpoDone
      BY <2>2, EventReseted, SameReset DEF MainNmeaTimeout, MainEpoDone
    <2>3. CASE MainResetDone \/ MainHandlerTimeout
      BY <2>3, CrashReset DEF MainResetDone, MainHandlerTimeout, ResetIsWatched
    <2> QED BY <1>5, <2>1, <2>2, <2>3 DEF MainThread
  <1>6. CASE GpsRecvStop \/ GpsNmeaData
    BY <1>6 DEF GpsRecvStop, GpsNmeaData, ResetIsWatched
  <1>7. CASE GpsThread /\ ~GpsRecvStop /\ ~GpsNmeaData
    BY <1>7, CrashReset, SameReset
       DEF GpsThread, GpsRecvStart, GpsRun, GpsStartFails, GpsStarted,
           GpsStopped, GpsStopFails, GpsDeleteAidingData, GpsHandlerTimeout
  <1>8. ASSUME NEW t \in Timers, Expire(t)
        PROVE  ResetIsWatched'
    BY <1>8 DEF Expire, ResetIsWatched
  <1>9. CASE NmeaTimeout
    BY <1>9 DEF NmeaTimeout, ResetIsWatched
  <1>10. CASE OtherThreads /\ ~NmeaTimeout /\ ~\E t \in Timers : Expire(t)
    BY <1>10, CrashReset, SameReset
       DEF OtherThreads, MnlStartReq, MnlNotify, MnlRestartReq, EpoRecv, EpoDone,
           HalWakelock, HalDies, otherThanHal, Callback, TimeoutCrash, Restart
  <1>11. CASE UNCHANGED vars
    BY <1>11, SameReset DEF vars
  <1> QED BY <1>1, <1>2, <1>3, <1>4, <1>5, <1>6, <1>7, <1>8, <1>9, <1>10, <1>11, NextThreads
          DEF ClientRequest

(* agps_reset_gps_req() is answered or watched: outside of a start, which    *)
(* defers the deletion, the reset timer runs as long as AGPS waits.          *)
THEOREM ResetIsAlwaysWatched == Spec => []ResetIsWatched
  <1>1. Init => ResetIsWatched
    BY DEF Init, ResetIsWatched
  <1> QED BY <1>1, ResetStep, PTL DEF Spec

-----------------------------------------------------------------------------
(* The EPO download, as the main thread knows of it. *)

(* Its result is on the way once at most, and only when it is over. *)
EpoInv ==
    /\ epo # "none" => downloading
    /\ Has(mainq, "EPO_DONE") => downloading /\ epo = "none"
    /\ Once(mainq, "EPO_DONE")

(* The other threads neither add nor repeat a result. *)
LEMMA EpoSame ==
    ASSUME EpoInv, Has(mainq', "EPO_DONE") => Has(mainq, "EPO_DONE"), Once(mainq', "EPO_DONE"),
           UNCHANGED epoVars
    PROVE  EpoInv'
  BY DEF EpoInv, epoVars

LEMMA EpoMainSame ==
    ASSUME EpoInv, UNCHANGED <<epoVars, mainq>>
    PROVE  EpoInv'
  BY DEF EpoInv, epoVars, Has, Once

LEMMA EpoSent ==
    ASSUME TypeOK, EpoInv, NEW m \in MainEvents \ {"EPO_DONE"}, mainq' = Send(mainq, m),
           UNCHANGED epoVars
    PROVE  EpoInv'
  <1>1. Has(mainq', "EPO_DONE") => Has(mainq, "EPO_DONE")
    BY SendHas, SocketTypes
  <1>2. Once(mainq', "EPO_DONE")
    BY SendOnce, SocketTypes DEF EpoInv
  <1> QED BY <1>1, <1>2, EpoSame

LEMMA EpoReceived ==
    ASSUME TypeOK, EpoInv, mainq # <<>>, mainq' = Tail(mainq), UNCHANGED epoVars
    PROVE  EpoInv'
  <1>1. Has(mainq', "EPO_DONE") => Has(mainq, "EPO_DONE")
    BY TailFacts, SocketTypes
  <1>2. Once(mainq', "EPO_DONE")
    BY TailFacts, SocketTypes DEF EpoInv
  <1> QED BY <1>1, <1>2, EpoSame

LEMMA EpoTriggered ==
    ASSUME EpoInv, TriggerEpo \/ UNCHANGED epoVars, UNCHANGED mainq
    PROVE  EpoInv'
  <1>1. CASE UNCHANGED epoVars
    BY <1>1, EpoMainSame
  <1>2. CASE ~downloading /\ downloading' = TRUE /\ epo' = "queued"
    BY <1>2 DEF EpoInv, Has, Once
  <1> QED BY <1>1, <1>2 DEF TriggerEpo

LEMMA CrashEpo == Crash => EpoInv'
  BY DEF Crash, EpoInv, Has, Once

LEMMA EpoStep == TypeOK /\ EpoInv /\ [Next]_vars => EpoInv'
  <1> SUFFICES ASSUME TypeOK, EpoInv, [Next]_vars PROVE EpoInv'
    OBVIOUS
  <1>1. CASE ClientRequest
    BY <1>1, EpoTriggered
       DEF ClientRequest, HalRequest, HalStart, HalInit, HalDeleteAidingData,
           HalUpdateNetworkState, ClientStart, ClientStop, FlpStart, FlpStop, ClientReboot, AgpsReset
  <1>2. CASE MainEpoDone
    <2>1. mainq # <<>> /\ Head(mainq) = "EPO_DONE" /\ mainq' = Tail(mainq) /\ UNCHANGED epo
      BY <1>2 DEF MainEpoDone, MainRecv
    <2>2. Has(mainq, "EPO_DONE") /\ ~Has(mainq', "EPO_DONE") /\ Once(mainq', "EPO_DONE")
      BY <2>1, TailFacts, SocketTypes DEF EpoInv
    <2> QED BY <2>1, <2>2 DEF EpoInv
  <1>3. CASE (MainThread /\ ~MainEpoDone) \/ MainHandlerTimeout
    BY <1>3, EpoReceived, CrashEpo
       DEF MainThread, MainStartDone, MainStopDone, MainResetDone, MainNmeaTimeout,
           MainHandlerTimeout, MainRecv
  <1>4. CASE GpsStopped \/ GpsDeleteAidingData
    BY <1>4, EpoSent DEF GpsStopped, GpsDeleteAidingData, otherVars, MainEvents
  <1>5. CASE GpsThread /\ ~GpsStopped /\ ~GpsDeleteAidingData
    BY <1>5, EpoMainSame, CrashEpo
       DEF GpsThread, GpsRecvStart, GpsRun, GpsStartFails, GpsStarted, GpsRecvStop,
           GpsStopFails, GpsNmeaData, GpsHandlerTimeout, otherVars
  <1>6. CASE MnlStartReq \/ MnlRestartReq \/ NmeaTimeout
    BY <1>6, EpoSent DEF MnlStartReq, MnlRestartReq, NmeaTimeout, MainEvents
  <1>7. CASE EpoRecv
    BY <1>7 DEF EpoRecv, EpoInv, Has, Once
  <1>8. CASE EpoDone
    <2>1. /\ epo = "busy" /\ epo' = "none" /\ mainq' = Send(mainq, "EPO_DONE")
          /\ UNCHANGED downloading
      BY <1>8 DEF EpoDone
    <2>2. downloading /\ ~Has(mainq, "EPO_DONE")
      BY <2>1 DEF EpoInv
    <2>3. Once(mainq', "EPO_DONE")
      BY <2>1, <2>2, SendOnce, SocketTypes DEF EpoInv, MainEvents
    <2> QED BY <2>1, <2>2, <2>3 DEF EpoInv
  <1>9. CASE \/ MnlNotify \/ Restart \/ HalWakelock \/ HalDies
            \/ \E t \in Timers : Expire(t) \/ TimeoutCrash(t)
    BY <1>9, EpoMainSame, CrashEpo
       DEF MnlNotify, Restart, Expire, TimeoutCrash, otherVars, HalWakelock, HalDies, otherThanHal
  <1>10. CASE UNCHANGED vars
    BY <1>10, EpoMainSame DEF vars
  <1> QED BY <1>1, <1>2, <1>3, <1>4, <1>5, <1>6, <1>7, <1>8, <1>9, <1>10, NextThreads
          DEF OtherThreads, Callback

(* epo_downloader_start() never starts a second download: while one is       *)
(* ordered, runs or has its result on the way, is_epo_downloading is set.    *)
THEOREM OneDownloadAtATime == Spec => []OneDownload
  <1>1. Init => EpoInv
    BY DEF Init, EpoInv, Has, Once
  <1>2. TypeOK /\ EpoInv /\ [Next]_vars => (TypeOK /\ EpoInv)'
    BY TypeStep, EpoStep
  <1>3. EpoInv => OneDownload
    BY DEF EpoInv, OneDownload, Has
  <1> QED BY <1>1, <1>2, <1>3, TypeInit, PTL DEF Spec

=============================================================================
