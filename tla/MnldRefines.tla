----------------------------- MODULE MnldRefines -----------------------------
(***************************************************************************)
(* Mnld implements GpsService: whatever the threads, timers and crashes of *)
(* the daemon do, its users see a service that keeps its promise.          *)
(***************************************************************************)
EXTENDS MnldSafety

-----------------------------------------------------------------------------
(* What the users see of the registry. *)

Seen(cl) == [c \in Clients |-> View(cl[c])]

LEMMA ViewCases ==
    ASSUME NEW r \in Records
    PROVE  /\ r.need_open_ack => View(r) = "opening"
           /\ ~r.need_open_ack /\ r.gps_used => View(r) = "open"
           /\ ~r.need_open_ack /\ ~r.gps_used /\ r.need_close_ack => View(r) = "closing"
           /\ ~r.need_open_ack /\ ~r.gps_used /\ ~r.need_close_ack => View(r) = "closed"
  BY DEF View, Records

(* A request changes what its user sees, and nobody else. *)
LEMMA SetSeen ==
    ASSUME TypeOK, NEW c \in Clients
    PROVE  /\ Seen(Set(c, Opening(c)))
                = [Seen(client) EXCEPT ![c] = IF c \in AckUsers THEN "opening" ELSE "open"]
           /\ Seen(Set(c, Closing(c)))
                = [Seen(client) EXCEPT ![c] = IF c \in AckUsers THEN "closing" ELSE "closed"]
           /\ Seen(Set(c, Closed)) = [Seen(client) EXCEPT ![c] = "closed"]
  <1>1. /\ Opening(c) \in Records /\ Closing(c) \in Records /\ Closed \in Records
        /\ client \in Registry
    BY RegistryType
  <1>2. /\ View(Opening(c)) = IF c \in AckUsers THEN "opening" ELSE "open"
        /\ View(Closing(c)) = IF c \in AckUsers THEN "closing" ELSE "closed"
        /\ View(Closed) = "closed"
    <2>1. /\ Opening(c).need_open_ack = (c \in AckUsers) /\ Opening(c).gps_used
          /\ ~Closing(c).need_open_ack /\ ~Closing(c).gps_used
          /\ Closing(c).need_close_ack = (c \in AckUsers)
          /\ ~Closed.need_open_ack /\ ~Closed.gps_used /\ ~Closed.need_close_ack
      BY DEF Opening, Closing, Closed
    <2> QED BY <1>1, <2>1, ViewCases
  <1>3. ASSUME NEW r
        PROVE  Seen(Set(c, r)) = [Seen(client) EXCEPT ![c] = View(r)]
    BY <1>1 DEF Seen, Set, Registry
  <1> QED BY <1>2, <1>3

(* The answers change what those see who wait for them. *)
LEMMA AckedSeen ==
    ASSUME NEW cl \in Registry, Owed(cl)
    PROVE  /\ Seen(OpenAcked(cl))
                = [d \in Clients |-> IF Seen(cl)[d] = "opening" THEN "open" ELSE Seen(cl)[d]]
           /\ Seen(CloseAcked(cl))
                = [d \in Clients |-> IF Seen(cl)[d] = "closing" THEN "closed" ELSE Seen(cl)[d]]
  <1>1. ASSUME NEW d \in Clients
        PROVE  /\ cl[d] \in Records
               /\ cl[d].need_open_ack => cl[d].gps_used
               /\ cl[d].need_close_ack => ~cl[d].gps_used
    BY DEF Registry, Owed
  <1>2. ASSUME NEW r \in Records, r.need_open_ack => r.gps_used, r.need_close_ack => ~r.gps_used
        PROVE  /\ View([r EXCEPT !.need_open_ack = FALSE])
                    = IF View(r) = "opening" THEN "open" ELSE View(r)
               /\ View([r EXCEPT !.need_close_ack = FALSE])
                    = IF View(r) = "closing" THEN "closed" ELSE View(r)
    <2> DEFINE o == [r EXCEPT !.need_open_ack = FALSE]
               k == [r EXCEPT !.need_close_ack = FALSE]
    <2>1. /\ o \in Records /\ ~o.need_open_ack /\ o.gps_used = r.gps_used
          /\ o.need_close_ack = r.need_close_ack
          /\ k \in Records /\ k.need_open_ack = r.need_open_ack /\ k.gps_used = r.gps_used
          /\ ~k.need_close_ack
      BY DEF Records
    <2> HIDE DEF o, k
    <2>2. View(o) = IF View(r) = "opening" THEN "open" ELSE View(r)
      BY <1>2, <2>1, ViewCases
    <2>3. View(k) = IF View(r) = "closing" THEN "closed" ELSE View(r)
      BY <1>2, <2>1, ViewCases
    <2> QED BY <2>2, <2>3 DEF o, k
  <1> QED BY <1>1, <1>2 DEF Seen, OpenAcked, CloseAcked

(* Who uses the receiver sees it open or opening. *)
LEMMA UsedSeen ==
    ASSUME NEW cl \in Registry, Owed(cl)
    PROVE  ClientExists(cl) <=> \E d \in Clients : Seen(cl)[d] \in {"opening", "open"}
  <1>1. ASSUME NEW d \in Clients
        PROVE  cl[d].gps_used <=> View(cl[d]) \in {"opening", "open"}
    <2>1. cl[d] \in Records /\ (cl[d].need_open_ack => cl[d].gps_used)
      BY DEF Registry, Owed
    <2>2. cl[d].gps_used \in BOOLEAN /\ cl[d].need_open_ack \in BOOLEAN /\ cl[d].need_close_ack \in BOOLEAN
      BY <2>1 DEF Records
    <2> QED BY <2>1, <2>2, ViewCases
  <1> QED BY <1>1 DEF ClientExists, Seen

-----------------------------------------------------------------------------
(* A session that has started has a library that runs, or that was taken     *)
(* down again after it had reported for duty; a stop clears up after both.   *)
(* And a user of a session that has not started waits for it.                *)

Ran == mnl \/ broken

EngineOn ==
    /\ gps_state = "STARTED" => Ran
    /\ gps_state = "STARTING" /\ Has(mainq, "START_DONE") => Ran
    /\ Has(mainq, "STOP_DONE") => ~broken

Waits(cl) == \A c \in Clients \cap AckUsers : cl[c].gps_used => cl[c].need_open_ack

UsersWait == gps_state # "STARTED" => Waits(client)

(* Requests and answers do not end a wait early. *)
LEMMA WaitsKept ==
    ASSUME NEW cl \in Registry, Waits(cl)
    PROVE  Waits(CloseAcked(cl))
  BY DEF Registry, Records, Waits, CloseAcked

LEMMA SetWaits ==
    ASSUME TypeOK, Waits(client), NEW c
    PROVE  Waits(Set(c, Opening(c))) /\ Waits(Set(c, Closing(c))) /\ Waits(Set(c, Closed))
  <1>1. /\ client \in Registry
        /\ Opening(c).need_open_ack = (c \in AckUsers)
        /\ ~Closing(c).gps_used /\ ~Closed.gps_used
    BY RegistryType DEF Opening, Closing, Closed
  <1> QED BY <1>1 DEF Waits, Set, Registry

LEMMA GoneWaits ==
    ASSUME NEW cl, AllClientsExit(cl)
    PROVE  Waits(cl)
  BY DEF AllClientsExit, Waits

LEMMA EventStartWaits ==
    ASSUME TypeOK, UsersWait, NEW c, NEW ofl, EventStart(Set(c, Opening(c)), ofl)
    PROVE  UsersWait'
  <1>1. CASE gps_state # "STARTED"
    <2>1. Waits(Set(c, Opening(c)))
      BY <1>1, SetWaits DEF UsersWait
    <2>2. client' = Set(c, Opening(c))
      BY <1>1 DEF EventStart, StartsNow
    <2> QED BY <2>1, <2>2 DEF UsersWait, Waits
  <1>2. CASE gps_state = "STARTED"
    BY <1>2 DEF EventStart, StartsNow, UsersWait
  <1> QED BY <1>1, <1>2

LEMMA EventStopWaits ==
    ASSUME TypeOK, NEW cl \in Registry, gps_state # "STARTED" => Waits(cl),
           NEW ra, EventStop(cl, ra)
    PROVE  UsersWait'
  <1>1. CASE gps_state # "STARTED"
    <2>1. Waits(cl) /\ Waits(CloseAcked(cl))
      BY <1>1, WaitsKept
    <2>2. client' \in {cl, CloseAcked(cl)}
      BY <1>1 DEF EventStop
    <2> QED BY <2>1, <2>2 DEF UsersWait, Waits
  <1>2. CASE gps_state = "STARTED" /\ ~StopsNow(cl)
    BY <1>2 DEF EventStop, StopsNow, UsersWait
  <1>3. CASE StopsNow(cl)
    <2>1. client' = cl /\ AllClientsExit(cl)
      BY <1>3 DEF EventStop, StopsNow
    <2> QED BY <2>1, GoneWaits DEF UsersWait, Waits
  <1> QED BY <1>1, <1>2, <1>3

LEMMA StartDoneWaits ==
    ASSUME TypeOK, UsersWait, EventStartDone
    PROVE  UsersWait'
  <1>1. CASE UNCHANGED fsmVars
    BY <1>1 DEF fsmVars, clientVars, UsersWait, Waits
  <1>2. CASE gps_state' = "STARTED"
    BY <1>2 DEF UsersWait
  <1>3. CASE AllClientsExit(client) /\ client' = OpenAcked(client)
    <2>1. client \in Registry
      BY RegistryType
    <2>2. AllClientsExit(OpenAcked(client))
      BY <1>3, <2>1 DEF AllClientsExit, OpenAcked, Registry, Records
    <2> QED BY <1>3, <2>2, GoneWaits DEF UsersWait, Waits
  <1> QED BY <1>1, <1>2, <1>3 DEF EventStartDone, RunOrStop

LEMMA StopDoneWaits ==
    ASSUME TypeOK, UsersWait, gps_state = "STOPPING", EventStopDone
    PROVE  UsersWait'
  <1>1. Waits(CloseAcked(client))
    BY WaitsKept, RegistryType DEF UsersWait
  <1>2. client' = CloseAcked(client)
    BY DEF EventStopDone
  <1> QED BY <1>1, <1>2 DEF UsersWait, Waits

LEMMA SameWaits ==
    ASSUME UsersWait, UNCHANGED <<gps_state, client>>
    PROVE  UsersWait'
  BY DEF UsersWait, Waits

LEMMA CrashWaits == Crash => UsersWait'
  BY DEF Crash, UsersWait, Waits, Closed

LEMMA WaitsStep == TypeOK /\ UsersWait /\ [Next]_vars => UsersWait'
  <1> SUFFICES ASSUME TypeOK, UsersWait, [Next]_vars PROVE UsersWait'
    OBVIOUS
  <1> USE DEF fsmVars, clientVars, otherVars
  <1>1. ASSUME NEW c, NEW ra, EventStop(Set(c, Closing(c)), ra) \/ EventStop(Set(c, Closed), ra)
        PROVE  UsersWait'
    <2>1. Set(c, Closing(c)) \in Registry /\ Set(c, Closed) \in Registry
      BY RegistryType
    <2>2. gps_state # "STARTED" => Waits(Set(c, Closing(c))) /\ Waits(Set(c, Closed))
      BY SetWaits DEF UsersWait
    <2> QED BY <1>1, <2>1, <2>2, EventStopWaits
  <1>2. CASE HalRequest
    BY <1>2, EventStartWaits, SameWaits
       DEF HalRequest, HalStart, HalInit, HalDeleteAidingData, HalUpdateNetworkState, EventReset
  <1>3. ASSUME NEW c, ClientStart(c) \/ ClientStop(c) \/ ClientReboot(c)
        PROVE  UsersWait'
    BY <1>1, <1>3, EventStartWaits DEF ClientStart, ClientStop, ClientReboot
  <1>4. ASSUME NEW mode, FlpStart(mode) \/ FlpStop(mode)
        PROVE  UsersWait'
    BY <1>1, <1>4, EventStartWaits DEF FlpStart, FlpStop
  <1>5. CASE AgpsReset
    BY <1>5, SameWaits DEF AgpsReset, EventReset
  <1>6. CASE MainStartDone \/ MainStopDone
    BY <1>6, StartDoneWaits, StopDoneWaits, SameWaits, CrashWaits DEF MainStartDone, MainStopDone
  <1>7. CASE MainNmeaTimeout
    <2> DEFINE cl == [c \in Clients |-> [client[c] EXCEPT !.gps_used = FALSE]]
    <2>1. CASE gps_state = "STARTED" /\ EventStop(cl, need_reset_ack)
      <3>1. cl \in Registry
        BY RegistryType
      <3> HIDE DEF cl
      <3> QED BY <2>1, <3>1, EventStopWaits
    <2>2. CASE UNCHANGED fsmVars
      BY <2>2, SameWaits
    <2> QED BY <1>7, <2>1, <2>2 DEF MainNmeaTimeout
  <1>8. CASE MainResetDone \/ MainEpoDone \/ MainHandlerTimeout
    BY <1>8, SameWaits, CrashWaits DEF MainResetDone, MainEpoDone, MainHandlerTimeout
  <1>9. CASE GpsThread
    BY <1>9, CrashWaits, SameWaits
       DEF GpsThread, GpsRecvStart, GpsRun, GpsStartFails, GpsStarted, GpsRecvStop, GpsStopped,
           GpsStopFails, GpsDeleteAidingData, GpsNmeaData, GpsHandlerTimeout
  <1>10. CASE OtherThreads
    BY <1>10, CrashWaits, SameWaits
       DEF OtherThreads, MnlStartReq, MnlNotify, MnlRestartReq, EpoRecv, EpoDone,
           HalWakelock, HalDies, otherThanHal,
           Expire, Callback, TimeoutCrash, NmeaTimeout, Restart
  <1>11. CASE UNCHANGED vars
    BY <1>11, SameWaits DEF vars
  <1> QED BY <1>2, <1>3, <1>4, <1>5, <1>6, <1>7, <1>8, <1>9, <1>10, <1>11, NextThreads
          DEF ClientRequest, MainThread

-----------------------------------------------------------------------------
(* The receiver of a session that has started has been switched on: a start  *)
(* report is only read while what made it has not been stopped.              *)

LEMMA SameEngine ==
    ASSUME EngineOn, UNCHANGED <<gps_state, mnl, broken, mainq>>
    PROVE  EngineOn'
  BY DEF EngineOn, Ran, Has

LEMMA CrashEngine == Crash => EngineOn'
  BY DEF Crash, EngineOn, Has

(* Another datagram in the socket changes nothing... *)
LEMMA EngineSent ==
    ASSUME TypeOK, EngineOn, NEW m \in MainEvents \ {"START_DONE", "STOP_DONE"},
           mainq' = Send(mainq, m), UNCHANGED <<gps_state, mnl, broken>>
    PROVE  EngineOn'
  <1>1. /\ Has(mainq', "START_DONE") => Has(mainq, "START_DONE")
        /\ Has(mainq', "STOP_DONE") => Has(mainq, "STOP_DONE")
    BY SendHas, SocketTypes
  <1> QED BY <1>1 DEF EngineOn, Ran

(* ... nor does one less. *)
LEMMA EngineReceived ==
    ASSUME TypeOK, EngineOn, mainq # <<>>, mainq' = Tail(mainq), UNCHANGED <<mnl, broken>>,
           gps_state' \in {gps_state, "STOPPING", "IDLE"}
    PROVE  EngineOn'
  <1>1. /\ Has(mainq', "START_DONE") => Has(mainq, "START_DONE")
        /\ Has(mainq', "STOP_DONE") => Has(mainq, "STOP_DONE")
    BY TailFacts, SocketTypes
  <1> QED BY <1>1 DEF EngineOn, Ran

(* A request starts the session with no report of an older one left. *)
LEMMA EngineRequested ==
    ASSUME Handshakes, EngineOn, UNCHANGED <<mnl, broken, mainq>>,
           \/ \E cl, ofl : EventStart(cl, ofl)
           \/ \E cl, ra : EventStop(cl, ra)
           \/ \E ra, fl : EventReset(ra, fl)
    PROVE  EngineOn'
  <1>1. CASE UNCHANGED gps_state
    BY <1>1, SameEngine
  <1>2. CASE gps_state = "IDLE" /\ gps_state' = "STARTING"
    BY <1>2 DEF Handshakes, StartHandshake, Quiet, EngineOn, Ran, Has
  <1>3. CASE gps_state' = "STOPPING"
    BY <1>3 DEF EngineOn, Has
  <1> QED BY <1>1, <1>2, <1>3
          DEF EventStart, StartsNow, StartGps, EventStop, StopGps, EventReset

LEMMA EngineStartDone ==
    ASSUME TypeOK, EngineOn, MainStartDone
    PROVE  EngineOn'
  <1>1. /\ mainq # <<>> /\ Head(mainq) = "START_DONE" /\ mainq' = Tail(mainq)
        /\ UNCHANGED <<mnl, broken>>
    BY DEF MainStartDone, MainRecv, gpsVars
  <1>2. /\ Has(mainq, "START_DONE")
        /\ Has(mainq', "STOP_DONE") => Has(mainq, "STOP_DONE")
    BY <1>1, TailFacts, SocketTypes
  <1>3. CASE gps_state = "STARTING"
    <2>1. Ran /\ gps_state' \in {"STARTED", "STOPPING"}
      BY <1>2, <1>3 DEF EngineOn, MainStartDone, EventStartDone, RunOrStop, StopGps
    <2> QED BY <1>1, <1>2, <2>1 DEF EngineOn, Ran
  <1>4. CASE gps_state # "STARTING"
    <2>1. UNCHANGED gps_state
      BY <1>4 DEF MainStartDone, EventStartDone, fsmVars
    <2> QED BY <1>1, <2>1, EngineReceived
  <1> QED BY <1>3, <1>4

LEMMA EngineStopDone ==
    ASSUME TypeOK, Handshakes, EngineOn, MainStopDone
    PROVE  EngineOn'
  <1>1. mainq # <<>> /\ Head(mainq) = "STOP_DONE" /\ Has(mainq, "STOP_DONE")
    BY TailFacts, SocketTypes DEF MainStopDone, MainRecv
  <1>2. gps_state = "STOPPING" /\ LastIsStop(mainq)
    BY <1>1 DEF Handshakes, StopHandshake
  <1>3. mainq' = Tail(mainq) /\ gps_state' \in {"STARTING", "IDLE"}
    BY <1>2 DEF MainStopDone, EventStopDone, Reopen, StartGps, GoIdle
  <1>4. /\ ~Has(mainq', "START_DONE")
        /\ Has(mainq', "STOP_DONE") => Has(mainq, "STOP_DONE")
    BY <1>1, <1>2, <1>3, TailFacts, SocketTypes
  <1>5. UNCHANGED broken
    BY <1>2 DEF MainStopDone, gpsVars
  <1> QED BY <1>3, <1>4, <1>5 DEF EngineOn

LEMMA EngineGps ==
    ASSUME TypeOK, Handshakes, EngineOn, GpsThread
    PROVE  EngineOn'
  <1>1. CASE GpsRecvStart \/ GpsStartFails \/ GpsRecvStop \/ GpsNmeaData
    BY <1>1, SameEngine
       DEF GpsRecvStart, GpsStartFails, GpsRecvStop, GpsNmeaData, otherVars, gpsVars
  <1>2. CASE GpsRun \/ GpsStarted
    <2>1. /\ (mnl' \/ broken') /\ UNCHANGED <<gps_state, mainq>>
          /\ gps_pc # "wait"
      BY <1>2 DEF GpsRun, GpsStarted, otherVars
    <2>2. ~Has(mainq, "STOP_DONE")
      BY <2>1 DEF Handshakes, StopHandshake
    <2>3. ~Has(mainq', "STOP_DONE")
      BY <2>1, <2>2
    <2> QED BY <2>1, <2>3 DEF EngineOn, Ran
  <1>3. CASE GpsStopped \/ GpsStopFails
    <2>1. gps_state = "STOPPING" /\ UNCHANGED gps_state /\ broken' = FALSE
      BY <1>3 DEF GpsStopped, GpsStopFails, Handshakes, StopHandshake, otherVars
    <2> QED BY <2>1 DEF EngineOn
  <1>4. CASE GpsDeleteAidingData
    BY <1>4, EngineSent DEF GpsDeleteAidingData, otherVars, gpsVars, MainEvents
  <1>5. CASE GpsHandlerTimeout
    BY <1>5, CrashEngine DEF GpsHandlerTimeout
  <1> QED BY <1>1, <1>2, <1>3, <1>4, <1>5 DEF GpsThread

LEMMA EngineStep ==
    ASSUME TypeOK, Handshakes, EngineOn, [Next]_vars
    PROVE  EngineOn'
  <1> USE DEF gpsVars
  <1>1. CASE ClientRequest
    BY <1>1, EngineRequested, SameEngine
       DEF ClientRequest, HalRequest, HalStart, HalInit, HalDeleteAidingData,
           HalUpdateNetworkState, ClientStart, ClientStop, FlpStart, FlpStop, ClientReboot,
           AgpsReset, fsmVars
  <1>2. CASE MainResetDone \/ MainEpoDone
    BY <1>2, EngineReceived DEF MainResetDone, MainEpoDone, MainRecv, fsmVars
  <1>3. CASE MainNmeaTimeout
    <2>1. gps_state' \in {gps_state, "STOPPING", "IDLE"}
      BY <1>3 DEF MainNmeaTimeout, EventStop, StopGps, fsmVars
    <2> QED BY <1>3, <2>1, EngineReceived DEF MainNmeaTimeout, MainRecv
  <1>4. CASE MainHandlerTimeout
    BY <1>4, CrashEngine DEF MainHandlerTimeout
  <1>5. CASE OtherThreads
    <2>1. CASE MnlStartReq
      <3>1. Has(mainq', "STOP_DONE") => Has(mainq, "STOP_DONE")
        BY <2>1, SendHas, SocketTypes DEF MnlStartReq, MainEvents
      <3> QED BY <2>1, <3>1 DEF MnlStartReq, EngineOn, Ran, fsmVars
    <2>2. CASE MnlRestartReq \/ EpoDone \/ NmeaTimeout
      BY <2>2, EngineSent DEF MnlRestartReq, EpoDone, NmeaTimeout, MainEvents, fsmVars
    <2>3. CASE \/ MnlNotify \/ EpoRecv \/ HalWakelock \/ HalDies \/ Restart
               \/ \E t \in Timers : Expire(t) \/ TimeoutCrash(t)
      BY <2>3, SameEngine, CrashEngine
         DEF MnlNotify, EpoRecv, HalWakelock, HalDies, otherThanHal, Restart, Expire,
             TimeoutCrash, fsmVars, otherVars
    <2> QED BY <1>5, <2>1, <2>2, <2>3 DEF OtherThreads, Callback
  <1>6. CASE UNCHANGED vars
    BY <1>6, SameEngine DEF vars, fsmVars
  <1> QED BY <1>1, <1>2, <1>3, <1>4, <1>5, <1>6, EngineStartDone, EngineStopDone, EngineGps,
             NextThreads DEF MainThread

-----------------------------------------------------------------------------
(* The refinement, step by step. *)

Good == TypeOK /\ Handshakes /\ ClientsInv /\ EngineOn /\ UsersWait

ServiceVars == <<Seen(client), Engine>>

(* Only the GPS control thread changes what the users know of the receiver:  *)
(* when it switches it, and when it is done with a start.                    *)
LEMMA EngineCases ==
    /\ Engine = "off" <=> ~Ran
    /\ ~mnl => Engine \in {"off", "broken"}
    /\ mnl /\ gps_pc = "signal" => Engine = "warming"
  BY DEF Engine, Ran

LEMMA SameSwitch ==
    ASSUME UNCHANGED <<mnl, broken>>, gps_pc = "signal" <=> gps_pc' = "signal"
    PROVE  UNCHANGED Engine
  BY DEF Engine

LEMMA GoodFacts ==
    ASSUME Good
    PROVE  /\ client \in Registry /\ Owed(client)
           /\ gps_state = "STARTED" => Known(client) /\ Engine # "off"
           /\ gps_state = "IDLE" => client = AllClosed
  BY RegistryType, ClientsInvDef, EngineCases DEF Good, EngineOn

(* HalStart, ClientStart and FlpStart open a session, or ask for it. *)
LEMMA StartRefines ==
    ASSUME Good, NEW c \in Clients, NEW ofl, EventStart(Set(c, Opening(c)), ofl),
           UNCHANGED Engine
    PROVE  Service!Open(c)
  <1>2. CASE client' = Set(c, Opening(c))
    <2>1. Seen(client') = [Seen(client) EXCEPT ![c] = IF c \in AckUsers THEN "opening" ELSE "open"]
      BY <1>2, SetSeen DEF Good
    <2> QED BY <2>1 DEF Service!Open, Seen
  <1>3. CASE gps_state = "STARTED" /\ client' = OpenAcked(Set(c, Opening(c)))
    <2>1. Set(c, Opening(c)) \in Registry /\ Owed(Set(c, Opening(c)))
      BY RegistryType, RequestOwed DEF Good
    <2>2. /\ Seen(Set(c, Opening(c)))
                = [Seen(client) EXCEPT ![c] = IF c \in AckUsers THEN "opening" ELSE "open"]
          /\ Seen(client') = [d \in Clients |-> IF Seen(Set(c, Opening(c)))[d] = "opening"
                                                THEN "open" ELSE Seen(Set(c, Opening(c)))[d]]
      BY <1>3, <2>1, SetSeen, AckedSeen DEF Good
    <2>3. \A d \in Clients : Seen(client)[d] # "opening"
      <3>1. ASSUME NEW d \in Clients
            PROVE  client[d] \in Records /\ ~client[d].need_open_ack
        BY <1>3, GoodFacts DEF Known, Registry
      <3> QED BY <3>1, ViewCases DEF Seen, Records
    <2>4. Seen(client') = [Seen(client) EXCEPT ![c] = "open"]
      <3> DEFINE v == Seen(client)
                 w == [v EXCEPT ![c] = IF c \in AckUsers THEN "opening" ELSE "open"]
      <3>1. v = [d \in Clients |-> v[d]]
        BY DEF Seen
      <3>2. \A d \in Clients : v[d] # "opening"
        BY <2>3
      <3>3. Seen(client') = [d \in Clients |-> IF w[d] = "opening" THEN "open" ELSE w[d]]
        BY <2>2
      <3> HIDE DEF v
      <3> QED BY <3>1, <3>2, <3>3 DEF v
    <2>5. Engine # "off"
      BY <1>3, GoodFacts
    <2> QED BY <2>4, <2>5 DEF Service!Open, Seen
  <1> QED BY <1>2, <1>3 DEF EventStart

(* ClientStop, FlpStop and ClientReboot give a session up: r is what is left *)
(* of it.  The answer comes at once when nothing runs or others go on.       *)
LEMMA StopRefines ==
    ASSUME Good, NEW c \in Clients, NEW r \in {Closing(c), Closed}, NEW ra,
           EventStop(Set(c, r), ra), UNCHANGED Engine
    PROVE  \/ UNCHANGED ServiceVars
           \/ Service!Close(c) \/ Service!Forget(c) \/ Service!AnswerClose({c})
  <1> DEFINE cl == Set(c, r)
             to == IF r = Closed THEN "closed" ELSE IF c \in AckUsers THEN "closing" ELSE "closed"
  <1>1. cl \in Registry /\ Owed(cl)
    BY RegistryType, RequestOwed DEF Good
  <1>2. Seen(cl) = [Seen(client) EXCEPT ![c] = to]
    BY SetSeen DEF Good
  <1>3. CASE client' = cl
    <2>1. r = Closing(c) => Service!Close(c) \/ Service!Forget(c)
      BY <1>2, <1>3 DEF Service!Close, Service!Forget, Seen
    <2>2. r = Closed => Service!Forget(c)
      BY <1>2, <1>3 DEF Service!Forget, Seen
    <2> QED BY <2>1, <2>2
  <1>4. CASE client' = CloseAcked(cl)
    <2>1. Seen(client') = [d \in Clients |-> IF Seen(cl)[d] = "closing" THEN "closed" ELSE Seen(cl)[d]]
      BY <1>1, <1>4, AckedSeen
    <2>2. Seen(client') = [d \in Clients |-> IF d \in {c} \/ Seen(client)[d] = "closing"
                                            THEN "closed" ELSE Seen(client)[d]]
      <3> DEFINE v == Seen(client)
                 w == [v EXCEPT ![c] = to]
      <3>1. v = [d \in Clients |-> v[d]]
        BY DEF Seen
      <3>2. Seen(client') = [d \in Clients |-> IF w[d] = "closing" THEN "closed" ELSE w[d]]
        BY <1>2, <2>1
      <3>3. to \in {"closing", "closed"}
        OBVIOUS
      <3> HIDE DEF v, to
      <3>4. ASSUME NEW d \in Clients
            PROVE  (IF w[d] = "closing" THEN "closed" ELSE w[d])
                     = (IF d \in {c} \/ v[d] = "closing" THEN "closed" ELSE v[d])
        BY <3>1, <3>3
      <3> QED BY <3>2, <3>4 DEF v
    <2>3. CASE gps_state = "IDLE"
      <3>1. client = AllClosed
        BY <2>3, GoodFacts
      <3>2. \A d \in Clients : Seen(client)[d] = "closed"
        <4>1. Closed \in Records /\ ~Closed.need_open_ack /\ ~Closed.gps_used /\ ~Closed.need_close_ack
          BY RegistryType DEF Good, Closed
        <4> QED BY <3>1, <4>1, ViewCases DEF Seen, AllClosed
      <3>3. Seen(client') = Seen(client)
        <4> DEFINE v == Seen(client)
        <4>1. v = [d \in Clients |-> v[d]]
          BY DEF Seen
        <4> HIDE DEF v
        <4> QED BY <2>2, <3>2, <4>1 DEF v
      <3> QED BY <3>3 DEF ServiceVars, Seen
    <2>4. CASE gps_state # "IDLE"
      <3>1. CASE ~AllClientsExit(cl)
        <4>1. ClientExists(cl)
          BY <3>1 DEF ClientExists, AllClientsExit
        <4>2. PICK d \in Clients : Seen(cl)[d] \in {"opening", "open"}
          BY <1>1, <4>1, UsedSeen
        <4>3. Seen(client')[d] \in {"opening", "open"}
          BY <2>1, <4>2
        <4> QED BY <2>2, <4>3 DEF Service!AnswerClose, Service!Closed, Seen
      <3>2. CASE AllClientsExit(cl)
        <4>1. client' = cl
          BY <2>4, <3>2 DEF EventStop
        <4> QED BY <1>3, <4>1
      <3> QED BY <3>1, <3>2
    <2> QED BY <2>3, <2>4
  <1> QED BY <1>3, <1>4 DEF EventStop

(* fsm_gps_state_starting() answers every open request at once. *)
LEMMA StartDoneRefines ==
    ASSUME Good, MainStartDone
    PROVE  UNCHANGED ServiceVars \/ Service!AnswerOpen
  <1>1. CASE gps_state # "STARTING"
    BY <1>1 DEF MainStartDone, EventStartDone, fsmVars, clientVars, gpsVars, ServiceVars, Seen,
            Engine
  <1>2. CASE gps_state = "STARTING"
    <2>1. Has(mainq, "START_DONE")
      BY TailFacts, SocketTypes DEF Good, MainStartDone, MainRecv
    <2>2. Ran /\ UNCHANGED <<mnl, broken, gps_pc>> /\ client' = OpenAcked(client)
      BY <1>2, <2>1 DEF Good, EngineOn, MainStartDone, EventStartDone, gpsVars
    <2>3. Engine # "off" /\ UNCHANGED Engine
      BY <2>2, EngineCases, SameSwitch
    <2>4. Seen(client') = [d \in Clients |-> IF Seen(client)[d] = "opening"
                                            THEN "open" ELSE Seen(client)[d]]
      BY <2>2, GoodFacts, AckedSeen
    <2> QED BY <2>3, <2>4 DEF Service!AnswerOpen, Seen
  <1> QED BY <1>1, <1>2

(* fsm_gps_state_stopping() answers the close requests. *)
LEMMA StopDoneRefines ==
    ASSUME Good, MainStopDone
    PROVE  Service!AnswerClose({})
  <1>1. Has(mainq, "STOP_DONE")
    BY TailFacts, SocketTypes DEF Good, MainStopDone, MainRecv
  <1>2. gps_state = "STOPPING" /\ ~mnl /\ ~broken
    BY <1>1 DEF Good, EngineOn, Handshakes, StopHandshake
  <1>3. EventStopDone /\ UNCHANGED <<mnl, broken, gps_pc>>
    BY <1>2 DEF MainStopDone, gpsVars
  <1>4. Seen(client') = [d \in Clients |-> IF Seen(client)[d] = "closing"
                                          THEN "closed" ELSE Seen(client)[d]]
    BY <1>3, GoodFacts, AckedSeen DEF EventStopDone
  <1>5. Engine = "off" /\ UNCHANGED Engine
    BY <1>2, <1>3, EngineCases, SameSwitch DEF Ran
  <1> QED BY <1>4, <1>5 DEF Service!AnswerClose, Service!Closed, Seen

(* gps_mnld_restart_mnl_process(): every user loses its session. *)
LEMMA NmeaRefines ==
    ASSUME Good, MainNmeaTimeout
    PROVE  UNCHANGED ServiceVars \/ Service!ThrowOut
  <1> DEFINE cl == [c \in Clients |-> [client[c] EXCEPT !.gps_used = FALSE]]
  <1>1. CASE gps_state # "STARTED"
    BY <1>1 DEF MainNmeaTimeout, fsmVars, clientVars, gpsVars, ServiceVars, Seen, Engine
  <1>2. CASE gps_state = "STARTED"
    <2>1. EventStop(cl, need_reset_ack) /\ UNCHANGED Engine
      BY <1>2, SameSwitch DEF MainNmeaTimeout, gpsVars
    <2>2. ASSUME NEW d \in Clients
          PROVE  /\ cl[d] \in Records /\ client[d] \in Records
                 /\ ~cl[d].gps_used /\ ~cl[d].need_open_ack /\ ~client[d].need_open_ack
                 /\ cl[d].need_close_ack = client[d].need_close_ack
                 /\ client[d].need_close_ack => ~client[d].gps_used
      BY <1>2, GoodFacts DEF Registry, Records, Known, Owed
    <2>3. AllClientsExit(cl)
      BY <2>2 DEF AllClientsExit
    <2>4. client' = cl
      <3> HIDE DEF cl
      <3> QED BY <1>2, <2>1, <2>3 DEF EventStop
    <2>5. ASSUME NEW d \in Clients
          PROVE  View(cl[d]) = IF View(client[d]) \in {"opening", "open"}
                               THEN "closed" ELSE View(client[d])
      <3> HIDE DEF cl
      <3>1. client[d].gps_used \in BOOLEAN /\ client[d].need_close_ack \in BOOLEAN
        BY <2>2 DEF Records
      <3> QED BY <2>2, <3>1, ViewCases
    <2>6. Seen(client') = [d \in Clients |-> IF Seen(client)[d] \in {"opening", "open"}
                                            THEN "closed" ELSE Seen(client)[d]]
      <3> HIDE DEF cl
      <3> QED BY <2>4, <2>5 DEF Seen
    <2> QED BY <2>1, <2>4, <2>6 DEF Service!ThrowOut, Service!Used, Seen
  <1> QED BY <1>1, <1>2

LEMMA CrashRefines ==
    ASSUME Good, Crash
    PROVE  Service!Die
  <1>1. Closed \in Records /\ ~Closed.need_open_ack /\ ~Closed.gps_used /\ ~Closed.need_close_ack
    BY RegistryType DEF Good, Closed
  <1>2. View(Closed) = "closed"
    BY <1>1, ViewCases
  <1>3. Engine' = "off"
    BY DEF Crash, Engine
  <1> QED BY <1>2, <1>3 DEF Crash, Service!Die

(* The library is started when it does not run, and stopped when everybody   *)
(* whose session was open has been heard.                                    *)
LEMMA GpsRefines ==
    ASSUME Good, GpsThread
    PROVE  \/ UNCHANGED ServiceVars
           \/ Service!SwitchOn \/ Service!WarmedUp \/ Service!SwitchOff \/ Service!Die
  <1> USE DEF otherVars, clientVars
  <1>1. CASE GpsRun
    <2>1. ~mnl
      BY <1>1 DEF GpsRun, Good, Handshakes, StartHandshake, Quiet
    <2>2. Engine \in {"off", "broken"}
      BY <2>1, EngineCases
    <2>3. Engine' = "warming" /\ UNCHANGED client
      BY <1>1 DEF GpsRun, Engine
    <2> QED BY <2>2, <2>3 DEF Service!SwitchOn
  <1>2. CASE GpsStopped \/ GpsStopFails
    <2>1. /\ gps_state = "STOPPING" /\ mnl' = FALSE /\ broken' = FALSE /\ UNCHANGED client
      BY <1>2 DEF GpsStopped, GpsStopFails, Good, Handshakes, StopHandshake
    <2>2. ASSUME NEW d \in AckUsers
          PROVE  Seen(client)[d] # "open"
      <3>1. /\ d \in Clients /\ client[d] \in Records
            /\ client[d].gps_used => client[d].need_open_ack
        BY <2>1, GoodFacts, MnldAssumption
           DEF MnldAssumption, Good, UsersWait, Waits, Registry
      <3> QED BY <3>1, ViewCases DEF Seen, Records
    <2>3. Engine' = "off"
      BY <2>1 DEF Engine
    <2> QED BY <2>1, <2>2, <2>3 DEF Service!SwitchOff, Seen
  <1>3. CASE GpsStarted
    <2>1. mnl /\ gps_pc = "signal"
      BY <1>3 DEF GpsStarted, Good, Handshakes, StartHandshake
    <2>2. Engine = "warming"
      BY <2>1, EngineCases
    <2>3. gps_pc' = "wait" /\ (mnl' \/ broken') /\ UNCHANGED client
      BY <1>3 DEF GpsStarted
    <2>4. Engine' \in {"on", "broken"}
      BY <2>3 DEF Engine
    <2> QED BY <2>2, <2>3, <2>4 DEF Service!WarmedUp
  <1>4. CASE GpsHandlerTimeout
    BY <1>4, CrashRefines DEF GpsHandlerTimeout
  <1>5. CASE GpsThread /\ ~GpsRun /\ ~GpsStarted /\ ~GpsStopped /\ ~GpsStopFails
             /\ ~GpsHandlerTimeout
    <2>1. /\ UNCHANGED <<mnl, broken, client>>
          /\ gps_pc = "signal" <=> gps_pc' = "signal"
      BY <1>5 DEF GpsThread, GpsRecvStart, GpsStartFails, GpsRecvStop, GpsDeleteAidingData,
                  GpsNmeaData, GpsRecv, gpsVars
    <2> QED BY <2>1, SameSwitch DEF ServiceVars, Seen
  <1> QED BY <1>1, <1>2, <1>3, <1>4, <1>5

LEMMA RequestRefines ==
    ASSUME Good, ClientRequest
    PROVE  UNCHANGED ServiceVars \/ Service!Next
  <1> USE DEF fsmVars, clientVars, gpsVars
  <1>1. ASSUME NEW c \in Clients, NEW ofl, EventStart(Set(c, Opening(c)), ofl),
               UNCHANGED <<mnl, broken, gps_pc>>
        PROVE  Service!Next
    BY <1>1, StartRefines, SameSwitch DEF Service!Next
  <1>2. ASSUME NEW c \in Clients, NEW r \in {Closing(c), Closed}, NEW ra,
               EventStop(Set(c, r), ra), UNCHANGED <<mnl, broken, gps_pc>>
        PROVE  UNCHANGED ServiceVars \/ Service!Next
    BY <1>2, StopRefines, SameSwitch DEF Service!Next
  <1>3. CASE HAL \in Clients /\ HalRequest
    <2>1. CASE HalStart
      BY <1>1, <1>3, <2>1 DEF HalStart
    <2>2. CASE HalRequest /\ ~HalStart
      BY <2>2 DEF HalRequest, HalInit, HalDeleteAidingData, HalUpdateNetworkState, EventReset,
                  ServiceVars, Seen, Engine
    <2> QED BY <1>3, <2>1, <2>2
  <1>4. ASSUME NEW c \in Clients, ClientStart(c)
        PROVE  Service!Next
    BY <1>1, <1>4 DEF ClientStart
  <1>5. ASSUME NEW c \in Clients, ClientStop(c) \/ ClientReboot(c)
        PROVE  UNCHANGED ServiceVars \/ Service!Next
    BY <1>2, <1>5 DEF ClientStop, ClientReboot
  <1>6. ASSUME FLP \in Clients, NEW mode, FlpStart(mode)
        PROVE  Service!Next
    BY <1>1, <1>6 DEF FlpStart
  <1>7. ASSUME FLP \in Clients, NEW mode, FlpStop(mode)
        PROVE  UNCHANGED ServiceVars \/ Service!Next
    BY <1>2, <1>7 DEF FlpStop
  <1>8. CASE AgpsReset
    BY <1>8 DEF AgpsReset, EventReset, ServiceVars, Seen, Engine
  <1> QED BY <1>3, <1>4, <1>5, <1>6, <1>7, <1>8 DEF ClientRequest

LEMMA StepRefines ==
    ASSUME Good, [Next]_vars
    PROVE  [Service!Next]_(Service!vars)
  <1> USE DEF fsmVars, clientVars, gpsVars, otherVars
  <1>1. UNCHANGED ServiceVars => UNCHANGED Service!vars
    BY DEF ServiceVars, Service!vars, Seen
  <1>2. CASE MainThread \/ MainHandlerTimeout
    <2>1. MainResetDone \/ MainEpoDone => UNCHANGED ServiceVars
      BY DEF MainResetDone, MainEpoDone, ServiceVars, Seen, Engine
    <2>2. CASE MainHandlerTimeout
      BY <2>2, CrashRefines DEF MainHandlerTimeout, Service!Next
    <2> QED BY <1>1, <1>2, <2>1, <2>2, StartDoneRefines, StopDoneRefines, NmeaRefines
            DEF MainThread, Service!Next
  <1>3. CASE OtherThreads
    <2>1. CASE \E t \in Timers : TimeoutCrash(t)
      BY <2>1, CrashRefines DEF TimeoutCrash, Service!Next
    <2>2. CASE OtherThreads /\ ~\E t \in Timers : TimeoutCrash(t)
      <3>1. UNCHANGED ServiceVars
        <4>1. UNCHANGED <<client, mnl, broken, gps_pc>>
          BY <2>2 DEF OtherThreads, MnlStartReq, MnlNotify, MnlRestartReq, EpoRecv, EpoDone,
                      Expire, HalWakelock, HalDies, otherThanHal, Callback, NmeaTimeout, Restart
        <4> QED BY <4>1, SameSwitch DEF ServiceVars, Seen
      <3> QED BY <1>1, <3>1
    <2> QED BY <1>3, <2>1, <2>2
  <1>4. CASE GpsThread
    BY <1>1, <1>4, GpsRefines DEF Service!Next
  <1>5. CASE ClientRequest
    BY <1>1, <1>5, RequestRefines
  <1>6. CASE UNCHANGED vars
    BY <1>1, <1>6 DEF vars, ServiceVars, Seen, Engine
  <1> QED BY <1>2, <1>3, <1>4, <1>5, <1>6, NextThreads

LEMMA InitRefines == Init => Service!Init
  <1>1. Closed \in Records /\ ~Closed.need_open_ack /\ ~Closed.gps_used /\ ~Closed.need_close_ack
    BY DEF Closed, Records
  <1>2. View(Closed) = "closed"
    BY <1>1, ViewCases
  <1>3. Init => Engine = "off"
    BY DEF Init, Engine
  <1> QED BY <1>2, <1>3 DEF Init, Service!Init

(* Whatever its users do, whatever fails or is lost and however often the    *)
(* daemon dies, it keeps the promise of GpsService: a session is opened only *)
(* after the receiver was switched on and before it is switched off, nobody's *)
(* open session is switched off under it, and a close is answered when the   *)
(* receiver is off or used by others.                                        *)
THEOREM MnldKeepsPromise == Spec => KeepsPromise
  <1>1. Init => EngineOn /\ UsersWait
    BY DEF Init, EngineOn, Ran, UsersWait, Waits, Closed, Has
  <1>2. TypeOK /\ Handshakes /\ EngineOn /\ UsersWait /\ [Next]_vars
            => (EngineOn /\ UsersWait)'
    BY EngineStep, WaitsStep
  <1>3. Spec => [](EngineOn /\ UsersWait)
    BY <1>1, <1>2, TypeCorrect, HandshakesHold, PTL DEF Spec
  <1>4. TypeOK /\ Handshakes /\ ClientsInv /\ EngineOn /\ UsersWait /\ [Next]_vars
            => [Service!Next]_(Service!vars)
    BY StepRefines DEF Good
  <1> QED BY <1>3, <1>4, InitRefines, TypeCorrect, HandshakesHold, ClientsHold, PTL
          DEF Spec, KeepsPromise, Service!Spec

=============================================================================
