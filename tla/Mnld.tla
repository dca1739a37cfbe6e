-------------------------------- MODULE Mnld --------------------------------
(***************************************************************************)
(* The core of mnld, the MediaTek GPS daemon (src/mtk/gps/mtk_mnld): the   *)
(* main thread, which owns the session state machine and serves the users  *)
(* of the receiver (mnld.c), the GPS control thread, which starts and      *)
(* stops the MNL library (gps_controller.c), the two datagram sockets      *)
(* between them, the POSIX timers that watch over every transient state    *)
(* (mtk_lbs_utility.c) and the callbacks the MNL library makes from its    *)
(* own threads.  A process that dies is restarted by init with everything  *)
(* forgotten.  Two things outside it survive: the HAL's wakelock, which    *)
(* the daemon only asks for in datagrams (mnl2hal_interface.c), and the    *)
(* power switch in the kernel driver.                                      *)
(*                                                                         *)
(* The users are constants: HAL is the location framework, AGPS the        *)
(* assistance daemon; OffloadUsers are the ones served by the offloaded    *)
(* engine (FLP and its test); AckUsers are told when a session opens and   *)
(* closes, the others (the flp, AT and factory tests) are not.             *)
(*                                                                         *)
(* An operator no action uses (SendAlways, HalExit, ...) is a faulty       *)
(* variant of the definition that follows it: a slip in that code, which   *)
(* one of the properties below must tell from the code as it is.           *)
(***************************************************************************)
EXTENDS Naturals, Sequences

CONSTANTS
    Clients,        \* the users of the receiver
    HAL, AGPS, FLP, \* the users with a socket interface of their own
    AckUsers,       \* users that get open and close acknowledgements
    OffloadUsers,   \* GPS_USER_FLP and GPS_USER_OFL_TEST
    QLen,           \* datagrams a socket holds before a sender gives up
    HalQLen,        \* orders about the wakelock the HAL's socket holds; none
                    \* if the HAL has not bound it
    Flags,          \* aiding data a client may ask to delete: non-zero or not
    Modes,          \* offload modes an FLP request may carry
    Networks,       \* network reports the framework may make
    EpoStale,       \* may the EPO file need a download: TRUE, FALSE or both
    Faults          \* what may go wrong: the library calls "start", "signal"
                    \* and "stop"; "power", the switch refuses to go off; "hal",
                    \* the HAL dies or misses a datagram; and "main", a main
                    \* handler of ten seconds

ASSUME MnldAssumption ==
    /\ AckUsers \subseteq Clients
    /\ OffloadUsers \subseteq Clients
    /\ QLen \in Nat \ {0}
    /\ HalQLen \in Nat
    /\ Flags \subseteq BOOLEAN
    /\ Modes \subseteq BOOLEAN
    /\ Networks \subseteq [connected : BOOLEAN, wifi : BOOLEAN]
    /\ EpoStale \subseteq BOOLEAN /\ EpoStale # {}
    /\ Faults \subseteq {"start", "signal", "stop", "power", "hal", "main"}

VARIABLES
    alive,              \* is the process running
    gps_state,          \* g_mnld_ctx.gps_status.gps_state
    client,             \* g_mnld_ctx.gps_status.clients, by user
    need_reset_ack,     \* clients.agps.need_reset_ack
    delete_aiding_flag, \* is gps_status.delete_aiding_flag non-zero
    offload,            \* mnld_cfg.OFFLOAD_enabled
    downloading,        \* epo_status.is_epo_downloading
    epo,                \* the job of the EPO thread: none, queued or busy
    mainq, gpsq,        \* MNLD_MAIN_SOCKET and MNLD_GPS_CONTROL_SOCKET
    armed, expired,     \* timers running; timers whose callback is running
    gps_pc,             \* where the GPS control thread is
    mnl,                \* is the MNL library running
    broken,             \* (history) has its start been undone after it ran
    power,              \* the receiver's power switch (pwrctl): stuck when it
                        \* was told to go off and did not
    wakelock,           \* does the HAL hold the GPS wakelock
    halq,               \* orders about it that the HAL has not read
    missed              \* (history) has the HAL missed how the session last
                        \* began or ended

clientVars == <<client, need_reset_ack, delete_aiding_flag>>
halVars    == <<wakelock, halq, missed>>
fsmVars    == <<gps_state, clientVars, halVars, armed, gpsq>>
epoVars    == <<downloading, epo>>
gpsVars    == <<gps_pc, mnl, broken, power>>
vars == <<alive, fsmVars, offload, epoVars, mainq, expired, gpsVars>>

Timers == {"start", "stop", "reset", "nmea"}

Closed     == [gps_used |-> FALSE, need_open_ack |-> FALSE, need_close_ack |-> FALSE]
Opening(c) == [Closed EXCEPT !.gps_used = TRUE, !.need_open_ack = c \in AckUsers]

ClosingForgetful(c) == [client[c] EXCEPT !.gps_used = FALSE, !.need_close_ack = c \in AckUsers]
Closing(c) == [Closed EXCEPT !.need_close_ack = c \in AckUsers]

TypeOK ==
    /\ alive \in BOOLEAN
    /\ gps_state \in {"IDLE", "STARTING", "STARTED", "STOPPING"}
    /\ client \in [Clients -> [gps_used : BOOLEAN, need_open_ack : BOOLEAN,
                               need_close_ack : BOOLEAN]]
    /\ need_reset_ack \in BOOLEAN
    /\ delete_aiding_flag \in BOOLEAN
    /\ offload \in BOOLEAN
    /\ downloading \in BOOLEAN
    /\ epo \in {"none", "queued", "busy"}
    /\ mainq \in Seq({"START_DONE", "STOP_DONE", "RESET_DONE", "NMEA_TIMEOUT", "EPO_DONE"})
    /\ gpsq \in Seq({"START", "STOP", "DELETE_AIDING_DATA", "NMEA_DATA"})
    /\ Len(mainq) <= QLen /\ Len(gpsq) <= QLen
    /\ armed \subseteq Timers
    /\ expired \subseteq Timers
    /\ gps_pc \in {"wait", "start", "signal", "stop"}
    /\ mnl \in BOOLEAN
    /\ broken \in BOOLEAN
    /\ power \in {"off", "on", "stuck"}
    /\ wakelock \in BOOLEAN
    /\ halq \in Seq({"REQUEST", "RELEASE"}) /\ Len(halq) <= HalQLen
    /\ missed \in BOOLEAN

-----------------------------------------------------------------------------
(* Sockets: safe_sendto() retries for a second and then drops the datagram. *)

SendAlways(q, m) == Append(q, m)
Send(q, m) == IF Len(q) < QLen THEN Append(q, m) ELSE q

(* mnl2hal_request_wakelock() and mnl2hal_release_wakelock() do not look at   *)
(* the result: the HAL's socket may be full or not bound.                     *)
Tell(order) ==
    /\ \/ Len(halq) < HalQLen /\ halq' = Append(halq, order) /\ missed' = FALSE
       \/ (Len(halq) = HalQLen \/ "hal" \in Faults) /\ halq' = halq /\ missed' = TRUE
    /\ UNCHANGED wakelock

(* mnl_set_pwrctl(GPS_PWRCTL_OFF): every caller goes on when it fails. *)
SwitchedOff ==
    IF power = "off" THEN {"off"} ELSE {"off"} \cup {"stuck" : f \in Faults \cap {"power"}}

Init ==
    /\ alive = TRUE
    /\ gps_state = "IDLE"
    /\ client = [c \in Clients |-> Closed]
    /\ need_reset_ack = FALSE
    /\ delete_aiding_flag = FALSE
    /\ offload = FALSE
    /\ downloading = FALSE
    /\ epo = "none"
    /\ mainq = <<>>
    /\ gpsq = <<>>
    /\ armed = {}
    /\ expired = {}
    /\ gps_pc = "wait"
    /\ mnl = FALSE
    /\ broken = FALSE
    /\ power = "off"
    /\ wakelock = FALSE
    /\ halq = <<>>
    /\ missed = FALSE

(* CRASH_TO_DEBUG() writes through a null pointer: the process is killed and *)
(* what it knew is lost with it, datagrams and timers included.  The orders  *)
(* in the HAL's socket stay there, and nobody tells it that a session ended. *)
Crash ==
    /\ alive' = FALSE
    /\ gps_state' = "IDLE"
    /\ client' = [c \in Clients |-> Closed]
    /\ need_reset_ack' = FALSE
    /\ delete_aiding_flag' = FALSE
    /\ offload' = FALSE
    /\ downloading' = FALSE
    /\ epo' = "none"
    /\ mainq' = <<>>
    /\ gpsq' = <<>>
    /\ armed' = {}
    /\ expired' = {}
    /\ gps_pc' = "wait"
    /\ mnl' = FALSE
    /\ broken' = FALSE
    /\ missed' = (missed \/ gps_state # "IDLE")
    /\ UNCHANGED <<power, wakelock, halq>>

(* init starts the service again: main() puts the driver in its default      *)
(* state, powered off (mnl_init()), and announces itself to every client.    *)
Restart ==
    /\ ~alive
    /\ alive' = TRUE
    /\ power' \in SwitchedOff
    /\ UNCHANGED <<fsmVars, offload, epoVars, mainq, expired, gps_pc, mnl, broken>>

-----------------------------------------------------------------------------
(* The session state machine.  Each event is given the context as the      *)
(* handler that raises it has already changed it: cl the clients, ra the   *)
(* reset acknowledgement owed, fl the aiding flag, ofl the offload mode.   *)

(* is_a_gps_client_exist() *)
HalOnlyExists(cl) == HAL \in Clients /\ cl[HAL].gps_used
ClientExists(cl) == \E c \in Clients : cl[c].gps_used

(* is_all_gps_client_exit() *)
HalExit(cl) == HAL \in Clients => ~cl[HAL].gps_used
AllClientsExit(cl) == \A c \in Clients : ~cl[c].gps_used

(* Only offloaded users are left, and the engine runs without the host. *)
Bypassed(cl, ofl) == ofl /\ \A c \in Clients : cl[c].gps_used => c \in OffloadUsers

OpenNotAcked(cl) == cl
OpenAcked(cl)  == [c \in Clients |-> [cl[c] EXCEPT !.need_open_ack = FALSE]]

CloseNotAcked(cl) == cl
CloseAcked(cl) == [c \in Clients |-> [cl[c] EXCEPT !.need_close_ack = FALSE]]

StartGps(cl, ofl, timers) ==
    /\ gps_state' = "STARTING"
    /\ armed' = IF Bypassed(cl, ofl) THEN timers ELSE timers \cup {"start"}
    /\ gpsq' = Send(gpsq, "START")
    /\ delete_aiding_flag' = FALSE

StopGpsUnwatched(timers, q) ==
    /\ gps_state' = "STOPPING"
    /\ armed' = timers
    /\ gpsq' = Send(q, "STOP")

StopGps(timers, q) ==
    /\ gps_state' = "STOPPING"
    /\ armed' = timers \cup {"stop"}
    /\ gpsq' = Send(q, "STOP")

(* do_gps_started_hdlr(): acknowledge, then run the deletion that waited. *)
ResetUnwatched(fl, timers) == timers
ResetTimers(fl, timers) == IF fl THEN timers \cup {"reset"} ELSE timers
ResetQueue(fl, q) == IF fl THEN Send(q, "DELETE_AIDING_DATA") ELSE q

(* A start request starts the receiver in IDLE; in STARTED it is answered at  *)
(* once; while the receiver is on its way up or down it waits for that to end. *)
IdleOrStarting == gps_state \in {"IDLE", "STARTING"}
StartsNow == gps_state = "IDLE"

EventStart(cl, ofl) ==
    \/ /\ StartsNow
       /\ Tell("REQUEST")
       /\ client' = cl
       /\ StartGps(cl, ofl, armed)
       /\ UNCHANGED need_reset_ack
    \/ /\ gps_state \in {"STARTING", "STOPPING"}
       /\ client' = cl
       /\ UNCHANGED <<gps_state, need_reset_ack, delete_aiding_flag, halVars, armed, gpsq>>
    \/ /\ gps_state = "STARTED"
       /\ client' = OpenAcked(cl)
       /\ need_reset_ack' = FALSE
       /\ armed' = ResetTimers(delete_aiding_flag, armed)
       /\ gpsq' = ResetQueue(delete_aiding_flag, gpsq)
       /\ delete_aiding_flag' = FALSE
       /\ UNCHANGED <<gps_state, halVars>>

(* A stop request stops the receiver when its last user has gone; it is       *)
(* answered at once when nothing runs or when others go on using the receiver. *)
StartedOrStopping(cl) == gps_state \in {"STARTED", "STOPPING"} /\ AllClientsExit(cl)
StopsNow(cl) == gps_state = "STARTED" /\ AllClientsExit(cl)

EventStop(cl, ra) ==
    \/ /\ gps_state = "IDLE" \/ (gps_state = "STARTED" /\ ~AllClientsExit(cl))
       /\ client' = CloseAcked(cl)
       /\ need_reset_ack' = FALSE
       /\ UNCHANGED <<gps_state, delete_aiding_flag, halVars, armed, gpsq>>
    \/ /\ gps_state \in {"STARTING", "STOPPING"}
       /\ client' = cl
       /\ need_reset_ack' = ra
       /\ UNCHANGED <<gps_state, delete_aiding_flag, halVars, armed, gpsq>>
    \/ /\ StopsNow(cl)
       /\ client' = cl
       /\ need_reset_ack' = ra
       /\ StopGps(armed, gpsq)
       /\ UNCHANGED <<delete_aiding_flag, halVars>>

EventReset(ra, fl) ==
    /\ \/ /\ gps_state \in {"IDLE", "STOPPING"}
          /\ need_reset_ack' = FALSE
          /\ delete_aiding_flag' = fl
          /\ UNCHANGED <<armed, gpsq>>
       \/ /\ gps_state = "STARTING"
          /\ need_reset_ack' = ra
          /\ delete_aiding_flag' = fl
          /\ UNCHANGED <<armed, gpsq>>
       \/ /\ gps_state = "STARTED"
          /\ need_reset_ack' = ra
          /\ armed' = ResetTimers(fl, armed)
          /\ gpsq' = ResetQueue(fl, gpsq)
          /\ delete_aiding_flag' = FALSE
    /\ UNCHANGED <<gps_state, client, halVars>>

(* do_gps_started_hdlr(), and a stop if everybody has left in the meantime. *)
StartsAnyway(cl, timers, q) == gps_state' = "STARTED" /\ armed' = timers /\ gpsq' = q
RunOrStop(cl, timers, q) ==
    \/ ~AllClientsExit(cl) /\ gps_state' = "STARTED" /\ armed' = timers /\ gpsq' = q
    \/ AllClientsExit(cl) /\ StopGps(timers, q)

EventStartDone ==
    IF gps_state # "STARTING" THEN UNCHANGED fsmVars
    ELSE /\ client' = OpenAcked(client)
         /\ need_reset_ack' = FALSE
         /\ delete_aiding_flag' = FALSE
         /\ RunOrStop(client, ResetTimers(delete_aiding_flag, armed \ {"start"}),
                              ResetQueue(delete_aiding_flag, gpsq))
         /\ UNCHANGED halVars

(* Somebody asked for the receiver while it was stopping: start it again. *)
ReopenAsleep(cl, timers) == StartGps(cl, offload, timers) /\ Tell("RELEASE")
Reopen(cl, timers) == StartGps(cl, offload, timers) /\ UNCHANGED halVars

GoIdle(timers) ==
    /\ gps_state' = "IDLE"
    /\ Tell("RELEASE")
    /\ armed' = timers
    /\ UNCHANGED <<gpsq, delete_aiding_flag>>

EventStopDone ==
    LET timers == armed \ {"stop"}
    IN  /\ client' = CloseAcked(client)
        /\ need_reset_ack' = FALSE
        /\ \/ ClientExists(client) /\ Reopen(client, timers)
           \/ ~ClientExists(client) /\ GoIdle(timers)

-----------------------------------------------------------------------------
(* Requests of the clients, each handled in one turn of the main loop. *)

(* epo_downloader_start() when no download runs and the file is stale. *)
TriggerEpoAgain ==
    \E stale \in EpoStale :
        IF stale THEN downloading' = TRUE /\ epo' = "queued" ELSE UNCHANGED epoVars

TriggerEpo ==
    \E stale \in EpoStale :
        IF ~downloading /\ stale THEN downloading' = TRUE /\ epo' = "queued"
                                 ELSE UNCHANGED epoVars

Set(c, record) == [client EXCEPT ![c] = record]

HalStart ==
    /\ alive
    /\ TriggerEpo
    /\ EventStart(Set(HAL, Opening(HAL)), offload)
    /\ UNCHANGED <<alive, offload, mainq, expired, gpsVars>>

(* The other users' start handlers: AGPS, the tests. *)
ClientStart(c) ==
    /\ alive
    /\ EventStart(Set(c, Opening(c)), offload)
    /\ UNCHANGED <<alive, offload, epoVars, mainq, expired, gpsVars>>

ClientStop(c) ==
    /\ alive
    /\ EventStop(Set(c, Closing(c)), need_reset_ack)
    /\ UNCHANGED <<alive, offload, epoVars, mainq, expired, gpsVars>>

(* FLP requests carry the offload mode, which takes effect at once. *)
FlpStart(mode) ==
    /\ alive
    /\ offload' = mode
    /\ EventStart(Set(FLP, Opening(FLP)), mode)
    /\ UNCHANGED <<alive, epoVars, mainq, expired, gpsVars>>

FlpStop(mode) ==
    /\ alive
    /\ offload' = mode
    /\ EventStop(Set(FLP, Closing(FLP)), need_reset_ack)
    /\ UNCHANGED <<alive, epoVars, mainq, expired, gpsVars>>

(* The client's process restarted: whatever it was owed is forgotten. *)
ClientReboot(c) ==
    /\ alive
    /\ EventStop(Set(c, Closed), need_reset_ack /\ c # AGPS)
    /\ UNCHANGED <<alive, offload, epoVars, mainq, expired, gpsVars>>

(* hal_gps_init() puts the driver in its default state: powered off. *)
HalInit ==
    /\ alive
    /\ power' \in SwitchedOff
    /\ UNCHANGED <<alive, fsmVars, offload, epoVars, mainq, expired, gps_pc, mnl, broken>>

HalDeleteAidingData(flags) ==
    /\ alive
    /\ EventReset(need_reset_ack, delete_aiding_flag \/ flags)
    /\ UNCHANGED <<alive, offload, epoVars, mainq, expired, gpsVars>>

(* agps_reset_gps_req(): an empty request is acknowledged on the spot. *)
AgpsReset ==
    /\ alive
    /\ EventReset(TRUE, TRUE)
    /\ UNCHANGED <<alive, offload, epoVars, mainq, expired, gpsVars>>

(* A download may start when GPS is on, or when wifi has just come up. *)
HalUpdateNetworkState(net) ==
    /\ alive
    /\ IF net.connected /\ (gps_state \in {"STARTING", "STARTED"} \/ net.wifi)
       THEN TriggerEpo
       ELSE UNCHANGED epoVars
    /\ UNCHANGED <<alive, fsmVars, offload, mainq, expired, gpsVars>>

HalRequest ==
    \/ HalStart
    \/ HalInit
    \/ \E flags \in Flags : HalDeleteAidingData(flags)
    \/ \E net \in Networks : HalUpdateNetworkState(net)

ClientRequest ==
    \/ HAL \in Clients /\ HalRequest
    \/ \E c \in Clients \ {HAL, FLP} : ClientStart(c)
    \/ \E c \in Clients \ {FLP} : ClientStop(c)
    \/ FLP \in Clients /\ \E mode \in Modes : FlpStart(mode) \/ FlpStop(mode)
    \/ \E c \in Clients \cap AckUsers : ClientReboot(c)
    \/ AGPS \in Clients /\ Flags # {} /\ AgpsReset

-----------------------------------------------------------------------------
(* The main thread reads its own socket: main_event_hdlr(). *)

MainRecv(event) ==
    /\ alive
    /\ mainq # <<>>
    /\ Head(mainq) = event

MainStartDone ==
    /\ MainRecv("START_DONE")
    /\ mainq' = Tail(mainq)
    /\ EventStartDone
    /\ UNCHANGED <<alive, offload, epoVars, expired, gpsVars>>

(* The receiver has stopped although the session is starting or running: *)
(* CRASH_TO_DEBUG.  In IDLE the event is logged and dropped.             *)
MainStopDone ==
    /\ MainRecv("STOP_DONE")
    /\ IF gps_state \in {"STARTING", "STARTED"} THEN Crash
       ELSE /\ mainq' = Tail(mainq)
            /\ IF gps_state = "STOPPING" THEN EventStopDone ELSE UNCHANGED fsmVars
            /\ UNCHANGED <<alive, offload, epoVars, expired, gpsVars>>

MainResetDone ==
    /\ MainRecv("RESET_DONE")
    /\ mainq' = Tail(mainq)
    /\ armed' = armed \ {"reset"}
    /\ need_reset_ack' = FALSE
    /\ UNCHANGED <<alive, gps_state, client, delete_aiding_flag, halVars, gpsq,
                   offload, epoVars, expired, gpsVars>>

(* No data for nmea_data_time_out: every user is thrown out and told to  *)
(* come back, which restarts the receiver.                               *)
MainNmeaTimeout ==
    /\ MainRecv("NMEA_TIMEOUT")
    /\ mainq' = Tail(mainq)
    /\ IF gps_state = "STARTED"
       THEN EventStop([c \in Clients |-> [client[c] EXCEPT !.gps_used = FALSE]], need_reset_ack)
       ELSE UNCHANGED fsmVars
    /\ UNCHANGED <<alive, offload, epoVars, expired, gpsVars>>

MainEpoDone ==
    /\ MainRecv("EPO_DONE")
    /\ mainq' = Tail(mainq)
    /\ downloading' = FALSE
    /\ UNCHANGED <<alive, fsmVars, offload, epo, expired, gpsVars>>

(* A handler of the main thread that takes ten seconds. *)
MainHandlerTimeout == alive /\ "main" \in Faults /\ Crash

MainThread == MainStartDone \/ MainStopDone \/ MainResetDone \/ MainNmeaTimeout \/ MainEpoDone

-----------------------------------------------------------------------------
(* The GPS control thread: gps_control_event_hdlr(). *)

otherVars == <<gps_state, clientVars, halVars, offload, epoVars>>

GpsRecv(event) ==
    /\ alive
    /\ gps_pc = "wait"
    /\ gpsq # <<>>
    /\ Head(gpsq) = event
    /\ gpsq' = Tail(gpsq)

GpsRecvStart ==
    /\ GpsRecv("START")
    /\ gps_pc' = "start"
    /\ UNCHANGED <<alive, otherVars, mainq, armed, expired, mnl, broken, power>>

(* mnl_set_pwrctl(GPS_PWRCTL_RST), then mtk_gps_mnl_run(): from here on *)
(* the library calls back.                                              *)
GpsRun ==
    /\ alive
    /\ gps_pc = "start"
    /\ gps_pc' = "signal"
    /\ mnl' = TRUE
    /\ broken' = FALSE
    /\ power' = "on"
    /\ UNCHANGED <<alive, otherVars, mainq, gpsq, armed, expired>>

(* The switch or linux_gps_init() fails: nothing is sent to the main thread, *)
(* and the receiver stays powered if it was.                                 *)
GpsStartFails ==
    /\ alive
    /\ gps_pc = "start"
    /\ "start" \in Faults
    /\ gps_pc' = "wait"
    /\ power' \in {power, "on"}
    /\ UNCHANGED <<alive, otherVars, mainq, gpsq, armed, expired, mnl, broken>>

(* linux_setup_signal_handler() ends the start; if it fails, or if the status *)
(* linux_gps_init() returns is that of a failed mtk_gps_delete_nv_data(), the  *)
(* start is undone.                                                            *)
GpsStarted ==
    /\ alive
    /\ gps_pc = "signal"
    /\ gps_pc' = "wait"
    /\ mnl' \in {TRUE} \cup {FALSE : f \in Faults \cap {"signal"}}
    /\ broken' = ~mnl'
    /\ UNCHANGED <<alive, otherVars, mainq, gpsq, armed, expired, power>>

(* mnld_gps_stop() first stops the NMEA monitor; at its end it reports the   *)
(* stop also when the power switch has refused to go off.                    *)
GpsRecvStopAnswersEarly ==
    /\ GpsRecv("STOP")
    /\ armed' = armed \ {"nmea"}
    /\ gps_pc' = "stop"
    /\ mainq' = Send(mainq, "STOP_DONE")
    /\ UNCHANGED <<alive, otherVars, expired, mnl, broken, power>>

GpsRecvStop ==
    /\ GpsRecv("STOP")
    /\ armed' = armed \ {"nmea"}
    /\ gps_pc' = "stop"
    /\ UNCHANGED <<alive, otherVars, mainq, expired, mnl, broken, power>>

GpsStopped ==
    /\ alive
    /\ gps_pc = "stop"
    /\ gps_pc' = "wait"
    /\ mnl' = FALSE
    /\ broken' = FALSE
    /\ power' \in SwitchedOff
    /\ mainq' = Send(mainq, "STOP_DONE")
    /\ UNCHANGED <<alive, otherVars, gpsq, armed, expired>>

(* mtk_gps_sys_uninit() fails: the library has stopped, nobody is told. *)
GpsStopFails ==
    /\ alive
    /\ gps_pc = "stop"
    /\ "stop" \in Faults
    /\ gps_pc' = "wait"
    /\ mnl' = FALSE
    /\ broken' = FALSE
    /\ UNCHANGED <<alive, otherVars, mainq, gpsq, armed, expired, power>>

(* The library is told to restart; the main thread hears of it in any case. *)
GpsDeleteAidingData ==
    /\ GpsRecv("DELETE_AIDING_DATA")
    /\ mainq' = Send(mainq, "RESET_DONE")
    /\ UNCHANGED <<alive, otherVars, armed, expired, gpsVars>>

(* The library has shown a sign of life: the NMEA monitor begins anew. *)
GpsNmeaData ==
    /\ GpsRecv("NMEA_DATA")
    /\ armed' = armed \cup {"nmea"}
    /\ UNCHANGED <<alive, otherVars, mainq, expired, gpsVars>>

(* A handler that takes ten seconds: gps_control_thread_timeout(). *)
GpsHandlerTimeout == alive /\ gps_pc # "wait" /\ Crash

GpsThread ==
    \/ GpsRecvStart \/ GpsRun \/ GpsStartFails \/ GpsStarted
    \/ GpsRecvStop \/ GpsStopped \/ GpsStopFails
    \/ GpsDeleteAidingData \/ GpsNmeaData
    \/ GpsHandlerTimeout

-----------------------------------------------------------------------------
(* The MNL library's callbacks, on its own threads, while it runs. *)

(* MTK_AGPS_CB_START_REQ: the engine is ready.  It may say so again later. *)
MnlStartReq ==
    /\ alive /\ mnl
    /\ mainq' = Send(mainq, "START_DONE")
    /\ UNCHANGED <<alive, fsmVars, offload, epoVars, expired, gpsVars>>

(* A fix, or none: send_active_notify(), unless the engine is offloaded. *)
MnlNotify ==
    /\ alive /\ mnl
    /\ ~Bypassed(client, offload)
    /\ gpsq' = Send(gpsq, "NMEA_DATA")
    /\ UNCHANGED <<alive, otherVars, armed, mainq, expired, gpsVars>>

(* The offloaded engine asks for a restart: mtk_gps_ofl_sys_rst_stpgps_req(). *)
MnlRestartReq ==
    /\ alive /\ mnl
    /\ offload
    /\ mainq' = Send(mainq, "NMEA_TIMEOUT")
    /\ UNCHANGED <<alive, fsmVars, offload, epoVars, expired, gpsVars>>

-----------------------------------------------------------------------------
(* The EPO downloader's thread, as the main thread sees it. *)

EpoRecv ==
    /\ alive
    /\ epo = "queued"
    /\ epo' = "busy"
    /\ UNCHANGED <<alive, fsmVars, offload, downloading, mainq, expired, gpsVars>>

EpoDone ==
    /\ alive
    /\ epo = "busy"
    /\ epo' = "none"
    /\ mainq' = Send(mainq, "EPO_DONE")
    /\ UNCHANGED <<alive, fsmVars, offload, downloading, expired, gpsVars>>

-----------------------------------------------------------------------------
(* One-shot timers with SIGEV_THREAD: the callback runs on a thread of its *)
(* own, so stop_timer() does not call back one that has expired.           *)

Expire(t) ==
    /\ alive
    /\ t \in armed
    /\ armed' = armed \ {t}
    /\ expired' = expired \cup {t}
    /\ UNCHANGED <<alive, otherVars, gpsq, mainq, gpsVars>>

(* The start, stop and reset timers' callbacks do nothing but crash. *)
TimeoutCrash(t) == alive /\ t \in expired \ {"nmea"} /\ Crash

NmeaTimeout ==
    /\ alive
    /\ "nmea" \in expired
    /\ expired' = expired \ {"nmea"}
    /\ mainq' = Send(mainq, "NMEA_TIMEOUT")
    /\ UNCHANGED <<alive, fsmVars, offload, epoVars, gpsVars>>

Callback(t) == TimeoutCrash(t) \/ (t = "nmea" /\ NmeaTimeout)

-----------------------------------------------------------------------------
(* The HAL's process: its worker takes and gives up the wakelock in the order *)
(* it is told to.  When the process dies, its socket goes with it; whether    *)
(* the lock does too depends on who holds it for the HAL.                     *)

otherThanHal == <<alive, gps_state, clientVars, armed, gpsq, offload, epoVars, mainq, expired, gpsVars>>

HalWakelock ==
    /\ halq # <<>>
    /\ wakelock' = (Head(halq) = "REQUEST")
    /\ halq' = Tail(halq)
    /\ UNCHANGED <<missed, otherThanHal>>

HalDies ==
    /\ "hal" \in Faults
    /\ halq' = <<>>
    /\ wakelock' \in {wakelock, FALSE}
    /\ missed' = TRUE
    /\ UNCHANGED otherThanHal

-----------------------------------------------------------------------------
Next ==
    \/ ClientRequest
    \/ MainThread
    \/ GpsThread
    \/ MainHandlerTimeout
    \/ MnlStartReq \/ MnlNotify \/ MnlRestartReq
    \/ EpoRecv \/ EpoDone
    \/ HalWakelock \/ HalDies
    \/ \E t \in Timers : Expire(t) \/ Callback(t)
    \/ Restart

(* Threads run and timers expire; nothing is promised of the clients or of *)
(* the library, whose silence is what the timers are for.                  *)
Fairness ==
    /\ WF_vars(MainThread)
    /\ WF_vars(GpsThread)
    /\ WF_vars(EpoRecv)
    /\ \A t \in Timers : WF_vars(Expire(t)) /\ WF_vars(Callback(t))
    /\ WF_vars(Restart)

Spec == Init /\ [][Next]_vars
FairSpec == Spec /\ Fairness

-----------------------------------------------------------------------------
(* Safety. *)

(* STOP_DONE reaches the main thread only in a session that is stopping:     *)
(* the CRASH_TO_DEBUG of fsm_gps_state_starting() and _started() is dead.    *)
StopDoneExpected ==
    mainq # <<>> /\ Head(mainq) = "STOP_DONE" => gps_state = "STOPPING"

(* An idle session leaves nothing behind: no library, no request under way,  *)
(* no user, no acknowledgement owed to anyone.                               *)
IdleIsClean ==
    gps_state = "IDLE" =>
        /\ ~mnl /\ gps_pc = "wait"
        /\ client = [c \in Clients |-> Closed]
        /\ ~need_reset_ack

(* The library is started only by a starting session, and only when it is    *)
(* not running: mtk_gps_mnl_run() is never called twice.                     *)
StartsOnce == gps_pc = "start" => ~mnl /\ gps_state = "STARTING"

(* While the receiver runs nobody waits for it to open: a request that came  *)
(* in too late for do_gps_started_hdlr() is acknowledged on arrival.         *)
StartedIsKnown == gps_state = "STARTED" => \A c \in Clients : ~client[c].need_open_ack

(* A client never waits for both answers, nor for one it did not ask for:    *)
(* being thrown out by the NMEA monitor leaves no open request behind.       *)
AcksAreOwed ==
    \A c \in Clients :
        /\ client[c].need_open_ack => client[c].gps_used
        /\ client[c].need_close_ack => ~client[c].gps_used

(* Every stop is watched, and a watchdog runs only in the state it watches:  *)
(* a session that has moved on is not killed by the timer of an older step.  *)
WatchdogsMatch ==
    /\ gps_state = "STOPPING" => "stop" \in armed \cup expired
    /\ "stop" \in armed => gps_state = "STOPPING"
    /\ "start" \in armed => gps_state = "STARTING"

(* Only a start for offloaded users alone goes unwatched: "if no other users  *)
(* except GPS_USER_FLP or GPS_USER_OFL_TEST, bypass restart" (mnld.c).        *)
StartIsWatched ==
    gps_state = "STARTING" /\ ~Bypassed(client, offload) => "start" \in armed \cup expired

(* The receiver that runs for offloaded users alone is not restarted because  *)
(* the NMEA monitor has run out (the same comment in send_active_notify()).   *)
OffloadNotRestarted ==
    [][Bypassed(client, offload) /\ ClientExists(client) /\ gps_state = "STARTED"
       => ~("nmea" \in expired /\ "nmea" \notin expired' /\ alive')]_vars

(* "need to call mnld_gps_stop_done() when GPS is stopped": a stop handler    *)
(* that ends with the library stopped has told the main thread.               *)
StopReported ==
    [][gps_pc = "stop" /\ gps_pc' = "wait" /\ ~mnl' /\ alive'
       => mainq' = Send(mainq, "STOP_DONE")]_vars

(* A deletion AGPS waits for is watched over, except before a start is done. *)
ResetIsWatched == need_reset_ack => gps_state = "STARTING" \/ "reset" \in armed \cup expired

(* What the HAL does about the wakelock when it has read its socket. *)
Told ==
    \/ halq = <<>> /\ wakelock
    \/ halq # <<>> /\ halq[Len(halq)] = "REQUEST"

(* The last word the HAL has of a session fits it: take the wakelock while it *)
(* lasts, over every restart of the receiver, and give it up when it is over; *)
(* unless the HAL has missed a word, which mnld never repeats.                *)
WakelockTold == missed \/ (Told <=> gps_state # "IDLE")

(* A download under way is known to the main thread, which starts no second. *)
OneDownload ==
    /\ epo # "none" => downloading
    /\ \A i \in 1..Len(mainq) : mainq[i] = "EPO_DONE" => downloading /\ epo = "none"

(* The HAL is told to give the wakelock up only once the library has stopped *)
(* and the switch has been told to go off; if it refused, the phone may      *)
(* sleep over a receiver that still has power, for nobody looks.             *)
ReleasedWhenOff == [][halq' = Append(halq, "RELEASE") => ~mnl /\ power # "on"]_vars

-----------------------------------------------------------------------------
(* Liveness. *)

(* A session that is stopping, or starting under its watchdog, moves on: the *)
(* receiver answers or the process is restarted.                             *)
TransientEnds ==
    /\ (gps_state = "STOPPING") ~> (gps_state # "STOPPING")
    /\ (gps_state = "STARTING" /\ "start" \in armed \cup expired) ~> (gps_state # "STARTING")

(* Who asks for the receiver gets it, unless it goes away or the daemon dies: *)
(* also when the request came while the last session was still stopping.      *)
OpenServed == \A c \in Clients : client[c].need_open_ack ~> ~client[c].need_open_ack

(* Whoever waits for the receiver to stop hears of it once it stops. *)
CloseServed ==
    \A c \in Clients :
        (gps_state = "STOPPING" /\ client[c].need_close_ack) ~> ~client[c].need_close_ack

(* The receiver does not run on when its last user has gone, even if that    *)
(* user left before the start was over.                                      *)
AbandonedStops == (mnl /\ ~ClientExists(client)) ~> (~mnl \/ ClientExists(client))

(* AGPS is answered when it has asked for aiding data to be deleted. *)
ResetServed == need_reset_ack ~> ~need_reset_ack

-----------------------------------------------------------------------------
(* The promise made to the users. *)

View(r) ==
    CASE r.need_open_ack -> "opening"
      [] ~r.need_open_ack /\ r.gps_used -> "open"
      [] ~r.need_open_ack /\ ~r.gps_used /\ r.need_close_ack -> "closing"
      [] OTHER -> "closed"

(* The receiver warms up until the GPS control thread is done with its start. *)
Engine ==
    CASE mnl /\ gps_pc = "signal" -> "warming"
      [] mnl /\ gps_pc # "signal" -> "on"
      [] ~mnl /\ broken -> "broken"
      [] OTHER -> "off"

Service == INSTANCE GpsService WITH view <- [c \in Clients |-> View(client[c])], engine <- Engine

(* The daemon keeps the promise of GpsService, whatever fails. *)
KeepsPromise == Service!Spec

=============================================================================
