----------------------------- MODULE MnldProofs -----------------------------
(***************************************************************************)
(* Proofs about Mnld, for any set of users, any queue length and any       *)
(* combination of faults.                                                  *)
(***************************************************************************)
EXTENDS MnldInv, TLAPS

-----------------------------------------------------------------------------
(* The sockets.  Sending and receiving are Send and Tail; what the           *)
(* invariants need to know of them is stated once, here.                     *)

MainEvents == {"START_DONE", "STOP_DONE", "RESET_DONE", "NMEA_TIMEOUT", "EPO_DONE"}
GpsEvents  == {"START", "STOP", "DELETE_AIDING_DATA", "NMEA_DATA"}
HalOrders  == {"REQUEST", "RELEASE"}

(* A datagram sent joins a socket of the same type and length: safe_sendto(). *)
LEMMA SendType ==
    ASSUME NEW S, NEW q \in Seq(S), NEW m \in S, Len(q) <= QLen
    PROVE  Send(q, m) \in Seq(S) /\ Len(Send(q, m)) <= QLen
  BY MnldAssumption DEF Send, MnldAssumption

(* What is in a socket after a send was there before or is what was sent. *)
LEMMA SendHas ==
    ASSUME NEW S, NEW q \in Seq(S), NEW m \in S, NEW x, Has(Send(q, m), x), x # m
    PROVE  Has(q, x)
  <1>1. PICK i \in 1..Len(Send(q, m)) : Send(q, m)[i] = x
    BY DEF Has
  <1>2. i \in 1..Len(q) /\ q[i] = x
    BY <1>1 DEF Send
  <1> QED BY <1>2 DEF Has

(* Sending something else does not double what is there once. *)
LEMMA SendOnce ==
    ASSUME NEW S, NEW q \in Seq(S), NEW m \in S, NEW x, Once(q, x), x # m \/ ~Has(q, x)
    PROVE  Once(Send(q, m), x)
  <1> SUFFICES ASSUME NEW i \in 1..Len(Send(q, m)), NEW j \in 1..Len(Send(q, m)),
                      Send(q, m)[i] = x, Send(q, m)[j] = x
               PROVE  i = j
    BY DEF Once
  <1>1. CASE i \in 1..Len(q) /\ j \in 1..Len(q)
    BY <1>1 DEF Send, Once
  <1>2. CASE i \notin 1..Len(q) \/ j \notin 1..Len(q)
    BY <1>2 DEF Send, Has
  <1> QED BY <1>1, <1>2

(* The order of stop and start reports survives every send but that of a *)
(* start report behind a stop report.                                    *)
LEMMA SendLastIsStop ==
    ASSUME NEW S, NEW q \in Seq(S), NEW m \in S, LastIsStop(q),
           m # "START_DONE" \/ ~Has(q, "STOP_DONE")
    PROVE  LastIsStop(Send(q, m))
  <1> SUFFICES ASSUME NEW i \in 1..Len(Send(q, m)), NEW j \in 1..Len(Send(q, m)),
                      Send(q, m)[i] = "STOP_DONE", Send(q, m)[j] = "START_DONE"
               PROVE  j < i
    BY DEF LastIsStop
  <1>1. CASE i \in 1..Len(q) /\ j \in 1..Len(q)
    BY <1>1 DEF Send, LastIsStop
  <1>2. CASE j \notin 1..Len(q)
    <2>1. m = "START_DONE" /\ j = Len(q) + 1
      BY <1>2 DEF Send
    <2>2. i \in 1..Len(q) /\ q[i] = "STOP_DONE"
      BY <2>1 DEF Send
    <2> QED BY <2>1, <2>2 DEF Has
  <1>3. CASE i \notin 1..Len(q) /\ j \in 1..Len(q)
    BY <1>3 DEF Send
  <1> QED BY <1>1, <1>2, <1>3

(* Receiving shortens a socket and adds nothing to it. *)
LEMMA TailFacts ==
    ASSUME NEW S, NEW q \in Seq(S), q # <<>>, Len(q) <= QLen
    PROVE  /\ Head(q) \in S
           /\ Tail(q) \in Seq(S) /\ Len(Tail(q)) <= QLen
           /\ \A x : Has(Tail(q), x) => Has(q, x)
           /\ \A x : Once(q, x) => Once(Tail(q), x)
           /\ \A x : Once(q, x) /\ Head(q) = x => ~Has(Tail(q), x)
           /\ LastIsStop(q) => LastIsStop(Tail(q))
           /\ LastIsStop(q) /\ Head(q) = "STOP_DONE" => ~Has(Tail(q), "START_DONE")
           /\ Has(q, Head(q))
  <1>1. /\ Head(q) = q[1] /\ Len(q) \in Nat /\ Len(q) >= 1 /\ 1 \in 1..Len(q)
        /\ Tail(q) \in Seq(S) /\ Len(Tail(q)) = Len(q) - 1
        /\ \A i \in 1..Len(Tail(q)) : i + 1 \in 1..Len(q) /\ Tail(q)[i] = q[i + 1]
    OBVIOUS
  <1>2. \A i \in 1..Len(Tail(q)) : i \in Nat
    BY <1>1
  <1>3. Head(q) \in S /\ Len(Tail(q)) <= QLen
    BY <1>1, MnldAssumption DEF MnldAssumption
  <1>4. \A x : Has(Tail(q), x) => Has(q, x)
    BY <1>1 DEF Has
  <1>5. \A x : Once(q, x) => Once(Tail(q), x)
    BY <1>1, <1>2 DEF Once
  <1>6. \A x : Once(q, x) /\ Head(q) = x => ~Has(Tail(q), x)
    BY <1>1, <1>2 DEF Once, Has
  <1>7. LastIsStop(q) => LastIsStop(Tail(q))
    BY <1>1, <1>2 DEF LastIsStop
  <1>8. LastIsStop(q) /\ Head(q) = "STOP_DONE" => ~Has(Tail(q), "START_DONE")
    BY <1>1, <1>2 DEF LastIsStop, Has
  <1> QED BY <1>1, <1>3, <1>4, <1>5, <1>6, <1>7, <1>8 DEF Has

-----------------------------------------------------------------------------
(* Types of the session's state machine. *)

Records  == [gps_used : BOOLEAN, need_open_ack : BOOLEAN, need_close_ack : BOOLEAN]
Registry == [Clients -> Records]

HalTypeOK ==
    /\ wakelock \in BOOLEAN
    /\ halq \in Seq(HalOrders) /\ Len(halq) <= HalQLen
    /\ missed \in BOOLEAN

FsmTypeOK ==
    /\ gps_state \in {"IDLE", "STARTING", "STARTED", "STOPPING"}
    /\ client \in Registry
    /\ need_reset_ack \in BOOLEAN
    /\ delete_aiding_flag \in BOOLEAN
    /\ HalTypeOK
    /\ armed \subseteq Timers
    /\ gpsq \in Seq(GpsEvents) /\ Len(gpsq) <= QLen

(* What the users' requests and the acknowledgements make of the registry is *)
(* a registry: Set, Opening, Closing, OpenAcked, CloseAcked.                  *)
LEMMA RegistryType ==
    ASSUME TypeOK
    PROVE  /\ client \in Registry
           /\ \A c : Opening(c) \in Records /\ Closing(c) \in Records /\ Closed \in Records
           /\ \A c : \A r \in Records : Set(c, r) \in Registry
           /\ \A cl \in Registry : OpenAcked(cl) \in Registry /\ CloseAcked(cl) \in Registry
           /\ [c \in Clients |-> [client[c] EXCEPT !.gps_used = FALSE]] \in Registry
           /\ [c \in Clients |-> Closed] \in Registry
  <1>1. client \in Registry
    BY DEF TypeOK, Registry, Records
  <1>2. ASSUME NEW c
        PROVE  Opening(c) \in Records /\ Closing(c) \in Records /\ Closed \in Records
    <2>1. (c \in AckUsers) \in BOOLEAN
      OBVIOUS
    <2>2. Closed \in Records
      BY DEF Closed, Records
    <2>3. ASSUME NEW b \in BOOLEAN
          PROVE  /\ [Closed EXCEPT !.gps_used = TRUE, !.need_open_ack = b] \in Records
                 /\ [Closed EXCEPT !.need_close_ack = b] \in Records
      BY DEF Closed, Records
    <2> QED BY <2>1, <2>2, <2>3, Zenon DEF Opening, Closing
  <1>3. ASSUME NEW c, NEW r \in Records
        PROVE  Set(c, r) \in Registry
    BY <1>1 DEF Set, Registry
  <1>4. ASSUME NEW cl \in Registry
        PROVE  OpenAcked(cl) \in Registry /\ CloseAcked(cl) \in Registry
    BY DEF OpenAcked, CloseAcked, Registry, Records
  <1>5. [c \in Clients |-> [client[c] EXCEPT !.gps_used = FALSE]] \in Registry
    BY <1>1 DEF Registry, Records
  <1>6. [c \in Clients |-> Closed] \in Registry
    BY <1>2 DEF Registry
  <1> QED BY <1>1, <1>2, <1>3, <1>4, <1>5, <1>6

LEMMA FsmType == TypeOK => FsmTypeOK
  BY DEF TypeOK, FsmTypeOK, HalTypeOK, HalOrders, Registry, Records, GpsEvents

(* What the HAL is told of the wakelock: Tell. *)
LEMMA TellType ==
    ASSUME HalTypeOK, NEW order \in HalOrders, Tell(order)
    PROVE  HalTypeOK'
  <1>1. halq \in Seq(HalOrders) /\ Len(halq) \in Nat /\ HalQLen \in Nat /\ Len(halq) <= HalQLen
    BY MnldAssumption DEF HalTypeOK, MnldAssumption
  <1>2. wakelock' \in BOOLEAN /\ missed' \in BOOLEAN
    BY DEF Tell, HalTypeOK
  <1>3. CASE Len(halq) < HalQLen /\ halq' = Append(halq, order)
    <2>1. Append(halq, order) \in Seq(HalOrders) /\ Len(Append(halq, order)) = Len(halq) + 1
      BY <1>1
    <2> QED BY <1>1, <1>2, <1>3, <2>1 DEF HalTypeOK
  <1>4. CASE halq' = halq
    BY <1>1, <1>2, <1>4 DEF HalTypeOK
  <1> QED BY <1>3, <1>4 DEF Tell

LEMMA SameHalType ==
    ASSUME HalTypeOK, UNCHANGED halVars
    PROVE  HalTypeOK'
  BY DEF HalTypeOK, halVars

(* Starting and stopping the library: StartGps, StopGps. *)
LEMMA StartGpsType ==
    ASSUME FsmTypeOK, NEW cl, NEW ofl, NEW timers \in SUBSET Timers, StartGps(cl, ofl, timers)
    PROVE  /\ gps_state' \in {"IDLE", "STARTING", "STARTED", "STOPPING"}
           /\ armed' \subseteq Timers
           /\ gpsq' \in Seq(GpsEvents) /\ Len(gpsq') <= QLen
           /\ delete_aiding_flag' \in BOOLEAN
  <1>1. Send(gpsq, "START") \in Seq(GpsEvents) /\ Len(Send(gpsq, "START")) <= QLen
    BY SendType DEF FsmTypeOK, GpsEvents
  <1> QED BY <1>1 DEF StartGps, Timers

LEMMA StopGpsType ==
    ASSUME NEW timers \in SUBSET Timers, NEW q \in Seq(GpsEvents), Len(q) <= QLen,
           StopGps(timers, q)
    PROVE  /\ gps_state' \in {"IDLE", "STARTING", "STARTED", "STOPPING"}
           /\ armed' \subseteq Timers
           /\ gpsq' \in Seq(GpsEvents) /\ Len(gpsq') <= QLen
  <1>1. Send(q, "STOP") \in Seq(GpsEvents) /\ Len(Send(q, "STOP")) <= QLen
    BY SendType DEF GpsEvents
  <1> QED BY <1>1 DEF StopGps, Timers

(* A deletion that waited: ResetTimers, ResetQueue. *)
LEMMA ResetType ==
    ASSUME FsmTypeOK, NEW fl, NEW timers \in SUBSET Timers
    PROVE  /\ ResetTimers(fl, timers) \in SUBSET Timers
           /\ ResetQueue(fl, gpsq) \in Seq(GpsEvents) /\ Len(ResetQueue(fl, gpsq)) <= QLen
  <1>1. /\ Send(gpsq, "DELETE_AIDING_DATA") \in Seq(GpsEvents)
        /\ Len(Send(gpsq, "DELETE_AIDING_DATA")) <= QLen
    BY SendType DEF FsmTypeOK, GpsEvents
  <1> QED BY <1>1 DEF ResetTimers, ResetQueue, Timers, FsmTypeOK

LEMMA EventStartType ==
    ASSUME TypeOK, NEW cl \in Registry, NEW ofl, EventStart(cl, ofl)
    PROVE  FsmTypeOK'
  <1>1. FsmTypeOK /\ OpenAcked(cl) \in Registry
    BY FsmType, RegistryType
  <1>2. armed \in SUBSET Timers
    BY <1>1 DEF FsmTypeOK
  <1>3. CASE StartsNow /\ client' = cl /\ StartGps(cl, ofl, armed)
             /\ Tell("REQUEST") /\ UNCHANGED need_reset_ack
    <2>1. HalTypeOK'
      BY <1>1, <1>3, TellType DEF FsmTypeOK, HalOrders
    <2> QED BY <1>1, <1>2, <1>3, <2>1, StartGpsType DEF FsmTypeOK
  <1>4. CASE client' = cl /\ UNCHANGED <<gps_state, need_reset_ack, delete_aiding_flag,
                                        halVars, armed, gpsq>>
    BY <1>1, <1>4, SameHalType DEF FsmTypeOK
  <1>5. CASE /\ client' = OpenAcked(cl) /\ need_reset_ack' = FALSE
             /\ armed' = ResetTimers(delete_aiding_flag, armed)
             /\ gpsq' = ResetQueue(delete_aiding_flag, gpsq)
             /\ delete_aiding_flag' = FALSE
             /\ UNCHANGED <<gps_state, halVars>>
    BY <1>1, <1>2, <1>5, ResetType, SameHalType DEF FsmTypeOK
  <1> QED BY <1>3, <1>4, <1>5 DEF EventStart

LEMMA EventStopType ==
    ASSUME TypeOK, NEW cl \in Registry, NEW ra \in BOOLEAN, EventStop(cl, ra)
    PROVE  FsmTypeOK'
  <1>1. FsmTypeOK /\ CloseAcked(cl) \in Registry
    BY FsmType, RegistryType
  <1>2. CASE /\ StopsNow(cl) /\ client' = cl /\ need_reset_ack' = ra /\ StopGps(armed, gpsq)
             /\ UNCHANGED <<delete_aiding_flag, halVars>>
    <2>1. armed \in SUBSET Timers /\ gpsq \in Seq(GpsEvents) /\ Len(gpsq) <= QLen
      BY <1>1 DEF FsmTypeOK
    <2> QED BY <1>1, <1>2, <2>1, StopGpsType, SameHalType DEF FsmTypeOK
  <1>3. CASE /\ client' = CloseAcked(cl) /\ need_reset_ack' = FALSE
             /\ UNCHANGED <<gps_state, delete_aiding_flag, halVars, armed, gpsq>>
    BY <1>1, <1>3, SameHalType DEF FsmTypeOK
  <1>4. CASE /\ client' = cl /\ need_reset_ack' = ra
             /\ UNCHANGED <<gps_state, delete_aiding_flag, halVars, armed, gpsq>>
    BY <1>1, <1>4, SameHalType DEF FsmTypeOK
  <1> QED BY <1>2, <1>3, <1>4 DEF EventStop

LEMMA EventResetType ==
    ASSUME TypeOK, NEW ra \in BOOLEAN, NEW fl \in BOOLEAN, EventReset(ra, fl)
    PROVE  FsmTypeOK'
  <1>1. FsmTypeOK /\ armed \in SUBSET Timers
    BY FsmType DEF FsmTypeOK
  <1>2. /\ ResetTimers(fl, armed) \in SUBSET Timers
        /\ ResetQueue(fl, gpsq) \in Seq(GpsEvents) /\ Len(ResetQueue(fl, gpsq)) <= QLen
    BY <1>1, ResetType
  <1>3. HalTypeOK'
    BY <1>1, SameHalType DEF EventReset, FsmTypeOK
  <1> QED BY <1>1, <1>2, <1>3 DEF EventReset, FsmTypeOK

LEMMA EventStartDoneType ==
    ASSUME TypeOK, EventStartDone
    PROVE  FsmTypeOK'
  <1>1. FsmTypeOK /\ OpenAcked(client) \in Registry /\ armed \ {"start"} \in SUBSET Timers
    BY FsmType, RegistryType DEF FsmTypeOK
  <1>2. CASE UNCHANGED fsmVars
    BY <1>1, <1>2, SameHalType DEF FsmTypeOK, fsmVars, clientVars
  <1>3. CASE /\ client' = OpenAcked(client) /\ need_reset_ack' = FALSE
             /\ delete_aiding_flag' = FALSE /\ UNCHANGED halVars
             /\ RunOrStop(client, ResetTimers(delete_aiding_flag, armed \ {"start"}),
                                  ResetQueue(delete_aiding_flag, gpsq))
    <2> DEFINE timers == ResetTimers(delete_aiding_flag, armed \ {"start"})
               q == ResetQueue(delete_aiding_flag, gpsq)
    <2>1. timers \in SUBSET Timers /\ q \in Seq(GpsEvents) /\ Len(q) <= QLen
      BY <1>1, ResetType
    <2>2. CASE gps_state' = "STARTED" /\ armed' = timers /\ gpsq' = q
      BY <1>1, <1>3, <2>1, <2>2, SameHalType DEF FsmTypeOK
    <2>3. CASE StopGps(timers, q)
      <3> HIDE DEF timers, q
      <3>1. /\ gps_state' \in {"IDLE", "STARTING", "STARTED", "STOPPING"}
            /\ armed' \subseteq Timers
            /\ gpsq' \in Seq(GpsEvents) /\ Len(gpsq') <= QLen
        BY <2>1, <2>3, StopGpsType
      <3> QED BY <1>1, <1>3, <3>1, SameHalType DEF FsmTypeOK
    <2> QED BY <1>3, <2>2, <2>3 DEF RunOrStop
  <1> QED BY <1>2, <1>3 DEF EventStartDone

LEMMA EventStopDoneType ==
    ASSUME TypeOK, EventStopDone
    PROVE  FsmTypeOK'
  <1>1. FsmTypeOK /\ CloseAcked(client) \in Registry /\ armed \ {"stop"} \in SUBSET Timers
    BY FsmType, RegistryType DEF FsmTypeOK
  <1>2. CASE Reopen(client, armed \ {"stop"})
    <2>1. StartGps(client, offload, armed \ {"stop"}) /\ UNCHANGED halVars
      BY <1>2 DEF Reopen
    <2> QED BY <1>1, <2>1, StartGpsType, SameHalType DEF EventStopDone, FsmTypeOK
  <1>3. CASE GoIdle(armed \ {"stop"})
    <2>1. HalTypeOK'
      BY <1>1, <1>3, TellType DEF GoIdle, FsmTypeOK, HalOrders
    <2> QED BY <1>1, <1>3, <2>1 DEF EventStopDone, GoIdle, FsmTypeOK
  <1> QED BY <1>2, <1>3 DEF EventStopDone

-----------------------------------------------------------------------------
(* Type correctness: TypeOK is preserved by every action. *)

(* A step of the session's state machine that leaves types elsewhere alone. *)
LEMMA FsmStepType ==
    ASSUME TypeOK, FsmTypeOK', alive' = alive,
           offload' \in BOOLEAN, downloading' \in BOOLEAN, epo' \in {"none", "queued", "busy"},
           mainq' \in Seq(MainEvents) /\ Len(mainq') <= QLen,
           UNCHANGED <<expired, gpsVars>>
    PROVE  TypeOK'
  BY DEF TypeOK, FsmTypeOK, HalTypeOK, HalOrders, Registry, Records, GpsEvents, MainEvents, gpsVars

LEMMA CrashType == TypeOK /\ Crash => TypeOK'
  <1> SUFFICES ASSUME TypeOK, Crash PROVE TypeOK'
    OBVIOUS
  <1>1. client' \in Registry
    BY RegistryType DEF Crash
  <1>2. mainq' = <<>> /\ gpsq' = <<>>
    BY DEF Crash
  <1>3. /\ mainq' \in Seq(MainEvents) /\ Len(mainq') <= QLen
        /\ gpsq' \in Seq(GpsEvents) /\ Len(gpsq') <= QLen
    BY <1>2, MnldAssumption DEF MnldAssumption
  <1>4. /\ missed' \in BOOLEAN
        /\ UNCHANGED <<power, wakelock, halq>>
    BY DEF Crash, TypeOK
  <1> QED BY <1>1, <1>3, <1>4 DEF Crash, TypeOK, Registry, Records, GpsEvents, MainEvents

(* The requests of the users, from HalStart to HalUpdateNetworkState. *)
LEMMA RequestType == TypeOK /\ ClientRequest => TypeOK'
  <1> SUFFICES ASSUME TypeOK, ClientRequest PROVE TypeOK'
    OBVIOUS
  <1>1. /\ offload \in BOOLEAN /\ downloading \in BOOLEAN /\ epo \in {"none", "queued", "busy"}
        /\ mainq \in Seq(MainEvents) /\ Len(mainq) <= QLen
        /\ need_reset_ack \in BOOLEAN /\ delete_aiding_flag \in BOOLEAN
    BY DEF TypeOK, MainEvents
  <1>2. \A c : /\ Set(c, Opening(c)) \in Registry
               /\ Set(c, Closing(c)) \in Registry
               /\ Set(c, Closed) \in Registry
    BY RegistryType, Zenon
  <1>3. TriggerEpo => downloading' \in BOOLEAN /\ epo' \in {"none", "queued", "busy"}
    BY <1>1 DEF TriggerEpo, epoVars
  <1>4. CASE HalStart
    <2>1. FsmTypeOK'
      BY <1>2, <1>4, EventStartType DEF HalStart
    <2> QED BY <1>1, <1>3, <1>4, <2>1, FsmStepType DEF HalStart
  <1>5. CASE HalInit
    <2>1. /\ UNCHANGED <<alive, gps_state, client, need_reset_ack, delete_aiding_flag, wakelock,
                         halq, missed, armed, gpsq, offload, downloading, epo, mainq, expired,
                         gps_pc, mnl, broken>>
          /\ power' \in {"off", "on", "stuck"}
      BY <1>5 DEF HalInit, SwitchedOff, fsmVars, clientVars, halVars, epoVars
    <2> QED BY <2>1 DEF TypeOK
  <1>6. ASSUME NEW flags \in Flags, HalDeleteAidingData(flags)
        PROVE  TypeOK'
    <2>1. (delete_aiding_flag \/ flags) \in BOOLEAN
      OBVIOUS
    <2>2. FsmTypeOK'
      BY <1>1, <1>6, <2>1, EventResetType DEF HalDeleteAidingData
    <2> QED BY <1>1, <1>6, <2>2, FsmStepType DEF HalDeleteAidingData, epoVars
  <1>7. ASSUME NEW net \in Networks, HalUpdateNetworkState(net)
        PROVE  TypeOK'
    <2>1. downloading' \in BOOLEAN /\ epo' \in {"none", "queued", "busy"}
      BY <1>1, <1>3, <1>7 DEF HalUpdateNetworkState, epoVars
    <2>2. FsmTypeOK'
      BY <1>7, FsmType, SameHalType DEF HalUpdateNetworkState, FsmTypeOK, fsmVars, clientVars
    <2> QED BY <1>1, <1>7, <2>1, <2>2, FsmStepType DEF HalUpdateNetworkState
  <1>8. ASSUME NEW c \in Clients, ClientStart(c)
        PROVE  TypeOK'
    <2>1. FsmTypeOK'
      BY <1>2, <1>8, EventStartType DEF ClientStart
    <2> QED BY <1>1, <1>8, <2>1, FsmStepType DEF ClientStart, epoVars
  <1>9. ASSUME NEW c \in Clients, ClientStop(c)
        PROVE  TypeOK'
    <2>1. FsmTypeOK'
      BY <1>1, <1>2, <1>9, EventStopType DEF ClientStop
    <2> QED BY <1>1, <1>9, <2>1, FsmStepType DEF ClientStop, epoVars
  <1>10. ASSUME NEW mode \in Modes, FlpStart(mode) \/ FlpStop(mode)
         PROVE  TypeOK'
    <2>1. mode \in BOOLEAN
      BY MnldAssumption DEF MnldAssumption
    <2>2. CASE FlpStart(mode)
      <3>1. FsmTypeOK'
        BY <1>2, <2>2, EventStartType DEF FlpStart
      <3> QED BY <1>1, <2>1, <2>2, <3>1, FsmStepType DEF FlpStart, epoVars
    <2>3. CASE FlpStop(mode)
      <3>1. FsmTypeOK'
        BY <1>1, <1>2, <2>3, EventStopType DEF FlpStop
      <3> QED BY <1>1, <2>1, <2>3, <3>1, FsmStepType DEF FlpStop, epoVars
    <2> QED BY <1>10, <2>2, <2>3
  <1>11. ASSUME NEW c \in Clients, ClientReboot(c)
         PROVE  TypeOK'
    <2>1. (need_reset_ack /\ c # AGPS) \in BOOLEAN
      OBVIOUS
    <2>2. FsmTypeOK'
      BY <1>2, <1>11, <2>1, EventStopType DEF ClientReboot
    <2> QED BY <1>1, <1>11, <2>2, FsmStepType DEF ClientReboot, epoVars
  <1>12. CASE AgpsReset
    <2>1. FsmTypeOK'
      BY <1>12, EventResetType DEF AgpsReset
    <2> QED BY <1>1, <1>12, <2>1, FsmStepType DEF AgpsReset, epoVars
  <1> QED BY <1>4, <1>5, <1>6, <1>7, <1>8, <1>9, <1>10, <1>11, <1>12
          DEF ClientRequest, HalRequest

(* The main thread's own events. *)
LEMMA MainType == TypeOK /\ (MainThread \/ MainHandlerTimeout) => TypeOK'
  <1> SUFFICES ASSUME TypeOK, MainThread \/ MainHandlerTimeout PROVE TypeOK'
    OBVIOUS
  <1>1. /\ offload \in BOOLEAN /\ downloading \in BOOLEAN /\ epo \in {"none", "queued", "busy"}
        /\ mainq \in Seq(MainEvents) /\ Len(mainq) <= QLen
        /\ need_reset_ack \in BOOLEAN /\ FsmTypeOK
    BY FsmType DEF TypeOK, MainEvents
  <1>2. ASSUME mainq # <<>>
        PROVE  Tail(mainq) \in Seq(MainEvents) /\ Len(Tail(mainq)) <= QLen
    BY <1>1, <1>2, TailFacts
  <1>3. CASE MainStartDone
    BY <1>1, <1>2, <1>3, EventStartDoneType, FsmStepType
       DEF MainStartDone, MainRecv, epoVars
  <1>4. CASE MainStopDone
    <2>1. CASE Crash
      BY <2>1, CrashType
    <2>2. CASE EventStopDone /\ ~Crash
      BY <1>1, <1>2, <1>4, <2>2, EventStopDoneType, FsmStepType
         DEF MainStopDone, MainRecv, epoVars
    <2>3. CASE UNCHANGED fsmVars /\ ~Crash
      <3>1. FsmTypeOK'
        BY <1>1, <2>3, SameHalType DEF FsmTypeOK, fsmVars, clientVars
      <3> QED BY <1>1, <1>2, <1>4, <2>3, <3>1, FsmStepType DEF MainStopDone, MainRecv, epoVars
    <2> QED BY <1>4, <2>1, <2>2, <2>3 DEF MainStopDone
  <1>5. CASE MainResetDone
    <2>1. FsmTypeOK'
      BY <1>1, <1>5, SameHalType DEF MainResetDone, FsmTypeOK
    <2> QED BY <1>1, <1>2, <1>5, <2>1, FsmStepType DEF MainResetDone, MainRecv, epoVars
  <1>6. CASE MainNmeaTimeout
    <2>1. CASE EventStop([c \in Clients |-> [client[c] EXCEPT !.gps_used = FALSE]], need_reset_ack)
      <3>1. FsmTypeOK'
        BY <1>1, <2>1, RegistryType, EventStopType
      <3> QED BY <1>1, <1>2, <1>6, <3>1, FsmStepType DEF MainNmeaTimeout, MainRecv, epoVars
    <2>2. CASE UNCHANGED fsmVars
      <3>1. FsmTypeOK'
        BY <1>1, <2>2, SameHalType DEF FsmTypeOK, fsmVars, clientVars
      <3> QED BY <1>1, <1>2, <1>6, <3>1, FsmStepType DEF MainNmeaTimeout, MainRecv, epoVars
    <2> QED BY <1>6, <2>1, <2>2 DEF MainNmeaTimeout
  <1>7. CASE MainEpoDone
    <2>1. FsmTypeOK'
      BY <1>1, <1>7, SameHalType DEF MainEpoDone, FsmTypeOK, fsmVars, clientVars
    <2> QED BY <1>1, <1>2, <1>7, <2>1, FsmStepType DEF MainEpoDone, MainRecv
  <1>8. CASE MainHandlerTimeout
    BY <1>8, CrashType DEF MainHandlerTimeout
  <1> QED BY <1>3, <1>4, <1>5, <1>6, <1>7, <1>8 DEF MainThread

(* The GPS control thread. *)
LEMMA GpsType == TypeOK /\ GpsThread => TypeOK'
  <1> SUFFICES ASSUME TypeOK, GpsThread PROVE TypeOK'
    OBVIOUS
  <1>1. /\ mainq \in Seq(MainEvents) /\ Len(mainq) <= QLen
        /\ gpsq \in Seq(GpsEvents) /\ Len(gpsq) <= QLen
    BY DEF TypeOK, MainEvents, GpsEvents
  <1>2. ASSUME gpsq # <<>>
        PROVE  Tail(gpsq) \in Seq(GpsEvents) /\ Len(Tail(gpsq)) <= QLen
    BY <1>1, <1>2, TailFacts
  <1>3. ASSUME NEW m \in MainEvents
        PROVE  Send(mainq, m) \in Seq(MainEvents) /\ Len(Send(mainq, m)) <= QLen
    BY <1>1, <1>3, SendType
  <1> USE DEF otherVars, gpsVars, clientVars, halVars, epoVars, MainEvents, GpsEvents
  <1>4. CASE GpsRecvStart
    BY <1>2, <1>4 DEF GpsRecvStart, GpsRecv, TypeOK
  <1>5. CASE GpsRun
    BY <1>5 DEF GpsRun, TypeOK
  <1>6. CASE GpsStartFails
    <2>1. /\ UNCHANGED <<alive, gps_state, client, need_reset_ack, delete_aiding_flag, wakelock,
                         halq, missed, offload, downloading, epo, mainq, gpsq, armed, expired,
                         mnl, broken>>
          /\ gps_pc' = "wait" /\ power' \in {"off", "on", "stuck"}
      BY <1>6 DEF GpsStartFails, TypeOK
    <2> QED BY <2>1 DEF TypeOK
  <1>7. CASE GpsStarted
    <2>1. /\ UNCHANGED <<alive, gps_state, client, need_reset_ack, delete_aiding_flag, wakelock,
                         halq, missed, offload, downloading, epo, mainq, gpsq, armed, expired,
                         power>>
          /\ gps_pc' = "wait" /\ mnl' \in BOOLEAN /\ broken' \in BOOLEAN
      BY <1>7 DEF GpsStarted
    <2> QED BY <2>1 DEF TypeOK
  <1>8. CASE GpsRecvStop
    BY <1>2, <1>8 DEF GpsRecvStop, GpsRecv, TypeOK
  <1>9. CASE GpsStopped
    <2>1. power' \in {"off", "on", "stuck"} /\ Send(mainq, "STOP_DONE") \in Seq(MainEvents)
          /\ Len(Send(mainq, "STOP_DONE")) <= QLen
      BY <1>3, <1>9 DEF GpsStopped, SwitchedOff
    <2>2. /\ UNCHANGED <<alive, gps_state, client, need_reset_ack, delete_aiding_flag, wakelock,
                         halq, missed, offload, downloading, epo, gpsq, armed, expired>>
          /\ gps_pc' = "wait" /\ mnl' \in BOOLEAN /\ broken' \in BOOLEAN
          /\ mainq' = Send(mainq, "STOP_DONE")
      BY <1>9 DEF GpsStopped
    <2>3. mainq' \in Seq(MainEvents) /\ Len(mainq') <= QLen
      BY <2>1, <2>2
    <2> HIDE DEF MainEvents
    <2> QED BY <2>1, <2>2, <2>3 DEF TypeOK, MainEvents
  <1>10. CASE GpsStopFails
    <2>1. /\ UNCHANGED <<alive, gps_state, client, need_reset_ack, delete_aiding_flag, wakelock,
                         halq, missed, offload, downloading, epo, mainq, gpsq, armed, expired,
                         power>>
          /\ gps_pc' = "wait" /\ mnl' \in BOOLEAN /\ broken' \in BOOLEAN
      BY <1>10 DEF GpsStopFails
    <2> QED BY <2>1 DEF TypeOK
  <1>11. CASE GpsDeleteAidingData
    BY <1>2, <1>3, <1>11 DEF GpsDeleteAidingData, GpsRecv, TypeOK
  <1>12. CASE GpsNmeaData
    BY <1>2, <1>12 DEF GpsNmeaData, GpsRecv, TypeOK, Timers
  <1>13. CASE GpsHandlerTimeout
    BY <1>13, CrashType DEF GpsHandlerTimeout
  <1> QED BY <1>4, <1>5, <1>6, <1>7, <1>8, <1>9, <1>10, <1>11, <1>12, <1>13 DEF GpsThread

(* The library's callbacks, the EPO thread, the timers and init. *)
OtherThreads ==
    \/ MnlStartReq \/ MnlNotify \/ MnlRestartReq
    \/ EpoRecv \/ EpoDone
    \/ HalWakelock \/ HalDies
    \/ \E t \in Timers : Expire(t) \/ Callback(t)
    \/ Restart

LEMMA OtherType == TypeOK /\ OtherThreads => TypeOK'
  <1> SUFFICES ASSUME TypeOK, OtherThreads PROVE TypeOK'
    OBVIOUS
  <1>1. ASSUME NEW m \in MainEvents
        PROVE  Send(mainq, m) \in Seq(MainEvents) /\ Len(Send(mainq, m)) <= QLen
    BY <1>1, SendType DEF TypeOK, MainEvents
  <1>2. Send(gpsq, "NMEA_DATA") \in Seq(GpsEvents) /\ Len(Send(gpsq, "NMEA_DATA")) <= QLen
    BY SendType DEF TypeOK, GpsEvents
  <1> USE DEF fsmVars, otherVars, gpsVars, clientVars, halVars, epoVars, MainEvents, GpsEvents
  <1>3. CASE MnlStartReq
    BY <1>1, <1>3 DEF MnlStartReq, TypeOK
  <1>4. CASE MnlNotify
    BY <1>2, <1>4 DEF MnlNotify, TypeOK
  <1>5. CASE MnlRestartReq
    BY <1>1, <1>5 DEF MnlRestartReq, TypeOK
  <1>6. CASE EpoRecv
    BY <1>6 DEF EpoRecv, TypeOK
  <1>7. CASE EpoDone
    BY <1>1, <1>7 DEF EpoDone, TypeOK
  <1>8. ASSUME NEW t \in Timers, Expire(t)
        PROVE  TypeOK'
    BY <1>8 DEF Expire, TypeOK
  <1>9. ASSUME NEW t \in Timers, Callback(t)
        PROVE  TypeOK'
    <2>1. CASE TimeoutCrash(t)
      BY <2>1, CrashType DEF TimeoutCrash
    <2>2. CASE NmeaTimeout
      BY <1>1, <2>2 DEF NmeaTimeout, TypeOK
    <2> QED BY <1>9, <2>1, <2>2 DEF Callback
  <1>10. CASE Restart
    <2>1. /\ UNCHANGED <<gps_state, client, need_reset_ack, delete_aiding_flag, wakelock, halq,
                         missed, armed, gpsq, offload, downloading, epo, mainq, expired, gps_pc,
                         mnl, broken>>
          /\ alive' \in BOOLEAN /\ power' \in {"off", "on", "stuck"}
      BY <1>10 DEF Restart, SwitchedOff
    <2> QED BY <2>1 DEF TypeOK
  <1>11. CASE HalWakelock \/ HalDies
    <2>1. /\ UNCHANGED <<alive, gps_state, client, need_reset_ack, delete_aiding_flag, armed, gpsq,
                         offload, downloading, epo, mainq, expired, gps_pc, mnl, broken, power>>
          /\ wakelock' \in BOOLEAN /\ missed' \in BOOLEAN
      BY <1>11 DEF HalWakelock, HalDies, otherThanHal, TypeOK
    <2>2. halq' \in Seq(HalOrders) /\ Len(halq') <= HalQLen
      <3>1. halq \in Seq(HalOrders) /\ Len(halq) \in Nat /\ Len(halq) <= HalQLen /\ HalQLen \in Nat
        BY MnldAssumption DEF MnldAssumption, TypeOK, HalOrders
      <3>2. CASE HalWakelock
        <4>1. halq # <<>> /\ halq' = Tail(halq)
          BY <3>2 DEF HalWakelock
        <4> QED BY <3>1, <4>1
      <3>3. CASE HalDies
        BY <3>1, <3>3 DEF HalDies
      <3> QED BY <1>11, <3>2, <3>3
    <2> QED BY <2>1, <2>2 DEF TypeOK, HalOrders
  <1> QED BY <1>3, <1>4, <1>5, <1>6, <1>7, <1>8, <1>9, <1>10, <1>11 DEF OtherThreads

(* The actions of Next, by the thread that takes them. *)
LEMMA NextThreads ==
    Next <=> ClientRequest \/ MainThread \/ MainHandlerTimeout \/ GpsThread \/ OtherThreads
  BY DEF Next, OtherThreads

LEMMA TypeInit == Init => TypeOK
  <1> SUFFICES ASSUME Init PROVE TypeOK
    OBVIOUS
  <1>1. mainq \in Seq(MainEvents) /\ gpsq \in Seq(GpsEvents) /\ Len(mainq) <= QLen /\ Len(gpsq) <= QLen
    BY MnldAssumption DEF Init, MnldAssumption
  <1>2. Closed \in Records
    BY DEF Closed, Records
  <1>3. halq \in Seq(HalOrders) /\ Len(halq) <= HalQLen
    BY MnldAssumption DEF Init, MnldAssumption
  <1> QED BY <1>1, <1>2, <1>3 DEF Init, TypeOK, Timers, Records, MainEvents, GpsEvents, HalOrders

LEMMA TypeStep == TypeOK /\ [Next]_vars => TypeOK'
  <1> SUFFICES ASSUME TypeOK, [Next]_vars PROVE TypeOK'
    OBVIOUS
  <1>1. CASE Next
    BY <1>1, NextThreads, RequestType, MainType, GpsType, OtherType
  <1>2. CASE UNCHANGED vars
    BY <1>2 DEF vars, fsmVars, clientVars, halVars, epoVars, gpsVars, TypeOK
  <1> QED BY <1>1, <1>2

(* Every variable of the daemon keeps its type, and no socket overflows. *)
THEOREM TypeCorrect == Spec => []TypeOK
  BY TypeInit, TypeStep, PTL DEF Spec

=============================================================================
