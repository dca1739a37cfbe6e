------------------------------- MODULE GpsHal -------------------------------
(***************************************************************************)
(* The GPS HAL (src/mtk/gps/gps_hal), which lives in the system server and *)
(* passes the framework's calls on to mnld.  It remembers what the         *)
(* framework wants (gps_state_intent); when mnld announces that it has     *)
(* restarted, or that it has thrown its users out, the HAL's worker thread *)
(* makes the wish known again.  The framework's thread and the worker send *)
(* without a lock: mutex_gps_state_intent is never taken.                  *)
(*                                                                         *)
(* Of mnld only the HAL's entry in the table of clients is kept; module    *)
(* Mnld says what the daemon does about it.                                *)
(*                                                                         *)
(* An operator no action uses is a faulty variant of the definition that   *)
(* follows it.                                                             *)
(***************************************************************************)
EXTENDS Naturals, Sequences

CONSTANTS
    QLen,        \* datagrams a socket holds
    MaxReboots,  \* announcements mnld makes in a behaviour
    Faults       \* "lost": a datagram is dropped after ten tries;
                 \* "resource": gpshal_resource_init() fails

ASSUME GpsHalAssumption ==
    /\ QLen \in Nat \ {0}
    /\ MaxReboots \in Nat
    /\ Faults \subseteq {"lost", "resource"}

VARIABLES
    intent,     \* g_gpshal_ctx.gps_state_intent: what we want
    state,      \* g_gpshal_ctx.gps_state: what we are
    at,         \* where the framework's thread and the worker are
    todo,       \* the requests each still has to send
    hal2mnl,    \* the socket mnld reads
    mnl2hal,    \* the socket the worker reads
    mnld,       \* the daemon: down, starting or up
    used,       \* clients.hal.gps_used in mnld
    reboots,    \* announcements so far
    asked,      \* has the framework, since it started, asked for a session
    overlap     \* has its last call met a replay of the worker

halVars  == <<intent, state, at, todo, asked, overlap>>
mnldVars == <<mnld, used, reboots>>
vars     == <<halVars, hal2mnl, mnl2hal, mnldVars>>

Threads  == {"framework", "worker"}
Requests == {"INIT", "START", "STOP", "CLEANUP"}
States   == Requests \cup {"UNKNOWN", "RESOURCE"}

TypeOK ==
    /\ intent \in States
    /\ state \in States
    /\ at \in [Threads -> {"down", "idle", "send", "note", "report"}]
    /\ todo \in [Threads -> Seq(Requests)]
    /\ \A t \in Threads : at[t] \in {"send", "note"} => todo[t] # <<>>
    /\ hal2mnl \in Seq(Requests \cup {"REBOOT"}) /\ Len(hal2mnl) <= QLen
    /\ mnl2hal \in Seq({"MNLD_REBOOT", "LOCATION"}) /\ Len(mnl2hal) <= QLen
    /\ mnld \in {"down", "starting", "up"}
    /\ used \in BOOLEAN
    /\ reboots \in 0..MaxReboots
    /\ asked \in BOOLEAN
    /\ overlap \in BOOLEAN

Init ==
    /\ intent = "UNKNOWN"
    /\ state = "UNKNOWN"
    /\ at = [t \in Threads |-> IF t = "framework" THEN "down" ELSE "idle"]
    /\ todo = [t \in Threads |-> <<>>]
    /\ hal2mnl = <<>>
    /\ mnl2hal = <<>>
    /\ mnld = "starting"
    /\ used = FALSE
    /\ reboots = 0
    /\ asked = FALSE
    /\ overlap = FALSE

-----------------------------------------------------------------------------
(* safe_sendto(): the sender waits for room, for a second; nobody answers at *)
(* an address that is not bound.                                             *)

RoomForOneMore(q) == Len(q) <= QLen
Room(q) == Len(q) < QLen

Delivered(request) == mnld # "down" /\ Room(hal2mnl) /\ hal2mnl' = Append(hal2mnl, request)

NotDelivered ==
    /\ mnld = "down" \/ (~Room(hal2mnl) /\ "lost" \in Faults)
    /\ UNCHANGED hal2mnl

(* gpshal_resource_init() binds the HAL's socket before the state changes. *)
Bound == state # "UNKNOWN"

Announce ==
    \/ Bound /\ Room(mnl2hal) /\ mnl2hal' = Append(mnl2hal, "MNLD_REBOOT")
    \/ (~Bound \/ (~Room(mnl2hal) /\ "lost" \in Faults)) /\ UNCHANGED mnl2hal

-----------------------------------------------------------------------------
(* gpshal2mnl_gps_init(), _start(), _stop() and _cleanup(), as called by     *)
(* either thread: send the request, and if that succeeds, note the state.    *)

Next1(t) ==
    /\ todo' = [todo EXCEPT ![t] = Tail(@)]
    /\ at' = [at EXCEPT ![t] = IF Len(todo[t]) = 1 THEN "idle" ELSE "send"]

SendRequest(t) ==
    /\ at[t] = "send"
    /\ \/ Bound /\ Delivered(Head(todo[t])) /\ at' = [at EXCEPT ![t] = "note"] /\ UNCHANGED todo
       \/ Bound /\ NotDelivered /\ Next1(t)
       \/ ~Bound /\ Next1(t) /\ UNCHANGED hal2mnl
    /\ UNCHANGED <<intent, state, asked, overlap, mnl2hal, mnldVars>>

NoteState(t) ==
    /\ at[t] = "note"
    /\ state' = Head(todo[t])
    /\ Next1(t)
    /\ UNCHANGED <<intent, asked, overlap, hal2mnl, mnl2hal, mnldVars>>

-----------------------------------------------------------------------------
(* The framework: GpsLocationProvider, on one thread of the system server.   *)

(* The system server starts and opens the HAL: hal2mnl_hal_reboot(). *)
FrameworkOpen ==
    /\ at["framework"] = "down"
    /\ at' = [at EXCEPT !["framework"] = "idle"]
    /\ Delivered("REBOOT") \/ NotDelivered
    /\ UNCHANGED <<intent, state, todo, asked, overlap, mnl2hal, mnldVars>>

(* gpshal_resource_init(), "at most once (no retry)". *)
FrameworkResource ==
    /\ at["framework"] = "idle"
    /\ intent = "UNKNOWN"
    /\ state = "UNKNOWN"
    /\ state' = "RESOURCE"
    /\ UNCHANGED <<intent, at, todo, asked, overlap, hal2mnl, mnl2hal, mnldVars>>

(* The order in which GpsLocationProvider calls; a first init has resources  *)
(* to go by, unless they could not be had.                                   *)
Allowed(request) ==
    \/ request = "INIT" /\ intent = "CLEANUP"
    \/ request = "INIT" /\ intent = "UNKNOWN" /\ (Bound \/ "resource" \in Faults)
    \/ request \in {"START", "CLEANUP"} /\ intent \in {"INIT", "STOP"}
    \/ request = "STOP" /\ intent = "START"

FrameworkCall(request) ==
    /\ at["framework"] = "idle"
    /\ Allowed(request)
    /\ intent' = request
    /\ asked' = (asked \/ request = "START")
    /\ overlap' = \/ at["worker"] \in {"send", "note"}
                  \/ overlap /\ request \notin {"START", "STOP"}
    /\ todo' = [todo EXCEPT !["framework"] = <<request>>]
    /\ at' = [at EXCEPT !["framework"] = "send"]
    /\ UNCHANGED <<state, hal2mnl, mnl2hal, mnldVars>>

(* The system server dies, and the HAL with it. *)
FrameworkCrash ==
    /\ at["framework"] # "down"
    /\ intent' = "UNKNOWN"
    /\ state' = "UNKNOWN"
    /\ at' = [t \in Threads |-> IF t = "framework" THEN "down" ELSE "idle"]
    /\ todo' = [t \in Threads |-> <<>>]
    /\ mnl2hal' = <<>>
    /\ asked' = FALSE
    /\ overlap' = FALSE
    /\ UNCHANGED <<hal2mnl, mnldVars>>

-----------------------------------------------------------------------------
(* The worker: gpshal_worker_thread(). *)

(* update_mnld_reboot(): what mnld has to be told to get where we want. *)
ReplayFallsThrough(wish) ==
    IF wish \in {"INIT", "STOP", "START"} THEN <<"INIT", "START">> ELSE <<>>
ReplayInitOnly(wish) ==
    IF wish \in {"INIT", "STOP", "START"} THEN <<"INIT">> ELSE <<>>
Replay(wish) ==
    CASE wish \in {"INIT", "STOP"} -> <<"INIT">>
      [] wish = "START"            -> <<"INIT", "START">>
      [] OTHER                     -> <<>>

WorkerReboot ==
    /\ Bound
    /\ at["worker"] = "idle"
    /\ mnl2hal # <<>> /\ Head(mnl2hal) = "MNLD_REBOOT"
    /\ mnl2hal' = Tail(mnl2hal)
    /\ todo' = [todo EXCEPT !["worker"] = Replay(intent)]
    /\ at' = [at EXCEPT !["worker"] = IF Replay(intent) = <<>> THEN "idle" ELSE "send"]
    /\ overlap' = (overlap \/ at["framework"] # "idle")
    /\ UNCHANGED <<intent, state, asked, hal2mnl, mnldVars>>

(* update_location() looks at the wish, then reports. *)
WorkerLocation ==
    /\ Bound
    /\ at["worker"] = "idle"
    /\ mnl2hal # <<>> /\ Head(mnl2hal) = "LOCATION"
    /\ mnl2hal' = Tail(mnl2hal)
    /\ at' = [at EXCEPT !["worker"] = IF intent = "START" THEN "report" ELSE "idle"]
    /\ UNCHANGED <<intent, state, todo, asked, overlap, hal2mnl, mnldVars>>

WorkerReport ==
    /\ at["worker"] = "report"
    /\ at' = [at EXCEPT !["worker"] = "idle"]
    /\ UNCHANGED <<intent, state, todo, asked, overlap, hal2mnl, mnl2hal, mnldVars>>

-----------------------------------------------------------------------------
(* mnld, as the HAL sees it. *)

(* hal_gps_start(), hal_gps_stop() and hal_reboot(). *)
UsedAfterNoReboot(request) ==
    IF request = "START" THEN TRUE ELSE IF request = "STOP" THEN FALSE ELSE used
UsedAfter(request) ==
    request = "START" \/ (used /\ request \notin {"STOP", "REBOOT"})

MnldRecv ==
    /\ mnld # "down"
    /\ hal2mnl # <<>>
    /\ hal2mnl' = Tail(hal2mnl)
    /\ used' = UsedAfter(Head(hal2mnl))
    /\ UNCHANGED <<halVars, mnl2hal, mnld, reboots>>

MnldCrash ==
    /\ mnld # "down"
    /\ reboots < MaxReboots
    /\ reboots' = reboots + 1
    /\ mnld' = "down"
    /\ used' = FALSE
    /\ hal2mnl' = <<>>
    /\ UNCHANGED <<halVars, mnl2hal>>

(* mnld_init() binds its sockets and starts its main thread, then announces *)
(* itself.                                                                  *)
MnldRestart ==
    /\ mnld = "down"
    /\ mnld' = "starting"
    /\ UNCHANGED <<halVars, hal2mnl, mnl2hal, used, reboots>>

MnldAnnounce ==
    /\ mnld = "starting"
    /\ mnld' = "up"
    /\ Announce
    /\ UNCHANGED <<halVars, hal2mnl, used, reboots>>

(* GPS2MAIN_EVENT_NMEA_TIMEOUT, in anybody's session: everybody is thrown out *)
(* and told to return.                                                        *)
MnldNmeaTimeout ==
    /\ mnld # "down"
    /\ reboots < MaxReboots
    /\ reboots' = reboots + 1
    /\ used' = FALSE
    /\ Announce
    /\ UNCHANGED <<halVars, hal2mnl, mnld>>

(* A position, in anybody's session or from the network. *)
MnldLocation ==
    /\ mnld # "down"
    /\ Bound /\ Room(mnl2hal)
    /\ mnl2hal' = Append(mnl2hal, "LOCATION")
    /\ UNCHANGED <<halVars, hal2mnl, mnldVars>>

-----------------------------------------------------------------------------
Framework == SendRequest("framework") \/ NoteState("framework") \/ FrameworkOpen \/ FrameworkResource
Worker    == SendRequest("worker") \/ NoteState("worker") \/ WorkerReboot \/ WorkerLocation \/ WorkerReport

Next ==
    \/ Framework \/ (\E request \in Requests : FrameworkCall(request)) \/ FrameworkCrash
    \/ Worker
    \/ MnldRecv \/ MnldCrash \/ MnldRestart \/ MnldAnnounce \/ MnldNmeaTimeout \/ MnldLocation

(* The threads run; what the framework calls and when is its own affair.  A  *)
(* sender that waits for room tries again and again.                         *)
Fairness ==
    /\ WF_vars(Framework)
    /\ WF_vars(Worker)
    /\ WF_vars(MnldRecv)
    /\ WF_vars(MnldRestart)
    /\ SF_vars(MnldAnnounce)

Spec == Init /\ [][Next]_vars
FairSpec == Spec /\ Fairness

-----------------------------------------------------------------------------
Has(q, m) == \E i \in 1..Len(q) : q[i] = m

(* The daemon will read that the HAL has restarted after it reads a start. *)
StartsRevoked(q) ==
    \A i \in 1..Len(q) : q[i] = "START" => \E j \in 1..Len(q) : i < j /\ q[j] = "REBOOT"

(* A framework that has just started inherits no session: until it asks for *)
(* one the daemon has none for it, or is about to read that it restarted,   *)
(* and no start of the HAL's previous life is read after that.              *)
OnlyOnRequest ==
    ~asked /\ at["framework"] # "down" =>
        /\ used => Has(hal2mnl, "REBOOT")
        /\ StartsRevoked(hal2mnl)

(* Why that is so: neither thread is on its way to send a start nobody has  *)
(* asked for, the HAL of a system server that is down has no socket, and a  *)
(* daemon that is down remembers nothing.                                   *)
NothingUnasked ==
    /\ ~asked => intent # "START" /\ \A t \in Threads : ~Has(todo[t], "START")
    /\ at["framework"] = "down" => ~asked /\ at["worker"] = "idle" /\ state = "UNKNOWN"
    /\ mnld = "down" => ~used /\ hal2mnl = <<>>

(* Nothing is under way between the framework and a daemon that is up. *)
AtRest ==
    /\ mnld = "up"
    /\ hal2mnl = <<>> /\ mnl2hal = <<>>
    /\ \A t \in Threads : at[t] = "idle"

(* "What we want" (gpshal.h): at rest, the daemon serves the framework if    *)
(* and only if it wants to be served, unless the last call met the worker    *)
(* while it was making the wish known (update_mnld_reboot()).                *)
WishGranted == AtRest /\ Bound /\ ~overlap => (used <=> intent = "START")

(* "What we are, but we may fail to change it" (gpshal.h): at rest, when no  *)
(* request has failed, a session that runs is known to run.                  *)
WhatWeAre == AtRest /\ Bound /\ used => state = "START"

(* Whoever wants a session gets it, whatever becomes of mnld in between, if  *)
(* the HAL has its resources.                                                *)
WishServed == (intent = "START" /\ Bound) ~> (used \/ intent # "START")

=============================================================================
