------------------------------ MODULE MnldInv ------------------------------
(***************************************************************************)
(* Why the threads of mnld agree on the session, although they only meet   *)
(* through two sockets: the invariants from which the safety properties of *)
(* Mnld follow by induction.                                               *)
(***************************************************************************)
EXTENDS Mnld

Has(q, m)  == \E i \in 1..Len(q) : q[i] = m
Once(q, m) == \A i, j \in 1..Len(q) : q[i] = m /\ q[j] = m => i = j

(* The order in which a receiver that stops is heard: the answer to the stop *)
(* comes after every report that it is running.                              *)
LastIsStop(q) ==
    \A i, j \in 1..Len(q) : q[i] = "STOP_DONE" /\ q[j] = "START_DONE" => j < i

(* The library does not run, nor will the main thread read that it does. *)
Quiet == ~mnl /\ ~Has(mainq, "START_DONE")

(* A stop is at one place at a time: ordered, under way or reported; and as  *)
(* long as it is anywhere, the session is stopping.                          *)
StopHandshake ==
    /\ Has(gpsq, "STOP") => gps_state = "STOPPING" /\ gps_pc # "stop" /\ ~Has(mainq, "STOP_DONE")
    /\ gps_pc = "stop" => gps_state = "STOPPING" /\ ~Has(mainq, "STOP_DONE")
    /\ Has(mainq, "STOP_DONE") => gps_state = "STOPPING" /\ gps_pc = "wait" /\ ~mnl /\ power # "on"
    /\ Once(gpsq, "STOP")
    /\ Once(mainq, "STOP_DONE")
    /\ LastIsStop(mainq)

(* So is a start, in a session that is starting, and until the library runs  *)
(* nothing of an older session can be taken for its answer.                  *)
StartHandshake ==
    /\ Has(gpsq, "START") => gps_state = "STARTING" /\ gps_pc = "wait" /\ Quiet
    /\ gps_pc = "start" => gps_state = "STARTING" /\ ~Has(gpsq, "START") /\ Quiet
    /\ gps_pc = "signal" => mnl
    /\ gps_state = "IDLE" => gps_pc = "wait" /\ Quiet
    /\ Once(gpsq, "START")

(* The two handshakes between the main thread and the GPS control thread:    *)
(* main_event_hdlr() and gps_control_event_hdlr() never meet out of step.    *)
Handshakes == StopHandshake /\ StartHandshake

(* What the users are owed fits what they asked for and the session's state. *)
ClientsInv ==
    /\ AcksAreOwed
    /\ StartedIsKnown
    /\ gps_state = "IDLE" => client = [c \in Clients |-> Closed] /\ ~need_reset_ack

IInv == TypeOK /\ Handshakes /\ ClientsInv /\ WakelockTold /\ WatchdogsMatch

=============================================================================
