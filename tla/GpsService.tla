----------------------------- MODULE GpsService -----------------------------
(***************************************************************************)
(* What mnld promises to the users of the receiver, whatever its threads,  *)
(* queues and timers do: an open request is answered while the receiver    *)
(* runs, it is not switched off under anybody whose session is open, and a *)
(* close request is answered once it is off or while somebody else uses    *)
(* it.  There is one exception: a receiver may break down while it warms   *)
(* up, and who asks for it before it is switched off is told nothing of    *)
(* that.  The daemon may die at any time; then every session is gone.      *)
(***************************************************************************)

CONSTANTS
    Clients,    \* the users of the receiver
    AckUsers    \* those that are told when their session opens and closes

VARIABLES
    view,       \* what each user may believe of its session
    engine      \* the receiver: off, warming up, on or broken down

vars == <<view, engine>>

Views == {"closed", "opening", "open", "closing"}

Used(c) == view[c] \in {"opening", "open"}

Init ==
    /\ view = [c \in Clients |-> "closed"]
    /\ engine = "off"

(* A user asks for the receiver: it is told at once if that is possible. *)
Open(c) ==
    /\ \/ c \in AckUsers /\ view' = [view EXCEPT ![c] = "opening"]
       \/ (c \in AckUsers => engine # "off") /\ view' = [view EXCEPT ![c] = "open"]
    /\ UNCHANGED engine

Close(c) ==
    /\ view' = [view EXCEPT ![c] = IF c \in AckUsers THEN "closing" ELSE "closed"]
    /\ UNCHANGED engine

(* The answer may come with the request, and with everybody else's. *)
Closed(cs) == [d \in Clients |-> IF d \in cs \/ view[d] = "closing" THEN "closed" ELSE view[d]]

AnswerClose(cs) ==
    /\ view' = Closed(cs)
    /\ engine = "off" \/ \E d \in Clients : view'[d] \in {"opening", "open"}
    /\ UNCHANGED engine

AnswerOpen ==
    /\ engine # "off"
    /\ view' = [c \in Clients |-> IF view[c] = "opening" THEN "open" ELSE view[c]]
    /\ UNCHANGED engine

SwitchOn ==
    /\ engine \in {"off", "broken"}
    /\ engine' = "warming"
    /\ UNCHANGED view

(* The start is over: the receiver runs, or it has been taken down again. *)
WarmedUp ==
    /\ engine = "warming"
    /\ engine' \in {"on", "broken"}
    /\ UNCHANGED view

SwitchOff ==
    /\ \A c \in AckUsers : view[c] # "open"
    /\ engine' = "off"
    /\ UNCHANGED view

(* The receiver gives no data: its users lose their sessions. *)
ThrowOut ==
    /\ view' = [c \in Clients |-> IF Used(c) THEN "closed" ELSE view[c]]
    /\ UNCHANGED engine

(* A user's process restarts and wants nothing any more. *)
Forget(c) ==
    /\ view' = [view EXCEPT ![c] = "closed"]
    /\ UNCHANGED engine

Die ==
    /\ view' = [c \in Clients |-> "closed"]
    /\ engine' = "off"

Next ==
    \/ \E c \in Clients : Open(c) \/ Close(c) \/ AnswerClose({c}) \/ Forget(c)
    \/ AnswerClose({})
    \/ AnswerOpen \/ SwitchOn \/ WarmedUp \/ SwitchOff \/ ThrowOut \/ Die

Spec == Init /\ [][Next]_vars

=============================================================================
