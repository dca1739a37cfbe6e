------------------------------ MODULE WifiHal ------------------------------
(***************************************************************************)
(* The wifi HAL (src/wifi_hal), which the wifi service loads: a thread in  *)
(* wifi_event_loop() hands the kernel's events to the commands that        *)
(* registered for them, while the service's own thread starts and cancels  *)
(* commands and at last cleans up.                                         *)
(*                                                                         *)
(* A command is a WifiCommand with a count of references.  The table of    *)
(* handlers is guarded by cb_lock; the table of commands is not.  What     *)
(* separates the kinds of commands is the order in which they ask the      *)
(* driver and register: that order is the data of StartOf and CancelOf.    *)
(*                                                                         *)
(* An operator no action uses is a faulty variant of the definition that   *)
(* follows it.                                                             *)
(***************************************************************************)
EXTENDS Naturals, Sequences, FiniteSets

CONSTANTS
    Kinds,         \* the kinds of commands the service uses
    MaxCommands,   \* commands started in a behaviour
    MaxHandlers,   \* DEFAULT_EVENT_CB_SIZE
    MaxListed      \* DEFAULT_CMD_SIZE

AllKinds == {"scan", "full", "hotlist", "change", "epno", "anqpo", "rssi", "rtt", "log", "alert"}

ASSUME WifiHalAssumption ==
    /\ Kinds \subseteq AllKinds
    /\ MaxCommands \in Nat
    /\ MaxHandlers \in Nat
    /\ MaxListed \in Nat

VARIABLES
    kind,       \* the commands, in the order they were allocated, by their kind
    refs,       \* mRefs of each; a command is deleted at 0
    event_cb,   \* the table of handlers: which command asked for which key
    listed,     \* the table of commands; its order says nothing
    api,        \* the service's call in progress
    loop,       \* the event thread, and the command it runs
    torn,       \* one thread has left the table of commands while the other is in it
    info,       \* clean_up, in_event_loop, exit_sockets, and whether info is freed
    current,    \* the service's command of each kind, 0 when it has none
    mishaps     \* what has gone wrong so far
vars == <<kind, refs, event_cb, listed, api, loop, torn, info, current, mishaps>>

Commands == 1..MaxCommands
Keys == {"results", "complete", "full", "found", "lost", "change", "epno", "match", "rssi",
         "rtt", "ring", "dump"}
Mishaps == {"full",      \* a handler found no room in its table, which nobody noticed
            "unlisted",  \* a command found none in its own, which nobody noticed
            "clash",     \* both threads were in the table of commands at once
            "late",      \* a ranging that ended unregistered the handler of the next one
            "busy",      \* the clean-up met a loop that was not waiting in poll()
            "dead",      \* an event was handed to a command that had been deleted
            "touched"}   \* info was used or freed again after it had been freed

-----------------------------------------------------------------------------
(* The steps of start() and cancel().  Ask(undo) is a request to the driver  *)
(* that, when it fails, ends the call after it unregistered undo; after      *)
(* Try, the call goes on whatever the answer.  That a message cannot even be *)
(* built, for want of memory, is left out.                                   *)

On(key)   == [do |-> "on", keys |-> <<key>>]
Off(key)  == [do |-> "off", keys |-> <<key>>]
Ask(undo) == [do |-> "ask", keys |-> undo]
Try       == [do |-> "try", keys |-> <<>>]

Steps == [do : {"on", "off"}, keys : {<<key>> : key \in Keys}]
             \cup [do : {"ask", "try"}, keys : Seq(Keys)]

ScanStart == <<Ask(<<>>), Ask(<<>>), On("results"), On("complete"), On("full"),
               Ask(<<"complete", "results", "full">>)>>
FullStart    == <<On("full"), Ask(<<"full">>)>>
HotlistStart == <<Ask(<<"found", "lost">>), On("found"), On("lost"), Ask(<<"found", "lost">>)>>
ChangeStart  == <<Ask(<<>>), On("change"), Ask(<<"change">>)>>
EpnoStart    == <<Ask(<<"epno">>), On("epno")>>
AnqpoStart   == <<On("match"), Ask(<<"match">>)>>
RssiStart    == <<Ask(<<>>), On("rssi")>>
RttStart     == <<Ask(<<>>), On("rtt")>>
LogStart     == <<On("ring")>>
AlertStart   == <<On("dump")>>

StartOf(k) ==
    CASE k = "scan" -> ScanStart [] k = "full" -> FullStart [] k = "hotlist" -> HotlistStart
      [] k = "change" -> ChangeStart [] k = "epno" -> EpnoStart [] k = "anqpo" -> AnqpoStart
      [] k = "rssi" -> RssiStart [] k = "rtt" -> RttStart [] k = "log" -> LogStart
      [] OTHER -> AlertStart

ScanCancel    == <<Try, Off("complete"), Off("results"), Off("full")>>
FullCancel    == <<Try, Off("full")>>
HotlistCancelAsksFirst == <<Ask(<<>>), Off("found"), Off("lost")>>
HotlistCancel == <<Off("found"), Off("lost"), Ask(<<>>)>>
ChangeCancel  == <<Off("change"), Ask(<<>>)>>
EpnoCancel    == <<Off("epno"), Ask(<<>>)>>
AnqpoCancel   == <<Try, Off("match")>>
RssiCancelCopied == <<Try, Off("rtt")>>
RssiCancel    == <<Try, Off("rssi")>>
RttCancel     == <<Try, Off("rtt")>>
LogCancel     == <<Ask(<<>>), Off("ring")>>

CancelOf(k) ==
    CASE k = "scan" -> ScanCancel [] k = "full" -> FullCancel [] k = "hotlist" -> HotlistCancel
      [] k = "change" -> ChangeCancel [] k = "epno" -> EpnoCancel [] k = "anqpo" -> AnqpoCancel
      [] k = "rssi" -> RssiCancel [] k = "rtt" -> RttCancel [] OTHER -> LogCancel

(* What a failing start leaves listed: nobody unregisters the command. *)
StaysListed == {"rtt", "rssi"}

(* Cancelled through a new command made for the purpose: always, or when the *)
(* id is -1.                                                                 *)
ByDummy == {"rtt", "log", "scan", "full", "epno", "rssi"}
ById    == AllKinds \ {"rtt", "log", "alert"}

-----------------------------------------------------------------------------
(* The tables.                                                               *)

Positions(table, key) == {i \in DOMAIN table : table[i].key = key}

First(table, key) == {i \in Positions(table, key) : \A j \in Positions(table, key) : i <= j}

Without(seq, i) == SubSeq(seq, 1, i - 1) \o SubSeq(seq, i + 1, Len(seq))

(* wifi_unregister_vendor_handler(): the first of that key, whoever owns it. *)
Unregister(key) ==
    \/ Positions(event_cb, key) = {} /\ UNCHANGED event_cb
    \/ \E i \in First(event_cb, key) : event_cb' = Without(event_cb, i)

(* wifi_register_vendor_handler(): false is returned, and ignored, if full. *)
Registered(table, key, c) ==
    IF Len(table) < MaxHandlers THEN Append(table, [key |-> key, cmd |-> c]) ELSE table

RegisteredKeys(c) == {event_cb[i].key : i \in {j \in DOMAIN event_cb : event_cb[j].cmd = c}}

KeysOf(k) == LET on == {i \in DOMAIN StartOf(k) : StartOf(k)[i].do = "on"}
             IN {StartOf(k)[i].keys[1] : i \in on}

-----------------------------------------------------------------------------
(* The types.                                                                *)

InTable == {"list", "fail", "unlist"}
Calls   == InTable \cup {"none", "start", "undo", "cancel", "dummy", "clean", "done"}
Places  == {"out", "enter", "poll", "call", "report", "unlist", "drop", "return", "check",
            "leave", "done"}
Running == {"call", "report", "unlist", "drop", "return"}

Handler == [key : Keys, cmd : Commands]
Call    == [call : Calls, cmd : {0} \cup Commands, of : AllKinds, steps : Seq(Steps)]
Thread  == [at : Places, cmd : {0} \cup Commands]
Info    == [clean_up : BOOLEAN, in_event_loop : BOOLEAN,
            exit : {"closed", "open", "signalled"}, freed : BOOLEAN]

TypeOK ==
    /\ kind \in [Commands -> AllKinds \cup {"none"}]
    /\ refs \in [Commands -> Nat]
    /\ event_cb \in Seq(Handler)
    /\ listed \subseteq Commands
    /\ api \in Call
    /\ loop \in Thread
    /\ torn \in BOOLEAN
    /\ info \in Info
    /\ current \in [AllKinds -> {0} \cup Commands]
    /\ mishaps \subseteq Mishaps

(* What wifi_initialize() leaves. *)
Init ==
    /\ kind = [c \in Commands |-> "none"]
    /\ refs = [c \in Commands |-> 0]
    /\ event_cb = <<>>
    /\ listed = {}
    /\ api = [call |-> "none", cmd |-> 0, of |-> "scan", steps |-> <<>>]
    /\ loop = [at |-> "out", cmd |-> 0]
    /\ torn = FALSE
    /\ info = [clean_up |-> FALSE, in_event_loop |-> FALSE, exit |-> "closed", freed |-> FALSE]
    /\ current = [k \in AllKinds |-> 0]
    /\ mishaps = {}

-----------------------------------------------------------------------------
(* wifi_register_cmd() and wifi_unregister_cmd() take no lock.  While one    *)
(* thread is in the table alone it does what it means to; when both are,     *)
(* entries may be lost, kept or restored.                                    *)

Clash == torn \/ (api.call \in InTable /\ loop.at = "unlist")

TableBecomes(new) ==
    \/ ~Clash /\ listed' = new /\ UNCHANGED mishaps
    \/ Clash /\ listed' \in SUBSET (listed \cup new) /\ mishaps' = mishaps \cup {"clash"}

UnlistedFrom(c) == {d \in listed : d < c}
Unlisted(c) == listed \ {c}

RefAdded(c)    == [refs EXCEPT ![c] = @ + 1]
RefReleased(c) == [refs EXCEPT ![c] = @ - 1]

-----------------------------------------------------------------------------
(* The service's thread: WifiNative, whose calls follow one another and      *)
(* which has one command of a kind at a time.                                *)

Usable == api.call = "none" /\ ~info.clean_up

New(c) == kind[c] = "none" /\ \A d \in 1..(c - 1) : kind[d] # "none"

(* wifi_start_gscan() and its like allocate the command... *)
ApiStart(k) ==
    /\ Usable
    /\ current[k] = 0
    /\ \E c \in Commands :
          /\ New(c)
          /\ kind' = [kind EXCEPT ![c] = k]
          /\ refs' = [refs EXCEPT ![c] = 1]
          /\ current' = [current EXCEPT ![k] = c]
          /\ api' = [call |-> "list", cmd |-> c, of |-> k, steps |-> StartOf(k)]
    /\ UNCHANGED <<event_cb, listed, loop, torn, info, mishaps>>

(* ... list it, if there is room, which they do not look at... *)
ApiList ==
    /\ api.call = "list"
    /\ api' = [api EXCEPT !.call = "start"]
    /\ torn' = (loop.at = "unlist")
    /\ \/ Cardinality(listed) < MaxListed /\ TableBecomes(listed \cup {api.cmd})
       \/ /\ Cardinality(listed) >= MaxListed
          /\ mishaps' = mishaps \cup {"unlisted"}
          /\ UNCHANGED listed
    /\ UNCHANGED <<kind, refs, event_cb, loop, info, current>>

(* ... and call its start(); cancelling calls cancel() of the command, or of *)
(* another one made for it.  These steps are the ones of either, and of what *)
(* a start() that is refused undoes.                                         *)
InSteps(do) ==
    /\ api.call \in {"start", "undo", "cancel", "dummy"}
    /\ api.steps # <<>>
    /\ Head(api.steps).do = do

Onward == api' = [api EXCEPT !.steps = Tail(@)]

ApiRegister ==
    /\ InSteps("on")
    /\ Onward
    /\ event_cb' = Registered(event_cb, Head(api.steps).keys[1], api.cmd)
    /\ mishaps' = IF event_cb' = event_cb THEN mishaps \cup {"full"} ELSE mishaps
    /\ UNCHANGED <<kind, refs, listed, loop, torn, info, current>>

ApiUnregister ==
    /\ InSteps("off")
    /\ Onward
    /\ Unregister(Head(api.steps).keys[1])
    /\ UNCHANGED <<kind, refs, listed, loop, torn, info, current, mishaps>>

ApiAnswered ==
    /\ InSteps("ask") \/ InSteps("try")
    /\ Onward
    /\ UNCHANGED <<kind, refs, event_cb, listed, loop, torn, info, current, mishaps>>

Undo(keys) == [i \in 1..Len(keys) |-> Off(keys[i])]

ApiRefused ==
    /\ InSteps("ask")
    /\ api' = IF api.call = "start"
                 THEN [api EXCEPT !.call = "undo", !.steps = Undo(Head(api.steps).keys)]
                 ELSE [api EXCEPT !.steps = <<>>]
    /\ current' = [current EXCEPT ![api.of] = 0]
    /\ UNCHANGED <<kind, refs, event_cb, listed, loop, torn, info, mishaps>>

ApiUndone ==
    /\ api.call = "undo"
    /\ api.steps = <<>>
    /\ api' = [api EXCEPT !.call = IF api.of \in StaysListed THEN "none" ELSE "fail"]
    /\ UNCHANGED <<kind, refs, event_cb, listed, loop, torn, info, current, mishaps>>

(* A command that failed to start is unlisted, but nobody releases it. *)
ApiFail ==
    /\ api.call = "fail"
    /\ api' = [api EXCEPT !.call = "none"]
    /\ TableBecomes(Unlisted(api.cmd))
    /\ torn' = (loop.at = "unlist")
    /\ UNCHANGED <<kind, refs, event_cb, loop, info, current>>

ApiStarted ==
    /\ api.call = "start"
    /\ api.steps = <<>>
    /\ api' = [api EXCEPT !.call = "none"]
    /\ UNCHANGED <<kind, refs, event_cb, listed, loop, torn, info, current, mishaps>>

(* wifi_cancel_cmd(). *)
ApiCancel(k) ==
    /\ Usable
    /\ k \in ById
    /\ current[k] # 0
    /\ api' = [call |-> "unlist", cmd |-> current[k], of |-> k, steps |-> <<>>]
    /\ current' = [current EXCEPT ![k] = 0]
    /\ UNCHANGED <<kind, refs, event_cb, listed, loop, torn, info, mishaps>>

ApiUnlist ==
    /\ api.call = "unlist"
    /\ TableBecomes(Unlisted(api.cmd))
    /\ torn' = (loop.at = "unlist")
    /\ api' = IF api.cmd \in listed
                 THEN [api EXCEPT !.call = "cancel", !.steps = CancelOf(api.of)]
                 ELSE [api EXCEPT !.call = "none"]
    /\ UNCHANGED <<kind, refs, event_cb, loop, info, current>>

ApiCancelled ==
    /\ api.call \in {"cancel", "dummy"}
    /\ api.steps = <<>>
    /\ api' = [api EXCEPT !.call = "none"]
    /\ refs' = IF api.call = "cancel" THEN RefReleased(api.cmd) ELSE refs
    /\ UNCHANGED <<kind, event_cb, listed, loop, torn, info, current, mishaps>>

(* wifi_stop_gscan(-1), wifi_rtt_range_cancel(), wifi_reset_log_handler():   *)
(* the command itself stays where it is.                                     *)
ApiDummy(k) ==
    /\ Usable
    /\ k \in ByDummy
    /\ current[k] # 0
    /\ api' = [call |-> "dummy", cmd |-> 0, of |-> k, steps |-> CancelOf(k)]
    /\ current' = [current EXCEPT ![k] = 0]
    /\ UNCHANGED <<kind, refs, event_cb, listed, loop, torn, info, mishaps>>

(* wifi_cleanup(), up to the test of in_event_loop. *)
ApiCleanUp ==
    /\ Usable
    /\ info' = [info EXCEPT !.clean_up = TRUE]
    /\ api' = [api EXCEPT !.call = "clean"]
    /\ mishaps' = IF loop.at = "poll" THEN mishaps ELSE mishaps \cup {"busy"}
    /\ UNCHANGED <<kind, refs, event_cb, listed, loop, torn, current>>

LoopNeverRuns == FALSE
LoopRuns == info.in_event_loop /\ info.exit # "closed"

ApiSignal ==
    /\ api.call = "clean"
    /\ api' = [api EXCEPT !.call = "done"]
    /\ info' = IF LoopRuns THEN [info EXCEPT !.exit = "signalled"]
                           ELSE [info EXCEPT !.freed = TRUE]
    /\ mishaps' = IF info.freed THEN mishaps \cup {"touched"} ELSE mishaps
    /\ UNCHANGED <<kind, refs, event_cb, listed, loop, torn, current>>

-----------------------------------------------------------------------------
(* The event thread: wifi_event_loop().                                      *)

At(place) == loop.at = place /\ ~info.freed
GoTo(place) == loop' = [loop EXCEPT !.at = place]

(* socketpair() comes first, in_event_loop after it. *)
LoopOpen ==
    /\ At("out")
    /\ GoTo("enter")
    /\ info' = [info EXCEPT !.exit = "open"]
    /\ UNCHANGED <<kind, refs, event_cb, listed, api, torn, current, mishaps>>

LoopEnter ==
    /\ At("enter")
    /\ GoTo("poll")
    /\ info' = [info EXCEPT !.in_event_loop = TRUE]
    /\ UNCHANGED <<kind, refs, event_cb, listed, api, torn, current, mishaps>>

(* poll(): the exit socket goes first. *)
LoopExit ==
    /\ At("poll")
    /\ info.exit = "signalled"
    /\ GoTo("leave")
    /\ UNCHANGED <<kind, refs, event_cb, listed, api, torn, info, current, mishaps>>

(* internal_valid_message_handler(): under cb_lock, the first handler of the *)
(* event's key is found and its command kept alive, if it still is; if it is *)
(* not, the loop is not followed further.                                    *)
DispatchUncounted(c) == UNCHANGED refs
Dispatch(c) == refs' = RefAdded(c)

Met == IF api.call = "clean" THEN mishaps \cup {"busy"} ELSE mishaps

LoopEvent(key) ==
    /\ At("poll")
    /\ info.exit # "signalled"
    /\ \/ /\ Positions(event_cb, key) = {}
          /\ loop' = [loop EXCEPT !.at = "check"]
          /\ mishaps' = Met
          /\ UNCHANGED refs
       \/ \E i \in First(event_cb, key) :
             LET c == event_cb[i].cmd
             IN \/ /\ refs[c] > 0
                   /\ loop' = [at |-> "call", cmd |-> c]
                   /\ mishaps' = Met
                   /\ Dispatch(c)
                \/ /\ refs[c] = 0
                   /\ loop' = [at |-> "done", cmd |-> 0]
                   /\ mishaps' = Met \cup {"dead"}
                   /\ UNCHANGED refs
    /\ UNCHANGED <<kind, event_cb, listed, api, torn, info, current>>

(* handleEvent() of most commands reports and changes nothing here. *)
LoopHandle ==
    /\ At("call")
    /\ GoTo("return")
    /\ UNCHANGED <<kind, refs, event_cb, listed, api, torn, info, current, mishaps>>

(* RttCommand::handleEvent() when the ranging is complete: it unregisters... *)
LoopRttEnds ==
    /\ At("call")
    /\ kind[loop.cmd] = "rtt"
    /\ GoTo("report")
    /\ Unregister("rtt")
    /\ mishaps' = IF \E i \in First(event_cb, "rtt") : event_cb[i].cmd # loop.cmd
                     THEN mishaps \cup {"late"} ELSE mishaps
    /\ UNCHANGED <<kind, refs, listed, api, torn, info, current>>

(* ... reports, whereupon the service forgets the command... *)
LoopRttReports ==
    /\ At("report")
    /\ GoTo("unlist")
    /\ current' = IF current["rtt"] = loop.cmd THEN [current EXCEPT !["rtt"] = 0] ELSE current
    /\ UNCHANGED <<kind, refs, event_cb, listed, api, torn, info, mishaps>>

(* ... and takes the command, which is itself, off the list and releases it. *)
LoopRttUnlists ==
    /\ At("unlist")
    /\ GoTo(IF loop.cmd \in listed THEN "drop" ELSE "return")
    /\ TableBecomes(Unlisted(loop.cmd))
    /\ torn' = (api.call \in InTable)
    /\ UNCHANGED <<kind, refs, event_cb, api, info, current>>

LoopRttReleases ==
    /\ At("drop")
    /\ GoTo("return")
    /\ refs' = RefReleased(loop.cmd)
    /\ UNCHANGED <<kind, event_cb, listed, api, torn, info, current, mishaps>>

LoopReturn ==
    /\ At("return")
    /\ loop' = [at |-> "check", cmd |-> 0]
    /\ refs' = RefReleased(loop.cmd)
    /\ UNCHANGED <<kind, event_cb, listed, api, torn, info, current, mishaps>>

(* while (!info->clean_up) *)
LoopCheck ==
    /\ At("check")
    /\ GoTo(IF info.clean_up THEN "leave" ELSE "poll")
    /\ UNCHANGED <<kind, refs, event_cb, listed, api, torn, info, current, mishaps>>

LoopLeave ==
    /\ At("leave")
    /\ info.in_event_loop
    /\ info' = [info EXCEPT !.in_event_loop = FALSE]
    /\ UNCHANGED <<kind, refs, event_cb, listed, api, loop, torn, current, mishaps>>

LoopForgetsToFree == UNCHANGED info
LoopFrees == info' = [info EXCEPT !.freed = TRUE]

LoopCleansUp ==
    /\ At("leave")
    /\ ~info.in_event_loop
    /\ GoTo("done")
    /\ LoopFrees
    /\ UNCHANGED <<kind, refs, event_cb, listed, api, torn, current, mishaps>>

(* The loop goes on, or begins, with an info that has been freed. *)
LoopTouches ==
    /\ info.freed
    /\ loop.at # "done"
    /\ loop' = [at |-> "done", cmd |-> 0]
    /\ mishaps' = mishaps \cup {"touched"}
    /\ UNCHANGED <<kind, refs, event_cb, listed, api, torn, info, current>>

-----------------------------------------------------------------------------
Service ==
    \/ \E k \in Kinds : ApiStart(k) \/ ApiCancel(k) \/ ApiDummy(k)
    \/ ApiCleanUp

ApiStep ==
    \/ ApiList \/ ApiRegister \/ ApiUnregister \/ ApiAnswered \/ ApiRefused \/ ApiUndone \/ ApiFail
    \/ ApiStarted \/ ApiUnlist \/ ApiCancelled \/ ApiSignal

LoopStep ==
    \/ LoopOpen \/ LoopEnter \/ LoopExit
    \/ LoopHandle \/ LoopRttEnds \/ LoopRttReports \/ LoopRttUnlists \/ LoopRttReleases
    \/ LoopReturn \/ LoopCheck \/ LoopLeave \/ LoopCleansUp \/ LoopTouches

Ended == api.call = "done" /\ loop.at = "done" /\ UNCHANGED vars

Next ==
    \/ Service
    \/ ApiStep
    \/ LoopStep
    \/ \E key \in Keys : LoopEvent(key)
    \/ Ended

Spec == Init /\ [][Next]_vars

(* The driver answers a request, and the system runs the event thread. *)
FairSpec == Spec /\ WF_vars(ApiStep) /\ WF_vars(LoopStep)

-----------------------------------------------------------------------------
(* A command that is registered for events exists: cancelling removes its    *)
(* handlers before it drops the last reference, whatever the driver answers  *)
(* and whenever an event arrives; unless the table of commands has forgotten *)
(* one, whose handlers then stay in the way of the next of its kind.         *)
Forgotten == mishaps \cap {"unlisted", "clash"} # {}

HandlersAlive == Forgotten \/ \A i \in DOMAIN event_cb : refs[event_cb[i].cmd] > 0

(* The command whose handleEvent() runs is not deleted under it, also when   *)
(* the service cancels it at that moment or it releases itself.              *)
CallbackAlive == loop.at \in Running => refs[loop.cmd] > 0

Started(k) == current[k] # 0 /\ ~(api.call \in {"list", "start"} /\ api.of = k)

(* A command the service has started hears its events: nobody else's step    *)
(* unregisters it, except that a ranging which ends late takes the handler   *)
(* of the next, and that a full table takes no handlers.                     *)
Heard ==
    \A k \in Kinds :
        \/ ~Started(k)
        \/ KeysOf(k) \subseteq RegisteredKeys(current[k])
        \/ "full" \in mishaps
        \/ k = "rtt" /\ ("late" \in mishaps \/ (loop.at = "report" /\ loop.cmd = current[k]))

(* A command the service has started can be cancelled: the table lists it    *)
(* unless it was full or both threads were in it.                            *)
Cancellable ==
    \A k \in Kinds \cap ById :
        ~Started(k) \/ current[k] \in listed \/ Forgotten

(* A clean-up that finds the loop waiting in poll(), and is not met by an    *)
(* event before it has signalled the loop, never has info used after it was  *)
(* freed, nor freed twice.                                                   *)
IdleCleanUp == "touched" \in mishaps => "busy" \in mishaps

(* wifi_cleanup() ends in the memory being freed, wherever the loop is. *)
CleansUp == info.clean_up ~> (info.freed \/ "dead" \in mishaps)

=============================================================================
