--------------------------- MODULE WifiHalProofs ---------------------------
(***************************************************************************)
(* Proofs about WifiHal, for every set of kinds, every number of commands  *)
(* and every size of the two tables.                                       *)
(*                                                                         *)
(* A command starts with one reference, which the service gives up when it *)
(* cancels the command -- a ranging gives it up itself, on the event       *)
(* thread -- and the event thread holds one while handleEvent() runs.  So  *)
(* the count is never less than the references that will still be given up *)
(* (OwnerKnown, LoopHolds): what CallbackAlive rests on.                   *)
(***************************************************************************)
EXTENDS WifiHal, TLAPS

-----------------------------------------------------------------------------
(* The invariants. *)

OfCommand == {"list", "start", "undo", "fail", "unlist", "cancel"}

InLoop(c) == IF loop.at \in Running /\ loop.cmd = c THEN 1 ELSE 0

(* A call is about a command of its kind; only starting registers; a command *)
(* that failed or is being cancelled is nobody's current one any more, and   *)
(* the one being cancelled has a reference left to give up.                  *)
CallFits ==
    /\ api.call \in OfCommand => api.cmd \in Commands /\ kind[api.cmd] = api.of
    /\ \A i \in DOMAIN api.steps : api.steps[i].do = "on" => api.call \in {"list", "start"}
    /\ api.call \in {"undo", "fail", "unlist", "cancel"} => current[api.of] = 0
    /\ api.call = "list" /\ api.of # "rtt" => current[api.of] = api.cmd
    /\ api.call \in {"unlist", "cancel"} =>
          api.of # "rtt" /\ refs[api.cmd] >= 1 + InLoop(api.cmd)

(* The service's current commands have their own reference, except rangings. *)
OwnerKnown ==
    \A k \in AllKinds :
        current[k] # 0 =>
            /\ kind[current[k]] = k
            /\ k # "rtt" => refs[current[k]] >= 1 + InLoop(current[k])

(* The event thread has a reference to the command it runs, and a ranging    *)
(* that may end has its own besides.                                         *)
LoopHolds ==
    /\ loop.at \in Running => loop.cmd \in Commands /\ refs[loop.cmd] >= 1
    /\ loop.at \in {"report", "unlist", "drop"} => kind[loop.cmd] = "rtt"
    /\ loop.at \in {"call", "report", "unlist", "drop"} /\ kind[loop.cmd] = "rtt"
          => refs[loop.cmd] >= 2

(* What is not allocated has no references. *)
NewAreFree == \A c \in Commands : kind[c] = "none" => refs[c] = 0

RefsInv == CallFits /\ OwnerKnown /\ LoopHolds /\ NewAreFree

(* The clean-up that meets a loop in poll(): until the memory is freed, the  *)
(* loop is where the signal finds it or on its way out.                      *)
Tidy ==
    \/ "busy" \in mishaps
    \/ /\ "touched" \notin mishaps
       /\ info.clean_up <=> api.call \in {"clean", "done"}
       /\ info.freed => loop.at = "done" /\ api.call = "done"
       /\ api.call = "clean" => loop.at = "poll"
       /\ api.call = "done" => loop.at \in {"poll", "leave", "done"}
       /\ api.call = "done" /\ loop.at = "poll" => info.exit = "signalled"
       /\ info.exit = "signalled" => api.call = "done"
       /\ loop.at \in Running \cup {"poll", "check"} => info.in_event_loop /\ info.exit # "closed"
       /\ loop.at = "enter" => info.exit # "closed"
       /\ loop.at = "leave" => api.call = "done"

-----------------------------------------------------------------------------
(* The types. *)

LEMMA StepsTyped ==
    ASSUME NEW k \in AllKinds
    PROVE  StartOf(k) \in Seq(Steps) /\ CancelOf(k) \in Seq(Steps)
  <1>1. \A key \in Keys : On(key) \in Steps /\ Off(key) \in Steps
    BY DEF On, Off, Steps
  <1>2. Ask(<<>>) \in Steps /\ Try \in Steps
    BY DEF Ask, Try, Steps
  <1>3. Ask(<<"complete", "results", "full">>) \in Steps /\ Ask(<<"full">>) \in Steps
        /\ Ask(<<"found", "lost">>) \in Steps /\ Ask(<<"change">>) \in Steps
        /\ Ask(<<"epno">>) \in Steps /\ Ask(<<"match">>) \in Steps
    BY DEF Ask, Steps, Keys
  <1>4. \A key \in {"results", "complete", "full", "found", "lost", "change", "epno", "match",
                    "rssi", "rtt", "ring", "dump"} : On(key) \in Steps /\ Off(key) \in Steps
    BY <1>1 DEF Keys
  <1>5. ScanStart \in Seq(Steps) /\ FullStart \in Seq(Steps) /\ HotlistStart \in Seq(Steps)
    BY <1>2, <1>3, <1>4 DEF ScanStart, FullStart, HotlistStart
  <1>6. ChangeStart \in Seq(Steps) /\ EpnoStart \in Seq(Steps) /\ AnqpoStart \in Seq(Steps)
    BY <1>2, <1>3, <1>4 DEF ChangeStart, EpnoStart, AnqpoStart
  <1>7. RssiStart \in Seq(Steps) /\ RttStart \in Seq(Steps)
        /\ LogStart \in Seq(Steps) /\ AlertStart \in Seq(Steps)
    BY <1>2, <1>4 DEF RssiStart, RttStart, LogStart, AlertStart
  <1>8. ScanCancel \in Seq(Steps) /\ FullCancel \in Seq(Steps) /\ HotlistCancel \in Seq(Steps)
    BY <1>2, <1>4 DEF ScanCancel, FullCancel, HotlistCancel
  <1>9. ChangeCancel \in Seq(Steps) /\ EpnoCancel \in Seq(Steps) /\ AnqpoCancel \in Seq(Steps)
    BY <1>2, <1>4 DEF ChangeCancel, EpnoCancel, AnqpoCancel
  <1>10. RssiCancel \in Seq(Steps) /\ RttCancel \in Seq(Steps) /\ LogCancel \in Seq(Steps)
    BY <1>2, <1>4 DEF RssiCancel, RttCancel, LogCancel
  <1> QED BY <1>5, <1>6, <1>7, <1>8, <1>9, <1>10 DEF StartOf, CancelOf

(* Cancelling registers nothing. *)
LEMMA CancelRegistersNothing ==
    ASSUME NEW k \in AllKinds, NEW i \in DOMAIN CancelOf(k)
    PROVE  CancelOf(k)[i].do # "on"
  <1> USE DEF CancelOf, Try, Ask, Off
  <1>1. CASE k \in {"scan", "full"}
    BY <1>1 DEF ScanCancel, FullCancel
  <1>2. CASE k \in {"hotlist", "change"}
    BY <1>2 DEF HotlistCancel, ChangeCancel
  <1>3. CASE k \in {"epno", "anqpo"}
    BY <1>3 DEF EpnoCancel, AnqpoCancel
  <1>4. CASE k \in {"rssi", "rtt", "log", "alert"}
    BY <1>4 DEF RssiCancel, RttCancel, LogCancel
  <1> QED BY <1>1, <1>2, <1>3, <1>4 DEF AllKinds

LEMMA UndoTyped ==
    ASSUME NEW keys \in Seq(Keys)
    PROVE  Undo(keys) \in Seq(Steps) /\ \A i \in DOMAIN Undo(keys) : Undo(keys)[i].do # "on"
  <1>1. \A i \in 1..Len(keys) : Off(keys[i]) \in Steps /\ Off(keys[i]).do # "on"
    BY DEF Off, Steps
  <1> QED BY <1>1 DEF Undo

(* What is left of the steps of a call. *)
LEMMA StepsLeft ==
    ASSUME NEW steps \in Seq(Steps), steps # <<>>
    PROVE  /\ Tail(steps) \in Seq(Steps)
           /\ \A i \in DOMAIN Tail(steps) : i + 1 \in DOMAIN steps /\ Tail(steps)[i] = steps[i + 1]
           /\ Head(steps) \in Steps /\ 1 \in DOMAIN steps /\ Head(steps) = steps[1]
  OBVIOUS

LEMMA WithoutTyped ==
    ASSUME NEW S, NEW seq \in Seq(S), NEW i \in DOMAIN seq
    PROVE  Without(seq, i) \in Seq(S)
  <1>1. i \in 1..Len(seq) /\ Len(seq) \in Nat
    OBVIOUS
  <1>2. SubSeq(seq, 1, i - 1) \in Seq(S)
    BY <1>1
  <1>3. SubSeq(seq, i + 1, Len(seq)) \in Seq(S)
    BY <1>1
  <1> QED BY <1>2, <1>3 DEF Without

LEMMA TableTyped ==
    ASSUME TypeOK, NEW key, Unregister(key)
    PROVE  event_cb' \in Seq(Handler)
  <1>1. event_cb \in Seq(Handler)
    BY DEF TypeOK
  <1>2. First(event_cb, key) \subseteq DOMAIN event_cb
    BY DEF First, Positions
  <1> QED BY <1>1, <1>2, WithoutTyped DEF Unregister

LEMMA RegisteredTyped ==
    ASSUME TypeOK, NEW key \in Keys, NEW c \in Commands
    PROVE  Registered(event_cb, key, c) \in Seq(Handler)
  <1>1. [key |-> key, cmd |-> c] \in Handler
    BY DEF Handler
  <1> QED BY <1>1 DEF TypeOK, Registered

(* The components of the records. *)
LEMMA Components ==
    ASSUME TypeOK
    PROVE  /\ api.call \in Calls /\ api.cmd \in {0} \cup Commands /\ api.of \in AllKinds
           /\ api.steps \in Seq(Steps)
           /\ loop.at \in Places /\ loop.cmd \in {0} \cup Commands
           /\ 0 \notin Commands
  BY DEF TypeOK, Call, Thread, Commands

LEMMA ApiBecomes ==
    ASSUME TypeOK, NEW call \in Calls, NEW steps \in Seq(Steps)
    PROVE  /\ [api EXCEPT !.call = call] \in Call
           /\ [api EXCEPT !.steps = steps] \in Call
           /\ [api EXCEPT !.call = call, !.steps = steps] \in Call
           /\ [api EXCEPT !.call = call].call = call
           /\ [api EXCEPT !.call = call].cmd = api.cmd
           /\ [api EXCEPT !.call = call].of = api.of
           /\ [api EXCEPT !.call = call].steps = api.steps
           /\ [api EXCEPT !.steps = steps].call = api.call
           /\ [api EXCEPT !.steps = steps].cmd = api.cmd
           /\ [api EXCEPT !.steps = steps].of = api.of
           /\ [api EXCEPT !.steps = steps].steps = steps
           /\ [api EXCEPT !.call = call, !.steps = steps].call = call
           /\ [api EXCEPT !.call = call, !.steps = steps].cmd = api.cmd
           /\ [api EXCEPT !.call = call, !.steps = steps].of = api.of
           /\ [api EXCEPT !.call = call, !.steps = steps].steps = steps
  BY DEF TypeOK, Call

LEMMA CallBecomes ==
    ASSUME TypeOK, NEW call \in Calls, NEW steps \in Seq(Steps),
           api' = [api EXCEPT !.call = call, !.steps = steps]
    PROVE  api'.call = call /\ api'.cmd = api.cmd /\ api'.of = api.of /\ api'.steps = steps
  BY DEF TypeOK, Call

LEMMA LoopBecomes ==
    ASSUME TypeOK, NEW place \in Places
    PROVE  /\ [loop EXCEPT !.at = place] \in Thread
           /\ [loop EXCEPT !.at = place].at = place
           /\ [loop EXCEPT !.at = place].cmd = loop.cmd
  BY DEF TypeOK, Thread

LEMMA RefsBecome ==
    ASSUME TypeOK, NEW c \in Commands
    PROVE  /\ RefAdded(c) \in [Commands -> Nat]
           /\ refs[c] \in Nat
           /\ RefAdded(c)[c] = refs[c] + 1
           /\ refs[c] >= 1 => RefReleased(c) \in [Commands -> Nat]
           /\ RefReleased(c)[c] = refs[c] - 1
           /\ \A d \in Commands : d # c => RefAdded(c)[d] = refs[d] /\ RefReleased(c)[d] = refs[d]
  BY DEF TypeOK, RefAdded, RefReleased

LEMMA TableChanges ==
    ASSUME TypeOK, NEW new \in SUBSET Commands, TableBecomes(new)
    PROVE  listed' \subseteq Commands /\ mishaps' \subseteq Mishaps
  BY DEF TypeOK, TableBecomes, Mishaps

-----------------------------------------------------------------------------
(* The service's thread.  Each lemma has one step per action. *)

LEMMA ApiTypes ==
    ASSUME TypeOK, RefsInv, ApiStep
    PROVE  TypeOK'
  <1> USE Components
  <1>1. CASE ApiList
    <2>1. api.cmd \in Commands
      BY <1>1 DEF ApiList, RefsInv, CallFits, OfCommand
    <2>2. listed' \subseteq Commands /\ mishaps' \subseteq Mishaps
      <3>1. (listed \cup {api.cmd}) \in SUBSET Commands
        BY <2>1 DEF TypeOK
      <3>2. CASE TableBecomes(listed \cup {api.cmd})
        BY <3>1, <3>2, TableChanges
      <3>3. CASE mishaps' = mishaps \cup {"unlisted"} /\ UNCHANGED listed
        BY <3>3 DEF TypeOK, Mishaps
      <3> QED BY <1>1, <3>2, <3>3 DEF ApiList
    <2>3. api' \in Call
      BY <1>1, ApiBecomes DEF ApiList, Calls
    <2>4. torn' \in BOOLEAN
      BY <1>1 DEF ApiList
    <2> QED BY <1>1, <2>2, <2>3, <2>4 DEF ApiList, TypeOK
  <1>2. CASE ApiRegister
    <2>1. api.cmd \in Commands /\ Head(api.steps) \in Steps /\ Head(api.steps).do = "on"
          /\ Tail(api.steps) \in Seq(Steps)
      BY <1>2, StepsLeft DEF ApiRegister, InSteps, RefsInv, CallFits, OfCommand
    <2>2. Head(api.steps).keys[1] \in Keys
      BY <2>1 DEF Steps
    <2>3. event_cb' \in Seq(Handler)
      BY <1>2, <2>1, <2>2, RegisteredTyped DEF ApiRegister
    <2>4. api' \in Call
      BY <1>2, <2>1, ApiBecomes DEF ApiRegister, Onward
    <2>5. mishaps' \subseteq Mishaps
      BY <1>2 DEF ApiRegister, TypeOK, Mishaps
    <2> QED BY <1>2, <2>3, <2>4, <2>5 DEF ApiRegister, TypeOK
  <1>3. CASE ApiUnregister
    <2>1. event_cb' \in Seq(Handler)
      BY <1>3, TableTyped DEF ApiUnregister
    <2>2. api' \in Call
      BY <1>3, StepsLeft, ApiBecomes DEF ApiUnregister, Onward, InSteps
    <2> QED BY <1>3, <2>1, <2>2 DEF ApiUnregister, TypeOK
  <1>4. CASE ApiAnswered
    <2>1. api' \in Call
      BY <1>4, StepsLeft, ApiBecomes DEF ApiAnswered, Onward, InSteps
    <2> QED BY <1>4, <2>1 DEF ApiAnswered, TypeOK
  <1>5. CASE ApiRefused
    <2>1. Head(api.steps) \in Steps /\ Head(api.steps).do = "ask"
      BY <1>5, StepsLeft DEF ApiRefused, InSteps
    <2>2. Undo(Head(api.steps).keys) \in Seq(Steps)
      BY <2>1, UndoTyped DEF Steps
    <2>3. api' \in Call
      <3>1. "undo" \in Calls /\ <<>> \in Seq(Steps)
        BY DEF Calls
      <3>2. /\ [api EXCEPT !.call = "undo", !.steps = Undo(Head(api.steps).keys)] \in Call
            /\ [api EXCEPT !.steps = <<>>] \in Call
        BY <2>2, <3>1, ApiBecomes
      <3> QED BY <1>5, <3>2 DEF ApiRefused
    <2>4. current' \in [AllKinds -> {0} \cup Commands]
      BY <1>5 DEF ApiRefused, TypeOK
    <2> QED BY <1>5, <2>3, <2>4 DEF ApiRefused, TypeOK
  <1>6. CASE ApiUndone
    <2>1. api' \in Call
      BY <1>6, ApiBecomes DEF ApiUndone, Calls, InTable
    <2> QED BY <1>6, <2>1 DEF ApiUndone, TypeOK
  <1>7. CASE ApiFail
    <2>1. listed' \subseteq Commands /\ mishaps' \subseteq Mishaps
      BY <1>7, TableChanges DEF ApiFail, Unlisted, TypeOK
    <2>2. api' \in Call /\ torn' \in BOOLEAN
      BY <1>7, ApiBecomes DEF ApiFail, Calls
    <2> QED BY <1>7, <2>1, <2>2 DEF ApiFail, TypeOK
  <1>8. CASE ApiStarted
    <2>1. api' \in Call
      BY <1>8, ApiBecomes DEF ApiStarted, Calls
    <2> QED BY <1>8, <2>1 DEF ApiStarted, TypeOK
  <1>9. CASE ApiUnlist
    <2>1. listed' \subseteq Commands /\ mishaps' \subseteq Mishaps
      BY <1>9, TableChanges DEF ApiUnlist, Unlisted, TypeOK
    <2>2. api' \in Call
      BY <1>9, StepsTyped, ApiBecomes DEF ApiUnlist, Calls
    <2>3. torn' \in BOOLEAN
      BY <1>9 DEF ApiUnlist
    <2> QED BY <1>9, <2>1, <2>2, <2>3 DEF ApiUnlist, TypeOK
  <1>10. CASE ApiCancelled
    <2>1. api' \in Call
      BY <1>10, ApiBecomes DEF ApiCancelled, Calls
    <2>2. refs' \in [Commands -> Nat]
      <3>1. CASE api.call = "cancel"
        <4>1. api.cmd \in Commands /\ refs[api.cmd] >= 1
          BY <3>1, RefsBecome DEF RefsInv, CallFits, OfCommand, InLoop
        <4> QED BY <1>10, <3>1, <4>1, RefsBecome DEF ApiCancelled
      <3>2. CASE api.call # "cancel"
        BY <1>10, <3>2 DEF ApiCancelled, TypeOK
      <3> QED BY <3>1, <3>2
    <2> QED BY <1>10, <2>1, <2>2 DEF ApiCancelled, TypeOK
  <1>11. CASE ApiSignal
    <2>1. api' \in Call
      BY <1>11, ApiBecomes DEF ApiSignal, Calls
    <2>2. info' \in Info /\ mishaps' \subseteq Mishaps
      BY <1>11 DEF ApiSignal, TypeOK, Info, Mishaps
    <2> QED BY <1>11, <2>1, <2>2 DEF ApiSignal, TypeOK
  <1> QED BY <1>1, <1>2, <1>3, <1>4, <1>5, <1>6, <1>7, <1>8, <1>9, <1>10, <1>11 DEF ApiStep

LEMMA ServiceTypes ==
    ASSUME TypeOK, Service
    PROVE  TypeOK'
  <1> USE Components
  <1>1. ASSUME NEW k \in Kinds, ApiStart(k)
        PROVE  TypeOK'
    <2>1. k \in AllKinds /\ StartOf(k) \in Seq(Steps)
      BY WifiHalAssumption, StepsTyped DEF WifiHalAssumption
    <2>2. PICK c \in Commands :
             /\ kind' = [kind EXCEPT ![c] = k]
             /\ refs' = [refs EXCEPT ![c] = 1]
             /\ current' = [current EXCEPT ![k] = c]
             /\ api' = [call |-> "list", cmd |-> c, of |-> k, steps |-> StartOf(k)]
      BY <1>1 DEF ApiStart
    <2>3. api' \in Call
      BY <2>1, <2>2 DEF Call, Calls, InTable
    <2>4. /\ kind' \in [Commands -> AllKinds \cup {"none"}]
          /\ refs' \in [Commands -> Nat]
          /\ current' \in [AllKinds -> {0} \cup Commands]
      BY <2>1, <2>2 DEF TypeOK
    <2> QED BY <1>1, <2>3, <2>4 DEF ApiStart, TypeOK
  <1>2. ASSUME NEW k \in Kinds, ApiCancel(k) \/ ApiDummy(k)
        PROVE  TypeOK'
    <2>1. k \in AllKinds /\ CancelOf(k) \in Seq(Steps) /\ <<>> \in Seq(Steps)
          /\ current[k] \in {0} \cup Commands
      BY WifiHalAssumption, StepsTyped DEF WifiHalAssumption, TypeOK
    <2>2. api' \in Call
      <3>1. CASE ApiCancel(k)
        BY <2>1, <3>1 DEF ApiCancel, Call, Calls, InTable
      <3>2. CASE ApiDummy(k)
        BY <2>1, <3>2 DEF ApiDummy, Call, Calls
      <3> QED BY <1>2, <3>1, <3>2
    <2>3. current' \in [AllKinds -> {0} \cup Commands]
      BY <1>2 DEF ApiCancel, ApiDummy, TypeOK
    <2> QED BY <1>2, <2>2, <2>3 DEF ApiCancel, ApiDummy, TypeOK
  <1>3. CASE ApiCleanUp
    <2>1. api' \in Call
      BY <1>3, ApiBecomes DEF ApiCleanUp, Calls
    <2>2. info' \in Info /\ mishaps' \subseteq Mishaps
      BY <1>3 DEF ApiCleanUp, TypeOK, Info, Mishaps
    <2> QED BY <1>3, <2>1, <2>2 DEF ApiCleanUp, TypeOK
  <1> QED BY <1>1, <1>2, <1>3 DEF Service

(* The event thread. *)

LEMMA EventTypes ==
    ASSUME TypeOK, NEW key \in Keys, LoopEvent(key)
    PROVE  TypeOK'
  <1>1. Met \subseteq Mishaps /\ Met \cup {"dead"} \subseteq Mishaps
    BY DEF Met, TypeOK, Mishaps
  <1>2. CASE Positions(event_cb, key) = {} /\ loop' = [loop EXCEPT !.at = "check"]
             /\ mishaps' = Met /\ UNCHANGED refs
    <2>1. loop' \in Thread
      BY <1>2, LoopBecomes DEF Places
    <2> QED BY <1>1, <1>2, <2>1 DEF LoopEvent, TypeOK
  <1>3. ASSUME NEW i \in First(event_cb, key), NEW c, c = event_cb[i].cmd,
               \/ /\ refs[c] > 0
                  /\ loop' = [at |-> "call", cmd |-> c]
                  /\ mishaps' = Met
                  /\ Dispatch(c)
               \/ /\ refs[c] = 0
                  /\ loop' = [at |-> "done", cmd |-> 0]
                  /\ mishaps' = Met \cup {"dead"}
                  /\ UNCHANGED refs
        PROVE  TypeOK'
    <2>1. c \in Commands
      <3>1. event_cb[i] \in Handler
        BY <1>3 DEF First, Positions, TypeOK
      <3> QED BY <1>3, <3>1 DEF Handler
    <2>2. loop' \in Thread
      BY <1>3, <2>1 DEF Thread, Places
    <2>3. refs' \in [Commands -> Nat]
      BY <1>3, <2>1, RefsBecome DEF Dispatch, TypeOK
    <2>4. mishaps' \subseteq Mishaps
      BY <1>1, <1>3
    <2> QED BY <2>2, <2>3, <2>4 DEF LoopEvent, TypeOK
  <1> QED BY <1>2, <1>3 DEF LoopEvent

LEMMA LoopTypes ==
    ASSUME TypeOK, RefsInv, LoopStep
    PROVE  TypeOK'
  <1> USE Components, LoopBecomes
  <1>1. CASE LoopOpen \/ LoopEnter \/ LoopLeave \/ LoopCleansUp
    <2>1. loop' \in Thread
      BY <1>1 DEF LoopOpen, LoopEnter, LoopLeave, LoopCleansUp, GoTo, Places, TypeOK
    <2>2. info' \in Info
      BY <1>1 DEF LoopOpen, LoopEnter, LoopLeave, LoopCleansUp, LoopFrees, Info, TypeOK
    <2> QED BY <1>1, <2>1, <2>2 DEF LoopOpen, LoopEnter, LoopLeave, LoopCleansUp, TypeOK
  <1>2. CASE LoopExit \/ LoopHandle \/ LoopCheck
    <2>1. loop' \in Thread
      BY <1>2 DEF LoopExit, LoopHandle, LoopCheck, GoTo, Places
    <2> QED BY <1>2, <2>1 DEF LoopExit, LoopHandle, LoopCheck, TypeOK
  <1>3. CASE LoopRttEnds
    <2>1. loop' \in Thread
      BY <1>3 DEF LoopRttEnds, GoTo, Places
    <2>2. event_cb' \in Seq(Handler)
      BY <1>3, TableTyped DEF LoopRttEnds
    <2>3. mishaps' \subseteq Mishaps
      BY <1>3 DEF LoopRttEnds, TypeOK, Mishaps
    <2> QED BY <1>3, <2>1, <2>2, <2>3 DEF LoopRttEnds, TypeOK
  <1>4. CASE LoopRttReports
    <2>1. loop' \in Thread
      BY <1>4 DEF LoopRttReports, GoTo, Places
    <2>2. current' \in [AllKinds -> {0} \cup Commands]
      BY <1>4 DEF LoopRttReports, TypeOK
    <2> QED BY <1>4, <2>1, <2>2 DEF LoopRttReports, TypeOK
  <1>5. CASE LoopRttUnlists
    <2>1. loop' \in Thread
      BY <1>5 DEF LoopRttUnlists, GoTo, Places
    <2>2. listed' \subseteq Commands /\ mishaps' \subseteq Mishaps
      BY <1>5, TableChanges DEF LoopRttUnlists, Unlisted, TypeOK
    <2>3. torn' \in BOOLEAN
      BY <1>5 DEF LoopRttUnlists
    <2> QED BY <1>5, <2>1, <2>2, <2>3 DEF LoopRttUnlists, TypeOK
  <1>6. CASE LoopRttReleases
    <2>1. loop.cmd \in Commands /\ refs[loop.cmd] >= 1
      BY <1>6 DEF LoopRttReleases, At, Running, RefsInv, LoopHolds
    <2>2. loop' \in Thread
      BY <1>6 DEF LoopRttReleases, GoTo, Places
    <2>3. refs' \in [Commands -> Nat]
      BY <1>6, <2>1, RefsBecome DEF LoopRttReleases
    <2> QED BY <1>6, <2>2, <2>3 DEF LoopRttReleases, TypeOK
  <1>7. CASE LoopReturn
    <2>1. loop.cmd \in Commands /\ refs[loop.cmd] >= 1
      BY <1>7 DEF LoopReturn, At, Running, RefsInv, LoopHolds
    <2>2. loop' \in Thread
      BY <1>7 DEF LoopReturn, Thread, Places
    <2>3. refs' \in [Commands -> Nat]
      BY <1>7, <2>1, RefsBecome DEF LoopReturn
    <2> QED BY <1>7, <2>2, <2>3 DEF LoopReturn, TypeOK
  <1>8. CASE LoopTouches
    <2>1. loop' \in Thread
      BY <1>8 DEF LoopTouches, Thread, Places
    <2>2. mishaps' \subseteq Mishaps
      BY <1>8 DEF LoopTouches, TypeOK, Mishaps
    <2> QED BY <1>8, <2>1, <2>2 DEF LoopTouches, TypeOK
  <1> QED BY <1>1, <1>2, <1>3, <1>4, <1>5, <1>6, <1>7, <1>8 DEF LoopStep

LEMMA TypesKept ==
    ASSUME TypeOK, RefsInv, [Next]_vars
    PROVE  TypeOK'
  <1>1. CASE UNCHANGED vars
    BY <1>1 DEF TypeOK, vars
  <1> QED BY <1>1, ApiTypes, ServiceTypes, EventTypes, LoopTypes DEF Next, Ended

-----------------------------------------------------------------------------
(* The references. *)

LEMMA Counted ==
    ASSUME TypeOK
    PROVE  /\ \A c \in Commands : refs[c] \in Nat /\ kind[c] \in AllKinds \cup {"none"}
           /\ \A k \in AllKinds : current[k] \in {0} \cup Commands
           /\ \A c : InLoop(c) \in {0, 1}
           /\ "none" \notin AllKinds /\ "rtt" \in AllKinds /\ 0 \notin Commands
  BY DEF TypeOK, InLoop, AllKinds, Commands

(* Only the call changes. *)
LEMMA CallChanges ==
    ASSUME RefsInv, UNCHANGED <<kind, refs, loop, current>>, CallFits'
    PROVE  RefsInv'
  <1>1. OwnerKnown'
    BY DEF RefsInv, OwnerKnown, InLoop
  <1>2. LoopHolds' /\ NewAreFree'
    BY DEF RefsInv, LoopHolds, NewAreFree
  <1> QED BY <1>1, <1>2 DEF RefsInv

(* Only the event thread's place changes. *)
LEMMA PlaceChanges ==
    ASSUME TypeOK, RefsInv, UNCHANGED <<kind, refs, api, current>>,
           loop'.at \in Running => loop.at \in Running /\ loop'.cmd = loop.cmd,
           loop'.at \in {"report", "unlist", "drop"} => kind[loop.cmd] = "rtt",
           loop'.at \in {"call", "report", "unlist", "drop"}
               => loop.at \in {"call", "report", "unlist", "drop"}
    PROVE  RefsInv'
  <1> USE Counted, Components
  <1>1. \A c : InLoop(c)' \in {0, 1} /\ InLoop(c)' <= InLoop(c)
    BY DEF InLoop
  <1>2. OwnerKnown'
    <2>1. ASSUME NEW k \in AllKinds, current[k] # 0, k # "rtt"
          PROVE  refs[current[k]] >= 1 + InLoop(current[k])'
      <3>1. refs[current[k]] >= 1 + InLoop(current[k]) /\ current[k] \in Commands
        BY <2>1 DEF RefsInv, OwnerKnown
      <3> QED BY <1>1, <3>1
    <2> QED BY <2>1 DEF RefsInv, OwnerKnown
  <1>3. CallFits'
    <2>1. ASSUME api.call \in {"unlist", "cancel"}
          PROVE  api.of # "rtt" /\ refs[api.cmd] >= 1 + InLoop(api.cmd)'
      <3>1. api.cmd \in Commands /\ api.of # "rtt" /\ refs[api.cmd] >= 1 + InLoop(api.cmd)
        BY <2>1 DEF RefsInv, CallFits, OfCommand
      <3> QED BY <1>1, <3>1
    <2> QED BY <2>1 DEF RefsInv, CallFits
  <1>4. LoopHolds' /\ NewAreFree'
    BY DEF RefsInv, LoopHolds, NewAreFree, Running
  <1> QED BY <1>2, <1>3, <1>4 DEF RefsInv

LEMMA ApiRefs ==
    ASSUME TypeOK, RefsInv, ApiStep
    PROVE  RefsInv'
  <1> USE Components, Counted
  <1>1. CASE ApiList
    <2>1. api'.call = "start" /\ api'.cmd = api.cmd /\ api'.of = api.of /\ api'.steps = api.steps
      BY <1>1, ApiBecomes DEF ApiList, Calls
    <2>2. CallFits'
      BY <1>1, <2>1 DEF ApiList, RefsInv, CallFits, OfCommand
    <2> QED BY <1>1, <2>2, CallChanges DEF ApiList
  <1>2. CASE ApiRegister \/ ApiUnregister \/ ApiAnswered
    <2>1. api.steps # <<>> /\ api' = [api EXCEPT !.steps = Tail(api.steps)]
          /\ UNCHANGED <<kind, refs, loop, current>>
      BY <1>2 DEF ApiRegister, ApiUnregister, ApiAnswered, Onward, InSteps
    <2>2. /\ api'.call = api.call /\ api'.cmd = api.cmd /\ api'.of = api.of
          /\ api'.steps = Tail(api.steps)
      BY <2>1, StepsLeft, ApiBecomes
    <2>3. ASSUME NEW i \in DOMAIN api'.steps, api'.steps[i].do = "on"
          PROVE  api.call \in {"list", "start"}
      BY <2>1, <2>2, <2>3, StepsLeft DEF RefsInv, CallFits
    <2>4. CallFits'
      BY <2>1, <2>2, <2>3 DEF RefsInv, CallFits, InLoop
    <2> QED BY <2>1, <2>4, CallChanges
  <1>3. CASE ApiRefused
    <2>1. Head(api.steps).keys \in Seq(Keys)
      <3>1. Head(api.steps) \in Steps /\ Head(api.steps).do = "ask"
        BY <1>3, StepsLeft DEF ApiRefused, InSteps
      <3> QED BY <3>1 DEF Steps
    <2> DEFINE undo == Undo(Head(api.steps).keys)
    <2>2. undo \in Seq(Steps) /\ \A i \in DOMAIN undo : undo[i].do # "on"
      BY <2>1, UndoTyped
    <2> HIDE DEF undo
    <2>3. /\ api'.cmd = api.cmd /\ api'.of = api.of
          /\ \A i \in DOMAIN api'.steps : api'.steps[i].do # "on"
          /\ api'.call = IF api.call = "start" THEN "undo" ELSE api.call
      <3>1. "undo" \in Calls /\ <<>> \in Seq(Steps) /\ DOMAIN <<>> = {}
        BY DEF Calls
      <3>2. CASE api.call = "start"
        <4>1. api' = [api EXCEPT !.call = "undo", !.steps = undo]
          BY <1>3, <3>2 DEF ApiRefused, undo
        <4>2. /\ api'.call = "undo" /\ api'.cmd = api.cmd /\ api'.of = api.of
              /\ api'.steps = undo
          BY <2>2, <3>1, <4>1, CallBecomes
        <4> QED BY <2>2, <3>2, <4>2
      <3>3. CASE api.call # "start"
        <4>1. api' = [api EXCEPT !.steps = <<>>]
          BY <1>3, <3>3 DEF ApiRefused
        <4>2. /\ api'.call = api.call /\ api'.cmd = api.cmd /\ api'.of = api.of
              /\ api'.steps = <<>>
          BY <3>1, <4>1, ApiBecomes
        <4> QED BY <3>1, <3>3, <4>2
      <3> QED BY <3>2, <3>3
    <2>4. /\ UNCHANGED <<kind, refs, loop>>
          /\ current'[api.of] = 0
          /\ \A k \in AllKinds : k # api.of => current'[k] = current[k]
          /\ api.call \in {"start", "undo", "cancel", "dummy"}
      BY <1>3 DEF ApiRefused, InSteps, TypeOK
    <2>5. CallFits'
      BY <2>3, <2>4 DEF RefsInv, CallFits, OfCommand, InLoop
    <2>6. OwnerKnown'
      BY <2>4 DEF RefsInv, OwnerKnown, InLoop
    <2>7. LoopHolds' /\ NewAreFree'
      BY <2>4 DEF RefsInv, LoopHolds, NewAreFree
    <2> QED BY <2>5, <2>6, <2>7 DEF RefsInv
  <1>4. CASE ApiUndone
    <2>1. /\ api'.call \in {"none", "fail"} /\ api'.cmd = api.cmd /\ api'.of = api.of
          /\ api'.steps = api.steps /\ api.call = "undo"
      <3>1. "none" \in Calls /\ "fail" \in Calls
        BY DEF Calls, InTable
      <3>2. /\ api' = [api EXCEPT !.call = "none"] \/ api' = [api EXCEPT !.call = "fail"]
            /\ api.call = "undo"
        BY <1>4 DEF ApiUndone
      <3>3. CASE api' = [api EXCEPT !.call = "none"]
        BY <3>1, <3>2, <3>3, ApiBecomes
      <3>4. CASE api' = [api EXCEPT !.call = "fail"]
        BY <3>1, <3>2, <3>4, ApiBecomes
      <3> QED BY <3>2, <3>3, <3>4
    <2>2. CallFits'
      BY <1>4, <2>1 DEF ApiUndone, RefsInv, CallFits, OfCommand
    <2> QED BY <1>4, <2>2, CallChanges DEF ApiUndone
  <1>5. CASE ApiFail \/ ApiStarted
    <2>1. /\ api'.call = "none" /\ api'.steps = api.steps
          /\ (api.steps = <<>> \/ api.call = "fail")
      <3>1. api' = [api EXCEPT !.call = "none"] /\ (api.steps = <<>> \/ api.call = "fail")
        BY <1>5 DEF ApiFail, ApiStarted
      <3>2. "none" \in Calls
        BY DEF Calls
      <3> QED BY <3>1, <3>2, ApiBecomes
    <2>2. CallFits'
      BY <1>5, <2>1 DEF ApiFail, ApiStarted, RefsInv, CallFits, OfCommand
    <2> QED BY <1>5, <2>2, CallChanges DEF ApiFail, ApiStarted
  <1>6. CASE ApiUnlist
    <2>1. CASE api.cmd \in listed
      <3>1. CancelOf(api.of) \in Seq(Steps) /\ "cancel" \in Calls
        BY StepsTyped DEF Calls
      <3>2. api' = [api EXCEPT !.call = "cancel", !.steps = CancelOf(api.of)]
        BY <1>6, <2>1 DEF ApiUnlist
      <3>3. /\ api'.call = "cancel" /\ api'.cmd = api.cmd /\ api'.of = api.of
            /\ api'.steps = CancelOf(api.of)
        BY <3>1, <3>2, CallBecomes
      <3>4. CallFits'
        BY <1>6, <3>3, CancelRegistersNothing DEF ApiUnlist, RefsInv, CallFits, OfCommand, InLoop
      <3> QED BY <1>6, <3>4, CallChanges DEF ApiUnlist
    <2>2. CASE api.cmd \notin listed
      <3>1. api'.call = "none" /\ api'.steps = api.steps
        BY <1>6, <2>2, ApiBecomes DEF ApiUnlist, Calls
      <3>2. CallFits'
        BY <1>6, <3>1 DEF ApiUnlist, RefsInv, CallFits, OfCommand
      <3> QED BY <1>6, <3>2, CallChanges DEF ApiUnlist
    <2> QED BY <2>1, <2>2
  <1>7. CASE ApiCancelled
    <2>1. api'.call = "none" /\ api'.steps = <<>>
      BY <1>7, ApiBecomes DEF ApiCancelled, Calls
    <2>2. CallFits'
      BY <2>1 DEF CallFits, OfCommand
    <2>3. CASE api.call = "cancel"
      <3>1. /\ api.cmd \in Commands /\ kind[api.cmd] = api.of /\ current[api.of] = 0
            /\ api.of # "rtt" /\ refs[api.cmd] >= 1 + InLoop(api.cmd)
        BY <2>3 DEF RefsInv, CallFits, OfCommand
      <3>2. /\ refs'[api.cmd] = refs[api.cmd] - 1
            /\ \A c \in Commands : c # api.cmd => refs'[c] = refs[c]
            /\ UNCHANGED <<kind, current, loop>>
        BY <1>7, <2>3, <3>1, RefsBecome DEF ApiCancelled
      <3>3. OwnerKnown'
        BY <3>1, <3>2 DEF RefsInv, OwnerKnown, InLoop
      <3>4. LoopHolds'
        <4>1. loop.at \in Running =>
                 loop.cmd \in Commands /\ refs[loop.cmd] >= 1 /\ refs'[loop.cmd] >= 1
          BY <3>1, <3>2 DEF RefsInv, LoopHolds, InLoop
        <4>2. kind[loop.cmd] = "rtt" => loop.cmd # api.cmd
          BY <3>1
        <4> QED BY <3>2, <4>1, <4>2 DEF RefsInv, LoopHolds, Running
      <3>5. NewAreFree'
        BY <3>1, <3>2 DEF RefsInv, NewAreFree
      <3> QED BY <2>2, <3>3, <3>4, <3>5 DEF RefsInv
    <2>4. CASE api.call # "cancel"
      BY <1>7, <2>2, <2>4, CallChanges DEF ApiCancelled
    <2> QED BY <2>3, <2>4
  <1>8. CASE ApiSignal
    <2>1. api'.call = "done" /\ api'.steps = api.steps /\ api.call = "clean"
      BY <1>8, ApiBecomes DEF ApiSignal, Calls
    <2>2. CallFits'
      BY <2>1 DEF RefsInv, CallFits, OfCommand
    <2> QED BY <1>8, <2>2, CallChanges DEF ApiSignal
  <1> QED BY <1>1, <1>2, <1>3, <1>4, <1>5, <1>6, <1>7, <1>8 DEF ApiStep

LEMMA ServiceRefs ==
    ASSUME TypeOK, RefsInv, Service
    PROVE  RefsInv'
  <1> USE Components, Counted
  <1>1. ASSUME NEW k \in Kinds, ApiStart(k)
        PROVE  RefsInv'
    <2>1. k \in AllKinds
      BY WifiHalAssumption DEF WifiHalAssumption
    <2>2. PICK c \in Commands :
             /\ kind[c] = "none"
             /\ kind' = [kind EXCEPT ![c] = k]
             /\ refs' = [refs EXCEPT ![c] = 1]
             /\ current' = [current EXCEPT ![k] = c]
             /\ api' = [call |-> "list", cmd |-> c, of |-> k, steps |-> StartOf(k)]
      BY <1>1 DEF ApiStart, New
    <2>3. /\ kind'[c] = k /\ refs'[c] = 1 /\ current'[k] = c /\ loop' = loop /\ refs[c] = 0
          /\ \A d \in Commands : d # c => kind'[d] = kind[d] /\ refs'[d] = refs[d]
          /\ \A j \in AllKinds : j # k => current'[j] = current[j]
      BY <1>1, <2>1, <2>2 DEF ApiStart, TypeOK, RefsInv, NewAreFree
    <2>4. loop.at \in Running => loop.cmd # c
      BY <2>3 DEF RefsInv, LoopHolds
    <2>5. CallFits'
      BY <2>1, <2>2, <2>3 DEF CallFits, OfCommand
    <2>6. OwnerKnown'
      BY <2>1, <2>2, <2>3, <2>4 DEF RefsInv, OwnerKnown, InLoop
    <2>7. LoopHolds'
      BY <2>3, <2>4 DEF RefsInv, LoopHolds, Running
    <2>8. NewAreFree'
      BY <2>1, <2>3 DEF RefsInv, NewAreFree
    <2> QED BY <2>5, <2>6, <2>7, <2>8 DEF RefsInv
  <1>2. ASSUME NEW k \in Kinds, ApiCancel(k) \/ ApiDummy(k)
        PROVE  RefsInv'
    <2>1. k \in AllKinds /\ current[k] # 0 /\ current[k] \in Commands
      BY <1>2, WifiHalAssumption DEF WifiHalAssumption, ApiCancel, ApiDummy
    <2>2. /\ UNCHANGED <<kind, refs, loop>> /\ current'[k] = 0
          /\ \A j \in AllKinds : j # k => current'[j] = current[j]
      BY <1>2, <2>1 DEF ApiCancel, ApiDummy, TypeOK
    <2>3. CallFits'
      <3>1. CASE ApiCancel(k)
        <4>1. api' = [call |-> "unlist", cmd |-> current[k], of |-> k, steps |-> <<>>]
              /\ k \in ById
          BY <3>1 DEF ApiCancel
        <4>2. kind[current[k]] = k /\ k # "rtt" /\ refs[current[k]] >= 1 + InLoop(current[k])
          BY <2>1, <4>1 DEF RefsInv, OwnerKnown, ById
        <4> QED BY <2>1, <2>2, <4>1, <4>2 DEF CallFits, OfCommand, InLoop
      <3>2. CASE ApiDummy(k)
        <4>1. api' = [call |-> "dummy", cmd |-> 0, of |-> k, steps |-> CancelOf(k)]
          BY <3>2 DEF ApiDummy
        <4> QED BY <2>1, <4>1, CancelRegistersNothing DEF CallFits, OfCommand
      <3> QED BY <1>2, <3>1, <3>2
    <2>4. OwnerKnown'
      BY <2>2 DEF RefsInv, OwnerKnown, InLoop
    <2>5. LoopHolds' /\ NewAreFree'
      BY <2>2 DEF RefsInv, LoopHolds, NewAreFree
    <2> QED BY <2>3, <2>4, <2>5 DEF RefsInv
  <1>3. CASE ApiCleanUp
    <2>1. api'.call = "clean" /\ api'.steps = api.steps /\ api.call = "none"
      BY <1>3, ApiBecomes DEF ApiCleanUp, Usable, Calls
    <2>2. CallFits'
      BY <2>1 DEF RefsInv, CallFits, OfCommand
    <2> QED BY <1>3, <2>2, CallChanges DEF ApiCleanUp
  <1> QED BY <1>1, <1>2, <1>3 DEF Service

LEMMA EventRefs ==
    ASSUME TypeOK, RefsInv, NEW key \in Keys, LoopEvent(key)
    PROVE  RefsInv'
  <1> USE Components, Counted
  <1>1. /\ UNCHANGED <<kind, api, current>> /\ loop.at = "poll"
        /\ \/ loop' = [loop EXCEPT !.at = "check"] /\ UNCHANGED refs
           \/ loop' = [at |-> "done", cmd |-> 0] /\ UNCHANGED refs
           \/ \E i \in First(event_cb, key) :
                 /\ refs[event_cb[i].cmd] > 0
                 /\ loop' = [at |-> "call", cmd |-> event_cb[i].cmd]
                 /\ refs' = RefAdded(event_cb[i].cmd)
    BY DEF LoopEvent, At, Dispatch
  <1>2. CASE loop'.at \in {"check", "done"} /\ UNCHANGED refs
    BY <1>1, <1>2, PlaceChanges DEF Running
  <1>3. ASSUME NEW c, c \in Commands, refs[c] > 0,
               loop' = [at |-> "call", cmd |-> c], refs' = RefAdded(c)
        PROVE  RefsInv'
    <2>1. /\ loop'.at = "call" /\ loop'.cmd = c
          /\ refs'[c] = refs[c] + 1
          /\ \A d \in Commands : d # c => refs'[d] = refs[d]
      BY <1>3, RefsBecome
    <2>2. \A d : InLoop(d) = 0 /\ InLoop(d)' = (IF d = c THEN 1 ELSE 0)
      BY <1>1, <2>1 DEF InLoop, Running
    <2>3. CallFits'
      BY <1>1, <2>1, <2>2 DEF RefsInv, CallFits, OfCommand
    <2>4. OwnerKnown'
      BY <1>1, <2>1, <2>2 DEF RefsInv, OwnerKnown
    <2>5. LoopHolds'
      BY <1>3, <2>1 DEF LoopHolds
    <2>6. NewAreFree'
      BY <1>1, <1>3, <2>1 DEF RefsInv, NewAreFree
    <2> QED BY <2>3, <2>4, <2>5, <2>6 DEF RefsInv
  <1>4. \A i \in First(event_cb, key) : event_cb[i].cmd \in Commands
    <2>1. \A i \in First(event_cb, key) : event_cb[i] \in Handler
      BY DEF First, Positions, TypeOK
    <2> QED BY <2>1 DEF Handler
  <1>5. loop' = [loop EXCEPT !.at = "check"] => loop'.at = "check"
    BY LoopBecomes DEF Places
  <1> QED BY <1>1, <1>2, <1>3, <1>4, <1>5

LEMMA LoopRefs ==
    ASSUME TypeOK, RefsInv, LoopStep
    PROVE  RefsInv'
  <1> USE Components, Counted, LoopBecomes
  <1>1. CASE LoopOpen \/ LoopEnter \/ LoopExit \/ LoopCheck \/ LoopLeave \/ LoopCleansUp
             \/ LoopTouches
    <2>1. UNCHANGED <<kind, refs, api, current>>
      BY <1>1 DEF LoopOpen, LoopEnter, LoopExit, LoopCheck, LoopLeave, LoopCleansUp, LoopTouches
    <2>2. loop'.at \in {"enter", "poll", "leave", "done"}
          \/ (loop'.at = "leave" /\ UNCHANGED loop)
      <3>1. CASE LoopLeave
        BY <3>1 DEF LoopLeave, At
      <3>2. CASE LoopTouches
        BY <3>2 DEF LoopTouches
      <3>3. CASE LoopOpen \/ LoopEnter \/ LoopExit \/ LoopCheck \/ LoopCleansUp
        <4>1. \E place \in {"enter", "poll", "leave", "done"} :
                 loop' = [loop EXCEPT !.at = place]
          BY <3>3 DEF LoopOpen, LoopEnter, LoopExit, LoopCheck, LoopCleansUp, GoTo
        <4>2. {"enter", "poll", "leave", "done"} \subseteq Places
          BY DEF Places
        <4> QED BY <4>1, <4>2
      <3> QED BY <1>1, <3>1, <3>2, <3>3
    <2> QED BY <2>1, <2>2, PlaceChanges DEF Running
  <1>2. CASE LoopHandle \/ LoopRttEnds
    <2>1. /\ UNCHANGED <<kind, refs, api, current>> /\ loop.at = "call" /\ loop'.cmd = loop.cmd
          /\ loop'.at = "return" \/ (loop'.at = "report" /\ kind[loop.cmd] = "rtt")
      <3>1. CASE LoopHandle
        <4>1. loop' = [loop EXCEPT !.at = "return"] /\ "return" \in Places
          BY <3>1 DEF LoopHandle, GoTo, Places
        <4>2. UNCHANGED <<kind, refs, api, current>> /\ loop.at = "call"
          BY <3>1 DEF LoopHandle, At
        <4> QED BY <4>1, <4>2, LoopBecomes
      <3>2. CASE LoopRttEnds
        <4>1. loop' = [loop EXCEPT !.at = "report"] /\ "report" \in Places
          BY <3>2 DEF LoopRttEnds, GoTo, Places
        <4>2. /\ UNCHANGED <<kind, refs, api, current>> /\ loop.at = "call"
              /\ kind[loop.cmd] = "rtt"
          BY <3>2 DEF LoopRttEnds, At
        <4> QED BY <4>1, <4>2, LoopBecomes
      <3> QED BY <1>2, <3>1, <3>2
    <2> QED BY <2>1, PlaceChanges DEF Running
  <1>3. CASE LoopRttUnlists
    <2>1. /\ UNCHANGED <<kind, refs, api, current>> /\ loop.at = "unlist" /\ loop'.cmd = loop.cmd
          /\ loop'.at \in {"drop", "return"}
      BY <1>3 DEF LoopRttUnlists, At, GoTo, Places
    <2>2. kind[loop.cmd] = "rtt"
      BY <2>1 DEF RefsInv, LoopHolds
    <2> QED BY <2>1, <2>2, PlaceChanges DEF Running
  <1>4. CASE LoopRttReports
    <2>1. /\ UNCHANGED <<kind, refs, api>> /\ loop.at = "report" /\ loop'.cmd = loop.cmd
          /\ loop'.at = "unlist"
          /\ current'["rtt"] \in {0, current["rtt"]}
          /\ \A k \in AllKinds : k # "rtt" => current'[k] = current[k]
      BY <1>4 DEF LoopRttReports, At, GoTo, Places, TypeOK
    <2>2. \A c : InLoop(c)' = InLoop(c)
      BY <2>1 DEF InLoop, Running
    <2>3. CallFits'
      <3>1. api.call \in {"undo", "fail", "unlist", "cancel"} => current'[api.of] = 0
        BY <2>1 DEF RefsInv, CallFits
      <3>2. api.call = "list" /\ api.of # "rtt" => current'[api.of] = api.cmd
        BY <2>1 DEF RefsInv, CallFits
      <3> QED BY <2>1, <2>2, <3>1, <3>2 DEF RefsInv, CallFits
    <2>4. OwnerKnown'
      BY <2>1, <2>2 DEF RefsInv, OwnerKnown
    <2>5. LoopHolds' /\ NewAreFree'
      BY <2>1 DEF RefsInv, LoopHolds, NewAreFree, Running
    <2> QED BY <2>3, <2>4, <2>5 DEF RefsInv
  <1>5. CASE LoopRttReleases
    <2> DEFINE c == loop.cmd
    <2>1. c \in Commands /\ refs[c] >= 2 /\ kind[c] = "rtt" /\ loop.at = "drop"
      BY <1>5 DEF LoopRttReleases, At, Running, RefsInv, LoopHolds
    <2>2. /\ UNCHANGED <<kind, api, current>> /\ loop'.at = "return" /\ loop'.cmd = c
          /\ refs'[c] = refs[c] - 1
          /\ \A d \in Commands : d # c => refs'[d] = refs[d]
      BY <1>5, <2>1, RefsBecome DEF LoopRttReleases, GoTo, Places
    <2> HIDE DEF c
    <2>3. \A d \in Commands : InLoop(d)' = InLoop(d)
      BY <2>1, <2>2 DEF InLoop, Running, c
    <2>4. CallFits'
      BY <2>1, <2>2, <2>3 DEF RefsInv, CallFits, OfCommand
    <2>5. OwnerKnown'
      BY <2>1, <2>2, <2>3 DEF RefsInv, OwnerKnown
    <2>6. LoopHolds' /\ NewAreFree'
      BY <2>1, <2>2 DEF RefsInv, LoopHolds, NewAreFree
    <2> QED BY <2>4, <2>5, <2>6 DEF RefsInv
  <1>6. CASE LoopReturn
    <2> DEFINE c == loop.cmd
    <2>1. c \in Commands /\ refs[c] >= 1 /\ loop.at = "return"
      BY <1>6 DEF LoopReturn, At, Running, RefsInv, LoopHolds
    <2>2. /\ UNCHANGED <<kind, api, current>> /\ loop'.at = "check"
          /\ refs'[c] = refs[c] - 1
          /\ \A d \in Commands : d # c => refs'[d] = refs[d]
      BY <1>6, <2>1, RefsBecome DEF LoopReturn
    <2> HIDE DEF c
    <2>3. \A d \in Commands : InLoop(d)' = 0 /\ InLoop(d) = (IF d = c THEN 1 ELSE 0)
      BY <2>1, <2>2 DEF InLoop, Running, c
    <2>4. CallFits'
      BY <2>1, <2>2, <2>3 DEF RefsInv, CallFits, OfCommand
    <2>5. OwnerKnown'
      BY <2>1, <2>2, <2>3 DEF RefsInv, OwnerKnown
    <2>6. LoopHolds' /\ NewAreFree'
      BY <2>1, <2>2 DEF RefsInv, LoopHolds, NewAreFree, Running
    <2> QED BY <2>4, <2>5, <2>6 DEF RefsInv
  <1> QED BY <1>1, <1>2, <1>3, <1>4, <1>5, <1>6 DEF LoopStep

LEMMA RefsKept ==
    ASSUME TypeOK, RefsInv, [Next]_vars
    PROVE  RefsInv'
  <1>1. CASE UNCHANGED vars
    BY <1>1 DEF vars, RefsInv, CallFits, OwnerKnown, LoopHolds, NewAreFree, InLoop
  <1> QED BY <1>1, ApiRefs, ServiceRefs, EventRefs, LoopRefs DEF Next, Ended

LEMMA RefsInit ==
    ASSUME Init
    PROVE  TypeOK /\ RefsInv
  <1>1. TypeOK
    <2>1. kind \in [Commands -> AllKinds \cup {"none"}] /\ refs \in [Commands -> Nat]
          /\ current \in [AllKinds -> {0} \cup Commands]
      BY DEF Init
    <2>2. api \in Call
      BY DEF Init, Call, Calls, AllKinds
    <2>3. loop \in Thread /\ info \in Info
      BY DEF Init, Thread, Places, Info
    <2>4. event_cb \in Seq(Handler)
      <3>1. <<>> \in Seq(Handler)
        OBVIOUS
      <3> QED BY <3>1 DEF Init
    <2>5. listed \subseteq Commands /\ mishaps \subseteq Mishaps
      BY DEF Init
    <2>6. torn \in BOOLEAN
      BY DEF Init
    <2> QED BY <2>1, <2>2, <2>3, <2>4, <2>5, <2>6 DEF TypeOK
  <1>2. CallFits
    BY DEF Init, CallFits, OfCommand
  <1>3. OwnerKnown /\ LoopHolds /\ NewAreFree
    BY DEF Init, OwnerKnown, LoopHolds, NewAreFree, Running
  <1> QED BY <1>1, <1>2, <1>3 DEF RefsInv

LEMMA RefsAlways == Spec => [](TypeOK /\ RefsInv)
  BY RefsInit, TypesKept, RefsKept, PTL DEF Spec

(* The tables, references, threads and the clean-up keep their types.        *)
THEOREM WifiTypeCorrect == Spec => []TypeOK
  BY RefsAlways, PTL

(* The command whose handleEvent() the event thread runs is never deleted    *)
(* under it, whoever cancels, whatever the driver answers and whatever the   *)
(* two threads do to the table of commands they do not lock.                 *)
THEOREM CallbackIsAlive == Spec => []CallbackAlive
  <1>1. TypeOK /\ RefsInv => CallbackAlive
    BY Counted DEF RefsInv, LoopHolds, CallbackAlive
  <1> QED BY <1>1, RefsAlways, PTL

-----------------------------------------------------------------------------
(* The table of commands. *)

(* What has gone wrong stays so. *)
LEMMA MishapsStay ==
    ASSUME TypeOK, [Next]_vars
    PROVE  mishaps \subseteq mishaps'
  <1>1. CASE UNCHANGED vars \/ Ended
    BY <1>1 DEF vars, Ended
  <1>2. CASE Service
    BY <1>2 DEF Service, ApiStart, ApiCancel, ApiDummy, ApiCleanUp
  <1>3. CASE ApiStep
    <2>1. CASE ApiList \/ ApiFail \/ ApiUnlist
      BY <2>1 DEF ApiList, ApiFail, ApiUnlist, TableBecomes
    <2>2. CASE ApiRegister \/ ApiSignal
      BY <2>2 DEF ApiRegister, ApiSignal
    <2>3. CASE ApiUnregister \/ ApiAnswered \/ ApiRefused \/ ApiUndone \/ ApiStarted \/ ApiCancelled
      BY <2>3 DEF ApiUnregister, ApiAnswered, ApiRefused, ApiUndone, ApiStarted, ApiCancelled
    <2> QED BY <1>3, <2>1, <2>2, <2>3 DEF ApiStep
  <1>4. CASE LoopStep
    <2>1. CASE LoopRttEnds \/ LoopRttUnlists \/ LoopTouches
      BY <2>1 DEF LoopRttEnds, LoopRttUnlists, LoopTouches, TableBecomes
    <2>2. CASE LoopOpen \/ LoopEnter \/ LoopExit \/ LoopHandle \/ LoopRttReports
               \/ LoopRttReleases \/ LoopReturn \/ LoopCheck \/ LoopLeave \/ LoopCleansUp
      BY <2>2 DEF LoopOpen, LoopEnter, LoopExit, LoopHandle, LoopRttReports, LoopRttReleases,
                  LoopReturn, LoopCheck, LoopLeave, LoopCleansUp
    <2> QED BY <1>4, <2>1, <2>2 DEF LoopStep
  <1>5. CASE \E key \in Keys : LoopEvent(key)
    BY <1>5 DEF LoopEvent, Met
  <1> QED BY <1>1, <1>2, <1>3, <1>4, <1>5 DEF Next

(* A command that can be cancelled by its id is listed from wifi_register_cmd() on. *)
ListedInv ==
    \A k \in ById :
        current[k] # 0 /\ ~(api.call = "list" /\ api.of = k) => current[k] \in listed \/ Forgotten

LEMMA ForgottenStays ==
    ASSUME TypeOK, [Next]_vars, Forgotten
    PROVE  Forgotten'
  BY MishapsStay DEF Forgotten

LEMMA ListedKept ==
    ASSUME TypeOK, RefsInv, ListedInv, [Next]_vars
    PROVE  ListedInv'
  <1> USE Components, Counted
  <1>0. ById \subseteq AllKinds /\ "rtt" \notin ById
    BY DEF ById, AllKinds
  <1> SUFFICES ASSUME ~Forgotten'
               PROVE  ListedInv'
    BY DEF ListedInv
  <1>1. ~Forgotten /\ "clash" \notin mishaps' /\ "unlisted" \notin mishaps'
    BY ForgottenStays DEF Forgotten
  <1>2. ASSUME UNCHANGED <<listed, current>>, api.call # "list" \/ UNCHANGED api
        PROVE  ListedInv'
    BY <1>1, <1>2 DEF ListedInv
  <1>3. ASSUME NEW k \in Kinds, ApiStart(k)
        PROVE  ListedInv'
    <2>1. /\ api'.call = "list" /\ api'.of = k /\ listed' = listed /\ api.call = "none"
          /\ \A j \in AllKinds : j # k => current'[j] = current[j]
      BY <1>3 DEF ApiStart, Usable, TypeOK
    <2> QED BY <1>0, <1>1, <2>1 DEF ListedInv
  <1>4. ASSUME NEW k \in Kinds, ApiCancel(k) \/ ApiDummy(k)
        PROVE  ListedInv'
    <2>1. /\ listed' = listed /\ api.call = "none"
          /\ \A j \in AllKinds : current'[j] \in {0, current[j]}
      BY <1>4 DEF ApiCancel, ApiDummy, Usable, TypeOK
    <2> QED BY <1>0, <1>1, <2>1 DEF ListedInv
  <1>5. CASE ApiList
    <2>1. listed' = listed \cup {api.cmd} /\ UNCHANGED current /\ api.call = "list"
      BY <1>1, <1>5 DEF ApiList, TableBecomes
    <2>2. api.of # "rtt" => current[api.of] = api.cmd
      BY <2>1 DEF RefsInv, CallFits
    <2> QED BY <1>0, <1>1, <2>1, <2>2 DEF ListedInv
  <1>6. CASE ApiRefused
    <2>1. /\ listed' = listed /\ api.call # "list"
          /\ \A j \in AllKinds : current'[j] \in {0, current[j]}
      BY <1>6 DEF ApiRefused, InSteps, TypeOK
    <2> QED BY <1>0, <1>1, <2>1 DEF ListedInv
  <1>7. CASE ApiFail \/ ApiUnlist
    <2>1. /\ listed' = listed \ {api.cmd} /\ UNCHANGED current /\ api.call \in {"fail", "unlist"}
      BY <1>1, <1>7 DEF ApiFail, ApiUnlist, TableBecomes, Unlisted
    <2>2. \A k \in ById : current[k] # 0 => current[k] # api.cmd
      BY <1>0, <2>1 DEF RefsInv, CallFits, OfCommand, OwnerKnown
    <2> QED BY <1>1, <2>1, <2>2 DEF ListedInv
  <1>8. CASE LoopRttReports
    <2>1. /\ UNCHANGED <<listed, api>>
          /\ \A j \in AllKinds : current'[j] \in {0, current[j]}
      BY <1>8 DEF LoopRttReports, TypeOK
    <2> QED BY <1>0, <1>1, <2>1 DEF ListedInv
  <1>9. CASE LoopRttUnlists
    <2>1. listed' = listed \ {loop.cmd} /\ UNCHANGED <<current, api>> /\ loop.at = "unlist"
      BY <1>1, <1>9 DEF LoopRttUnlists, TableBecomes, Unlisted, At
    <2>2. \A k \in ById : current[k] # 0 => current[k] # loop.cmd
      BY <1>0, <2>1 DEF RefsInv, LoopHolds, OwnerKnown
    <2> QED BY <1>1, <2>1, <2>2 DEF ListedInv
  <1>10. CASE ApiCleanUp \/ ApiRegister \/ ApiUnregister \/ ApiAnswered \/ ApiUndone
              \/ ApiStarted \/ ApiCancelled \/ ApiSignal
    <2>1. UNCHANGED <<listed, current>> /\ api.call # "list"
      BY <1>10 DEF ApiCleanUp, Usable, ApiRegister, ApiUnregister, ApiAnswered, ApiUndone,
                   ApiStarted, ApiCancelled, ApiSignal, InSteps
    <2> QED BY <1>2, <2>1
  <1>11. CASE LoopOpen \/ LoopEnter \/ LoopExit \/ LoopHandle \/ LoopRttEnds
              \/ LoopRttReleases \/ LoopReturn \/ LoopCheck \/ LoopLeave \/ LoopCleansUp
              \/ LoopTouches \/ (\E key \in Keys : LoopEvent(key))
    <2>1. UNCHANGED <<listed, current, api>>
      BY <1>11 DEF LoopOpen, LoopEnter, LoopExit, LoopHandle, LoopRttEnds, LoopRttReleases,
                   LoopReturn, LoopCheck, LoopLeave, LoopCleansUp, LoopTouches, LoopEvent
    <2> QED BY <1>2, <2>1
  <1>12. CASE UNCHANGED vars \/ Ended
    BY <1>2, <1>12 DEF vars, Ended
  <1> QED BY <1>3, <1>4, <1>5, <1>6, <1>7, <1>8, <1>9, <1>10, <1>11, <1>12
          DEF Next, Service, ApiStep, LoopStep

(* A command the service has started is found by wifi_cancel_cmd(), unless   *)
(* the table was full or both threads were in it.                            *)
THEOREM StartedIsCancellable == Spec => []Cancellable
  <1>1. Init => ListedInv
    BY DEF Init, ListedInv, ById
  <1>2. ListedInv => Cancellable
    BY DEF ListedInv, Cancellable, Started
  <1> QED BY <1>1, <1>2, RefsAlways, ListedKept, PTL DEF Spec

-----------------------------------------------------------------------------
(* The clean-up. *)

LEMMA TidyKept ==
    ASSUME TypeOK, RefsInv, Tidy, [Next]_vars
    PROVE  Tidy'
  <1> USE Components, LoopBecomes
  <1> SUFFICES ASSUME "busy" \notin mishaps'
               PROVE  Tidy'
    BY DEF Tidy
  <1>1. "busy" \notin mishaps
    BY MishapsStay
  <1>2. ASSUME UNCHANGED <<info, loop>>, "touched" \in mishaps' => "touched" \in mishaps,
               api'.call \in {"clean", "done"} \/ api.call \in {"clean", "done"} => UNCHANGED api
        PROVE  Tidy'
    BY <1>1, <1>2 DEF Tidy
  <1>3. CASE \E k \in Kinds : ApiStart(k) \/ ApiCancel(k) \/ ApiDummy(k)
    <2>1. /\ UNCHANGED <<info, loop, mishaps>>
          /\ api.call = "none" /\ api'.call \in {"list", "unlist", "dummy"}
      BY <1>3 DEF ApiStart, ApiCancel, ApiDummy, Usable
    <2> QED BY <1>2, <2>1
  <1>4. CASE ApiCleanUp
    <2>1. /\ api'.call = "clean" /\ api.call = "none" /\ UNCHANGED <<loop, mishaps>>
          /\ loop.at = "poll" /\ info'.clean_up
          /\ info'.freed = info.freed /\ info'.in_event_loop = info.in_event_loop
          /\ info'.exit = info.exit
      BY <1>1, <1>4, ApiBecomes DEF ApiCleanUp, Usable, Calls, TypeOK, Info
    <2> QED BY <1>1, <2>1 DEF Tidy, Running
  <1>5. CASE ApiSignal
    <2>1. /\ api.call = "clean" /\ api'.call = "done" /\ UNCHANGED loop
          /\ loop.at = "poll" /\ LoopRuns /\ ~info.freed /\ info.clean_up
      BY <1>1, <1>5, ApiBecomes DEF ApiSignal, Calls, Tidy, LoopRuns
    <2>2. /\ info'.exit = "signalled" /\ info'.freed = info.freed /\ info'.clean_up = info.clean_up
          /\ info'.in_event_loop = info.in_event_loop /\ UNCHANGED mishaps
      BY <1>5, <2>1 DEF ApiSignal, TypeOK, Info
    <2> QED BY <1>1, <2>1, <2>2 DEF Tidy
  <1>6. CASE ApiStep /\ ~ApiSignal
    <2>1. UNCHANGED <<info, loop>> /\ ("touched" \in mishaps' => "touched" \in mishaps)
      BY <1>6 DEF ApiStep, ApiList, ApiRegister, ApiUnregister, ApiAnswered, ApiRefused, ApiUndone,
                  ApiFail, ApiStarted, ApiUnlist, ApiCancelled, TableBecomes
    <2>2. api.call \notin {"clean", "done"}
      BY <1>6 DEF ApiStep, ApiList, ApiRegister, ApiUnregister, ApiAnswered, ApiRefused, ApiUndone,
                  ApiFail, ApiStarted, ApiUnlist, ApiCancelled, InSteps
    <2>3. api'.call \notin {"clean", "done"}
      <3>1. CASE ApiRegister \/ ApiUnregister \/ ApiAnswered
        <4>1. api' = [api EXCEPT !.steps = Tail(api.steps)] /\ api.steps # <<>>
          BY <3>1 DEF ApiRegister, ApiUnregister, ApiAnswered, Onward, InSteps
        <4> QED BY <2>2, <4>1, StepsLeft, ApiBecomes
      <3>2. CASE ApiList \/ ApiUndone \/ ApiFail \/ ApiStarted \/ ApiCancelled
        <4>1. \E call \in {"none", "start", "fail"} : api' = [api EXCEPT !.call = call]
          BY <3>2 DEF ApiList, ApiUndone, ApiFail, ApiStarted, ApiCancelled
        <4>2. {"none", "start", "fail"} \subseteq Calls
          BY DEF Calls, InTable
        <4> QED BY <4>1, <4>2, ApiBecomes
      <3>3. CASE ApiRefused \/ ApiUnlist
        <4>1. api.call = api'.call \/ api'.call \in {"undo", "none", "cancel"}
          BY <3>3 DEF ApiRefused, ApiUnlist, TypeOK, Call
        <4> QED BY <2>2, <4>1
      <3> QED BY <1>6, <3>1, <3>2, <3>3 DEF ApiStep
    <2> QED BY <1>2, <2>1, <2>2, <2>3
  <1>7. CASE LoopOpen \/ LoopEnter \/ LoopLeave \/ LoopCleansUp
    <2>1. UNCHANGED <<api, mishaps>> /\ ~info.freed /\ info' \in Info
          /\ info'.clean_up = info.clean_up
      <3>1. UNCHANGED <<api, mishaps>> /\ ~info.freed
        BY <1>7 DEF LoopOpen, LoopEnter, LoopLeave, LoopCleansUp, At
      <3>2. \/ info' = [info EXCEPT !.exit = "open"]
            \/ info' = [info EXCEPT !.in_event_loop = TRUE]
            \/ info' = [info EXCEPT !.in_event_loop = FALSE]
            \/ info' = [info EXCEPT !.freed = TRUE]
        BY <1>7 DEF LoopOpen, LoopEnter, LoopLeave, LoopCleansUp, LoopFrees
      <3>3. info' \in Info /\ info'.clean_up = info.clean_up
        BY <3>2 DEF TypeOK, Info
      <3> QED BY <3>1, <3>3
    <2>2. CASE LoopOpen
      <3>1. loop.at = "out" /\ loop'.at = "enter" /\ info'.exit = "open" /\ info'.freed = info.freed
        BY <2>2 DEF LoopOpen, At, GoTo, Places, TypeOK, Info
      <3> QED BY <1>1, <2>1, <3>1 DEF Tidy, Running
    <2>3. CASE LoopEnter
      <3>1. /\ loop.at = "enter" /\ loop'.at = "poll" /\ info'.exit = info.exit
            /\ info'.in_event_loop /\ info'.freed = info.freed
        BY <2>3 DEF LoopEnter, At, GoTo, Places, TypeOK, Info
      <3> QED BY <1>1, <2>1, <3>1 DEF Tidy, Running
    <2>4. CASE LoopLeave
      <3>1. loop.at = "leave" /\ loop' = loop /\ info'.exit = info.exit /\ info'.freed = info.freed
        BY <2>4 DEF LoopLeave, At, TypeOK, Info
      <3> QED BY <1>1, <2>1, <3>1 DEF Tidy, Running
    <2>5. CASE LoopCleansUp
      <3>1. loop.at = "leave" /\ loop'.at = "done" /\ info'.exit = info.exit
        BY <2>5 DEF LoopCleansUp, LoopFrees, At, GoTo, Places, TypeOK, Info
      <3> QED BY <1>1, <2>1, <3>1 DEF Tidy, Running
    <2> QED BY <1>7, <2>2, <2>3, <2>4, <2>5
  <1>8. CASE LoopExit \/ LoopHandle \/ LoopCheck
    <2>1. UNCHANGED <<api, info, mishaps>> /\ ~info.freed
      BY <1>8 DEF LoopExit, LoopHandle, LoopCheck, At
    <2>2. CASE LoopExit
      <3>1. loop.at = "poll" /\ loop'.at = "leave" /\ info.exit = "signalled"
        BY <2>2 DEF LoopExit, At, GoTo, Places
      <3> QED BY <1>1, <2>1, <3>1 DEF Tidy, Running
    <2>3. CASE LoopHandle
      <3>1. loop.at = "call" /\ loop'.at = "return"
        BY <2>3 DEF LoopHandle, At, GoTo, Places
      <3> QED BY <1>1, <2>1, <3>1 DEF Tidy, Running
    <2>4. CASE LoopCheck
      <3>1. loop.at = "check" /\ loop'.at = IF info.clean_up THEN "leave" ELSE "poll"
        <4>1. "leave" \in Places /\ "poll" \in Places
          BY DEF Places
        <4> QED BY <2>4, <4>1 DEF LoopCheck, At, GoTo
      <3> QED BY <1>1, <2>1, <3>1 DEF Tidy, Running
    <2> QED BY <1>8, <2>2, <2>3, <2>4
  <1>9. CASE LoopRttEnds \/ LoopRttReports \/ LoopRttUnlists \/ LoopRttReleases \/ LoopReturn
    <2>1. /\ loop.at \in Running /\ loop'.at \in Running \cup {"check"}
          /\ UNCHANGED <<info, api>>
          /\ "touched" \in mishaps' => "touched" \in mishaps
      BY <1>9 DEF LoopRttEnds, LoopRttReports, LoopRttUnlists, LoopRttReleases, LoopReturn, At,
                  GoTo, TypeOK, Thread, Running, TableBecomes
    <2> QED BY <1>1, <2>1 DEF Tidy, Running
  <1>10. CASE LoopTouches
    BY <1>1, <1>10 DEF LoopTouches, Tidy
  <1>11. ASSUME NEW key \in Keys, LoopEvent(key)
         PROVE  Tidy'
    <2>1. /\ loop.at = "poll" /\ ~info.freed /\ info.exit # "signalled" /\ UNCHANGED <<info, api>>
          /\ loop'.at \in {"check", "call", "done"}
          /\ "touched" \in mishaps' => "touched" \in mishaps
          /\ api.call # "clean"
      <3>1. /\ loop.at = "poll" /\ ~info.freed /\ info.exit # "signalled"
            /\ UNCHANGED <<info, api>>
            /\ mishaps' = Met \/ mishaps' = Met \cup {"dead"}
            /\ \/ loop' = [loop EXCEPT !.at = "check"]
               \/ \E c : loop' = [at |-> "call", cmd |-> c]
               \/ loop' = [at |-> "done", cmd |-> 0]
        BY <1>11 DEF LoopEvent, At
      <3>2. loop'.at \in {"check", "call", "done"}
        <4>1. loop' = [loop EXCEPT !.at = "check"] => loop'.at = "check"
          BY DEF Places
        <4>2. (\E c : loop' = [at |-> "call", cmd |-> c]) => loop'.at = "call"
          OBVIOUS
        <4> QED BY <3>1, <4>1, <4>2
      <3>3. api.call # "clean" /\ ("touched" \in mishaps' => "touched" \in mishaps)
        BY <3>1 DEF Met
      <3> QED BY <3>1, <3>2, <3>3
    <2> QED BY <1>1, <2>1 DEF Tidy, Running
  <1>12. CASE UNCHANGED vars \/ Ended
    BY <1>2, <1>12 DEF vars, Ended
  <1> QED BY <1>3, <1>4, <1>5, <1>6, <1>7, <1>8, <1>9, <1>10, <1>11, <1>12
          DEF Next, Service, LoopStep

(* A clean-up that meets an idle event loop frees the HAL's memory once and  *)
(* nothing uses it afterwards.                                               *)
THEOREM IdleCleanUpIsSafe == Spec => []IdleCleanUp
  <1>1. Init => Tidy
    BY DEF Init, Tidy, Running
  <1>2. Tidy => IdleCleanUp
    BY DEF Tidy, IdleCleanUp
  <1> QED BY <1>1, <1>2, RefsAlways, TidyKept, PTL DEF Spec

=============================================================================
