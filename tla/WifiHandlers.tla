---------------------------- MODULE WifiHandlers ----------------------------
(***************************************************************************)
(* Proofs about WifiHal's table of handlers, for every number of commands  *)
(* and every size of the two tables.                                       *)
(*                                                                         *)
(* wifi_unregister_vendor_handler() removes the first handler of a key,    *)
(* whoever registered it.  So a command keeps its handlers, and leaves     *)
(* none behind, only because no two kinds use one key: all but "scan" and  *)
(* "full", which both register for full scan results.  The function table  *)
(* of the HAL offers no call that starts a "full".                         *)
(***************************************************************************)
EXTENDS WifiHalProofs, SequenceTheorems

-----------------------------------------------------------------------------
(* The steps of a call. *)

Starting == {"list", "start"}
Stopping == {"undo", "cancel", "dummy"}

Undoes(step, key) == \E j \in DOMAIN step.keys : step.keys[j] = key

(* What is left of a call's steps: starting registers each key of its kind   *)
(* at most once, and a refusal undoes what was registered before it;         *)
(* stopping unregisters keys of its kind, and before it can be refused.      *)
Fit(steps, call, k) ==
    /\ \A i \in DOMAIN steps :
          /\ steps[i].do = "on" => call \in Starting /\ steps[i].keys[1] \in KeysOf(k)
          /\ steps[i].do = "off" => call \in Stopping /\ steps[i].keys[1] \in KeysOf(k)
          /\ steps[i].do = "ask" => call # "undo"
          /\ steps[i].do = "ask" /\ call \in Starting =>
                \A j \in DOMAIN steps[i].keys : steps[i].keys[j] \in KeysOf(k)
    /\ \A i, j \in DOMAIN steps :
          /\ steps[i].do = "on" /\ steps[j].do = "on" /\ steps[i].keys[1] = steps[j].keys[1]
                => i = j
          /\ steps[i].do = "on" /\ steps[j].do = "ask" /\ i < j
                => Undoes(steps[j], steps[i].keys[1])
          /\ steps[i].do = "off" /\ steps[j].do = "ask" /\ k # "log" => i < j

(* The keys each kind registers for. *)
LEMMA KeysAre ==
    /\ KeysOf("scan") = {"results", "complete", "full"}
    /\ KeysOf("full") = {"full"}
    /\ KeysOf("hotlist") = {"found", "lost"}
    /\ KeysOf("change") = {"change"}
    /\ KeysOf("epno") = {"epno"}
    /\ KeysOf("anqpo") = {"match"}
    /\ KeysOf("rssi") = {"rssi"}
    /\ KeysOf("rtt") = {"rtt"}
    /\ KeysOf("log") = {"ring"}
    /\ KeysOf("alert") = {"dump"}
  <1> USE DEF KeysOf, StartOf, On, Ask
  <1>1. KeysOf("scan") = {"results", "complete", "full"}
    BY DEF ScanStart
  <1>2. KeysOf("full") = {"full"}
    BY DEF FullStart
  <1>3. KeysOf("hotlist") = {"found", "lost"}
    BY DEF HotlistStart
  <1>4. KeysOf("change") = {"change"}
    BY DEF ChangeStart
  <1>5. KeysOf("epno") = {"epno"}
    BY DEF EpnoStart
  <1>6. KeysOf("anqpo") = {"match"}
    BY DEF AnqpoStart
  <1>7. KeysOf("rssi") = {"rssi"}
    BY DEF RssiStart
  <1>8. KeysOf("rtt") = {"rtt"}
    BY DEF RttStart
  <1>9. KeysOf("log") = {"ring"}
    BY DEF LogStart
  <1>10. KeysOf("alert") = {"dump"}
    BY DEF AlertStart
  <1> QED BY <1>1, <1>2, <1>3, <1>4, <1>5, <1>6, <1>7, <1>8, <1>9, <1>10

LEMMA KeysApart ==
    /\ \A k \in AllKinds : KeysOf(k) \subseteq Keys /\ ("ring" \in KeysOf(k) => k = "log")
    /\ \A j, k \in AllKinds :
          j # k /\ ~({j, k} = {"scan", "full"}) => KeysOf(j) \cap KeysOf(k) = {}
  BY KeysAre DEF AllKinds, Keys

LEMMA FitStart ==
    ASSUME NEW k \in AllKinds, NEW call \in Starting
    PROVE  Fit(StartOf(k), call, k)
  <1> USE DEF Fit, StartOf, On, Ask, Undoes, Starting, Stopping
  <1>1. CASE k = "scan"
    BY <1>1, KeysAre DEF ScanStart
  <1>2. CASE k = "full"
    BY <1>2, KeysAre DEF FullStart
  <1>3. CASE k = "hotlist"
    BY <1>3, KeysAre DEF HotlistStart
  <1>4. CASE k = "change"
    BY <1>4, KeysAre DEF ChangeStart
  <1>5. CASE k = "epno"
    BY <1>5, KeysAre DEF EpnoStart
  <1>6. CASE k = "anqpo"
    BY <1>6, KeysAre DEF AnqpoStart
  <1>7. CASE k = "rssi"
    BY <1>7, KeysAre DEF RssiStart
  <1>8. CASE k = "rtt"
    BY <1>8, KeysAre DEF RttStart
  <1>9. CASE k = "log"
    BY <1>9, KeysAre DEF LogStart
  <1>10. CASE k = "alert"
    BY <1>10, KeysAre DEF AlertStart
  <1> QED BY <1>1, <1>2, <1>3, <1>4, <1>5, <1>6, <1>7, <1>8, <1>9, <1>10 DEF AllKinds

(* What can be cancelled unregisters all it registered. *)
LEMMA FitCancel ==
    ASSUME NEW k \in ById \cup ByDummy, NEW call \in {"cancel", "dummy"}
    PROVE  /\ Fit(CancelOf(k), call, k)
           /\ \A key \in KeysOf(k) : \E i \in DOMAIN CancelOf(k) :
                 CancelOf(k)[i].do = "off" /\ CancelOf(k)[i].keys[1] = key
  <1> USE DEF Fit, CancelOf, Off, Ask, Try, Starting, Stopping
  <1>1. CASE k = "scan"
    BY <1>1, KeysAre DEF ScanCancel
  <1>2. CASE k = "full"
    BY <1>2, KeysAre DEF FullCancel
  <1>3. CASE k = "hotlist"
    BY <1>3, KeysAre DEF HotlistCancel
  <1>4. CASE k = "change"
    BY <1>4, KeysAre DEF ChangeCancel
  <1>5. CASE k = "epno"
    BY <1>5, KeysAre DEF EpnoCancel
  <1>6. CASE k = "anqpo"
    BY <1>6, KeysAre DEF AnqpoCancel
  <1>7. CASE k = "rssi"
    BY <1>7, KeysAre DEF RssiCancel
  <1>8. CASE k = "rtt"
    BY <1>8, KeysAre DEF RttCancel
  <1>9. CASE k = "log"
    BY <1>9, KeysAre DEF LogCancel
  <1> QED BY <1>1, <1>2, <1>3, <1>4, <1>5, <1>6, <1>7, <1>8, <1>9 DEF ById, ByDummy, AllKinds

LEMMA FitNone ==
    ASSUME NEW call, NEW k
    PROVE  Fit(<<>>, call, k)
  BY DEF Fit

LEMMA FitTail ==
    ASSUME NEW steps \in Seq(Steps), steps # <<>>, NEW call, NEW k, Fit(steps, call, k)
    PROVE  Fit(Tail(steps), call, k)
  <1>1. PICK left \in Seq(Steps) :
           /\ left = Tail(steps)
           /\ \A i \in DOMAIN left : i \in Nat /\ i + 1 \in DOMAIN steps /\ left[i] = steps[i + 1]
    <2>1. \A i \in DOMAIN Tail(steps) : i \in Nat
      OBVIOUS
    <2> QED BY <2>1, StepsLeft
  <1>2. ASSUME NEW i \in DOMAIN left
        PROVE  /\ left[i].do = "on" => call \in Starting /\ left[i].keys[1] \in KeysOf(k)
               /\ left[i].do = "off" => call \in Stopping /\ left[i].keys[1] \in KeysOf(k)
               /\ left[i].do = "ask" => call # "undo"
               /\ left[i].do = "ask" /\ call \in Starting =>
                     \A j \in DOMAIN left[i].keys : left[i].keys[j] \in KeysOf(k)
    BY <1>1 DEF Fit
  <1>3. ASSUME NEW i \in DOMAIN left, NEW j \in DOMAIN left
        PROVE  /\ left[i].do = "on" /\ left[j].do = "on" /\ left[i].keys[1] = left[j].keys[1]
                     => i = j
               /\ left[i].do = "on" /\ left[j].do = "ask" /\ i < j
                     => Undoes(left[j], left[i].keys[1])
               /\ left[i].do = "off" /\ left[j].do = "ask" /\ k # "log" => i < j
    <2>1. /\ i + 1 \in DOMAIN steps /\ left[i] = steps[i + 1] /\ i \in Nat
          /\ j + 1 \in DOMAIN steps /\ left[j] = steps[j + 1] /\ j \in Nat
      BY <1>1
    <2>2. (i + 1 = j + 1 => i = j) /\ (i < j <=> i + 1 < j + 1)
      BY <2>1
    <2> QED BY <2>1, <2>2 DEF Fit
  <1> QED BY <1>1, <1>2, <1>3 DEF Fit

LEMMA FitUndo ==
    ASSUME NEW keys \in Seq(Keys), NEW k, \A j \in DOMAIN keys : keys[j] \in KeysOf(k)
    PROVE  /\ Fit(Undo(keys), "undo", k)
           /\ \A j \in DOMAIN keys : \E i \in DOMAIN Undo(keys) :
                 Undo(keys)[i].do = "off" /\ Undo(keys)[i].keys[1] = keys[j]
  <1>1. PICK undo : undo = Undo(keys)
    OBVIOUS
  <1>2. /\ DOMAIN undo = DOMAIN keys
        /\ \A i \in DOMAIN undo : undo[i].do = "off" /\ undo[i].keys[1] = keys[i]
    BY <1>1 DEF Undo, Off
  <1> QED BY <1>1, <1>2 DEF Fit, Stopping

-----------------------------------------------------------------------------
(* The table of handlers. *)

Handlers == {event_cb[i] : i \in DOMAIN event_cb}

(* No two handlers have one key, but for the rings of log handlers. *)
Single ==
    \A i, j \in DOMAIN event_cb :
        event_cb[i].key = event_cb[j].key /\ event_cb[i].key # "ring" => i = j

LEMMA HandlersTyped ==
    ASSUME TypeOK, NEW h \in Handlers
    PROVE  /\ h \in Handler /\ h.key \in Keys /\ h.cmd \in Commands
           /\ h = [key |-> h.key, cmd |-> h.cmd]
  <1>1. h \in Handler
    BY DEF TypeOK, Handlers
  <1> QED BY <1>1 DEF Handler

LEMMA WithoutIs ==
    ASSUME NEW S, NEW seq \in Seq(S), NEW i \in DOMAIN seq
    PROVE  /\ DOMAIN Without(seq, i) = 1..(Len(seq) - 1)
           /\ \A p \in DOMAIN Without(seq, i) :
                 Without(seq, i)[p] = IF p < i THEN seq[p] ELSE seq[p + 1]
  <1>1. i \in 1..Len(seq) /\ Len(seq) \in Nat
    OBVIOUS
  <1>2. PICK left \in Seq(S) : left = SubSeq(seq, 1, i - 1)
    <2>1. SubSeq(seq, 1, i - 1) \in Seq(S)
      BY <1>1
    <2> QED BY <2>1, Zenon
  <1>3. PICK right \in Seq(S) : right = SubSeq(seq, i + 1, Len(seq))
    <2>1. SubSeq(seq, i + 1, Len(seq)) \in Seq(S)
      BY <1>1
    <2> QED BY <2>1, Zenon
  <1>4. Len(left) = i - 1 /\ \A p \in 1..(i - 1) : left[p] = seq[p]
    BY <1>1, <1>2
  <1>5. Len(right) = Len(seq) - i /\ \A p \in 1..(Len(seq) - i) : right[p] = seq[i + p]
    <2>1. Len(seq) - (i + 1) + 1 = Len(seq) - i /\ Len(seq) - i \in Nat
      BY <1>1
    <2>2. Len(right) = Len(seq) - i
      BY <1>1, <1>3, <2>1
    <2>3. ASSUME NEW p \in 1..(Len(seq) - i) PROVE right[p] = seq[i + p]
      <3>1. p \in 1..(Len(seq) - (i + 1) + 1) /\ (i + 1) + p - 1 = i + p
        BY <1>1
      <3>2. /\ i + 1 \in Int /\ Len(seq) \in Int
            /\ \A j \in (i + 1)..Len(seq) : seq[j] \in S
        BY <1>1
      <3>3. \A j \in 1..(Len(seq) - (i + 1) + 1) :
               SubSeq(seq, i + 1, Len(seq))[j] = seq[(i + 1) + j - 1]
        BY <3>2, SubSeqProperties
      <3> QED BY <1>3, <3>1, <3>3
    <2> QED BY <2>2, <2>3
  <1>6. Without(seq, i) = left \o right
    BY <1>2, <1>3 DEF Without
  <1>7. /\ DOMAIN (left \o right) = 1..(Len(seq) - 1)
        /\ \A p \in 1..(Len(seq) - 1) :
              (left \o right)[p] = IF p < i THEN left[p] ELSE right[p - (i - 1)]
    BY <1>1, <1>4, <1>5
  <1>8. ASSUME NEW p \in 1..(Len(seq) - 1)
        PROVE  (left \o right)[p] = IF p < i THEN seq[p] ELSE seq[p + 1]
    <2>1. CASE p < i
      BY <1>1, <1>4, <1>7, <2>1
    <2>2. CASE ~(p < i)
      <3>1. p - (i - 1) \in 1..(Len(seq) - i) /\ i + (p - (i - 1)) = p + 1
        BY <1>1, <2>2
      <3> QED BY <1>5, <1>7, <2>2, <3>1
    <2> QED BY <2>1, <2>2
  <1> QED BY <1>6, <1>7, <1>8

(* What the removal of a handler leaves. *)
LEMMA WithoutKeeps ==
    ASSUME TypeOK, NEW i \in DOMAIN event_cb, event_cb' = Without(event_cb, i)
    PROVE  /\ Handlers' \subseteq Handlers
           /\ \A q \in DOMAIN event_cb : q # i => event_cb[q] \in Handlers'
           /\ Single => Single'
           /\ Single /\ event_cb[i].key # "ring" => \A h \in Handlers' : h.key # event_cb[i].key
  <1>1. /\ event_cb \in Seq(Handler) /\ Len(event_cb) \in Nat
        /\ DOMAIN event_cb = 1..Len(event_cb) /\ i \in 1..Len(event_cb)
    BY DEF TypeOK
  <1>2. PICK rest : rest = event_cb'
    OBVIOUS
  <1>3. /\ DOMAIN rest = 1..(Len(event_cb) - 1)
        /\ \A p \in DOMAIN rest : rest[p] = IF p < i THEN event_cb[p] ELSE event_cb[p + 1]
    BY <1>1, <1>2, WithoutIs
  <1> DEFINE From(p) == IF p < i THEN p ELSE p + 1
  <1>4. \A p \in DOMAIN rest :
           From(p) \in DOMAIN event_cb /\ From(p) # i /\ rest[p] = event_cb[From(p)]
    BY <1>1, <1>3
  <1>5. \A p, q \in DOMAIN rest : From(p) = From(q) => p = q
    BY <1>1, <1>3
  <1>6. \A q \in DOMAIN event_cb : q # i => \E p \in DOMAIN rest : From(p) = q
    <2> TAKE q \in DOMAIN event_cb
    <2>1. CASE q < i
      BY <1>1, <1>3, <2>1
    <2>2. CASE q > i
      <3>1. q - 1 \in DOMAIN rest /\ ~(q - 1 < i) /\ (q - 1) + 1 = q
        BY <1>1, <1>3, <2>2
      <3> QED BY <3>1
    <2> QED BY <1>1, <2>1, <2>2
  <1> HIDE DEF From
  <1>7. Handlers' = {rest[p] : p \in DOMAIN rest}
    BY <1>2 DEF Handlers
  <1>8. Single' <=> \A p, q \in DOMAIN rest :
                       rest[p].key = rest[q].key /\ rest[p].key # "ring" => p = q
    BY <1>2 DEF Single
  <1>9. Handlers' \subseteq Handlers
    BY <1>4, <1>7 DEF Handlers
  <1>10. ASSUME NEW q \in DOMAIN event_cb, q # i
         PROVE  event_cb[q] \in Handlers'
    BY <1>4, <1>6, <1>7, <1>10
  <1>11. ASSUME Single PROVE Single'
    BY <1>4, <1>5, <1>8, <1>11 DEF Single
  <1>12. ASSUME Single, event_cb[i].key # "ring", NEW h \in Handlers' PROVE h.key # event_cb[i].key
    BY <1>4, <1>7, <1>12 DEF Single
  <1> QED BY <1>9, <1>10, <1>11, <1>12

LEMMA Unregisters ==
    ASSUME TypeOK, NEW key, Unregister(key)
    PROVE  /\ Handlers' \subseteq Handlers
           /\ \A h \in Handlers : h.key # key => h \in Handlers'
           /\ \A h \in Handlers :
                 (\A i \in First(event_cb, key) : event_cb[i].cmd # h.cmd) => h \in Handlers'
           /\ Single => Single'
           /\ Single /\ key # "ring" => \A h \in Handlers' : h.key # key
  <1>1. CASE Positions(event_cb, key) = {} /\ UNCHANGED event_cb
    <2>1. Handlers' = Handlers /\ (Single => Single')
      BY <1>1 DEF Handlers, Single
    <2>2. \A h \in Handlers : h.key # key
      BY <1>1 DEF Handlers, Positions
    <2> QED BY <2>1, <2>2
  <1>2. ASSUME NEW i \in First(event_cb, key), event_cb' = Without(event_cb, i)
        PROVE  /\ Handlers' \subseteq Handlers
               /\ \A h \in Handlers : h.key # key => h \in Handlers'
               /\ \A h \in Handlers :
                     (\A j \in First(event_cb, key) : event_cb[j].cmd # h.cmd) => h \in Handlers'
               /\ Single => Single'
               /\ Single /\ key # "ring" => \A h \in Handlers' : h.key # key
    <2>1. i \in DOMAIN event_cb /\ event_cb[i].key = key
      BY DEF First, Positions
    <2>2. /\ Handlers' \subseteq Handlers
          /\ \A q \in DOMAIN event_cb : q # i => event_cb[q] \in Handlers'
          /\ Single => Single'
          /\ Single /\ key # "ring" => \A h \in Handlers' : h.key # key
      BY <1>2, <2>1, WithoutKeeps
    <2>3. ASSUME NEW h \in Handlers, h.key # key PROVE h \in Handlers'
      BY <2>1, <2>2, <2>3 DEF Handlers
    <2>4. ASSUME NEW h \in Handlers, event_cb[i].cmd # h.cmd PROVE h \in Handlers'
      BY <2>1, <2>2, <2>4 DEF Handlers
    <2> QED BY <2>2, <2>3, <2>4
  <1> QED BY <1>1, <1>2 DEF Unregister

LEMMA Registers ==
    ASSUME TypeOK, NEW key \in Keys, NEW c \in Commands,
           event_cb' = Registered(event_cb, key, c)
    PROVE  /\ \/ UNCHANGED event_cb
              \/ Handlers' = Handlers \cup {[key |-> key, cmd |-> c]}
           /\ Handlers \subseteq Handlers'
           /\ Handlers' \subseteq Handlers \cup {[key |-> key, cmd |-> c]}
           /\ Single /\ (\A h \in Handlers : h.key = key => key = "ring") => Single'
  <1>1. CASE UNCHANGED event_cb
    BY <1>1 DEF Handlers, Single
  <1>2. CASE event_cb' = Append(event_cb, [key |-> key, cmd |-> c])
    <2>1. PICK new : new = [key |-> key, cmd |-> c]
      OBVIOUS
    <2>2. PICK table : table = event_cb'
      OBVIOUS
    <2>3. event_cb \in Seq(Handler) /\ Len(event_cb) \in Nat /\ new \in Handler
      BY <2>1 DEF TypeOK, Handler
    <2>4. /\ DOMAIN table = 1..(Len(event_cb) + 1) /\ DOMAIN event_cb = 1..Len(event_cb)
          /\ \A p \in 1..Len(event_cb) : table[p] = event_cb[p]
          /\ table[Len(event_cb) + 1] = new
      BY <1>2, <2>1, <2>2, <2>3
    <2>5. \A p \in DOMAIN table : p \in DOMAIN event_cb \/ p = Len(event_cb) + 1
      BY <2>3, <2>4
    <2>6. Len(event_cb) + 1 \in DOMAIN table /\ DOMAIN event_cb \subseteq DOMAIN table
      BY <2>3, <2>4
    <2>7. Handlers' = {table[p] : p \in DOMAIN table}
      BY <2>2 DEF Handlers
    <2>8. Handlers' = Handlers \cup {new}
      BY <2>4, <2>5, <2>6, <2>7 DEF Handlers
    <2>9. ASSUME Single, \A h \in Handlers : h.key = key => key = "ring" PROVE Single'
      <3>1. \A p \in DOMAIN event_cb : event_cb[p].key = key => key = "ring"
        BY <2>9 DEF Handlers
      <3>2. \A p, q \in DOMAIN table :
               table[p].key = table[q].key /\ table[p].key # "ring" => p = q
        <4>1. new.key = key
          BY <2>1
        <4> QED BY <2>4, <2>5, <2>9, <3>1, <4>1 DEF Single
      <3> QED BY <2>2, <3>2 DEF Single
    <2> QED BY <2>1, <2>8, <2>9
  <1> QED BY <1>1, <1>2 DEF Registered

-----------------------------------------------------------------------------
(* The call in progress. *)

OnLeft(key)  == \E i \in DOMAIN api.steps : api.steps[i].do = "on" /\ api.steps[i].keys[1] = key
OffLeft(key) == \E i \in DOMAIN api.steps : api.steps[i].do = "off" /\ api.steps[i].keys[1] = key

(* A call is about a kind the service uses; the command that starts is its   *)
(* kind's current one, unless it is a ranging that has ended already.        *)
CallKnown ==
    /\ \A k \in AllKinds : current[k] # 0 => k \in Kinds
    /\ api.call \notin {"none", "clean", "done"} => api.of \in Kinds
    /\ api.call \in Starting => current[api.of] \in {0, api.cmd}
    /\ api.call = "start" /\ api.of # "rtt" => current[api.of] = api.cmd
    /\ api.call = "dummy" => current[api.of] = 0
    /\ api.call \in {"unlist", "cancel"} => api.of \in ById
    /\ Fit(api.steps, api.call, api.of)

(* A step done leaves those after it. *)
LEMMA OnwardLeaves ==
    ASSUME TypeOK, api.steps # <<>>, Onward
    PROVE  /\ api'.call = api.call /\ api'.cmd = api.cmd /\ api'.of = api.of
           /\ api'.steps = Tail(api.steps)
           /\ Head(api.steps) = api.steps[1] /\ 1 \in DOMAIN api.steps
           /\ Head(api.steps) \in Steps
           /\ \A i \in DOMAIN api'.steps :
                 i \in Nat /\ i > 0 /\ i + 1 \in DOMAIN api.steps /\ api'.steps[i] = api.steps[i + 1]
           /\ \A i \in DOMAIN api.steps :
                 i = 1 \/ \E j \in DOMAIN api'.steps : api'.steps[j] = api.steps[i]
  <1>1. PICK steps \in Seq(Steps) : steps = api.steps
    BY Components
  <1>2. /\ api'.call = api.call /\ api'.cmd = api.cmd /\ api'.of = api.of
        /\ api'.steps = Tail(steps)
    <2>1. Tail(steps) \in Seq(Steps)
      BY <1>1, StepsLeft
    <2>2. api' = [api EXCEPT !.steps = Tail(steps)]
      BY <1>1 DEF Onward
    <2> QED BY <2>1, <2>2, ApiBecomes, Components
  <1>3. Head(steps) = steps[1] /\ 1 \in DOMAIN steps /\ Head(steps) \in Steps
    BY <1>1, StepsLeft
  <1>4. PICK left : left = Tail(steps)
    OBVIOUS
  <1>5. /\ Len(steps) \in Nat /\ DOMAIN steps = 1..Len(steps)
        /\ DOMAIN left = 1..(Len(steps) - 1)
        /\ \A i \in 1..(Len(steps) - 1) : left[i] = steps[i + 1]
    BY <1>1, <1>4
  <1>6. ASSUME NEW i \in DOMAIN left
        PROVE  i \in Nat /\ i > 0 /\ i + 1 \in DOMAIN steps /\ left[i] = steps[i + 1]
    BY <1>5
  <1>7. ASSUME NEW i \in DOMAIN steps, i # 1 PROVE \E j \in DOMAIN left : left[j] = steps[i]
    <2>1. i - 1 \in 1..(Len(steps) - 1) /\ (i - 1) + 1 = i
      BY <1>5, <1>7
    <2> QED BY <1>5, <2>1
  <1> QED BY <1>1, <1>2, <1>3, <1>4, <1>6, <1>7

(* What a call may do depends only on whether it starts or stops something. *)
LEMMA FitLike ==
    ASSUME NEW steps, NEW call, NEW like, NEW k, Fit(steps, call, k), like # "undo",
           call \in Starting <=> like \in Starting, call \in Stopping <=> like \in Stopping
    PROVE  Fit(steps, like, k)
  BY Zenon DEF Fit

LEMMA CallKnownKept ==
    ASSUME TypeOK, RefsInv, CallKnown, [Next]_vars
    PROVE  CallKnown'
  <1> USE Components, Counted
  <1>0. Kinds \subseteq AllKinds
    BY WifiHalAssumption DEF WifiHalAssumption
  <1>1. CASE UNCHANGED <<api, current>>
    BY <1>1 DEF CallKnown
  <1>2. ASSUME NEW k \in Kinds, ApiStart(k)
        PROVE  CallKnown'
    <2>1. PICK c \in Commands :
             /\ api' = [call |-> "list", cmd |-> c, of |-> k, steps |-> StartOf(k)]
             /\ current'[k] = c
             /\ \A j \in AllKinds : j # k => current'[j] = current[j]
      BY <1>0, <1>2 DEF ApiStart, TypeOK
    <2>2. api'.call = "list" /\ api'.cmd = c /\ api'.of = k /\ api'.steps = StartOf(k)
      BY <2>1
    <2>3. Fit(StartOf(k), "list", k)
      BY <1>0, FitStart DEF Starting
    <2> QED BY <1>0, <2>1, <2>2, <2>3 DEF CallKnown
  <1>3. ASSUME NEW k \in Kinds, ApiCancel(k)
        PROVE  CallKnown'
    <2>1. /\ api' = [call |-> "unlist", cmd |-> current[k], of |-> k, steps |-> <<>>]
          /\ k \in ById /\ current'[k] = 0
          /\ \A j \in AllKinds : j # k => current'[j] = current[j]
      BY <1>0, <1>3 DEF ApiCancel, TypeOK
    <2>2. api'.call = "unlist" /\ api'.of = k /\ api'.steps = <<>>
      BY <2>1
    <2> QED BY <1>0, <2>1, <2>2, FitNone DEF CallKnown, Starting
  <1>4. ASSUME NEW k \in Kinds, ApiDummy(k)
        PROVE  CallKnown'
    <2>1. /\ api' = [call |-> "dummy", cmd |-> 0, of |-> k, steps |-> CancelOf(k)]
          /\ k \in ByDummy /\ current'[k] = 0
          /\ \A j \in AllKinds : j # k => current'[j] = current[j]
      BY <1>0, <1>4 DEF ApiDummy, TypeOK
    <2>2. api'.call = "dummy" /\ api'.of = k /\ api'.steps = CancelOf(k)
      BY <2>1
    <2>3. Fit(CancelOf(k), "dummy", k)
      BY <2>1, FitCancel
    <2> QED BY <1>0, <2>1, <2>2, <2>3 DEF CallKnown, Starting
  <1>5. ASSUME UNCHANGED current, api'.of = api.of,
               Fit(api'.steps, api'.call, api'.of), api'.call \in {"none", "clean", "done", "fail"},
               api'.call = "fail" => api.call = "undo"
        PROVE  CallKnown'
    BY <1>5 DEF CallKnown, Starting
  <1>6. CASE ApiList
    <2>1. "start" \in Calls /\ api' = [api EXCEPT !.call = "start"] /\ UNCHANGED current
          /\ api.call = "list"
      BY <1>6 DEF ApiList, Calls
    <2>2. api'.call = "start" /\ api'.cmd = api.cmd /\ api'.of = api.of /\ api'.steps = api.steps
      BY <2>1, ApiBecomes
    <2>3. Fit(api.steps, "start", api.of)
      BY <2>1, FitLike DEF CallKnown, Starting, Stopping
    <2>4. api.of # "rtt" => current[api.of] = api.cmd
      BY <2>1 DEF RefsInv, CallFits
    <2> QED BY <2>1, <2>2, <2>3, <2>4 DEF CallKnown, Starting
  <1>7. CASE ApiRegister \/ ApiUnregister \/ ApiAnswered
    <2>1. api.steps # <<>> /\ Onward /\ UNCHANGED current
      BY <1>7 DEF ApiRegister, ApiUnregister, ApiAnswered, InSteps
    <2>2. /\ api'.call = api.call /\ api'.cmd = api.cmd /\ api'.of = api.of
          /\ api'.steps = Tail(api.steps)
      BY <2>1, OnwardLeaves
    <2>3. Fit(api'.steps, api.call, api.of)
      BY <2>1, <2>2, FitTail DEF CallKnown
    <2> QED BY <2>1, <2>2, <2>3 DEF CallKnown
  <1>8. CASE ApiRefused
    <2>1. /\ api.steps # <<>> /\ Head(api.steps).do = "ask"
          /\ api.call \in {"start", "undo", "cancel", "dummy"}
          /\ current'[api.of] = 0
          /\ \A k \in AllKinds : k # api.of => current'[k] = current[k]
      BY <1>8 DEF ApiRefused, InSteps, TypeOK
    <2>2. Head(api.steps) = api.steps[1] /\ 1 \in DOMAIN api.steps /\ Head(api.steps) \in Steps
      BY <2>1, StepsLeft
    <2>3. PICK keys \in Seq(Keys) : keys = Head(api.steps).keys
      <3>1. Head(api.steps).keys \in Seq(Keys)
        BY <2>1, <2>2 DEF Steps
      <3> QED BY <3>1, Zenon
    <2>4. CASE api.call = "start"
      <3>1. Undo(keys) \in Seq(Steps) /\ "undo" \in Calls
        BY UndoTyped DEF Calls
      <3>2. api' = [api EXCEPT !.call = "undo", !.steps = Undo(keys)]
        BY <1>8, <2>3, <2>4 DEF ApiRefused
      <3>3. api'.call = "undo" /\ api'.cmd = api.cmd /\ api'.of = api.of /\ api'.steps = Undo(keys)
        BY <3>1, <3>2, CallBecomes
      <3>4. \A j \in DOMAIN keys : keys[j] \in KeysOf(api.of)
        BY <2>1, <2>2, <2>3, <2>4 DEF CallKnown, Fit, Starting
      <3>5. Fit(Undo(keys), "undo", api.of)
        BY <3>4, FitUndo
      <3> QED BY <2>1, <2>4, <3>3, <3>5 DEF CallKnown, Starting
    <2>5. CASE api.call # "start"
      <3>1. api' = [api EXCEPT !.steps = <<>>] /\ <<>> \in Seq(Steps)
        BY <1>8, <2>5 DEF ApiRefused
      <3>2. api'.call = api.call /\ api'.cmd = api.cmd /\ api'.of = api.of /\ api'.steps = <<>>
        BY <3>1, ApiBecomes
      <3>3. Fit(<<>>, api.call, api.of)
        BY FitNone
      <3> QED BY <2>1, <2>5, <3>2, <3>3 DEF CallKnown, Starting
    <2> QED BY <2>4, <2>5
  <1>9. CASE ApiUndone
    <2>1. /\ api' = [api EXCEPT !.call = "none"] \/ api' = [api EXCEPT !.call = "fail"]
          /\ api.call = "undo" /\ api.steps = <<>> /\ UNCHANGED current
          /\ "none" \in Calls /\ "fail" \in Calls
      BY <1>9 DEF ApiUndone, Calls, InTable
    <2>2. PICK call \in Calls : call \in {"none", "fail"} /\ api' = [api EXCEPT !.call = call]
      BY <2>1
    <2>3. api'.call = call /\ api'.of = api.of /\ api'.steps = <<>>
      BY <2>1, <2>2, ApiBecomes
    <2>4. Fit(<<>>, api'.call, api'.of)
      BY FitNone
    <2> QED BY <1>5, <2>1, <2>2, <2>3, <2>4
  <1>10. CASE ApiFail
    <2>1. /\ api' = [api EXCEPT !.call = "none"] /\ api.call = "fail" /\ UNCHANGED current
          /\ "none" \in Calls
      BY <1>10 DEF ApiFail, Calls
    <2>2. api'.call = "none" /\ api'.of = api.of /\ api'.steps = api.steps
      BY <2>1, ApiBecomes
    <2>3. Fit(api.steps, "none", api.of)
      BY <2>1, FitLike DEF CallKnown, Starting, Stopping
    <2> QED BY <1>5, <2>1, <2>2, <2>3
  <1>11. CASE ApiStarted \/ ApiCancelled
    <2>1. /\ api' = [api EXCEPT !.call = "none"] /\ api.steps = <<>> /\ UNCHANGED current
          /\ "none" \in Calls
      BY <1>11 DEF ApiStarted, ApiCancelled, Calls
    <2>2. api'.call = "none" /\ api'.of = api.of /\ api'.steps = <<>>
      BY <2>1, ApiBecomes
    <2>3. Fit(<<>>, api'.call, api'.of)
      BY FitNone
    <2> QED BY <1>5, <2>1, <2>2, <2>3
  <1>12. CASE ApiUnlist
    <2>1. api.call = "unlist" /\ UNCHANGED current /\ api.of \in ById
      BY <1>12 DEF ApiUnlist, CallKnown
    <2>2. CASE api.cmd \in listed
      <3>1. CancelOf(api.of) \in Seq(Steps) /\ "cancel" \in Calls
        BY StepsTyped DEF Calls
      <3>2. api' = [api EXCEPT !.call = "cancel", !.steps = CancelOf(api.of)]
        BY <1>12, <2>2 DEF ApiUnlist
      <3>3. /\ api'.call = "cancel" /\ api'.cmd = api.cmd /\ api'.of = api.of
            /\ api'.steps = CancelOf(api.of)
        BY <3>1, <3>2, CallBecomes
      <3>4. Fit(CancelOf(api.of), "cancel", api.of)
        BY <2>1, FitCancel
      <3> QED BY <2>1, <3>3, <3>4 DEF CallKnown, Starting
    <2>3. CASE api.cmd \notin listed
      <3>1. api' = [api EXCEPT !.call = "none"] /\ "none" \in Calls
        BY <1>12, <2>3 DEF ApiUnlist, Calls
      <3>2. api'.call = "none" /\ api'.of = api.of /\ api'.steps = api.steps
        BY <3>1, ApiBecomes
      <3>3. Fit(api.steps, "none", api.of)
        BY <2>1, FitLike DEF CallKnown, Starting, Stopping
      <3> QED BY <1>5, <2>1, <3>2, <3>3
    <2> QED BY <2>2, <2>3
  <1>13. CASE ApiCleanUp \/ ApiSignal
    <2>1. /\ api' = [api EXCEPT !.call = "clean"] \/ api' = [api EXCEPT !.call = "done"]
          /\ api.call \in {"none", "clean"} /\ UNCHANGED current
          /\ "clean" \in Calls /\ "done" \in Calls
      BY <1>13 DEF ApiCleanUp, ApiSignal, Usable, Calls
    <2>2. PICK call \in Calls : call \in {"clean", "done"} /\ api' = [api EXCEPT !.call = call]
      BY <2>1
    <2>3. api'.call = call /\ api'.of = api.of /\ api'.steps = api.steps
      BY <2>1, <2>2, ApiBecomes
    <2>4. Fit(api.steps, call, api.of)
      <3>1. Fit(api.steps, api.call, api.of)
        BY DEF CallKnown
      <3>2. /\ call # "undo" /\ call \notin Starting /\ api.call \notin Starting
            /\ call \notin Stopping /\ api.call \notin Stopping
        BY <2>1, <2>2 DEF Starting, Stopping
      <3> QED BY <3>1, <3>2, FitLike
    <2> QED BY <1>5, <2>1, <2>2, <2>3, <2>4
  <1>14. CASE LoopRttReports
    <2>1. /\ UNCHANGED api
          /\ \A k \in AllKinds : current'[k] \in {0, current[k]}
          /\ \A k \in AllKinds : k # "rtt" => current'[k] = current[k]
      BY <1>14 DEF LoopRttReports, TypeOK
    <2> QED BY <2>1 DEF CallKnown
  <1>15. CASE LoopOpen \/ LoopEnter \/ LoopExit \/ LoopHandle \/ LoopRttEnds \/ LoopRttUnlists
              \/ LoopRttReleases \/ LoopReturn \/ LoopCheck \/ LoopLeave \/ LoopCleansUp
              \/ LoopTouches \/ (\E key \in Keys : LoopEvent(key))
    <2>1. UNCHANGED <<current, api>>
      BY <1>15 DEF LoopOpen, LoopEnter, LoopExit, LoopHandle, LoopRttEnds, LoopRttUnlists,
                   LoopRttReleases, LoopReturn, LoopCheck, LoopLeave, LoopCleansUp, LoopTouches,
                   LoopEvent
    <2> QED BY <1>1, <2>1
  <1>16. CASE UNCHANGED vars \/ Ended
    BY <1>1, <1>16 DEF vars, Ended
  <1> QED BY <1>2, <1>3, <1>4, <1>6, <1>7, <1>8, <1>9, <1>10, <1>11, <1>12, <1>13, <1>14, <1>15, <1>16
          DEF Next, Service, ApiStep, LoopStep

(* Registering: the key is one of the command's kind, and only once. *)
LEMMA RegisterIs ==
    ASSUME TypeOK, RefsInv, CallKnown, ApiRegister
    PROVE  /\ UNCHANGED <<kind, refs, listed, loop, torn, info, current>>
           /\ api.call = "start" /\ api.steps # <<>> /\ Onward
           /\ api.cmd \in Commands /\ kind[api.cmd] = api.of /\ api.of \in Kinds
           /\ \E key \in Keys :
                 /\ api.steps[1].do = "on" /\ api.steps[1].keys[1] = key
                 /\ key \in KeysOf(api.of) /\ OnLeft(key) /\ ~OnLeft(key)'
                 /\ event_cb' = Registered(event_cb, key, api.cmd)
  <1> USE Components
  <1>1. /\ UNCHANGED <<kind, refs, listed, loop, torn, info, current>>
        /\ api.steps # <<>> /\ Head(api.steps).do = "on" /\ Onward
        /\ event_cb' = Registered(event_cb, Head(api.steps).keys[1], api.cmd)
    BY DEF ApiRegister, InSteps
  <1>2. /\ Head(api.steps) = api.steps[1] /\ 1 \in DOMAIN api.steps /\ Head(api.steps) \in Steps
        /\ \A i \in DOMAIN api'.steps :
              i \in Nat /\ i > 0 /\ i + 1 \in DOMAIN api.steps /\ api'.steps[i] = api.steps[i + 1]
    BY <1>1, OnwardLeaves
  <1>3. api.call = "start"
    <2>1. api.call \in {"list", "start"}
      BY <1>1, <1>2 DEF RefsInv, CallFits
    <2> QED BY <2>1 DEF ApiRegister, InSteps
  <1>4. api.cmd \in Commands /\ kind[api.cmd] = api.of /\ api.of \in Kinds
    BY <1>3 DEF RefsInv, CallFits, OfCommand, CallKnown
  <1>5. PICK key \in Keys : key = api.steps[1].keys[1]
    <2>1. api.steps[1].keys[1] \in Keys
      BY <1>1, <1>2 DEF Steps
    <2> QED BY <2>1, Zenon
  <1>6. key \in KeysOf(api.of) /\ OnLeft(key)
    BY <1>1, <1>2, <1>5 DEF CallKnown, Fit, OnLeft
  <1>7. ASSUME OnLeft(key)' PROVE FALSE
    <2>1. PICK i \in DOMAIN api'.steps : api'.steps[i].do = "on" /\ api'.steps[i].keys[1] = key
      BY <1>7 DEF OnLeft
    <2>2. /\ i + 1 \in DOMAIN api.steps /\ i + 1 # 1
          /\ api.steps[i + 1].do = "on" /\ api.steps[i + 1].keys[1] = key
      BY <1>2, <2>1
    <2> QED BY <1>1, <1>2, <1>5, <2>2 DEF CallKnown, Fit
  <1> QED BY <1>1, <1>2, <1>3, <1>4, <1>5, <1>6, <1>7

(* Unregistering: the key is one of the kind being stopped. *)
LEMMA UnregisterIs ==
    ASSUME TypeOK, RefsInv, CallKnown, ApiUnregister
    PROVE  /\ UNCHANGED <<kind, refs, listed, loop, torn, info, current, mishaps>>
           /\ api.call \in Stopping /\ api.steps # <<>> /\ Onward
           /\ api.of \in Kinds /\ current[api.of] = 0
           /\ \E key \in Keys :
                 /\ api.steps[1].do = "off" /\ api.steps[1].keys[1] = key
                 /\ key \in KeysOf(api.of)
                 /\ Unregister(key)
  <1> USE Components
  <1>1. /\ UNCHANGED <<kind, refs, listed, loop, torn, info, current, mishaps>>
        /\ api.steps # <<>> /\ Head(api.steps).do = "off" /\ Onward
        /\ Unregister(Head(api.steps).keys[1])
    BY DEF ApiUnregister, InSteps
  <1>2. Head(api.steps) = api.steps[1] /\ 1 \in DOMAIN api.steps /\ Head(api.steps) \in Steps
    BY <1>1, OnwardLeaves
  <1>3. PICK key \in Keys : key = api.steps[1].keys[1]
    <2>1. api.steps[1].keys[1] \in Keys
      BY <1>1, <1>2 DEF Steps
    <2> QED BY <2>1, Zenon
  <1>4. api.call \in Stopping /\ key \in KeysOf(api.of)
    BY <1>1, <1>2, <1>3 DEF CallKnown, Fit
  <1>5. api.of \in Kinds /\ current[api.of] = 0
    BY <1>4 DEF Stopping, CallKnown, RefsInv, CallFits
  <1>6. Unregister(key)
    BY <1>1, <1>2, <1>3
  <1> QED BY <1>1, <1>2, <1>3, <1>4, <1>5, <1>6

-----------------------------------------------------------------------------
(* Every handler belongs to a command of a kind that uses its key. *)

KeyFits == \A h \in Handlers : kind[h.cmd] \in Kinds /\ h.key \in KeysOf(kind[h.cmd])

(* What has been allocated stays of its kind. *)
LEMMA KindsStay ==
    ASSUME TypeOK, [Next]_vars, NEW c \in Commands, kind[c] # "none"
    PROVE  kind'[c] = kind[c]
  <1>1. ASSUME NEW k \in Kinds, ApiStart(k) PROVE kind'[c] = kind[c]
    BY <1>1 DEF ApiStart, New, TypeOK
  <1>2. CASE UNCHANGED kind
    BY <1>2
  <1>3. UNCHANGED kind \/ \E k \in Kinds : ApiStart(k)
    <2>1. CASE UNCHANGED vars \/ Ended
      BY <2>1 DEF vars, Ended
    <2>2. CASE Service
      BY <2>2 DEF Service, ApiCancel, ApiDummy, ApiCleanUp
    <2>3. CASE ApiStep
      BY <2>3 DEF ApiStep, ApiList, ApiRegister, ApiUnregister, ApiAnswered, ApiRefused, ApiUndone,
                  ApiFail, ApiStarted, ApiUnlist, ApiCancelled, ApiSignal
    <2>4. CASE LoopStep
      BY <2>4 DEF LoopStep, LoopOpen, LoopEnter, LoopExit, LoopHandle, LoopRttEnds, LoopRttReports,
                  LoopRttUnlists, LoopRttReleases, LoopReturn, LoopCheck, LoopLeave, LoopCleansUp,
                  LoopTouches
    <2>5. CASE \E key \in Keys : LoopEvent(key)
      BY <2>5 DEF LoopEvent
    <2> QED BY <2>1, <2>2, <2>3, <2>4, <2>5 DEF Next
  <1> QED BY <1>1, <1>2, <1>3

(* Three actions change the table of handlers. *)
LEMMA TableStays ==
    ASSUME [Next]_vars, ~ApiRegister, ~ApiUnregister, ~LoopRttEnds
    PROVE  UNCHANGED event_cb
  <1>1. CASE UNCHANGED vars \/ Ended
    BY <1>1 DEF vars, Ended
  <1>2. CASE Service
    BY <1>2 DEF Service, ApiStart, ApiCancel, ApiDummy, ApiCleanUp
  <1>3. CASE ApiStep
    BY <1>3 DEF ApiStep, ApiList, ApiAnswered, ApiRefused, ApiUndone,
                ApiFail, ApiStarted, ApiUnlist, ApiCancelled, ApiSignal
  <1>4. CASE LoopStep
    BY <1>4 DEF LoopStep, LoopOpen, LoopEnter, LoopExit, LoopHandle, LoopRttReports,
                LoopRttUnlists, LoopRttReleases, LoopReturn, LoopCheck, LoopLeave, LoopCleansUp,
                LoopTouches
  <1>5. CASE \E key \in Keys : LoopEvent(key)
    BY <1>5 DEF LoopEvent
  <1> QED BY <1>1, <1>2, <1>3, <1>4, <1>5 DEF Next

LEMMA KeyFitsKept ==
    ASSUME TypeOK, RefsInv, CallKnown, KeyFits, [Next]_vars
    PROVE  KeyFits'
  <1>1. ASSUME NEW h \in Handlers
        PROVE  kind'[h.cmd] \in Kinds /\ h.key \in KeysOf(kind'[h.cmd])
    <2>1. h.cmd \in Commands /\ kind[h.cmd] \in Kinds /\ h.key \in KeysOf(kind[h.cmd])
      BY HandlersTyped DEF KeyFits
    <2>2. kind[h.cmd] # "none"
      BY <2>1, WifiHalAssumption DEF WifiHalAssumption, AllKinds
    <2> QED BY <2>1, <2>2, KindsStay
  <1>2. CASE Handlers' \subseteq Handlers
    BY <1>1, <1>2 DEF KeyFits
  <1>3. CASE ApiRegister
    <2>1. /\ UNCHANGED kind /\ api.cmd \in Commands
          /\ kind[api.cmd] = api.of /\ api.of \in Kinds
      BY <1>3, RegisterIs
    <2>2. PICK key \in Keys : key \in KeysOf(api.of) /\ event_cb' = Registered(event_cb, key, api.cmd)
      BY <1>3, RegisterIs
    <2>3. Handlers' \subseteq Handlers \cup {[key |-> key, cmd |-> api.cmd]}
      BY <2>1, <2>2, Registers
    <2> QED BY <1>1, <2>1, <2>2, <2>3 DEF KeyFits
  <1>4. CASE ApiUnregister
    <2>1. PICK key \in Keys : Unregister(key)
      BY <1>4, UnregisterIs
    <2> QED BY <1>2, <2>1, Unregisters
  <1>5. CASE LoopRttEnds
    <2>1. Unregister("rtt")
      BY <1>5 DEF LoopRttEnds
    <2> QED BY <1>2, <2>1, Unregisters
  <1>6. CASE UNCHANGED event_cb
    BY <1>2, <1>6 DEF Handlers
  <1> QED BY <1>3, <1>4, <1>5, <1>6, TableStays

-----------------------------------------------------------------------------
(* A command that has started is heard. *)

(* Info is not freed under a loop that runs. *)
LoopOwnsInfo ==
    /\ loop.at \in Running \cup {"poll", "check"} =>
          info.in_event_loop /\ info.exit # "closed" /\ ~info.freed
    /\ loop.at = "enter" => info.exit # "closed"

LEMMA LoopOwnsInfoKept ==
    ASSUME TypeOK, LoopOwnsInfo, [Next]_vars
    PROVE  LoopOwnsInfo'
  <1> USE Components, LoopBecomes
  <1>1. CASE UNCHANGED <<loop, info>>
    BY <1>1 DEF LoopOwnsInfo
  <1>2. ASSUME UNCHANGED info, At(loop.at), loop'.at \in Running \cup {"poll", "check", "leave"},
               loop.at \in Running \cup {"poll", "check"}
        PROVE  LoopOwnsInfo'
    BY <1>2 DEF LoopOwnsInfo, Running
  <1>3. CASE Service
    <2>1. CASE ApiCleanUp
      <3>1. /\ info'.in_event_loop = info.in_event_loop /\ info'.exit = info.exit
            /\ info'.freed = info.freed /\ UNCHANGED loop
        BY <2>1 DEF ApiCleanUp, TypeOK, Info
      <3> QED BY <3>1 DEF LoopOwnsInfo
    <2>2. CASE \E k \in Kinds : ApiStart(k) \/ ApiCancel(k) \/ ApiDummy(k)
      BY <1>1, <2>2 DEF ApiStart, ApiCancel, ApiDummy
    <2> QED BY <1>3, <2>1, <2>2 DEF Service
  <1>4. CASE ApiStep
    <2>1. CASE ApiSignal
      <3>1. CASE LoopRuns
        <4>1. /\ info'.in_event_loop = info.in_event_loop /\ info'.exit = "signalled"
              /\ info'.freed = info.freed /\ UNCHANGED loop
          BY <2>1, <3>1 DEF ApiSignal, TypeOK, Info
        <4> QED BY <4>1 DEF LoopOwnsInfo
      <3>2. CASE ~LoopRuns
        <4>1. info'.exit = info.exit /\ UNCHANGED loop
          BY <2>1, <3>2 DEF ApiSignal, TypeOK, Info
        <4> QED BY <3>2, <4>1 DEF LoopOwnsInfo, LoopRuns
      <3> QED BY <3>1, <3>2
    <2>2. CASE ~ApiSignal
      BY <1>1, <1>4, <2>2 DEF ApiStep, ApiList, ApiRegister, ApiUnregister, ApiAnswered, ApiRefused,
                              ApiUndone, ApiFail, ApiStarted, ApiUnlist, ApiCancelled
    <2> QED BY <2>1, <2>2
  <1>5. CASE LoopOpen
    <2>1. loop'.at = "enter" /\ info'.exit = "open"
      BY <1>5 DEF LoopOpen, GoTo, TypeOK, Info, Places
    <2> QED BY <2>1 DEF LoopOwnsInfo, Running
  <1>6. CASE LoopEnter
    <2>1. /\ loop.at = "enter" /\ ~info.freed /\ loop'.at = "poll" /\ info'.in_event_loop
          /\ info'.exit = info.exit /\ info'.freed = info.freed
      BY <1>6 DEF LoopEnter, GoTo, At, TypeOK, Info, Places
    <2> QED BY <2>1 DEF LoopOwnsInfo
  <1>7. CASE LoopExit \/ LoopHandle \/ LoopRttEnds \/ LoopRttReports \/ LoopRttUnlists
             \/ LoopRttReleases \/ LoopCheck
    <2>1. UNCHANGED info /\ At(loop.at) /\ loop.at \in Running \cup {"poll", "check"}
      BY <1>7 DEF LoopExit, LoopHandle, LoopRttEnds, LoopRttReports, LoopRttUnlists,
                  LoopRttReleases, LoopCheck, At, Running
    <2>2. PICK place \in Running \cup {"poll", "check", "leave"} : GoTo(place)
      BY <1>7 DEF LoopExit, LoopHandle, LoopRttEnds, LoopRttReports, LoopRttUnlists,
                  LoopRttReleases, LoopCheck, Running
    <2>3. loop'.at = place
      BY <2>2 DEF GoTo, Places, Running
    <2> QED BY <1>2, <2>1, <2>3
  <1>8. CASE LoopReturn
    <2>1. /\ UNCHANGED info /\ At(loop.at) /\ loop.at = "return" /\ loop'.at = "check"
      BY <1>8 DEF LoopReturn, At
    <2> QED BY <1>2, <2>1 DEF Running
  <1>9. CASE LoopLeave
    BY <1>9 DEF LoopLeave, At, LoopOwnsInfo, Running
  <1>10. CASE LoopCleansUp
    <2>1. loop'.at = "done"
      BY <1>10 DEF LoopCleansUp, GoTo, Places
    <2> QED BY <2>1 DEF LoopOwnsInfo, Running
  <1>11. CASE LoopTouches
    <2>1. loop'.at = "done"
      BY <1>11 DEF LoopTouches
    <2> QED BY <2>1 DEF LoopOwnsInfo, Running
  <1>12. CASE \E key \in Keys : LoopEvent(key)
    <2>1. UNCHANGED info /\ loop.at = "poll"
      BY <1>12 DEF LoopEvent, At
    <2>2. \/ loop' = [loop EXCEPT !.at = "check"]
          \/ loop' = [at |-> "done", cmd |-> 0]
          \/ \E c : loop' = [at |-> "call", cmd |-> c]
      BY <1>12 DEF LoopEvent
    <2>3. CASE loop' = [loop EXCEPT !.at = "check"]
      <3>1. loop'.at = "check"
        BY <2>3 DEF Places
      <3> QED BY <2>1, <3>1 DEF LoopOwnsInfo, Running
    <2>4. CASE loop' = [at |-> "done", cmd |-> 0] \/ \E c : loop' = [at |-> "call", cmd |-> c]
      <3>1. loop'.at \in {"call", "done"}
        BY <2>4
      <3> QED BY <2>1, <3>1 DEF LoopOwnsInfo, Running
    <2> QED BY <2>2, <2>3, <2>4
  <1>13. CASE UNCHANGED vars \/ Ended
    BY <1>1, <1>13 DEF vars, Ended
  <1> QED BY <1>3, <1>4, <1>5, <1>6, <1>7, <1>8, <1>9, <1>10, <1>11, <1>12, <1>13
          DEF Next, LoopStep

(* The handlers of the service's commands: there, or still to come, unless   *)
(* the table was full or a ranging that ended late took one.                 *)
Heeds(k, key) ==
    \/ [key |-> key, cmd |-> current[k]] \in Handlers
    \/ api.call \in Starting /\ api.of = k /\ OnLeft(key)
    \/ "full" \in mishaps
    \/ k = "rtt" /\ ("late" \in mishaps \/ (loop.at = "report" /\ loop.cmd = current[k]))

Heeded == \A k \in AllKinds : \A key \in KeysOf(k) : current[k] # 0 => Heeds(k, key)

(* Only a call that starts gives the service a command. *)
LEMMA CurrentStays ==
    ASSUME TypeOK, [Next]_vars, NEW k \in AllKinds
    PROVE  current'[k] \in {0, current[k]} \/ (k \in Kinds /\ ApiStart(k))
  <1>0. Kinds \subseteq AllKinds
    BY WifiHalAssumption DEF WifiHalAssumption
  <1>1. CASE UNCHANGED current
    BY <1>1
  <1>2. ASSUME NEW j \in Kinds, ApiStart(j), j # k PROVE current'[k] = current[k]
    BY <1>0, <1>2 DEF ApiStart, TypeOK
  <1>3. ASSUME NEW j \in Kinds, ApiCancel(j) \/ ApiDummy(j) PROVE current'[k] \in {0, current[k]}
    BY <1>0, <1>3 DEF ApiCancel, ApiDummy, TypeOK
  <1>4. CASE ApiRefused
    BY <1>4, Components DEF ApiRefused, TypeOK
  <1>5. CASE LoopRttReports
    BY <1>5 DEF LoopRttReports, TypeOK
  <1>6. CASE ApiCleanUp
    BY <1>6 DEF ApiCleanUp
  <1>7. CASE ApiStep /\ ~ApiRefused
    BY <1>7 DEF ApiStep, ApiList, ApiRegister, ApiUnregister, ApiAnswered, ApiUndone,
                ApiFail, ApiStarted, ApiUnlist, ApiCancelled, ApiSignal
  <1>8. CASE LoopStep /\ ~LoopRttReports
    BY <1>8 DEF LoopStep, LoopOpen, LoopEnter, LoopExit, LoopHandle, LoopRttEnds,
                LoopRttUnlists, LoopRttReleases, LoopReturn, LoopCheck, LoopLeave, LoopCleansUp,
                LoopTouches
  <1>9. CASE UNCHANGED vars \/ Ended \/ \E key \in Keys : LoopEvent(key)
    BY <1>9 DEF vars, Ended, LoopEvent
  <1> QED BY <1>2, <1>3, <1>4, <1>5, <1>6, <1>7, <1>8, <1>9 DEF Next, Service

(* How a call that starts goes on. *)
LEMMA StartingGoes ==
    ASSUME [Next]_vars, api.call \in Starting
    PROVE  UNCHANGED api \/ ApiList \/ ApiRegister \/ ApiUnregister \/ ApiAnswered \/ ApiRefused \/ ApiStarted
  <1>1. CASE UNCHANGED vars \/ Ended
    BY <1>1 DEF vars, Ended
  <1>2. ~Service
    BY DEF Service, ApiStart, ApiCancel, ApiDummy, ApiCleanUp, Usable, Starting
  <1>3. CASE ApiStep
    BY <1>3 DEF ApiStep, ApiUndone, ApiFail, ApiUnlist, ApiCancelled, ApiSignal, Starting
  <1>4. CASE LoopStep
    BY <1>4 DEF LoopStep, LoopOpen, LoopEnter, LoopExit, LoopHandle, LoopRttEnds, LoopRttReports,
                LoopRttUnlists, LoopRttReleases, LoopReturn, LoopCheck, LoopLeave, LoopCleansUp,
                LoopTouches
  <1>5. CASE \E key \in Keys : LoopEvent(key)
    BY <1>5 DEF LoopEvent
  <1> QED BY <1>1, <1>2, <1>3, <1>4, <1>5 DEF Next

(* How a ranging that has unregistered goes on. *)
LEMMA ReportGoes ==
    ASSUME LoopOwnsInfo, [Next]_vars, loop.at = "report"
    PROVE  UNCHANGED loop \/ LoopRttReports
  <1>1. CASE UNCHANGED vars \/ Ended
    BY <1>1 DEF vars, Ended
  <1>2. CASE Service
    BY <1>2 DEF Service, ApiStart, ApiCancel, ApiDummy, ApiCleanUp
  <1>3. CASE ApiStep
    BY <1>3 DEF ApiStep, ApiList, ApiRegister, ApiUnregister, ApiAnswered, ApiRefused, ApiUndone,
                ApiFail, ApiStarted, ApiUnlist, ApiCancelled, ApiSignal
  <1>4. CASE LoopStep
    <2>1. ~LoopTouches
      BY DEF LoopTouches, LoopOwnsInfo, Running
    <2> QED BY <1>4, <2>1 DEF LoopStep, At, LoopOpen, LoopEnter, LoopExit, LoopHandle, LoopRttEnds,
                LoopRttUnlists, LoopRttReleases, LoopReturn, LoopCheck, LoopLeave, LoopCleansUp
  <1>5. ~(\E key \in Keys : LoopEvent(key))
    BY DEF LoopEvent, At
  <1> QED BY <1>1, <1>2, <1>3, <1>4, <1>5 DEF Next

LEMMA HeededKept ==
    ASSUME ~({"scan", "full"} \subseteq Kinds),
           TypeOK, RefsInv, CallKnown, KeyFits, LoopOwnsInfo, Heeded, [Next]_vars
    PROVE  Heeded'
  <1> USE Components, Counted
  <1>0. Kinds \subseteq AllKinds
    BY WifiHalAssumption DEF WifiHalAssumption
  <1> SUFFICES ASSUME NEW k \in AllKinds, NEW key \in KeysOf(k), current'[k] # 0
               PROVE  Heeds(k, key)'
    BY DEF Heeded
  <1>1. mishaps \subseteq mishaps'
    BY MishapsStay
  <1>2. CASE k \in Kinds /\ ApiStart(k)
    <2>1. api'.call = "list" /\ api'.of = k /\ api'.steps = StartOf(k)
      BY <1>2 DEF ApiStart
    <2>2. OnLeft(key)'
      BY <2>1 DEF OnLeft, KeysOf
    <2> QED BY <2>1, <2>2 DEF Heeds, Starting
  <1> SUFFICES ASSUME current'[k] = current[k], current[k] # 0, k \in Kinds
               PROVE  Heeds(k, key)'
    BY <1>2, CurrentStays DEF CallKnown
  <1>3. Heeds(k, key)
    BY DEF Heeded
  <1>4. CASE "full" \in mishaps \/ (k = "rtt" /\ "late" \in mishaps)
    BY <1>1, <1>4 DEF Heeds
  <1>5. CASE k = "rtt" /\ loop.at = "report" /\ loop.cmd = current[k]
    <2>1. ~LoopRttReports
      BY <1>5 DEF LoopRttReports, TypeOK
    <2>2. UNCHANGED loop
      BY <1>5, <2>1, ReportGoes
    <2> QED BY <1>5, <2>2 DEF Heeds
  <1>6. CASE [key |-> key, cmd |-> current[k]] \in Handlers
    <2>1. PICK h \in Handlers : h = [key |-> key, cmd |-> current[k]]
      BY <1>6
    <2>2. h.key = key /\ h.cmd = current[k]
      BY <2>1
    <2>3. CASE h \in Handlers'
      BY <2>1, <2>3 DEF Heeds
    <2>4. CASE ApiRegister
      <3>1. PICK new \in Keys : api.cmd \in Commands /\ event_cb' = Registered(event_cb, new, api.cmd)
        BY <2>4, RegisterIs
      <3> QED BY <2>3, <3>1, Registers
    <2>5. CASE ApiUnregister
      <3>1. api.of \in Kinds /\ current[api.of] = 0
        BY <2>5, UnregisterIs
      <3>2. PICK gone \in Keys : gone \in KeysOf(api.of) /\ Unregister(gone)
        BY <2>5, UnregisterIs
      <3>3. gone # key
        <4>1. api.of # k /\ ~({api.of, k} = {"scan", "full"})
          BY <3>1
        <4>2. KeysOf(api.of) \cap KeysOf(k) = {}
          BY <4>1, KeysApart
        <4> QED BY <3>2, <4>2
      <3> QED BY <2>2, <2>3, <3>2, <3>3, Unregisters
    <2>6. CASE LoopRttEnds
      <3>1. Unregister("rtt")
        BY <2>6 DEF LoopRttEnds
      <3>2. /\ h.key # "rtt" => h \in Handlers'
            /\ (\A i \in First(event_cb, "rtt") : event_cb[i].cmd # h.cmd) => h \in Handlers'
        BY <3>1, Unregisters
      <3>3. ASSUME h.key = "rtt", NEW i \in First(event_cb, "rtt"), event_cb[i].cmd = h.cmd
            PROVE  Heeds(k, key)'
        <4>1. k = "rtt"
          BY <2>2, <3>3, KeysAre DEF AllKinds
        <4>2. CASE event_cb[i].cmd # loop.cmd
          <5>1. "late" \in mishaps'
            BY <2>6, <4>2 DEF LoopRttEnds
          <5> QED BY <4>1, <5>1 DEF Heeds
        <4>3. CASE loop.cmd = current[k]
          <5>1. loop'.at = "report" /\ loop'.cmd = loop.cmd
            BY <2>6, LoopBecomes DEF LoopRttEnds, GoTo, Places
          <5> QED BY <4>1, <4>3, <5>1 DEF Heeds
        <4> QED BY <2>2, <3>3, <4>2, <4>3
      <3> QED BY <2>3, <3>2, <3>3
    <2>7. CASE UNCHANGED event_cb
      BY <2>3, <2>7 DEF Handlers
    <2> QED BY <2>4, <2>5, <2>6, <2>7, TableStays
  <1>7. CASE api.call \in Starting /\ api.of = k /\ OnLeft(key)
    <2>0. current[k] = api.cmd
      BY <1>7 DEF CallKnown
    <2>1. CASE UNCHANGED api
      BY <1>7, <2>1 DEF Heeds, OnLeft
    <2>2. CASE ApiList
      <3>1. api'.call = "start" /\ api'.of = api.of /\ api'.steps = api.steps
        BY <2>2, ApiBecomes DEF ApiList, Calls
      <3> QED BY <1>7, <3>1 DEF Heeds, OnLeft, Starting
    <2>3. ASSUME api.steps # <<>>, Onward, ~(api.steps[1].do = "on" /\ api.steps[1].keys[1] = key)
          PROVE  Heeds(k, key)'
      <3>1. PICK i \in DOMAIN api.steps : api.steps[i].do = "on" /\ api.steps[i].keys[1] = key
        BY <1>7 DEF OnLeft
      <3>2. /\ api'.call = api.call /\ api'.of = api.of
            /\ i = 1 \/ \E j \in DOMAIN api'.steps : api'.steps[j] = api.steps[i]
        BY <2>3, OnwardLeaves
      <3>3. OnLeft(key)'
        BY <2>3, <3>1, <3>2 DEF OnLeft
      <3> QED BY <1>7, <3>2, <3>3 DEF Heeds
    <2>4. CASE ApiRegister
      <3>1. /\ api.steps # <<>> /\ Onward /\ api.cmd \in Commands
            /\ event_cb' = event_cb => "full" \in mishaps'
        BY <2>4, RegisterIs DEF ApiRegister
      <3>2. PICK new \in Keys : api.steps[1].keys[1] = new /\ event_cb' = Registered(event_cb, new, api.cmd)
        BY <2>4, RegisterIs
      <3>3. UNCHANGED event_cb \/ Handlers' = Handlers \cup {[key |-> new, cmd |-> api.cmd]}
        BY <3>1, <3>2, Registers
      <3>4. CASE new = key
        BY <2>0, <3>1, <3>3, <3>4 DEF Heeds
      <3>5. CASE new # key
        BY <2>3, <3>1, <3>2, <3>5
      <3> QED BY <3>4, <3>5
    <2>5. CASE ApiUnregister \/ ApiAnswered
      <3>1. /\ api.steps # <<>> /\ Onward /\ Head(api.steps).do # "on"
        BY <2>5 DEF ApiUnregister, ApiAnswered, InSteps
      <3>2. Head(api.steps) = api.steps[1]
        BY <3>1, OnwardLeaves
      <3> QED BY <2>3, <3>1, <3>2
    <2>6. ~ApiRefused
      BY <1>7 DEF ApiRefused, TypeOK
    <2>7. ~ApiStarted
      BY <1>7 DEF ApiStarted, OnLeft
    <2> QED BY <1>7, <2>1, <2>2, <2>4, <2>5, <2>6, <2>7, StartingGoes
  <1> QED BY <1>3, <1>4, <1>5, <1>6, <1>7 DEF Heeds

HeedInv == CallKnown /\ KeyFits /\ LoopOwnsInfo /\ Heeded

LEMMA HeedInit ==
    ASSUME Init
    PROVE  HeedInv
  <1>1. CallKnown
    <2>1. api.call = "none" /\ api.steps = <<>> /\ \A k \in AllKinds : current[k] = 0
      BY DEF Init
    <2>2. Fit(<<>>, api.call, api.of)
      BY FitNone
    <2> QED BY <2>1, <2>2 DEF CallKnown, Starting
  <1>2. KeyFits
    BY DEF Init, KeyFits, Handlers
  <1>3. LoopOwnsInfo
    BY DEF Init, LoopOwnsInfo, Running
  <1>4. Heeded
    BY DEF Init, Heeded
  <1> QED BY <1>1, <1>2, <1>3, <1>4 DEF HeedInv

LEMMA HeedAlways ==
    ASSUME ~({"scan", "full"} \subseteq Kinds)
    PROVE  Spec => [](TypeOK /\ RefsInv /\ HeedInv)
  <1>1. TypeOK /\ RefsInv /\ HeedInv /\ [Next]_vars => HeedInv'
    BY CallKnownKept, KeyFitsKept, LoopOwnsInfoKept, HeededKept DEF HeedInv
  <1> QED BY <1>1, HeedInit, RefsAlways, PTL DEF Spec

(* A command the service has started keeps the handlers of all its keys,     *)
(* whatever the driver answers to other calls and whatever the event thread  *)
(* does: only a full table, or a ranging that ends late, can leave it deaf.  *)
(* It rests on no two kinds in use having a key in common.                   *)
THEOREM StartedIsHeard ==
    ASSUME ~({"scan", "full"} \subseteq Kinds)
    PROVE  Spec => []Heard
  <1>1. ASSUME Heeded PROVE Heard
    <2> SUFFICES ASSUME NEW k \in Kinds, Started(k), ~(KeysOf(k) \subseteq RegisteredKeys(current[k]))
                 PROVE  \/ "full" \in mishaps
                        \/ k = "rtt" /\ ("late" \in mishaps \/ (loop.at = "report" /\ loop.cmd = current[k]))
      BY DEF Heard
    <2>1. PICK key \in KeysOf(k) : key \notin RegisteredKeys(current[k])
      OBVIOUS
    <2>2. [key |-> key, cmd |-> current[k]] \notin Handlers
      BY <2>1 DEF RegisteredKeys, Handlers
    <2>3. Heeds(k, key)
      BY <1>1, WifiHalAssumption DEF Heeded, Started, WifiHalAssumption
    <2> QED BY <2>2, <2>3 DEF Heeds, Started, Starting
  <1>2. HeedInv => Heard
    BY <1>1 DEF HeedInv
  <1> QED BY <1>2, HeedAlways, PTL

-----------------------------------------------------------------------------
(* The command of a handler exists. *)

(* A handler is of its kind's current command, of one about to be cancelled, *)
(* or of one whose handlers are being removed; those of logs stay.           *)
Placed ==
    \A h \in Handlers :
        \/ kind[h.cmd] = "log"
        \/ current[kind[h.cmd]] = h.cmd
        \/ /\ api.of = kind[h.cmd]
           /\ (api.call = "unlist" \/ (api.call \in Stopping /\ OffLeft(h.key)))

(* The command has a reference besides the one of the event thread... *)
Held == \A h \in Handlers : refs[h.cmd] >= 1 + InLoop(h.cmd)

(* ... but a ranging that has ended has no handler. *)
LoopDone ==
    loop.at \in {"report", "unlist", "drop"} => \A h \in Handlers : h.cmd # loop.cmd

(* No key about to be registered has a handler, except the one of logs. *)
Fresh == \A h \in Handlers : OnLeft(h.key) => h.key = "ring"

(* A refusal undoes what was registered. *)
Undoable ==
    api.call \in Starting /\ api.of # "log" =>
        \A h \in Handlers, i \in DOMAIN api.steps :
            kind[h.cmd] = api.of /\ api.steps[i].do = "ask" => Undoes(api.steps[i], h.key)

(* A ranging that is about to register has not begun to run. *)
NotYet ==
    api.call \in Starting /\ api.of = "rtt" /\ OnLeft("rtt") =>
        /\ current["rtt"] = api.cmd
        /\ refs[api.cmd] >= 1
        /\ InLoop(api.cmd) = 0
        /\ \A h \in Handlers : h.cmd # api.cmd

UnlistListed == api.call = "unlist" => api.cmd \in listed

Wired == Placed /\ Single /\ Held /\ LoopDone /\ Fresh /\ Undoable /\ NotYet /\ UnlistListed

(* Only one kind in use has the handler's key. *)
LEMMA KindOfKey ==
    ASSUME ~({"scan", "full"} \subseteq Kinds), TypeOK, KeyFits,
           NEW h \in Handlers, NEW k \in Kinds, h.key \in KeysOf(k)
    PROVE  kind[h.cmd] = k
  <1>1. kind[h.cmd] \in Kinds /\ h.key \in KeysOf(kind[h.cmd]) /\ Kinds \subseteq AllKinds
    BY WifiHalAssumption DEF KeyFits, WifiHalAssumption
  <1>2. ~({kind[h.cmd], k} = {"scan", "full"})
    BY <1>1
  <1> QED BY <1>1, <1>2, KeysApart

LEMMA HandlerKind ==
    ASSUME TypeOK, KeyFits, NEW h \in Handlers
    PROVE  /\ h.cmd \in Commands /\ h.cmd # 0
           /\ kind[h.cmd] \in Kinds /\ kind[h.cmd] \in AllKinds /\ kind[h.cmd] # "none"
           /\ h.key \in KeysOf(kind[h.cmd])
           /\ h.key = "ring" => kind[h.cmd] = "log"
  <1>1. kind[h.cmd] \in Kinds /\ h.key \in KeysOf(kind[h.cmd]) /\ Kinds \subseteq AllKinds
    BY WifiHalAssumption DEF KeyFits, WifiHalAssumption
  <1>2. kind[h.cmd] # "none"
    BY <1>1, Counted
  <1> QED BY <1>1, <1>2, HandlersTyped, KeysApart, Components

(* Neither the call nor the handlers change. *)
LEMMA LoopWired ==
    ASSUME TypeOK, Wired, UNCHANGED <<kind, event_cb, api, current>>,
           \A h \in Handlers : refs'[h.cmd] >= 1 + InLoop(h.cmd)',
           loop'.at \in {"report", "unlist", "drop"} =>
               loop.at \in {"report", "unlist", "drop"} /\ loop'.cmd = loop.cmd,
           api.call \in Starting /\ api.of = "rtt" /\ OnLeft("rtt") =>
               refs'[api.cmd] >= 1 /\ InLoop(api.cmd)' = 0,
           api.call = "unlist" => api.cmd \in listed'
    PROVE  Wired'
  <1>1. Handlers' = Handlers
    BY DEF Handlers
  <1>2. \A key : (OnLeft(key)' <=> OnLeft(key)) /\ (OffLeft(key)' <=> OffLeft(key))
    BY DEF OnLeft, OffLeft
  <1>3. Placed'
    BY <1>1, <1>2 DEF Wired, Placed
  <1>4. Single'
    BY DEF Wired, Single
  <1>5. Held'
    BY <1>1 DEF Held
  <1>6. LoopDone'
    BY <1>1 DEF Wired, LoopDone
  <1>7. Fresh'
    BY <1>1, <1>2 DEF Wired, Fresh
  <1>8. Undoable'
    BY <1>1 DEF Wired, Undoable
  <1>9. NotYet'
    BY <1>1, <1>2 DEF Wired, NotYet
  <1>10. UnlistListed'
    BY DEF UnlistListed
  <1> QED BY <1>3, <1>4, <1>5, <1>6, <1>7, <1>8, <1>9, <1>10 DEF Wired

(* Only the call changes, and it does not begin to start anything. *)
LEMMA CallWired ==
    ASSUME TypeOK, Wired, CallKnown', UNCHANGED <<kind, event_cb, loop>>, Placed', UnlistListed',
           \A h \in Handlers : refs'[h.cmd] = refs[h.cmd],
           api'.call \in Starting =>
               /\ api.call \in Starting /\ api'.of = api.of /\ api'.cmd = api.cmd
               /\ UNCHANGED <<refs, current>>
               /\ \A i \in DOMAIN api'.steps : \E j \in DOMAIN api.steps : api'.steps[i] = api.steps[j]
    PROVE  Wired'
  <1>1. Handlers' = Handlers
    BY DEF Handlers
  <1>2. ASSUME NEW key, OnLeft(key)'
        PROVE  /\ api'.call \in Starting /\ api.call \in Starting /\ api'.of = api.of
               /\ api'.cmd = api.cmd /\ UNCHANGED <<refs, current>> /\ OnLeft(key)
    <2>1. PICK i \in DOMAIN api'.steps : api'.steps[i].do = "on" /\ api'.steps[i].keys[1] = key
      BY <1>2 DEF OnLeft
    <2>2. api'.call \in Starting
      BY <2>1 DEF CallKnown, Fit
    <2>3. PICK j \in DOMAIN api.steps : api'.steps[i] = api.steps[j]
      BY <2>2
    <2>4. OnLeft(key)
      BY <2>1, <2>3 DEF OnLeft
    <2> QED BY <2>2, <2>4
  <1>3. Single'
    BY DEF Wired, Single
  <1>4. Held'
    BY <1>1 DEF Wired, Held, InLoop
  <1>5. LoopDone'
    BY <1>1 DEF Wired, LoopDone
  <1>6. Fresh'
    BY <1>1, <1>2 DEF Wired, Fresh
  <1>7. Undoable'
    <2> SUFFICES ASSUME api'.call \in Starting, api'.of # "log",
                        NEW h \in Handlers, NEW i \in DOMAIN api'.steps,
                        kind[h.cmd] = api'.of, api'.steps[i].do = "ask"
                 PROVE  Undoes(api'.steps[i], h.key)
      BY <1>1 DEF Undoable, Undoes
    <2>1. PICK j \in DOMAIN api.steps : api'.steps[i] = api.steps[j]
      OBVIOUS
    <2> QED BY <2>1 DEF Wired, Undoable
  <1>8. NotYet'
    <2> SUFFICES ASSUME api'.of = "rtt", OnLeft("rtt")'
                 PROVE  /\ current'["rtt"] = api'.cmd /\ refs'[api'.cmd] >= 1
                        /\ InLoop(api'.cmd) = 0 /\ \A h \in Handlers : h.cmd # api'.cmd
      BY <1>1 DEF NotYet, InLoop
    <2> QED BY <1>2 DEF Wired, NotYet, InLoop
  <1> QED BY <1>3, <1>4, <1>5, <1>6, <1>7, <1>8 DEF Wired

(* The steps of a call, but for those that start one or change the table. *)
LEMMA CallsWired ==
    ASSUME TypeOK, RefsInv, ListedInv, HeedInv, Wired, CallKnown', ~Forgotten,
           \/ ApiList \/ ApiAnswered \/ ApiRefused \/ ApiUndone \/ ApiFail \/ ApiStarted
           \/ ApiUnlist \/ ApiCancelled \/ ApiSignal \/ ApiCleanUp
           \/ \E k \in Kinds : ApiCancel(k) \/ ApiDummy(k)
    PROVE  Wired'
  <1> USE Components, Counted, HandlerKind DEF HeedInv
  <1>0. Kinds \subseteq AllKinds /\ (UNCHANGED event_cb => Handlers' = Handlers)
    BY WifiHalAssumption DEF WifiHalAssumption, Handlers
  (* The call is as good as over, or ended. *)
  <1>1. ASSUME UNCHANGED <<kind, event_cb, loop, refs, current>>, api.steps = <<>>,
               api.call # "unlist", api'.call \notin Starting, api'.call # "unlist"
        PROVE  Wired'
    <2>1. Placed'
      <3>1. \A key : ~OffLeft(key)
        BY <1>1 DEF OffLeft
      <3> QED BY <1>0, <1>1, <3>1 DEF Wired, Placed
    <2>2. UnlistListed'
      BY <1>1 DEF UnlistListed
    <2> QED BY <1>1, <2>1, <2>2, CallWired
  <1>2. CASE ApiList
    <2>1. /\ UNCHANGED <<kind, event_cb, loop, refs, current>>
          /\ api' = [api EXCEPT !.call = "start"] /\ api.call = "list" /\ "start" \in Calls
      BY <1>2 DEF ApiList, Calls
    <2>2. api'.call = "start" /\ api'.cmd = api.cmd /\ api'.of = api.of /\ api'.steps = api.steps
      BY <2>1, ApiBecomes
    <2>3. Placed'
      BY <1>0, <2>1, <2>2 DEF Wired, Placed, OffLeft, Stopping
    <2>4. UnlistListed'
      BY <2>2 DEF UnlistListed
    <2>5. \A i \in DOMAIN api'.steps : \E j \in DOMAIN api.steps : api'.steps[i] = api.steps[j]
      BY <2>2
    <2> QED BY <2>1, <2>2, <2>3, <2>4, <2>5, CallWired DEF Starting
  <1>3. CASE ApiAnswered
    <2>1. /\ UNCHANGED <<kind, event_cb, loop, refs, current, listed>>
          /\ api.steps # <<>> /\ Onward /\ Head(api.steps).do # "off"
          /\ api.call \in {"start", "undo", "cancel", "dummy"}
      BY <1>3 DEF ApiAnswered, InSteps
    <2>2. /\ api'.call = api.call /\ api'.cmd = api.cmd /\ api'.of = api.of
          /\ api.steps[1].do # "off"
          /\ \A i \in DOMAIN api.steps :
                i = 1 \/ \E j \in DOMAIN api'.steps : api'.steps[j] = api.steps[i]
          /\ \A i \in DOMAIN api'.steps : \E j \in DOMAIN api.steps : api'.steps[i] = api.steps[j]
      BY <2>1, OnwardLeaves
    <2>3. \A key : OffLeft(key) => OffLeft(key)'
      BY <2>2 DEF OffLeft
    <2>4. Placed'
      BY <1>0, <2>1, <2>2, <2>3 DEF Wired, Placed
    <2>5. UnlistListed'
      BY <2>1, <2>2 DEF UnlistListed
    <2> QED BY <2>1, <2>2, <2>4, <2>5, CallWired
  <1>4. CASE ApiUndone
    <2>1. /\ UNCHANGED <<kind, event_cb, loop, refs, current>> /\ api.steps = <<>>
          /\ api.call = "undo"
          /\ api' = [api EXCEPT !.call = "none"] \/ api' = [api EXCEPT !.call = "fail"]
      BY <1>4 DEF ApiUndone
    <2>2. PICK call \in Calls : call \in {"none", "fail"} /\ api' = [api EXCEPT !.call = call]
      BY <2>1 DEF Calls, InTable
    <2>3. api'.call = call
      BY <2>2, ApiBecomes
    <2> QED BY <1>1, <2>1, <2>2, <2>3 DEF Starting
  <1>5. CASE ApiStarted
    <2>1. /\ UNCHANGED <<kind, event_cb, loop, refs, current>> /\ api.steps = <<>>
          /\ api.call = "start" /\ api' = [api EXCEPT !.call = "none"] /\ "none" \in Calls
      BY <1>5 DEF ApiStarted, Calls
    <2>2. api'.call = "none"
      BY <2>1, ApiBecomes
    <2> QED BY <1>1, <2>1, <2>2 DEF Starting
  (* Nothing was being stopped. *)
  <1>6. ASSUME UNCHANGED <<kind, event_cb, loop, refs, current>>,
               api.call \in {"fail", "clean", "none"}, api'.call \in {"none", "clean", "done"}
        PROVE  Wired'
    <2>1. Placed'
      BY <1>0, <1>6 DEF Wired, Placed, Stopping
    <2>2. UnlistListed'
      BY <1>6 DEF UnlistListed
    <2> QED BY <1>6, <2>1, <2>2, CallWired DEF Starting
  <1>7. CASE ApiFail \/ ApiCleanUp \/ ApiSignal
    <2>1. /\ UNCHANGED <<kind, event_cb, loop, refs, current>>
          /\ api.call \in {"fail", "clean", "none"}
      BY <1>7 DEF ApiFail, ApiCleanUp, ApiSignal, Usable
    <2>2. PICK call \in Calls : call \in {"none", "clean", "done"} /\ api' = [api EXCEPT !.call = call]
      BY <1>7 DEF ApiFail, ApiCleanUp, ApiSignal, Calls
    <2>3. api'.call = call
      BY <2>2, ApiBecomes
    <2> QED BY <1>6, <2>1, <2>2, <2>3
  <1>8. ASSUME NEW k \in Kinds, ApiCancel(k)
        PROVE  Wired'
    <2>1. /\ UNCHANGED <<kind, event_cb, loop, refs, listed>> /\ api.call = "none"
          /\ k \in ById /\ current[k] # 0 /\ k \in AllKinds
          /\ \A j \in AllKinds : j # k => current'[j] = current[j]
      BY <1>0, <1>8 DEF ApiCancel, Usable, TypeOK
    <2>2. api'.call = "unlist" /\ api'.cmd = current[k] /\ api'.of = k
      BY <1>8 DEF ApiCancel
    <2>3. Placed'
      <3>1. ASSUME NEW h \in Handlers
            PROVE  \/ kind[h.cmd] = "log"
                   \/ current[kind[h.cmd]] = h.cmd
        BY <2>1 DEF Wired, Placed, Stopping
      <3> QED BY <1>0, <2>1, <2>2, <3>1 DEF Placed
    <2>4. UnlistListed'
      BY <2>1, <2>2 DEF UnlistListed, ListedInv
    <2> QED BY <2>1, <2>2, <2>3, <2>4, CallWired DEF Starting
  <1>9. ASSUME NEW k \in Kinds, ApiDummy(k)
        PROVE  Wired'
    <2>1. /\ UNCHANGED <<kind, event_cb, loop, refs, listed>> /\ api.call = "none"
          /\ k \in ByDummy /\ current[k] # 0 /\ k \in AllKinds
          /\ \A j \in AllKinds : j # k => current'[j] = current[j]
      BY <1>0, <1>9 DEF ApiDummy, Usable, TypeOK
    <2>2. api'.call = "dummy" /\ api'.of = k /\ api'.steps = CancelOf(k)
      BY <1>9 DEF ApiDummy
    <2>3. Placed'
      <3>1. ASSUME NEW h \in Handlers
            PROVE  \/ kind[h.cmd] = "log"
                   \/ current[kind[h.cmd]] = h.cmd
        BY <2>1 DEF Wired, Placed, Stopping
      <3>2. \A h \in Handlers : kind[h.cmd] = k => OffLeft(h.key)'
        BY <2>1, <2>2, FitCancel DEF OffLeft
      <3> QED BY <1>0, <2>1, <2>2, <3>1, <3>2 DEF Placed, Stopping
    <2>4. UnlistListed'
      BY <2>2 DEF UnlistListed
    <2> QED BY <2>1, <2>2, <2>3, <2>4, CallWired DEF Starting
  <1>10. CASE ApiUnlist
    <2>1. /\ UNCHANGED <<kind, event_cb, loop, refs, current>>
          /\ api.call = "unlist" /\ api.of \in ById /\ api.cmd \in listed
          /\ CancelOf(api.of) \in Seq(Steps) /\ "cancel" \in Calls
      BY <1>10, StepsTyped DEF ApiUnlist, CallKnown, Wired, UnlistListed, Calls
    <2>2. api' = [api EXCEPT !.call = "cancel", !.steps = CancelOf(api.of)]
      BY <1>10, <2>1 DEF ApiUnlist
    <2>3. api'.call = "cancel" /\ api'.of = api.of /\ api'.steps = CancelOf(api.of)
      BY <2>1, <2>2, CallBecomes
    <2>4. Placed'
      <3>1. \A h \in Handlers : kind[h.cmd] = api.of => OffLeft(h.key)'
        BY <2>1, <2>3, FitCancel DEF OffLeft
      <3> QED BY <1>0, <2>1, <2>3, <3>1 DEF Wired, Placed, Stopping
    <2>5. UnlistListed'
      BY <2>3 DEF UnlistListed
    <2> QED BY <2>1, <2>3, <2>4, <2>5, CallWired DEF Starting
  <1>11. CASE ApiCancelled
    <2>1. /\ UNCHANGED <<kind, event_cb, loop, current>> /\ api.steps = <<>>
          /\ api.call \in {"cancel", "dummy"}
          /\ api' = [api EXCEPT !.call = "none"] /\ "none" \in Calls
          /\ refs' = IF api.call = "cancel" THEN RefReleased(api.cmd) ELSE refs
      BY <1>11 DEF ApiCancelled, Calls
    <2>2. api'.call = "none"
      BY <2>1, ApiBecomes
    <2>3. Placed'
      <3>1. \A key : ~OffLeft(key)
        BY <2>1 DEF OffLeft
      <3> QED BY <1>0, <2>1, <3>1 DEF Wired, Placed
    <2>4. ASSUME NEW h \in Handlers PROVE refs'[h.cmd] = refs[h.cmd]
      <3>1. CASE api.call = "dummy"
        BY <2>1, <3>1
      <3>2. CASE api.call = "cancel"
        <4>1. /\ api.cmd \in Commands /\ kind[api.cmd] = api.of /\ current[api.of] = 0
              /\ api.of # "log"
          BY <3>2 DEF RefsInv, CallFits, OfCommand, CallKnown, ById
        <4>2. h.cmd # api.cmd
          <5>1. ~OffLeft(h.key)
            BY <2>1 DEF OffLeft
          <5> QED BY <3>2, <4>1, <5>1 DEF Wired, Placed
        <4> QED BY <2>1, <3>2, <4>1, <4>2, RefsBecome
      <3> QED BY <2>1, <3>1, <3>2
    <2>5. UnlistListed'
      BY <2>2 DEF UnlistListed
    <2> QED BY <2>1, <2>2, <2>3, <2>4, <2>5, CallWired DEF Starting
  <1>12. CASE ApiRefused
    <2>1. /\ UNCHANGED <<kind, event_cb, loop, refs>>
          /\ api.steps # <<>> /\ Head(api.steps).do = "ask"
          /\ api.call \in {"start", "undo", "cancel", "dummy"}
          /\ current'[api.of] = 0
          /\ \A k \in AllKinds : k # api.of => current'[k] = current[k]
      BY <1>12 DEF ApiRefused, InSteps, TypeOK
    <2>2. Head(api.steps) = api.steps[1] /\ 1 \in DOMAIN api.steps /\ Head(api.steps) \in Steps
      BY <2>1, StepsLeft
    <2>3. PICK keys \in Seq(Keys) : keys = Head(api.steps).keys
      <3>1. Head(api.steps).keys \in Seq(Keys)
        BY <2>1, <2>2 DEF Steps
      <3> QED BY <3>1, Zenon
    <2>4. CASE api.call = "start"
      <3>1. Undo(keys) \in Seq(Steps) /\ "undo" \in Calls
        BY UndoTyped DEF Calls
      <3>2. api' = [api EXCEPT !.call = "undo", !.steps = Undo(keys)]
        BY <1>12, <2>3, <2>4 DEF ApiRefused
      <3>3. api'.call = "undo" /\ api'.cmd = api.cmd /\ api'.of = api.of /\ api'.steps = Undo(keys)
        BY <3>1, <3>2, CallBecomes
      <3>4. ASSUME NEW h \in Handlers, kind[h.cmd] = api.of, kind[h.cmd] # "log"
            PROVE  OffLeft(h.key)'
        <4>1. Undoes(api.steps[1], h.key)
          BY <2>1, <2>2, <2>4, <3>4 DEF Wired, Undoable, Starting
        <4>2. PICK j \in DOMAIN keys : keys[j] = h.key
          BY <2>2, <2>3, <4>1 DEF Undoes
        <4>3. PICK i \in DOMAIN Undo(keys) : Undo(keys)[i].do = "off" /\ Undo(keys)[i].keys[1] = h.key
          <5>1. \A l \in DOMAIN keys : keys[l] \in KeysOf(api.of)
            BY <2>1, <2>2, <2>3, <2>4 DEF CallKnown, Fit, Starting
          <5> QED BY <4>2, <5>1, FitUndo
        <4> QED BY <3>3, <4>3 DEF OffLeft
      <3>5. Placed'
        <4> SUFFICES ASSUME NEW h \in Handlers, kind[h.cmd] # "log"
                     PROVE  \/ current'[kind[h.cmd]] = h.cmd
                            \/ api'.of = kind[h.cmd] /\ api'.call \in Stopping /\ OffLeft(h.key)'
          BY <1>0, <2>1 DEF Placed
        <4>1. current[kind[h.cmd]] = h.cmd
          BY <2>4 DEF Wired, Placed, Stopping
        <4> QED BY <2>1, <3>3, <3>4, <4>1 DEF Stopping
      <3>6. UnlistListed'
        BY <3>3 DEF UnlistListed
      <3> QED BY <2>1, <3>3, <3>5, <3>6, CallWired DEF Starting
    <2>5. CASE api.call # "start"
      <3>1. api' = [api EXCEPT !.steps = <<>>] /\ <<>> \in Seq(Steps)
        BY <1>12, <2>5 DEF ApiRefused
      <3>2. api'.call = api.call /\ api'.cmd = api.cmd /\ api'.of = api.of /\ api'.steps = <<>>
        BY <3>1, ApiBecomes
      <3>3. api.call \in {"cancel", "dummy"} /\ current[api.of] = 0
        BY <2>1, <2>2, <2>5 DEF CallKnown, Fit, RefsInv, CallFits
      <3>4. ASSUME NEW h \in Handlers, kind[h.cmd] # "log"
            PROVE  current[kind[h.cmd]] = h.cmd
        <4>1. ASSUME api.of = kind[h.cmd] PROVE ~OffLeft(h.key)
          <5>1. \A i \in DOMAIN api.steps : api.steps[i].do = "off" => i < 1
            BY <2>1, <2>2, <3>4, <4>1 DEF CallKnown, Fit
          <5>2. \A i \in DOMAIN api.steps : ~(i < 1)
            OBVIOUS
          <5> QED BY <5>1, <5>2 DEF OffLeft
        <4> QED BY <3>3, <3>4, <4>1 DEF Wired, Placed
      <3>5. Placed'
        BY <1>0, <2>1, <3>3, <3>4 DEF Placed
      <3>6. UnlistListed'
        BY <3>2, <3>3 DEF UnlistListed
      <3> QED BY <2>1, <3>2, <3>3, <3>5, <3>6, CallWired DEF Starting
    <2> QED BY <2>4, <2>5
  <1> QED BY <1>2, <1>3, <1>4, <1>5, <1>7, <1>8, <1>9, <1>10, <1>11, <1>12

(* A start finds no handler with a key of its kind. *)
LEMMA StartWired ==
    ASSUME ~({"scan", "full"} \subseteq Kinds),
           TypeOK, RefsInv, HeedInv, Wired, CallKnown', NEW k \in Kinds, ApiStart(k)
    PROVE  Wired'
  <1> USE Components, Counted, HandlerKind DEF HeedInv
  <1>0. k \in AllKinds
    BY WifiHalAssumption DEF WifiHalAssumption
  <1>1. PICK c \in Commands :
           /\ kind[c] = "none"
           /\ kind' = [kind EXCEPT ![c] = k]
           /\ refs' = [refs EXCEPT ![c] = 1]
           /\ current' = [current EXCEPT ![k] = c]
           /\ api' = [call |-> "list", cmd |-> c, of |-> k, steps |-> StartOf(k)]
    BY DEF ApiStart, New
  <1>2. /\ refs'[c] = 1 /\ current'[k] = c /\ refs[c] = 0
        /\ UNCHANGED <<event_cb, loop>> /\ api.call = "none" /\ current[k] = 0
        /\ \A d \in Commands : d # c => kind'[d] = kind[d] /\ refs'[d] = refs[d]
        /\ \A j \in AllKinds : j # k => current'[j] = current[j]
    BY <1>0, <1>1 DEF ApiStart, Usable, TypeOK, RefsInv, NewAreFree
  <1>3. /\ api'.call = "list" /\ api'.cmd = c /\ api'.of = k /\ api'.steps = StartOf(k)
    BY <1>1
  <1>4. Handlers' = Handlers
    BY <1>2 DEF Handlers
  <1>5. ASSUME NEW h \in Handlers
        PROVE  /\ h.cmd # c /\ kind'[h.cmd] = kind[h.cmd] /\ refs'[h.cmd] = refs[h.cmd]
               /\ kind[h.cmd] = "log" \/ current[kind[h.cmd]] = h.cmd
               /\ kind[h.cmd] = k => k = "log"
    <2>1. h.cmd # c
      BY <1>1
    <2>2. kind[h.cmd] = "log" \/ current[kind[h.cmd]] = h.cmd
      BY <1>2 DEF Wired, Placed, Stopping
    <2> QED BY <1>2, <2>1, <2>2
  <1>6. Placed'
    <2> SUFFICES ASSUME NEW h \in Handlers, kind[h.cmd] # "log"
                 PROVE  current'[kind[h.cmd]] = h.cmd
      BY <1>4, <1>5 DEF Placed
    <2>1. current[kind[h.cmd]] = h.cmd /\ kind[h.cmd] # k
      BY <1>5
    <2> QED BY <1>2, <2>1
  <1>7. Single'
    BY <1>2 DEF Wired, Single
  <1>8. Held'
    BY <1>2, <1>4, <1>5 DEF Wired, Held, InLoop
  <1>9. LoopDone'
    BY <1>2, <1>4 DEF Wired, LoopDone
  <1>10. Fresh'
    <2> SUFFICES ASSUME NEW h \in Handlers, OnLeft(h.key)'
                 PROVE  h.key = "ring"
      BY <1>4 DEF Fresh
    <2>1. h.key \in KeysOf(k)
      BY <1>3 DEF OnLeft, CallKnown, Fit
    <2>2. k = "log"
      BY <1>5, <2>1, KindOfKey
    <2> QED BY <2>1, <2>2, KeysAre
  <1>11. Undoable'
    BY <1>3, <1>4, <1>5 DEF Undoable
  <1>12. NotYet'
    <2>1. InLoop(c) = 0
      BY <1>2 DEF InLoop, RefsInv, LoopHolds
    <2> QED BY <1>2, <1>3, <1>4, <1>5, <2>1 DEF NotYet, InLoop
  <1>13. UnlistListed'
    BY <1>3 DEF UnlistListed
  <1> QED BY <1>6, <1>7, <1>8, <1>9, <1>10, <1>11, <1>12, <1>13 DEF Wired

(* A handler is registered where none of its key is. *)
LEMMA RegisterWired ==
    ASSUME ~({"scan", "full"} \subseteq Kinds),
           TypeOK, RefsInv, HeedInv, Wired, CallKnown', ApiRegister
    PROVE  Wired'
  <1> USE Components, Counted, HandlerKind DEF HeedInv
  <1>1. /\ UNCHANGED <<kind, refs, listed, loop, torn, info, current>>
        /\ api.call = "start" /\ api.steps # <<>> /\ Onward
        /\ api.cmd \in Commands /\ kind[api.cmd] = api.of /\ api.of \in Kinds
    BY RegisterIs
  <1>2. PICK key \in Keys :
           /\ api.steps[1].do = "on" /\ api.steps[1].keys[1] = key
           /\ key \in KeysOf(api.of) /\ OnLeft(key) /\ ~OnLeft(key)'
           /\ event_cb' = Registered(event_cb, key, api.cmd)
    BY RegisterIs
  <1>3. PICK new : new = [key |-> key, cmd |-> api.cmd]
    OBVIOUS
  <1>4. new.key = key /\ new.cmd = api.cmd
    BY <1>3
  <1>5. /\ Handlers' \subseteq Handlers \cup {new}
        /\ Single /\ (\A h \in Handlers : h.key = key => key = "ring") => Single'
    BY <1>1, <1>2, <1>3, Registers
  <1>6. /\ api'.call = "start" /\ api'.cmd = api.cmd /\ api'.of = api.of
        /\ \A i \in DOMAIN api'.steps :
              i \in Nat /\ i > 0 /\ i + 1 \in DOMAIN api.steps /\ api'.steps[i] = api.steps[i + 1]
        /\ 1 \in DOMAIN api.steps
    BY <1>1, OnwardLeaves
  <1>7. \A any : OnLeft(any)' => OnLeft(any)
    BY <1>6 DEF OnLeft
  <1>8. api.of = "rtt" => key = "rtt"
    BY <1>2, KeysAre
  <1>9. Placed'
    <2>1. ASSUME NEW h \in Handlers
          PROVE  kind[h.cmd] = "log" \/ current[kind[h.cmd]] = h.cmd
      BY <1>1 DEF Wired, Placed, Stopping
    <2>2. current[api.of] = api.cmd
      BY <1>1, <1>2, <1>8 DEF CallKnown, Wired, NotYet, Starting
    <2> QED BY <1>1, <1>4, <1>5, <2>1, <2>2 DEF Placed
  <1>10. Single'
    BY <1>2, <1>5 DEF Wired, Fresh
  <1>11. Held'
    <2>1. refs[api.cmd] >= 1 + InLoop(api.cmd)
      <3>1. CASE api.of = "rtt"
        BY <1>1, <1>2, <1>8, <3>1 DEF Wired, NotYet, Starting
      <3>2. CASE api.of # "rtt"
        BY <1>1, <3>2 DEF CallKnown, RefsInv, OwnerKnown
      <3> QED BY <3>1, <3>2
    <2> QED BY <1>1, <1>4, <1>5, <2>1 DEF Wired, Held, InLoop
  <1>12. LoopDone'
    <2>1. ASSUME loop.at \in {"report", "unlist", "drop"} PROVE loop.cmd # api.cmd
      <3>1. kind[loop.cmd] = "rtt" /\ loop.at \in Running
        BY <2>1 DEF RefsInv, LoopHolds, Running
      <3>2. CASE api.of = "rtt"
        BY <1>1, <1>2, <1>8, <3>1, <3>2 DEF Wired, NotYet, Starting, InLoop
      <3> QED BY <1>1, <3>1, <3>2
    <2> QED BY <1>1, <1>4, <1>5, <2>1 DEF Wired, LoopDone
  <1>13. Fresh'
    BY <1>2, <1>4, <1>5, <1>7 DEF Wired, Fresh
  <1>14. Undoable'
    <2> SUFFICES ASSUME api.of # "log", NEW h \in Handlers', NEW i \in DOMAIN api'.steps,
                        kind[h.cmd] = api.of, api'.steps[i].do = "ask"
                 PROVE  Undoes(api'.steps[i], h.key)
      BY <1>1, <1>6 DEF Undoable
    <2>1. /\ i + 1 \in DOMAIN api.steps /\ api'.steps[i] = api.steps[i + 1] /\ 1 < i + 1
      BY <1>6
    <2>2. CASE h \in Handlers
      BY <1>1, <2>1, <2>2 DEF Wired, Undoable, Starting
    <2>3. CASE h = new
      BY <1>2, <1>4, <1>6, <2>1, <2>3 DEF CallKnown, Fit
    <2> QED BY <1>5, <2>2, <2>3
  <1>15. NotYet'
    <2>1. api.of = "rtt" => ~OnLeft("rtt")'
      BY <1>2, <1>8
    <2> QED BY <1>6, <2>1 DEF NotYet
  <1>16. UnlistListed'
    BY <1>6 DEF UnlistListed
  <1> QED BY <1>9, <1>10, <1>11, <1>12, <1>13, <1>14, <1>15, <1>16 DEF Wired

(* A handler is unregistered. *)
LEMMA UnregisterWired ==
    ASSUME TypeOK, RefsInv, HeedInv, Wired, CallKnown', ApiUnregister
    PROVE  Wired'
  <1> USE Components, Counted, HandlerKind DEF HeedInv
  <1>1. /\ UNCHANGED <<kind, refs, listed, loop, torn, info, current>>
        /\ api.call \in Stopping /\ api.steps # <<>> /\ Onward
    BY UnregisterIs
  <1>2. PICK key \in Keys :
           api.steps[1].do = "off" /\ api.steps[1].keys[1] = key /\ Unregister(key)
    BY UnregisterIs
  <1>3. /\ Handlers' \subseteq Handlers
        /\ Single => Single'
        /\ Single /\ key # "ring" => \A h \in Handlers' : h.key # key
    BY <1>2, Unregisters
  <1>4. /\ api'.call = api.call /\ api'.of = api.of
        /\ \A i \in DOMAIN api.steps :
              i = 1 \/ \E j \in DOMAIN api'.steps : api'.steps[j] = api.steps[i]
    BY <1>1, OnwardLeaves
  <1>5. api'.call \notin Starting /\ api'.call # "unlist"
    BY <1>1, <1>4 DEF Starting, Stopping
  <1>6. \A any : ~OnLeft(any)'
    BY <1>5 DEF OnLeft, CallKnown, Fit
  <1>7. Placed'
    <2> SUFFICES ASSUME NEW h \in Handlers', kind[h.cmd] # "log"
                 PROVE  \/ current[kind[h.cmd]] = h.cmd
                        \/ api.of = kind[h.cmd] /\ OffLeft(h.key)'
      BY <1>1, <1>4 DEF Placed
    <2>1. h \in Handlers /\ h.key # key
      BY <1>3 DEF Wired
    <2>2. ASSUME OffLeft(h.key) PROVE OffLeft(h.key)'
      BY <1>2, <1>4, <2>1, <2>2 DEF OffLeft
    <2> QED BY <1>1, <2>1, <2>2 DEF Wired, Placed, Stopping
  <1>8. Single'
    BY <1>3 DEF Wired
  <1>9. Held' /\ LoopDone'
    BY <1>1, <1>3 DEF Wired, Held, LoopDone, InLoop
  <1>10. Fresh' /\ Undoable' /\ NotYet' /\ UnlistListed'
    BY <1>5, <1>6 DEF Fresh, Undoable, NotYet, UnlistListed
  <1> QED BY <1>7, <1>8, <1>9, <1>10 DEF Wired

(* A ranging that ends takes the only handler of rangings. *)
LEMMA RttEndsWired ==
    ASSUME TypeOK, RefsInv, HeedInv, Wired, LoopRttEnds
    PROVE  Wired'
  <1> USE Components, Counted, HandlerKind DEF HeedInv
  <1>1. /\ UNCHANGED <<kind, refs, listed, api, current>>
        /\ loop.at = "call" /\ kind[loop.cmd] = "rtt" /\ Unregister("rtt")
    BY DEF LoopRttEnds, At
  <1>2. loop'.at = "report" /\ loop'.cmd = loop.cmd
    BY LoopBecomes DEF LoopRttEnds, GoTo, Places
  <1>3. /\ Handlers' \subseteq Handlers
        /\ Single => Single'
        /\ Single => \A h \in Handlers' : h.key # "rtt"
    BY <1>1, Unregisters
  <1>4. \A any : (OnLeft(any)' <=> OnLeft(any)) /\ (OffLeft(any)' <=> OffLeft(any))
    BY <1>1 DEF OnLeft, OffLeft
  <1>5. \A c : InLoop(c)' = InLoop(c)
    BY <1>1, <1>2 DEF InLoop, Running
  <1>6. Placed'
    BY <1>1, <1>3, <1>4 DEF Wired, Placed
  <1>7. Single'
    BY <1>3 DEF Wired
  <1>8. Held'
    BY <1>1, <1>3, <1>5 DEF Wired, Held
  <1>9. LoopDone'
    <2>1. ASSUME NEW h \in Handlers', h.cmd = loop.cmd PROVE FALSE
      <3>1. h \in Handlers /\ h.key # "rtt"
        BY <1>3 DEF Wired
      <3>2. h.key \in KeysOf("rtt")
        BY <1>1, <2>1, <3>1
      <3> QED BY <3>1, <3>2, KeysAre
    <2> QED BY <1>2, <2>1 DEF LoopDone
  <1>10. Fresh'
    BY <1>3, <1>4 DEF Wired, Fresh
  <1>11. Undoable'
    BY <1>1, <1>3 DEF Wired, Undoable
  <1>12. NotYet'
    BY <1>1, <1>3, <1>4, <1>5 DEF Wired, NotYet
  <1>13. UnlistListed'
    BY <1>1 DEF Wired, UnlistListed
  <1> QED BY <1>6, <1>7, <1>8, <1>9, <1>10, <1>11, <1>12, <1>13 DEF Wired

(* The ranging the service forgets has no handler. *)
LEMMA RttReportsWired ==
    ASSUME TypeOK, RefsInv, HeedInv, Wired, LoopRttReports
    PROVE  Wired'
  <1> USE Components, Counted, HandlerKind DEF HeedInv
  <1>1. /\ UNCHANGED <<kind, refs, listed, api, event_cb>>
        /\ loop.at = "report" /\ kind[loop.cmd] = "rtt"
    BY DEF LoopRttReports, At, RefsInv, LoopHolds
  <1>2. loop'.at = "unlist" /\ loop'.cmd = loop.cmd
    BY LoopBecomes DEF LoopRttReports, GoTo, Places
  <1>3. /\ \A k \in AllKinds : k # "rtt" => current'[k] = current[k]
        /\ current["rtt"] # loop.cmd => current'["rtt"] = current["rtt"]
    BY DEF LoopRttReports, TypeOK
  <1>4. Handlers' = Handlers
    BY <1>1 DEF Handlers
  <1>5. \A any : (OnLeft(any)' <=> OnLeft(any)) /\ (OffLeft(any)' <=> OffLeft(any))
    BY <1>1 DEF OnLeft, OffLeft
  <1>6. \A c : InLoop(c)' = InLoop(c)
    BY <1>1, <1>2 DEF InLoop, Running
  <1>7. Placed'
    <2> SUFFICES ASSUME NEW h \in Handlers, current[kind[h.cmd]] = h.cmd
                 PROVE  current'[kind[h.cmd]] = h.cmd
      BY <1>1, <1>4, <1>5 DEF Wired, Placed
    <2>1. h.cmd # loop.cmd
      BY <1>1 DEF Wired, LoopDone
    <2> QED BY <1>3, <2>1
  <1>8. Single'
    BY <1>1 DEF Wired, Single
  <1>9. Held'
    BY <1>1, <1>4, <1>6 DEF Wired, Held
  <1>10. LoopDone'
    BY <1>1, <1>2, <1>4 DEF Wired, LoopDone
  <1>11. Fresh'
    BY <1>4, <1>5 DEF Wired, Fresh
  <1>12. Undoable'
    BY <1>1, <1>4 DEF Wired, Undoable
  <1>13. NotYet'
    <2> SUFFICES ASSUME api.call \in Starting, api.of = "rtt", OnLeft("rtt")
                 PROVE  current'["rtt"] = api.cmd /\ refs[api.cmd] >= 1 /\ InLoop(api.cmd) = 0
                        /\ \A h \in Handlers : h.cmd # api.cmd
      BY <1>1, <1>4, <1>5, <1>6 DEF NotYet
    <2>1. /\ current["rtt"] = api.cmd /\ refs[api.cmd] >= 1 /\ InLoop(api.cmd) = 0
          /\ \A h \in Handlers : h.cmd # api.cmd
      BY DEF Wired, NotYet
    <2>2. loop.cmd # api.cmd
      BY <1>1, <2>1 DEF InLoop, Running
    <2> QED BY <1>3, <2>1, <2>2
  <1>14. UnlistListed'
    BY <1>1 DEF Wired, UnlistListed
  <1> QED BY <1>7, <1>8, <1>9, <1>10, <1>11, <1>12, <1>13, <1>14 DEF Wired

(* The event thread's other steps. *)
LEMMA LoopsWired ==
    ASSUME TypeOK, RefsInv, HeedInv, Wired, ~Forgotten',
           LoopStep, ~LoopRttEnds, ~LoopRttReports
    PROVE  Wired'
  <1> USE Components, Counted, HandlerKind DEF HeedInv
  <1>1. api.call \in Starting /\ api.of = "rtt" /\ OnLeft("rtt") =>
           /\ refs[api.cmd] >= 1 /\ InLoop(api.cmd) = 0
           /\ api.cmd \in Commands
           /\ \A h \in Handlers : h.cmd # api.cmd
    BY DEF Wired, NotYet, RefsInv, CallFits, OfCommand, Starting
  <1>2. \A h \in Handlers : refs[h.cmd] >= 1 + InLoop(h.cmd)
    BY DEF Wired, Held
  <1>3. api.call = "unlist" => api.cmd \in listed /\ kind[api.cmd] # "rtt"
    BY DEF Wired, UnlistListed, RefsInv, CallFits, OfCommand
  (* The thread leaves a command, or goes on with it. *)
  <1>4. ASSUME UNCHANGED <<kind, refs, event_cb, listed, api, current>>,
               loop'.at \in Running => loop.at \in Running /\ loop'.cmd = loop.cmd,
               loop'.at \notin {"report", "unlist", "drop"}
        PROVE  Wired'
    <2>1. \A c : InLoop(c)' \in {0, InLoop(c)}
      BY <1>4 DEF InLoop
    <2>2. ASSUME NEW h \in Handlers PROVE refs'[h.cmd] >= 1 + InLoop(h.cmd)'
      <3>1. /\ refs[h.cmd] >= 1 + InLoop(h.cmd) /\ refs[h.cmd] \in Nat
            /\ InLoop(h.cmd) \in {0, 1} /\ refs'[h.cmd] = refs[h.cmd]
        BY <1>2, <1>4
      <3> QED BY <2>1, <3>1
    <2>3. api.call \in Starting /\ api.of = "rtt" /\ OnLeft("rtt") =>
             refs'[api.cmd] >= 1 /\ InLoop(api.cmd)' = 0
      BY <1>1, <1>4, <2>1
    <2> QED BY <1>3, <1>4, <2>2, <2>3, LoopWired
  <1>5. CASE LoopOpen \/ LoopEnter \/ LoopExit \/ LoopHandle \/ LoopCheck \/ LoopCleansUp
    <2>1. UNCHANGED <<kind, refs, event_cb, listed, api, current>>
      BY <1>5 DEF LoopOpen, LoopEnter, LoopExit, LoopHandle, LoopCheck, LoopCleansUp
    <2>2. PICK place \in {"enter", "poll", "leave", "return", "done"} :
             GoTo(place) /\ (place = "return" => loop.at = "call")
      BY <1>5 DEF LoopOpen, LoopEnter, LoopExit, LoopHandle, LoopCheck, LoopCleansUp, At
    <2>3. loop'.at = place /\ loop'.cmd = loop.cmd
      BY <2>2, LoopBecomes DEF GoTo, Places
    <2> QED BY <1>4, <2>1, <2>2, <2>3 DEF Running
  <1>6. CASE LoopLeave
    <2>1. UNCHANGED <<kind, refs, event_cb, listed, api, current, loop>> /\ loop.at = "leave"
      BY <1>6 DEF LoopLeave, At
    <2> QED BY <1>4, <2>1
  <1>7. CASE LoopTouches
    <2>1. UNCHANGED <<kind, refs, event_cb, listed, api, current>> /\ loop'.at = "done"
      BY <1>7 DEF LoopTouches
    <2> QED BY <1>4, <2>1 DEF Running
  <1>8. CASE LoopRttUnlists
    <2>1. /\ UNCHANGED <<kind, refs, event_cb, api, current>> /\ loop.at = "unlist"
          /\ listed' = listed \ {loop.cmd}
      BY <1>8 DEF LoopRttUnlists, TableBecomes, Unlisted, At, Forgotten
    <2>2. PICK place \in {"drop", "return"} : GoTo(place)
      BY <1>8 DEF LoopRttUnlists
    <2>3. loop'.at = place /\ loop'.cmd = loop.cmd
      BY <2>2, LoopBecomes DEF GoTo, Places
    <2>4. \A c : InLoop(c)' = InLoop(c)
      BY <2>1, <2>3 DEF InLoop, Running
    <2>5. kind[loop.cmd] = "rtt"
      BY <2>1 DEF RefsInv, LoopHolds
    <2>6. \A h \in Handlers : refs'[h.cmd] >= 1 + InLoop(h.cmd)'
      BY <1>2, <2>1, <2>4
    <2>7. api.call \in Starting /\ api.of = "rtt" /\ OnLeft("rtt") =>
             refs'[api.cmd] >= 1 /\ InLoop(api.cmd)' = 0
      BY <1>1, <2>1, <2>4
    <2>8. api.call = "unlist" => api.cmd \in listed'
      BY <1>3, <2>1, <2>5
    <2> QED BY <2>1, <2>3, <2>6, <2>7, <2>8, LoopWired
  (* The thread gives up a reference: a handler has no part in that. *)
  <1>9. ASSUME UNCHANGED <<kind, event_cb, listed, api, current>>,
               loop.at \in Running, loop.cmd \in Commands,
               refs' = RefReleased(loop.cmd),
               \/ /\ loop'.at = "return" /\ loop'.cmd = loop.cmd
                  /\ \A h \in Handlers : h.cmd # loop.cmd
               \/ loop'.at = "check"
        PROVE  Wired'
    <2>1. /\ refs'[loop.cmd] = refs[loop.cmd] - 1
          /\ \A c \in Commands : c # loop.cmd => refs'[c] = refs[c]
      BY <1>9, RefsBecome
    <2>2. \A c : InLoop(c) = (IF c = loop.cmd THEN 1 ELSE 0)
      BY <1>9 DEF InLoop
    <2>3. /\ \A c : c # loop.cmd => InLoop(c)' = 0
          /\ loop'.at = "check" => InLoop(loop.cmd)' = 0
      BY <1>9 DEF InLoop, Running
    <2>4. ASSUME NEW h \in Handlers PROVE refs'[h.cmd] >= 1 + InLoop(h.cmd)'
      <3>1. CASE h.cmd # loop.cmd
        BY <1>2, <2>1, <2>2, <2>3, <3>1
      <3>2. CASE h.cmd = loop.cmd
        <4>1. loop'.at = "check"
          BY <1>9, <3>2
        <4>2. refs[loop.cmd] >= 2 /\ refs[loop.cmd] \in Nat
          BY <1>2, <1>9, <2>2, <3>2
        <4>3. refs'[loop.cmd] >= 1
          BY <2>1, <4>2
        <4>4. InLoop(h.cmd)' = 0
          BY <1>9, <3>2, <4>1 DEF InLoop, Running
        <4> QED BY <3>2, <4>3, <4>4
      <3> QED BY <3>1, <3>2
    <2>5. api.call \in Starting /\ api.of = "rtt" /\ OnLeft("rtt") =>
             refs'[api.cmd] >= 1 /\ InLoop(api.cmd)' = 0
      BY <1>1, <1>9, <2>1, <2>2, <2>3
    <2> QED BY <1>3, <1>9, <2>4, <2>5, LoopWired
  <1>10. CASE LoopRttReleases
    <2>1. /\ UNCHANGED <<kind, event_cb, listed, api, current>>
          /\ loop.at = "drop" /\ refs' = RefReleased(loop.cmd)
      BY <1>10 DEF LoopRttReleases, At
    <2>2. loop'.at = "return" /\ loop'.cmd = loop.cmd
      BY <1>10, LoopBecomes DEF LoopRttReleases, GoTo, Places
    <2>3. loop.at \in Running /\ loop.cmd \in Commands
      BY <2>1 DEF Running, RefsInv, LoopHolds
    <2>4. \A h \in Handlers : h.cmd # loop.cmd
      BY <2>1 DEF Wired, LoopDone
    <2> QED BY <1>9, <2>1, <2>2, <2>3, <2>4
  <1>11. CASE LoopReturn
    <2>1. /\ UNCHANGED <<kind, event_cb, listed, api, current>>
          /\ loop.at = "return" /\ refs' = RefReleased(loop.cmd)
      BY <1>11 DEF LoopReturn, At
    <2>2. loop'.at = "check"
      BY <1>11 DEF LoopReturn
    <2>3. loop.at \in Running /\ loop.cmd \in Commands
      BY <2>1 DEF Running, RefsInv, LoopHolds
    <2> QED BY <1>9, <2>1, <2>2, <2>3
  <1> QED BY <1>5, <1>6, <1>7, <1>8, <1>10, <1>11 DEF LoopStep

(* An event is handed to the command of a handler. *)
LEMMA EventWired ==
    ASSUME TypeOK, RefsInv, HeedInv, Wired, NEW key \in Keys, LoopEvent(key)
    PROVE  Wired'
  <1> USE Components, Counted, HandlerKind DEF HeedInv
  <1>1. /\ UNCHANGED <<kind, event_cb, listed, api, current>> /\ loop.at = "poll"
        /\ \/ loop' = [loop EXCEPT !.at = "check"] /\ UNCHANGED refs
           \/ loop' = [at |-> "done", cmd |-> 0] /\ UNCHANGED refs
           \/ \E i \in First(event_cb, key) :
                 /\ loop' = [at |-> "call", cmd |-> event_cb[i].cmd]
                 /\ refs' = RefAdded(event_cb[i].cmd)
    BY DEF LoopEvent, At, Dispatch
  <1>2. \A c : InLoop(c) = 0
    BY <1>1 DEF InLoop, Running
  <1>3. api.call \in Starting /\ api.of = "rtt" /\ OnLeft("rtt") =>
           refs[api.cmd] >= 1 /\ api.cmd \in Commands /\ \A h \in Handlers : h.cmd # api.cmd
    BY DEF Wired, NotYet, RefsInv, CallFits, OfCommand, Starting
  <1>4. \A h \in Handlers : refs[h.cmd] >= 1
    BY <1>2 DEF Wired, Held
  <1>5. api.call = "unlist" => api.cmd \in listed'
    BY <1>1 DEF Wired, UnlistListed
  <1>6. CASE loop'.at \in {"check", "done"} /\ UNCHANGED refs
    <2>1. \A c : InLoop(c)' = 0
      BY <1>6 DEF InLoop, Running
    <2>2. \A h \in Handlers : refs'[h.cmd] >= 1 + InLoop(h.cmd)'
      BY <1>4, <1>6, <2>1
    <2> QED BY <1>1, <1>3, <1>5, <1>6, <2>1, <2>2, LoopWired
  <1>7. ASSUME NEW g \in Handlers, loop' = [at |-> "call", cmd |-> g.cmd], refs' = RefAdded(g.cmd)
        PROVE  Wired'
    <2>1. /\ loop'.at = "call" /\ loop'.cmd = g.cmd
          /\ refs'[g.cmd] = refs[g.cmd] + 1
          /\ \A c \in Commands : c # g.cmd => refs'[c] = refs[c]
      BY <1>7, RefsBecome
    <2>2. \A c : InLoop(c)' = (IF c = g.cmd THEN 1 ELSE 0)
      BY <2>1 DEF InLoop, Running
    <2>3. ASSUME NEW h \in Handlers PROVE refs'[h.cmd] >= 1 + InLoop(h.cmd)'
      BY <1>4, <2>1, <2>2
    <2>4. api.call \in Starting /\ api.of = "rtt" /\ OnLeft("rtt") =>
             refs'[api.cmd] >= 1 /\ InLoop(api.cmd)' = 0
      BY <1>1, <1>3, <2>1, <2>2
    <2> QED BY <1>1, <1>5, <2>1, <2>3, <2>4, LoopWired
  <1>8. \A i \in First(event_cb, key) : event_cb[i] \in Handlers
    BY DEF First, Positions, Handlers
  <1>9. loop' = [loop EXCEPT !.at = "check"] => loop'.at = "check"
    BY LoopBecomes DEF Places
  <1>10. loop' = [at |-> "done", cmd |-> 0] => loop'.at = "done"
    OBVIOUS
  <1> QED BY <1>1, <1>6, <1>7, <1>8, <1>9, <1>10

LEMMA WiredKept ==
    ASSUME ~({"scan", "full"} \subseteq Kinds),
           TypeOK, RefsInv, ListedInv, HeedInv, Forgotten \/ Wired, [Next]_vars
    PROVE  Forgotten' \/ Wired'
  <1> SUFFICES ASSUME ~Forgotten'
               PROVE  Wired'
    OBVIOUS
  <1>1. ~Forgotten /\ Wired /\ CallKnown'
    BY ForgottenStays, CallKnownKept DEF HeedInv
  <1>2. CASE Service
    BY <1>1, <1>2, StartWired, CallsWired DEF Service
  <1>3. CASE ApiStep
    BY <1>1, <1>3, RegisterWired, UnregisterWired, CallsWired DEF ApiStep
  <1>4. CASE LoopStep
    BY <1>1, <1>4, RttEndsWired, RttReportsWired, LoopsWired
  <1>5. CASE \E key \in Keys : LoopEvent(key)
    BY <1>1, <1>5, EventWired
  <1>6. CASE UNCHANGED vars \/ Ended
    <2>1. UNCHANGED vars
      BY <1>6 DEF Ended
    <2>2. UNCHANGED <<kind, refs, event_cb, listed, api, loop, current>>
      BY <2>1 DEF vars
    <2>3. UnlistListed'
      BY <1>1, <2>2 DEF Wired, UnlistListed
    <2>4. \A h \in Handlers : refs'[h.cmd] >= 1 + InLoop(h.cmd)'
      BY <1>1, <2>2 DEF Wired, Held, InLoop
    <2>5. api.call \in Starting /\ api.of = "rtt" /\ OnLeft("rtt") =>
             refs'[api.cmd] >= 1 /\ InLoop(api.cmd)' = 0
      BY <1>1, <2>2 DEF Wired, NotYet, InLoop
    <2> QED BY <1>1, <2>2, <2>3, <2>4, <2>5, LoopWired DEF UnlistListed
  <1> QED BY <1>2, <1>3, <1>4, <1>5, <1>6 DEF Next

LEMMA WiredInit ==
    ASSUME Init
    PROVE  ListedInv /\ Wired
  <1>1. ListedInv
    BY DEF Init, ListedInv, ById
  <1>2. Handlers = {} /\ Single
    BY DEF Init, Handlers, Single
  <1>3. api.call = "none" /\ loop.at = "out"
    BY DEF Init
  <1>4. Placed /\ Held /\ Fresh
    BY <1>2 DEF Placed, Held, Fresh
  <1>5. LoopDone /\ Undoable /\ NotYet /\ UnlistListed
    BY <1>3 DEF LoopDone, Undoable, NotYet, UnlistListed, Starting
  <1> QED BY <1>1, <1>2, <1>4, <1>5 DEF Wired

(* A command that is registered for events exists: its handlers go before    *)
(* its last reference does, however cancelling, refusals by the driver, the  *)
(* end of a ranging and events interleave; unless the table of commands has  *)
(* forgotten one.  It rests on no two kinds in use having a key in common.   *)
THEOREM HandlersStayAlive ==
    ASSUME ~({"scan", "full"} \subseteq Kinds)
    PROVE  Spec => []HandlersAlive
  <1>1. TypeOK /\ (Forgotten \/ Wired) => HandlersAlive
    <2> SUFFICES ASSUME TypeOK, Wired, NEW i \in DOMAIN event_cb
                 PROVE  refs[event_cb[i].cmd] > 0
      BY DEF HandlersAlive
    <2>1. event_cb[i] \in Handlers
      BY DEF Handlers
    <2>2. /\ refs[event_cb[i].cmd] >= 1 + InLoop(event_cb[i].cmd)
          /\ refs[event_cb[i].cmd] \in Nat /\ InLoop(event_cb[i].cmd) \in {0, 1}
      BY <2>1, HandlersTyped, Counted DEF Wired, Held
    <2> QED BY <2>2
  <1>2. /\ TypeOK /\ RefsInv /\ HeedInv /\ ListedInv /\ (Forgotten \/ Wired) /\ [Next]_vars
           => ListedInv' /\ (Forgotten' \/ Wired')
    BY ListedKept, WiredKept
  <1>3. /\ Init => ListedInv /\ (Forgotten \/ Wired)
    BY WiredInit
  <1> QED BY <1>1, <1>2, <1>3, HeedAlways, PTL DEF Spec

=============================================================================
