---------------------------- MODULE GpsHalProofs ----------------------------
(***************************************************************************)
(* Proofs about GpsHal, for sockets of any length and any number of        *)
(* restarts of the daemon.                                                 *)
(***************************************************************************)
EXTENDS GpsHal, TLAPS

-----------------------------------------------------------------------------
(* Sockets. *)

LEMMA Empty ==
    ASSUME NEW S
    PROVE  <<>> \in Seq(S) /\ Len(<<>>) = 0 /\ \A x : ~Has(<<>>, x)
  BY DEF Has

(* A datagram that finds room joins a socket of the same type and length. *)
LEMMA AppendType ==
    ASSUME NEW S, NEW q \in Seq(S), NEW m \in S, Room(q)
    PROVE  Append(q, m) \in Seq(S) /\ Len(Append(q, m)) <= QLen
  BY GpsHalAssumption DEF Room, GpsHalAssumption

(* What a sender adds is behind everything else. *)
LEMMA AppendHas ==
    ASSUME NEW S, NEW q \in Seq(S), NEW m \in S
    PROVE  /\ \A x : Has(Append(q, m), x) <=> Has(q, x) \/ x = m
           /\ StartsRevoked(q) /\ m # "START" => StartsRevoked(Append(q, m))
           /\ m = "REBOOT" => StartsRevoked(Append(q, m))
  <1> DEFINE r == Append(q, m)
  <1>1. /\ Len(q) \in Nat /\ Len(r) = Len(q) + 1 /\ r[Len(q) + 1] = m
        /\ \A i \in 1..Len(q) : i \in 1..Len(r) /\ r[i] = q[i]
        /\ \A i \in 1..Len(r) : i \in 1..Len(q) \/ i = Len(q) + 1
    OBVIOUS
  <1> HIDE DEF r
  <1>2. \A x : Has(r, x) <=> Has(q, x) \/ x = m
    BY <1>1 DEF Has
  <1>3. ASSUME StartsRevoked(q), m # "START"
        PROVE  StartsRevoked(r)
    <2> SUFFICES ASSUME NEW i \in 1..Len(r), r[i] = "START"
                 PROVE  \E j \in 1..Len(r) : i < j /\ r[j] = "REBOOT"
      BY DEF StartsRevoked
    <2>1. i \in 1..Len(q) /\ q[i] = "START"
      BY <1>1, <1>3
    <2>2. PICK j \in 1..Len(q) : i < j /\ q[j] = "REBOOT"
      BY <1>3, <2>1 DEF StartsRevoked
    <2> QED BY <1>1, <2>2
  <1>4. m = "REBOOT" => StartsRevoked(r)
    BY <1>1 DEF StartsRevoked
  <1> QED BY <1>2, <1>3, <1>4 DEF r

(* What a reader leaves was there before, in the same order. *)
LEMMA TailHas ==
    ASSUME NEW S, NEW q \in Seq(S), q # <<>>
    PROVE  /\ Head(q) \in S
           /\ Tail(q) \in Seq(S) /\ Len(Tail(q)) = Len(q) - 1
           /\ \A x : Has(Tail(q), x) => Has(q, x)
           /\ \A x : Has(q, x) => x = Head(q) \/ Has(Tail(q), x)
           /\ StartsRevoked(q) => StartsRevoked(Tail(q))
           /\ StartsRevoked(q) /\ Head(q) = "START" => Has(Tail(q), "REBOOT")
           /\ Has(q, Head(q))
  <1> DEFINE r == Tail(q)
  <1>1. /\ Len(q) \in Nat /\ Len(q) >= 1 /\ Head(q) = q[1] /\ Head(q) \in S
        /\ r \in Seq(S) /\ Len(r) = Len(q) - 1
        /\ \A i \in 1..Len(r) : i + 1 \in 1..Len(q) /\ r[i] = q[i + 1]
        /\ \A i \in 1..Len(q) : i = 1 \/ (i - 1 \in 1..Len(r) /\ r[i - 1] = q[i])
    <2>1. Len(q) \in Nat /\ Len(q) >= 1 /\ Head(q) = q[1] /\ Head(q) \in S
      OBVIOUS
    <2>2. r \in Seq(S) /\ Len(r) = Len(q) - 1
      OBVIOUS
    <2>3. \A i \in 1..Len(r) : r[i] = q[i + 1]
      BY <2>2
    <2> HIDE DEF r
    <2>4. \A i \in 1..Len(r) : i + 1 \in 1..Len(q)
      BY <2>1, <2>2
    <2>5. ASSUME NEW i \in 1..Len(q), i # 1
          PROVE  i - 1 \in 1..Len(r) /\ r[i - 1] = q[i]
      <3>1. i - 1 \in 1..Len(r)
        BY <2>1, <2>2, <2>5
      <3> QED BY <2>3, <2>5, <3>1
    <2> QED BY <2>1, <2>2, <2>3, <2>4, <2>5
  <1> HIDE DEF r
  <1>2. ASSUME NEW x
        PROVE  (Has(r, x) => Has(q, x)) /\ (Has(q, x) => x = Head(q) \/ Has(r, x))
    <2>1. ASSUME NEW i \in 1..Len(r), r[i] = x PROVE Has(q, x)
      BY <1>1, <2>1 DEF Has
    <2>2. ASSUME NEW i \in 1..Len(q), q[i] = x PROVE x = Head(q) \/ Has(r, x)
      BY <1>1, <2>2 DEF Has
    <2> QED BY <2>1, <2>2 DEF Has
  <1>3. ASSUME StartsRevoked(q) PROVE StartsRevoked(r)
    <2> SUFFICES ASSUME NEW i \in 1..Len(r), r[i] = "START"
                 PROVE  \E j \in 1..Len(r) : i < j /\ r[j] = "REBOOT"
      BY DEF StartsRevoked
    <2>1. PICK j \in 1..Len(q) : i + 1 < j /\ q[j] = "REBOOT"
      BY <1>1, <1>3 DEF StartsRevoked
    <2>2. j - 1 \in 1..Len(r) /\ r[j - 1] = "REBOOT" /\ i < j - 1
      BY <1>1, <2>1
    <2> QED BY <2>2
  <1>4. ASSUME StartsRevoked(q), Head(q) = "START" PROVE Has(r, "REBOOT")
    <2>1. PICK j \in 1..Len(q) : 1 < j /\ q[j] = "REBOOT"
      BY <1>1, <1>4 DEF StartsRevoked
    <2>2. j - 1 \in 1..Len(r) /\ r[j - 1] = "REBOOT"
      BY <1>1, <2>1
    <2> QED BY <2>2 DEF Has
  <1>5. Has(q, Head(q))
    BY <1>1 DEF Has
  <1> QED BY <1>1, <1>2, <1>3, <1>4, <1>5 DEF r

-----------------------------------------------------------------------------
(* Types. *)

Places  == {"down", "idle", "send", "note", "report"}
ToMnld  == Requests \cup {"REBOOT"}
ToHal   == {"MNLD_REBOOT", "LOCATION"}

ThreadsTyped ==
    /\ at \in [Threads -> Places]
    /\ todo \in [Threads -> Seq(Requests)]
    /\ \A t \in Threads : at[t] \in {"send", "note"} => todo[t] # <<>>

(* A thread that is done with a request goes on to the next or to rest. *)
LEMMA Next1Type ==
    ASSUME TypeOK, NEW t \in Threads, at[t] \in {"send", "note"}, Next1(t)
    PROVE  ThreadsTyped'
  <1>1. todo[t] \in Seq(Requests) /\ todo[t] # <<>>
    BY DEF TypeOK
  <1>2. Tail(todo[t]) \in Seq(Requests) /\ (Len(todo[t]) # 1 => Tail(todo[t]) # <<>>)
    <2>1. Tail(todo[t]) \in Seq(Requests) /\ Len(Tail(todo[t])) = Len(todo[t]) - 1
      BY <1>1, TailHas
    <2>2. Len(todo[t]) \in Nat
      BY <1>1
    <2>3. Len(todo[t]) # 1 => Len(Tail(todo[t])) # 0
      BY <2>1, <2>2
    <2> QED BY <2>1, <2>3, Empty
  <1>3. /\ todo' = [todo EXCEPT ![t] = Tail(todo[t])]
        /\ at' = [at EXCEPT ![t] = IF Len(todo[t]) = 1 THEN "idle" ELSE "send"]
    BY DEF Next1
  <1>4. ThreadsTyped
    BY Zenon DEF TypeOK, ThreadsTyped, Places
  <1>5. at' \in [Threads -> Places] /\ todo' \in [Threads -> Seq(Requests)]
    <2>1. (IF Len(todo[t]) = 1 THEN "idle" ELSE "send") \in Places
      BY DEF Places
    <2> QED BY <1>2, <1>3, <1>4, <2>1, Zenon DEF ThreadsTyped
  <1>6. ASSUME NEW u \in Threads, at'[u] \in {"send", "note"}
        PROVE  todo'[u] # <<>>
    <2>1. CASE u = t
      <3>1. at'[t] = (IF Len(todo[t]) = 1 THEN "idle" ELSE "send") /\ todo'[t] = Tail(todo[t])
        BY <1>3, <1>4 DEF ThreadsTyped
      <3> QED BY <1>2, <1>6, <2>1, <3>1
    <2>2. CASE u # t
      BY <1>3, <1>4, <1>6, <2>2 DEF ThreadsTyped
    <2> QED BY <2>1, <2>2
  <1> QED BY <1>5, <1>6 DEF ThreadsTyped

LEMMA DeliveredType ==
    ASSUME TypeOK, NEW m \in ToMnld, Delivered(m) \/ NotDelivered
    PROVE  hal2mnl' \in Seq(ToMnld) /\ Len(hal2mnl') <= QLen
  <1>1. hal2mnl \in Seq(ToMnld) /\ Len(hal2mnl) <= QLen
    BY DEF TypeOK, ToMnld
  <1> QED BY <1>1, AppendType DEF Delivered, NotDelivered

LEMMA AnnounceType ==
    ASSUME TypeOK, Announce
    PROVE  mnl2hal' \in Seq(ToHal) /\ Len(mnl2hal') <= QLen
  <1>1. mnl2hal \in Seq(ToHal) /\ Len(mnl2hal) <= QLen
    BY DEF TypeOK, ToHal
  <1> QED BY <1>1, AppendType DEF Announce, ToHal

LEMMA ReplayType ==
    ASSUME NEW w \in States
    PROVE  Replay(w) \in Seq(Requests) /\ (w # "START" => ~Has(Replay(w), "START"))
  <1>1. Replay(w) \in {<<"INIT">>, <<"INIT", "START">>, <<>>}
        /\ (w # "START" => Replay(w) \in {<<"INIT">>, <<>>})
    BY DEF Replay
  <1>2. <<"INIT">> \in Seq(Requests) /\ <<"INIT", "START">> \in Seq(Requests)
    BY DEF Requests
  <1>3. ~Has(<<"INIT">>, "START")
    BY DEF Has
  <1> QED BY <1>1, <1>2, <1>3, Empty

LEMMA TypeInit == Init => TypeOK
  <1> SUFFICES ASSUME Init PROVE TypeOK
    OBVIOUS
  <1>1. /\ at \in [Threads -> {"down", "idle", "send", "note", "report"}]
        /\ todo \in [Threads -> Seq(Requests)]
        /\ \A t \in Threads : at[t] \notin {"send", "note"}
    BY Empty DEF Init
  <1>2. QLen >= 0 /\ 0 \in 0..MaxReboots
    BY GpsHalAssumption DEF GpsHalAssumption
  <1> QED BY <1>1, <1>2, Empty DEF Init, TypeOK, States

LEMMA TypeStep == TypeOK /\ [Next]_vars => TypeOK'
  <1> SUFFICES ASSUME TypeOK, [Next]_vars PROVE TypeOK'
    OBVIOUS
  <1> USE DEF halVars, mnldVars
  <1>1. ASSUME NEW t \in Threads, SendRequest(t) PROVE TypeOK'
    <2>1. at[t] = "send" /\ Head(todo[t]) \in Requests
      BY <1>1, TailHas DEF SendRequest, TypeOK
    <2>2. CASE Delivered(Head(todo[t])) /\ at' = [at EXCEPT ![t] = "note"] /\ UNCHANGED todo
      <3>1. ThreadsTyped'
        BY <2>1, <2>2 DEF TypeOK, ThreadsTyped, Places
      <3>2. hal2mnl' \in Seq(ToMnld) /\ Len(hal2mnl') <= QLen
        BY <2>1, <2>2, DeliveredType DEF ToMnld
      <3> QED BY <1>1, <3>1, <3>2 DEF SendRequest, TypeOK, ThreadsTyped, Places, ToMnld
    <2>3. CASE Next1(t) /\ UNCHANGED hal2mnl
      <3>1. ThreadsTyped'
        BY <2>1, <2>3, Next1Type
      <3> QED BY <1>1, <2>3, <3>1 DEF SendRequest, TypeOK, ThreadsTyped, Places
    <2> QED BY <1>1, <2>2, <2>3 DEF SendRequest, NotDelivered
  <1>2. ASSUME NEW t \in Threads, NoteState(t) PROVE TypeOK'
    <2>1. at[t] = "note" /\ Head(todo[t]) \in Requests
      BY <1>2, TailHas DEF NoteState, TypeOK
    <2>2. ThreadsTyped'
      BY <1>2, <2>1, Next1Type DEF NoteState
    <2> QED BY <1>2, <2>1, <2>2 DEF NoteState, TypeOK, ThreadsTyped, Places, States
  <1>3. CASE FrameworkOpen
    <2>1. hal2mnl' \in Seq(ToMnld) /\ Len(hal2mnl') <= QLen
      BY <1>3, DeliveredType DEF FrameworkOpen, ToMnld
    <2> QED BY <1>3, <2>1 DEF FrameworkOpen, TypeOK, ToMnld, Threads
  <1>4. CASE FrameworkResource
    BY <1>4 DEF FrameworkResource, TypeOK, States
  <1>5. ASSUME NEW r \in Requests, FrameworkCall(r) PROVE TypeOK'
    <2>1. <<r>> \in Seq(Requests) /\ <<r>> # <<>>
      OBVIOUS
    <2>2. asked' \in BOOLEAN /\ overlap' \in BOOLEAN
      BY <1>5 DEF FrameworkCall
    <2>3. intent' \in States /\ UNCHANGED <<state, hal2mnl, mnl2hal, mnldVars>>
      BY <1>5 DEF FrameworkCall, States
    <2>4. ThreadsTyped'
      BY <1>5, <2>1 DEF FrameworkCall, TypeOK, ThreadsTyped, Places, Threads
    <2> QED BY <2>2, <2>3, <2>4 DEF TypeOK, ThreadsTyped, Places
  <1>6. CASE FrameworkCrash
    <2>1. /\ at' \in [Threads -> {"down", "idle", "send", "note", "report"}]
          /\ todo' \in [Threads -> Seq(Requests)]
          /\ \A t \in Threads : at'[t] \notin {"send", "note"}
      BY <1>6, Empty DEF FrameworkCrash
    <2>2. QLen >= 0
      BY GpsHalAssumption DEF GpsHalAssumption
    <2> QED BY <1>6, <2>1, <2>2, Empty DEF FrameworkCrash, TypeOK, States
  <1>7. CASE WorkerReboot
    <2>1. mnl2hal' \in Seq(ToHal) /\ Len(mnl2hal') <= QLen
      BY <1>7, TailHas, GpsHalAssumption DEF WorkerReboot, TypeOK, ToHal, GpsHalAssumption
    <2>2. ThreadsTyped'
      BY <1>7, ReplayType, Empty DEF WorkerReboot, TypeOK, ThreadsTyped, Places, Threads
    <2> QED BY <1>7, <2>1, <2>2 DEF WorkerReboot, TypeOK, ThreadsTyped, Places, ToHal
  <1>8. CASE WorkerLocation
    <2>1. mnl2hal' \in Seq(ToHal) /\ Len(mnl2hal') <= QLen
      BY <1>8, TailHas, GpsHalAssumption DEF WorkerLocation, TypeOK, ToHal, GpsHalAssumption
    <2> QED BY <1>8, <2>1 DEF WorkerLocation, TypeOK, ToHal, Threads
  <1>9. CASE WorkerReport
    BY <1>9 DEF WorkerReport, TypeOK, Threads
  <1>10. CASE MnldRecv
    <2>1. hal2mnl' \in Seq(ToMnld) /\ Len(hal2mnl') <= QLen
      BY <1>10, TailHas, GpsHalAssumption DEF MnldRecv, TypeOK, ToMnld, GpsHalAssumption
    <2>2. used' \in BOOLEAN
      BY <1>10 DEF MnldRecv, UsedAfter
    <2> QED BY <1>10, <2>1, <2>2 DEF MnldRecv, TypeOK, ToMnld
  <1>11. CASE MnldCrash
    <2>1. QLen >= 0 /\ reboots' \in 0..MaxReboots
      BY <1>11, GpsHalAssumption DEF MnldCrash, TypeOK, GpsHalAssumption
    <2> QED BY <1>11, <2>1, Empty DEF MnldCrash, TypeOK
  <1>12. CASE MnldRestart
    BY <1>12 DEF MnldRestart, TypeOK
  <1>13. CASE MnldAnnounce
    BY <1>13, AnnounceType DEF MnldAnnounce, TypeOK, ToHal
  <1>14. CASE MnldNmeaTimeout
    <2>1. reboots' \in 0..MaxReboots
      BY <1>14, GpsHalAssumption DEF MnldNmeaTimeout, TypeOK, GpsHalAssumption
    <2> QED BY <1>14, <2>1, AnnounceType DEF MnldNmeaTimeout, TypeOK, ToHal
  <1>15. CASE MnldLocation
    BY <1>15, AppendType DEF MnldLocation, TypeOK
  <1>16. CASE UNCHANGED vars
    BY <1>16 DEF vars, TypeOK
  <1> QED
    BY <1>1, <1>2, <1>3, <1>4, <1>5, <1>6, <1>7, <1>8, <1>9, <1>10, <1>11, <1>12, <1>13,
       <1>14, <1>15, <1>16 DEF Next, Framework, Worker, Threads

(* The HAL's variables keep their types, and its sockets their bounds. *)
THEOREM HalTypeCorrect == Spec => []TypeOK
  BY TypeInit, TypeStep, PTL DEF Spec

-----------------------------------------------------------------------------
(* No session without a request.  A datagram that nobody drops is delivered, *)
(* unless the daemon is down and has nothing to forget.                      *)

RequestInv == TypeOK /\ OnlyOnRequest /\ NothingUnasked

(* A session and the socket stay in order when nothing is added to it, or    *)
(* something that is not a start.                                            *)
SessionInOrder == (used => Has(hal2mnl, "REBOOT")) /\ StartsRevoked(hal2mnl)

LEMMA EmptyInOrder == StartsRevoked(<<>>)
  BY DEF StartsRevoked

LEMMA SentInOrder ==
    ASSUME TypeOK, SessionInOrder, NEW m \in ToMnld, m # "START",
           Delivered(m) \/ NotDelivered, UNCHANGED used
    PROVE  SessionInOrder'
  <1>1. CASE Delivered(m)
    <2>1. hal2mnl' = Append(hal2mnl, m)
      BY <1>1 DEF Delivered
    <2>2. /\ Has(hal2mnl, "REBOOT") => Has(hal2mnl', "REBOOT")
          /\ StartsRevoked(hal2mnl')
      BY <2>1, AppendHas DEF TypeOK, ToMnld, SessionInOrder
    <2> QED BY <2>2 DEF SessionInOrder
  <1>2. CASE NotDelivered
    BY <1>2 DEF NotDelivered, SessionInOrder
  <1> QED BY <1>1, <1>2

LEMMA ReceivedInOrder ==
    ASSUME TypeOK, SessionInOrder, MnldRecv
    PROVE  SessionInOrder'
  <1>1. /\ hal2mnl # <<>> /\ hal2mnl \in Seq(ToMnld)
        /\ hal2mnl' = Tail(hal2mnl)
        /\ used' = UsedAfter(Head(hal2mnl))
    BY DEF MnldRecv, TypeOK, ToMnld
  <1>2. StartsRevoked(hal2mnl')
    BY <1>1, TailHas DEF SessionInOrder
  <1>3. CASE Head(hal2mnl) = "START"
    BY <1>1, <1>2, <1>3, TailHas DEF SessionInOrder
  <1>4. CASE Head(hal2mnl) # "START"
    <2>1. used' => used /\ Head(hal2mnl) # "REBOOT"
      BY <1>1, <1>4 DEF UsedAfter
    <2>2. used' => Has(hal2mnl', "REBOOT")
      BY <1>1, <2>1, TailHas DEF SessionInOrder
    <2> QED BY <1>2, <2>2 DEF SessionInOrder
  <1> QED BY <1>3, <1>4

(* What a thread still has to send after a request was there before. *)
LEMMA Next1Unasked ==
    ASSUME TypeOK, NothingUnasked, NEW t \in Threads, at[t] \in {"send", "note"}, Next1(t),
           ~asked
    PROVE  /\ \A u \in Threads : ~Has(todo'[u], "START")
           /\ at'["framework"] = "down" <=> at["framework"] = "down"
           /\ \A u \in Threads : at[u] = "idle" => at'[u] = "idle"
  <1>1. todo[t] \in Seq(Requests) /\ todo[t] # <<>> /\ ~Has(todo[t], "START")
    BY DEF TypeOK, NothingUnasked
  <1>2. ~Has(Tail(todo[t]), "START")
    BY <1>1, TailHas
  <1>3. /\ todo' = [todo EXCEPT ![t] = Tail(todo[t])]
        /\ at' = [at EXCEPT ![t] = IF Len(todo[t]) = 1 THEN "idle" ELSE "send"]
    BY DEF Next1
  <1> QED BY <1>2, <1>3 DEF TypeOK, NothingUnasked

LEMMA RequestInit == Init => OnlyOnRequest /\ NothingUnasked
  BY Empty, EmptyInOrder DEF Init, OnlyOnRequest, NothingUnasked, Threads

(* A request is sent or not: the socket stays in order. *)
LEMMA SendUnasked ==
    ASSUME RequestInv, NEW t \in Threads, SendRequest(t)
    PROVE  OnlyOnRequest' /\ NothingUnasked'
  <1>1. /\ at[t] = "send" /\ Head(todo[t]) \in Requests
        /\ ~asked => Head(todo[t]) # "START"
    BY TailHas DEF SendRequest, RequestInv, TypeOK, NothingUnasked
  <1>2. UNCHANGED <<asked, intent, state, mnld, used>>
    BY DEF SendRequest, mnldVars
  <1>3. at[t] # "down" /\ at[t] # "idle"
    BY <1>1
  <1>4. asked => at'["framework"] # "down"
    <2>1. at["framework"] # "down" \/ ~asked
      BY DEF RequestInv, NothingUnasked
    <2> QED BY <2>1 DEF SendRequest, Next1, RequestInv, TypeOK, Threads
  <1>5. mnld' = "down" => ~used' /\ hal2mnl' = <<>>
    BY <1>2 DEF SendRequest, Delivered, NotDelivered, RequestInv, NothingUnasked
  <1>6. CASE asked
    BY <1>2, <1>4, <1>5, <1>6 DEF OnlyOnRequest, NothingUnasked
  <1>7. CASE ~asked
    <2>1. /\ \A u \in Threads : ~Has(todo'[u], "START")
          /\ at'["framework"] = "down" <=> at["framework"] = "down"
          /\ \A u \in Threads : at[u] = "idle" => at'[u] = "idle"
      <3>1. CASE at' = [at EXCEPT ![t] = "note"] /\ UNCHANGED todo
        BY <1>3, <1>7, <3>1 DEF RequestInv, TypeOK, NothingUnasked, Threads
      <3>2. CASE Next1(t)
        BY <1>1, <1>7, <3>2, Next1Unasked DEF RequestInv
      <3> QED BY <3>1, <3>2 DEF SendRequest
    <2>2. intent # "START" /\ (at["framework"] = "down" => at["worker"] = "idle" /\ state = "UNKNOWN")
      BY <1>7 DEF RequestInv, NothingUnasked
    <2>3. NothingUnasked'
      BY <1>2, <1>5, <1>7, <2>1, <2>2 DEF NothingUnasked, Threads
    <2>4. ASSUME at["framework"] # "down" PROVE SessionInOrder'
      <3>1. SessionInOrder
        BY <1>7, <2>4 DEF RequestInv, OnlyOnRequest, SessionInOrder
      <3>2. Head(todo[t]) \in ToMnld /\ Head(todo[t]) # "START"
        BY <1>1, <1>7 DEF ToMnld
      <3>3. CASE Delivered(Head(todo[t])) \/ NotDelivered
        BY <1>2, <3>1, <3>2, <3>3, SentInOrder DEF RequestInv
      <3>4. CASE UNCHANGED hal2mnl
        BY <1>2, <3>1, <3>4 DEF SessionInOrder
      <3> QED BY <3>3, <3>4 DEF SendRequest
    <2> QED BY <2>1, <2>3, <2>4 DEF OnlyOnRequest, SessionInOrder
  <1> QED BY <1>6, <1>7

LEMMA NoteUnasked ==
    ASSUME RequestInv, NEW t \in Threads, NoteState(t)
    PROVE  OnlyOnRequest' /\ NothingUnasked'
  <1>1. at[t] = "note" /\ Next1(t) /\ UNCHANGED <<asked, intent, hal2mnl, mnld, used>>
    BY DEF NoteState, mnldVars
  <1>2. CASE asked
    <2>1. at'["framework"] # "down"
      BY <1>1, <1>2 DEF Next1, RequestInv, TypeOK, NothingUnasked, Threads
    <2> QED BY <1>1, <1>2, <2>1 DEF RequestInv, OnlyOnRequest, NothingUnasked
  <1>3. CASE ~asked
    <2>1. /\ \A u \in Threads : ~Has(todo'[u], "START")
          /\ at'["framework"] = "down" <=> at["framework"] = "down"
          /\ \A u \in Threads : at[u] = "idle" => at'[u] = "idle"
      BY <1>1, <1>3, Next1Unasked DEF RequestInv
    <2>2. at["framework"] # "down"
      BY <1>1 DEF RequestInv, NothingUnasked, Threads
    <2> QED BY <1>1, <1>3, <2>1, <2>2 DEF RequestInv, OnlyOnRequest, NothingUnasked
  <1> QED BY <1>2, <1>3

(* The daemon's own steps leave the HAL alone. *)
LEMMA MnldUnasked ==
    ASSUME RequestInv,
           MnldRecv \/ MnldCrash \/ MnldRestart \/ MnldAnnounce \/ MnldNmeaTimeout \/ MnldLocation
    PROVE  OnlyOnRequest' /\ NothingUnasked'
  <1>1. UNCHANGED <<asked, intent, state, at, todo>>
    BY DEF MnldRecv, MnldCrash, MnldRestart, MnldAnnounce, MnldNmeaTimeout, MnldLocation, halVars
  <1>2. NothingUnasked'
    <2>1. mnld' = "down" => ~used' /\ hal2mnl' = <<>>
      BY DEF MnldRecv, MnldCrash, MnldRestart, MnldAnnounce, MnldNmeaTimeout, MnldLocation,
             mnldVars, RequestInv, NothingUnasked
    <2> QED BY <1>1, <2>1 DEF RequestInv, NothingUnasked
  <1>3. SessionInOrder => SessionInOrder'
    <2>1. CASE MnldRecv
      BY <2>1, ReceivedInOrder DEF RequestInv
    <2>2. CASE MnldCrash
      BY <2>2, EmptyInOrder DEF MnldCrash, SessionInOrder
    <2>3. CASE MnldRestart \/ MnldAnnounce \/ MnldNmeaTimeout \/ MnldLocation
      BY <2>3 DEF MnldRestart, MnldAnnounce, MnldNmeaTimeout, MnldLocation, mnldVars, SessionInOrder
    <2> QED BY <2>1, <2>2, <2>3
  <1> QED BY <1>1, <1>2, <1>3 DEF RequestInv, OnlyOnRequest, SessionInOrder

LEMMA RequestStep ==
    ASSUME "lost" \notin Faults, RequestInv, [Next]_vars
    PROVE  OnlyOnRequest' /\ NothingUnasked'
  <1>1. ASSUME NEW t \in Threads, SendRequest(t) PROVE OnlyOnRequest' /\ NothingUnasked'
    BY <1>1, SendUnasked
  <1>2. ASSUME NEW t \in Threads, NoteState(t) PROVE OnlyOnRequest' /\ NothingUnasked'
    BY <1>2, NoteUnasked
  <1>3. CASE FrameworkOpen
    <2>1. /\ UNCHANGED <<asked, intent, state, todo, mnld, used>> /\ ~asked
          /\ at' = [at EXCEPT !["framework"] = "idle"]
      BY <1>3 DEF FrameworkOpen, mnldVars, RequestInv, NothingUnasked
    <2>2. SessionInOrder'
      <3>1. CASE Delivered("REBOOT")
        <4>1. hal2mnl' = Append(hal2mnl, "REBOOT")
          BY <3>1 DEF Delivered
        <4> QED BY <4>1, AppendHas DEF SessionInOrder, RequestInv, TypeOK
      <3>2. CASE NotDelivered
        BY <2>1, <3>2, EmptyInOrder DEF NotDelivered, RequestInv, NothingUnasked, SessionInOrder
      <3> QED BY <1>3, <3>1, <3>2 DEF FrameworkOpen
    <2>3. mnld' = "down" => ~used' /\ hal2mnl' = <<>>
      BY <1>3, <2>1 DEF FrameworkOpen, Delivered, NotDelivered, RequestInv, NothingUnasked
    <2> QED BY <2>1, <2>2, <2>3
            DEF RequestInv, TypeOK, OnlyOnRequest, NothingUnasked, SessionInOrder, Threads
  <1>4. CASE FrameworkResource
    BY <1>4 DEF FrameworkResource, mnldVars, RequestInv, OnlyOnRequest, NothingUnasked
  <1>5. ASSUME NEW r \in Requests, FrameworkCall(r) PROVE OnlyOnRequest' /\ NothingUnasked'
    <2>1. /\ at["framework"] = "idle" /\ at' = [at EXCEPT !["framework"] = "send"]
          /\ intent' = r /\ asked' = (asked \/ r = "START")
          /\ todo' = [todo EXCEPT !["framework"] = <<r>>]
          /\ UNCHANGED <<hal2mnl, mnld, used>>
      BY <1>5 DEF FrameworkCall, mnldVars
    <2>2. at'["framework"] # "down"
      BY <2>1 DEF RequestInv, TypeOK, Threads
    <2>3. ~asked' => r # "START" /\ ~asked
      BY <2>1
    <2>4. ~asked' => \A t \in Threads : ~Has(todo'[t], "START")
      BY <2>1, <2>3 DEF RequestInv, TypeOK, NothingUnasked, Has, Threads
    <2> QED BY <2>1, <2>2, <2>3, <2>4 DEF RequestInv, OnlyOnRequest, NothingUnasked
  <1>6. CASE FrameworkCrash
    BY <1>6, Empty DEF FrameworkCrash, mnldVars, RequestInv, OnlyOnRequest, NothingUnasked, Threads
  <1>7. CASE WorkerReboot
    <2>1. /\ UNCHANGED <<asked, intent, state, hal2mnl, mnld, used>> /\ Bound
          /\ todo' = [todo EXCEPT !["worker"] = Replay(intent)]
          /\ at'["framework"] = at["framework"]
      BY <1>7 DEF WorkerReboot, mnldVars, RequestInv, TypeOK, Threads
    <2>2. ~asked => \A t \in Threads : ~Has(todo'[t], "START")
      BY <2>1, ReplayType DEF RequestInv, TypeOK, NothingUnasked
    <2>3. at["framework"] = "down" => at'["worker"] = "idle"
      BY <2>1 DEF RequestInv, NothingUnasked, Bound
    <2> QED BY <2>1, <2>2, <2>3 DEF RequestInv, OnlyOnRequest, NothingUnasked
  <1>8. CASE WorkerLocation
    <2>1. /\ UNCHANGED <<asked, intent, state, hal2mnl, mnld, used, todo>>
          /\ at'["framework"] = at["framework"]
          /\ intent # "START" => at'["worker"] = "idle"
      BY <1>8 DEF WorkerLocation, mnldVars, RequestInv, TypeOK, Threads
    <2> QED BY <2>1 DEF RequestInv, OnlyOnRequest, NothingUnasked
  <1>9. CASE WorkerReport
    <2>1. /\ UNCHANGED <<asked, intent, state, hal2mnl, mnld, used, todo>>
          /\ at'["framework"] = at["framework"]
          /\ at'["worker"] = "idle"
      BY <1>9 DEF WorkerReport, mnldVars, RequestInv, TypeOK, Threads
    <2> QED BY <2>1 DEF RequestInv, OnlyOnRequest, NothingUnasked
  <1>10. CASE MnldRecv \/ MnldCrash \/ MnldRestart \/ MnldAnnounce \/ MnldNmeaTimeout \/ MnldLocation
    BY <1>10, MnldUnasked
  <1>11. CASE UNCHANGED vars
    BY <1>11 DEF vars, halVars, mnldVars, RequestInv, OnlyOnRequest, NothingUnasked
  <1> QED
    BY <1>1, <1>2, <1>3, <1>4, <1>5, <1>6, <1>7, <1>8, <1>9, <1>10, <1>11
       DEF Next, Framework, Worker, Threads

(* The receiver is never on for a framework that has not asked for it, as    *)
(* long as no datagram is dropped: hal2mnl_hal_reboot() reaches the daemon   *)
(* before anything a restarted framework sends.                              *)
THEOREM HalOnlyOnRequest ==
    ASSUME "lost" \notin Faults PROVE Spec => []OnlyOnRequest
  <1>1. RequestInv /\ [Next]_vars => RequestInv'
    BY RequestStep, TypeStep DEF RequestInv
  <1>2. Init => RequestInv
    BY TypeInit, RequestInit DEF RequestInv
  <1>3. RequestInv => OnlyOnRequest
    BY DEF RequestInv
  <1> QED BY <1>1, <1>2, <1>3, PTL DEF Spec

-----------------------------------------------------------------------------
(* The wish.  What the socket holds decides whether there will be a session  *)
(* when the daemon has read it.                                              *)

Ends == {"STOP", "REBOOT"}

On(q, u) ==
    \/ \E i \in 1..Len(q) : q[i] = "START" /\ \A j \in (i + 1)..Len(q) : q[j] \notin Ends
    \/ u /\ \A j \in 1..Len(q) : q[j] \notin Ends

Will == On(hal2mnl, used)

LEMMA OnEmpty == ASSUME NEW u \in BOOLEAN PROVE On(<<>>, u) <=> u
  BY DEF On

(* The last start or end decides. *)
LEMMA OnAppend ==
    ASSUME NEW S, NEW q \in Seq(S), NEW m \in S, NEW u \in BOOLEAN
    PROVE  /\ m = "START" => On(Append(q, m), u)
           /\ m \in Ends => ~On(Append(q, m), u)
           /\ m # "START" /\ m \notin Ends => (On(Append(q, m), u) <=> On(q, u))
  <1> DEFINE r == Append(q, m)
  <1>1. /\ Len(q) \in Nat /\ Len(r) = Len(q) + 1 /\ r[Len(q) + 1] = m
        /\ \A i \in 1..Len(q) : i \in 1..Len(r) /\ r[i] = q[i]
        /\ \A i \in 1..Len(r) : i \in 1..Len(q) \/ i = Len(q) + 1
    OBVIOUS
  <1> HIDE DEF r
  <1>2. m = "START" => On(r, u)
    BY <1>1 DEF On
  <1>3. m \in Ends => ~On(r, u)
    BY <1>1 DEF On, Ends
  <1>4. ASSUME m # "START", m \notin Ends
        PROVE  On(r, u) <=> On(q, u)
    BY <1>1, <1>4 DEF On
  <1> QED BY <1>2, <1>3, <1>4 DEF r

(* Reading a request does to the daemon what the socket said it would. *)
LEMMA OnTail ==
    ASSUME NEW S, NEW q \in Seq(S), q # <<>>, NEW u \in BOOLEAN, NEW v \in BOOLEAN,
           v <=> Head(q) = "START" \/ (u /\ Head(q) \notin Ends)
    PROVE  On(Tail(q), v) <=> On(q, u)
  <1> DEFINE r == Tail(q)
  <1>1. /\ Len(q) \in Nat /\ Len(q) >= 1 /\ Head(q) = q[1]
        /\ Len(r) = Len(q) - 1
        /\ \A i \in 1..Len(r) : i + 1 \in 1..Len(q) /\ r[i] = q[i + 1]
        /\ \A i \in 1..Len(q) : i = 1 \/ (i - 1 \in 1..Len(r) /\ r[i - 1] = q[i])
    OBVIOUS
  <1> HIDE DEF r
  <1>2. ASSUME On(q, u) PROVE On(r, v)
    <2>1. CASE u /\ \A j \in 1..Len(q) : q[j] \notin Ends
      BY <1>1, <2>1 DEF On
    <2>2. ASSUME NEW i \in 1..Len(q), q[i] = "START",
                 \A j \in (i + 1)..Len(q) : q[j] \notin Ends
          PROVE  On(r, v)
      <3>1. CASE i = 1
        <4>1. \A j \in 1..Len(r) : r[j] \notin Ends
          BY <1>1, <2>2, <3>1
        <4> QED BY <1>1, <2>2, <3>1, <4>1 DEF On
      <3>2. CASE i # 1
        <4>1. i - 1 \in 1..Len(r) /\ r[i - 1] = "START"
          BY <1>1, <2>2, <3>2
        <4>2. \A j \in ((i - 1) + 1)..Len(r) : r[j] \notin Ends
          BY <1>1, <2>2
        <4> QED BY <4>1, <4>2 DEF On
      <3> QED BY <3>1, <3>2
    <2> QED BY <1>2, <2>1, <2>2 DEF On
  <1>3. ASSUME On(r, v) PROVE On(q, u)
    <2>1. CASE v /\ \A j \in 1..Len(r) : r[j] \notin Ends
      <3>1. \A j \in 2..Len(q) : q[j] \notin Ends
        BY <1>1, <2>1
      <3>2. CASE Head(q) = "START"
        <4>1. 1 \in 1..Len(q) /\ q[1] = "START" /\ \A j \in (1 + 1)..Len(q) : q[j] \notin Ends
          BY <1>1, <3>1, <3>2
        <4> QED BY <4>1 DEF On
      <3>3. CASE u /\ Head(q) \notin Ends
        <4>1. \A j \in 1..Len(q) : q[j] \notin Ends
          BY <1>1, <3>1, <3>3
        <4> QED BY <3>3, <4>1 DEF On
      <3> QED BY <2>1, <3>2, <3>3
    <2>2. ASSUME NEW i \in 1..Len(r), r[i] = "START",
                 \A j \in (i + 1)..Len(r) : r[j] \notin Ends
          PROVE  On(q, u)
      <3>1. i + 1 \in 1..Len(q) /\ q[i + 1] = "START"
        BY <1>1, <2>2
      <3>2. \A j \in ((i + 1) + 1)..Len(q) : q[j] \notin Ends
        BY <1>1, <2>2
      <3> QED BY <3>1, <3>2 DEF On
    <2> QED BY <1>3, <2>1, <2>2 DEF On
  <1> QED BY <1>2, <1>3 DEF r

LEMMA RevokedIsOff ==
    ASSUME NEW S, NEW q \in Seq(S), NEW u \in BOOLEAN, StartsRevoked(q), u => Has(q, "REBOOT")
    PROVE  ~On(q, u)
  BY DEF On, Ends, StartsRevoked, Has

(* The two threads: what one still has to send, when, and for whom.          *)
ThreadsFit ==
    /\ \A t \in Threads : at[t] \notin {"send", "note"} => todo[t] = <<>>
    /\ \A t \in Threads : at[t] = "note" => Bound
    /\ at["framework"] \in {"send", "note"} => todo["framework"] = <<intent>>
    /\ ~Has(todo["worker"], "STOP")
    /\ intent = "UNKNOWN" => ~asked

(* The worker is about to send a start. *)
StartPending ==
    \/ at["worker"] = "send" /\ Has(todo["worker"], "START")
    \/ at["worker"] = "note" /\ Has(Tail(todo["worker"]), "START")

RepairDue == mnld # "up" \/ Has(mnl2hal, "MNLD_REBOOT")

(* A session that will be there is wanted, unless its end is about to be     *)
(* sent; a session that is wanted will be there, or is about to be.          *)
SessionIsWanted ==
    /\ Will => intent = "START" \/ (intent = "STOP" /\ at["framework"] = "send")
    /\ Has(todo["worker"], "START") => intent = "START"
WantedIsSession ==
    intent = "START" => Will \/ at["framework"] = "send" \/ StartPending \/ RepairDue

WishKept == Bound /\ ~overlap => SessionIsWanted /\ WantedIsSession

WishInv == RequestInv /\ ThreadsFit /\ WishKept

LEMMA ReplayNoStop == ASSUME NEW w \in States PROVE ~Has(Replay(w), "STOP")
  <1>1. Replay(w) \in {<<"INIT">>, <<"INIT", "START">>, <<>>}
    BY DEF Replay
  <1>2. ~Has(<<"INIT">>, "STOP") /\ ~Has(<<"INIT", "START">>, "STOP") /\ ~Has(<<>>, "STOP")
    BY DEF Has
  <1> QED BY <1>1, <1>2

LEMMA ReplayStart == Has(Replay("START"), "START") /\ Replay("START") # <<>>
  <1>1. Replay("START") = <<"INIT", "START">>
    BY DEF Replay
  <1>2. Len(<<"INIT", "START">>) = 2 /\ <<"INIT", "START">>[2] = "START"
    OBVIOUS
  <1> QED BY <1>1, <1>2 DEF Has

LEMMA NothingLeft ==
    ASSUME NEW S, NEW q \in Seq(S), q # <<>>
    PROVE  Len(q) = 1 <=> Tail(q) = <<>>
  <1>1. Tail(q) \in Seq(S) /\ Len(Tail(q)) = Len(q) - 1 /\ Len(q) \in Nat
    BY TailHas
  <1>2. ASSUME Len(q) = 1 PROVE Tail(q) = <<>>
    <2>1. PICK r \in Seq(S) : r = Tail(q)
      BY <1>1
    <2>2. Len(r) = 0
      BY <1>1, <1>2, <2>1
    <2>3. r = <<>>
      BY <2>2
    <2> QED BY <2>1, <2>3
  <1>3. Tail(q) = <<>> => Len(q) = 1
    BY <1>1, Empty
  <1> QED BY <1>2, <1>3

(* What Next1() does, in the terms of the two threads. *)
LEMMA Next1Facts ==
    ASSUME TypeOK, ThreadsFit, NEW t \in Threads, at[t] \in {"send", "note"}, Next1(t)
    PROVE  /\ at'[t] = IF Len(todo[t]) = 1 THEN "idle" ELSE "send"
           /\ todo'[t] = Tail(todo[t])
           /\ \A u \in Threads \ {t} : at'[u] = at[u] /\ todo'[u] = todo[u]
           /\ todo[t] \in Seq(Requests) /\ todo[t] # <<>>
           /\ Len(todo[t]) = 1 <=> Tail(todo[t]) = <<>>
           /\ t = "framework" => Len(todo[t]) = 1
  <1>1. todo[t] \in Seq(Requests) /\ todo[t] # <<>>
    BY DEF TypeOK
  <1>2. Len(todo[t]) = 1 <=> Tail(todo[t]) = <<>>
    BY <1>1, NothingLeft
  <1>3. t = "framework" => Len(todo[t]) = 1
    <2>1. t = "framework" => todo[t] = <<intent>>
      BY DEF ThreadsFit
    <2>2. Len(<<intent>>) = 1
      OBVIOUS
    <2> QED BY <2>1, <2>2
  <1>4. /\ todo' = [todo EXCEPT ![t] = Tail(todo[t])]
        /\ at' = [at EXCEPT ![t] = IF Len(todo[t]) = 1 THEN "idle" ELSE "send"]
    BY DEF Next1
  <1> QED BY <1>1, <1>2, <1>3, <1>4 DEF TypeOK

LEMMA Next1Fits ==
    ASSUME TypeOK, ThreadsFit, NEW t \in Threads, at[t] \in {"send", "note"}, Next1(t),
           UNCHANGED <<intent, asked>>, Bound => Bound'
    PROVE  ThreadsFit'
  <1>1. /\ at'[t] = IF Len(todo[t]) = 1 THEN "idle" ELSE "send"
        /\ todo'[t] = Tail(todo[t])
        /\ \A u \in Threads \ {t} : at'[u] = at[u] /\ todo'[u] = todo[u]
        /\ todo[t] \in Seq(Requests) /\ todo[t] # <<>>
        /\ Len(todo[t]) = 1 <=> Tail(todo[t]) = <<>>
        /\ t = "framework" => Len(todo[t]) = 1
    BY Next1Facts
  <1>2. \A u \in Threads : at'[u] \notin {"send", "note"} => todo'[u] = <<>>
    BY <1>1 DEF ThreadsFit
  <1>3. \A u \in Threads : at'[u] = "note" => Bound'
    BY <1>1 DEF ThreadsFit
  <1>4. at'["framework"] \in {"send", "note"} => todo'["framework"] = <<intent>>
    BY <1>1 DEF ThreadsFit, Threads
  <1>5. ~Has(todo'["worker"], "STOP")
    BY <1>1, TailHas DEF ThreadsFit, Threads
  <1> QED BY <1>2, <1>3, <1>4, <1>5 DEF ThreadsFit

LEMMA FitInit == Init => ThreadsFit
  BY Empty DEF Init, ThreadsFit, Threads

LEMMA FitStep == TypeOK /\ ThreadsFit /\ NothingUnasked /\ [Next]_vars => ThreadsFit'
  <1> SUFFICES ASSUME TypeOK, ThreadsFit, NothingUnasked, [Next]_vars PROVE ThreadsFit'
    OBVIOUS
  <1>1. ASSUME NEW t \in Threads, SendRequest(t) PROVE ThreadsFit'
    <2>1. at[t] = "send" /\ UNCHANGED <<intent, asked, state>>
      BY <1>1 DEF SendRequest
    <2>2. CASE Bound /\ at' = [at EXCEPT ![t] = "note"] /\ UNCHANGED todo
      <3>1. at'[t] = "note" /\ \A u \in Threads \ {t} : at'[u] = at[u]
        BY <2>2 DEF TypeOK
      <3> QED BY <2>1, <2>2, <3>1 DEF ThreadsFit, Threads, Bound
    <2>3. CASE Next1(t)
      BY <2>1, <2>3, Next1Fits DEF Bound
    <2> QED BY <1>1, <2>2, <2>3 DEF SendRequest
  <1>2. ASSUME NEW t \in Threads, NoteState(t) PROVE ThreadsFit'
    <2>1. at[t] = "note" /\ Next1(t) /\ UNCHANGED <<intent, asked>> /\ Head(todo[t]) \in Requests
      BY <1>2, TailHas DEF NoteState, TypeOK
    <2>2. Bound'
      BY <1>2, <2>1 DEF NoteState, Bound, Requests
    <2> QED BY <2>1, <2>2, Next1Fits
  <1>3. CASE FrameworkOpen
    BY <1>3 DEF FrameworkOpen, ThreadsFit, TypeOK, Threads, Bound
  <1>4. CASE FrameworkResource
    BY <1>4 DEF FrameworkResource, ThreadsFit, Bound
  <1>5. ASSUME NEW r \in Requests, FrameworkCall(r) PROVE ThreadsFit'
    <2>1. /\ at'["framework"] = "send" /\ todo'["framework"] = <<r>> /\ intent' = r
          /\ at'["worker"] = at["worker"] /\ todo'["worker"] = todo["worker"]
          /\ state' = state /\ r # "UNKNOWN"
      BY <1>5 DEF FrameworkCall, TypeOK, Threads, Requests
    <2> QED BY <2>1 DEF ThreadsFit, Threads, Bound
  <1>6. CASE FrameworkCrash
    BY <1>6, Empty DEF FrameworkCrash, ThreadsFit, Threads
  <1>7. CASE WorkerReboot
    <2>1. /\ at'["framework"] = at["framework"] /\ todo'["framework"] = todo["framework"]
          /\ at'["worker"] = IF Replay(intent) = <<>> THEN "idle" ELSE "send"
          /\ todo'["worker"] = Replay(intent)
          /\ UNCHANGED <<intent, asked, state>>
      BY <1>7 DEF WorkerReboot, TypeOK, Threads
    <2>2. ~Has(Replay(intent), "STOP")
      BY ReplayNoStop DEF TypeOK
    <2> QED BY <2>1, <2>2 DEF ThreadsFit, Threads, Bound
  <1>8. CASE WorkerLocation \/ WorkerReport
    <2>1. /\ at'["framework"] = at["framework"]
          /\ at'["worker"] \in {"idle", "report"} /\ at["worker"] \in {"idle", "report"}
          /\ UNCHANGED <<intent, asked, state, todo>>
      BY <1>8 DEF WorkerLocation, WorkerReport, TypeOK, Threads
    <2> QED BY <2>1 DEF ThreadsFit, Threads, Bound
  <1>9. CASE UNCHANGED halVars
    BY <1>9 DEF halVars, ThreadsFit, Bound
  <1> QED
    BY <1>1, <1>2, <1>3, <1>4, <1>5, <1>6, <1>7, <1>8, <1>9
       DEF Next, Framework, Worker, Threads, vars, MnldRecv, MnldCrash, MnldRestart,
           MnldAnnounce, MnldNmeaTimeout, MnldLocation

-----------------------------------------------------------------------------
(* Every step keeps the wish. *)

(* A request that joins the socket. *)
LEMMA DeliveredWill ==
    ASSUME TypeOK, NEW m \in Requests, Delivered(m), UNCHANGED used
    PROVE  /\ m = "START" => Will'
           /\ m = "STOP" => ~Will'
           /\ m \notin {"START", "STOP"} => (Will' <=> Will)
  <1>1. /\ hal2mnl \in Seq(ToMnld) /\ m \in ToMnld /\ used \in BOOLEAN
        /\ hal2mnl' = Append(hal2mnl, m)
    BY DEF TypeOK, ToMnld, Delivered
  <1>2. m \in Ends <=> m = "STOP"
    BY DEF Ends, Requests
  <1>3. /\ m = "START" => On(hal2mnl', used)
        /\ m \in Ends => ~On(hal2mnl', used)
        /\ m # "START" /\ m \notin Ends => (On(hal2mnl', used) <=> On(hal2mnl, used))
    BY <1>1, OnAppend
  <1> QED BY <1>2, <1>3 DEF Will

LEMMA SendKeepsWish ==
    ASSUME "lost" \notin Faults, WishInv, NEW t \in Threads, SendRequest(t)
    PROVE  WishKept'
  <1> SUFFICES ASSUME Bound', ~overlap' PROVE SessionIsWanted' /\ WantedIsSession'
    BY DEF WishKept
  <1>1. /\ at[t] = "send" /\ UNCHANGED <<intent, state, overlap, mnl2hal, mnld, used>>
        /\ TypeOK /\ ThreadsFit /\ NothingUnasked
    BY DEF SendRequest, mnldVars, WishInv, RequestInv
  <1>2. Bound /\ SessionIsWanted /\ WantedIsSession /\ (RepairDue' <=> RepairDue)
    BY <1>1 DEF WishInv, WishKept, Bound, RepairDue
  <1>3. /\ todo[t] \in Seq(Requests) /\ todo[t] # <<>> /\ Head(todo[t]) \in Requests
        /\ Has(todo[t], Head(todo[t]))
        /\ \A x : Has(todo[t], x) => x = Head(todo[t]) \/ Has(Tail(todo[t]), x)
        /\ \A x : Has(Tail(todo[t]), x) => Has(todo[t], x)
    <2>1. todo[t] \in Seq(Requests) /\ todo[t] # <<>>
      BY <1>1 DEF TypeOK
    <2> QED BY <2>1, TailHas
  <1>4. CASE Delivered(Head(todo[t])) /\ at' = [at EXCEPT ![t] = "note"] /\ UNCHANGED todo
    <2>1. at'[t] = "note" /\ \A u \in Threads \ {t} : at'[u] = at[u]
      BY <1>4 DEF TypeOK, WishInv, RequestInv
    <2>2. PICK m \in Requests : m = Head(todo[t])
      BY <1>3
    <2>3. /\ m = "START" => Will'
          /\ m = "STOP" => ~Will'
          /\ m \notin {"START", "STOP"} => (Will' <=> Will)
      BY <1>1, <1>4, <2>2, DeliveredWill
    <2>4. Has(todo'["worker"], "START") => intent' = "START"
      BY <1>1, <1>2, <1>4 DEF SessionIsWanted
    <2>5. CASE t = "framework"
      <3>1. /\ m = intent /\ at'["framework"] = "note" /\ at'["worker"] = at["worker"]
            /\ at["framework"] = "send"
        <4>1. todo["framework"] = <<intent>>
          BY <1>1, <2>5 DEF ThreadsFit
        <4>2. m = intent
          BY <2>2, <2>5, <4>1
        <4> QED BY <1>1, <2>1, <2>5, <4>2 DEF Threads
      <3>2. Will' => intent' = "START"
        BY <1>1, <1>2, <2>3, <3>1 DEF SessionIsWanted
      <3>3. intent' = "START" => Will'
        BY <1>1, <2>3, <3>1
      <3> QED BY <2>4, <3>2, <3>3 DEF SessionIsWanted, WantedIsSession
    <2>6. CASE t = "worker"
      <3>1. at'["worker"] = "note" /\ at'["framework"] = at["framework"] /\ at["worker"] = "send"
        BY <1>1, <2>1, <2>6 DEF Threads
      <3>2. m # "STOP" /\ (m = "START" => intent = "START")
        BY <1>1, <1>2, <1>3, <2>2, <2>6 DEF ThreadsFit, SessionIsWanted
      <3>3. StartPending => m = "START" \/ StartPending'
        BY <1>3, <1>4, <2>2, <2>6, <3>1 DEF StartPending
      <3>4. Will' => intent' = "START" \/ (intent' = "STOP" /\ at'["framework"] = "send")
        BY <1>1, <1>2, <2>3, <3>1, <3>2 DEF SessionIsWanted
      <3>5. intent' = "START" => Will' \/ at'["framework"] = "send" \/ StartPending' \/ RepairDue'
        BY <1>1, <1>2, <2>3, <3>1, <3>2, <3>3 DEF WantedIsSession
      <3> QED BY <2>4, <3>4, <3>5 DEF SessionIsWanted, WantedIsSession
    <2> QED BY <2>5, <2>6 DEF Threads
  <1>5. CASE NotDelivered /\ Next1(t)
    <2>1. mnld = "down" /\ UNCHANGED hal2mnl
      BY <1>5 DEF NotDelivered
    <2>2. ~Will'
      <3>1. hal2mnl' = <<>> /\ used' = FALSE
        BY <1>1, <2>1 DEF NothingUnasked, TypeOK
      <3> QED BY <3>1, OnEmpty DEF Will
    <2>3. RepairDue'
      BY <1>1, <2>1 DEF RepairDue
    <2>4. Has(todo'["worker"], "START") => Has(todo["worker"], "START")
      BY <1>1, <1>3, <1>5, Next1Facts DEF Threads
    <2> QED BY <1>1, <1>2, <2>2, <2>3, <2>4 DEF SessionIsWanted, WantedIsSession
  <1> QED BY <1>2, <1>4, <1>5 DEF SendRequest

LEMMA NoteKeepsWish ==
    ASSUME WishInv, NEW t \in Threads, NoteState(t)
    PROVE  WishKept'
  <1> SUFFICES ASSUME Bound', ~overlap' PROVE SessionIsWanted' /\ WantedIsSession'
    BY DEF WishKept
  <1>1. /\ at[t] = "note" /\ Next1(t)
        /\ UNCHANGED <<intent, overlap, hal2mnl, mnl2hal, mnld, used>>
        /\ TypeOK /\ ThreadsFit
    BY DEF NoteState, mnldVars, WishInv, RequestInv
  <1>2. SessionIsWanted /\ WantedIsSession
    BY <1>1 DEF WishInv, WishKept, ThreadsFit
  <1>3. (Will' <=> Will) /\ (RepairDue' <=> RepairDue)
    BY <1>1 DEF Will, RepairDue
  <1>4. /\ at'[t] = IF Len(todo[t]) = 1 THEN "idle" ELSE "send"
        /\ todo'[t] = Tail(todo[t])
        /\ \A u \in Threads \ {t} : at'[u] = at[u] /\ todo'[u] = todo[u]
        /\ todo[t] \in Seq(Requests) /\ todo[t] # <<>>
        /\ Len(todo[t]) = 1 <=> Tail(todo[t]) = <<>>
        /\ t = "framework" => Len(todo[t]) = 1
    BY <1>1, Next1Facts
  <1>5. at'["framework"] = "send" <=> at["framework"] = "send"
    BY <1>1, <1>4 DEF Threads
  <1>6. Has(todo'["worker"], "START") => Has(todo["worker"], "START")
    BY <1>4, TailHas DEF Threads
  <1>7. StartPending => StartPending'
    <2>1. CASE t = "worker"
      <3>1. StartPending => Has(Tail(todo["worker"]), "START") /\ Tail(todo["worker"]) # <<>>
        BY <1>1, <2>1, Empty DEF StartPending
      <3> QED BY <1>4, <2>1, <3>1 DEF StartPending
    <2>2. CASE t = "framework"
      BY <1>4, <2>2 DEF StartPending, Threads
    <2> QED BY <2>1, <2>2 DEF Threads
  <1> QED BY <1>1, <1>2, <1>3, <1>5, <1>6, <1>7 DEF SessionIsWanted, WantedIsSession

LEMMA CallKeepsWish ==
    ASSUME WishInv, NEW r \in Requests, FrameworkCall(r)
    PROVE  WishKept'
  <1> SUFFICES ASSUME Bound', ~overlap' PROVE SessionIsWanted' /\ WantedIsSession'
    BY DEF WishKept
  <1>1. /\ at["framework"] = "idle" /\ Allowed(r) /\ intent' = r
        /\ at["worker"] \notin {"send", "note"}
        /\ ~overlap \/ r \in {"START", "STOP"}
        /\ UNCHANGED <<state, hal2mnl, mnl2hal, mnld, used>>
    BY DEF FrameworkCall, mnldVars
  <1>2. /\ at'["framework"] = "send" /\ todo'["worker"] = todo["worker"]
    BY DEF FrameworkCall, WishInv, RequestInv, TypeOK, Threads
  <1>3. ~Has(todo'["worker"], "START")
    BY <1>1, <1>2, Empty DEF WishInv, ThreadsFit, Threads
  <1>4. WantedIsSession'
    BY <1>2 DEF WantedIsSession
  <1>5. Will' <=> Will
    BY <1>1 DEF Will
  <1>6. CASE r \in {"START", "STOP"}
    BY <1>1, <1>2, <1>3, <1>4, <1>6 DEF SessionIsWanted
  <1>7. CASE r \notin {"START", "STOP"}
    <2>1. SessionIsWanted
      BY <1>1, <1>7 DEF WishInv, WishKept, Bound
    <2>2. intent # "START"
      BY <1>1, <1>7 DEF Allowed, Requests
    <2>3. ~Will'
      BY <1>1, <1>5, <2>1, <2>2 DEF SessionIsWanted
    <2> QED BY <1>3, <1>4, <2>3 DEF SessionIsWanted
  <1> QED BY <1>6, <1>7

LEMMA FrameworkKeepsWish ==
    ASSUME WishInv, FrameworkOpen \/ FrameworkResource \/ FrameworkCrash
    PROVE  WishKept'
  <1>1. CASE FrameworkOpen \/ FrameworkCrash
    <2>1. ~Bound'
      BY <1>1 DEF FrameworkOpen, FrameworkCrash, WishInv, RequestInv, NothingUnasked, Bound
    <2> QED BY <2>1 DEF WishKept
  <1>2. CASE FrameworkResource
    <2>1. /\ intent = "UNKNOWN" /\ at["framework"] = "idle" /\ ~asked
          /\ UNCHANGED <<intent, at, todo, hal2mnl, used>>
      BY <1>2 DEF FrameworkResource, mnldVars, WishInv, ThreadsFit
    <2>2. ~Has(todo["worker"], "START")
      BY <2>1 DEF WishInv, RequestInv, NothingUnasked, Threads
    <2>3. ~Will'
      <3>1. hal2mnl \in Seq(ToMnld) /\ used \in BOOLEAN
        BY DEF WishInv, RequestInv, TypeOK, ToMnld
      <3>2. StartsRevoked(hal2mnl) /\ (used => Has(hal2mnl, "REBOOT"))
        BY <2>1 DEF WishInv, RequestInv, OnlyOnRequest
      <3>3. ~On(hal2mnl, used)
        BY <3>1, <3>2, RevokedIsOff
      <3> QED BY <2>1, <3>3 DEF Will
    <2> QED BY <2>1, <2>2, <2>3 DEF WishKept, SessionIsWanted, WantedIsSession
  <1> QED BY <1>1, <1>2

LEMMA WorkerKeepsWish ==
    ASSUME WishInv, WorkerReboot \/ WorkerLocation \/ WorkerReport
    PROVE  WishKept'
  <1> SUFFICES ASSUME Bound', ~overlap' PROVE SessionIsWanted' /\ WantedIsSession'
    BY DEF WishKept
  <1>1. /\ UNCHANGED <<intent, state, hal2mnl, mnld, used>> /\ ~overlap
        /\ at["worker"] \in {"idle", "report"} /\ at'["framework"] = at["framework"]
    BY DEF WorkerReboot, WorkerLocation, WorkerReport, mnldVars, WishInv, RequestInv, TypeOK,
           Threads
  <1>2. SessionIsWanted /\ WantedIsSession
    BY <1>1 DEF WishInv, WishKept, Bound
  <1>3. Will' <=> Will
    BY <1>1 DEF Will
  <1>4. CASE WorkerReboot
    <2>1. /\ at["framework"] = "idle" /\ todo'["worker"] = Replay(intent)
          /\ at'["worker"] = IF Replay(intent) = <<>> THEN "idle" ELSE "send"
      BY <1>4 DEF WorkerReboot, WishInv, RequestInv, TypeOK, Threads
    <2>2. Has(todo'["worker"], "START") => intent = "START"
      BY <2>1, ReplayType DEF WishInv, RequestInv, TypeOK
    <2>3. intent = "START" => StartPending'
      BY <2>1, ReplayStart DEF StartPending
    <2> QED BY <1>1, <1>2, <1>3, <2>1, <2>2, <2>3 DEF SessionIsWanted, WantedIsSession
  <1>5. CASE WorkerLocation \/ WorkerReport
    <2>1. UNCHANGED todo /\ ~StartPending
      BY <1>1, <1>5 DEF WorkerLocation, WorkerReport, StartPending
    <2>2. RepairDue => RepairDue'
      <3>1. CASE WorkerReport
        BY <3>1 DEF WorkerReport, mnldVars, RepairDue
      <3>2. CASE WorkerLocation
        <4>1. /\ mnl2hal \in Seq(ToHal) /\ mnl2hal # <<>> /\ Head(mnl2hal) = "LOCATION"
              /\ mnl2hal' = Tail(mnl2hal)
          BY <3>2 DEF WorkerLocation, WishInv, RequestInv, TypeOK, ToHal
        <4>2. Has(mnl2hal, "MNLD_REBOOT") => Has(mnl2hal', "MNLD_REBOOT")
          BY <4>1, TailHas
        <4> QED BY <1>1, <4>2 DEF RepairDue
      <3> QED BY <1>5, <3>1, <3>2
    <2> QED BY <1>1, <1>2, <1>3, <2>1, <2>2 DEF SessionIsWanted, WantedIsSession
  <1> QED BY <1>4, <1>5

(* The daemon ends no session of its own accord without saying so. *)
LEMMA DaemonKeepsWish ==
    ASSUME WishInv, UNCHANGED halVars, Will' => Will,
           Bound => RepairDue' \/ ((Will => Will') /\ (RepairDue => RepairDue'))
    PROVE  WishKept'
  <1> SUFFICES ASSUME Bound', ~overlap' PROVE SessionIsWanted' /\ WantedIsSession'
    BY DEF WishKept
  <1>1. UNCHANGED <<intent, state, at, todo, overlap>>
    BY DEF halVars
  <1>2. Bound /\ SessionIsWanted /\ WantedIsSession
    BY <1>1 DEF WishInv, WishKept, Bound
  <1>3. StartPending' <=> StartPending
    BY <1>1 DEF StartPending
  <1> QED BY <1>1, <1>2, <1>3 DEF SessionIsWanted, WantedIsSession

LEMMA AnnounceRepairs ==
    ASSUME "lost" \notin Faults, TypeOK, Announce, Bound
    PROVE  RepairDue'
  <1>1. mnl2hal \in Seq(ToHal) /\ mnl2hal' = Append(mnl2hal, "MNLD_REBOOT")
    BY DEF Announce, TypeOK, ToHal
  <1> QED BY <1>1, AppendHas DEF ToHal, RepairDue

LEMMA MnldKeepsWish ==
    ASSUME "lost" \notin Faults, WishInv,
           MnldRecv \/ MnldCrash \/ MnldRestart \/ MnldAnnounce \/ MnldNmeaTimeout \/ MnldLocation
    PROVE  WishKept'
  <1>0. /\ TypeOK /\ UNCHANGED halVars
        /\ hal2mnl \in Seq(ToMnld) /\ mnl2hal \in Seq(ToHal) /\ used \in BOOLEAN
    BY DEF MnldRecv, MnldCrash, MnldRestart, MnldAnnounce, MnldNmeaTimeout, MnldLocation,
           WishInv, RequestInv, TypeOK, ToMnld, ToHal
  <1>1. CASE MnldRecv
    <2>1. hal2mnl # <<>> /\ hal2mnl' = Tail(hal2mnl) /\ UNCHANGED <<mnl2hal, mnld>>
      BY <1>1 DEF MnldRecv
    <2>2. PICK v \in BOOLEAN : v = used'
      BY <1>1 DEF MnldRecv, UsedAfter
    <2>3. v <=> Head(hal2mnl) = "START" \/ (used /\ Head(hal2mnl) \notin Ends)
      BY <1>1, <2>2 DEF MnldRecv, UsedAfter, Ends
    <2>4. On(Tail(hal2mnl), v) <=> On(hal2mnl, used)
      BY <1>0, <2>1, <2>3, OnTail
    <2>5. Will' <=> Will
      BY <2>1, <2>2, <2>4 DEF Will
    <2>6. RepairDue' <=> RepairDue
      BY <2>1 DEF RepairDue
    <2> QED BY <1>0, <2>5, <2>6, DaemonKeepsWish
  <1>2. CASE MnldCrash
    <2>1. ~Will'
      BY <1>2, OnEmpty DEF MnldCrash, Will
    <2>2. RepairDue'
      BY <1>2 DEF MnldCrash, RepairDue
    <2> QED BY <1>0, <2>1, <2>2, DaemonKeepsWish
  <1>3. CASE MnldRestart
    <2>1. (Will' <=> Will) /\ RepairDue'
      BY <1>3 DEF MnldRestart, Will, RepairDue
    <2> QED BY <1>0, <2>1, DaemonKeepsWish
  <1>4. CASE MnldAnnounce
    <2>1. Will' <=> Will
      BY <1>4 DEF MnldAnnounce, Will
    <2>2. Bound => RepairDue'
      BY <1>0, <1>4, AnnounceRepairs DEF MnldAnnounce
    <2> QED BY <1>0, <2>1, <2>2, DaemonKeepsWish
  <1>5. CASE MnldNmeaTimeout
    <2>1. Will' => Will
      BY <1>5 DEF MnldNmeaTimeout, Will, On
    <2>2. Bound => RepairDue'
      BY <1>0, <1>5, AnnounceRepairs DEF MnldNmeaTimeout
    <2> QED BY <1>0, <2>1, <2>2, DaemonKeepsWish
  <1>6. CASE MnldLocation
    <2>1. Will' <=> Will
      BY <1>6 DEF MnldLocation, mnldVars, Will
    <2>2. RepairDue => RepairDue'
      <3>1. mnl2hal' = Append(mnl2hal, "LOCATION") /\ UNCHANGED mnld
        BY <1>6 DEF MnldLocation, mnldVars
      <3>2. Has(mnl2hal, "MNLD_REBOOT") => Has(mnl2hal', "MNLD_REBOOT")
        BY <1>0, <3>1, AppendHas DEF ToHal
      <3> QED BY <3>1, <3>2 DEF RepairDue
    <2> QED BY <1>0, <2>1, <2>2, DaemonKeepsWish
  <1> QED BY <1>1, <1>2, <1>3, <1>4, <1>5, <1>6

LEMMA WishStep ==
    ASSUME "lost" \notin Faults, WishInv, [Next]_vars
    PROVE  WishKept'
  <1>1. ASSUME NEW t \in Threads, SendRequest(t) PROVE WishKept'
    BY <1>1, SendKeepsWish
  <1>2. ASSUME NEW t \in Threads, NoteState(t) PROVE WishKept'
    BY <1>2, NoteKeepsWish
  <1>3. ASSUME NEW r \in Requests, FrameworkCall(r) PROVE WishKept'
    BY <1>3, CallKeepsWish
  <1>4. CASE FrameworkOpen \/ FrameworkResource \/ FrameworkCrash
    BY <1>4, FrameworkKeepsWish
  <1>5. CASE WorkerReboot \/ WorkerLocation \/ WorkerReport
    BY <1>5, WorkerKeepsWish
  <1>6. CASE MnldRecv \/ MnldCrash \/ MnldRestart \/ MnldAnnounce \/ MnldNmeaTimeout \/ MnldLocation
    BY <1>6, MnldKeepsWish
  <1>7. CASE UNCHANGED vars
    <2>1. UNCHANGED halVars /\ (Will' <=> Will) /\ (RepairDue' <=> RepairDue)
      BY <1>7 DEF vars, mnldVars, Will, RepairDue
    <2> QED BY <2>1, DaemonKeepsWish
  <1> QED BY <1>1, <1>2, <1>3, <1>4, <1>5, <1>6, <1>7 DEF Next, Framework, Worker, Threads

(* At rest the socket is empty: what will be is. *)
LEMMA WishAtRest == WishInv => WishGranted
  <1> SUFFICES ASSUME WishInv, AtRest, Bound, ~overlap
               PROVE  used <=> intent = "START"
    BY DEF WishGranted
  <1>1. /\ at["framework"] = "idle" /\ at["worker"] = "idle"
        /\ hal2mnl = <<>> /\ mnl2hal = <<>> /\ mnld = "up"
    BY DEF AtRest, Threads
  <1>2. Will <=> used
    BY <1>1, OnEmpty DEF Will, WishInv, RequestInv, TypeOK
  <1>3. ~StartPending /\ ~RepairDue
    BY <1>1, Empty DEF StartPending, RepairDue
  <1> QED BY <1>1, <1>2, <1>3 DEF WishInv, WishKept, SessionIsWanted, WantedIsSession

(* As long as no datagram is dropped, a HAL at rest has the session the      *)
(* framework wants and no other, whatever restarts of the daemon and of the  *)
(* framework came before (update_mnld_reboot(), hal2mnl_hal_reboot()),       *)
(* unless the last call met a replay.                                        *)
THEOREM HalGrantsWish ==
    ASSUME "lost" \notin Faults PROVE Spec => []WishGranted
  <1>1. Init => WishInv
    BY TypeInit, RequestInit, FitInit DEF WishInv, RequestInv, WishKept, Init, Bound
  <1>2. WishInv /\ [Next]_vars => WishInv'
    <2> SUFFICES ASSUME WishInv, [Next]_vars PROVE WishInv'
      OBVIOUS
    <2>1. RequestInv'
      BY RequestStep, TypeStep DEF WishInv, RequestInv
    <2>2. ThreadsFit'
      BY FitStep DEF WishInv, RequestInv
    <2>3. WishKept'
      BY WishStep
    <2> QED BY <2>1, <2>2, <2>3 DEF WishInv
  <1>3. WishInv => WishGranted
    BY WishAtRest
  <1> QED BY <1>1, <1>2, <1>3, PTL DEF Spec

=============================================================================
