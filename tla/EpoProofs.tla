------------------------------ MODULE EpoProofs ------------------------------
(***************************************************************************)
(* Proofs about Epo, for any number of pieces, retries, days and faults.   *)
(***************************************************************************)
EXTENDS Epo, FiniteSetTheorems, TLAPS

-----------------------------------------------------------------------------
(* Where the threads are. *)

(* An order, the download and its result follow one another, and the flag of *)
(* the main thread is set for each of them; a lost datagram leaves it set.   *)
(* What the EPO thread looks at has been appended.                           *)
Order ==
    /\ at # "wait" <=> job = "busy"
    /\ lost => downloading /\ job = "none"
    /\ ~lost => (downloading <=> job # "none")
    /\ at = "check" => hal # <<>>

(* The sets the types are made of are not empty. *)
LEMMA Origins ==
    /\ 0 \in Numbers /\ \A n \in Numbers : n \in Nat
    /\ 0 \in Days
    /\ Statics \in Counts
    /\ <<>> \in Seq(Piece)
    /\ Absent \in Dates
  <1>1. Pieces \in 1..10 /\ MaxDelays \in Nat /\ MaxRetries \in Nat /\ MaxDay \in Nat
    BY EpoAssumption DEF EpoAssumption
  <1>2. 0 \in Numbers /\ (\A n \in Numbers : n \in Nat) /\ 0 \in Days
    BY <1>1 DEF Numbers, Days
  <1>3. Statics \in Counts
    BY <1>1 DEF Statics, Counts
  <1>4. Absent \in Dates
    BY DEF Absent, Covering, Dates
  <1> QED BY <1>2, <1>3, <1>4

(* The counts of epo_file_update_retry() stay within their bounds. *)
LEMMA FruitlessType ==
    ASSUME TypeOK, NEW f \in BOOLEAN, NEW delay \in 0..MaxDelays, Fruitless(f, delay)
    PROVE  /\ statics' \in Counts /\ retry' \in BOOLEAN /\ alarm' \in BOOLEAN
           /\ failed' \in BOOLEAN
  <1>1. /\ Restored \in Counts
        /\ count \in Numbers /\ MaxRetries \in Nat /\ MaxDelays \in Nat
    BY EpoAssumption DEF TypeOK, Restored, Counts, EpoAssumption
  <1>2. /\ Counted.delay_time \in 0..MaxDelays /\ Counted.retry_time \in Nat
        /\ Counted.file_retrying \in Numbers \cup {None}
        /\ Counted = [delay_time |-> Counted.delay_time, file_retrying |-> Counted.file_retrying,
                      retry_time |-> Counted.retry_time]
    <2> DEFINE r == Restored
    <2>1. /\ r.delay_time \in 0..MaxDelays /\ r.retry_time \in Nat
          /\ r.file_retrying \in Numbers \cup {None}
          /\ r = [delay_time |-> r.delay_time, file_retrying |-> r.file_retrying,
                  retry_time |-> r.retry_time]
      BY <1>1 DEF Counts
    <2> HIDE DEF r
    <2>2. CASE r.file_retrying = count
      <3>1. Counted = [delay_time |-> r.delay_time, file_retrying |-> r.file_retrying,
                       retry_time |-> r.retry_time + 1]
        BY <2>1, <2>2 DEF Counted, r
      <3> QED BY <2>1, <3>1
    <2>3. CASE r.file_retrying # count
      <3>1. Counted = [delay_time |-> r.delay_time, file_retrying |-> count, retry_time |-> 0]
        BY <2>1, <2>3 DEF Counted, r
      <3> QED BY <1>1, <2>1, <3>1
    <2> QED BY <2>2, <2>3
  <1>3. Statics \in Counts
    BY <1>1 DEF Statics, Counts
  <1>4. CASE Counted.retry_time < MaxRetries /\ statics' = [Counted EXCEPT !.delay_time = delay]
             /\ retry' = FALSE /\ alarm' = TRUE /\ failed' = f
    <2>1. statics' = [delay_time |-> delay, file_retrying |-> Counted.file_retrying,
                      retry_time |-> Counted.retry_time]
      BY <1>2, <1>4
    <2>2. Counted.retry_time \in 0..MaxRetries
      BY <1>1, <1>2, <1>4
    <2>3. statics' \in Counts
      BY <1>2, <2>1, <2>2 DEF Counts
    <2> QED BY <1>4, <2>3
  <1>5. CASE statics' = Statics /\ failed' = FALSE /\ UNCHANGED <<retry, alarm>>
    BY <1>3, <1>5 DEF TypeOK
  <1> QED BY <1>4, <1>5 DEF Fruitless

LEMMA RestoredType ==
    ASSUME TypeOK
    PROVE  /\ Restored \in Counts /\ [Restored EXCEPT !.delay_time = 0] \in Counts
           /\ [statics EXCEPT !.delay_time = 0] \in Counts
           /\ statics.delay_time < MaxDelays
                => [statics EXCEPT !.delay_time = @ + 1] \in Counts
  <1>1. statics \in Counts /\ Restored \in Counts /\ MaxDelays \in Nat
    BY EpoAssumption DEF TypeOK, Restored, Counts, EpoAssumption
  <1> QED BY <1>1 DEF Counts

(* Whatever the end of a transfer, it leaves the thread in its loop. *)
LEMMA ReturnsType ==
    ASSUME TypeOK, NEW c \in Numbers, NEW f \in BOOLEAN, NEW u \in BOOLEAN, Returns(c, f, u)
    PROVE  /\ at' = "loop" /\ by' = "loop" /\ count' = c /\ failed' \in BOOLEAN /\ updated' \in BOOLEAN
           /\ statics' \in Counts /\ retry' \in BOOLEAN /\ alarm' \in BOOLEAN
           /\ UNCHANGED <<mainVars, dat, halfway, gps, net, qepo, dayVars>>
  <1> USE DEF retryVars
  <1>1. statics.delay_time \in 0..MaxDelays
    BY DEF TypeOK, Counts
  <1>2. /\ at' = "loop" /\ by' = "loop" /\ count' = c
        /\ UNCHANGED <<mainVars, dat, halfway, gps, net, qepo, dayVars>>
    BY DEF Returns, Elsewhere
  <1>3. CASE by = "loop" /\ failed' = f /\ updated' = (u /\ ~f) /\ UNCHANGED retryVars
    BY <1>2, <1>3 DEF TypeOK
  <1>4. CASE updated' = u /\ Fruitless(f, statics.delay_time)
    BY <1>1, <1>2, <1>4, FruitlessType
  <1>5. CASE updated' = u /\ failed' = f /\ statics' = Restored /\ UNCHANGED <<retry, alarm>>
    BY <1>2, <1>5, RestoredType DEF TypeOK
  <1> QED BY <1>3, <1>4, <1>5 DEF Returns

-----------------------------------------------------------------------------
(* The files. *)

LEMMA Pieced ==
    ASSUME TypeOK, hal # <<>>
    PROVE  /\ Len(hal) \in Nat /\ Len(hal) >= 1
           /\ hal[1] \in Piece /\ hal[1].day \in Days
           /\ Newest \in Piece /\ Newest.day \in Days
  <1>1. /\ Len(hal) \in Nat /\ Len(hal) >= 1
        /\ hal[1] \in Piece /\ hal[Len(hal)] \in Piece
    BY DEF TypeOK
  <1> QED BY <1>1 DEF Piece, Newest

(* Whatever the file holds, it tells dates. *)
LEMMA DatesType ==
    ASSUME TypeOK
    PROVE  HalDates \subseteq Dates
  <1>1. ASSUME NEW i \in InFile
        PROVE  hal[i].day + 3 * hal[i].n \in Nat
    <2>1. hal[i] \in Piece
      BY DEF TypeOK, InFile
    <2>2. hal[i].day \in Days /\ hal[i].n \in Numbers
      BY <2>1 DEF Piece
    <2>3. hal[i].day \in Nat /\ hal[i].n \in Nat
      BY <2>2, Origins, EpoAssumption DEF Days, EpoAssumption
    <2> QED BY <2>3
  <1>2. ASSUME NEW i \in First, NEW k \in Final
        PROVE  [day |-> Begin(i), days |-> End(k) - Begin(i),
                begins |-> i \notin Bad(hal), ends |-> k \notin Bad(hal)] \in Dates
    <2>1. Begin(i) \in Nat /\ Begin(k) \in Nat
      BY <1>1 DEF First, Final, Begin
    <2>2. End(k) - Begin(i) \in Int
      BY <2>1 DEF End
    <2> QED BY <2>1, <2>2 DEF Dates
  <1> QED BY <1>2, Origins DEF HalDates

LEMMA InjectType ==
    ASSUME TypeOK, Inject \/ UNCHANGED dat
    PROVE  dat' \in Dates
  <1>1. CASE dat' \in HalDates
    BY <1>1, DatesType
  <1>2. CASE UNCHANGED dat
    BY <1>2 DEF TypeOK
  <1> QED BY <1>1, <1>2 DEF Inject

(* The main thread changes the flag, the order and the other thread's count. *)
LEMMA TriggerType ==
    ASSUME TypeOK, Order, Trigger \/ NoTrigger
    PROVE  /\ downloading' \in BOOLEAN /\ lost' \in BOOLEAN
           /\ job' \in {"none", "queued", "busy", "success", "fail"}
           /\ count' \in Numbers
           /\ UNCHANGED <<at, hal>> => Order'
  <1> USE DEF mainVars, TypeOK, Order
  <1>1. CASE UNCHANGED <<mainVars, count>>
    BY <1>1
  <1>2. CASE ~downloading /\ count' = 0 /\ UNCHANGED mainVars
    BY <1>2, Origins
  <1>3. CASE ~downloading /\ count' = 0 /\ downloading' = TRUE /\ job' = "queued" /\ UNCHANGED lost
    <2>1. ~lost /\ job = "none" /\ at = "wait"
      BY <1>3
    <2> QED BY <1>3, <2>1, Origins
  <1>4. CASE ~downloading /\ count' = 0 /\ downloading' = TRUE /\ lost' = TRUE /\ UNCHANGED job
    <2>1. ~lost /\ job = "none" /\ at = "wait"
      BY <1>4
    <2> QED BY <1>4, <2>1, Origins
  <1> QED BY <1>1, <1>2, <1>3, <1>4 DEF Trigger, NoTrigger

-----------------------------------------------------------------------------
(* Types, and where the threads are, step by step. *)

LEMMA MainStep ==
    ASSUME TypeOK, Order,
           GpsStart \/ GpsStop \/ (\E n \in {"none", "mobile", "wifi"} : NetworkState(n)) \/ GpsRun
    PROVE  TypeOK' /\ Order'
  <1> USE DEF Untouched, flagVars, retryVars, dayVars
  <1>1. Trigger \/ NoTrigger
    BY DEF GpsStart, GpsStop, NetworkState, GpsRun
  <1>2. UNCHANGED <<at, by, updated, failed, retry, alarm, statics, last, halfway, tries, qepo,
                    today, pub, hal>>
    BY DEF GpsStart, GpsStop, NetworkState, GpsRun
  <1>3. Inject \/ UNCHANGED dat
    BY DEF GpsStart, GpsStop, NetworkState, GpsRun
  <1>4. gps' \in {"off", "starting", "started"} /\ net' \in {"none", "mobile", "wifi"}
    BY DEF GpsStart, GpsStop, NetworkState, GpsRun, TypeOK
  <1> QED BY <1>1, <1>2, <1>3, <1>4, TriggerType, InjectType DEF TypeOK

LEMMA MainEpoDoneStep ==
    ASSUME TypeOK, Order, MainEpoDone
    PROVE  TypeOK' /\ Order'
  <1>1. /\ UNCHANGED <<at, by, updated, failed, retry, alarm, statics, last, halfway, tries, qepo,
                       today, pub, lost, gps, net, count>>
        /\ downloading' = FALSE /\ job' = "none" /\ job \in {"success", "fail"}
    BY DEF MainEpoDone, MainClearsFlag, Untouched, flagVars, retryVars, dayVars
  <1>2. hal' \in Seq(Piece) /\ dat' \in Dates
    BY InjectType, Origins DEF MainEpoDone, TypeOK
  <1>3. Order'
    BY <1>1 DEF Order
  <1>4. /\ downloading' \in BOOLEAN
        /\ job' \in {"none", "queued", "busy", "success", "fail"}
    BY <1>1
  <1> QED BY <1>1, <1>2, <1>3, <1>4 DEF TypeOK

LEMMA EpoRecvStep ==
    ASSUME TypeOK, Order, EpoRecv
    PROVE  TypeOK' /\ Order'
  <1>1. /\ UNCHANGED <<downloading, lost, by, retry, alarm, statics, last, gps, net, qepo, today, pub>>
        /\ at' = "loop" /\ job = "queued" /\ job' = "busy" /\ updated' = TRUE /\ failed' = FALSE
        /\ count' = 0 /\ hal' = <<>> /\ dat' = Absent /\ halfway' = FALSE /\ tries' = 0
    BY DEF EpoRecv, Elsewhere, retryVars, dayVars
  <1>2. Order'
    BY <1>1 DEF Order
  <1> QED BY <1>1, <1>2, Origins DEF TypeOK

(* The steps of epo_file_update_retry() that end in no transfer. *)
LEMMA RetryStep ==
    ASSUME TypeOK, Order, RetryUnserved \/ RetryDelayed
    PROVE  TypeOK' /\ Order'
  <1>1. /\ UNCHANGED <<downloading, job, lost, at, by, count, updated, retry, alarm, hal, last, dat,
                       halfway, tries, gps, net, qepo, today, pub>>
        /\ failed' \in BOOLEAN
    BY DEF RetryUnserved, RetryDelayed, mainVars, fileVars, Elsewhere, dayVars, TypeOK
  <1>2. statics' \in Counts
    BY RestoredType DEF RetryUnserved, RetryDelayed
  <1>3. Order'
    BY <1>1 DEF Order
  <1> QED BY <1>1, <1>2, <1>3 DEF TypeOK

LEMMA RetryRestartsStep ==
    ASSUME TypeOK, Order, RetryRestarts
    PROVE  TypeOK' /\ Order'
  <1>1. /\ UNCHANGED <<downloading, job, lost, at, by, last, dat, halfway, gps, net, qepo, today, pub>>
        /\ updated' = TRUE /\ count' = 0 /\ hal' = <<>> /\ tries' = 0 /\ at = "loop"
    BY DEF RetryRestarts, MayRetry, Gate, mainVars, Elsewhere, dayVars
  <1>2. /\ statics' \in Counts /\ failed' \in BOOLEAN
        /\ retry' \in BOOLEAN /\ alarm' \in BOOLEAN
    <2>1. 0 \in 0..MaxDelays /\ FALSE \in BOOLEAN
      BY EpoAssumption DEF EpoAssumption
    <2>2. CASE Fruitless(FALSE, 0)
      BY <2>1, <2>2, FruitlessType
    <2>3. CASE failed' = FALSE /\ statics' = [Restored EXCEPT !.delay_time = 0]
               /\ UNCHANGED <<retry, alarm>>
      BY <2>3, RestoredType DEF TypeOK
    <2> QED BY <2>2, <2>3 DEF RetryRestarts
  <1>3. Order'
    BY <1>1 DEF Order
  <1> QED BY <1>1, <1>2, <1>3, Origins DEF TypeOK

LEMMA BeginsStep ==
    ASSUME TypeOK, Order, Loop \/ RetryPiece
    PROVE  TypeOK' /\ Order'
  <1>1. /\ UNCHANGED <<downloading, job, lost, count, updated, retry, alarm, statics, hal, last, dat,
                       halfway, tries, gps, net, qepo, today, pub>>
        /\ at = "loop" /\ at' = "curl" /\ by' \in {"loop", "retry"} /\ failed' \in BOOLEAN
    BY DEF Loop, RetryPiece, MayRetry, Gate, mainVars, retryVars, fileVars, flagVars, Elsewhere,
           dayVars, TypeOK
  <1>2. Order'
    BY <1>1 DEF Order
  <1> QED BY <1>1, <1>2 DEF TypeOK

LEMMA CurlBringsStep ==
    ASSUME TypeOK, Order, NEW short \in BOOLEAN, NEW kept \in {"all", "cut", "none"},
           CurlBrings(short, kept)
    PROVE  TypeOK' /\ Order'
  <1> DEFINE piece == [n |-> count, day |-> pub, short |-> short, kept |-> kept]
  <1>1. /\ UNCHANGED <<downloading, job, lost, by, count, updated, failed, retry, alarm, statics, last,
                       dat, halfway, tries, gps, net, qepo, today, pub>>
        /\ at = "curl" /\ at' = "check"
        /\ hal' = IF count = 0 THEN <<piece>> ELSE Append(hal, piece)
    BY DEF CurlBrings, mainVars, flagVars, retryVars, Elsewhere, dayVars
  <1>2. piece \in Piece /\ hal \in Seq(Piece)
    BY DEF TypeOK, Piece
  <1> HIDE DEF piece
  <1>3. hal' \in Seq(Piece) /\ hal' # <<>>
    <2>1. CASE count = 0
      BY <1>1, <1>2, <2>1
    <2>2. CASE count # 0
      BY <1>1, <1>2, <2>2
    <2> QED BY <2>1, <2>2
  <1>4. Order'
    BY <1>1, <1>3 DEF Order
  <1> QED BY <1>1, <1>3, <1>4 DEF TypeOK

LEMMA EndsStep ==
    ASSUME TypeOK, Order, CurlFails \/ CheckShort \/ CheckChanged \/ CheckKept
    PROVE  TypeOK' /\ Order'
  <1>1. PICK c \in Numbers, f \in BOOLEAN, u \in BOOLEAN : Returns(c, f, u)
    <2>1. count \in Numbers /\ failed \in BOOLEAN /\ updated \in BOOLEAN /\ 0 \in Numbers
      BY Origins DEF TypeOK
    <2>2. MorePieces => count + 1 \in Numbers
      BY <2>1, EpoAssumption DEF MorePieces, Numbers, EpoAssumption
    <2> QED BY <2>1, <2>2 DEF CurlFails, CheckShort, CheckChanged, CheckKept
  <1>2. /\ UNCHANGED <<downloading, job, lost, dat, halfway, gps, net, qepo, today, pub>>
        /\ at' = "loop" /\ by' = "loop" /\ at # "wait" /\ count' \in Numbers
        /\ failed' \in BOOLEAN /\ updated' \in BOOLEAN
        /\ statics' \in Counts /\ retry' \in BOOLEAN /\ alarm' \in BOOLEAN
    BY <1>1, ReturnsType
       DEF CurlFails, CheckShort, CheckChanged, CheckKept, mainVars, dayVars
  <1>3. hal' \in Seq(Piece) /\ last' \in Days /\ tries' \in Nat
    <2>1. CASE CurlFails \/ CheckShort
      <3>1. tries' = tries + 1 /\ UNCHANGED <<hal, last>>
        BY <2>1 DEF CurlFails, CheckShort
      <3> QED BY <3>1 DEF TypeOK
    <2>2. CASE CheckChanged
      BY <2>2, Origins DEF CheckChanged, TypeOK
    <2>3. CASE CheckKept
      BY <2>3, Pieced DEF CheckKept, TypeOK, Order
    <2> QED BY <2>1, <2>2, <2>3
  <1>4. Order'
    BY <1>2 DEF Order
  <1> QED BY <1>2, <1>3, <1>4 DEF TypeOK

LEMMA EpoDoneStep ==
    ASSUME TypeOK, Order, EpoDone
    PROVE  TypeOK' /\ Order'
  <1>1. /\ UNCHANGED <<downloading, by, count, updated, failed, retry, alarm, statics, hal, last, dat,
                       halfway, tries, gps, net, qepo, today, pub>>
        /\ at = "loop" /\ at' = "wait"
        /\ \/ job' \in {"success", "fail"} /\ UNCHANGED lost
           \/ job' = "none" /\ lost' = TRUE
    BY DEF EpoDone, Result, Gate, flagVars, retryVars, fileVars, Elsewhere, dayVars
  <1>2. Order'
    BY <1>1 DEF Order
  <1>3. job' \in {"none", "queued", "busy", "success", "fail"} /\ lost' \in BOOLEAN
    BY <1>1 DEF TypeOK
  <1> QED BY <1>1, <1>2, <1>3 DEF TypeOK

LEMMA CrashStep ==
    ASSUME TypeOK, Crash
    PROVE  TypeOK' /\ Order'
  <1>1. [qepo EXCEPT !.at = "wait"] \in Qepo
    BY DEF TypeOK, Qepo
  <1>2. halfway' \in BOOLEAN
    BY DEF Crash
  <1> QED BY <1>1, <1>2, Origins DEF Crash, TypeOK, Order, dayVars

(* The retry timer, the QEPO thread, the date and the server. *)
LEMMA OtherStep ==
    ASSUME TypeOK, Order,
           RetryAlarm \/ QepoStep \/ QepoRequest \/ DayPasses \/ ServerUpdates
    PROVE  TypeOK' /\ Order'
  <1> USE DEF mainVars, flagVars, retryVars, fileVars, dayVars
  <1>1. Order'
    BY DEF RetryAlarm, QepoStep, QepoRecv, QepoTry, QepoRequest, DayPasses, ServerUpdates,
           QepoLeaves, Order
  <1>2. CASE RetryAlarm
    <2>1. /\ UNCHANGED <<downloading, job, lost, gps, net, at, by, count, updated, failed, statics,
                         hal, last, dat, halfway, tries, qepo, today, pub>>
          /\ alarm' \in BOOLEAN /\ retry' \in BOOLEAN
      BY <1>2 DEF RetryAlarm
    <2> QED BY <1>1, <2>1 DEF TypeOK
  <1>3. CASE DayPasses \/ ServerUpdates
    <2>1. today' \in Days /\ pub' \in Days
      BY <1>3, EpoAssumption DEF DayPasses, ServerUpdates, TypeOK, Days, EpoAssumption
    <2>2. UNCHANGED <<downloading, job, lost, gps, net, at, by, count, updated, failed, retry, alarm,
                      statics, hal, last, dat, halfway, tries, qepo>>
      BY <1>3 DEF DayPasses, ServerUpdates
    <2> QED BY <1>1, <2>1, <2>2 DEF TypeOK
  <1>4. CASE QepoStep \/ QepoRequest
    <2>1. /\ MaxTries \in Nat /\ MaxQepo \in Nat
          /\ qepo \in Qepo /\ qepo.left \in 0..MaxTries /\ qepo.made \in 0..MaxQepo
      BY EpoAssumption DEF TypeOK, Qepo, EpoAssumption
    <2>2. qepo' \in Qepo
      <3>1. \A at1 \in {"wait", "queued", "try"} : \A l \in 0..MaxTries : \A m \in 0..MaxQepo :
              [at |-> at1, left |-> l, made |-> m] \in Qepo
        BY DEF Qepo
      <3>2. qepo = [at |-> qepo.at, left |-> qepo.left, made |-> qepo.made]
            /\ qepo.at \in {"wait", "queued", "try"}
        BY <2>1 DEF Qepo
      <3>3. CASE QepoRequest
        <4>1. qepo.made + 1 \in 0..MaxQepo
          BY <2>1, <3>3 DEF QepoRequest
        <4>2. qepo' = [at |-> "queued", left |-> qepo.left, made |-> qepo.made + 1]
          BY <3>2, <3>3 DEF QepoRequest
        <4> QED BY <2>1, <3>1, <4>1, <4>2
      <3>4. CASE QepoRecv
        <4>1. MaxTries \in 0..MaxTries
          BY <2>1
        <4>2. qepo' = [at |-> "try", left |-> MaxTries, made |-> qepo.made]
          BY <3>2, <3>4 DEF QepoRecv
        <4> QED BY <2>1, <3>1, <4>1, <4>2
      <3>5. CASE qepo.left > 0 /\ qepo' = [qepo EXCEPT !.left = @ - 1]
        <4>1. qepo.left - 1 \in 0..MaxTries
          BY <2>1, <3>5
        <4>2. qepo' = [at |-> qepo.at, left |-> qepo.left - 1, made |-> qepo.made]
          BY <3>2, <3>5
        <4> QED BY <2>1, <3>1, <3>2, <4>1, <4>2
      <3>6. CASE qepo' = [qepo EXCEPT !.at = "wait"]
        <4>1. qepo' = [at |-> "wait", left |-> qepo.left, made |-> qepo.made]
          BY <3>2, <3>6
        <4> QED BY <2>1, <3>1, <4>1
      <3> QED BY <1>4, <3>3, <3>4, <3>5, <3>6 DEF QepoStep, QepoTry
    <2>3. UNCHANGED <<downloading, job, lost, gps, net, at, by, count, updated, failed, retry, alarm,
                      statics, hal, last, dat, halfway, tries, today, pub>>
      BY <1>4 DEF QepoStep, QepoRecv, QepoTry, QepoRequest, QepoLeaves
    <2> QED BY <1>1, <2>2, <2>3 DEF TypeOK
  <1> QED BY <1>1, <1>2, <1>3, <1>4

LEMMA EpoStepType == TypeOK /\ Order /\ [Next]_vars => TypeOK' /\ Order'
  <1>1. TypeOK /\ Order /\ UNCHANGED vars => TypeOK' /\ Order'
    BY DEF vars, mainVars, flagVars, retryVars, fileVars, dayVars, TypeOK, Order
  <1> QED BY <1>1, MainStep, MainEpoDoneStep, EpoRecvStep, RetryStep, RetryRestartsStep, BeginsStep,
             CurlBringsStep, EndsStep, EpoDoneStep, CrashStep, OtherStep DEF Next, EpoStep

LEMMA EpoInit == Init => TypeOK /\ Order
  <1>1. Pieces \in Nat /\ MaxTries \in Nat /\ MaxQepo \in Nat
    BY EpoAssumption DEF EpoAssumption
  <1>2. [at |-> "wait", left |-> MaxTries, made |-> 0] \in Qepo
    BY <1>1 DEF Qepo
  <1>3. {Absent, Covering(3 * Pieces)} \subseteq Dates
    BY <1>1, Origins DEF Covering, Dates
  <1> QED BY <1>2, <1>3, Origins DEF Init, TypeOK, Order

(* The variables of the threads keep their types: in particular, no piece    *)
(* beyond the last is asked for and no count of tries exceeds its bound.     *)
THEOREM EpoTypeCorrect == Spec => []TypeOK
  <1>1. Spec => [](TypeOK /\ Order)
    BY EpoInit, EpoStepType, PTL DEF Spec
  <1> QED BY <1>1, PTL

(* is_epo_downloading is set exactly while a download is ordered, runs or    *)
(* has its result on the way, as long as no datagram has been dropped.       *)
THEOREM FlagTellsTheTruth == Spec => []FlagIsTrue
  <1>1. Spec => [](TypeOK /\ Order)
    BY EpoInit, EpoStepType, PTL DEF Spec
  <1>2. Order => FlagIsTrue
    BY DEF Order, FlagIsTrue
  <1> QED BY <1>1, <1>2, PTL

-----------------------------------------------------------------------------
(* Failures in a row.  The counts of epo_file_update_retry() lag behind by   *)
(* two at most: the failure that first calls it, and the one after which it  *)
(* notices that it is about another piece than the last time.                *)

Few ==
    \/ tries <= 1
    \/ /\ statics.file_retrying = count
       /\ statics.retry_time < MaxRetries
       /\ tries <= statics.retry_time + 2

Trying ==
    /\ tries <= MaxRetries + 2
    /\ at = "loop" /\ updated => tries = 0
    /\ at \in {"curl", "check"} /\ by = "loop" => tries = 0
    /\ at \in {"curl", "check"} /\ by = "retry" => failed /\ ~updated
    /\ at # "wait" /\ failed => Few

LEMMA SameTrying ==
    ASSUME Trying, UNCHANGED <<tries, at, by, updated, failed, count, statics>>
    PROVE  Trying'
  BY DEF Trying, Few

LEMMA ZeroTrying ==
    ASSUME tries' = 0, at' \in {"wait", "loop"}
    PROVE  Trying'
  BY EpoAssumption DEF Trying, Few, EpoAssumption

(* While the EPO thread waits, nothing depends on the counts. *)
LEMMA WaitTrying ==
    ASSUME Trying, at' = "wait", UNCHANGED tries
    PROVE  Trying'
  BY DEF Trying

(* A failing retry is counted, or the last one there is. *)
LEMMA RetryFails ==
    ASSUME TypeOK, Few, NEW delay, Fruitless(TRUE, delay), UNCHANGED count, tries' = tries + 1
    PROVE  tries' <= MaxRetries + 2 /\ (failed' => Few')
  <1> DEFINE r == statics
  <1>1. /\ tries \in Nat /\ MaxRetries \in Nat /\ count \in Nat /\ r.retry_time \in Nat
        /\ r = [delay_time |-> r.delay_time, file_retrying |-> r.file_retrying,
                retry_time |-> r.retry_time]
    BY Origins, EpoAssumption DEF TypeOK, Counts, EpoAssumption
  <1> HIDE DEF r
  <1>2. Counted.retry_time \in Nat /\ Counted.file_retrying = count
        /\ (r.file_retrying = count => Counted.retry_time = r.retry_time + 1)
        /\ Counted = [delay_time |-> Counted.delay_time, file_retrying |-> Counted.file_retrying,
                      retry_time |-> Counted.retry_time]
    <2>1. Restored \in {[delay_time |-> r.delay_time, file_retrying |-> count,
                         retry_time |-> r.retry_time], r}
      BY <1>1 DEF Restored, r
    <2>2. r.file_retrying = count => Restored = r
      BY <1>1 DEF Restored, r
    <2>3. CASE Restored.file_retrying = count
      <3>1. Counted = [delay_time |-> Restored.delay_time, file_retrying |-> count,
                       retry_time |-> r.retry_time + 1]
        BY <1>1, <2>1, <2>3 DEF Counted
      <3> QED BY <1>1, <3>1
    <2>4. CASE Restored.file_retrying # count
      <3>1. r.file_retrying # count
        BY <2>2, <2>4
      <3>2. Restored = r
        BY <2>1, <2>4
      <3>3. Counted = [r EXCEPT !.file_retrying = count, !.retry_time = 0]
        BY <2>4, <3>2 DEF Counted
      <3>4. Counted = [delay_time |-> r.delay_time, file_retrying |-> count, retry_time |-> 0]
        BY <1>1, <3>3
      <3> QED BY <3>1, <3>4
    <2> QED BY <2>3, <2>4
  <1>3. tries <= 1 \/ (/\ Counted.retry_time = r.retry_time + 1 /\ r.retry_time < MaxRetries
                       /\ tries <= r.retry_time + 2)
    BY <1>2 DEF Few, r
  <1>4. CASE Counted.retry_time < MaxRetries /\ statics' = [Counted EXCEPT !.delay_time = delay]
    <2>1. statics'.retry_time = Counted.retry_time /\ statics'.file_retrying = count
      BY <1>2, <1>4
    <2>2. tries' <= Counted.retry_time + 2
      BY <1>1, <1>2, <1>3
    <2>3. Few'
      BY <1>4, <2>1, <2>2 DEF Few
    <2> QED BY <1>1, <1>2, <1>4, <2>2, <2>3
  <1>5. CASE Counted.retry_time >= MaxRetries /\ failed' = FALSE
    BY <1>1, <1>3, <1>5
  <1> QED BY <1>4, <1>5 DEF Fruitless

LEMMA FailsTrying ==
    ASSUME TypeOK, Trying, at \in {"curl", "check"}, Returns(count, TRUE, updated), tries' = tries + 1
    PROVE  Trying'
  <1>1. at' = "loop" /\ UNCHANGED count /\ tries \in Nat /\ MaxRetries \in Nat
    BY EpoAssumption DEF Returns, TypeOK, EpoAssumption
  <1>2. CASE by = "loop"
    <2>1. tries' = 1
      BY <1>2 DEF Trying
    <2>2. by' = "loop" /\ ~updated'
      BY <1>2 DEF Returns
    <2> QED BY <1>1, <2>1, <2>2 DEF Trying, Few
  <1>3. CASE by = "retry"
    <2>1. Few /\ ~updated /\ updated' = updated /\ Fruitless(TRUE, statics.delay_time)
      BY <1>3 DEF Trying, Returns
    <2>2. tries' <= MaxRetries + 2 /\ (failed' => Few')
      BY <1>1, <2>1, RetryFails
    <2> QED BY <1>1, <2>1, <2>2 DEF Trying
  <1> QED BY <1>2, <1>3 DEF TypeOK

LEMMA TryingStep ==
    ASSUME TypeOK, Order, Trying, [Next]_vars
    PROVE  Trying'
  <1> USE DEF mainVars, flagVars, retryVars, fileVars, dayVars
  <1>1. CASE GpsStart \/ GpsStop \/ (\E n \in {"none", "mobile", "wifi"} : NetworkState(n)) \/ GpsRun
    <2>1. Trigger \/ NoTrigger
      BY <1>1 DEF GpsStart, GpsStop, NetworkState, GpsRun
    <2>2. UNCHANGED <<tries, at, by, updated, failed, statics>>
      BY <1>1 DEF GpsStart, GpsStop, NetworkState, GpsRun, Untouched
    <2>3. CASE UNCHANGED count
      BY <2>2, <2>3, SameTrying
    <2>4. CASE ~downloading
      <3>1. at = "wait"
        BY <2>4 DEF Order
      <3> QED BY <2>2, <3>1, WaitTrying
    <2> QED BY <2>1, <2>3, <2>4 DEF Trigger, NoTrigger
  <1>2. CASE MainEpoDone \/ RetryAlarm \/ QepoStep \/ QepoRequest \/ DayPasses \/ ServerUpdates
    BY <1>2, SameTrying
       DEF MainEpoDone, Untouched, RetryAlarm, QepoStep, QepoRecv, QepoTry, QepoRequest, QepoLeaves,
           DayPasses, ServerUpdates
  <1>3. CASE EpoRecv \/ RetryRestarts \/ CheckChanged \/ CheckKept \/ Crash
    <2>1. tries' = 0 /\ at' \in {"wait", "loop"}
      BY <1>3 DEF EpoRecv, RetryRestarts, MayRetry, Gate, CheckChanged, CheckKept, Returns, Crash
    <2> QED BY <2>1, ZeroTrying
  <1>4. CASE RetryUnserved \/ RetryDelayed
    <2>1. /\ UNCHANGED <<tries, at, by, updated, count>> /\ at = "loop" /\ ~updated /\ failed
      BY <1>4 DEF RetryUnserved, RetryDelayed, MayRetry, Gate
    <2>2. /\ statics'.file_retrying = statics.file_retrying
          /\ statics'.retry_time = statics.retry_time
      BY <1>4 DEF RetryUnserved, RetryDelayed, TypeOK, Counts
    <2> QED BY <2>1, <2>2 DEF Trying, Few
  <1>5. CASE Loop
    <2>1. /\ UNCHANGED <<tries, updated, count, statics>> /\ at = "loop" /\ updated
          /\ at' = "curl" /\ by' = "loop" /\ failed' = FALSE
      BY <1>5 DEF Loop, Gate
    <2> QED BY <2>1 DEF Trying
  <1>6. CASE RetryPiece
    <2>1. /\ UNCHANGED <<tries, updated, failed, count, statics>> /\ at = "loop" /\ ~updated /\ failed
          /\ at' = "curl" /\ by' = "retry"
      BY <1>6 DEF RetryPiece, MayRetry, Gate
    <2> QED BY <2>1 DEF Trying, Few
  <1>7. ASSUME NEW short, NEW kept, CurlBrings(short, kept)
        PROVE  Trying'
    <2>1. /\ UNCHANGED <<tries, by, updated, failed, count, statics>> /\ at = "curl" /\ at' = "check"
      BY <1>7 DEF CurlBrings
    <2> QED BY <2>1 DEF Trying, Few
  <1>8. CASE CurlFails \/ CheckShort
    BY <1>8, FailsTrying DEF CurlFails, CheckShort
  <1>9. CASE EpoDone
    BY <1>9, WaitTrying DEF EpoDone
  <1>10. CASE UNCHANGED vars
    BY <1>10, SameTrying DEF vars
  <1> QED BY <1>1, <1>2, <1>3, <1>4, <1>5, <1>6, <1>7, <1>8, <1>9, <1>10 DEF Next, EpoStep

(* A piece that does not come is asked for a bounded number of times in a    *)
(* row, whatever the static counts of epo_file_update_retry() remember of    *)
(* earlier pieces and downloads.                                             *)
THEOREM RetriesAreBounded == Spec => []RetriesBounded
  <1>1. Init => Trying
    BY EpoAssumption DEF Init, Trying, EpoAssumption
  <1>2. TypeOK /\ Order /\ Trying /\ [Next]_vars => (TypeOK /\ Order /\ Trying)'
    BY EpoStepType, TryingStep
  <1>3. Trying => RetriesBounded
    BY DEF Trying, RetriesBounded
  <1> QED BY <1>1, <1>2, <1>3, EpoInit, PTL DEF Spec

-----------------------------------------------------------------------------
(* The pieces in a file.  Taken for any file, for EPOHAL.DAT is emptied and  *)
(* appended to.                                                              *)

Below(file, i) == {j \in Whole(file) : j < i}

LEMMA WholeFinite ==
    ASSUME NEW file \in Seq(Piece)
    PROVE  /\ IsFiniteSet(Whole(file)) /\ Cardinality(Whole(file)) \in Nat
           /\ \A i \in Whole(file) : i \in Nat /\ i >= 1 /\ i <= Len(file)
  <1>1. Len(file) \in Nat /\ DOMAIN file = 1..Len(file)
    OBVIOUS
  <1>2. IsFiniteSet(1..Len(file))
    BY <1>1, FS_Interval
  <1>3. Whole(file) \subseteq 1..Len(file)
    BY <1>1 DEF Whole
  <1>4. IsFiniteSet(Whole(file))
    BY <1>2, <1>3, FS_Subset
  <1>5. Cardinality(Whole(file)) \in Nat
    BY <1>4, FS_CardinalityType
  <1> QED BY <1>1, <1>3, <1>4, <1>5

LEMMA NoPieces ==
    /\ <<>> \in Seq(Piece) /\ Whole(<<>>) = {} /\ Cardinality(Whole(<<>>)) = 0
    /\ Numbered(<<>>) /\ OneDay(<<>>)
  <1>1. Whole(<<>>) = {}
    BY DEF Whole
  <1>2. Cardinality({}) = 0
    BY FS_EmptySet
  <1> QED BY <1>1, <1>2 DEF Numbered, OneDay

(* One more piece leaves those before it where they are. *)
LEMMA OnePieceMore ==
    ASSUME NEW file \in Seq(Piece), NEW piece \in Piece
    PROVE  LET f == Append(file, piece)
               i == Len(file) + 1
           IN  /\ f \in Seq(Piece) /\ f # <<>> /\ Len(f) = i /\ f[i] = piece
               /\ \A j \in Whole(file) : f[j] = file[j]
               /\ i \notin Whole(file)
               /\ Whole(f) = IF piece.short THEN Whole(file) ELSE Whole(file) \cup {i}
  <1> DEFINE f == Append(file, piece)
             i == Len(file) + 1
  <1>1. f \in Seq(Piece) /\ Len(f) = i /\ f[i] = piece /\ Len(file) \in Nat
    OBVIOUS
  <1>2. DOMAIN file = 1..Len(file) /\ DOMAIN f = 1..i
    BY <1>1
  <1>3. \A j \in 1..Len(file) : f[j] = file[j]
    OBVIOUS
  <1> HIDE DEF f
  <1>4. /\ \A j \in Whole(file) : j \in 1..Len(file)
        /\ \A j \in Whole(f) : j \in 1..i
    BY <1>2 DEF Whole
  <1>5. \A j \in 1..Len(file) : j \in Whole(f) <=> j \in Whole(file)
    <2> TAKE j \in 1..Len(file)
    <2>1. j \in DOMAIN f /\ j \in DOMAIN file /\ f[j] = file[j]
      BY <1>1, <1>2, <1>3
    <2> QED BY <2>1 DEF Whole
  <1>6. i \in Whole(f) <=> ~piece.short
    <2>1. i \in DOMAIN f
      BY <1>1, <1>2
    <2> QED BY <1>1, <2>1 DEF Whole
  <1>7. \A j \in 1..i : j \in 1..Len(file) \/ j = i
    BY <1>1
  <1>8. i \notin 1..Len(file)
    BY <1>1
  <1>9. f # <<>>
    <2>1. Len(<<>>) = 0
      OBVIOUS
    <2>2. i # 0
      BY <1>1
    <2> QED BY <1>1, <2>1, <2>2
  <1>10. Whole(f) = IF piece.short THEN Whole(file) ELSE Whole(file) \cup {i}
    <2> HIDE DEF i
    <2>1. ASSUME NEW j \in Whole(f) PROVE j \in Whole(file) \/ (j = i /\ ~piece.short)
      BY <1>4, <1>5, <1>6, <1>7
    <2>2. Whole(file) \subseteq Whole(f)
      BY <1>4, <1>5
    <2>3. CASE piece.short
      BY <2>1, <2>2, <2>3
    <2>4. CASE ~piece.short
      BY <1>6, <2>1, <2>2, <2>4
    <2> QED BY <2>3, <2>4
  <1> QED BY <1>1, <1>3, <1>4, <1>8, <1>9, <1>10 DEF f

(* It is one more than there were, and numbered if its number is that of the *)
(* pieces before it.                                                         *)
LEMMA OneMoreCounted ==
    ASSUME NEW file \in Seq(Piece), NEW piece \in Piece, Numbered(file),
           piece.n = Cardinality(Whole(file))
    PROVE  /\ Numbered(Append(file, piece))
           /\ Cardinality(Whole(Append(file, piece)))
                = IF piece.short THEN piece.n ELSE piece.n + 1
  <1> DEFINE f == Append(file, piece)
             i == Len(file) + 1
  <1>1. /\ f[i] = piece /\ i \notin Whole(file)
        /\ \A j \in Whole(file) : f[j] = file[j]
        /\ Whole(f) = IF piece.short THEN Whole(file) ELSE Whole(file) \cup {i}
    BY OnePieceMore
  <1>2. IsFiniteSet(Whole(file)) /\ Cardinality(Whole(file)) \in Nat
    BY WholeFinite
  <1>3. Len(file) \in Nat
    OBVIOUS
  <1> HIDE DEF f
  <1>4. \A j \in Whole(file) : j \in Nat /\ j < i
    BY <1>3, WholeFinite
  <1> HIDE DEF i
  <1>5. Cardinality(Whole(f)) = IF piece.short THEN piece.n ELSE piece.n + 1
    <2>1. Cardinality(Whole(file) \cup {i}) = Cardinality(Whole(file)) + 1
      BY <1>1, <1>2, FS_AddElement
    <2> QED BY <1>1, <2>1
  <1>6. \A j \in Whole(file) : Below(f, j) = Below(file, j)
    <2> TAKE j \in Whole(file)
    <2>1. ~(i < j)
      BY <1>3, <1>4 DEF i
    <2> QED BY <1>1, <2>1 DEF Below
  <1>7. Below(f, i) = Whole(file)
    <2>1. ~(i < i)
      BY <1>3 DEF i
    <2> QED BY <1>1, <1>4, <2>1 DEF Below
  <1>8. \A j \in Whole(file) : f[j].n = Cardinality(Below(f, j))
    BY <1>1, <1>6 DEF Numbered, Below
  <1>9. i \in Whole(f) => f[i].n = Cardinality(Below(f, i))
    BY <1>1, <1>7
  <1>10. \A j \in Whole(f) : j \in Whole(file) \/ j = i
    BY <1>1
  <1>11. Numbered(f)
    BY <1>8, <1>9, <1>10 DEF Numbered, Below
  <1> QED BY <1>5, <1>11 DEF f

-----------------------------------------------------------------------------
(* EPOHAL.DAT, step by step.  While the thread asks for a piece the file     *)
(* holds the pieces before it, all of the day of the last one kept; while it *)
(* looks at one, that one is the last.  What is left when it is done, or has *)
(* given up, is a beginning of the file or the whole of it.                  *)

Have == Cardinality(Whole(hal))

Asking ==
    /\ Numbered(hal) /\ OneDay(hal)
    /\ updated \/ failed \/ count # 0 => Have = count
    /\ Have \in {0, Pieces} \/ Have = count
    /\ count # 0 => \A i \in Whole(hal) : hal[i].day = last

Looking ==
    /\ Numbered(hal)
    /\ last <= Newest.day /\ Newest.day <= pub
    /\ Have = IF Newest.short THEN count ELSE count + 1
    /\ count = 0 => Len(hal) = 1
    /\ count # 0 => \A i \in Whole(hal) : i # Len(hal) => hal[i].day = last

Left == ~halfway => Numbered(hal) /\ OneDay(hal)

Filed ==
    /\ last <= pub
    /\ at # "wait" => ~halfway
    /\ at \in {"curl", "check"} => updated \/ failed
    /\ at \in {"loop", "curl"} => Asking
    /\ at = "check" => Looking
    /\ at = "wait" => Left
    /\ ResultTells

LEMMA HaveType == ASSUME TypeOK PROVE Have \in Nat
  BY WholeFinite DEF TypeOK, Have

LEMMA SameFiled ==
    ASSUME TypeOK, Order, Filed,
           UNCHANGED <<at, updated, failed, count, hal, last, halfway, job>>,
           pub' \in Days, pub <= pub'
    PROVE  Filed'
  <1>1. UNCHANGED <<Have, Newest>> /\ Numbered(hal)' = Numbered(hal) /\ OneDay(hal)' = OneDay(hal)
    BY DEF Have, Numbered, OneDay, Whole, Newest
  <1>2. \A d \in Days : d \in Int
    BY EpoAssumption DEF Days, EpoAssumption
  <1>3. last \in Int /\ pub \in Int /\ pub' \in Int
    BY <1>2 DEF TypeOK
  <1>4. last' <= pub'
    BY <1>3 DEF Filed
  <1>5. Asking => Asking'
    BY <1>1 DEF Asking, Whole
  <1>6. at = "check" /\ Looking => Looking'
    <2> SUFFICES ASSUME at = "check", Looking PROVE Looking'
      OBVIOUS
    <2>1. Newest.day \in Int
      BY <1>2, Pieced DEF Order
    <2>2. Newest'.day <= pub'
      BY <1>1, <1>3, <2>1 DEF Looking
    <2> QED BY <1>1, <2>2 DEF Looking, Whole
  <1>7. Left => Left'
    BY <1>1 DEF Left
  <1>8. ResultTells'
    BY <1>1 DEF Filed, ResultTells, Have
  <1> QED BY <1>4, <1>5, <1>6, <1>7, <1>8 DEF Filed

LEMMA FiledInit == Init => Filed
  <1> SUFFICES ASSUME Init PROVE Filed
    OBVIOUS
  <1>1. hal = <<>> /\ last = 0 /\ pub = 0 /\ at = "wait" /\ job = "none"
    BY DEF Init
  <1>2. Left
    BY <1>1, NoPieces DEF Left
  <1> QED BY <1>1, <1>2 DEF Filed, ResultTells

(* The session, the network and the other threads: only an order, which the  *)
(* thread waits for, changes the count.                                      *)
LEMMA MainFiled ==
    ASSUME TypeOK, Order, Filed,
           GpsStart \/ GpsStop \/ (\E n \in {"none", "mobile", "wifi"} : NetworkState(n)) \/ GpsRun
    PROVE  Filed'
  <1>1. Trigger \/ NoTrigger
    BY DEF GpsStart, GpsStop, NetworkState, GpsRun
  <1>2. UNCHANGED <<at, updated, failed, hal, last, halfway, pub>>
    BY DEF GpsStart, GpsStop, NetworkState, GpsRun, Untouched, flagVars, dayVars
  <1>3. pub \in Days /\ pub <= pub
    BY EpoAssumption DEF TypeOK, Days, EpoAssumption
  <1>4. CASE UNCHANGED <<mainVars, count>>
    BY <1>2, <1>3, <1>4, SameFiled DEF mainVars
  <1>5. CASE ~downloading /\ (UNCHANGED job \/ job' = "queued")
    <2>1. at = "wait" /\ at' = "wait"
      BY <1>2, <1>5 DEF Order
    <2>2. Left'
      BY <1>2, <2>1 DEF Filed, Left, Numbered, OneDay, Whole
    <2>3. ResultTells'
      BY <1>2, <1>5 DEF Filed, ResultTells, Whole
    <2> QED BY <1>2, <2>1, <2>2, <2>3 DEF Filed
  <1> QED BY <1>1, <1>4, <1>5 DEF Trigger, NoTrigger, mainVars

LEMMA OtherFiled ==
    ASSUME TypeOK, Order, Filed,
           RetryAlarm \/ QepoStep \/ QepoRequest \/ DayPasses \/ ServerUpdates \/ UNCHANGED vars
    PROVE  Filed'
  <1>1. UNCHANGED <<at, updated, failed, count, hal, last, halfway, job>>
    BY DEF RetryAlarm, QepoStep, QepoRecv, QepoTry, QepoRequest, DayPasses, ServerUpdates,
           QepoLeaves, vars, mainVars, flagVars, retryVars, fileVars, dayVars
  <1>2. pub \in Days /\ pub \in Int /\ today \in Days /\ today \in Int
    BY EpoAssumption DEF TypeOK, Days, EpoAssumption
  <1>3. pub' = pub \/ (pub < today /\ pub' = today)
    BY DEF RetryAlarm, QepoStep, QepoRecv, QepoTry, QepoRequest, DayPasses, ServerUpdates,
           QepoLeaves, vars, dayVars
  <1>4. pub' \in Days /\ pub <= pub'
    BY <1>2, <1>3
  <1> QED BY <1>1, <1>4, SameFiled

(* The library has the file, or there is none: the thread waits.             *)
LEMMA MainEpoDoneFiled ==
    ASSUME TypeOK, Order, Filed, MainEpoDone
    PROVE  Filed'
  <1>1. /\ UNCHANGED <<at, updated, failed, count, last, halfway, pub>>
        /\ job \in {"success", "fail"} /\ job' = "none"
        /\ hal' \in {hal, <<>>}
    BY DEF MainEpoDone, Untouched, flagVars, dayVars
  <1>2. at = "wait" /\ at' = "wait"
    BY <1>1 DEF Order
  <1>3. Left'
    <2>1. CASE hal' = hal
      BY <1>1, <1>2, <2>1 DEF Filed, Left, Numbered, OneDay, Whole
    <2>2. CASE hal' = <<>>
      <3>1. Numbered(hal)' /\ OneDay(hal)'
        BY <2>2, NoPieces DEF Numbered, OneDay, Whole
      <3> QED BY <3>1 DEF Left
    <2> QED BY <1>1, <2>1, <2>2
  <1>4. ResultTells'
    BY <1>1 DEF ResultTells
  <1> QED BY <1>1, <1>2, <1>3, <1>4 DEF Filed

(* An empty file to begin with. *)
LEMMA EmptyFiled ==
    ASSUME hal' = <<>>, count' = 0
    PROVE  Asking' /\ Have' = 0
  <1>1. Have' = 0 /\ Numbered(hal)' /\ OneDay(hal)'
    BY NoPieces DEF Have, Numbered, OneDay, Whole
  <1> QED BY <1>1 DEF Asking

LEMMA BeginsFiled ==
    ASSUME TypeOK, Order, Filed, EpoRecv \/ RetryRestarts
    PROVE  Filed'
  <1>1. /\ UNCHANGED <<last, pub>> /\ at' = "loop" /\ job' = "busy"
        /\ hal' = <<>> /\ count' = 0 /\ ~halfway'
    <2>1. CASE EpoRecv
      BY <2>1 DEF EpoRecv, Elsewhere, dayVars
    <2>2. CASE RetryRestarts
      <3>1. /\ UNCHANGED <<at, job, last, pub, halfway>> /\ at = "loop"
            /\ hal' = <<>> /\ count' = 0
        BY <2>2 DEF RetryRestarts, MayRetry, Gate, Elsewhere, dayVars, mainVars
      <3> QED BY <3>1 DEF Order, Filed
    <2> QED BY <2>1, <2>2
  <1>2. Asking'
    BY <1>1, EmptyFiled
  <1> QED BY <1>1, <1>2 DEF Filed, ResultTells

(* Steps of epo_file_update_impl() that leave the file and the count alone.  *)
LEMMA LoopFiled ==
    ASSUME TypeOK, Order, Filed, Loop \/ RetryUnserved \/ RetryDelayed \/ RetryPiece
    PROVE  Filed'
  <1>1. /\ UNCHANGED <<job, count, updated, hal, last, halfway, pub>>
        /\ at = "loop" /\ at' \in {"loop", "curl"}
        /\ updated' \/ failed' => updated \/ failed
        /\ at' = "curl" => updated' \/ failed'
    BY DEF Loop, RetryUnserved, RetryDelayed, RetryPiece, MayRetry, Gate, mainVars, flagVars,
           fileVars, Elsewhere, dayVars
  <1>2. Asking /\ last <= pub /\ ~halfway
    BY <1>1 DEF Filed
  <1>3. UNCHANGED Have /\ Numbered(hal)' = Numbered(hal) /\ OneDay(hal)' = OneDay(hal)
    BY <1>1 DEF Have, Numbered, OneDay, Whole
  <1>4. Asking'
    BY <1>1, <1>2, <1>3 DEF Asking, Whole
  <1>5. ResultTells'
    BY <1>1, <1>3 DEF Filed, ResultTells, Have
  <1> QED BY <1>1, <1>2, <1>4, <1>5 DEF Filed

(* A transfer that fails leaves the file alone, one that ends appends to it. *)
LEMMA CurlFiled ==
    ASSUME TypeOK, Order, Filed, NEW short \in BOOLEAN, NEW kept \in {"all", "cut", "none"},
           CurlBrings(short, kept)
    PROVE  Filed'
  <1> DEFINE piece == [n |-> count, day |-> pub, short |-> short, kept |-> kept]
             old == IF count = 0 THEN <<>> ELSE hal
  <1>1. /\ UNCHANGED <<job, count, updated, failed, last, halfway, pub>>
        /\ at = "curl" /\ at' = "check"
        /\ hal' = IF count = 0 THEN <<piece>> ELSE Append(hal, piece)
    BY DEF CurlBrings, mainVars, flagVars, Elsewhere, dayVars
  <1>2. piece \in Piece /\ piece.n = count /\ piece.day = pub /\ piece.short = short
    BY DEF TypeOK, Piece
  <1>3. Asking /\ (updated \/ failed) /\ last <= pub /\ ~halfway /\ job = "busy"
    BY <1>1 DEF Filed, Order
  <1>4. old \in Seq(Piece) /\ Numbered(old) /\ Cardinality(Whole(old)) = count
    <2>1. CASE count = 0
      BY <2>1, NoPieces
    <2>2. CASE count # 0
      BY <1>3, <2>2 DEF Asking, Have, TypeOK
    <2> QED BY <2>1, <2>2
  <1>5. hal' = Append(old, piece)
    <2>1. <<piece>> = Append(<<>>, piece)
      OBVIOUS
    <2> HIDE DEF piece
    <2> QED BY <1>1, <2>1
  <1> HIDE DEF piece
  <1>6. count # 0 => old = hal
    OBVIOUS
  <1>7. count = 0 => Len(old) = 0
    OBVIOUS
  <1> HIDE DEF old
  <1>8. /\ Len(hal)' = Len(old) + 1 /\ Newest' = piece
        /\ \A j \in Whole(old) : hal'[j] = old[j]
        /\ Whole(hal)' = IF short THEN Whole(old) ELSE Whole(old) \cup {Len(old) + 1}
    BY <1>2, <1>4, <1>5, OnePieceMore DEF Newest, Whole
  <1>9. /\ Numbered(hal)'
        /\ Have' = IF short THEN count ELSE count + 1
    <2>1. Numbered(Append(old, piece))
          /\ Cardinality(Whole(Append(old, piece))) = IF short THEN count ELSE count + 1
      BY <1>2, <1>4, OneMoreCounted
    <2> QED BY <1>5, <2>1 DEF Numbered, Have, Whole
  <1>10. pub \in Int
    BY EpoAssumption DEF TypeOK, Days, EpoAssumption
  <1>11. count # 0 => \A i \in Whole(hal)' : i # Len(hal)' => hal'[i].day = last
    <2>1. ASSUME count # 0, NEW i \in Whole(hal)', i # Len(hal)'
          PROVE  hal'[i].day = last
      <3>1. i \in Whole(old) /\ hal'[i] = old[i] /\ old = hal
        BY <1>6, <1>8, <2>1
      <3> QED BY <1>3, <2>1, <3>1 DEF Asking
    <2> QED BY <2>1
  <1>12. Looking'
    <2>1. last' <= Newest'.day /\ Newest'.day <= pub'
      BY <1>1, <1>2, <1>3, <1>8, <1>10
    <2>2. Have' = IF Newest'.short THEN count' ELSE count' + 1
      BY <1>1, <1>2, <1>8, <1>9
    <2>3. count' = 0 => Len(hal)' = 1
      BY <1>1, <1>7, <1>8
    <2>4. count' # 0 => \A i \in Whole(hal)' : i # Len(hal)' => hal'[i].day = last'
      BY <1>1, <1>11
    <2> QED BY <1>9, <2>1, <2>2, <2>3, <2>4 DEF Looking
  <1> QED BY <1>1, <1>3, <1>12 DEF Filed, ResultTells

(* What a transfer comes to: the flags say whether the thread goes on.       *)
LEMMA ReturnsFiled ==
    ASSUME NEW c, NEW f, NEW u, Returns(c, f, u), TypeOK, Order, Filed, at # "wait",
           Asking', last' <= pub
    PROVE  Filed'
  <1>1. at' = "loop" /\ UNCHANGED <<job, halfway, pub>>
    BY DEF Returns, mainVars, Elsewhere, dayVars
  <1>2. ~halfway /\ job = "busy"
    BY DEF Filed, Order
  <1> QED BY <1>1, <1>2 DEF Filed, ResultTells

LEMMA CurlFailsFiled ==
    ASSUME TypeOK, Order, Filed, CurlFails
    PROVE  Filed'
  <1>1. Returns(count, TRUE, updated) /\ UNCHANGED <<hal, last, count>> /\ at = "curl"
    BY DEF CurlFails, Returns
  <1>2. Asking /\ (updated \/ failed) /\ last <= pub
    BY <1>1 DEF Filed
  <1>3. UNCHANGED Have /\ Numbered(hal)' = Numbered(hal) /\ OneDay(hal)' = OneDay(hal)
    BY <1>1 DEF Have, Numbered, OneDay, Whole
  <1>4. Asking'
    BY <1>1, <1>2, <1>3 DEF Asking, Whole
  <1> QED BY <1>1, <1>2, <1>4, ReturnsFiled

(* A piece too short to be looked at: the file counts as it did.             *)
LEMMA CheckShortFiled ==
    ASSUME TypeOK, Order, Filed, CheckShort
    PROVE  Filed'
  <1>1. Returns(count, TRUE, updated) /\ UNCHANGED <<hal, last, count>> /\ at = "check" /\ Newest.short
    BY DEF CheckShort, Returns
  <1>2. Looking /\ last <= pub
    BY <1>1 DEF Filed
  <1>3. UNCHANGED Have /\ Numbered(hal)' = Numbered(hal) /\ OneDay(hal)' = OneDay(hal)
    BY <1>1 DEF Have, Numbered, OneDay, Whole
  <1>4. Have = count
    BY <1>1, <1>2 DEF Looking
  <1>5. Len(hal) \notin Whole(hal)
    BY <1>1 DEF Whole, Newest
  <1>6. count # 0 => \A i \in Whole(hal) : hal[i].day = last
    BY <1>2, <1>5 DEF Looking
  <1>7. OneDay(hal)
    <2>1. CASE count = 0
      <3>1. hal \in Seq(Piece) /\ Len(hal) = 1
        BY <1>2, <2>1 DEF Looking, TypeOK
      <3>2. \A i \in Whole(hal) : i \in Nat /\ i >= 1 /\ i <= Len(hal)
        BY <3>1, WholeFinite
      <3>3. \A i \in Whole(hal) : i = 1
        BY <3>1, <3>2
      <3> QED BY <3>3 DEF OneDay
    <2>2. CASE count # 0
      BY <1>6, <2>2 DEF OneDay
    <2> QED BY <2>1, <2>2
  <1>8. Asking'
    BY <1>1, <1>2, <1>3, <1>4, <1>6, <1>7 DEF Asking, Looking, Whole
  <1> QED BY <1>1, <1>2, <1>8, ReturnsFiled

LEMMA CheckChangedFiled ==
    ASSUME TypeOK, Order, Filed, CheckChanged
    PROVE  Filed'
  <1>1. Returns(0, failed, updated) /\ hal' = <<>> /\ UNCHANGED last /\ count' = 0 /\ at = "check"
    BY DEF CheckChanged, Returns
  <1>2. Asking' /\ last <= pub
    BY <1>1, EmptyFiled DEF Filed
  <1> QED BY <1>1, <1>2, ReturnsFiled

(* A piece kept is of the day of those before it: the server's data have not *)
(* changed, and its day is never an earlier one.                             *)
LEMMA KeptOneDay ==
    ASSUME TypeOK, Order, Looking, ~Newest.short, ~Changed
    PROVE  \A i \in Whole(hal) : hal[i].day = Newest.day
  <1>1. hal \in Seq(Piece) /\ count \in Nat
    BY Origins DEF TypeOK
  <1>2. CASE count = 0
    <2>1. Len(hal) = 1
      BY <1>2 DEF Looking
    <2>2. \A i \in Whole(hal) : i \in Nat /\ i >= 1 /\ i <= Len(hal)
      BY <1>1, WholeFinite
    <2>3. \A i \in Whole(hal) : i = Len(hal)
      BY <2>1, <2>2
    <2> QED BY <2>3 DEF Newest
  <1>3. CASE count # 0
    <2>1. hal # <<>> \/ Whole(hal) = {}
      BY DEF Whole
    <2>2. CASE hal # <<>>
      <3>1. Newest.day \in Int /\ last \in Int
        BY <2>2, Pieced, EpoAssumption DEF TypeOK, Days, EpoAssumption
      <3>2. Newest.day = last
        BY <1>1, <1>3, <3>1 DEF Looking, Changed
      <3>3. \A i \in Whole(hal) : i # Len(hal) => hal[i].day = last
        BY <1>3 DEF Looking
      <3> QED BY <3>2, <3>3 DEF Newest
    <2> QED BY <2>1, <2>2
  <1> QED BY <1>2, <1>3

LEMMA CheckKeptFiled ==
    ASSUME TypeOK, Order, Filed, CheckKept
    PROVE  Filed'
  <1>1. /\ UNCHANGED hal /\ last' = Newest.day /\ at = "check" /\ ~Newest.short /\ ~Changed
        /\ IF MorePieces THEN Returns(count + 1, failed, updated) ELSE Returns(0, FALSE, FALSE)
    BY DEF CheckKept
  <1>2. Looking /\ last <= pub
    BY <1>1 DEF Filed
  <1>3. UNCHANGED <<Have, Whole(hal)>> /\ Numbered(hal)' /\ Have = count + 1
    BY <1>1, <1>2 DEF Have, Numbered, Whole, Looking
  <1>4. \A i \in Whole(hal) : hal[i].day = Newest.day
    BY <1>1, <1>2, KeptOneDay
  <1>5. \A i \in Whole(hal)' : hal'[i].day = last'
    BY <1>1, <1>3, <1>4
  <1>6. OneDay(hal)'
    BY <1>5 DEF OneDay
  <1>7. last' <= pub
    BY <1>1, <1>2 DEF Looking
  <1>8. CASE MorePieces
    <2>1. Returns(count + 1, failed, updated)
      BY <1>1, <1>8
    <2>2. count' = count + 1
      BY <2>1 DEF Returns
    <2>3. Asking'
      BY <1>3, <1>5, <1>6, <2>2 DEF Asking
    <2> QED BY <1>1, <1>7, <2>1, <2>3, ReturnsFiled
  <1>9. CASE ~MorePieces
    <2>1. Returns(0, FALSE, FALSE)
      BY <1>1, <1>9
    <2>2. count' = 0 /\ ~updated'
      BY <2>1 DEF Returns
    <2>3. ~failed'
      <3>1. CASE Fruitless(FALSE, statics.delay_time)
        BY <3>1 DEF Fruitless
      <3>2. CASE failed' = FALSE
        BY <3>2
      <3> QED BY <2>1, <3>1, <3>2 DEF Returns
    <2>4. Have = Pieces
      <3>1. count \in Nat /\ count <= Pieces - 1 /\ Pieces \in Nat
        BY EpoAssumption DEF TypeOK, Numbers, EpoAssumption
      <3> QED BY <1>3, <1>9, <3>1 DEF MorePieces
    <2>5. Asking'
      BY <1>3, <1>6, <2>2, <2>3, <2>4 DEF Asking
    <2> QED BY <1>1, <1>7, <2>1, <2>5, ReturnsFiled
  <1> QED BY <1>8, <1>9

LEMMA EpoDoneFiled ==
    ASSUME TypeOK, Order, Filed, EpoDone
    PROVE  Filed'
  <1>1. /\ UNCHANGED <<count, updated, failed, hal, last, halfway, pub>>
        /\ at = "loop" /\ at' = "wait" /\ job' \in {Result, "none"}
    BY DEF EpoDone, Gate, flagVars, fileVars, Elsewhere, dayVars
  <1>2. Asking /\ last <= pub
    BY <1>1 DEF Filed
  <1>3. Left'
    BY <1>1, <1>2 DEF Left, Asking, Numbered, OneDay, Whole
  <1>4. /\ count = 0 => Have \in {0, Pieces}
        /\ count # 0 => Have \in 1..(Pieces - 1)
    <2>1. count \in Nat /\ count <= Pieces - 1 /\ Pieces \in Nat
      BY EpoAssumption DEF TypeOK, Numbers, EpoAssumption
    <2>2. count = 0 => Have \in {0, Pieces}
      BY <1>2 DEF Asking
    <2>3. count # 0 => Have = count
      BY <1>2 DEF Asking
    <2> QED BY <2>1, <2>2, <2>3
  <1>5. ResultTells'
    BY <1>1, <1>4 DEF ResultTells, Result, Have, Whole
  <1> QED BY <1>1, <1>2, <1>3, <1>5 DEF Filed

LEMMA CrashFiled ==
    ASSUME TypeOK, Order, Filed, Crash
    PROVE  Filed'
  <1>1. /\ UNCHANGED <<hal, last, pub>> /\ at' = "wait" /\ job' = "none"
        /\ halfway' = (halfway \/ at = "check")
    BY DEF Crash, dayVars
  <1>2. ~halfway' => Numbered(hal) /\ OneDay(hal)
    BY <1>1 DEF Filed, Asking, Left, TypeOK
  <1>3. Left'
    BY <1>1, <1>2 DEF Left, Numbered, OneDay, Whole
  <1> QED BY <1>1, <1>3 DEF Filed, ResultTells

LEMMA FiledStep == TypeOK /\ Order /\ Filed /\ [Next]_vars => Filed'
  BY MainFiled, OtherFiled, MainEpoDoneFiled, BeginsFiled, LoopFiled, CurlFiled, CurlFailsFiled,
     CheckShortFiled, CheckChangedFiled, CheckKeptFiled, EpoDoneFiled, CrashFiled
     DEF Next, EpoStep

(* What is brought for EPOHAL.DAT are the pieces from the first on, each     *)
(* once and of one day, and gps_epo_file_count is their number while a       *)
(* download runs, although the main thread writes it too, tries and writes   *)
(* fail, the server's data change and the process may die between two steps. *)
(* The file holds them in this order, as far as they could be written.       *)
THEOREM FileIsInOrder == Spec => []HalInOrder
  <1>1. TypeOK /\ Order /\ Filed /\ [Next]_vars => (TypeOK /\ Order /\ Filed)'
    BY EpoStepType, FiledStep
  <1>2. TypeOK /\ Filed => HalInOrder
    BY DEF TypeOK, Filed, HalInOrder, Asking, Left, Have
  <1> QED BY <1>1, <1>2, EpoInit, FiledInit, PTL DEF Spec

(* What mnld_epo_download_done() reports is true of what was brought: a      *)
(* success is all the pieces or none, a failure is some of them.  It does    *)
(* not say that they could be written.                                       *)
THEOREM ResultTellsTheTruth == Spec => []ResultTells
  <1>1. TypeOK /\ Order /\ Filed /\ [Next]_vars => (TypeOK /\ Order /\ Filed)'
    BY EpoStepType, FiledStep
  <1>2. Filed => ResultTells
    BY DEF Filed
  <1> QED BY <1>1, <1>2, EpoInit, FiledInit, PTL DEF Spec

=============================================================================
