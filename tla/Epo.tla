-------------------------------- MODULE Epo --------------------------------
(***************************************************************************)
(* mnld's EPO downloader (epo.c): a thread that fetches the satellite      *)
(* prediction in pieces of three days, appends them to EPOHAL.DAT as well  *)
(* as the disk lets it, and tries again when a piece does not come; the    *)
(* main thread, which orders a download and hands the file to the library  *)
(* (mnld.c); the GPS control thread, which hands it over too when a        *)
(* session starts (gps_controller.c); and the QEPO downloader, which holds *)
(* the EPO thread up while it works (qepo.c).  The process may die; files  *)
(* stay.                                                                   *)
(*                                                                         *)
(* A day is the unit of time.  The server offers the prediction of the day *)
(* pub, whose piece n begins on day pub + 3n.                              *)
(*                                                                         *)
(* An operator no action uses is a faulty variant of the definition that   *)
(* follows it.                                                             *)
(***************************************************************************)
EXTENDS Integers, Sequences, FiniteSets

CONSTANTS
    Pieces,       \* gps_epo_download_days / 3, rounded up
    MaxRetries,   \* 10 in epo_file_update_retry()
    MaxDelays,    \* 10 there too
    MaxTries,     \* try_time, 10 in qepo_file_update_impl()
    MaxDay,       \* days that pass
    MaxQepo,      \* requests of the library for a QEPO file
    MaxBad,       \* pieces in a file that are cut short or not all written
    Faults        \* "crash" of the process, "lost" datagrams, "disk" errors

None == 50   \* file_retrying: "50 for first restore"

ASSUME EpoAssumption ==
    /\ Pieces \in 1..10
    /\ {MaxRetries, MaxDelays, MaxTries, MaxDay, MaxQepo, MaxBad} \subseteq Nat
    /\ Faults \subseteq {"crash", "lost", "disk"}

VARIABLES
    downloading,   \* epo_status.is_epo_downloading
    job,           \* the order or its result, on its way between the threads
    lost,          \* one of them was dropped by safe_sendto()
    gps, net,      \* the session's state; is_network_connected, is_wifi_connected
    at, by,        \* where the EPO thread is; what called for a piece
    count,         \* gps_epo_file_count
    updated,       \* epo_data_updated
    failed,        \* epo_download_failed
    retry, alarm,  \* epo_download_retry; is retry_download_timer running
    statics,       \* what epo_file_update_retry() remembers
    hal,           \* EPOHAL.DAT: the pieces brought for it, and how much of
                   \* each it keeps
    last,          \* the day of the last piece kept
    dat,           \* EPO.DAT: the dates it tells
    halfway,       \* the process died between appending a piece and looking at it
    tries,         \* failures in a row on the same piece
    qepo,          \* the QEPO thread, its tries left and the requests made
    today, pub     \* the date; the day of what the server offers

mainVars  == <<downloading, job, lost>>
flagVars  == <<updated, failed>>
retryVars == <<retry, alarm, statics>>
fileVars  == <<hal, last, dat, halfway>>
dayVars   == <<today, pub>>
vars == <<mainVars, gps, net, at, by, count, flagVars, retryVars, fileVars, tries, qepo, dayVars>>

Days    == 0..MaxDay
Numbers == 0..(Pieces - 1)
Piece   == [n : Numbers, day : Days, short : BOOLEAN, kept : {"all", "cut", "none"}]
Dates   == [day : Nat, days : Int, begins : BOOLEAN, ends : BOOLEAN]
Counts  == [delay_time : 0..MaxDelays, file_retrying : Numbers \cup {None}, retry_time : 0..MaxRetries]
Qepo    == [at : {"wait", "queued", "try"}, left : 0..MaxTries, made : 0..MaxQepo]
Covering(days) == [day |-> 0, days |-> days, begins |-> TRUE, ends |-> TRUE]
Absent  == Covering(0)
Statics == [delay_time |-> 0, file_retrying |-> None, retry_time |-> 0]

TypeOK ==
    /\ downloading \in BOOLEAN
    /\ job \in {"none", "queued", "busy", "success", "fail"}
    /\ lost \in BOOLEAN
    /\ gps \in {"off", "starting", "started"}
    /\ net \in {"none", "mobile", "wifi"}
    /\ at \in {"wait", "loop", "curl", "check"}
    /\ by \in {"loop", "retry"}
    /\ count \in Numbers
    /\ updated \in BOOLEAN /\ failed \in BOOLEAN
    /\ retry \in BOOLEAN /\ alarm \in BOOLEAN
    /\ statics \in Counts
    /\ hal \in Seq(Piece)
    /\ last \in Days
    /\ dat \in Dates
    /\ halfway \in BOOLEAN
    /\ tries \in Nat
    /\ qepo \in Qepo
    /\ today \in Days /\ pub \in Days

(* No file, or the EPO.DAT of an earlier life. *)
Init ==
    /\ downloading = FALSE /\ job = "none" /\ lost = FALSE
    /\ gps = "off" /\ net = "none"
    /\ at = "wait" /\ by = "loop"
    /\ count = 0
    /\ updated = FALSE /\ failed = FALSE
    /\ retry = TRUE /\ alarm = FALSE
    /\ statics = Statics
    /\ hal = <<>> /\ last = 0
    /\ dat \in {Absent, Covering(3 * Pieces)}
    /\ halfway = FALSE
    /\ tries = 0
    /\ qepo = [at |-> "wait", left |-> MaxTries, made |-> 0]
    /\ today = 0 /\ pub = 0

-----------------------------------------------------------------------------
(* The files.                                                                *)

(* Where the pieces are that were brought with at least a first record, and  *)
(* those of which not everything is in the file.                             *)
Whole(file) == {i \in DOMAIN file : ~file[i].short}
Bad(file)   == {i \in DOMAIN file : file[i].short \/ file[i].kept # "all"}

(* A piece for which EPOHAL.DAT could not be opened leaves no trace in it,   *)
(* nor does it create the file.                                              *)
InFile == {i \in DOMAIN hal : hal[i].kept # "none"}
First  == {i \in InFile : \A j \in InFile : i <= j}
Final  == {i \in InFile : \A j \in InFile : j <= i}

Begin(i) == hal[i].day + 3 * hal[i].n
End(i)   == Begin(i) + 3

(* mtk_gps_epo_file_time_hal() reads the first and the last record of         *)
(* EPOHAL.DAT if there is one, else of EPO.DAT.  A file shorter than a record *)
(* is an error.  One that begins or ends with a damaged piece may tell any    *)
(* date there: begins and ends say whether to trust day and days.             *)
HalDates ==
    {IF InFile = {i} /\ hal[i].short THEN Absent
     ELSE [day |-> Begin(i), days |-> End(k) - Begin(i),
           begins |-> i \notin Bad(hal), ends |-> k \notin Bad(hal)] : i \in First, k \in Final}

Told == IF InFile # {} THEN HalDates ELSE {dat}

(* mtk_epo_is_expired(): how long a file serves depends on the days it       *)
(* covers; one that begins in the future does not serve.                     *)
Serves(days) == CASE days < 3 -> 0 [] days < 6 -> 2 [] days < 9 -> 5 [] OTHER -> 7

Unclear(file) == ~file.begins \/ ~file.ends
InUse(file)   == file.day <= today /\ today < file.day + Serves(file.days)

(* What the test may find; either, if the dates cannot be trusted. *)
Expired    == \E file \in Told : Unclear(file) \/ ~InUse(file)
NotExpired == \E file \in Told : Unclear(file) \/ InUse(file)

-----------------------------------------------------------------------------
(* The main thread, on which session and network changes order a download.   *)
(* The test for an expired file, made here, sets the other thread's count to *)
(* 0; downloads may be disabled by the configuration.                        *)

TriggerTestsFirst ==
    \/ NotExpired /\ UNCHANGED <<mainVars, count>>
    \/ Expired /\ downloading /\ count' = 0 /\ UNCHANGED mainVars
    \/ Expired /\ ~downloading /\ count' = 0 /\ downloading' = TRUE /\ job' = "queued"
       /\ UNCHANGED lost
Trigger ==
    \/ (downloading \/ NotExpired) /\ UNCHANGED <<mainVars, count>>
    \/ /\ ~downloading /\ Expired
       /\ count' = 0
       /\ \/ UNCHANGED mainVars
          \/ downloading' = TRUE /\ job' = "queued" /\ UNCHANGED lost
          \/ "lost" \in Faults /\ downloading' = TRUE /\ lost' = TRUE /\ UNCHANGED job

NoTrigger == UNCHANGED <<mainVars, count>>
Untouched == UNCHANGED <<at, by, flagVars, retryVars, last, halfway, tries, dayVars>>

(* hal_gps_start(); other users' requests order no download. *)
GpsStart ==
    /\ gps = "off"
    /\ gps' = "starting"
    /\ Trigger \/ NoTrigger
    /\ UNCHANGED <<net, hal, dat, qepo>>
    /\ Untouched

GpsStop ==
    /\ gps # "off"
    /\ gps' = "off"
    /\ NoTrigger
    /\ UNCHANGED <<net, hal, dat, qepo>>
    /\ Untouched

(* hal_update_network_state(); that Wi-Fi alone triggers is a setting. *)
NetworkState(n) ==
    /\ n # net
    /\ net' = n
    /\ \/ n # "none" /\ (gps # "off" \/ n = "wifi") /\ Trigger
       \/ (n = "none" \/ gps = "off") /\ NoTrigger
    /\ UNCHANGED <<gps, hal, dat, qepo>>
    /\ Untouched

(* mtk_agps_agent_epo_file_update(): the library makes EPO.DAT of the file. *)
Inject == InFile # {} /\ dat' \in HalDates

(* EPO_DONE, whatever the result. *)
MainKeepsFlag == UNCHANGED downloading
MainClearsFlag == downloading' = FALSE

MainEpoDone ==
    /\ job \in {"success", "fail"}
    /\ job' = "none"
    /\ MainClearsFlag
    /\ \/ gps = "started" /\ Inject /\ hal' = <<>>
       \/ UNCHANGED <<hal, dat>>
    /\ UNCHANGED <<lost, gps, net, count, qepo>>
    /\ Untouched

(* linux_gps_init(), on the GPS control thread, whatever the EPO thread does. *)
GpsRun ==
    /\ gps = "starting"
    /\ gps' = "started"
    /\ Inject \/ UNCHANGED dat
    /\ UNCHANGED <<net, hal, qepo>>
    /\ NoTrigger
    /\ Untouched

-----------------------------------------------------------------------------
(* The EPO thread: epo_file_update_impl().                                   *)

Elsewhere == UNCHANGED <<gps, net, qepo, dayVars>>

EpoRecv ==
    /\ at = "wait"
    /\ job = "queued"
    /\ job' = "busy"
    /\ at' = "loop"
    /\ updated' = TRUE /\ failed' = FALSE
    /\ count' = 0
    /\ hal' = <<>> /\ dat' = Absent /\ halfway' = FALSE
    /\ tries' = 0
    /\ UNCHANGED <<downloading, lost, by, retryVars, last>>
    /\ Elsewhere

(* is_qepo_download_finished() *)
Gate == at = "loop" /\ qepo.at # "try"

Loop ==
    /\ Gate
    /\ updated
    /\ failed' = FALSE
    /\ at' = "curl" /\ by' = "loop"
    /\ UNCHANGED <<mainVars, count, updated, retryVars, fileVars, tries>>
    /\ Elsewhere

(* epo_file_update_retry(): without a session and Wi-Fi it gives up... *)
MayRetry == Gate /\ ~updated /\ failed
Served == gps # "off" \/ net = "wifi"

RetryUnserved ==
    /\ MayRetry
    /\ ~Served
    /\ failed' = FALSE
    /\ statics' = [statics EXCEPT !.delay_time = 0]
    /\ UNCHANGED <<mainVars, at, by, count, updated, retry, alarm, fileVars, tries>>
    /\ Elsewhere

(* ... without a network it waits a little... *)
RetryDelayed ==
    /\ MayRetry
    /\ Served
    /\ retry /\ net = "none"
    /\ \/ /\ statics.delay_time < MaxDelays
          /\ statics' = [statics EXCEPT !.delay_time = @ + 1]
          /\ UNCHANGED failed
       \/ /\ statics.delay_time >= MaxDelays
          /\ statics' = [statics EXCEPT !.delay_time = 0]
          /\ failed' = FALSE
    /\ UNCHANGED <<mainVars, at, by, count, updated, retry, alarm, fileVars, tries>>
    /\ Elsewhere

(* ... and what did not bring the file forward is counted: a number of times *)
(* in a row the timer is to wake the thread, then it gives up.               *)
Restored == IF statics.file_retrying = None THEN [statics EXCEPT !.file_retrying = count]
                                            ELSE statics

Counted == IF Restored.file_retrying = count
              THEN [Restored EXCEPT !.retry_time = @ + 1]
              ELSE [Restored EXCEPT !.file_retrying = count, !.retry_time = 0]

FruitlessUntimed(f, delay) ==
    /\ failed' = f
    /\ retry' = FALSE
    /\ statics' = [Counted EXCEPT !.delay_time = delay]
    /\ UNCHANGED alarm
FruitlessForGood(f, delay) ==
    /\ failed' = f
    /\ retry' = FALSE /\ alarm' = TRUE
    /\ statics' = [Counted EXCEPT !.delay_time = delay, !.retry_time = 0]
Fruitless(f, delay) ==
    \/ /\ Counted.retry_time < MaxRetries
       /\ statics' = [Counted EXCEPT !.delay_time = delay]
       /\ retry' = FALSE /\ alarm' = TRUE
       /\ failed' = f
    \/ /\ Counted.retry_time >= MaxRetries
       /\ statics' = Statics
       /\ failed' = FALSE
       /\ UNCHANGED <<retry, alarm>>

(* A file that seems a day old is thrown away and begun again. *)
Old    == \E file \in Told : file # Absent /\ (~file.begins \/ today >= file.day + 1)
NotOld == \E file \in Told : file = Absent \/ ~file.begins \/ today < file.day + 1

RetryRestarts ==
    /\ MayRetry
    /\ Served
    /\ retry /\ net # "none"
    /\ Old
    /\ updated' = TRUE
    /\ count' = 0
    /\ hal' = <<>>
    /\ \/ count = 0 /\ Fruitless(FALSE, 0)
       \/ /\ count # 0
          /\ failed' = FALSE
          /\ statics' = [Restored EXCEPT !.delay_time = 0]
          /\ UNCHANGED <<retry, alarm>>
    /\ tries' = 0
    /\ UNCHANGED <<mainVars, at, by, last, dat, halfway>>
    /\ Elsewhere

RetryPiece ==
    /\ MayRetry
    /\ Served
    /\ retry /\ net # "none"
    /\ NotOld
    /\ at' = "curl" /\ by' = "retry"
    /\ UNCHANGED <<mainVars, count, flagVars, retryVars, fileVars, tries>>
    /\ Elsewhere

(* mtk_gps_epo_file_update() returns to either with count, failed and        *)
(* updated as c, f and u.                                                    *)
Returns(c, f, u) ==
    /\ at' = "loop" /\ by' = "loop"
    /\ count' = c
    /\ \/ by = "loop" /\ failed' = f /\ updated' = (u /\ ~f) /\ UNCHANGED retryVars
       \/ by = "retry" /\ c = count /\ updated' = u /\ Fruitless(f, statics.delay_time)
       \/ /\ by = "retry" /\ c # count
          /\ updated' = u /\ failed' = f
          /\ statics' = Restored
          /\ UNCHANGED <<retry, alarm>>
    /\ UNCHANGED <<mainVars, dat, halfway>>
    /\ Elsewhere

CurlFails ==
    /\ at = "curl"
    /\ Returns(count, TRUE, updated)
    /\ tries' = tries + 1
    /\ UNCHANGED <<hal, last>>

(* The piece is appended, the first to an empty file; that EPOHAL.DAT or the *)
(* piece cannot be opened, or not all of it written, is only logged (a short *)
(* piece that is cut is just short)...                                       *)
CurlBrings(short, kept) ==
    /\ at = "curl"
    /\ kept # "all" => "disk" \in Faults
    /\ kept = "cut" => ~short
    /\ short \/ kept # "all" => Cardinality(Bad(hal)) < MaxBad
    /\ LET piece == [n |-> count, day |-> pub, short |-> short, kept |-> kept]
       IN hal' = IF count = 0 THEN <<piece>> ELSE Append(hal, piece)
    /\ at' = "check"
    /\ UNCHANGED <<mainVars, by, count, flagVars, retryVars, last, dat, halfway, tries>>
    /\ Elsewhere

(* ... and looked at, as it came, in a file of its own:                      *)
(* mtk_gps_epo_server_data_is_changed().  One that is too short to tell its  *)
(* day is a failure, but stays in EPOHAL.DAT.                                *)
Newest == hal[Len(hal)]
ChangedFirstOnly == ~Newest.short /\ count = 1 /\ Newest.day > last
Changed == ~Newest.short /\ count > 0 /\ Newest.day > last

CheckShort ==
    /\ at = "check"
    /\ Newest.short
    /\ Returns(count, TRUE, updated)
    /\ tries' = tries + 1
    /\ UNCHANGED <<hal, last>>

CheckChanged ==
    /\ at = "check"
    /\ Changed
    /\ hal' = <<>>
    /\ Returns(0, failed, updated)
    /\ tries' = 0
    /\ UNCHANGED last

OneMorePiece == count < Pieces
MorePieces == count + 1 < Pieces

CheckKept ==
    /\ at = "check"
    /\ ~Newest.short /\ ~Changed
    /\ IF MorePieces THEN Returns(count + 1, failed, updated)
                     ELSE Returns(0, FALSE, FALSE)
    /\ last' = Newest.day
    /\ tries' = 0
    /\ UNCHANGED hal

(* mnld_epo_download_done() *)
ResultAlwaysGood == "success"
Result == IF count # 0 THEN "fail" ELSE "success"

EpoDone ==
    /\ Gate
    /\ ~updated /\ ~failed
    /\ at' = "wait"
    /\ \/ job' = Result /\ UNCHANGED lost
       \/ "lost" \in Faults /\ job' = "none" /\ lost' = TRUE
    /\ UNCHANGED <<downloading, by, count, flagVars, retryVars, fileVars, tries>>
    /\ Elsewhere

(* retry_alarm_timeout_handler() *)
RetryAlarm ==
    /\ alarm
    /\ alarm' = FALSE
    /\ retry' = TRUE
    /\ UNCHANGED <<mainVars, gps, net, at, by, count, flagVars, statics, fileVars, tries, qepo,
                   dayVars>>

-----------------------------------------------------------------------------
(* The QEPO thread: the library asks, and it tries until the file is valid,  *)
(* its tries are used up or the network is gone.                             *)

QepoLeaves == UNCHANGED <<mainVars, gps, net, at, by, count, flagVars, retryVars, fileVars, tries,
                          dayVars>>

QepoRequest ==
    /\ gps # "off"
    /\ qepo.at = "wait"
    /\ qepo.made < MaxQepo
    /\ qepo' = [qepo EXCEPT !.at = "queued", !.made = @ + 1]
    /\ QepoLeaves

QepoRecv ==
    /\ qepo.at = "queued"
    /\ qepo' = [qepo EXCEPT !.at = "try", !.left = MaxTries]
    /\ QepoLeaves

QepoTry ==
    /\ qepo.at = "try"
    /\ \/ /\ qepo.left > 0 /\ net # "none"
          /\ qepo' = [qepo EXCEPT !.left = @ - 1]
       \/ qepo' = [qepo EXCEPT !.at = "wait"]
    /\ QepoLeaves

-----------------------------------------------------------------------------
DayPasses ==
    /\ today < MaxDay
    /\ today' = today + 1
    /\ UNCHANGED <<mainVars, gps, net, at, by, count, flagVars, retryVars, fileVars, tries, qepo,
                   pub>>

ServerUpdates ==
    /\ pub < today
    /\ pub' = today
    /\ UNCHANGED <<mainVars, gps, net, at, by, count, flagVars, retryVars, fileVars, tries, qepo,
                   today>>

(* The process dies and is started again; the files stay. *)
Crash ==
    /\ "crash" \in Faults
    /\ downloading' = FALSE /\ job' = "none" /\ lost' = FALSE
    /\ gps' = "off" /\ net' = "none"
    /\ at' = "wait" /\ by' = "loop"
    /\ count' = 0
    /\ updated' = FALSE /\ failed' = FALSE
    /\ retry' = TRUE /\ alarm' = FALSE
    /\ statics' = Statics
    /\ halfway' = (halfway \/ at = "check")
    /\ tries' = 0
    /\ qepo' = [qepo EXCEPT !.at = "wait"]
    /\ UNCHANGED <<hal, last, dat, dayVars>>

EpoStep ==
    \/ EpoRecv \/ Loop \/ EpoDone
    \/ RetryUnserved \/ RetryDelayed \/ RetryRestarts \/ RetryPiece
    \/ CurlFails
    \/ (\E short \in BOOLEAN, kept \in {"all", "cut", "none"} : CurlBrings(short, kept))
    \/ CheckShort \/ CheckChanged \/ CheckKept

QepoStep == QepoRecv \/ QepoTry

Next ==
    \/ EpoStep \/ QepoStep \/ RetryAlarm \/ MainEpoDone \/ GpsRun
    \/ GpsStart \/ GpsStop \/ QepoRequest
    \/ \E n \in {"none", "mobile", "wifi"} : NetworkState(n)
    \/ DayPasses \/ ServerUpdates
    \/ Crash

Spec == Init /\ [][Next]_vars

(* The threads run, a transfer ends (CURLOPT_TIMEOUT), a timer expires. *)
FairSpec ==
    /\ Spec
    /\ WF_vars(EpoStep) /\ WF_vars(QepoStep) /\ WF_vars(RetryAlarm) /\ WF_vars(MainEpoDone)

-----------------------------------------------------------------------------
(* What is brought for EPOHAL.DAT are the pieces from the first on, each     *)
(* once, in order and all of one day, however often the server changes its   *)
(* data, tries fail, the disk fails or the process dies -- but for pieces    *)
(* cut short, which nobody removes, and for a process that dies with a piece *)
(* appended it has not looked at.  The file holds them in that order, as     *)
(* much of each as could be written.  While a download runs                  *)
(* gps_epo_file_count, which the main thread writes too, is their number.    *)
Numbered(file) == \A i \in Whole(file) : file[i].n = Cardinality({j \in Whole(file) : j < i})
OneDay(file)   == \A i, j \in Whole(file) : file[i].day = file[j].day

HalInOrder ==
    /\ at # "check" /\ ~halfway => Numbered(hal) /\ OneDay(hal)
    /\ at \in {"loop", "curl"} /\ (updated \/ failed) => Cardinality(Whole(hal)) = count

(* A download that is reported a success has brought every piece or not a    *)
(* single one; one that is reported failed has brought some of them.  What   *)
(* the disk did to them no result tells.                                     *)
ResultTells ==
    /\ job = "success" => Cardinality(Whole(hal)) \in {0, Pieces}
    /\ job = "fail" => Cardinality(Whole(hal)) \in 1..(Pieces - 1)

(* is_epo_downloading is set exactly while an order, the download or its     *)
(* result is under way, unless a datagram was dropped: then no other         *)
(* download follows for the life of the process.                             *)
FlagIsTrue == lost \/ (downloading <=> job # "none")

(* A piece that does not come is asked for a bounded number of times in a    *)
(* row, although the counts survive from one download to the next.           *)
RetriesBounded == tries <= MaxRetries + 2

(* A download ends, unless its result is lost or it keeps finding a file     *)
(* that seems a day old and begins again.                                    *)
DownloadEnds == <>[](downloading /\ ~lost) => []<>Old

=============================================================================
