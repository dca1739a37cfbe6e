# A formal model of the location stack and HALs of the Galaxy Grand Prime Plus

This directory holds TLA+ specifications of the device tree
`android_device_samsung_grandppltedx` (Samsung SM-G532, MediaTek MT6737T),
checked with TLC and, in large part, proved with TLAPS.  Paths below are
relative to the repository, except `mnld.c`, `gps_controller.c`, `epo.c` and
`qepo.c`, which stand for `src/mtk/gps/mtk_mnld/mnld_entity/src/...`, and the
files of `src/wifi_hal` and `src/mtk/graphics/gui_ext`.

- [The system](#the-system)
- [The modules](#the-modules)
- [What the runs show](#what-the-runs-show)
- [Bounds](#bounds)
- [Fairness](#fairness)
- [Where the code departs from its comments](#where-the-code-departs-from-its-comments)
- [What is proved](#what-is-proved)
- [What is only model-checked](#what-is-only-model-checked)
- [What is not modelled](#what-is-not-modelled)
- [Plan](#plan)

## The system

Most of the tree is configuration: makefiles, SELinux policy, resources, kernel
and framework headers.  The programs in it are the GPS daemon and its HAL, the
Wi-Fi HAL and a number of small HALs and services.

### mnld, the GPS daemon (`src/mtk/gps/mtk_mnld`)

One process, restarted by init whenever it dies (`service mnld`, class `main`,
in `src/rootdir/init.mt6735.rc`).  It hosts the closed MNL library, which runs
the receiver, and serves six kinds of users: the HAL (location framework), AGPS
(assistance daemon), FLP (fused location, possibly on the offloaded engine), the
FLP test, the AT command test and the factory test.

| part | state | operations | meets |
| --- | --- | --- | --- |
| main thread, `mnld.c` | `gps_state` (IDLE, STARTING, STARTED, STOPPING), three flags per user, the aiding data to delete, `is_epo_downloading`, network state | a handler for each client request, `main_event_hdlr()` for internal events, `mnld_fsm()` | clients by datagram sockets, the GPS control thread by two datagram sockets, timers by callbacks |
| GPS control thread, `gps_controller.c` | where it is in a start or stop, the library, the power switch in the driver | `mnld_gps_start()`, `mnld_gps_stop()`, `mnld_gps_delete_aiding_data()`, the NMEA monitor | main thread; the library, whose callbacks arrive on threads of its own |
| timers and sockets, `utility/src/mtk_lbs_utility.c` | armed timers, queued datagrams | `start_timer()`, `stop_timer()`, `safe_sendto()` | everybody |
| EPO and QEPO downloaders, `epo.c`, `qepo.c` | the piece to fetch, retries, the files | download, merge, inject | main thread by a job and a result message |
| AGPS dispatcher, in `gps_controller.c` | `state_mode`, `AGENT_SET_ALARM` | requests of AGPSD to the library's agent | AGPSD, library, SIGALRM |
| AT command test, debug and op01 logs, MPE bridge, NMEA parser | test progress, double buffers, sensor bridge, satellites of the current report | one callback per sentence or command | the library's callback thread |

What makes it correct: the state machine, the thread that does its work and the
library are three machines that only agree through queues.  A start answered by
an old report, a stop answered twice, a watchdog of a step that is over, or an
acknowledgement given to the wrong request would all pass unnoticed in a test
that drives one client at a time.  Everything transient is watched by a timer
whose callback kills the process (`CRASH_TO_DEBUG`), so crash and restart are
ordinary steps here; what survives is the wakelock, which the HAL holds and the
daemon only orders in datagrams, and the driver's power switch, until the new
process has put it in order -- if the switch obeys, which nobody checks.

### The GPS HAL (`src/mtk/gps/gps_hal`)

Runs inside the system server.  It keeps what the framework wants
(`gps_state_intent`) and what the daemon was last told (`gps_state`); the
framework's threads write both, a worker thread replays the wish when the
daemon announces that it has restarted.  Correct means that after any
restart the daemon ends in the state the framework asked for last.

### The Wi-Fi HAL (`src/wifi_hal`)

Commands and event handlers registered with a netlink event loop, each with a
reference count, while the caller's thread and the event thread remove them;
the GSCAN, RTT, hotlist and ring buffer commands are built on it.  Correct means
that no handler is called after it is removed, none is lost while the list is
being changed, and that clean-up ends.

### The pools of video buffers (`src/mtk/graphics/gui_ext`)

`GuiExtService` keeps pools of preallocated buffers.  A producer (the video
decoder's side) allocates a pool and frees it, consumers acquire and release
buffers of it and keep shadows of those they have seen, and the service is told
by binder when one of them dies.  Calls hold one lock; death notices hold it only
to remove a pool.  Correct means that no buffer has two holders, that a pool stays
while somebody uses it and goes away when nobody does.

### Smaller programs

`src/mtk/perfservicenative` (lazily loaded client of the performance service),
`src/mtk/wifi2agps` (Wi-Fi scans for AGPS over nl80211),
`src/wpa_supplicant_8_lib` (driver commands), `src/liblights`, `src/power`,
`src/doze` (wave and pocket gestures), `src/mtk/memtrack`, `src/cmhw`,
`src/ril`, `src/libshims`, `src/init`.

### What is hard

In order of weight: interleavings of client requests with starts and stops under
way; reports, timer expiries and queued messages that arrive in a later session
than the one they belong to; datagrams dropped after ten tries; starts and stops
that fail half-way; a crash between any two steps; and shared flags read by a
thread other than the one that writes them.  `PROJECT.json` lists each such
hazard at its line with the properties that cover it.

## The modules

    GpsService          what the users are promised
        ^ refined by
    Mnld                main thread, GPS control thread, sockets, timers, library
        ^ extended by
    MnldInv             the invariants that make it work
        ^               ^
    MCMnld (TLC)        MnldProofs -> MnldSafety -> MnldRefines (TLAPS)

    GpsHal              the HAL in the system server, with mnld as it sees it
        ^ GpsHalProofs (TLAPS)

    Epo                 the EPO downloader, with the threads that meet its files
        ^ EpoProofs (TLAPS)

    WifiHal             the Wi-Fi HAL: commands, handlers, event loop, clean-up
        ^ WifiHalProofs -> WifiHandlers (TLAPS)

    GuiExt              the pools of video buffers, their clients and deaths
        ^ GuiExtProofs (TLAPS)

**Mnld** is the whole life of a session.  Its variables carry the code's names
where they have one.  `client` is the array of `mnld_gps_client` records, with
the flags `gps_used`, `need_open_ack`, `need_close_ack`; `mainq` and `gpsq` are
the two internal sockets; `armed` and `expired` are the timers counting down
and those whose SIGEV_THREAD callback has been launched, which `stop_timer()`
cannot take back; `gps_pc` is the place in the GPS control thread's start or
stop handler; `mnl` and `power` are the library and the driver's power switch;
`wakelock` is what the HAL holds and `halq` the orders about it that it has not
read.  Two history variables only watch: `broken`, that a start was undone after
the library ran, and `missed`, that the HAL has missed how the session last began
or ended.

| action | code |
| --- | --- |
| `HalStart`, `ClientStart`, `FlpStart`, `ClientStop`, `FlpStop`, `ClientReboot` | the handlers of start, stop and reboot requests; they set the flags and raise an event |
| `EventStart`, `EventStop`, `EventReset`, `EventStartDone`, `EventStopDone` | `mnld_fsm()` and the four `fsm_gps_state_*()`, one operator per event, one disjunct per answer |
| `HalInit`, `HalDeleteAidingData`, `AgpsReset`, `HalUpdateNetworkState` | the other requests that change state |
| `MainStartDone` ... `MainEpoDone` | `main_event_hdlr()`, by message |
| `GpsRecvStart`, `GpsRun`, `GpsStartFails`, `GpsStarted` | `mnld_gps_start()`: received; `mtk_gps_mnl_run()` called, from where the library calls back; failed before; ended |
| `GpsRecvStop`, `GpsStopped`, `GpsStopFails` | `mnld_gps_stop()` |
| `GpsDeleteAidingData`, `GpsNmeaData` | the other messages of `gps_control_event_hdlr()` |
| `MnlStartReq`, `MnlNotify`, `MnlRestartReq` | the library's callbacks, at any time while it runs, any number of times |
| `EpoRecv`, `EpoDone` | the downloader as the main thread sees it |
| `Tell` (in `EventStart`, `GoIdle`), `HalWakelock`, `HalDies` | `mnl2hal_request_wakelock()` and `_release_wakelock()`: the order is queued or dropped; the HAL's worker carries it out; the HAL's process dies with its socket |
| `Expire`, `TimeoutCrash`, `NmeaTimeout` | a timer runs out; its callback runs |
| `MainHandlerTimeout`, `GpsHandlerTimeout` | the watchdogs of the two threads' own handlers |
| `Restart` | init starts the daemon again |

A client request is one step because the main thread handles one message at a
time and nothing it touches is shared, with three exceptions the model keeps
apart: the sockets, the timers, and the EPO job.  A start or stop of the library
takes several steps because the library calls back in between.

*Data left out.*  Messages are their command; addresses, positions, aiding bit
maps and network names are gone, a bit map being zero or not.  A timer has no
duration: it may expire at any moment after it is armed, which covers every
duration.  Sockets hold `QLen` datagrams; a sender that finds the socket full
gives up, as `safe_sendto()` does after ten tries.

*The wakelock* is not the daemon's.  It sends an order, ignores whether that was
sent, and goes on: the receiver may be switched on before the HAL has read the
request, or without it ever reading one.  What the daemon can be held to is what it
tells the HAL: the last word the HAL has -- in its socket, or carried out -- is to
take the wakelock while a session lasts and to give it up after one
(`WakelockTold`).  A reopened session sends no second request, so a release must not
be under way then; a word that is dropped, or that a killed daemon never sends, is
never made up for, and `missed` excepts it until the next word arrives.

*The power switch.*  `SwitchedOff` is any of the three places that write "off" to
the driver; each ignores the outcome.  `power` is then "off", or "stuck" if the
switch refused (the fault "power"), and the stop is reported all the same.

*Faulty variants.*  An operator that no action uses (`SendAlways`, `HalExit`,
`GpsRecvStopAnswersEarly`, ...) is a slip of the kind that code invites, placed
right before the definition it would replace; `PROJECT.json` names the property
that tells each of them from the code.

**GpsService** is the contract, with two variables: each user's view of its
session (closed, opening, open, closing) and the receiver (off, warming up, on,
broken down).  An open request is answered only once the receiver has been switched
on and before it is switched off; it is not switched off while the session of an
acknowledged user is open; a close request is answered only when the receiver is off
or somebody else still uses it.  The contract has one way out: a receiver may break
down while it warms up -- `linux_gps_init()` undoes a start, perhaps one that has
already been reported (the fault "signal") -- and who asks for it before it is
switched off is told nothing of that.  A receiver that is on does not break down.
The daemon may die at any time and the NMEA monitor may throw everybody out.  The
wakelock is no part of the contract: the daemon cannot promise it.
`Mnld!KeepsPromise` instantiates it with the refinement mappings `View` and `Engine`.

**MnldInv** names the two handshakes between the threads and what the users are
owed; **MCMnld** gives the small instances; **MnldProofs** and **MnldSafety**
hold the proofs.

**GpsHal** is the other end of the HAL's sockets.  `intent` and `state` are
`gps_state_intent` and `gps_state`; `at` and `todo` say where the framework's
thread and the worker are in their requests; `hal2mnl` and `mnl2hal` are the two
sockets; of the daemon only its life (`mnld`) and the HAL's `gps_used` flag
(`used`) are kept; `asked` and
`overlap` are history variables.

| action | code |
| --- | --- |
| `FrameworkOpen` | `gps_device__get_gps_interface()`, which tells the daemon that the HAL has restarted |
| `FrameworkResource`, `FrameworkCall` | `gpshal_resource_init()`; `gpsinf_init()`, `_start()`, `_stop()`, `_cleanup()` up to the request |
| `SendRequest`, `NoteState` | `gpshal2mnl_gps_*()`, called by either thread: the request, then, if it was sent, the state |
| `WorkerReboot` | the worker reads an announcement and decides what to replay (`update_mnld_reboot()`) |
| `WorkerLocation`, `WorkerReport` | `update_location()`: the look at the intent, then the report |
| `FrameworkCrash` | the system server dies, and the HAL with it |
| `MnldRecv`, `MnldCrash`, `MnldRestart`, `MnldAnnounce`, `MnldNmeaTimeout`, `MnldLocation` | the daemon: reads a request; dies; has bound its sockets; announces itself; throws its users out; sends a position |

A request and the note of its success are two steps, and so are the look at the
intent and what follows from it, because no lock is held: two threads may
interleave there.  `Replay(wish)` is taken once, as in the code, and sent whatever
the framework asks meanwhile; the history variable `overlap` remembers whether
the framework's last call met one.
`FrameworkCall` follows the order in which GpsLocationProvider calls (`Allowed`,
code outside this repository).

*Why two modules.*  `Mnld` keeps one step per request of the HAL and says what
becomes of it; `GpsHal` keeps the threads and sockets before it and reduces the
daemon to the one flag the HAL is about (`UsedAfter` is what `HalStart`,
`ClientStop` and `ClientReboot` do to that flag).

**Epo** is the downloader's thread with everything that reads or writes what it
works on.  `downloading`, `job` and `lost` are the flag, the order or result and
the datagram that was dropped; `at` and `by` the place in the thread; `count`,
`updated`, `failed`, `retry` and `statics` the globals and statics of `epo.c` that
decide what it does next; `hal` and `dat` the two files.  A day is the unit of
time, a piece its number, the day it begins, whether it came too short to hold a
record, and how much of it the disk took (`kept`: all, cut, none); `Whole` is where
the pieces are that did not come short.  That EPOHAL.DAT or the piece cannot be
opened, or not all of it is written, is only logged (`epo.c:800`, `807`, `812`):
`CurlBrings` goes on as if nothing had happened, and so do the count and the result.
`InFile` says which pieces have left anything in the file; what the code reads from
its first and last record (`HalDates`) may be any date if those are damaged.

| action | code |
| --- | --- |
| `GpsStart`, `NetworkState`, `Trigger` | `hal_gps_start()`, `hal_update_network_state()` and the test both make before ordering a download |
| `MainEpoDone`, `GpsRun` | the result is read, or a session starts: either hands the file to the library |
| `EpoRecv`, `Loop`, `EpoDone` | `epo_file_update_impl()`: begins, asks for a piece, reports |
| `RetryUnserved`, `RetryDelayed`, `RetryRestarts`, `RetryPiece` | `epo_file_update_retry()`, by its early returns |
| `CurlFails`, `CurlBrings`, `CheckShort`, `CheckChanged`, `CheckKept` | `mtk_gps_epo_file_update()`: the transfer, then what is found in the piece |
| `RetryAlarm` | the timer between two series of tries |
| `QepoRequest`, `QepoRecv`, `QepoTry` | the QEPO thread, which holds the EPO thread up while it tries |
| `DayPasses`, `ServerUpdates`, `Crash` | time, the server's data, the end of the process |

`Fruitless` and `Returns` say once what the code repeats: how a try that did not
bring the file forward is counted, and what either caller makes of the answer.

**WifiHal** has two threads.  `api` is the service's call in progress, `loop` the
event thread; `event_cb` and `listed` are the two tables, of which only the first
has a lock; `kind` and `refs` are the commands with their counts of references;
`info` is what `wifi_cleanup()` and the loop look at.  All ten kinds of commands
that register handlers are one set of actions: what tells them apart is the order
in which they ask the driver and register or unregister, and that order is data
(`ScanStart` ... `LogCancel`).

| action | code |
| --- | --- |
| `ApiStart`, `ApiList` | `wifi_start_gscan()` and its like: allocated, put in the table of commands |
| `ApiRegister`, `ApiUnregister`, `ApiAnswered`, `ApiRefused`, `ApiUndone`, `ApiFail`, `ApiStarted` | the steps of `start()`, what a refused one undoes, and its end |
| `ApiCancel`, `ApiUnlist`, `ApiCancelled` | `wifi_cancel_cmd()` and `cancel()` |
| `ApiDummy` | the cancellations that use a command made for the purpose |
| `ApiCleanUp`, `ApiSignal` | `wifi_cleanup()`, before and after its test of the loop |
| `LoopOpen`, `LoopEnter`, `LoopExit`, `LoopCheck`, `LoopLeave`, `LoopCleansUp` | `wifi_event_loop()` |
| `LoopEvent`, `LoopHandle`, `LoopReturn` | `internal_valid_message_handler()`: found and referenced under the lock, handled outside, released |
| `LoopRttEnds` ... `LoopRttReleases` | a ranging that ends unregisters, reports, unlists and releases itself |
| `LoopTouches` | the loop goes on with memory that has been freed |

WifiNative, outside this repository, is modelled from what the HAL's interface
asks of it: calls from one thread, one command of a kind at a time, the id noted
before the call.

**GuiExt** has the service's pools (`pool`, by id), the consumers' shadows
(`shadow`), how often their callers hold a buffer (`held`), and the notices of
deaths, which are steps of their own since they do not hold the lock.  A pool is
known by the number of its allocation, an id may be given again.

| action | code |
| --- | --- |
| `Alloc`, `AllocAdds`, `Free` | `GuiExtPool::alloc()`: `getPoolId()` and the observer is linked; the pool is in the list; `free()` |
| `Acquire`, `AcquireSlots`, `AcquireConnects` | `acquire()`: the buffer is dequeued and the observer linked; the slot is filled; the pool is connected and the client has its answer |
| `Request`, `AcquireBackup`, `Release` | `GuiExtClientConsumer` and the service's half of each call |
| `Disconnect`, `DisconnectReleases`, `DisconnectDone` | the shadows go, each acquired one is released, the service is told |
| `ProducerDies`, `WalkBegins`, `WalkCompares`, `WalkLooks`, `WalkRemoves` | the producer's observer, which walks the list of pools: an entry is compared and cleared, the list read again for its id, the pool of that id removed under the lock |
| `ConsumerDies`, `ReapBegins` ... `ReapRemoves`, `ReapLost` | the consumer's observer, buffer by buffer |

`alloc()` and `acquire()` are taken in steps, with the lock held (`mLock`) but
against observers, which do not ask for it: a client may die, and be told of, before
its call has done what the observer is to undo.  The call is carried out all the
same.

*Mishaps.*  `WifiHal` and `GuiExt` have races that the code leaves open and whose
outcome is memory corruption or a state nobody designed.  The history variable
`mishaps` records each at the step where it happens, so that a property can say
exactly what it excepts; in `GuiExt` a behaviour is followed up to its first
mishap and nothing is claimed of what comes after.

| `GuiExt` mishap | what the code does |
| --- | --- |
| `backup` | `acquire()` hands out a shadow that is not marked as acquired (`GuiExtClientConsumer.cpp:119`), although a buffer acquired a second time is not marked either: two callers, one buffer |
| `race` | an observer clears the slot of a buffer granted and entered meanwhile, or marks a pool as connected that is used no more |
| `unnoticed` | a consumer dies connected without a buffer: `release()` has dropped the observers that would tell |
| `cut` | `mIsDisconnected` is one flag per pool, not per consumer, and the observer sets it for a moment |
| `early` | the notice of a death is handled before the call that linked the observer has ended: the pool is not in the list yet, or the slot not filled, and nobody undoes what the call then does |
| `skipped` | the list shifts under an observer: a pool is added before the place it is at, or the id it reads again is another pool's, and a pool of the dead producer stays for ever |
| `wild` | an observer's index or item is gone from the list |

## What the runs show

| run | instance | shows |
| --- | --- | --- |
| `mnld_session` | HAL and AGPS, every fault, fair | STOP_DONE never meets a session that is starting or running, so the CRASH_TO_DEBUG there is dead code (`StopDoneExpected`); the library is never started twice (`StartsOnce`); an idle daemon leaves nothing behind (`IdleIsClean`); no acknowledgement is owed to the wrong request or forgotten by a running session (`AcksAreOwed`, `StartedIsKnown`); a watchdog runs only in the state it watches and every stop is watched (`WatchdogsMatch`); the inductive invariant `Handshakes`; transient states end, open and close requests are answered, a receiver nobody uses is stopped (`TransientEnds`, `OpenServed`, `CloseServed`, `AbandonedStops`) |
| `mnld_service` | AGPS, FLP with both offload modes, and a test that gets no answers; starts that fail, also after the receiver has reported, and stops that fail | the daemon implements `GpsService` |
| `mnld_reset` | AGPS deleting aiding data, fair | a deletion is watched in every state but STARTING, and answered |
| `mnld_hal` | HAL, which reads late, dies or misses orders; a switch that may refuse; every network report, stale or fresh EPO files | the last word the HAL has of the wakelock fits the session, through every reopening and however late it reads, unless it missed one (`WakelockTold`); it is told to release it only with the library stopped and the receiver told to go off (`ReleasedWhenOff`); never two downloads, whatever starts, reports and late results do (`OneDownload`) |
| `mnld_offload`, `mnld_monitor`, `mnld_stop` | | the disagreements described below |
| `gpshal_session` | calls, replays, positions, crashes of either side, no resources, fair | a system server that restarts inherits no session: until it asks, the daemon has none for it or is about to read that the HAL restarted (`OnlyOnRequest`); at rest the daemon serves the HAL exactly if the framework wants it, unless its last call met a replay (`WishGranted`); a wanted session is served in the end (`WishServed`) |
| `gpshal_overlap` | | the disagreement described below |
| `epo` | two pieces, crash, lost datagrams and disk errors, fair | the pieces brought are those of one day in order, and the file holds them in that order as far as the disk took them, whatever fails, changes or dies (`HalInOrder`); a result says what was brought, not what the disk took (`ResultTells`); the flag says whether a download is under way (`FlagIsTrue`); a piece is tried a bounded number of times although the counts outlive a download (`RetriesBounded`); a download ends, unless its result is lost or the server's data stays a day old (`DownloadEnds`) |
| `wifi_hal` | five kinds of commands, full tables, a clean-up at any moment, fair | no handler of a deleted command stays registered (`HandlersAlive`); no command is deleted under its callback (`CallbackAlive`); a started command hears its events and can be cancelled, but for the mishaps named (`Heard`, `Cancellable`); a clean-up that meets an idle loop never uses freed memory (`IdleCleanUp`); every clean-up ends (`CleansUp`) |
| `gui_ext` | two producers, two consumers, one death, fair | up to the first mishap: a buffer has one holder and is out (`Exclusive`), no pool goes away under a consumer and no id is given twice (`ShadowsLive`, which holds at the first mishap too unless it is a `cut`), the slots by which a death brings buffers back agree with them (`TokensMatch`), a pool nobody owns or uses goes away (`PoolsGoAway`) |

Every passing run of `Mnld` lets the library fall silent, report twice or report late, and
lets every queue overflow.

## Bounds

- *Users.*  No handler treats more than one user at a time, and the state machine
  asks only whether any user exists and whether all that do are offloaded.
  Two users exercise "the last one leaves" and "another one stays"; the service
  run has one of each of the three kinds (acknowledged, offloaded, neither).
- *QLen = 2.*  A receiver's queue can then hold a message of the old session and
  one of the new one, in either order, and still overflow.  With one place the
  order of messages would not be seen.  The proofs hold for every `QLen`.
- *Faults* of the daemon's own are complete in `mnld_session`.  `mnld_service` leaves
  out "main", which only adds the crash every fault already brings.  "power" and
  "hal" are the faults of `mnld_hal`.
- *HalQLen = 2* in `mnld_hal`: a release and the request that follows it, or a
  request of the last life.  The other runs take 0, a HAL that has not bound its
  socket, so that every order is dropped: their properties read none of `wakelock`,
  `halq`, `missed`, no guard of another part does either, and the space is smaller.
- *Flags, Modes, Networks, EpoStale* are complete where a run uses them, empty
  where the properties of the run do not depend on them.

- *GpsHal.*  `MaxReboots` caps the announcements at three: a second one finds the
  replay of the first still under way, a third the one after it.  `QLen` is 3: a
  socket that holds a whole replay and a call, or an announcement between two
  positions.  No datagram is dropped in these runs (`"lost"`): the HAL has no
  retry and no check for that case and its comments promise nothing about it.
  The run with a counterexample needs less.
- *Epo.*  Two pieces, one that begins the file and one that ends it; three, with two
  retries and no disk errors, were checked before those were added.  `MaxRetries` is
  1 (10 in the code): a count can still survive one download and run out in the next;
  `MaxDelays`, `MaxTries` and `MaxQepo` are 1, each only counted to its end;
  `MaxDay` is 1: the server's data changes once in a download, the file gets a day
  old once; one piece in a file may be damaged (`MaxBad`): come short, be cut, or not
  be written at all.  The proofs hold for all values.
- *WifiHal.*  Three commands meet: one that is being cancelled, one that takes its
  place and one of another kind.  Five handlers and two listed commands are few
  enough for both tables to be full.  The kinds `scan` (three handlers, fails half-way),
  `hotlist`, `rssi` and `rtt` (stay listed when refused; `rtt` ends itself) and
  `log` stand for the ten, which differ from them only in the keys; an instance
  with all kinds but `full` was checked once (4.7 million states).  With `scan` and
  `full` together `Heard` does not hold: both register for the same key
  (`gscan.cpp:609`), and the framework can only start the first (see the
  theorems' assumption below).
- *GuiExt.*  Two of each client, so that one may leave or die while the other
  works; two pools and three allocations, so that an id is given again; one death;
  one buffer per pool, which is what a buffer is contended for.  An instance with
  two buffers was checked once.  Clients stop when the bounds are used up, and a
  behaviour ends at a mishap: deadlock is not checked in this run.

Nothing else is bounded: the state spaces are finite and explored completely.

## Fairness

`FairSpec` asks for weak fairness of the main thread, of the GPS control thread,
of the downloader's thread, of every timer and timer callback, and of the restart
by init: all are threads of a preemptive kernel, timers it guarantees, or the
service manager's rule for a service that is not `oneshot`.  The threads block
only in `epoll_wait` or in calls to the library, where the GPS control thread is
itself under a watchdog (`GpsHandlerTimeout`, one of the disjuncts of its weak
fairness).  Nothing is asked of the clients or of the library: it need not
report a start, stop successfully or produce data.  Liveness therefore includes
ending in a crash and a restart, which is how this daemon gets out of a failure.

`GpsHal!FairSpec` asks for weak fairness of the framework's thread (inside a
call; it need never make one), of the worker, and of the daemon reading its
socket and restarting, and for strong fairness of the announcement: positions may
keep the HAL's socket full, and `safe_sendto()` tries again until it finds room
(the eleventh failure in a row is the fault "lost").

`Epo!FairSpec` asks for weak fairness of the EPO and QEPO threads (a transfer
ends by `CURLOPT_TIMEOUT`), of the retry timer and of the main thread reading the
result, not of the server or the network.  Without `[]<>Old` in `DownloadEnds`
there is a behaviour in which the server's data stays a day old and a piece keeps
failing: each retry throws the file away and begins again (`epo.c:113`), for ever.
`WifiHal!FairSpec` asks that the driver answers, so that a call goes on, and that
the event thread runs; of events nothing.  `GuiExt!FairSpec` asks that a call that
holds the lock ends (weak fairness), and that an observer, or a consumer inside a
call, which both need the lock again and again find it taken, get their turn
(strong fairness): the lock's owner always gives it back, and the kernel wakes those
who wait.  Clients need never make a call.

## Where the code departs from its comments

Four runs end in a counterexample, on purpose.

1. `mnld_offload`, `StartIsWatched`.  `mnld.c:297`: *"if no other users except
   GPS_USER_FLP or GPS_USER_OFL_TEST, bypass restart"* -- only then is the start
   timer left out.  The test is made once, when the start is ordered.  When
   another user joins while the session is STARTING, or an FLP request clears the
   offload mode, the state machine does nothing, and a start that fails is noticed
   by nobody: the new user waits for ever.
2. `mnld_monitor`, `OffloadNotRestarted`.  `gps_controller.c:1260` has the same
   comment, but `send_active_notify()` only stops feeding the NMEA monitor.  A
   monitor armed for a user who has left runs out, and throws the offloaded users
   out of a receiver that works.
3. `mnld_stop`, `StopReported`.  `gps_controller.c:2191`: *"need to call
   mnld_gps_stop_done() when GPS is stopped"*.  `mnld_gps_stop()` returns early
   when the clean-up after `mtk_gps_mnl_stop()` fails; the library has stopped,
   the main thread does not hear of it, and the stop watchdog kills the daemon
   (which `TransientEnds` relies on).
4. `gpshal_overlap`, `WhatWeAre`.  `gpshal.h:63` says of `gps_state` *"what we
   are, but we may fail to change it"*, and two lines above declares a mutex for
   the intent that nothing locks.  The worker decides to replay an init, the
   framework starts the session and notes START, the worker notes INIT: nothing
   failed and the state is wrong.  The same overlap is why `WishGranted` has its
   proviso: a stop called between the worker's decision and its requests is
   followed by the replayed start, and the receiver stays on for a framework that
   wants it off, until its next call.

## What is proved

Each theorem holds for every value of its module's constants, under the one
assumption on them: `MnldAssumption`, `GpsHalAssumption`, `EpoAssumption`,
`WifiHalAssumption` and `GuiExtAssumption` give the constants their types and ask
that a socket holds at least one datagram, that a download has one to ten pieces,
and that no process is a producer and a consumer of buffers at once.

| theorem | module | says |
| --- | --- | --- |
| `TypeCorrect` | MnldProofs | `Spec => []TypeOK`, the bounds of both sockets included |
| `HandshakesHold` | MnldSafety | `Spec => []Handshakes` |
| `StopDoneIsExpected` | MnldSafety | `Spec => []StopDoneExpected` |
| `LibraryStartsOnce` | MnldSafety | `Spec => []StartsOnce` |
| `WakelockReleasedWhenOff` | MnldSafety | `Spec => ReleasedWhenOff`, an action property |
| `ClientsHold` | MnldSafety | `Spec => []ClientsInv` |
| `AnswersAreOwed` | MnldSafety | `Spec => []AcksAreOwed` |
| `RunningIsKnown` | MnldSafety | `Spec => []StartedIsKnown` |
| `IdleLeavesNothing` | MnldSafety | `Spec => []IdleIsClean` |
| `SessionIsWatched` | MnldSafety | `Spec => []WatchdogsMatch` |
| `SessionIsAwake` | MnldSafety | `Spec => []WakelockTold`: of what the HAL is told, unless it missed a word |
| `ResetIsAlwaysWatched` | MnldSafety | `Spec => []ResetIsWatched` |
| `OneDownloadAtATime` | MnldSafety | `Spec => []OneDownload` |
| `MnldKeepsPromise` | MnldRefines | `Spec => KeepsPromise`: `Mnld` implements `GpsService`, with every fault |
| `HalTypeCorrect` | GpsHalProofs | `Spec => []TypeOK` |
| `HalOnlyOnRequest` | GpsHalProofs | `Spec => []OnlyOnRequest`, if no datagram is dropped |
| `HalGrantsWish` | GpsHalProofs | `Spec => []WishGranted`, if no datagram is dropped |
| `EpoTypeCorrect` | EpoProofs | `Spec => []TypeOK` |
| `FlagTellsTheTruth` | EpoProofs | `Spec => []FlagIsTrue` |
| `RetriesAreBounded` | EpoProofs | `Spec => []RetriesBounded` |
| `FileIsInOrder` | EpoProofs | `Spec => []HalInOrder`, disk errors included |
| `ResultTellsTheTruth` | EpoProofs | `Spec => []ResultTells`: of what was brought, whatever the disk took |
| `WifiTypeCorrect` | WifiHalProofs | `Spec => []TypeOK` |
| `CallbackIsAlive` | WifiHalProofs | `Spec => []CallbackAlive` |
| `StartedIsCancellable` | WifiHalProofs | `Spec => []Cancellable` |
| `IdleCleanUpIsSafe` | WifiHalProofs | `Spec => []IdleCleanUp` |
| `HandlersStayAlive` | WifiHandlers | `Spec => []HandlersAlive`, unless both `scan` and `full` are started |
| `StartedIsHeard` | WifiHandlers | `Spec => []Heard`, unless both `scan` and `full` are started |
| `GuiExtTypeCorrect` | GuiExtProofs | `Spec => []TypeOK` |
| `BufferIsExclusive` | GuiExtProofs | `Spec => []Exclusive`, up to the first mishap |
| `ShadowsAreLive` | GuiExtProofs | `Spec => []ShadowsLive`, up to the first mishap, and at it unless it is a `cut`: a disconnect meant for another consumer (`GuiExtImpl.cpp:824`) is excluded |
| `SlotsTellHolders` | GuiExtProofs | `Spec => []TokensMatch`, up to the first mishap |

*The argument.*  None of the safety properties is inductive.  "STOP_DONE is read
only while stopping" needs to know where the one stop of the session is: still
in the socket, in the hands of the GPS control thread, or reported; that there is
only one of it; and that while it is anywhere the session stays in STOPPING.  That
is `StopHandshake`.  The session leaves STOPPING by reading STOP_DONE, so at that
moment no trace of the stop is left, and, since the library is off and every
START_DONE was sent before the STOP_DONE (`LastIsStop`), no report of the old
session can be taken for the answer to the next start.  `StartHandshake` is the
mirror image: until the library runs for the new session, nothing says it does.
The lemmas on `Send` and `Tail` say what a bounded socket keeps of this when a
datagram is added, dropped or read.  The remaining conjuncts of `IInv` ride on
the handshakes: `ClientsInv` (idle means nothing owed), `WatchdogsMatch`,
`WakelockTold`; the deletion that AGPS waits for and the download have invariants of
their own.

*Layout.*  `MnldProofs` first gives the socket lemmas, then type lemmas for each
event of the state machine, then one step per action.  `MnldSafety` proves
`Handshakes` with one lemma per group of actions, then the properties it implies,
then the rest of `IInv`.

*OnlyOnRequest.*  The invariant needs `NothingUnasked`: no thread of a fresh
HAL holds a start, the HAL of a system server that is down has no thread at work
and no socket, and a daemon that is down remembers nothing.  The reboot message
that `FrameworkOpen` sends is then queued after every start of the HAL's previous
life.  The assumption that none is dropped is necessary: a reboot message dropped
at a full socket leaves the old session running.

*WishGranted.*  At rest the socket is empty; before that, what it holds decides.
`Will` says whether there will be a session when the daemon has read everything:
the last start or end in the socket wins, and reading a datagram never changes
`Will` (`OnTail`).  The invariant is `WishKept`, in two halves: a session that will
be there is wanted, unless its stop is about to be sent (`SessionIsWanted`); and a
session that is wanted will be there, or a start is still to be sent by one of the
threads, or the daemon is down or has an announcement waiting that will make the
worker send one (`WantedIsSession`).  `ThreadsFit` says what a thread may hold: the
framework's the wish itself, the worker's never a stop.  A fresh HAL enters the
invariant when it binds its socket, and there `OnlyOnRequest` is what says that no
session of its predecessor will be left.  A dropped announcement, or a dropped
stop, would end all this, hence the assumption.

*The refinement.*  `Good` is what a step needs to be one of the service: the
types, `Handshakes`, `ClientsInv`, that the library runs, or was torn down by
`linux_gps_init()` after it had reported for duty, while the session is STARTED or
such a report is on its way (`EngineOn`), and that whoever wants a session that is
not started waits for it (`UsersWait`).  Then every action is shown to be a step of
`GpsService` under the mappings `Seen` and `Engine` or to leave it alone.  A broken
receiver stays broken for the session: the stop that ends it, or the death of the
daemon, is what makes it "off".

*Epo.*  `Order` ties the place of the thread to the order and its result, which
makes the flag true.  For the bound on retries, `Trying` relates the tries in a row
to the static counts: however a download begins, the first try on a piece either
finds the count of another piece or goes on with its own, which is why the bound
is `MaxRetries + 2` and not less.

The file: `HalInOrder` says nothing while the thread looks at a piece, and what it
says before and after does not follow from itself.  `Filed` says what the file is at
each place of the thread.  While it asks (`Asking`), the whole pieces are those
before `count`, of the day `last`; while it looks (`Looking`), the newest one is
appended to those, no older than `last` and no newer than what the server has; when
it waits (`Left`), the file is as the download left it.  The main thread may set
`count` to 0 under it, but only orders a download when none is under way (`Order`),
and then the thread waits.  A piece kept is of the day of the others because a newer
day throws the file away and an older one cannot come: what the server offers never
goes back, which `last <= pub` carries from one download to the next.  A result is
formed where `Asking` says how many pieces there are.  How much of a piece the disk
took plays no part in any of this, because the code does not look at it.  The lemmas before it
(`OnePieceMore`, `OneMoreCounted`) say what appending a piece does to the set of
whole pieces and to their numbering.

*WifiHal.*  References: a command is held by the service until it is cancelled
(`OwnerKnown`), by a call in progress (`CallFits`) and by the event thread
(`LoopHolds`), and the count is at least the sum; this does not depend on the
unlocked table, which may lose or restore entries.  `Cancellable` rests on
`ListedInv`, the clean-up on `Tidy`, which says which places the event
thread can be at after the clean-up has looked.

*The handlers.*  `wifi_unregister_vendor_handler()` removes the first handler of a
key, whoever registered it; that a command keeps its own, and leaves none behind, is
therefore a matter of keys.  `WifiHandlers` first proves of the orders in which the
kinds ask, register and undo (`ScanStart` ... `LogCancel`) what is needed of them,
`Fit`: a start registers each of its keys once and a refusal undoes what was
registered before it; a cancellation, but for the logger's, takes its handlers away
before the driver may refuse it.  `CallKnown` says that the steps left of a call in
progress are such an end.  For `Heard`, `Heeded` follows each key of the
command the service knows: registered, or still to be registered by the call, or
taken by a mishap.  For `HandlersAlive`, `Wired` says that a handler is of its kind's
current command or of one whose cancellation will still remove it (`Placed`; a
logger's handler may stay, but its command is never deleted), that no key is
registered twice (`Single`), that who has a handler has a reference besides the
event thread's (`Held`), and that what a call has registered it will undo when it is
refused (`Undoable`).  It holds until the unlocked table forgets a command
(`Forgotten`).  Both theorems assume that `Kinds` does not hold `scan` and
`full` together: both register for full scan results (`gscan.cpp:362`,
`gscan.cpp:609`), so one would unregister the other's handler.  The HAL's table of
functions (`wifi_hal.cpp:106-144`) has no entry for
`wifi_enable_full_scan_results()`, the only function that starts a `full`, so the
framework cannot have both.

*GuiExt.*  A consumer claims a buffer while it is about to request it, while a
caller holds it, and while a disconnect is about to give it back; who holds a
buffer is only one part of that, which is why `Exclusive` is not inductive.  A
pool that is used is connected and so does not go away under its users
(`UsersConnected`); a claimed buffer is out, and its slot names the claimant unless
an observer is about to clear that slot (`ClaimsAreOut`); hence a buffer that is
granted is claimed by nobody, and `OneClaimant` holds.  The dead claim nothing
(`DeadAreGone`), so an observer that takes back their buffers takes them from
nobody.  While a call holds the lock, `LockSound` says what it has done so far and
that nobody has undone it: the pool that is being allocated is in nobody's way
(`AllocSafe`), the buffer that is being acquired is out, nobody's yet, and no observer
of its consumer is at work (`AcquireSafe`).  `Sound` and `LockSound` hold up to the
first mishap and say nothing after; `ShadowsKept` looks at the step that brings the
first mishap and shows that of all of them only a `cut` takes a pool away from its
users.

## What is only model-checked

- Liveness (`TransientEnds`, `OpenServed`, `CloseServed`, `AbandonedStops`,
  `ResetServed`, `WishServed`, `DownloadEnds`, `CleansUp`, `PoolsGoAway`): the
  prover does not handle fairness and ENABLED.
- The four counterexamples above.

Every type invariant, safety invariant and action property that a passing run
checks is stated by a theorem.

## What is not modelled

Of the GPS HAL: the thinning of positions to the report interval, and the calls
that are forwarded without a trace (AGPS, NI, RIL, measurements, navigation
messages, time and position injection).

Of mnld: the messages the main thread only forwards (NI notifications, data
connections, set id, reference location, NLP), the QEPO result, the mtklogger
socket, the op01 log and TTFF figures.  Failures of `epoll_wait` or socket
creation, after which a thread ends for good, are left out; so is the closed
library except for what the code asks of it and what it calls.  Of the QEPO
downloader only what holds up the EPO thread is modelled.

The AGPS dispatcher is left out for good: what `state_mode` and
`AGENT_SET_ALARM` go through depends on which callbacks the AGPS library makes
and when, and that library is not in the repository.  The AT command test shares
`Mnld`'s state machine without a lock; it would need `Mnld` with every assignment
as a step.

Of the Wi-Fi HAL: requests that only ask and answer, failures to build a message,
the contents of reports and ring buffers.  Of gui_ext: `configDisplay()`, the dump
tunnels, overlays, the death of the service itself; one observer of each sort
is at work at a time; a consumer disconnects only from pools it has seen buffers
of, and its callers are done with their buffers then.

The other parts listed under "not_modelled" in `PROJECT.json` keep no state worth a
specification, or wait for the plan below.  Most of the repository's lines are
headers, tables of constants and marshalling.

Hazards met on the way that no property covers:

- a position may be reported after the session was stopped, because the intent is
  looked at before the report and without a lock (`gpshal_worker.c:71`);
- an order about the wakelock is never repeated: if the request is dropped the session
  runs without it, and if the release is, or a watchdog kills the daemon in a session,
  the phone stays awake until another session ends (`mnl2hal_interface.c:151`;
  `missed` in `WakelockTold`);
- a power switch that refuses to go off is noticed by nobody: the stop is reported, the
  wakelock released, and the receiver has power until the next session or restart
  (`gps_controller.c:242`; `power = "stuck"`);
- AGPS is told that aiding data is deleted at the end of a start, before the deletion
  that waited is even ordered (`mnld.c:148`);
- the AT command test stops its session from the library's callback thread, beside the
  main thread's use of the same state machine (`mnl_at_interface.c:582`);
- a download is reported a success although the disk did not take a piece of it
  (`epo.c:800`), and a process that dies with a piece appended leaves the file with a
  piece nobody has looked at until the next download (`epo.c:799`; `halfway`);
- of Wi-Fi and gui_ext, what the mishaps are: the properties stop or except there, as
  `PROJECT.json` says at each hazard;
- a close request that finds the session starting is answered by no event when
  other users keep it running (`mnld.c:333`); `CloseServed` says what is answered;
- `hal_gps_init()` switches the receiver off in the driver, also while another
  user's session runs (`mnld.c:516`);
- a stop cancels the AGPS agent's SIGALRM and leaves `AGENT_SET_ALARM` set
  (`gps_controller.c:1249`);
- a session that starts hands the library an EPOHAL.DAT that is still being
  downloaded (`gps_controller.c:1160`), and the EPO thread looks at the QEPO
  thread's state only once before a piece (`epo.c:169`);
- the clean-up handler is called before the loop has ended when the loop is not
  running (`wifi_hal.cpp:396`).

## Plan

1. `AtTest` and the debug log's double buffer: callbacks on the library's thread
   against the main thread.
2. `Wifi2Agps` (scans over nl80211), then `PerfService`, `Lights`, `Power`, `Doze`.
