# Verification of the TI WL18xx Android support: Wi-Fi HAL and Bluetooth vendor library

The repository holds two programs: the vendor Wi-Fi HAL (`src/wlan/hal`), which
talks to the driver over netlink on behalf of the Android framework, and the
Bluetooth vendor library (`src/wpan/libbt`), which configures the controller for
the Bluetooth stack. This directory models their control: threads, tables,
reference counts, buffers, handshakes and error paths. Data that no property
looks at (attributes of a request, names, addresses, log texts) is left out.

## Inventory

### Wi-Fi HAL

| Component | State | Operations | Module |
|---|---|---|---|
| Event loop and teardown (`wifi_hal.cpp`) | `in_event_loop`, `clean_up`, the socket pair `cleanup_socks`, the event socket, the `hal_info` itself | `wifi_event_loop`, `wifi_cleanup`, `internal_cleaned_up_handler` | `EventLoop`, `Shutdown`, `EventLoopProofs` |
| Tables (`common.cpp`) | `event_cb` (handlers by event), `cmd` (commands by request id) | register, unregister, get, cancel | `WifiHal`, `WifiHalProofs` |
| Command objects (`cpp_bindings.h`) | `mRefs`, `mId` | `addRef`, `releaseRef`, `start`, `cancel`, `handleEvent` | `WifiHal`, `WifiHalProofs` |
| Long-running commands (`gscan.cpp`, `rtt.cpp`, `wifi_hal.cpp`, `wifi_logger.cpp`) | their handlers and table entries | ten classes: full scan, scan, hotlist, ePNO, significant change, ANQPO, RSSI monitor, RTT, log handler, alert handler | `WifiHal` |
| Requests (`cpp_bindings.cpp`) | the shared socket `cmd_sock`, the nested request of a memory dump | `requestResponse`, `MemoryDumpCommand` | `RequestResponse`, `RequestResponseProofs` |
| Cached scan results (`gscan.cpp`) | the caller's array, `mRetrieved`, `mCompleted` | `execute`, `handleResponse` | `ScanResults`, `ScanResultsProofs` |
| Ranging results (`rtt.cpp`) | `rttResults`, `currentIdx`, `totalCnt`, `mCompleted` | `RttCommand::handleEvent` | `RttResults`, `EventBufferProofs` |
| Firmware dump on alert (`wifi_logger.cpp`) | `mBuff`, `mBuffSize` | `handleEvent`, `handleResponse` | `AlertDump`, `EventBufferProofs` |
| Initialisation, interfaces (`wifi_hal.cpp`) | sockets, mutex, interface table, memberships | `wifi_wait_for_driver_ready`, `wifi_initialize`, `wifi_init_interfaces`, `wifi_add_membership` | `HalInit`, `HalInitProofs` |
| One-shot requests and payloads (`wifi_hal.cpp`, `wifi_logger.cpp`, `wifi_offload.cpp`, `link_layer_stats.cpp`, `gscan.cpp`, `rtt.cpp`) | a request under construction, the buffer a reply or an event is copied into | building, failing, decoding, reporting | `Payloads`, `PayloadsProofs` |
| Driver commands of wpa_supplicant | none | one ioctl each | not modelled |

Two threads meet in the HAL: the client's, which starts and stops commands and
calls `wifi_cleanup`, and the one inside `wifi_event_loop`, which runs event
handlers and with them the client's callbacks. They share both tables, the
command objects, the command socket and the `hal_info`. What makes it hard: a
command stopped while its callback runs, an RTT command that takes itself out of
the tables from the loop thread, a request refused half way through `start()`,
`wifi_cleanup` cancelling commands of which some remove themselves from the
table and some do not, and the teardown of everything the loop thread uses.

### Bluetooth vendor library

`ti_op` gets the stack's operations; `FW_CFG` starts a state machine
(`hw_config_cback`) that is driven by the completion events of the HCI commands
it sends: UART speed, device address, version, then the firmware script command
by command. State: `hw_cfg_cb` (state, script buffer, position), the callbacks,
the speed of both UART ends, the controller's power. What makes it hard: every state has several failure
paths, each of which must report once and release the buffer; the state is
global and survives from one session to the next; the two UART ends must
change their speed together; and what the UART and the power switch refuse goes
unnoticed. Modules: `BtVendor`, `BtVendorProofs`.

PROJECT.json lists the hazards line by line.

## Modules

**Shutdown** is the promise to the client: callbacks until the loop has stopped,
none after that, the handle freed last.

**EventLoop** has one variable per thread position (`loop`, `cleaner`), the two
flags, the messages on the socket pair, the event socket (queue and condition)
and `info`, the life of the `hal_info`. The `else if` chain of the loop is one
action per branch, with the precedence of the branches as guards. `wifi_cleanup`
is cut at each point where the other thread can get in between. The environment
is explicit: `KernelSend` (with overrun), `KernelHangUp`, and in `Faults` the
failing writes and the failing read of the answer, after which `wifi_cleanup` goes
on like after `Done`. Once the handle is torn down with the loop thread still inside,
the behaviour ends there: what the code does then is undefined.

**WifiHal** refines it (`L == INSTANCE EventLoop`): an event handler is
`Dispatch`, `HandleEvent`, for RTT `RttUnregister` and `RttFinish`, `ReleaseHeld`,
`HandlerReturns`, and the cancelling of commands is `CleanupTurn`, the steps of
`cancel()`, `DoCleanupRelease`. `start()` and `cancel()` of each class are short
programs (`ScanStart`, `ScanCancel`, ...) of the calls the code makes in its
order; `todo` is what is left of the client thread's current call and each step
is one action, so that the loop thread interleaves everywhere. A "try" may be
refused by the driver, in which case the undo of that point, the removal from the
table and the release follow, as in the API functions. Reference counts are
atomic in the code (`__sync` builtins) and in the model. Operations on `event_cb`
hold `cb_lock`; those on `cmd` hold no lock and are taken as atomic.

What the client does is `ClientCall`, restricted by `ClientMayStart` and
`ClientMayStop` to what a careful client does unless `Misuse` says otherwise: no
request id twice, no second command for the same events, RTT stopped only by
`wifi_rtt_range_cancel`. Each restriction is needed: with `sameId` a refused start
takes another command out of the table, with `stopRtt` a late completion releases
the command that reused the id, and `sameEvents` is the run *two_hotlists*.

Registration into a full `event_cb` fails and no caller looks, so the programs go
on: `AllocEventCb` is small enough in WifiHalTables.cfg for that to happen.

**RequestResponse** has the threads that wait on `cmd_sock`, the messages on it and,
in `frames`, how many calls of `requestResponse` each thread is in: the
`handleResponse` of `MemoryDumpCommand` makes a request of its own before the first
one is acknowledged. The kernel's answer is queued within the send, which is how
generic netlink works. `mixed` records that a thread has taken an answer that was
not its own. A failing `nl_recvmsgs` is logged and called again, a stuttering step.

**ScanResults** is `handleResponse` as a fold over the attributes of a reply and
`execute` as the loop around it. `StoredExactly` says declaratively what must come of
it: the scans of all replies are places in them (`Positions`), each place has a rank
among them, and the entry of that rank in the array is what the attributes before the
place announce (`Entry`). `ShortMeansAll` is what a caller wants to conclude from a
count below the size of the array; `earlier` is there to state it.

**AlertDump** follows the dump buffer from event to event, and within a wait from one
dump attribute to the next: `handleResponse` takes any number of them in a reply, and
the wait goes on until the acknowledgement.

**RttResults** is `RttCommand::handleEvent` attribute by attribute, over any number of
events: completion flags, targets, results with the elements behind them, failing
allocations, and at the end report, free and release. The client may cancel at any
step and `wifi_cleanup` may take the command away between events. The index is not
compared with the array and an event without data is walked all the same: both are
modelled, and a behaviour ends there (`overrun`, `crashed`). An LCI or LCR for which no
element is found is `"driver"`, the bytes the driver sent; `Headers` are the places
where the header of an element is read.

**HalInit** has one action per stage of `wifi_initialize`, each with its error path
(`Fails`), and `wifi_wait_for_driver_ready` before it, while netdevs come and go. The
two passes over `/sys/class/net` are two actions. A call may follow a failure, a
`wifi_cleanup` or a live handle, whose sockets keep the fixed ports. The state a
successful call leaves is the initial state of EventLoop.

**Payloads** has the one-shot requests and the data of the events. A request is a
short program of the calls that build it, each of which may fail, with its effect on
what is allocated; a reply or an event is a length, a count or a sequence of
attributes, and one operator per class says what is stored, how much is claimed and
what is reported. Requests that differ in a command number only are one class. The
name of a preferred network is copied by its length, into the entries that the copy
reaches (`SsidReaches`).

**BtVendor** has one operator per piece of `hw_config_cback` and one action per
operation of `ti_op`. A script is a sequence of action types; `NextCommand` walks
to the next command to send, 0 standing for the loop that never ends. The order
in which the stack calls (power, open, configure, close) is the environment; it may
close at any moment, also while an answer is awaited. Commands and answers pass only
while the controller is `Reachable`: it has power and both ends have the same speed.
`Faults` has a refused change of the host's speed (`"uart"`), of the power (`"power"`)
and a port that cannot be opened; the library looks at the outcome of the last one
only. `missed` records that one of the others has happened since the controller was
last reset.

Definitions whose comment says "Mutant of ..." are faulty variants of the
definition that follows; no specification uses them.

## Runs

| Run | Bounds | Shows |
|---|---|---|
| loop_teardown | 2 kinds of events, queue 2, 4 events, hang-up and lost `Done` | `TornDownAfterLoop`, the inductive `IInv`, refinement of `Shutdown` |
| loop_liveness | same, and the write of `Exit` and the read of the answer may fail | `CleanupEnds`: `wifi_cleanup` returns, or waits for a loop that has left without an answer |
| tables | all 10 classes, 3 objects, 2 table entries, 4 handlers, 2 ids, 1 event, hang-up, lost `Done` | exact reference counts, no handler without owner, nothing left after cleanup |
| tables_refine_loop | hotlist, RTT, alert, stopped by id; 2 events | commands in the table keep their handlers; the cancelling loop ends; refinement of `EventLoop` |
| two_hotlists | hotlists only, two at a time | expected violation, see below |
| scan_results | scans of up to 3 attributes, 2 requests, array of 3 | the array is what `StoredExactly` reads off the replies; who gets less than the array takes has all there is |
| shared_socket | 2 threads, 3 commands each, one thread with memory dumps, requests that cannot be built or sent | every wait ends, no answer left over, own answers unless answers were mixed |
| alert_dump | 4 events, up to 3 dump attributes in a wait, all failures | buffer and size given to the client fit, and are given once; freed once |
| bt_config | any script of up to 3 actions, 2 sessions, all failures, close at any moment | ends with one report while the controller is reachable, success means downloaded, buffers freed as often as loaded except by a later configuration that aborts, UART speeds agree unless a change was refused, only an unwaited left-out command hangs |
| hal_init | 3 netdevs (2 wifi), 3 changes, 3 calls, 2 polls, every call may fail | failures release everything, a live handle stays whole, the table is wrong only after a change between the passes, calls return |
| rtt_results | array of 3, 4 results, elements of 2 lengths, 4 buffer lengths | results reported once, whole, in order, live; freed; LCI and LCR, where set, right; the array overflows only by a fourth result |
| payloads | buffers of 1 and 2, arrays of 2, payloads of up to 4 entries or 3 attributes, counts up to 3 | nothing stored behind a buffer, nothing claimed that is not there, nothing left allocated, with the exceptions named in the properties |

Why the bounds are enough. EventLoop: four events with a queue of two reach the
full queue, the overrun and an `Exit` in front of, between and behind events.
WifiHal: two commands in the table and a third object for the "stop any" calls
give every pair of classes side by side, a full command table, an object
reallocated while an old callback still holds its predecessor, and both kinds of
commands in front of each other in the cancelling loop. One event suffices for
all classes together because the loop handles one at a time; two are used where
fewer classes run. Objects are interchangeable, hence the symmetry in the safety
runs; the liveness run has none. BtVendor: scripts of three actions have every
neighbourhood of commands, left-out commands, waits and remarks, at the front, in
the middle and at the end. HalInit: three
calls are a failure, a success and a call on top of it; three changes let a netdev come
and another go between the two passes. RequestResponse: three commands per thread let
a swap be followed by requests that meet what it left. RttResults: the array can be
filled exactly and by one result too many, over one or several events. Payloads: every length is below, at and
above the buffer. ScanResults: an
array longer than the number of requests and replies longer than the array make
both limits bite.

Deadlock checking is off except in *payloads*, where the next call can always be made:
elsewhere a client may stop calling, and after teardown there is nothing to do.

Fairness. `EventLoop!FairSpec` and `WifiHal!FairSpec` assume that the two threads
are scheduled and the driver answers requests. Nobody has to call `wifi_cleanup`,
and the kernel owes nothing; the loop prefers events over `Exit`, so
`CleanupCompletes` needs that events end, which the bound `MaxEvents` gives.
`RequestResponse!FairSpec`: a waiting thread runs. `HalInit!FairSpec`: a thread inside
`wifi_initialize` or `wifi_wait_for_driver_ready` runs. `BtVendor!FairSpec`: the
controller answers each command that reaches it.

## Disagreements found

*two_hotlists* is a run that TLC must find violated; PROJECT.json quotes the lines.
Handlers are removed by event, so a second hotlist that is reset removes the handlers
of the first and leaves its own, with a released command.

Other observations, each reproduced by a change of a configuration or read off the
model:

* After a hang-up, or when `Done` cannot be written, the loop has left without an answer
  and `wifi_cleanup` blocks in `read` (`wifi_hal.cpp:395`); the fallback its comment
  speaks of is behind the read. `Unanswered` in `CleanupEnds` is exactly this case.
* The loop thread's dump request and a request of the client can swap answers: the
  exception `mixed` in `OwnUnlessMixed`.
* A configuration of the controller that aborts before it has loaded a script frees the
  script of the one before again: the exception in `FwBalanced`.
* `wifi_initialize` hands out `*handle` before the interfaces are looked up and frees it
  when that fails with `WIFI_ERROR_NOT_AVAILABLE`. Its error paths leave the socket pair
  and both tables allocated. A netdev that appears between the two passes is written
  behind the interface table (`TableWhole`).
* RTT: a completion flag of 0 after a failed allocation takes the completion back
  (`Complete` after `NoMemory`). The length of the `wifi_rtt_result` is taken off twice, so
  a short second element is not found (`Left`). With more than `MAX_RESULTS` results the
  array is written behind its end (`overrun`); an event without vendor data is logged and
  then walked (`crashed`); LCI and LCR keep the driver's bytes when there is no element
  (`rtt.cpp:561`), and the header of a first element is read when a single byte follows
  the result: the exception in `ElementsRight`. Results gathered so far are not freed
  when a request is cancelled or cleaned up. After an `Exit` that could not be written,
  `wifi_cleanup` and a completion can both release the command; `WifiHal` excludes it.
* The copy of a packet filter stays allocated when its message cannot be built (the
  exception in `ReleasedOnReturn`), and so does the buffer of a memory dump whose second
  request is not answered with data (`mBuff` in `RequestResponse`).
  `CountTrusted` and `InBounds` name the payloads whose announced count or length is not
  compared with what came: `Unchecked` reads a struct whatever the length (ring status and
  link statistics among them), and the name of a preferred network that is longer than
  an ssid is copied behind its place, for the last one behind the array
  (`gscan.cpp:1367`).
* `AnqpoConfigureCommand::createRequest` ignores its argument, so cancelling sends the list
  once more (`gscan.cpp:1692`). `wifi_get_valid_channels` always reports twelve channels.
  A version string as long as the buffer gets no terminator. A request that is
  acknowledged without a reply returns success with its outputs unset.
* With `"exitWrite"` in the `Faults` of EventLoop.cfg, `TornDownAfterLoop` fails: with
  `Exit` not written the flag alone does not wake the loop, and the handle is freed
  under it. So it does with `"doneRead"`: `wifi_cleanup` goes on after a failed read
  (`wifi_hal.cpp:395`; its comment hopes that there is none). (`EventLoopLive.cfg` has both
  faults, since `wifi_cleanup` still returns.)
* With `"rttCancel"` in the `ApiCalls` of WifiHalCleanup.cfg, `Subscribed` fails:
  `wifi_rtt_range_cancel` leaves the cancelled command in the table, without handler;
  with `"stopAny"` it fails too, since those calls cancel an object of their own.
* `mBuffSize` is never reset, so after the first dump an event without a dump length
  (an error by `wifi_logger.cpp:750`) is served with the old size (`DumpEvent`).
* A second dump attribute in one wait, of the driver or in the reply to a memory dump of
  another thread, makes `on_alert` be called with a null pointer and the old size
  (`wifi_logger.cpp:663`): the second half of `AlertWithinBuffer`.
* The results of `userial_vendor_set_baud` and `upio_set_bluetooth_power` are ignored, and
  `userial_set_default_baud` always returns 0: after a refused change the library waits
  for answers that cannot arrive, and has no timeout. The exceptions `missed` in
  `BaudAgree` and `~Reachable` in `ConfigEnds`.
* `scocfg_cb` gets a failure per command without a buffer before the success that
  `bt_vendor-ti.c:98` promises, and after a download without being asked
  (`HwConfigureSco`, `DownloadEnd`).
* A script command that cannot be transmitted ends the download, which is reported as
  success: the exception `cut` in `SuccessMeansDownloaded`.

## Proofs

`EventLoopProofs`, for every set of events, queue size and number of events:

* `TypeCorrect`: the type invariant, under all faults.
* `HandshakeInvariant`: `IInv`. `TornDownAfterLoop` is not inductive: nothing in
  it says why the loop thread is out when `info` changes. `IInv` adds the chain:
  `Done` is written only by a loop thread that leaves in the same step; from then
  on `in_event_loop`, which the code never resets, keeps every later call out;
  `wifi_cleanup` passes its read only with `Done`, which the code does not check and
  which holds because nothing else is ever written there; and the phases of the cleaner
  determine `clean_up` and `info`.
* `TeardownIsSafe`: `TornDownAfterLoop`, from `IInv`.
* `ImplementsShutdown`: every step is a step of `Shutdown` or a stutter.

The last three assume `"exitWrite"` and `"doneRead"` not in `Faults`, that is, that the
write of `Exit` succeeds and the read of the answer does not fail; without either
`TornDownAfterLoop` fails (see above). Hang-ups and a lost `Done` are covered.

`EventBufferProofs`, about the two handlers that keep a buffer from one event to the
next. `RttResults`, for every array size, any number of results and all
lengths: `ResultsInvariant` proves `IInv`, which *rtt_results* checks as well.
`ReportedLive` speaks of one moment only; `IInv` says at every attribute that the first
`currentIdx` slots hold the live buffers in order of arrival and that there are no more
of them than were sent (`Gathered`), which is why the index leaves the array only with
more than `MAX_RESULTS` results, and it ties the number of reports to the phase
(`Phases`). `ReportsLive`, `FreesAll` and `PointsRight` follow; the last one rests on the
struct being at least as long as a header, so that what the code takes off twice
leaves room for that of the second element. `AlertDump`, for all lengths, ring sizes,
numbers of events and of dump attributes in a wait: `AlertSafe` and `DumpFreedOnce` prove
`AlertWithinBuffer` and `FreedOnce` from the relation between `alertPc`, buffer, capacity and size. (The definitions of `AlertDump` have
names of their own, `AlertInit` to `AlertSpec`, so that one module can extend both.)

`HalInitProofs`, for any finite set of netdevs, any bounds and any set of failing calls:
`NothingHeldAfterFailure` and `LiveHandleIsReady` from `Stages`, which says for every
stage what a call holds there and that a call on top of a live handle never gets past
its first socket; `TableIsWhole` and `ReadyFinds` from `Counted`, which compares the
number of wifi netdevs with the number counted as long as netdevs only come or only go.

`TypeCorrect` is the type invariant: the groups of `wifi_add_membership` are joined in
their order, so that what has been joined is always a first part of them.

`WifiHalProofs`, for every set of commands, ids and classes, every size of the tables and
of the queue, and all interleavings of the two threads:

* `TablesRefineTheLoop`: `RefinesEventLoop`, for any client. Every action is a step of
  `EventLoop` or leaves its variables alone. With it the theorems of `EventLoopProofs`
  carry over (`LoopInvariant`).
* `RefCountsAreExact`, `NoHandlerDangles`, `CleanupLeavesNothing`, `TypeCorrect`, for a
  client that keeps to the rules (`Misuse = {}`). `RefsExact` and `HandlersOwned` are
  not inductive: a step of `start()` or `cancel()` is right only because of the steps
  before it. `TInv` adds how far the client's thread is (`Modes`): the rest of `todo` is
  a tail of the program of its class, with the handlers registered so far, or the undo of
  a refused request and then removal and release; that no command and no id is twice
  in `cmd`, no event twice in `event_cb`; and that a completed RTT command is out of one
  table before the other (`RttApart`). Lemmas about the programs carry it: whatever
  request of `start()` is refused, its undo takes back every handler registered before
  it, and `cancel()` unregisters all that `start()` registers, for all ten classes.
* `EventsReachTheirCommand`: `Subscribed`, for a careful client that stops its commands
  by their ids (`OwnStops`: neither the calls that stop any command nor
  `wifi_rtt_range_cancel`, with which it fails, see above) and a handler table with room
  for a handler of every event; `alloc_event_cb` is 64 in the code. `Subscribed` says
  nothing of a command while a call works on it, so it does not say that a `start()` that
  ends has what it asked for, nor that an undo or a `cancel()` leaves the others alone.
  `SInv` adds both: a `start()` has every handler it has asked for so far (`StartServed`),
  and every handler that the rest of the call will remove is its own (`StopServed`), which
  is where it matters that handlers are removed by event. That there is room comes from
  `TInv`: no event is twice in the table (`HandlerTable`).

`BtVendorProofs`, for every set of scripts, of any length, any number of sessions and all
faults: `SpeedsAgree`, `ReportsOnce`, `SuccessIsDownloaded`, `HangsOnlyThere`,
`BufferIsBalanced`, `TypeCorrect`. `IInv` adds to the properties when a command may be on
its way (`OnTheWay`), that the controller is reachable or a change was missed whenever a
configuration may begin or go on (`Speeds`), what `fw_data` is in the first session (`Buffer`) and that what has been
sent are the commands before the current position, in order (`InOrder`). The walk to the
next command is a recursive function; the lemmas show that `Found`, which names the
first place where the walk stops, satisfies its equation and is what it computes.

`RequestResponseProofs`, for any finite set of threads, any number of requests and all
faults: `EveryWaitHasAnEnding` and `OwnAnswer`. `IInv` says that a reply is followed by
the acknowledgement of its request (`Followed`), and of every thread that has not swapped
an answer that exactly its own endings are there, the last of them with the driver's
verdict on its last request (`Own`). The step that is hard is a new command after a swap:
when no waiting thread has swapped an answer, nothing for the others is left on the
socket (`NoneLeft`, an injection of the waits into the endings). TLC has checked this
`IInv` with two and with three threads.

`PayloadsProofs`, for buffers, payloads, counts and attribute sequences of any size and
all faults: `NothingOutOfBounds`, `CountsCanBeTrusted`, `NothingLeftAllocated`. `IInv` adds
what a request under construction has done (`Building`): the buffer is cleared where the
constructor or `createRequest` clears it, and the copy of a packet filter is there exactly
until its `delete`. `ResponseFits` and `EventFits` go through the handlers one by one. The
matrix and the packet fates are folds over the attributes: `MatrixWalk` and `FateWalk`
turn them into a walk from one attribute to the next.

`ScanResultsProofs`, for every length of the array, all replies and any number of
requests: `ArrayIsExact` and `ShortIsAll`. Between requests the invariant
(`IInv`, by `ScanResultsInvariant`) is hardly more than the properties; the work is within
one request, where the code goes through elements and attributes with locals that the
reference does not have. `Along` ties them together after every attribute: the array holds
the scans up to there (`Upto`), and unless it is full `scan_id` and `num` are what the
reference reads from the attributes before. `ScanWalk` and `ReplyWalk` turn the two folds
into walks; `IdStep` and `AnnouncedStep` say how the reference changes from one attribute
to the next; `HoldsMore` and `HoldsFull` say that a new last place gets the next rank,
leaves the others alone and is left out exactly when the array is full. For `ShortIsAll`,
`ReplySays` and `ReplyEmpty` say when a reply ends with the complete mark and when it
brings nothing.

Recursive functions and folds are reasoned about by the least place where a claim fails
(`LeastExists`, from the well-founded order of the naturals), since theorems on induction
with an operator as parameter cannot be used. Each inductive invariant was checked by TLC
on the constants of the component's run before it was proved.

Only model-checked: the liveness properties `CleanupEnds`, `CleanupCompletes`, `AllReturn`,
`ConfigEnds` and `CallsReturn`, since fairness and ENABLED are out of the prover's reach.
Every invariant and every action property of the passing runs is stated by a theorem.

## Assumptions

* Operations on the command table are atomic although the code takes no lock.
* The client keeps to `ClientMayStart` and `ClientMayStop`, and calls from one thread. The
  theorems about the tables say so (`Misuse = {}`), `EventsReachTheirCommand` excludes the
  calls that stop any command and `wifi_rtt_range_cancel` as well (`OwnStops`); the
  refinement needs no such thing.
* Behind the last action of a Bluetooth script no byte pair reads as a command.
  The shipped script ends in a left-out command and the code does read there.
* The write of `Exit` succeeds in `WifiHal` and the read of the answer does not fail;
  EventLoop covers both failures.
* The kernel loses no answer on `cmd_sock`: a failing `nl_recvmsgs` leaves the message there.
* What a closed Bluetooth port had still to receive is lost: no answer of one session
  arrives in the next.
* A `wifi_rtt_result` is at least as long as the header of an element
  (`RttResultsAssumption`).
* A number of results fits into an `int`, and the replies with cached scans are sequences of
  the elements `handleResponse` tells apart (`ScanResultsAssumption`).
* The classes of `WifiHal` are those of the code, and the event queue and the arrays of the
  event handlers have at least one entry (`WifiHalAssumption`, `PayloadsAssumption`).

## Not modelled

wpa_supplicant's driver commands keep no state. `WifiRequest` and `WifiEvent` build and
parse netlink attributes, one call of libnl each. The rfkill search and the termios
settings are I/O; that they fail is in `BtVendor`. The plain nl80211 handler functions, `requestEvent`,
`requestVendorEvent` and `GetChannelListCommand` have no caller. The array shifts of the
command table are one step each, although nothing locks them: interleaved they are
undefined behaviour, of which no property holds.

## What could follow

1. Driver-side subscription: a driver that sends events from the acceptance of a
   request on, and which starts lose early events (RTT, RSSI, ePNO register last).
2. `Subscribed` with `wifi_rtt_range_cancel`: what the code still guarantees to the other
   commands when a cancelled RTT command stays in the table.
