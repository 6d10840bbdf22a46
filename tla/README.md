# Specifications of the Bluetooth Classic SPP plugin

The plugin (`src/src`, `src/android`) connects an application to serial-port
(SPP/RFCOMM) devices and has one backend per platform behind one interface:
scan, `connect`, `get_connected_device_info`, `on_connected`,
`set_data_listener`, `start_subscription`, `send`, `disconnect`,
`disconnect_all`. The interface is small; what is hard is under it: an
asynchronous native stack on macOS, threads over blocking sockets on Windows,
tasks on Linux, Android's callbacks. The repository's own tests are templates,
so these modules are the only place where the interleavings are explored.

## 1. Inventory

| Component | Code | State | Operations | Status |
|---|---|---|---|---|
| Facade | `lib.rs`, `desktop.rs`, `mobile.rs`, `models.rs`, `error.rs` | none | forwards every call | not modelled: nothing to get wrong between two calls |
| macOS connection establishment | `macos/implementation.rs` 35-332, 571-605, 660-915, 983-1039, 1174-1213 | `MainThreadState`: sessions, retiring, connections, connect_queue, connecting, next_id; `connected_device_info` | `connect`, `disconnect`, `disconnect_all`, the blocks and timers of the main run loop, IOBluetooth callbacks | `MacConnection` |
| macOS transmission | 297-466, 598-619, 1110-1172 | `PendingRfcommSend`, `pump_scheduled`, retiring | `send`, pump, write completions, timeout | `MacSend` |
| macOS inquiry scan | 505-550, 630-658, 934-981 | inquiry, delegate, scan_loop_running, scanned_devices | start, stop, restart from the completion callback | `MacScan`, `MacPlugin` |
| macOS listeners | 168-198, 468-490, 551-596, 1064-1104 | callbacks, one worker thread per listener, data queued for it | register, deliver, tell the end | `MacListener` |
| macOS audio guard | `macos/audio_guard.rs` | targets, active; CoreAudio's listener and default output | start, stop_for, stop_all, CoreAudio callback | `AudioGuard`, `MacPlugin` |
| Windows connection | `win/implementation.rs` 140-204, 299-361, 648-730, 912-1088, 1106-1374 | per device: handles, info, callbacks; close locks | connect, disconnect, subscribe, send, read threads | `WinConnection` |
| Windows discovery | 229-281, 369-387, 420-636 | is_scanning, scan_generation, stop event, thread handle, scan_error, devices | start, stop, waiting stop, scan threads | `WinScan` |
| Linux connection | `linux/implementation.rs` 101-157, 283-593 | connections, waiting callbacks and listeners; streams shared by reference | connect, on_connected, subscribe, send, disconnect, read tasks | `LinuxConnection` |
| Linux discovery | 179-281 | scan task and its stop flag, devices | start, stop, scan task | `LinuxScan` |
| Android sessions | `BTSpp.kt` | socket, streams, read thread, send actor; GATT and its deferreds | connect, subscribe, send, disconnect, BLE equivalents | not modelled |
| Android plugin | `BtClassicSPPPlugin.kt`, `RustTypes.kt` | sessions by address, pendingScan | commands, permission results | not modelled |
| iOS | `ExamplePlugin.swift` | none | rejects every command | not modelled |
| Build, permissions | `build.rs`, `permissions/` | none | none | not modelled |

How they interact. On macOS every operation becomes a block on the main run loop
(`run_on_main_thread`, `exec_async`, `exec_after`); IOBluetooth calls back on the
same loop, sometimes from inside the call it answers. Callers' threads share a
mutex-protected `SharedState` and block on channels for the answer to a send.
On Windows callers run on their own threads, share `BT_STATE` under one mutex,
copy SOCKET values out of it and use them after unlocking; a read thread per
subscription and a scan thread per scan do the same, and are joined or left to a
reaper. On Linux a read task per subscription and a scan task per scan do so on a
Tokio runtime, and are aborted. CoreAudio calls the audio guard on a thread of its own.

What makes a component correct:

* establishment: one attempt at a time; no accepted connection is lost, queued
  twice or stuck; nothing stale touches a newer session; published info and the
  audio guard agree with the sessions; memory the stack owns outlives its use;
* transmission: the stream is whole payloads in order; Ok means written; the pump
  never stalls, never overruns its window; a send returns;
* Windows connection: every socket is closed once, by whoever owns it; handles
  that Windows reuses are never used for the wrong connection; joins end;
* discovery: a stopped scan has no effect on its successor; `is_scanning` tells
  the truth; a stopped scan ends, and one that runs can be stopped; no inquiry runs
  while a connection is made;
* listeners: data in order and none of another session; the end of a connection is
  told once; a registered listener has a worker;
* audio guard: what the table of targets says is what CoreAudio was asked for; the
  output goes back when a watch takes it; two watches do not fight over it.

The hazards at their lines are in `PROJECT.json`.

## 2. Modules

### ConnectionSlot
The abstract specification of connection management, for any backend that
serializes establishment: a device is idle, connecting or connected, only a
connecting one becomes connected, and one attempt is under way at a time. It is
not a translation of code: it is what `MacConnection` is checked, and proved, to
implement.

### PayloadStream
The abstract specification of `send`: one payload at a time, chunk after chunk on the
stream of one connection, each chunk offered first and then written or refused; what its
caller is answered and by which step; when it may return. Nothing in it is a translation
of code, and it knows no window, no turns and no buffers. It is what `MacSend` is
checked, and proved, to implement.

### MacConnection
`sessions`, `retiring`, `connections` (with `channelsLeft`), `connectQueue`,
`connecting` and `nextId` are the fields of `MainThreadState`. A HashMap is a
function on all addresses whose absent entries have generation 0, which
`next_id` never returns. `info` is the key set of `connected_device_info`,
`guarded` the targets of the audio guard. `mainQ` is the FIFO of posted blocks,
`timers` the armed ones. `opening`, `alive`, `writes`, `sdpActive` and `cached`
are what IOBluetooth has open, will call back about, owns buffers of, queries,
and remembers.

| Action | Code |
|---|---|
| `Connect`, `Disconnect`, `DisconnectAll` | the block of the call, whole |
| `StartSend`, `RejectWrite`, `WriteComplete` | the part of a send that matters to sessions: that writes are in flight, and failure |
| `RunStartNext` (`StartConnection`, `TryNextChannel`) | `start_next_connection` and everything it calls, the inline `finish_sdp`, `try_next_channel` and `handle_open_complete` included |
| `RunPoll`, `RunOpenTimeout` | the timers |
| `RunRetry`, `RunOpened`, `RunOpenFailed`, `RunClosed`, `RunRelease`, `RunFail` | the posted blocks |
| `OpenComplete`, `ChannelClosed`, `SdpComplete` | IOBluetooth |

The operators `Close`, `ReleaseSlot`, `Forget`, `FailConnection`,
`RetryConnection`, `FinishSdp`, `TryNextChannel` are the functions of the same
names; the blocks call them with the context (`Ctx`) in which they run: the rest
of the queue, the timers, and what the block has changed already. Each operator
determines the next value of everything it changes, so a block is the conjunction
of its guard and one call.

Abstractions: a device has one name; channels are model values; the data of a send
is one bit; the delay of a timer is any delay, so that a timer may also overtake
blocks posted before it was armed (more behaviours than the code has). The
environment is assumed to call back only for handles that have our delegate, and to
own no buffer of a channel it closed. `closeChannel` may fail at any time.
`ListenerFails` says whether CoreAudio may refuse the audio guard's listener, in
which case the device goes unguarded; `GuardFollowsConnections` is checked where it accepts it,
and proved for both.

### MacSend
One device's transmission in detail, with callers' threads. The pump makes two steps per
`writeAsync`: `PumpReserves` advances `next_offset` and `in_flight`, and `PumpWrites`,
`PumpBusy` or `PumpFails` is the result of the call. Between the two (`Calling`)
IOBluetooth may deliver completions of earlier writes, queue-space events and the
closure of the channel, from inside the call, and thereby fail the session; what a
refused write takes back (`Undone`) is taken from the session as it is then. Meanwhile no
other block runs (`Idle`). `session.send` is `PendingRfcommSend`; `wire` and
`acked` record what the stack accepted and acknowledged. `Open` stands for
`MacConnection`'s establishment. Posted blocks run in any order, which includes
the orders of the queue and of the delays.

### MacScan, AudioGuard and MacPlugin
`MacScan` is the inquiry: `running` is `scan_loop_running`, `inquiry` the number of the
current `IOBluetoothDeviceInquiry`, `reporting` those that IOBluetooth still calls back
about, `restarts` the posted restarts. `StartScan`, `StopScan`, `Found`, `Complete` and
`Restart` are the calls, callbacks and the posted block; `start_inquiry` is
`StartInquiry`, which may fail. `foreign` remembers whether an entry of
`scanned_devices` was found by an inquiry of an earlier scan.

`AudioGuard` has `active`, `targets` and `preferred` from `GuardState`, and CoreAudio's
side: `registered`, `output`, and `notice`, set while the listener is about to be
called. `start` is three steps, `Start` (the output is read before the lock is taken),
`Insert` and `Register`; `stop_for` and `stop_all` are `Stop` and `Remove`; the callback is
`Notified`, `ReadOutput` and `SetOutput`, on a thread of its own. `LooksLike` says which
watch is taken for which because of its name. CoreAudio may refuse to add the listener and to remove
it: a refused removal is only logged (line 400), so that the listener stays while the guard
is inactive (`leftover`), and a later guard registers it a second time, which is taken to be
the same registration. The output may fail to be read, by `start` and by the callback, and
to be set. `is_watch_device` reads three properties of the output more: their failure in the
callback is that of the read (nothing matches), in `start` they are taken to succeed.

`MacPlugin` puts them around connections, which it knows only by what `ConnectionSlot`
promises and `MacConnection` is proved to implement: `connect` stops the scan, the
first attempt of a connection starts its guard, whatever ends it stops the guard, and
`start_scan` refuses while there are connections pending. While the main thread is
inside the guard no other block of the main run loop runs.

### MacListener
One device. A session is reduced to its generation, whether it is open or failed (the
`active` flag), and whether its connected callback was called (`heard`); how it comes to be
and how it ends is nondeterministic but takes every path of the code. `channel` is
what still calls its delegate, which for a retiring session outlives the session.
`posted` is the main queue. `inbox[w]` is the `mpsc` channel of worker `w`,
`listener` the worker whose sender is registered, `last` what its listener was called
with last. Two assumptions on the environment are stated by the model: the main thread
calls the blocks it found in its queue before it turns to IOBluetooth again (`left`),
and IOBluetooth delivers no data of a channel before `openRFCOMMChannelAsync` has returned it.
Without the first, data that were posted because the session was not open yet could be
overtaken by data that come after it opened.

### WinConnection
`cur` is the device's `connection_handles`, `obj` tells which kernel socket a
SOCKET denotes at the moment, so that a closed handle that Windows hands out again
(`HandleReuse`) denotes a different socket. A critical section of `BT_STATE` is one
step; a call is several, with its copied handles in `reg`. Calls that change
nothing are left out. `shutdown`, `send`, `recv` and `closesocket` act on whatever
the handle denotes when they run.

### WinScan
`scanning`, `generation`, `event`, `handle`, `scanError`, `found` are the scan
fields of `GlobalState`. A thread is named by the generation it was spawned with and
looks at its stop event where the code does; an inquiry cannot be interrupted. `SetEvent` may fail
(`SignalFails`): the `?` at line 620 returns from the stop, the event and the handle it
took are dropped, and the thread is told by nobody; `deaf` records these threads.

### LinuxConnection
`conn` is the device's entry of `connections`, `waitingCallback` and `waitingListener`
its entries of the two maps of callbacks registered early. A stream is an `Arc`: it is
open while the map, a read task or a caller holds it (`Held`), and its asynchronous
mutex is derived from who reads, delivers or writes (`Locked`). A critical section of
`STATE` is one step; what a caller carries out of it is in `reg`. `Subscribe` and
`Install` are the two halves of `start_subscription`, with the task running in between.
A read task is `CheckFlag`, `Acquire`, then `Pause`, `ReadData` or `ReadEnd`, `Deliver`,
and `Teardown`; `Cancelled` is the effect of `abort` at a point where the task waits. `SendLock`
and `SendEnds` are a send: its `write_all` and `flush` have no timeout, so it may stay
between the two for ever while the stream has not ended. Whether a connection has a
listener is a boolean: which of two listeners registered one after the other gets a datum
is not told apart. The
listener is taken to return; one that calls `send` for its own device waits for the
mutex its own task holds, which is listed as a hazard and not modelled.

### LinuxScan
`current` is whose `scan_stop` and `scan_thread` are in the state: the code always
writes the two together. A task is named by the order of spawning; it waits at
`setup`, `select` and `name`, where `Cancelled` is the effect of `abort`, and looks at
its flag at the head of its loop. `Finish` is its last step, which resets both fields
whose ever they are; `robbed` and `overlap` record the two races that
`OrphanOnlyByRace` names.

### MCMacConnection, MCMacSend, MCMacPlugin, MCLinuxConnection and the modules of proofs
The finite instances of `MacConnection` and `MacPlugin`, and the symmetric ones of
`MacSend` and `LinuxConnection`. The theorems (section 4) are in `MacConnectionProofs`,
`MacSendProofs`, `MacListenerProofs`, `MacPluginProofs`, `WinConnectionProofs`,
`WinScanProofs`, `LinuxConnectionProofs` and `LinuxScanProofs`.

In every module a definition whose name begins with `Bad` is the definition that
follows it with a plausible mistake: a dropped guard, a missing reset, a swapped
case. No specification uses one. `PROJECT.json` pairs each checked property with the
mistake that breaks it, so that a property is known to notice something.

## 3. Runs

| Run | Question | Bounds |
|---|---|---|
| `mac_two_devices` | slot, queue, refinement of `ConnectionSlot`; who holds the slot has what will go on, and every accepted connection is resolved; each device with a session or the slot is guarded and no other | two devices, one with a cached record, 2 connects, 1 disconnect or spontaneous closure, 2 polls, silent stack allowed, listener accepted |
| `mac_one_device` | stale blocks, retiring sessions, published info | one device, 2 connects, 2 sends, 2 disconnects or closures, refused listener |
| `mac_send` | stream, window, buffers, pump, completions from inside `writeAsync`, refinement of `PayloadStream` | two threads (symmetric), payloads of 1 and 3 chunks, window 2, 2 writes per turn, two sessions |
| `mac_plugin` | inquiry against connections, audio guard | two watches, the first taken for the second by its name, one other output, 2 scans, 2 inquiries, 1 switch of the output, listener whose adding or removal is refused |
| `mac_listener` | order of data, life of workers, end of connections | two sessions, two data, two listeners |
| `win_connection` | sockets, locks, readers; who waits for whom, so that joins end and dead connections end | two callers, two connections, two read threads, two SOCKET values, reuse, 1 disconnect or closing peer |
| `win_stale_reader` | the comment at line 302 (violated) | one read thread |
| `win_scan` | scan threads and their successors, who waits for which | two callers, four generations, stop events that fail |
| `linux_connection` | order and loss of data, callbacks once, late tasks | two callers (symmetric), two streams, two tasks, two data, one callback |
| `linux_liveness` | dead and dropped connections end, which calls return | two callers, two streams, two tasks, writes that block, no data |
| `linux_late_handle` | the comment at line 518 (violated) | two callers, one task |
| `linux_scan` | which running scan can be stopped, stopped scans end | two callers, three scans, one stop, one device |

Why these bounds are enough. A race over the slot needs two devices, and every further
one behaves like the second. A stale block needs a session to be replaced once, hence
two connects; a retiring session needs a send, a failed close and a late completion.
With a fallback list of one channel and one announced by SDP a device tries both, so
retry, exhaustion and rotation between devices all occur. A payload of three chunks with
a window of two makes the window fill, drain and fill again; two sessions let
completions of the first arrive in the second. Handle reuse needs two connections and
two SOCKET values. Superseding a scan needs two generations per scan (stop and start
each take one). On Linux the interesting task is one that outlives its connection or
shares its stream: two streams and two tasks give both, and two data can be swapped. One
callback is enough for it to be registered by one caller while another connects. Two
inquiries let one report and complete into the life of the next; a third would repeat
the pair. The fight over the output needs two watches, and the takeover one switch by
the system: every later one finds the guard in a state that the first could have found.
Two sessions and two listeners let data, errors and workers of one meet the other. Three
scans on Linux let a stopped task rob its successor while a third starts.

All runs switch deadlock checking off: calls are bounded, and a device that is idle
with no calls left is a legitimate end.

Fairness. `MacConnection` assumes that the main run loop runs its blocks and that timers
expire (weak fairness of `RunBlock` and `RunTimer`), and nothing of IOBluetooth:
liveness is what the timeouts are for. `MacSend` states no liveness: that `send` returns
is what its timeout is for, and that the pump does not stall until then is the invariant
`PumpNotLost`. The Windows modules assume that threads keep running and blocking calls
that can return do; `recv` on a live socket never has to. `MacPlugin` assumes that the
main thread leaves the audio guard and that CoreAudio's thread runs, `LinuxScan` that
threads and tasks keep running. A Windows send returns, because `connect` sets
`SO_SNDTIMEO` on the socket (20 s, line 717; it goes on with a warning should Windows
refuse, which the fairness leaves out). A Linux send need not: its write is fair only
once the stream has ended. Otherwise `LinuxConnection` assumes the same of callers and
tasks, that Tokio's mutex is fair (it is FIFO, hence strong fairness of `Acquire` and
`SendLock`), and that a read of an ended stream is not passed over again and again: the
timer of every turn is a fresh one, so the read is polled before it expires and returns
at once. Nothing bounds how often `connect` may be called and fail, but none is begun
when the streams of the bound are used up.

`MacListener` states no liveness: its workers do nothing but take the next event.

### What the runs found
Two comments are refuted by a run (`findings` in `PROJECT.json`):

* `win_stale_reader`: a read thread receives data and fetches the listener; the device
  is displaced by a reconnect; the thread calls the listener of the replacement.
* `linux_late_handle`: connect and subscribe; before the handle is stored another caller
  reconnects; the handle goes to the new connection, its task ends with the old stream,
  and the new connection counts as subscribed with nobody reading it.

Other divergences, met while modelling, need no run since the code shows them at once:

* macOS, line 90, "SDP/pairing on the shared controller must not race another open
  attempt": `disconnect` frees the slot while the device's SDP query runs, and so does
  `poll_sdp` after 30 polls; the next device's channel is opened meanwhile.
* Windows, line 1344: after a failed send nobody cleans up a device that has no read
  thread; line 596: `connect` finds no scan thread to wait for when `stop_scan` has
  given it to the reaper.
* Audio guard, line 291: with two watches of one name the callback may stop at the
  target that has nothing to go back to; `OutputRestored` leaves such a watch out. A
  takeover between the first read of the output and the registration of the listener
  (lines 300 to 331) is noticed by nobody; the property speaks of guards that stand.

What holds only under a condition, which the property states:

* `CallsReturn` of `WinConnection`: a read thread that lost the subscription race,
  whose handle was never stored, may call `recv` on the reused handle of a healthy
  connection (`ForeignRecv`), and its starter joins it for as long as that connection is
  silent. The window is a few instructions wide.
* `OrphanOnlyByRace` of `LinuxScan`: a task that was stopped, or whose event stream
  ended, resets the fields of its successor (line 252), and two overlapping
  `start_scan` calls overwrite each other's; after either a scan runs that nobody can stop. The
  property says that nothing else leads there.
* `CallsReturn` of `LinuxConnection`: but for a send whose write blocks on a link that is
  half dead, and the sends behind it on the same mutex (`Stuck`). `win/implementation.rs`
  44-45 documents that such a send blocks for ever without a timeout; the Linux one has none.
* `OutputRestored` of the audio guard: unless CoreAudio fails to tell the callback the
  output, or to set another. Nothing is tried again, so the watch then keeps the output.
* `ScanningIsHonest`, `StopsAreTold` and `CallsReturn` of `WinScan` hold also when a stop
  event cannot be set: the caller returns the error and waits for nobody. What is lost is the
  order to stop: the thread (`deaf`) goes on inquiring, silently, as its generation is past.
* `DroppedCloses` of `LinuxConnection`: "Dropping the stream closes the RFCOMM
  connection" (line 297) is not true after two overlaps, which the property names
  (`Overlap`). Of two subscriptions of one connection at once the later one's handle and
  flag replace the earlier's, and after a disconnect the earlier task still reads, with
  the stream open; and a connect that inserts its connection over one that another
  connect inserted, and a third call subscribed, meanwhile drops that one without
  stopping its task. The run has two callers, so both happen in it; nothing else leaves
  a stream open but a send that is under way.

## 4. Proofs

Every safety property of the runs, invariants and action properties alike, and the
refinements of `ConnectionSlot` and `PayloadStream` are theorems, for all values of the
constants that meet the named assumptions. Each module of proofs has one inductive
invariant (`IInv`, or its layers), a lemma for each operator several actions share, one
for each action, and then the theorems. TLC finds no violation of the inductive
invariants either, on the instances of section 3 with `Nat` cut off.

Three of the theorems state what no run repeats: `StreamIntact` and `OkMeansDelivered` follow
from `ImplementsStream`, which `mac_send` checks, and `CurrentReaderRuns` is the safety half of
`DeadConnectionEnds`, which `linux_liveness` checks. `ConnectionsServed`, `NobodyWaitsInVain`
and `StopsAreTold` are conjunctions of two invariants each, and each part is a theorem of its
own: `NoConnectionIsLost` and `SlotGoesOn`, `SubscribedAreRead` and `WaitsDoEnd`,
`SupersededIsToldToStop` and `NobodyWaitsUntold`.

| Module | Theorems | Properties | Assumptions |
|---|---|---|---|
| `MacConnectionProofs` | `TypeCorrect`, `OneAttemptHolds`, `InfoMatchesSessionsHolds`, `SlotIsImplemented`, `RetiringIsReleased`, `GuardFollows`, `StaleBlocksAreInert`, `ConnectionsAreServed` | `TypeOK`, `OneAttempt`, `InfoMatchesSessions`, `ImplementsSlot`, `RetiringEnds`, `GuardFollowsConnections`, `StaleBlocksInert`, `ConnectionsServed` | `NoAddr` is not an address, paired devices are devices, there are fallback channels, at least one poll |
| `MacSendProofs` | `StreamStaysIntact`, `OkIsDelivered`, `InFlightIsExact`, `BuffersAreKept`, `PumpIsNotLost`, `StreamIsImplemented` | `StreamIntact`, `OkMeansDelivered`, `InFlightExact`, `BuffersKept`, `PumpNotLost`, `ImplementsStream` | payloads of at least one chunk, a window and a turn of at least one write |
| `MacListenerProofs` | `ListenersLive`, `StreamInOrder`, `EndsAreTold` | `ListenerLives`, `InOrder`, `EndIsTold` | bounds are naturals |
| `MacPluginProofs` | `NoInquiryDisturbs`, `ScanNeverStalls`, `ListIsItsOwn`, `GuardIsReal`, `OutputIsNotTossed` | `NoInquiryWhileConnecting`, `ScanGoesOn`, `ListIsOfThisScan`, `TargetsAreGuarded`, `NoPingPong` | `NoOutput` is no device, watches are no speakers |
| `WinConnectionProofs` | `SendsOnOwnSocket`, `SocketsAreOwned`, `InstalledReadersAreSafe`, `AllWaitsEnd` | `SendOnOwnSocket`, `SocketsOwned`, `InstalledReaderSafe`, `NobodyWaitsInVain` | callers are not read threads; bounds are naturals |
| `WinScanProofs` | `StaleScanIsSilent`, `ScanningStaysHonest`, `StopsReachThreads` | `StaleScanSilent`, `ScanningIsHonest`, `StopsAreTold` | the bound is a natural |
| `LinuxConnectionProofs` | `DataStaysInOrder`, `CallbacksOnce`, `HealthyAreKept`, `CurrentReadersRun` | `InOrder`, `CallbackOnce`, `HealthyKept`, `CurrentReaderRuns` | bounds are naturals |
| `LinuxScanProofs` | `OrphansOnlyByRaces` | `OrphanOnlyByRace` | bounds are naturals |

### MacConnectionProofs
None of the invariants is inductive. `OneAttempt` says an unopened session belongs to the
slot's holder; to keep it when the slot is released one needs that releasing it ends the
session (`FailConnection`), or has opened it; to keep it when the slot is taken, that the
slot was free. `InfoMatchesSessions` needs that a session that opens is still pending, which
is `OneAttempt`, and that one that is closed for a retry was not open, which is
`OpenIsSettled`. The first layer is

    Control == TypeOK /\ SlotPending /\ OneAttempt /\ OpenIsSettled /\ InfoMatchesSessions

with `SlotPending` (the slot's holder is pending) and `OpenIsSettled` (an open session is
not pending any more). Given `Control`, each of the others is inductive by itself:

* the refinement needs no more: the mapping calls a device connected when its session is
  open, connecting when it is pending, idle otherwise, and each block, timer, callback and
  call is one step of `ConnectionSlot` or a stutter; `DisconnectAll`, which alone changes
  several devices at once, is its `Shutdown`;
* `Retired` (for `RetiringEnds`): a retiring session still has an outstanding write or a
  posted closure or release, *and* a session with writes in flight will be told how they
  end. Without the second half, a session that retires might have nothing left to wait for.
  The generations of retiring sessions differ from the current one, so a late completion is
  told apart;
* `Guard` (for `GuardFollowsConnections`): the connection that waits for the slot again
  after its SDP query is guarded too, because it will not be guarded a second time when it
  gets the slot;
* `Order` (for `NoConnectionLost`): the queue lists exactly the pending devices without the
  slot, each once. This rests on posted retries and armed polls being tokens of the slot's
  holder, each of which exists once: a second retry of one connection would put its device
  into the queue twice, and a retry of a connection that lost the slot would take it from
  another;
* `StaleBlocksInert` is an action property and follows from `Control`, block by block;
* `SlotNeverStalls` is what `ConnectionsResolve` rests on: each block that takes the slot
  posts or arms what goes on with it (`HolderGoesOn`), each that frees it posts
  `start_next_connection` (`FreedGoesOn`), and a block that runs uses up only what it is.
  The latter needs `Order`: a posted retry, an armed poll and an open timeout do not
  all stand for the slot's holder, so the one that runs is the one that was meant.

### MacSendProofs
`StreamIntact` needs to know what the stream ends with (`StreamEnd`): the last chunk of
the pending send that was accepted, or a whole payload. That a send begins only on a
stream that is whole follows from `Accounted` (each written chunk has completed or is
outstanding), with which the send completes only when all is written, and from a failed
session taking no send. All of it has to hold inside `writeAsync` too, where
`next_offset` and `in_flight` are one ahead of the stack. `Reservation` says that the
reservation is there until the call returns, whatever is called back meanwhile: the
session and its send are the same (no block runs, and a completion from inside the call
cannot be the last, since the reserved write counts), so what a refused write takes back
is what was reserved, and the subtraction at line 386 does not underflow. `Accepted` is
the offset without the reservation. `OkMeansDelivered` is `Accounted` at the moment
`inFlight` reaches zero with nothing left to write, which needs that `inFlight` counts
the outstanding writes and the reserved one (`InFlightExact`, by cardinality).
`BuffersKept` needs that a session opens only when the one before it was released
(`Shape`), and that a closure or release is posted when the stack owns nothing more of
that session (`Owned`). `PumpNotLost` needs `LastToCome`: a send that is written whole
waits for a completion.

The refinement maps the session's send to the payload under way, what a caller inside
`send_impl` waits for to its work, and the acknowledged chunks of the pending send to
what is confirmed. A reservation is `Offer`, an accepted write `Write`, a refused one
`Refuse`, whether it is tried again or fails the session. Yields, queue-space events,
posted blocks, timeouts as such and everything about a retiring session are stutters; a
timeout that finds its send pending is `GiveUp`. It needs two facts more than the
invariant above. `Acked`: no chunk is acknowledged twice or before it was written, so
that the last chunk is confirmed *exactly* when `AllDone` holds (`ConfirmedAll`; one
direction is `Accounted`, the other that a write still outstanding is a chunk still to
confirm). `Asked`: the caller of the pending send is inside `send_impl` and not answered
yet, so that whoever returns because of an answer has no payload under way.

### MacListenerProofs
`ListenerLives` and `EndIsTold` hold nearly as they stand. `InOrder` does not: data reach a
listener by two paths, through the main queue while the session is not open yet and at once
afterwards. The argument is the main thread's turn (`Turn`): nothing joins the blocks of a
turn, and no callback of IOBluetooth comes before they are called, so the data that were
posted before the session opened are out of the queue when the first direct datum comes.
`Stream` says that what waits in the queue continues what the listener was told without a
gap, `Inboxes` the same of what waits for a worker, across sessions.

The proof found one definition of the model wrong: the `CASE` in `Receive` had two guards
that could both hold (the error, when there is no session), so its value was not determined;
TLC takes the first, which is what the code does. The second guard now excludes the first.

### MacPluginProofs
The invariant has a half for the scan and one for the guard, proved apart and put
together in `NextIInv`. `ListIsOfThisScan` needs `InquiryOfThisScan`: the inquiry in the
state is not older than the last scan, because a stop clears it and only a restart of
the running scan stores another. `TargetsAreGuarded` speaks of a main thread at rest;
`ListenerFollows` says what holds inside `start` and the stops too: the listener is
added for the only target there is, or removed after the last, or it is a `leftover`
that CoreAudio refused to remove. An active guard has it in every case; without a guard
it is there only as a leftover. `NoPingPong` is preserved because `Preference` is no
guarded watch when the target is inserted. The connections are those of
`ConnectionSlot`; that `MacConnection` implements it is `SlotIsImplemented`.

### WinConnectionProofs
Who owns a connection is `Held(o)`: the connection state, a caller that is installing it, or
a thread that is taking it down. Every operation that moves a connection exchanges two of
these, so ownership (`Owned`) is settled by one lemma about such exchanges.
`SendOnOwnSocket` needs `Senders`: before it has the close lock, a sender's handle is its
own *or* its connection was marked as stopped, which it looks at under that lock; after,
nobody closes the socket. `InstalledReaderSafe` needs `Reading`: while a stored read thread
lives, whoever holds its connection knows its handle, hence joins it before it closes; and
`Down`, that a connection that is about to be closed has been joined. The subscription that
stores a handle does so only if the state still has the connection the thread was started
for. Handle reuse may be on or off.

The layer `Waits` is about who waits for whom. `Known` says that the read thread a
connection names was started for that connection; `Left`, that a thread stops reading
only when its connection is the current one no more, and closes none but its own: so no
handle is stored of a thread that is done (`SubscribedIsRead`). `Ended` says that what is
being closed was shut down first, and so was the connection of a subscription that lost;
`Locks`, that only a caller inside `send` holds a close lock. With `Owned`, by which two
threads never close one connection, this gives `WaitsEnd`: no cycle of joins and locks,
and `recv` returns to every thread that is joined, unless its handle denotes another
connection by then.

### WinScanProofs
The first two theorems hold by the generation: a stale thread finds another one. The third
needs `LiveMeansScanning` (the thread of the current generation runs only while
`is_scanning` is set, so the stop that changes the generation takes its event with it, and a
start that finds the flag clear finds no thread of the current generation) and `OldAreTold`
(no event of the current or a later generation is signalled or about to be). `WaitedForIsTold`
needs `OneThread`: the event and the handle, in the state and in a caller's hands, are of
one thread, so setting the one before joining the other tells the thread that is joined. A
stop whose event cannot be set joins nobody, and what it leaves behind is `deaf`.

### LinuxConnectionProofs
A stream is inserted at most once, before any task reads it (`NewStreams`). So a task that
was stopped, however late, reads no current stream (`Past`), and what it tears down is not
the current connection unless it saw the stream end (`Ending`): this is `HealthyKept`.
`InOrder` is by the stream's mutex (`Exclusive`: one task reads or delivers) and by `Data`,
which says that what is delivered, and what the one task has in hand, is what was read.
`CallbackOnce` counts, over all callers, those about to call a callback; `Callbacks` says
there is at most one and none while the callback waits. `CurrentReaderRuns` is `Past` seen
from the caller: what it stops belongs to an entry that it displaced.

### LinuxScanProofs
Unless calls of `start_scan` overlap, one caller at a time is between taking the fields and
storing its own (`OneStarts`), so nothing it stores replaces the fields of a scan that runs;
a task then loses its fields only to a predecessor's last step, which records it as
`robbed`.

### Only model-checked, and why
The temporal properties under fairness: `ConnectionsResolve`, `OutputRestored`,
`CallsReturn` (Windows connection and discovery, Linux connection), `DeadConnectionEnds`
(Windows, Linux), `DroppedCloses` and `StoppedEnds`. Liveness is out of the prover's reach.
What they rest on is proved, as far as it is a safety property: `ConnectionsAreServed` says
that an accepted connection keeps its place in the queue or the slot, and that the slot's
holder and the queue have what will serve them next, which is why
`ConnectionsResolve` needs nothing of IOBluetooth; `PumpIsNotLost` and `ScanNeverStalls` say
the same of the pump and the inquiry; `AllWaitsEnd` is the safety half of `CallsReturn` and
`DeadConnectionEnds` of the Windows connection,
`StopsReachThreads` of `CallsReturn` of its discovery, `CurrentReadersRun` of
`DeadConnectionEnds` on Linux. What is left to TLC is that the steps that are on their way
are taken, and that there are finitely many of them. The two runs that expect a violation are
counterexamples, which need no proof.

## 5. Not modelled

Data and its formats, names and addresses as strings, logging, the mutexes' poisoning,
the wrap-around of 64-bit counters. Application callbacks are taken to return: one that
calls back into the plugin for its own device may deadlock on Linux and Windows (listed
as hazards). Pairing on Windows (`pair_device_headless`) and the channel sequence are
one step that fails or makes a socket, since the state sees no more of them;
`on_connected` there stores its callback and decides whether to call it in one critical
section, as `connect` copies it in the one in which it installs the connection, so each
connection is announced once; `bluetooth_stack_cleanup` runs when the application exits,
after which no call comes. The four normalizations of fallback channels are loops over a
list of bytes, with nothing concurrent about them.

Android (`BTSpp.kt`, `BtClassicSPPPlugin.kt`) is a second program in Kotlin with its own
locks, threads and coroutines. Its hazards are listed, its models are not
written. Facade, iOS stub and build files have no behaviour of their own.

## 6. Plan

Done: all three desktop backends but the parts above, and proofs of all safety properties
of the runs. Next, in this order:

1. `AndroidSpp` (read thread, send actor, reconnect), `AndroidBle` (GATT callbacks
   against deferreds), `AndroidScan` (the pending permission).
2. Listeners and callbacks that call back into the plugin, on Linux and Windows.
3. `FallbackChannels`: the four normalizations against one reference definition.
