# A TLA+ verification of the miso firmware

miso is the firmware of an IoT node (Bosch XDK110, EFM32GG microcontroller,
CC3100 WLAN network processor): Zig and C on FreeRTOS. Several service tasks
(LwM2M, MQTT, HTTP, NTP) share one network processor through a small set of
tasks, queues and event handlers. This directory models those parts in TLA+,
model-checks them with TLC and proves the central results with TLAPS.

All paths below are relative to the repository. `PROJECT.json` holds the
mapping of every definition to the lines it models, the runs, the mutants that
show that each property can fail, the findings and the list of hazards.

## 1. Inventory

| Component | State it keeps | Operations | Hard behaviour | Correct when |
|---|---|---|---|---|
| Network mediator `c/legacy/src/connection.zig` | pool of 4 elements: descriptor, deadline, request and answer queue; a mutex | `run()`, `wait_rx`, suspend, resume | unlocked searches, suspension anywhere, blocking sends, wrap-around of ticks | a service that waits gets one answer, the right one, not too early and not never |
| Wifi service `c/legacy/src/wifi_service.c` | `wifi_status`, a task notification value | `wifi_task`, `CC3100_WlanEvtHdlr`, `CC3100_NetAppEvtHdlr` | notifications merge, status written by task and handlers without a lock, restart | no loss is forgotten, services and mediator are told in the right order |
| DTLS timer `c/legacy/src/mbedtls_adapter/timing.c` | two FreeRTOS timers and a state mbedTLS polls | `set_delay`, `get_delay`, callback, init, deinit | the timer daemon preempts `set_delay` | the state tells about the last `set_delay`; a retransmission is never missed |
| SPI transport `c/board/board_CC3100.c` | completion queues, chip select, a transfer in flight | `IfOpen`, `IfClose`, `IfRead`, `IfWrite`, callbacks | timeout without abort, late completions | a call goes by its own completion |
| Non-volatile memory `c/legacy/src/nvm.zig` | flash objects | `init`, request counters, writes | resets and errors half-way | initialisation is all or nothing, requests survive |
| SimpleLink host driver `c/SimpleLink/cc3100-sdk/simplelink/source/` | a global lock, two message counters, a semaphore; a pool of action objects in three linked lists | commands, reading of messages in two contexts, pool of waiting calls, error handling | any task or the spawn task reads whatever message comes next; interrupts are lost; timeouts | a response reaches its command, no message and no call is left behind |
| Spawn task `c/legacy/src/network.zig` | queue of 4 calls | `osi_Spawn`, `run` | full queue in interrupt context | every message announced is read |
| Connections and TLS `c/legacy/src/simpleConnection.zig`, `c/mbedTLS/src/mbedtls.zig` | socket, TLS context, timer | open, close, send, receive | failed handshakes, clean-up order | every socket and context is released once |
| SD card `c/board/board_sd_card.c`, `c/board/sdmm.c` | card type, status flags, completion queues | disk initialise, read, write, ioctl | removal and exchange of the card, timeouts of commands, blocks acknowledged before they are stored | RES_OK means what it says, no sector but those of the request changes |
| File system `c/FatFs/ff15/source/ff.c`, `c/FatFs/src/fatfs.zig` | one sector window, FAT and directory entries on the card, the open file, a table of one open object | open, close, read, write, seek, sync, truncate, unlink, rename | power loss, removal or an error of the card between two sector writes; calls that fail half-way | the card never holds two files on one cluster; what is closed is on the card |
| I2C sensors `c/board/board_i2c_sensors.c` | mutex, completion queue | transfer, interrupt | completion left behind, wait without bound | a caller gets the result of its own transfer |
| LwM2M client `c/legacy/src/lwm2m/` | list of sessions, object instances | client loop, connection list, object callbacks | freeing a session in use | the list holds exactly the open sessions |
| Configuration `c/legacy/src/config.c` | parsed settings | load from SD card | fall-back order | a complete set of settings or the defaults |
| Board, main, wrappers | - | start-up, pins, kernel wrappers | start-up order | - |

How they interact: a service opens a socket (`simpleConnection.zig`), calls
`wait_rx` of the mediator before it reads, and is answered through a queue of
length one. The mediator polls the sockets with `sl_Select`. The wifi task
suspends and resumes the mediator and tells the services about connectivity.
Everything that talks to the network processor goes through the SimpleLink
driver, the spawn task and the SPI transport. mbedTLS uses the timer adapter for
DTLS. The configuration, the firmware image and the logs go through FatFs to
the SD card driver, one call at a time (the mutex of the volume).

There are no tests in the repository; the comments and the assertions of the
code (`unreachable`) are the only statements of intent.

## 2. Modules

| Module | Models | Kind |
|---|---|---|
| `ConnectionManager` | network mediator and the services that call it | component |
| `MCConnectionManager` | instances of it (symmetry) | model |
| `ConnectionManagerProofs` | its theorems | proofs |
| `ConnectivityGate` | what services may rely on: the order of announcing, suspending and resuming | abstract specification |
| `WifiService` | wifi task, event handlers, task notification; implements `ConnectivityGate` | component |
| `WifiServiceProofs` | its theorems | proofs |
| `TimingAdapter` | DTLS timer | component |
| `TimingAdapterProofs` | its theorems | proofs |
| `SpiTransport` | SPI transport to the network processor | component |
| `Nvm` | non-volatile memory | component |
| `NvmProofs` | its theorems | proofs |
| `SlDriver` | command and receive paths of the SimpleLink driver with the interrupt route and the spawn task | composition |
| `SlDriverProofs` | its theorems and those of the SPI transport under it | proofs |
| `KeyLocks` | what a call to the network processor may rely on: its socket or action is its own | abstract specification |
| `ActionPool` | pool of action objects of the SimpleLink driver; implements `KeyLocks` | component |
| `MCActionPool` | the calls of this firmware on a small pool | model |
| `ActionPoolProofs` | its theorems, the refinement included | proofs |
| `BlockDevice` | what the file system may rely on | abstract specification |
| `DiskDriver` | SD card driver; implements `BlockDevice` | component |
| `MCDiskDriver` | a card of each kind | model |
| `DiskDriverProofs` | its theorems, the refinement included | proofs |
| `FatVolume` | core of FatFs as the repository configures and calls it | component |
| `MCFatVolume` | a volume of three clusters and three names | model |
| `FatVolumeProofs` | its theorems | proofs |

### ConnectionManager

One variable per field of the pool (`sd`, `deadline`, `rx_queue`,
`rx_signal`), the mutex, the pending notification, the locals of `run()`
(`slot`, `cur`, `read_set`, `maintenance`) and, per service, its place in
`wait_rx`, its socket and the element it uses. Every action is one access to
memory, a queue or the mutex that another task can see: in `run()` one element
of a `for` loop is one or two actions (`ScanFree`, `ScanUnarmed`, `ScanArmed`,
`ScanExpired`, `InvalTake`, `InvalWrite`, `Expire`), the search of `wait_rx`
looks at one element per step (`FindSocket`, `FindFree`), and taking the mutex
and writing the descriptor are two (`ClaimTake`, `ClaimWrite`). `Suspend` and
`Resume` may happen anywhere; a mediator suspended in `xTaskNotifyWait` returns
from it when resumed, taking a pending notification with it. FreeRTOS queues of
length one block when full.
All tasks interleave freely; priorities are not used, since the mediator blocks
in calls and is suspended by another task.

Abstracted: timeouts are ticks (the factor 1024 of `timeout_s` is left out);
`tx_queue` has no sender in the repository and is left out with
`write_fd_set`; the order of the descriptors inside `nfsd` does not matter. With
`TickWraps` the 32-bit sum of ticks and timeout wraps, as in an optimised build;
a build with safety checks traps there, which ends the behaviour.
`raced` is a history variable: two services were on one element at the same
time. The properties about answers are stated up to that point, because after
it the code gives no guarantee (finding 1 below).

### WifiService

`link`, `leased` and `events` are the network processor: it joins, loses the
link, gets and loses an address, and queues the events for the handlers. It is
the environment and promises nothing. `handler` splits a handler into the
assignment of the status and the notification that reads it again. `bits` is
the notification value as the set of the bits the task acts on; `value` is
`ulNotifiedValue`. `task` goes through `wifi_task` statement by statement where
other tasks can see the difference. `running` (mediator not suspended) and
`online` (last event told to the services) are the variables of
`ConnectivityGate`. `miso_notify_event` has no definition in the repository; it
is modelled by the event it passes. The task is created suspended; the model
starts where the application resumes it.

### TimingAdapter

Timers count down per tick; the callbacks `FireInt` and `FireFin` run before
the next tick because the timer daemon has the highest priority; `set_delay` is
five steps the daemon may preempt: two stops, two starts and the assignment of
the state. `elapsed` and `overrun` are history
variables. The state of a timer that was never set is arbitrary (uninitialised
memory in `mbedtls.zig`).

### SpiTransport

A call selects the chip, resets its queue, starts the transfer, waits for the
completion or times out, and deselects. `Complete` is the interrupt. A transfer
and its completion carry the tag `own` while the call that started them runs,
which is how the properties tell a stale completion from a fresh one. The
SimpleLink driver makes one call at a time (its global lock, external).
`xQueueCreate` may fail, which the code does not check.

### Nvm

`objects` is the set of keys in the flash. `Reset` may strike anywhere, also
inside `eraseAll`, which then leaves any subset. Writes of single objects are
atomic (a promise of the NVM3 library, external). `init()` has no caller in the
repository; the model lets every start call it, as the API intends.

### SlDriver

Every task that talks to the network processor goes through `_SlDrvCmdOp`. The
model composes four parties: the tasks (`CmdStep`, one step per access to the
lock, the flag `IsCmdRespWaited`, the counters or the bus), the spawn task
(`SpawnStep`), the timer daemon that runs the pended interrupt handler
(`RxIrqHandler`) and the network processor (`Answer`, `Notify`). The processor's
messages form one queue `nwp`; `_SlDrvMsgRead` takes whatever is at its head,
and `RxIrqCnt - RxDoneCnt` decides who reads. Faults: the call pended from the
interrupt is dropped (`lostIrq`), a transfer fails (`spiError`), a response does
not come (`SemTimeout`), the device aborts (`Abort`). A mutex that was deleted
is never taken or given again.

Messages are abstracted to the task they answer, an event, or an abort: the
class is all that the control depends on. A wait for a semaphore with a timeout
may time out whenever no signal is there.

### ActionPool

A call that waits for an asynchronous answer (`sl_Connect`, `sl_Select`, a name
resolution, ...) takes an object, waits until its key (its socket, or its action)
is free, sends its command, waits on the object and releases it. `NextIndex` and
the three heads are the source's linked lists; `Visited` is what a loop along one
of them comes to, as the least set that has the head and, with an object the loop
does not stop at, the next one. A loop that never ends is a set without the end mark. An action is one critical section of
`ProtectionLockObj`. The data of a receive is copied and signalled in one
(`DeliverData`); for any other answer the object is found in one (`FindActiveObj`,
`ActionIndex`) and signalled in another, when its handler runs (`HandleAsync`);
the reader, which holds the global lock, handles one message at a time. A command may be
refused by its status, or fail; a call whose command fails returns and keeps its
object for ever, except a receive (`Leak`, `VERIFY_RET_OK` in `socket.c` and
`netapp.c`). `May` is the set of calls each task makes: in this firmware a socket
is used by one task, name resolution by all and `sl_Select` by the mediator.

### DiskDriver

One step per card command and per data block, because the card may fail, be
taken out or be exchanged between any two. `Stat` and `CardType` are the static
variables of `sdmm.c`. `busy` is the block the card has acknowledged and is
programming; `live` is whether the card was initialised since it was put in.
`Address` is the conversion to a byte address in 32 bits. `BlockDevice` sees the
contents that the cards will have when the block is programmed (`Stored`) and
the sector that may be lost until then (`Unsafe`).

### FatVolume

The state is what the card holds (`disk`: every FAT entry and directory entry),
the sector window (`win`, `winsect`, `wflag`), the open file object `fp`, which is
also the one entry of the lock table (`FF_FS_LOCK` is 1), and the place of the call
in progress (`pc`, `clst`, `arg`). A step is one access through the window
(`Get`, `Put`) with the change made in it; moving to another sector writes a
changed window back first, as `move_window` does. A call is a sequence of such
steps, because `ff.c` holds the volume's mutex throughout: `create_chain` is
`Allocate` and `LinkCluster`, `f_write` goes on from cluster to cluster (`pc` is
"write") and sets `FA_MODIFIED` when it ends, `remove_chain` is one `RemoveCluster` per cluster,
`f_rename` is `RenameEntry`, `RenameRemove` and `Flush`. `DiskError` is a sector
access that fails in any of them, `FlushFails` a failing `sync_fs`, and
`Interrupt` a power loss or an exchange of the card, of which only `disk`
survives. `Scan` moves the window the way a search or a reading call does, which
decides when a change reaches the card.

The configuration is that of `c/config/ffconf.h`: no exFAT, no long names, a
buffer per file (not `FF_FS_TINY`). Left out: file contents and sizes,
sub-directories, FSInfo and its free count (a full disk may be reported at any
time), which free cluster a search finds first, FAT12, whose entries may straddle
two sectors, and renaming a file to its own name. A sector is written
entirely or not at all. History variables: `exposed` (files truncated to
nothing whose entry is not yet written), `damaged` (an interruption hit one of
the two windows the code leaves open) and `failed` (the card has reported an
error since the mount).

## 3. Runs

| Run | Checks | Bounds |
|---|---|---|
| `pool` | `TypeOK`, `MutexHeld`, `OneSlotPerSocket`, `OneAnswerPerWaiter`, `NoLostWakeup`, `ReadyMeansReadable`, `NoEarlyTimeout` | two services, two sockets, two elements, three ticks without wrap-around |
| `timing` | `WaitReturns` (fairness) | one service, two sockets, two elements, two timeouts, no wrap-around |
| `wifi` | `LossNotForgotten`, `ConnectedIsTrue`, `GateSpec` (refinement), `KeepsTrying`, `ComesOnline` | two undelivered events |
| `timer` | `TypeOK`, `StateIsCurrent`, `FinalStays`, `FinalReached` | delays of 4 and 8 ticks |
| `spi` | `OwnCompletion`, `NoLostCompletion` | none: the state is finite |
| `nvm` | `TypeOK`, `InitComplete`, `RequestsKept` | two further objects, three requests |
| `sldriver` | `OwnResponse`, `ReaderFindsMessage`, `NoStrandedMessage`, `CommandReturns`, `MessagesRead` (fairness) | two tasks, one message announced ahead, a spawn queue of one, counters modulo 3, up to the first failed transfer |
| `slpool` | `TypeOK`, `ListsSound`, `RightTaker`, `NoStaleSignal`, `NoStrandedPending`, `LockSpec` (refinement) | three tasks, three objects, two sockets, four actions |
| `disk` | `RightSector`, `DeviceSpec` (refinement), `CallReturns` (fairness) | two cards, one of each kind, three sectors of two bytes, requests of one or two blocks, two values |
| `fat` | `DiskConsistent`, `WritesOwnChain`, `ClosedIsOnDisk`, `FilesKept` | three clusters in two FAT sectors, three names in two directory sectors; a damaged volume is not followed |
| `claimed_position_is_free`, `suspended_after_loss` | claims of the code that do not hold | as small as the counterexample allows |

Why the bounds are enough: the hazards of the pool need two services and one
element to meet, or one service and the mediator; two elements let a search go
past an element and the loops of `run()` have a second iteration; two sockets
let a descriptor be closed and reused. In the `pool` run a
call posts the deadline 0, which means "not armed", or one that can be missed,
and the counter does not wrap because the code compares deadlines without
regard to wrap-around and `NoEarlyTimeout` is claimed only for that case. That
the other properties survive a counter that wraps is proved (`TickWraps` is a
constant of the theorems). The `timing` run has one service: two services
that do not meet share only the mediator's loop and the mutex, which the `pool`
run covers, and liveness admits no symmetry reduction. Two undelivered events let a loss
overtake, or merge with, an older address event; the proofs show that the
safety results do not depend on the number. A delay of 4 ticks is the smallest
with a positive intermediate delay (mbedTLS passes a quarter), 8 lets ticks
fall between the steps. Services and sockets are symmetric in the safety run;
liveness runs use no symmetry.

`sldriver`: two tasks are enough to contend for the lock and read each other's
events; a spawn queue of one is full as soon as a request waits; modulo 3 is the
smallest counter in which one unread message can be told from none and wraps
after three. One message announced ahead (`MaxAhead`) is what the processor does:
it keeps its interrupt line raised until the message was read. The proofs allow
any number, except that of `NoStrandedMessage`, which needs the bound: the driver requests one spawn
for whatever is pending, and with two messages ahead TLC finds one left behind.
`Followed` ends a behaviour at the first failed transfer, after which driver and
processor disagree about the number of messages.
`slpool`: three objects for three tasks, one of which is pending while another
is active; the pool is empty when a call has leaked its object; three objects in
one list let an object be unlinked from the head, the middle and the end.
`disk`: three sectors and requests of two blocks let a request overlap another in
one sector; byte addresses with two bytes per sector need the conversion and
reach the modulus; two cards of different kind can be exchanged.
`fat`: with three clusters a file of two can grow, be cut or be freed beside
another file, and the chain leaves its FAT sector or stays in it; three names let
a file be open while another is renamed, within a sector of the directory and
across two. `Undamaged` ends a behaviour where an interruption hit `f_rename` or
a file truncated to nothing, after which the properties claim nothing; the two
names that share a sector are symmetric. The proofs cover volumes of any size.
Type correctness of `wifi`, `spi`, `sldriver`, `disk` and `fat` is proved
(section 5) and not checked again by their runs.

Deadlock is checked in every run except `sldriver` and `slpool`, where the
driver really stops: once a restart is required the tasks find no lock or no
object, and the repository's answer to it, a restart of the processor, begins a
new behaviour.

### Fairness

* `timing`: the tick interrupt never stops; a suspended mediator is resumed
  (the wifi service retries for ever: `KeepsTrying`); tasks that are runnable
  again and again run (strong fairness, because FreeRTOS hands a mutex or queue
  to the task that waits for it). Nothing is assumed of `sl_Select`, of arriving
  data or of what services do between calls.
* `wifi`: the driver delivers events and the wifi task is scheduled. Nothing is
  assumed of the radio or the access point.
* `timer`: ticks, the timer daemon and the caller of `set_delay` go on.
* `sldriver`: the timer daemon and the spawn task run whenever they can (weak
  fairness; they have the highest priorities of the system); the spawn task gets
  a mutex that is free again and again, and so does a task with a place in the
  spawn queue (strong fairness, FreeRTOS wakes the waiting task of the highest
  priority when it is given); the processor answers a command although it may
  send events as well (strong fairness; a processor that does not answer is
  covered by the timeout). That a task gets the lock to start a command is not assumed.
* `disk`: the task in the driver goes on, because every wait of `sdmm.c` is a
  loop with a bound. Nothing is assumed of the card.

## 4. What the runs show

The mediator loses no wake-up, its mutex protects the descriptors through
suspensions, a socket is never in two elements, and as long as no two services
meet on an element each call gets exactly one answer, its own, and "ready" is
true. The wifi service forgets no loss and keeps the promised order between
services and mediator. The DTLS timer reports the last `set_delay`. The SPI
transport and the flash initialisation are right up to one named gap each.

The SimpleLink driver hands a response to the command it answers and leaves no
message behind, although four parties share two counters and a semaphore and
interrupts may be lost; a command always comes back. Its pool of action objects
is a correct lock per socket and action for the calls this firmware makes. The
SD card driver is a block device, through exchanges and failures of the card.

On it, the file system keeps the card free of cross links and of links to free
clusters whatever is interrupted and wherever, save in `f_rename`, as its own
comments say (`ff.c:5212`), and after `f_truncate` to nothing. The open file
writes into its own clusters, a call changes the file it names and no other
(wherever it fails, `f_rename` excepted), and
as long as the card reports no error a closed file is on the card.

Two claims of the code do not hold; each is a violation run:

1. `ClaimedPositionIsFree` (`connection.zig:335`): `sd < 0` is tested before
   the mutex is taken and not again after it.
2. `SuspendedAfterLoss` (`wifi_service.c:205`): a loss and an older address
   event merge in one notification value; the pass suspends and then resumes.

More that the models contain as the code has it, with the hazards in
`PROJECT.json` that name the lines. Where the code does not prevent the failing
case, the hazard lists no property and its note says which property excepts it:

* `connection.zig:366`: `run()` can free an element between the search of
  `wait_rx` and its `rx_queue.send`; the service then waits for ever on an element
  that the pool no longer holds for it. `WaitReturns` excepts such a call by name.
* `connection.zig:367`: the search for an element can end in `orelse
  unreachable`, because elements are released by a later pass of `run()` and
  closed sockets still occupy them.
* `timing.c:95`: the final timer is started with the intermediate delay, a
  quarter of what mbedTLS asks for.
* `driver.c:2139`: the mutex is deleted under tasks that wait for it; they do
  not "return immediately with an error", as the comment above says, but wait on.
* `driver.c:1833`: a pending call that is signalled by the error handling links
  its object a second time, so a later `_SlDrvReleasePoolObj` can walk a cycle.
* `driver.c:644`: the flag `IsCmdRespWaited` stays set when a transfer fails.
* `sdmm.c:283`: a card put in after another was taken out is never initialised,
  because `disk_initialize` returns early when no status flag is set.
* `ff.c:4927`: `f_truncate` to nothing frees the chain while the entry on the card
  still names it, and only a later `f_sync` or `f_close` writes the entry. A power
  loss in between leaves a file that points to free clusters, which a later write
  gives to another file. `f_open` and `f_unlink` change the entry first. The
  application note of FatFs says that "An interruption in the red section can cause
  a cross link" (`c/FatFs/ff15/documents/doc/appnote.html:284`), where the figures
  beside it mark `f_rename` alone, and that every other case "does not affect any
  file not opened in write mode" (line 292). Without the exception for these files
  TLC finds the cross link on the card: truncate, power loss, write another file.
* `ff.c:4198`: `f_sync` clears `FA_MODIFIED` although `sync_fs` has failed, so that
  a second `f_close` succeeds without writing the entry.
* `ff.c:4225`: an `f_close` that fails keeps the only entry of the table of open
  objects; no other file can be opened until it is closed again.
* `ff.c:903` tests `FS_LOCK`, a name nothing defines, instead of `FF_FS_LOCK`: the
  system mutex, which protects the table of open objects between volumes, is never
  taken. With one volume the volume's mutex is enough, and the model has one.

Two gaps are named in properties that hold otherwise: a late completion that
strikes between `xQueueReset` and the start of the next SPI transfer is taken
for the new one (`slipped` in `OwnCompletion`), and an application that writes
after a failed `nvm.init()` can make a later `init()` believe in a complete
memory (`patched` in `InitComplete`). `isBootRequested` (`nvm.zig:284`) reports
a request only from the third call of `setBootRequest` on, although its comment
speaks of a flag; `RequestsKept` states what the code does.

## 5. Proofs

TLAPS checks, for every value of the constants:

* `ConnectionManagerProofs` (assumption `ConstantsOK`): `TypeCorrect`,
  `MutexCorrect`, `OneSlotPerSocketCorrect`, `OneAnswerPerWaiterCorrect`,
  `ReadyMeansReadableCorrect`, `NoLostWakeupCorrect` and, for a tick counter that
  does not wrap (`~TickWraps`), `NoEarlyTimeoutCorrect`, all from the inductive invariant `PoolInv`
  (`PoolCorrect`). `OneSlotPerSocket` alone is not inductive: a service writes
  its socket long after its search found nothing, so `SocketInv` adds that what
  a search has passed does not hold the socket, which is true because only the
  owner of a socket adds it. `OneAnswerPerWaiter` needs that an answer is in one
  stage at a time (`AnswerInv`), that a service on an element is alone there
  (`LoneUser`), that free elements are not armed (`ElementInv`) and that
  `read_fd_set` only holds armed sockets of this pass (`ReadSetInv`).
  `NoLostWakeup` speaks of the moment the mediator sleeps; `WakeInv` says for the
  whole pass before it where an answer that is owed is: its deadline still in the
  queue of an element the pass has yet to reach or with a notification pending, or
  read and then selected by this pass. `NoEarlyTimeout` needs that the element of a
  service works with that service's own deadline from the queue to the comparison
  (`LateInv`). Without `~TickWraps` it is false, since `run()` compares deadlines as
  plain numbers.
* `WifiServiceProofs` (assumption `MaxEventsOK`): `TypeCorrect`,
  `LossNotForgottenCorrect`, `ConnectedIsTrueCorrect` from `WifiInv`, which adds
  that a connect event not yet delivered is true or will be taken back
  (`ConnectInv`) and that there is room for a report (`EventsInv`); `GateCorrect`:
  `WifiService` implements `ConnectivityGate`.
* `TimingAdapterProofs` (assumption `DelaysOK`):
  `TypeCorrect`, `StateIsCurrentCorrect` and the action property
  `FinalStaysCorrect`, from `TimerInv` (`TimerCorrect`), for every delay. `RunInv`
  relates the two timers in every step of `set_delay`: neither runs before it is
  started or after it is cancelled, and the final one never fires first.
* `NvmProofs` (assumptions `BoundsOK`, `OtherKeysOK`):
  `TypeCorrect`, `InitCompleteCorrect`, `RequestsKeptCorrect` from `NvmInv`
  (`NvmCorrect`). `init()` judges by the number of objects only, so `FlashInv` says
  that until the application writes after a failed `init()` the flash has all
  defaults or nothing else: then nine objects are the nine.
* `SlDriverProofs` (assumption `DriverAssumption`): `TypeCorrect`,
  `OwnResponseCorrect`, `ReaderFindsMessageCorrect` from `DriverInv`
  (`DriverCorrect`), for any number of tasks, any queue length and any number of
  messages ahead below the modulus of the counters. The properties are claimed
  until an error is handled, so the invariant has a part that always holds
  (`TypeOK`, `ErrorInv`) and one that holds while nothing has failed:
  `CommandInv` (the lock is held throughout a command and the flag says so),
  `ResponseInv` (a response is in one place, and its command waits for it) and
  `CountInv`: counted and not yet read, together with the pended calls, are at
  most the messages there, plus one in the hand of a reader that has not yet
  updated `RxDoneCnt`. The last is arithmetic modulo `W`; `Ahead` is its distance.
  `NoStrandedMessageCorrect` assumes `MaxAhead = 1` (section 3) and adds `ServeInv`:
  a pending message has a request in the spawn queue, the spawn task on its way, or
  a command that will look at the counters once more before it returns.
  For the SPI transport, a specification of its own (`SpiSpec`): `SpiTypeCorrect`,
  `OwnCompletionCorrect`, `NoLostCompletionCorrect` from `SpiInv` (`SpiCorrect`),
  which adds that before a call starts its transfer only transfers of earlier calls
  are in flight (`CallInv`) and that its queue is then empty unless a completion
  slipped in (`QueueInv`).
* `ActionPoolProofs` (assumption `PoolAssumption`): `TypeCorrect`,
  `ListsSoundCorrect`, `RightTakerCorrect`, `NoStaleSignalCorrect` from `PoolInv`
  and `HandInv` (`PoolCorrect`), for any pool, tasks, sockets and actions, and `LocksCorrect`:
  `ActionPool` implements `KeyLocks`. `CallInv` says that every call has an object of
  its own with its parameters, `KeyInv` that the bitmap of active keys is exactly the
  keys owned and lost (it holds through errors, which is why the refinement does),
  `ListInv` where the object of a call in each state is and that free objects are
  blank, `SignalInv` who may find a signal, and `HandInv` that the object found for an
  answer is still that of its call when the handler runs; the last three hold until an
  error is handled. `NoStrandedPendingCorrect` assumes `OneActionPerSocket`: tasks that share
  a socket make the same call on it. A release wakes a pending call of its own action
  only (`driver.c:1875`), so two tasks that, say, connect and receive on one socket
  could strand each other; in this firmware a socket has one task, and TLC evaluates
  the assumption on the calls of `MCActionPool`.
* `DiskDriverProofs` (assumption `DiskAssumption`): `TypeCorrect`,
  `RightSectorCorrect` from `DiskInv` (`DiskCorrect`), which adds that only an
  initialised card in the socket programs (`CardInv`), that a call is in progress
  exactly from its first command to its result (`CallInv`) and that the kind of
  the card that answers is known before an address is computed (`AddressInv`);
  `DeviceCorrect`: `DiskDriver` implements `BlockDevice`. Each step of the driver
  maps to a step of the block device or a stutter; programming a block is
  `Settle`, since `Stored` already contains it.

* `FatVolumeProofs` (assumption `VolumeOK`: any number of clusters, any names, any
  division of the entries into sectors): `TypeCorrect`, `NoCrossLink`, that
  `DiskConsistent` always holds, `WritesOwnChainCorrect`, and the action properties
  `FilesKeptCorrect` and `ClosedIsOnDiskCorrect`, from the invariant `Inv`. `DiskConsistent` is
  about the card and not inductive: a write-back makes the card equal to what the
  code sees (`View`), so `View` must be consistent before. It is, up to the
  entries the call in progress or the open file is about to write (`Intended`), and
  the cluster a call works on is in no chain (`Detached`); `WindowClean` says that an
  unchanged window equals its sector and `Registers` what the file object
  and the registers hold in the middle of a call.

  `WritesOwnChain` adds `OwnCluster`, that the current cluster is in the chain of the
  open file; `ClosedIsOnDisk` adds `CardInv`: until the card fails, every file no
  call is about to change is on the card as the code sees it, and an open file that is
  neither changed nor being written (`Changing`) has its entry up to date (`EntryInv`).

Linked lists and chains of clusters are of any length, and what is reached along
them is the usual case for an induction over data. `Visited` and `Chain` are
therefore the least sets closed under "next": that a set is closed bounds what is
reached, and that what is reached is closed is one step. The one induction over
numbers, that the initial links form one list through the whole pool, is a
minimal counterexample (`LeastNumber`, from the library's well-foundedness of the
order on the naturals).

Only model-checked: the liveness properties (`WaitReturns`, `KeepsTrying`,
`ComesOnline`, `FinalReached`, `CommandReturns`, `MessagesRead`, `CallReturns`),
whose fairness and `ENABLED` the prover does not handle. Every invariant, action
property and refinement that a passing run checks is also proved.

## 6. Not modelled

* Vendored code (the network applications of the SimpleLink SDK, the Unicode
  tables of FatFs, picolibc; mbedTLS, FreeRTOS, emlib and wakaama are not in the repository)
  appears only through the calls the repository makes. It is most of the lines
  of the tree. Exceptions are the host driver of the SDK and the core of FatFs.
* Of FatFs: mounting (the analysis of the boot sector), path names,
  sub-directories, formatting, and the functions nothing in the repository calls.
* The data path of the SimpleLink driver (`_SlDrvDataReadOp`,
  `_SlDrvDataWriteOp`) with its flow control, whose `VERIFY_PROTOCOL` returns
  with locks held (`driver.c:751`), and the marshalling of arguments.
* A restart of the network processor after an error.
* The life of sockets and TLS contexts (`simpleConnection.zig`, `mbedtls.zig`):
  sequential, in one task each. A failed handshake leaves its context behind
  (`mbedtls.zig:196`).
* The I2C bus: a mutex around one transfer. Whether the completion of a transfer
  that ends inside `I2C_TransferInit` is left for the next caller
  (`board_i2c_sensors.c:132`) is decided in emlib.
* The bytes on the SD card's bus (`board_sd_card.c`), which waits for each
  transfer without a bound, and the arithmetic of `GET_SECTOR_COUNT`.
* LwM2M sessions and objects, configuration, memory trace: sequential code of one
  task. Pin and clock set-up, logging, sensor adapters and serialisation have no
  protocol state.

## 7. Plan

Done: `ConnectionManager`, `WifiService` with `ConnectivityGate`,
`TimingAdapter`, `SpiTransport`, `Nvm`, `SlDriver`, `ActionPool` with `KeyLocks`,
`DiskDriver` with `BlockDevice`, `FatVolume`. Next, the most shared parts first:

1. The data path of the SimpleLink driver: `FlowContCB` with `TxLockObj` and
   `TxSyncObj`, and a receive call that reads its data in the spawn context.
2. The restart after an error: `sl_Stop`, `sl_Start` in `wifi_service.c` as a new
   epoch of `SlDriver`.
3. `TlsConnection`: every path of open and close releases socket, context and
   timers.
4. Composition of `WifiService` with `ConnectionManager`: the mediator
   suspended by the task that is modelled rather than by the environment.
5. Composition of `FatVolume` with `BlockDevice`: blocks acknowledged and not yet
   stored, of which `FatVolume` assumes that they are never lost out of order.
6. Proofs: the safety results of the compositions in 4 and 5, from those of the
   parts.
