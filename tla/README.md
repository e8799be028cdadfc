# Formal models of ESP-IDF components

ESP-IDF is a framework of some 100 components. Most of its text is vendored
(FreeRTOS, lwIP, mbedTLS, Bluetooth stacks), generated (register tables per chip)
or binary. The logic that is its own, and that tests reach badly, is in a few
files in which tasks on two cores, interrupt handlers and flash memory that
loses power meet. This project models those files in TLA+, checks them with TLC
and proves part of the results with TLAPS for every value of the constants.

## Inventory

| Component | State | Operations | What is hard | What makes it correct |
|---|---|---|---|---|
| SPI bus lock (`esp_hw_support/spi_bus_lock.c`) | one atomic status word (LOCK, PEND, REQ bits per device), `acquiring_dev`, `acq_dev_bg_active`, `in_isr`, a semaphore per device, the device slots, `last_dev` | request of background work, acquire, release, wait for background, entry and exit of the interrupt handler, scheduling; register, unregister, touch | a lock-free protocol of N tasks and one handler, on one core or two | one user of the bus; nothing requested is forgotten; a task gets the bus after its own queued work |
| SPI master driver (`esp_driver_spi/src/gpspi/spi_master.c`) | a queue of transactions and one of results per device, the transaction in flight, the interrupt enable | queue, get result, polling start and end, acquire and release bus, `spi_intr` | the driver's assertions rest on the lock | its assertions hold; queued transactions are sent |
| Ring buffer (`esp_ringbuf/ringbuf.c`) | four pointers, flags, storage with headers, two waiting lists, a queue set | send, acquire/complete, receive (split, up to), return, free size, add to and remove from a queue set | wrap-around, dummy headers, returns in any order, waking one waiter at a time | strictly FIFO; nothing lent out is overwritten; no lost wake-up |
| Inter-processor calls (`esp_system/esp_ipc.c`) | per core: the pending call, an acknowledgement semaphore, a slot for nonblocking calls; mutexes | call, blocking call, nonblocking call, the IPC task | plain volatile variables whose order of writes is the protocol | each function runs once, with its own argument; calls return |
| NVS (`nvs_flash/src`) | pages of entries in flash, the lists of pages in use and free | write, erase, page recycling, blobs over several pages, initialisation and its repairs | power loss between any two flash writes; pages that move under an operation | a value read after recovery is the old or the new one, and stays it; nothing is left behind; a page is kept free |
| OTA updates (`app_update/esp_ota_ops.c`) and bootloader (`bootloader_support/src/bootloader_utility.c`) | two sectors with sequence number, state and CRC; the images | begin, write, end, set boot partition, mark valid, roll back; selection at boot | power loss between erase and write, also in the bootloader | the device always boots an application, and the one that was promised |
| Wear levelling (`wear_levelling/WL_Flash.cpp`, `WL_Ext_Safe.cpp`) | position of the dummy sector, two copies of the state, the transaction of the safety mode | erase, write, move, start and repair; erase of parts, recovery | power loss during a move, a new lap, a repair, a transaction | no step but a client's own changes what a restart would read |
| esp_timer (`esp_timer/src/esp_timer.c` and its alarm) | two ordered lists of armed timers, the alarm wanted for each, one hardware alarm | create, start, stop, restart, delete, dispatch from a task and from the interrupt handler | callbacks run with the list unlocked; two lists share an alarm | no callback of a timer that is not due; no timer lost; the alarm is always set |
| Event loop (`esp_event/esp_event.c`) | lists of lists of handlers, event queue, recursive mutex | post, run, register, unregister | handlers removed while events are dispatched, through the queue itself | handlers in order of registration; no removed handler is called; removals happen |
| pthread layer, PM locks, cache guards, heap, VFS, drivers, network stacks | | | | not modelled; reasons in `PROJECT.json` |

Interactions: the SPI master driver calls the bus lock from tasks and from
`spi_intr`; the lock calls back to enable and disable the interrupt. Ring buffers
carry data between handlers and tasks of the UART, I2S, USB and other drivers.
The cache guards stop the other core through inter-processor calls before flash is
written. NVS, OTA data and wear levelling sit on the partition API.

## Modules

| Module | Models | How the state corresponds |
|---|---|---|
| `SpiBusLock` | the lock as the master driver uses it, together with that part of the driver | `lockBits`, `pendBits`, `reqBits` are the bits of `status`; `acquiring_dev`, `in_isr` and so on keep their names; `pc` and `isr` say between which two accesses a task and the handler are |
| `SpiBusLockProofs` | theorems about `SpiBusLock` | |
| `SpiBusLockSlots` | registration of devices, `last_dev` | `dev` is `lock->dev[]`, an entry being NULL, claimed or an address; addresses are reused |
| `SpiBusLockSlotsProofs` | theorems about `SpiBusLockSlots` | |
| `RingbufOps` | the static functions of `ringbuf.c`, as operators on the control block | pointers are offsets from `pucHead`; storage holds headers and, for the data, the number of the item or byte it belongs to |
| `RingbufFifo` | abstract specification: a FIFO whose pieces are handed out and returned | |
| `Ringbuf` | the public functions as steps, waiting lists, time-outs, queue sets; refines `RingbufFifo` | `rb` is the control block, `loans` and `acquired` the handles callers hold |
| `RingbufProofs` | theorems about byte buffers and buffers of items | |
| `MCRingbufItems` | a no-split or an allow-split buffer, for one run over both | instances of `Ringbuf` |
| `EspIpc` | the waiting and nonblocking calls and the IPC tasks | one step per access to a volatile variable |
| `EspIpcProofs` | theorems about `EspIpc` | |
| `Ota` | `esp_ota_ops.c` and the bootloader's selection | `otadata` is the two sectors, `image` what verification makes of each application; `job` holds the flash operations a call has still to make |
| `OtaProofs` | theorems about `Ota` | |
| `WlFlash` | the moving dummy sector and the state sectors | `wl_dummy_sec_pos` and `wl_dummy_sec_move_count` keep their names; a state sector is a header and a set of position records |
| `WlExtSafe` | safety mode on top of `WlFlash`: erasing parts of a sector | a transaction is the sequence of erases and writes of `erase_sector_fit`, each of which `WlFlash` turns into flash operations, moves included |
| `WlProofs` | theorems about `WlFlash` and `WlExtSafe` | |
| `NvsStorage` | `Page`, `PageManager` and `Storage` of NVS | `page` is the flash, `order` and `free` the lists of the page manager; `pc` is the stage of init or of a call, `promise` what each key may hold, nothing for a blob that is spoiled |
| `MCNvs` | symmetry of the scalar values of the run over `NvsStorage` | |
| `EspTimer` | timers, dispatch, the alarm of the system timer | `list` has the links of `sys/queue.h`, the heads included; `timestamp_id` and `target` are the wanted alarms and the hardware's |
| `EspTimerProofs` | theorems about `EspTimer` | |
| `EspEventTree` | the lists of handlers, as operators | a loop node is a record of its handlers and base nodes, and so on |
| `EspEvent` | the loop, registration, removal and posting as steps | `loop_nodes`, `queue`, `mutex`, `running_task` keep their names; `unregistered` is the set of marked nodes; `regs` records every registration and what became of it |
| `EspEventProofs` | theorems about `EspEvent` | |
| `MCEspEvent` | keys and events of the runs over `EspEvent` | |

Steps. In `SpiBusLock`, `SpiBusLockSlots` and `EspIpc` a step is one access to
shared memory (an atomic read-modify-write is one access). In `Ringbuf` it is one
critical section, as everything but the notification of the queue set happens in
one; that notification is a step of its own. In `EspTimer` it is a critical section of
a list's lock, in `EspEvent` what a task does between two points where it may block.
In `Ota`, `WlFlash` and `NvsStorage` a call decides in one step and leaves its flash
operations in `job`; they are made one by one, and power may be lost before, during
(`Torn` says what is then in the flash) and after each, by the bootloader and by
initialisation too. A call that returns at once without effect (no time to wait, a
full buffer, `ESP_FAIL`) is a stuttering step.

Definitions whose comment begins with *Fault* are variants of the operation after
them with a plausible bug. They are not part of any specification; each shows that
a property notices that bug when the variant takes the operation's place.

Simplifications of `SpiBusLock`:

- Each device is used by one task, as the driver requires.
- `SameCore = TRUE`: an interrupt preempts a task as soon as it is pending and not
  masked, and runs to its end; `SameCore = FALSE`: task steps and handler steps
  interleave freely, as on two cores.
- `acq_dev_bg_active` is kept, although only debug checks read it. The reads of
  `acquiring_dev` within one decision of `bg_exit_core` are one step.
- `spi_device_release_bus` is called when the device's transactions are finished and
  their results fetched, as `spi_master.rst` asks.
- The weak background flag of the main flash bus and `spi_bus_lock_set_bg_control`
  are left out. A polling transaction that times out is left out: the driver waits
  with `portMAX_DELAY` only.

Simplifications of `Ringbuf`: tasks of a waiting list have arbitrary priorities, so
any of them may be the one woken. A reader returns its item of a byte buffer before
it retrieves again (the header demands it). While a buffer is in a queue set it is
read after `xQueueSelectFromSet` only. `InOrder` says that callers complete
acquired items in the order they acquired them and do not call `xRingbufferSend` while
an item is acquired. The code has no such tests, and `ringbuf.h:179` allows a send after
an acquire; `RbUnsent.cfg` shows what may then happen. Deletion and the printing functions are left out.

Simplifications of `EspIpc`: callbacks do not call IPC functions (a call from the IPC
task itself runs the function on the spot), and priorities are left out. The IPC
task reads the three variables of a waiting call in one step: the caller that set
them waits for the acknowledgement. `Mutex` follows
`CONFIG_ESP_IPC_USES_CALLERS_PRIORITY`.

Simplifications of `Ota`: an image is good or bad; sequence numbers are bounded by
`MaxSeq`. The build (a factory partition or none, rollback or none) is chosen in
`Init`. `Careful` says that the application keeps to the documented order: it confirms
or rolls back before it begins another update, and restarts after it chose a
partition. Without it, `AlwaysBootable`, `BootPartitionAgrees` and `AlwaysBoots` still hold.
Once the bootloader had to fall back to another image than the chosen one, nothing
more is promised about which one is next. Left out: anti-rollback, signatures, several
handles, staging in another partition, failing flash operations.

Simplifications of `WlFlash` and `WlExtSafe`: a sector is `Fats` parts that are written
whole, but for the record that describes a transaction: it is four words, and a loss of
power in the middle of its write or erase may leave its sign, the first of them, with
any sector, offset and count. `rebuilt` is a history: a start has found state sector 1
broken and has written its header again after what sector 2 says. `MaxCalls` and
`MaxLosses` bound the calls of the client and the losses of power of a run. Left out: the
update from version 1, changes of the configuration, failing flash operations.

Simplifications of `NvsStorage`: a key has one type; scalars take one entry, a blob of
n entries of data has the value n. Entries and then their states are one operation,
whose torn forms are the prefixes of it. The entry table of a page is one word, so a
range of entries changes state in one write (`EntryCount` is at most 16); real pages have
more words, and a range that crosses one is torn there too, which is not modelled.
Reads that change nothing are the operator `Lookup`; `readBlob` is the read that finds a
blob inconsistent and erases it. A blob is *spoiled*, and its `promise` empty, from the
step that leaves or takes a wrong chunk of it: a failing `nvs_set_blob` whose cleanup
misses what it wrote, or an init that takes the blob's chunk for an older version of the
last item of its page (see below for both). It ends when an init leaves the blob readable
or gone. Left out: namespaces (stored like keys), strings, the old blob format,
iterators, encryption, the locking of the C API.

Simplifications of `EspTimer`: time is bounded by `MaxTime`; `Configs` are the builds, with
and without `CONFIG_ESP_TIMER_SUPPORTS_ISR_DISPATCH_METHOD`. A timer is not used by other
calls once it is being deleted. `overtaken` is a history of two races the code has no
guard against: `"restart"`, the timer expired for good or was stopped between the look of
`esp_timer_restart` at it and its lock; `"delete"`, `esp_timer_delete`, which takes the task
list's lock, overwrote the callback of a timer that the interrupt handler had just taken
from its own list. The alarm follows `esp_timer_impl_systimer.c`; on chips with the LAC
timer the hardware is not written for `UINT64_MAX`. Light sleep and profiling are left
out.

Simplifications of `EspEvent`: handlers post events and unregister themselves, the only
change of registrations the documentation allows them. A handler may be unregistered
again after an error or a success; `refused` is the history of the nodes for which a
call reported an error. Event data, failing allocations and the deletion of a loop are
left out.

## Runs

| Run | Bounds | What it shows |
|---|---|---|
| `spi_one_core` | 2 devices, queue of 2, 3 calls per task | all kinds of calls with everything on one core: one user of the bus, queued transactions marked and sent, waiters resume |
| `spi_smp_lost_request` | 2 devices, two cores | violation: a queued transaction is never served |
| `spi_slots` | 3 tasks, 3 slots, 2 with hardware chip select, either allocation may fail | slots are not shared, `touch` sees every change of device, every slot is given back but those of registrations without memory for the device lock |
| `rb_items` | no-split: 48 bytes, items of 0, 12 and 16 bytes, 5 items, acquire and complete; allow-split: 36 bytes, items of 0, 13 and 20 bytes, 3 items, 2 readers, queue set | both refine the FIFO; handles valid; no leak of space; free size right; waiters woken, queue set told |
| `rb_byte` | 3 bytes, sends of 1 to 3, reads of 1 or all, 9 bytes, 2 senders, 2 readers | stream and full flag exact; liveness |
| `ipc` | 3 callers of one core's IPC task | safety and liveness of all kinds of calls |
| `ota` | 3 slots, with and without factory partition and rollback, sequence numbers to 6 | some application can always be started; it is the promised one; an unconfirmed one gets one attempt |
| `wl` | 5 positions, a move at every erase, 2 parts per sector, 2 calls, 2 power losses | every sector and part survives a power loss, torn transaction records and rebuilt state sectors apart |
| `nvs` | 3 pages of 4 entries, a scalar of two values (symmetric), a blob of 2 or 5 entries, any number of calls and losses | no value is lost or comes back and nothing is left behind, spoiled blobs apart; init never fails |
| `timer` | 2 timers, a task and callbacks making 3 calls, time to 4, both builds | lists complete and ordered, callbacks only when due, alarm always set, overtaken calls apart |
| `event` | a task, the loop, 3 registrations under 4 keys, queue of 1, 2 posts | order of handlers, none called after its removal, removals under way also when calls are repeated, unless one was refused |
| `event_wrong_handler` | the same with the older functions | violation: another registration of the same function is silenced |

What the properties say, by module (their comments are in the modules):

- `SpiBusLock`: `PollingHoldsBus` (a polling transaction has the bus to itself),
  `GrantedAfterOwnBg` (the bus is granted after the device's own queued transactions),
  `OneTransaction` (none starts while one is in flight), `QueuedIsMarked` (a queued
  transaction has its REQ or PEND bit), `NoLostWork` (at rest nothing waits without an
  owner; violated on two cores); in the end, `QueuedIsSent`, `WaiterResumes`.
- `SpiBusLockSlots`: `SlotHoldsDevice`, `TouchSeesChange`, `SlotsGivenBack` (when no
  device is left, the slots in use are exactly those of registrations whose `calloc` failed).
- `Ringbuf`: `IsFifo` (refinement of `RingbufFifo`), `HandlesValid` (a caller's handle
  still names its item), `EmptyAcceptsAll` (no space leaks), `FreeSizeFits` (the reported
  free size), `StreamIntact` and `FullIsExact` (byte buffers), `NoneStranded`,
  `ReadableIsNoticed` (waiters and queue set are told); in the end,
  `BlockedSenderReturns`, `SentIsRetrieved`.
- `EspIpc`: `OwnArgument`, `BlockingCallRan`; in the end, `CallReturns`,
  `NonblockingCompletes`.
- `Ota`: `AlwaysBootable` (at every moment some image can be started), `BootsAsPromised`
  (the boot starts what the calls before promised, or, after a power loss, the old or
  the new choice), `OneAttempt` (rollback), `BootPartitionAgrees` (the application's idea
  of the next boot is the bootloader's); in the end, `AlwaysBoots`.
- `WlFlash`, `WlExtSafe`: `SurvivesPowerLoss` (no step but the write of the sector itself
  changes what a restart would read, until a start rebuilds state sector 1), `PartsKept`
  (the same for the parts of a sector and the transaction that erases some of them; the
  one other step that may is a loss of power that leaves the transaction's sign with
  other words).
- `NvsStorage`: `ValuesKept` (every key holds the last value written by a call that
  returned, or for an interrupted call the old or the new one, the same from then on),
  `NothingLeftBehind` (no duplicates, no chunks without index), both but for spoiled blobs;
  `ReserveKept` (init never
  fails, one page stays free).
- `EspTimer`: `ListsHoldArmed` (the lists are exactly the armed timers, in order, linked
  both ways), `CallbackIsDue` (callbacks only for live timers that were due), `AlarmCovers`
  (the first timer has its alarm, interrupt or notification under way; builds without
  ISR timers). All three end with a restart that was overtaken, and a callback of the
  interrupt handler may be one of a timer deleted in that moment.
- `EspEvent`: `PlanInOrder` (the handlers of an event run once each in the order of
  registration, after any history), `NotCalledAgain` (an unregistered handler is not
  called), `UnregisteredGoes` (a node unregistered with success has its removal under
  way, unless an earlier call for it was refused), `OnlyAskedFor` (only
  what was asked for is unregistered; violated).

Why the bounds are enough. Two devices give every case of the scheduler except a
choice among waiting owners, for which the instance `SpiSmpAcquire` has three. Three
calls per task let a task queue again while the handler serves its first request and
clears its bit; without a bound on the calls, `SpiUnbounded` covers the whole finite
state space. The buffer sizes make every remainder before the tail occur: none, less
than a header, exactly one header, a header and some data; the numbers of items let
the pointers go round at least once. Three callers of an IPC task are one whose call
runs, one in the mutex and one with a nonblocking call. Calls to different cores
share the mutex or nothing, so one target core shows the protocol. Three slots and
sequence numbers up to 6 let each sector be rewritten twice and the slots go round.
Five positions are two data sectors, so that a torn record can name the wrong one,
transaction, dump and dummy; an erase of some parts is half a dozen erases with a move
each, so two calls wrap the lap, and the second loss of power meets the recovery from the
first. In three pages of four entries every write soon needs a page freed, and a blob of
five entries spans pages; with five entries (`NvsBlobs.cfg`) the chunk of a new version
also fits on the page of the old one before any page has moved. Two timers are needed for an order and for one list
to be emptied while the other is not; three calls start, stop or restart, and delete.
Three registrations give a handler before and behind a base node with id nodes, and a
queue of one is full at once.

Fairness. `SpiBusLock`: every task that can run runs in the end, a pending interrupt
is taken, the peripheral finishes its transaction. New calls are not fair. With
unbounded calls a device with a low number can keep a waiter with a higher one
waiting, as the scheduler takes the lowest bit; liveness is therefore checked for a
bounded number of calls. `Ringbuf`: woken tasks run, readers go on reading and return
what they hold; nothing forces a time-out. `EspIpc`: callers and IPC tasks run, and the
mutex goes to its waiters in turn ("first come first serve", `ipc.rst`), which is
strong fairness of taking it. `Ota`: the bootloader runs while power is on; that power
stays on from some time is a premise of `AlwaysBoots`, not assumed. The other runs check
safety only. `FairSpec` of `EspTimer` (the interrupt is taken, the timer task runs, calls
return) and of `EspEvent` (the loop runs, calls go on when they can) are used by the
instances below.

Deadlock is not checked where the number of calls or items is bounded (everything
may be done) or where readers may wait for ever. It is checked in `spi_slots`, `ipc`,
`ota` and `nvs`.

## Disagreements between code and documentation

Two are kept as runs (details under "findings" in `PROJECT.json`):

- `spi_smp_lost_request`: on two cores, `acquire_end_core` clears the last LOCK bit
  before `acquiring_dev`; a request in between is lost.
- `event_wrong_handler`: `find_and_unregister_handler` compares handlers registered for
  all events, or for all of a base, by function only; it marks one that nobody asked
  to unregister.

The others have a configuration each, to be run by hand
(`tlc -config <file> <module>`):

- `SpiSlotsNoMem.cfg` (`SpiBusLockSlots`): `spi_bus_lock_register_dev` keeps the slot when
  the allocation of the device lock fails (`spi_bus_lock.c:682`), and the assertion of
  `spi_bus_deinit_lock` that all slots are empty (`:640`, `SlotsEmptyAtDeinit`) fails later.
- `RbUnsent.cfg` (`Ringbuf`): a dummy header counts as written as soon as the write
  pointer passes it, whatever is behind it; an item is read before it is completed.
  `ringbuf.h:179`: "The item, as well as the following items ``SendAcquire`` or ``Send``
  after it, will not be able to be read from the ring buffer until this item is actually
  sent".
- `OtaChosenTwice.cfg` (`Ota`): a partition chosen twice before the restart is recorded as
  new in both sectors with the same number. Giving up the first record leaves the
  second, and the application gets another attempt. `ota.rst:118`: "Thus, a new
  application has only one attempt to boot successfully." The code also writes
  ABORTED where that page says INVALID, and `esp_ota_resume` lacks the test of
  `esp_ota_begin` for an unconfirmed application.
- `WlPowerLoss.cfg` (`WlExtSafe`, `SurvivesAnyLoss`): when state sector 1 is found broken, `WL_Flash::init`
  rebuilds it from sector 2, comparing its records with a device id read from the
  broken header (`WL_Flash.cpp:217`, `:123`): no record is copied, and the restart after
  next shows every sector one place off. `wl_sw_structure.rst:60` says of the state
  "There are always two copies of the WLC status record - this is to help safely
  recover last-known WLC status in case of power outage".
- `WlTornRecord.cfg` (`WlExtSafe`, `PartsKeptByAnyRecord`): `recover` knows a transaction by
  its sign alone (`WL_Ext_Safe.cpp:96`), the first of the record's four words. Power lost
  when the sign is written and the rest is not, or in the erase of the record, leaves a
  transaction of another sector or other parts, and `:103` erases the sector it names.
- `NvsNoSpace.cfg` (`NvsStorage`, `NothingSpoiled`): when a blob does not fit,
  `writeMultiPageBlob` erases chunks numbered from 0 from the pages it wrote to
  (`nvs_storage.cpp:369`), while the chunks it wrote are numbered from `chunkStart`: chunks
  of the stored version go, and the old value is lost, or chunks of the new one stay, and
  a later version of the same size may be read with one of them in it. The comment at
  `:368`: "Anything failed, then we should erase all the written chunks".
- `NvsLostChunk.cfg` (`NvsStorage`, `NothingSpoiled`): when a page is loaded,
  `mLoadEntryTable` erases an older version of its last item (`nvs_page.cpp:736`), which it
  looks for without a chunk number. If power is lost when the first chunk of a new blob
  is written on the page of the old one, and its index is not, the chunk of the old
  version is erased, the new one is removed for want of an index, and nothing is left.
  `nvs_flash.rst:105`: "This should not result in loss of data, except for the new
  key-value pair if it was being written at the moment of powering off".
- `TimerIsrLost.cfg` (`EspTimer`): with timers of both kinds, `esp_timer_impl_try_to_set_next_alarm`
  may forget the alarm of the list it did not serve; a due timer waits for the next
  alarm of another.
- `TimerOvertaken.cfg` (`EspTimer`): `esp_timer_restart` tests `timer_armed` before it takes
  the lock. If the timer expires in between, `timer_remove` unlinks a timer that is in no
  list, through stale links, and other timers are lost (`InOrder`).
- `EventReregister.cfg` (`EspEvent`): a handler that is registered again while its removal
  is under way counts as registered ("handler already registered, overwriting") and
  is removed.
- `EventNoCleanup.cfg` (`EspEvent`): a handler that unregisters itself while the queue is
  full stays marked without an event to remove it; the call reports an error, and later
  calls report success ("It means an event was already created", `esp_event.c:518`;
  `MarkedHasEvent`).
- `EventDeadlock.cfg` (`EspEvent`): a task that unregisters a handler waits for room in the
  queue with the mutex held; if other tasks have filled it again, the loop, which has
  "already unqueued" an event (`esp_event.c:645`), waits for the mutex for ever.

Seen with the same modules and other constants:

- On two cores, `OneTransaction` and `GrantedAfterOwnBg` fail with the constants of
  `spi_smp_lost_request`: an interrupt handler that lost its role runs `bg_exit_core`
  while a task has set its LOCK bit and not yet claimed `acquiring_dev`; two tasks get
  the bus.
- `FreeSizeIsMaximum` fails for an allow-split buffer: the free size is reported with
  two headers subtracted where one would do. For byte buffers it holds.
- `NoStrandedReceiver` fails for a byte buffer with two readers: the return of an item
  makes data available and wakes no reader.
- `ReadableIsNoticed` fails for a byte buffer: it may join a queue set while data waits
  behind a lent item.
- A sender about to notify a queue set may find `xQueueSet` NULL (`sendPc = "assert"`),
  when its data was read and the buffer removed from the set meanwhile.
- `esp_ipc_call` acknowledges before the callback begins; `ipc.rst` says it blocks until
  it begins.
- `esp_event_loop_run` that returns because its time is over leaves `running_task` set;
  later posts of that task do not wait although they may.
- `cmpMultiPageBlob` compares the checksum of every chunk with the start of the data
  (`nvs_storage.cpp:746`), so a blob of several chunks that has not changed is written
  again; the model does so too.

Instances that hold, beyond the runs: `SpiUnbounded.cfg` (any number of calls on one
core, with the driver's assertions `IsrAsserts` and `ReleaseSucceeds` and with
`NoLostWork`), `SpiSmpQueue.cfg` (two cores, queueing only), `SpiSmpAcquire.cfg` (several
cores, three devices, acquiring and polling only), `RbAllowSplit.cfg` (4 items),
`NvsBlobs.cfg` (pages of five entries, blobs of 1 and 6, the properties of `nvs`), and `Nvs.cfg`
with blobs of 1 and 5.

## Proofs

Every theorem is about the specification of the runs, for every value of its
constants that satisfies the assumptions named in the module. Each property needs an
inductive invariant; TLC checked every one of them on a small instance before it
was proved.

### `SpiBusLockProofs`

For any finite set of devices, any queue length, any set of calls, with or without a
bound on their number, and either placement on the cores:

- `TypeCorrect`: `Spec => []TypeOK`. The bounds of the queues are part of it. The lemmas
  on `LowestId` and `schedule_core` give the type of the scheduler's result; the step
  is split into task actions and handler actions.
- `QueuedIsAlwaysMarked`: `Spec => []QueuedIsMarked`, the argument of the file's appendix
  for two bits per request. It is not inductive by itself: when the handler clears
  REQ bits it must know that the PEND bits are set, and when it clears a PEND bit,
  that the queue is empty or a new REQ bit is set or about to be. `MarkInv` adds
  both. It holds on two cores too, where the bus is handed over wrongly: a lost
  transaction is still marked, only nobody looks.

With tasks and handler on one core (`ASSUME SameCore`; on two cores the three properties
fail, see above):

- `PollingAlwaysHoldsBus`, `AlwaysGrantedAfterOwnBg`: `Spec => []PollingHoldsBus` and
  `Spec => []GrantedAfterOwnBg`.
- `AlwaysOneTransaction`: `Spec => OneTransaction`.
- `DriverAssertsAlwaysHold`: `Spec => [](IsrAsserts /\ ReleaseSucceeds)`, which TLC checks
  with `SpiUnbounded.cfg`.

The invariant `BusInv` says where the right to the bus is. It is with the acquiring
device while its BG bits are clear (`LockInv`), with the handler while the interrupt is
enabled or the handler runs (`EnabledInv`, `HandlerInv`), or on its way: a task is about
to enable the interrupt, to claim the bus or to pass it on (`ClaimInv`), and no two of
these at once. `GivenInv` says that a semaphore that is found given was given for this
wait, `FlightInv` who started the transaction in flight. What one core gives is
`TaskRuns`: a task outside a critical section moves only while the handler is not
running and no interrupt is pending. The only step at which the transaction itself
matters is the release of the bus: the task found its queue empty and nothing of its
own in flight, and only `FlightInv` (a transaction that is not done is in flight, and it is
the acquiring device's) turns this into clear BG bits.

### `SpiBusLockSlotsProofs`

For any tasks, addresses and number of slots, and any allocations that fail:

- `SlotAlwaysHoldsDevice`, `TouchAlwaysSeesChange`: `Spec => []SlotHoldsDevice` and
  `Spec => []TouchSeesChange`.
- `SlotsAlwaysGivenBack`: `Spec => [](SlotsGivenBack /\ (leaked = {} => SlotsEmptyAtDeinit))`.
  When no device is left, the slots in use are those of the registrations for which
  `calloc` failed; without one, the assertion of `spi_bus_deinit_lock` holds.

`SlotsInv` gives every claimed slot one owner (`OwnerInv`), different addresses to the
device locks in use (`HandleInv`), and says that `last_dev` names a device that is still
registered or about to clear it (`LastInv`): the test and the clearing of `last_dev` in
`unregister` are two accesses, and the address must not be used again in between.

### `RingbufProofs`

For byte buffers of any size, any senders and readers and any sizes:

- `StreamAlwaysIntact`: `Spec => []StreamIntact`.
- `FullAlwaysExact`: `Spec => []FullIsExact`.
- `ByteBufferIsFifo`: `Spec => IsFifo`, the refinement of `RingbufFifo`
  (`ASSUME IsByteBuffer`; the other two speak of byte buffers only).

The inductive invariant `ByteInv` relates the pointers, the flag and the storage to
the number of bytes returned and lent. The properties need it because "full" and
"empty" look alike in the pointers: that a copy spares unread and lent bytes
(`UnreadSpared`) follows only from where all three pointers are. The lemmas on plain
numbers (`FitsIsSound` to `ReturnPlacedStored`) do the arithmetic, `CopyKeepsState`,
`GetKeepsState` and `ReturnKeepsState` lift them to the control block, and one lemma per
group of actions to the specification.

For the refinement, `ViewsOfBytes` reads the mapping off the invariant: the queue is the
run of bytes from the first one that is not lent, the held pieces are the bytes lent. A
copy is then a `Put` (`SendCopiesPuts`), a retrieval a `Get` of as many bytes
(`ReceiveGetsGets`), a return a `Return` (`ReturnReturns`), and every wait, retry that fails,
time-out and queue-set step leaves the queue alone (`QueueUnchanged`).

For buffers of any size, if items that are acquired are acquired by one sender and
completed in order, with nothing sent meanwhile (`ASSUME Orderly`; it always holds of allow-split buffers, of byte
buffers, and of no-split buffers whose items are only sent; otherwise an item may be
retrieved before it is completed, see `RbUnsent.cfg`):

- `HandlesAlwaysValid`: `Spec => []HandlesValid`, items returned in any order.
- `EmptyAlwaysAccepts`, `FreeSizeAlwaysFits`: `Spec => []EmptyAcceptsAll` and
  `Spec => []FreeSizeFits`, for all three kinds of buffer.
- `ReceiversNeverStranded`: `Spec => []NoStrandedReceiver` for buffers of items, any number
  of senders and receivers.
- `ReadableAlwaysNoticed`: `Spec => []ReadableIsNoticed` for buffers of items, in a queue set
  with room for as many notices as there are sends (`SetLength >= MaxSent`), as the
  documentation asks.
- `SenderNeverStranded`: `Spec => []NoStrandedSender` for one sender (`OneSender`), whatever
  the buffer and the order of completion; with several, a return may wake the wrong one.
- `NoneEverStranded`: both together, `Spec => []NoneStranded`.

What lies between the free and the acquire pointer is a chain of blocks, each a header
with its data, or a dummy that fills the tail. The proofs follow it without induction:
a chain is a function `V` from the numbers of the blocks to their addresses, which count
on behind the tail so that they increase, and the two loops of `ringbuf.c` that walk
along the headers stop at the first block for which their condition fails, which exists
as a least number. `Shape` says how such a chain stands to the control block: consecutive
blocks meet, at most one is a dummy or the first part of a split item, and it ends at the
tail, the read and write pointers are at blocks `r` and `w`, `full` tells a chain that goes
once around from an empty one, `xItemsWaiting` is the number of blocks from `r` to `w` that
are not dummies, and everything in use is before `r` and not marked FREE. `Whole`
adds that the acquired and the lent handles are exactly the blocks they should be, and
`Counted(..., c)` that `c` items can be retrieved, both parts of a split item as one. There is
one lemma per operation (`CopyCounts`, `AcquireCounts`, `CompleteCounts`, `GetCounts`,
`ReturnCounts`); the one on returns drops the freed blocks and counts the addresses anew.

`ItemInv` relates `c` to the tasks: while a receiver waits outside a queue set, `c` is at
most the number of woken ones (`Woke`); in a set, at most the notices queued, about to be
queued or taken (`Told`). Both are stronger than the properties, which only ask for one of
them, and have to be: a receiver that was woken takes one item, not all. `SenderInv` is of
another kind: the one sender waits only while its item does not fit, and no step but a
return changes that.

### `EspIpcProofs`

For any callers and cores, with one mutex per core or one for all:

- `ArgumentAlwaysOwn`, `BlockingCallAlwaysRan`: `Spec => []OwnArgument` and
  `Spec => []BlockingCallRan`.

`IpcInv` follows a call through its three places: the function waits in `s_func`, the IPC
task serves it, or its acknowledgement is in the semaphore, and exactly one of them
while the caller waits. The order of the writes matters in `CallInv`: `s_func_arg` and
`s_wait_for` are the caller's own from the moment they are written until the
acknowledgement, because the caller has the mutex of the core for as long.
Nonblocking calls have no mutex; `SlotInv` says that the flag is set last and the function
cleared last.

### `OtaProofs`

For any number of slots, with or without a factory partition and rollback, and power lost
at any flash operation; the first two for any order of calls, the other two for
applications that keep to the documented one (`ASSUME Careful, ~Again`: an application
confirms itself before it starts an update, and restarts once it has chosen another
partition; if it may choose twice `OneAttempt` is false, see `OtaChosenTwice.cfg`):

- `SomeImageAlwaysBootable`: `Spec => []AlwaysBootable`.
- `BootPartitionAlwaysAgrees`: `Spec => BootPartitionAgrees`.
- `AlwaysBootsAsPromised`: `Spec => BootsAsPromised`.
- `AlwaysOneAttempt`: `Spec => OneAttempt`.

`OtaInv` adds to `AlwaysBootable` that the running image is whole and that nothing the
application has still to write, in `job` or through the open handle, is about its own
partition. The second theorem compares the application's rule and the bootloader's
for every content of the two sectors, torn ones included.

`TrialInv` is what the records promise. `Held` is the number by which a record is selected
at the next boot, or -1 for a record that is erased, torn, given up or on trial; `Boots`
is the partition that two such numbers lead to. Since a power loss in the middle of a
rewrite leaves a sector without a number, `Seen` collects the numbers each sector may be
left with, and `TrialInv` asks that every combination of them leads to something promised
(`One`, `Kept`) and not tried before (`SeenUntried`). A record that is new, or on trial, is
the latest one, and without it the other sector leads home (`TrialOk`); no record names a
slot that had its attempt (`RecordOk`); and no sector names the slot of the one on trial
before it (`SlotsApart`), for `esp_ota_get_state_partition` takes the first that does. The
rest has one form for each stage: without power (`OffInv`), while the bootloader writes
what it decided (`LoadInv`), and while an application runs (`RunInv`), with what the
sectors will hold when the job is done (`End`). This invariant was checked with TLC,
with one to three slots, before it was proved.

### `WlProofs`

For any number of sectors, any rate of moves, any number of parts of a sector and any
number of calls and power losses, which may come at any moment:

- `AlwaysSurvivesPowerLoss`: `Spec => SurvivesPowerLoss`.
- `PartsAlwaysKept`: `Spec => PartsKept`.

The lemmas `CalcAddrIs`, `CalcAddrType` and `MoveRelocatesOne` are about `calcAddr`: it
maps the logical sectors to the positions other than the dummy's, and one move of the
dummy, with or without the wrap of the lap, moves one sector only. `RecoverPosIs` and
the lemmas after it say what `recoverPos` finds in the state sectors. `WlInv` has one form
for each stage: between calls (`InPlace`), while a move copies (`Moving`), while it is
recorded in one state sector only (`Recorded`), while a new lap rewrites the state
sectors (`Lapping`, `Following`), while they are written for the first time
(`Formatting`), while sector 1 is rebuilt from sector 2, up to its header (`Mending`), and
without power (`Off`). In each, `job` is exactly what remains to be
written and a restart sees the same data. There is one lemma per stage for a flash
operation that is made and one for one that is torn. The invariant is `rebuilt \/ WlInv`:
nothing is said of the data once the header of sector 1 was rebuilt, as the records
that follow it are copied only by chance (`WlPowerLoss.cfg`).

`SafeInv` does the same one layer up: a call of the safety layer is a single operation
(`Single`), or stands between the dump of a sector and its transaction record
(`Dumping`), or behind the record (`Restoring`), where every restart repeats what is left, or
finishes a torn record that names the dump or the record's own sector (`Aside`); and
nothing but the record's sector ever begins with its sign (`Clean`). `Outcomes` are the
contents a call may leave where it writes; one that shows a record which was not there
and should not have been (`Misread`) is the step `RecordTorn` that the property excepts,
and after it the invariant still holds, about the sector the record names.
Whatever the layer below does in between, moves included, is a step that leaves
what a restart sees unchanged, by the first theorem.

`Rebuild` and `Restore` are written without recursion for these proofs (the records in
ascending order; the parts to restore in theirs), and the transaction's mark is
assumed to be none of the clients' values.

### `EspTimerProofs`

For any finite set of timers, any tasks, timeouts, time and number of calls, with and
without ISR timers, and expiries, stops and deletions at any moment:

- `ListsAlwaysHoldArmed`: `Spec => []ListsHoldArmed`.
- `AlarmAlwaysCovers`: `Spec => []AlarmCovers`.
- `CallbackAlwaysDue`: `Spec => CallbackIsDue`.

A timer's address is assumed to be neither NULL nor a list's head (`NamesAssumption`).

`IsList(l, m, s)` says that the links of list `m` are those of the sequence `s`, forwards
and back. `ChainIs` shows that the walk of `LIST_FOREACH` finds `s`: two functions that
satisfy the walk's recursion have no least argument at which they differ, so that no
induction over data is needed. `RemoveIs` and `InsertIs` say what the macros do to the
sequence, `RemoveOther` and `InsertOther` that the list they are not applied to stays as
it is, and `InsertPlace` that `timer_insert` finds the place at which the order of the
alarms is kept. `ListsRemove`, `ListsInsert` and `ListsLess` put these together for the sets
of armed timers; a restart, a periodic timer and the move of a deleted timer to the task's
list are a removal and an insertion in one step.

`TimerInv` adds to the lists that a timer is marked deleted exactly while it waits to be
freed (`MemInv`), that every call under way has a live timer, used by no other call if
it is a deletion (`CallInv`), that a timer taken from its list is live until its callback
is read, or was deleted behind the interrupt handler's back (`TakenInv`), and that a build
without ISR timers has none (`BuildInv`). The invariant is `"restart" \in overtaken \/ TimerInv`:
all of it is kept by every step but a restart that finds, under the lock, its timer no
longer armed.

### `EspEventProofs`

For any tasks, handlers, keys, events, queue size and number of calls, with and without a
task of the loop's own, if handlers are registered and unregistered as instances
(`ASSUME Apis = {FALSE}`; for the legacy functions, which name a handler by its function,
the last is false, see `EventWrongHandler.cfg` and `EventReregister.cfg`):

- `AlwaysInOrder`: `Spec => []PlanInOrder`.
- `UnregisteredAlwaysGoes`: `Spec => []UnregisteredGoes`, calls repeated at will.
- `NeverCalledAgain`: `Spec => NotCalledAgain`.
- `MarksOnlyAskedFor`: `Spec => []OnlyAskedFor`.

The identity of a task is assumed not to be NULL, and a key for any base to be one for any
id, which registration checks (`EventAssumption`).

The first half is about the lists. `NodeLists` describes those the code can build: within a
list of handlers, from the handlers of all events of a loop or base node to those of the
nodes below it, from one node of a base to its next, and from one loop node to the next, addresses, which are numbers of
registrations here, go up; a base node holds one id node per id. `At(nodes, x, key)` says that `x`
is registered under `key`. `PlanAt` shows that the walk of `esp_event_loop_run` over such lists
gives exactly the nodes that match, in order; `RegisterIs` that a registration, which may
open a new loop, base or id node, gives such lists with one node more; `RemoveIs` that
`loop_remove_handler` takes out the node it is asked for, whose nodes it drops when they
become empty, and no other; `FindFinds` that the walk of `find_and_unregister_handler`, which
goes on after a match, ends with the node asked for if it is there. Walks that are recursive
functions are shown to exist, and to have the values claimed, by the least argument at
which they would not.

`EventInv` then adds what the steps need: a node nobody asked to remove is linked under its
key and not marked (`TreeOk`); a cleanup event names a registration somebody asked to remove
(`PostsOk`), so that a late one, received when the node is gone, removes nothing else; what
is still to be executed is marked before its removal is reported as done (`RunOk`), which is
where it matters that the mutex is held over the whole dispatch and that a task holds it
from the mark to the event (`CallsOk`); two calls never remove the same node; and a node removed with success but still linked has its event under way, or a call for
it was refused before (`GoesOk`). That exception is as narrow as the code allows: a
refused call leaves the mark, and the next call takes the mark for an event. This invariant
was checked with TLC on the instance of the run `event` before it was proved.

### Only model-checked

Liveness and everything about fairness (`QueuedIsSent`, `WaiterResumes`,
`BlockedSenderReturns`, `SentIsRetrieved`, `CallReturns`, `NonblockingCompletes`,
`AlwaysBoots`), which the prover does not reach.
The refinement of `RingbufFifo` by the buffers of items, whose mapping reads the contents
of the whole chain as a sequence. `NvsStorage`, whose calls and recovery work through whole
pages of records by recursive functions, and of `EspEvent` the legacy functions and
`UnqueuedIsExecuted`.

## Not modelled

- Power management locks, the pthread layer and the cache guards: thin layers over
  FreeRTOS, hardware and inter-processor calls; candidates after the proofs.
- Heap allocator, FreeRTOS kernel, network, Wi-Fi and Bluetooth stacks: vendored or
  binary; semaphores, queues, mutexes and notifications are modelled from their use.
- Chip support, HAL and the other drivers: registers and tables generated per chip,
  which are most of the text of the repository and hold no protocol of their own.
- Parts of the modelled components: see "note" of each in `PROJECT.json`.

## Plan

Done: all modules above and the proofs of this page. Left: the weak background of the main flash bus in `SpiBusLock`.
