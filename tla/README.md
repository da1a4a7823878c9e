# Phantom OS: TLA+ models of the persistent memory

Phantom is an operating system whose programs never lose their memory: the
kernel pages one large *object space* to disk, and every so often takes a
snapshot of all of it while the virtual machine keeps running. After a crash the
machine starts again from the last complete snapshot. This directory models that
machinery in TLA+, from the page faults down to the disk queue and the threads it
runs on. TLC checks small instances; TLAPS proves most of the safety
properties for any number of pages, blocks, requests and threads.

Paths are relative to the repository root, which is `src/` in `PROJECT.json`.
`vm_map.c` and the other kernel files are in `oldtree/kernel/phantom/`, the thread
library in `phantom/threads/`.

## The parts and how they interact

| Part | State | Hard behaviour | Modules |
|---|---|---|---|
| persistent memory, `vm_map.c` | a `vm_page` per page: physical page, protection, dirty flag, three disk copies, one IO request; clean and dirty queues | faults, pageout, callbacks, the steps of `do_snapshot`, lazy pageout and reclaim interleave per page; copy on write; a crash at any step | `VmMap`, `AtomicSnapshot` |
| snapshot interlock, `snap_sync.c`, `vm_threads.c` | requests, count of stopped threads, count of threads, three condition variables | threads that start, end, block or are shut down meanwhile | `SnapSync`, `StopWorld` |
| pager and snapshot lists, `pager.c`, `fsck.c`, `pagelist.c` | superblock and its copies, free list in blocks, reserve, chains of page numbers | a crash between two writes; the head of the free list changes hands; blocks shared between snapshots | `Pager` |
| disk queue, `disk_q.c`, `disk.c`, `ide_io.c`, `dpc.c` | queue, current request, deferred call threads | a dequeue races the start; the callback may reuse the request; a missed signal | `DiskQ`, `IoService` |
| blocking primitives, `mutex.c`, `cond.c`, `sem.c`, `t_sleep.c`, `t_kill.c` | sleep flags, waiting queues, owners, threads to kill | a time-out races a signal; a unit is stolen; exits race the killer | `Threads` |
| timed calls, `timedcall.c` | a queue of differences | insertion and removal in the middle; equal and zero times | `TimedCall` |

A thread of the virtual machine executes loads and stores; a missing permission
enters the fault handlers, which allocate disk blocks from the pager and send
requests to the disk queue, whose completion calls back into `vm_map.c`. The
snapshot thread stops the threads through the interlock, protects every page, lets
the threads go, and then saves what each page held at that instant, commits by
writing the superblock, and frees the snapshot before the last two. All of them
wait and wake through the blocking primitives, and those time out through the
timed calls.

The models meet at abstract specifications: `VmMap` takes for granted that threads
are stopped as in `StopWorld`, which `SnapSync` implements, and that a request is
transferred and reported once as in `IoService`, which `DiskQ` implements. `VmMap`
itself implements `AtomicSnapshot`, the promise of persistent memory.

Drivers, network, file systems, windows, compiler, class library and tools are
listed in `PROJECT.json` as not modelled, each with its reason.

## Modules

| Module | Contents |
|---|---|
| `VmMap` | the page state machine, all its threads, properties |
| `AtomicSnapshot` | what persistent memory promises: `mem`, `shot`, `durable` |
| `VmMapIndInv` | the inductive invariant `IInv` about blocks |
| `VmMapBlocks` | that every step keeps `IInv`: faults, callbacks, reclaim, lazy pageout, `do_snapshot`; the theorems about blocks |
| `VmMapFaults` | the invariant `FInv` about flags, queues and requests of pages that threads share; the theorems about reclaim and `finalize_snap` |
| `VmMapContents` | the invariant `CInv` about what the pages hold, the steps that keep it, the refinement of `AtomicSnapshot` |
| `SnapSync` | the interlock, the life of a virtual machine thread, the shutdown |
| `StopWorld` | what the interlock promises: `world` and the set of `busy` threads |
| `SnapSyncProofs` | the invariants `CInv`, `SInv` and the theorems about the interlock |
| `Pager` | free list, reserve, superblock, snapshot lists, stop and boot |
| `DiskQ` | the queue, the pager's calls, the IDE driver, the deferred calls |
| `IoService` | what the queue promises for each request |
| `DiskQProofs` | the invariant of the queue, the theorems about it |
| `TimedCall` | the queue of differences and the timer interrupt |
| `Threads` | mutex, condition, semaphore, sleep, exit and killer, over `TimedCall` |
| `ThreadsInv` | what the operators on the queues of `Threads` and `TimedCall` do; the inductive invariant of `Threads` |
| `ThreadsProofs` | that every step keeps it; the theorems |
| `ThreadsTimes` | the times of the timed calls: what the operators of `TimedCall` do to them, and that every step keeps them |
| `MC*` and `MC*.cfg` | instances for TLC |

Definitions keep the names of the C code where they stand for one function or
variable; `map` in `PROJECT.json` gives the lines of each. A definition marked as a
mutant is a plausible mistake that shows a property can fail.

### VmMap and vm_map.c

State. `pg[p]` is the `vm_page` record: `curr_page`, `make_page` and `prev_page`
are `NoPage` when their `flag_have_*` is 0 and `ZeroPage` when they are disk page
0; `map` is what `hal_page_control` last set; `reclaim_q` is the queue the page is
on. `io[p]` is its `pager_io` (`idle` means `flag_pager_io_busy` is 0). `ram[p]`
and `disk[b]` hold contents. `list` is the pagelist being written, `last_snap`,
`prev_snap` the lists the superblock leads to and `toFree` the one about to be
freed. `asleep` is the set of threads inside `hal_cond_wait` on their page.
`ioerror` holds the pages whose request has `flag_ioerror` set.

Steps. One action is what a thread does while it holds one page's lock without
releasing it: `page_fault_read` and `page_fault_write` up to their pagein wait,
`PageinDone` for what follows it, `vm_page_req_pageout` inside whoever calls it,
one action per callback, one action per page of every walk of `do_snapshot`
(`kick_pageout`, `finalize_snap`, `SaveToList` and `MoveToPrev` around the unlocked
write in `save_snap`, `wait_commit_snap`). `mark_for_snap` over all pages is one
step, `MarkAll`, because interrupts are off. The page a fault is about is fixed by
the thread's access; the memory management unit (`Permitted`, `DoAccess`) is
external.

Simplifications, each a superset of the code's behaviour or without effect on the
properties:

- A request is queued in the step that builds it, and started in the step that
  transfers it. A dequeue may fail although the request is `queued` (it is then
  not yet chained or already current), so both outcomes are allowed.
- Lazy pageout and reclaim take any page of their queue, not the last one.
- A failed queue assert marks the page's queue `broken` and the model goes on.
- Failing to allocate a block, or `disk_enqueue`'s assert on a request that once
  failed, stops the kernel: the action is disabled.
- The content of a freed block becomes `Junk`, which is stronger than leaving it.
- The three superblock writes are one step and the blocks of the pagelists are
  not accounted for: `Pager` models both.
- `phantom_snapper_wait_4_threads` is its effect: no instruction starts in state
  `stop`, and the snapper goes on when every thread is between instructions. This
  is the specification `StopWorld`; `SnapSync` shows when the code meets it.
- `is_in_snapshot_process = 0` happens with the last page of `finalize_snap`, and
  the pagelist entry is recorded with the `vm_page_req_pageout` before it.
- There is no crash action: `DurableVal` is what a restart in the present state
  would load, and `Init` is `vm_map_init` over any list a snapshot may have left.
  Only the last list is carried over a restart: pages are loaded from it alone, and
  the older list only keeps its blocks from being used until it is freed.
- Wired pages and the shutdown of the kernel threads are left out.

### SnapSync, snap_sync.c and vm_threads.c

State. `pc[t]` is where a thread is, from its creation to its death; `spc` is where
the snapshot thread is, `fin` where `phantom_shutdown` is. The other variables are
the C variables of the same names, without the prefix
`phantom_virtual_machine_`; `threads_4_wait` is the local variable of
`phantom_snapper_wait_4_threads`. `reg[t]` is what a thread has loaded of a counter
it has not stored yet. A condition variable's waiters are the threads at the
waiting places (`wait`, `blk_wait`, `enter_wait`, `leave_wait`).

Steps. A section under `interlock_mutex`, up to its `hal_cond_wait` or unlock, is one
step, and so is a read or write outside it. `hal_cond_wait` and
`hal_cond_broadcast` are as in `cond.c`: no wake-up without a broadcast, and a woken
thread takes the mutex again before it goes on. `n_vm_threads` and `args_used` are
`volatile` and changed without a lock; `++` and `--` of such a variable are a load,
an addition and a store, and a thread can be preempted between them. The decrement
of `thread_death_handler` is one step, because `t_do_some_kills` disables preemption
around it.

| Code | Actions |
|---|---|
| `thread_run_func` | `ArgLoad`, `ArgStore`, `CountLoad`, `CountStore`, `ReturnLoad`, `ReturnStore` |
| `pvm_exec` | `CheckRequest`, `InstructionDone`, `ReturnFromExec` |
| `phantom_thread_wait_4_snap` | `TestStopRequest`, `Sleep`, `Wake` |
| `vm_syscall_block` | `BlockingCall`, `BlockTestStop`, `BlockEnter`, `WorkerReturns`, `BlockLeave` or `BlockSleep` and `BlockWake` |
| `start_new_vm_thread` | `SpawnCall`, `SpawnLoad`, `SpawnStore`, `Spawned` |
| `thread_death_handler` | `DeathHandler` |
| `phantom_snapper_wait_4_threads` | `Ask`, `CountThreads`, `WaitEnter`, `Recount` |
| `do_snapshot`, `vm_map_snapshot_thread` | `Mark`, `SnapshotLoop` |
| `phantom_snapper_reenable_threads` | `Reenable`, `TestOthers`, `WaitLeave` |
| `phantom_finish_all_threads` | `ShutdownStop`, `ShutdownRequest` |

Simplifications:

- The comments of `snap_sync.c` say that snapper and garbage collector share the
  interlock; in `gc.c` the calls are commented out, so there is one snapshot thread.
- `snap_request++` and `--` of the snapper and the store of the shutdown are atomic:
  every result of their interleaving is also that of one of the two orders. The store
  of 1 and the test of `n_vm_threads` that follows it are one step.
- An instruction is a place, not a bytecode: it may end, return, block or create a
  thread. What the worker of a blocking call does to memory is left out.
- The rest of `do_snapshot` after the threads are released does not touch the
  interlock and is part of going back to `top`.
- A killed thread's death handler runs some time later; `Threads` models the killer.
- The shutdown is the one that saves (`SHUTDOWN_FLAG_NOSYNC` not given).
- Initially the threads of `Started` have counted themselves: `main.c` enables
  snapshots after `activate_all_threads` and the first comes 100 seconds later.

### Pager, pager.c, fsck.c and pagelist.c

State. `sb` is the superblock in memory and `sbs` its three copies on the disk;
`head` is `freelist_head`, the cached first block of the free list, `reserve` the
small array allocation takes from, `disk` what each block holds (a list block or
data), `pages` the block numbers of every page, `snap` the local variables of
`do_snapshot`. `power` is up, down, or dead once `pager_get_superblock` panics. A
stop of the machine loses everything but `disk` and `sbs`. `flushed` and `safe` are
history: whether the free list was saved since the last commit, and whether the
machine has never stopped while it was not.

Steps. A step is what a thread does between two waits for the disk or for
`pager_freelist_mutex`; calls (allocate, refill, update the superblock) keep their
return places in `stack`. The actions are those of `pager_alloc_page`,
`pager_refill_free_reserve`, `pager_put_to_free_list`, `pager_update_superblock`,
the writing of a pagelist, `phantom_free_snap`, the boot (`pager_init`,
`phantom_fsck`, the completion of the format) and the stop.

Simplifications: the content of data blocks is left out (`VmMap` has it); a boot whose
superblock copies differ ends in `dead`; `phantom_free_snap` walks the lists without
checking their magic numbers, the model's walk ends at a block that is not a list
(the two differ only where `SnapshotReadable` would fail); preemption inside the
straight-line parts of `pager_update_superblock` is not modelled.

### DiskQ, disk_q.c, disk.c, ide_io.c and dpc.c

State. `requests` and `current` are the fields of the queue, `rq[r]` the flags of a
request with its owner's busy flag, `go` is `ide_dpc.go`, `idle` is
`idle_dpc_threads`; `pc` and `arg` say where each thread is and which request it
holds. Callers (`Client`) enqueue, raise, take back and wait; deferred call threads
(`Dpc`) find work, serve the current request, start the next one and report the
last, in this order.

Steps. A step is what runs under the queue's lock, or between two such places; the
callback of a request is a step of its own. A deferred call thread looks at `go`,
decides to wait, and waits, in three steps: a signal in between is missed, and the
timed wait makes up for it.

Simplifications and limits: a transfer is one step with its retries; only the IDE
driver's use of deferred calls is modelled; stopping deferred call threads is not;
`idle_dpc_threads++` is taken as atomic. Fences are left out: `ideFence` flushes the
drive's cache and, unlike `disk.h` says, orders nothing in the queue. `checkRange`'s
error is ignored by `disk_enqueue`, so a range error is not a separate outcome.
`flag_ioerror` is never cleared and `disk_enqueue` asserts it is not set
(`disk.c:193`), so a request of a page that has failed is not enqueued again
(`MayEnqueue`); `startSync` builds a new one for each call (`StartSync`);
`flag_urgent` is never cleared either, so a raised request goes to the head ever
after, and the model does the same.

### Threads and TimedCall

State. `sleep[t]` is `sleep_flags`, `pc[t]` what a thread does once it runs, `wq[o]`
the waiting queue of each object (a user mutex with a condition, a semaphore, and
the killer's own mutex and condition), `owner` the owners, `value` the units of
the semaphore, `timedout` the threads with `THREAD_FLAG_TIMEDOUT`, `threads4kill`,
`kill_request` and `victim` the killer's work. `tcEventQ` is the timer's queue
of differences; `left` is history, the time until each call is due. `waitcond` and
`waitsem` follow from the queue a thread is on.

Steps. There is one processor and every operation disables interrupts until it
returns or blocks, so an action is an operation up to that point. The timer
interrupt is a sequence of steps between `TickBegin` and `TickEnd`, one per
call made, that nothing interrupts. Which runnable thread runs next is
left open: the scheduler's queues are not modelled. A thread's waiting place in a
queue depends on its priority, as in `t_dequeue_highest_prio`.

Limits: a thread uses the semaphore and exits only without the mutex: `t_kill_thread`
does not test this, and what an exit with a mutex would do is said below; semaphores
are acquired and released by one unit, though `hal_sem_acquire_etc` takes a number of
them (`val`), of which only `acpi_os.c` makes use; killing *another* thread is not
modelled (see below); the death handler is in `SnapSync`; `hal_sem_broadcast` is never
called; the timer's `TIMEDCALL_FLAG_CHECKLOCK`, which puts a call off while its
spinlock is held, has no effect on one processor, where no interrupt comes while it is
held; threads of priority 0 are left out, since nothing would dequeue them.

## Properties

Persistent memory (`VmMap`):

- `ImplementsSnapshots`: `VmMap` refines `AtomicSnapshot`. The memory of a page is
  its `ram`, or the content of the block a fault would read; the snapshot value is
  that of `make_page`, with a queued copy counted as written; `durable` reads the
  disk only. The refinement says that paging is invisible, the snapshot is the
  memory at `MarkAll`, and a crash at any step restores the last committed one.
- `CommittedImmutable`, `SettledNotTargeted`: no write reaches, or is under way
  to, a block of a snapshot the superblock leads to or is about to lead to.
- `BlocksOwnedOnce`: no block belongs to two pages, is free while in use, or is at
  once current copy and snapshot copy.
- `ReclaimSparesIo`: a page is on a reclaim queue exactly while it has memory that
  no transfer uses, up to the first queue operation that fails its assert.
- `FinalizeFindsClean`, `MakePageExact`, `DiskNeverFull`: the asserts and panics of
  `vm_map.c` about dirty flags, disk copies and disk space.
- `CleanMatchesDisk`: what `vm_map.h` says a page's dirty flag means. It does not
  hold when threads share a page.
- `SnapshotCompletes`, `AccessCompletes`: liveness.

Interlock (`SnapSync`):

- `StoppedExact`: the count both waits of the snapshot thread rely on is exact.
- `AllAsleep`: no thread is inside an instruction while the pages are marked.
- `ImplementsStop`: `SnapSync` refines `StopWorld`, which adds that no instruction
  begins from the request to the release.
- `SnapshotTaken`, `StoppedThreadsWake`: a snapshot asked for is taken; every thread
  asleep when the pages are marked is woken. That every snapshot *ends* is not
  claimed: its last wait is for blocking calls to return, and a comment at
  `snap_sync.c:366` says so.

Pager (`Pager`): `FreeOnce` and `UsedNotFree` (no block can be handed out twice or
while in use), `NoLeak` (before the first stop none is lost), `RestartSafe`,
`FreeHeadOnDisk` and `SnapshotReadable` (what a boot would find after a stop at this
step), `CopiesAgree` (the superblock copies differ only during their update).

Disk queue (`DiskQ`): `InOnePlace`, `DriverFindsRequest`, `EnqueueFindsIdle` (the
asserts and panics of the queue, the driver and the pager), `ImplementsIo` (the
refinement of `IoService`), `Served` (every request ends).

Threads (`Threads`, `TimedCall`): `QueuedAsleep` (queues and sleep flags agree),
`TimerMatchesSleep` (no timer is left behind by the sleep it was set for),
`MutexHandedOver`, `NoLostUnit`, `KillsZombies` (the killer's asserts),
`CalledWhenDue` (the differences always add up to the time each call was asked for)
and `TimeoutWakes`.

## Runs

| Run | Instance | Result |
|---|---|---|
| `one` | 1 page, 1 thread, 4 blocks, 2 values, any boot list, any block allocated | holds, 77,888 states |
| `two` | 2 pages, 1 writing thread, 3 blocks | holds, 988,198 states |
| `shared` | 1 page, 2 threads, 4 blocks, 1 failed transfer | holds, 1,566,048 states |
| `shared_store` | 1 page, 2 threads, 4 blocks, 2 values | `CleanMatchesDisk` violated |
| `live` | 1 page, 1 thread, 4 blocks, `FairSpec` | holds, 80,791 states |
| `stop_grow` | 2 threads running, a third created, `FairSpec` | holds, 14,284 states |
| `stop_counts` | 2 threads running, a third created, all may return, shutdown | holds, 316,413 states |
| `stop_exit` | 2 threads, one returns | `AllAsleep` violated |
| `pager_restart` | 2 pages, 11 blocks, 1 entry to a list block, 4 snapshots, 2 stops | holds, 1,141,433 states |
| `pager_shared` | 1 page, 7 blocks, a second thread that allocates, 4 snapshots, 1 stop | holds, 424,034 states |
| `diskq` | 3 requests, one of them synchronous, 2 callers, 2 deferred call threads, 4 enqueues, `FairSpec` | holds, 229,384 states |
| `threads` | 3 threads of two priorities and the killer, one periodic call | holds, 444,534 states |

Bounds. *VmMap*: all interactions but three are between actors of one page: the order
of the walks over pages, the sharing of the free blocks, and the instant common to
all pages. `two` covers those. Four blocks per page are what a page can use at
once (current, being made, and two older snapshots); `DiskNeverFull` says that
they are enough, and `two` has fewer so that the out-of-disk panics happen; there,
and in `shared`, where a request that failed may not be queued again, the kernel
may stop, so deadlock is not checked. Snapshots are not counted: the behaviours
include any number of them. Two values tell old from new contents; `shared`, whose
properties do not look at contents, has one. Blocks (and threads) are symmetric.

*SnapSync*: no bound but the number of threads. Three threads are enough for every
pair of places to be taken while a third drives the snapshot thread. In `stop_counts`
threads end and a shutdown may be made, so the system may stop and deadlock is not
checked. There the started threads are symmetric.

*Pager*: one entry to a list block and a reserve of one block make every list grow and
shrink by whole blocks, so that the head of the free list changes hands all the
time. Four snapshots are the first, the two that fill `last_snap` and `prev_snap`, and
one that frees; eleven blocks let the disk run full as well as not. When the bounds
are used up, the disk is full, or a boot panics, the system stops: deadlock is not
checked.

*DiskQ*: two callers and two deferred call threads are what the races need; four
enqueues of three requests let one be enqueued again while the others are served. The
bound also makes `Served` true: an urgent request goes to the head, so an endless
stream of them would keep another one waiting for ever.

*Threads*: time-outs of zero milliseconds for conditions and sleep, and of 1500
microseconds for the semaphore, beside a period of one millisecond: zero, equal and
different times, and the conversion of microseconds. Two units show a unit that no
waiter was woken for. Exited threads are created again, so the behaviours are
infinite.

## Fairness

*VmMap* (`live`). The disk serves its queue and calls back; threads inside an access
and the snapshot thread are scheduled. Lazy pageout sleeps 100 ms between rounds and
the snapshot thread is not starved by it, so the access itself and the steps of the
snapshot thread that are not waits are strongly fair. Reclaim is assumed not to go on
forever: a page that is reclaimed before each use would never be used, and the code
has nothing against that.

*SnapSync* (`stop_grow`). Every thread and the snapshot thread are scheduled;
instructions end and blocking calls return; a mutex is handed to its waiters in turn
(`MutexHandedOver`), so steps that need it are strongly fair.

*DiskQ*. Threads that can run are scheduled, the disk ends every transfer, and the
timed wait of the deferred call threads ends.

*Threads*. `SF(Tick)`: a timer interrupt that comes while interrupts are disabled
stays pending, and is taken when they are enabled again. The loop of
`hal_cond_broadcast` goes on. Nothing else is fair: `TimeoutWakes` does not depend on
what other threads do.

## Where the code and its words disagree

Two runs show violations and are findings of `PROJECT.json`.

- `stop_exit`: a thread that returns from `pvm_exec` is counted out by
  `thread_run_func` and again by its death handler, so the next snapshot waits for one
  thread too few.
- `shared_store`: the pagein of a write fault maps the page writable while its dirty
  flag is still 0 (`vm_map.c:847`). A store of another thread then makes a page that
  is clean by its flag differ from the disk, against `vm_map.h:72`, and reclaim tests
  that flag. `shared` and the theorems of `VmMapBlocks` and `VmMapFaults` show that the
  race does not reach the bookkeeping of blocks or `finalize_snap`'s assert.

The following is also so. What happens inside the models was seen with TLC; what the
code does to a thread that is killed by another is read from the source. No run
states the property that fails: the runs above stay with what survives.

- Two threads that fault on one absent page (`vm_map.c:500`): the one that did not
  start the pagein finds the fault solved and moves the page to the dirty queue; the
  one that did then removes it from the clean queue again, and the queue's assert
  fails. `ReclaimSparesIo` is what holds up to that assert.
- Two threads that each create a thread at the same time lose an increment of
  `args_used` (`vm_threads.c:119`), and a creator leaves the stack frame its thread has
  still to read; or one of `n_vm_threads`, and `AllAsleep` fails. `stop_grow` and the
  theorems therefore create one thread.
- A thread that starts during a snapshot, after the last count, may see the request
  and go to sleep after the broadcast (`snap_sync.c:89`); the snapshot thread waits
  for it to leave, and it for the next snapshot. The threads that were counted are not
  lost in this way (`StoppedThreadsWake`).
- `pager_refill_free_reserve` saves the superblock (`pager.c:1202`) with nothing to
  keep it apart from `do_snapshot`'s update. The assert at `pager.c:932` fails, or the
  copies become different and the next boot panics. A stop between the three writes
  has the same effect.
- The commit (`vm_map.c:1462`) comes before the free list is saved (`fsck.c:596`,
  skipped while there is no old snapshot). A stop in between leaves blocks both free
  and used; `safe` excludes it. The blocks of the reserve are lost at every stop, so
  `NoLeak` is about the time before the first.
- `fsck.c:598` says that the list blocks of the old snapshot have still to be freed;
  the code before it does free them (`NoLeak`).
- `t_do_some_kills` waits before it looks at the request count (`t_kill.c:123`): a
  kill requested while it works is left until the next one.
- `hal_mutex_unlock_if_owner` (`t_kill.c:175`, `mutex.c:130`) looks at the current
  thread, the killer, so the mutexes of a killed thread are not released "on thread
  death" (`mutex.c:62`), and a killed thread stays on its waiting or run queue. Hence
  threads of the model only exit, and without the mutex.
- A timed acquire whose unit is stolen starts its whole time-out again.

## Proofs

| Module | Theorem | States |
|---|---|---|
| `VmMapBlocks` | `TypeCorrect` | `Spec => []TypeOK` |
| | `BlockOwnership` | `Spec => []BlocksOwnedOnce` |
| | `MakePages` | `Spec => []MakePageExact` |
| | `SettledSafe` | `Spec => []SettledNotTargeted` |
| | `CommittedSafe` | `Spec => CommittedImmutable` |
| | `DiskSuffices` | `Spec => []DiskNeverFull` |
| `VmMapFaults` | `ReclaimSafe` | `Spec => []ReclaimSparesIo` |
| | `FinalizeClean` | `Spec => []FinalizeFindsClean` |
| `VmMapContents`, if `MaxIoErrors = 0` and `PrivateWriters` | `MemoryImplementsSnapshots` | `Spec => ImplementsSnapshots` |
| `SnapSyncProofs` | `InterlockTypes` | `Spec => []TypeOK` |
| | `StoppedCountExact` | `Spec => []StoppedExact` |
| if `OneNew` | `ThreadsAsleep` | `Spec => []AllAsleep` |
| if `OneNew` | `InterlockStopsWorld` | `Spec => ImplementsStop` |
| `DiskQProofs` | `QueueTypes` | `Spec => []TypeOK` |
| | `RequestsInOnePlace` | `Spec => []InOnePlace` |
| | `DriverSafe` | `Spec => []DriverFindsRequest` |
| | `EnqueueSafe` | `Spec => []EnqueueFindsIdle` |
| | `QueueImplementsIo` | `Spec => ImplementsIo` |
| `ThreadsProofs` | `Queues` | `Spec => []QueuedAsleep` |
| | `SleepEvents` | `Spec => []TimerMatchesSleep` |
| | `HandOver` | `Spec => []MutexHandedOver` |
| | `UnitsNotLost` | `Spec => []NoLostUnit` |
| | `Zombies` | `Spec => []KillsZombies` |
| `ThreadsTimes` | `OnTimeCalls` | `Spec => []CalledWhenDue` |

All are about the modules TLC checks, with only the named assumptions on their
constants: at least one page, distinct special values, an allocator that returns free
blocks, boot lists in which no block occurs twice; finite sets of threads; priorities
from 1 to 31. Every invariant, action property and refinement that a passing run of
`VmMap`, `SnapSync`, `DiskQ` or `Threads` checks has a theorem.

### Persistent memory: blocks

None of the properties is inductive. `IInv` (`VmMapIndInv`) adds three things.
`IoHasTarget`: a busy request has a block and a callback. `Own`: per page, how the
seven places that name a block relate (the current copy is in no snapshot, the copy
being made equals an older one only if it was taken over from it, `toFree` shares
with younger lists only what the page still uses), the target of a write under way is
the current copy or the copy being made, and different pages name different blocks.
`Phase`: for each step of `do_snapshot` and each page before, at or behind the
walk, which copies exist and which writes may be under way. Threads may share pages
and transfers may fail.

Every step under a page's lock does one of four things to the page (`Effect`): it
keeps the copies, starts a pageout, starts a copy on write, or takes the disk copy
for the snapshot. `EffectKeepsOwn` and `EffectKeepsPhase` show that each keeps the
invariant; every action has such an effect or, for the steps of the snapshot thread
that change lists, is treated directly (`VmMapBlocks`).

`DiskSuffices` needs one more invariant, `NoLoss`: every block is free or named by a
page. A page without a current copy names at most three different blocks, every other
page at most four, so on a disk of four blocks to a page one is free. The count is an
injection of the named blocks into `1 .. 4 * NumPages` that misses a number.

### Persistent memory: shared pages

`FInv` (`VmMapFaults`) is what survives the races of threads that fault on one page.
`Sane`: queue, memory and request of a page agree until a queue operation fails, a
page being loaded is not dirty, and a dirty page has memory. `Guarded`: a page marked
for the snapshot stays write protected until it has its snapshot copy, and once the
second `kick_pageout` has been there it is clean or being written out. `Unmarked`: a
thread that waits for the pagein of its write fault waits for a page that is not
marked. The last is what `finalize_snap`'s assert rests on: the thread sets the dirty
flag when it wakes, on a page the snapshot has already dealt with. Each action is
shown to change one page and one thread, and to keep the three on them.

### Persistent memory: contents

`CInv` (`VmMapContents`) is about what the pages hold. It says, page by page,
that flags, mapping and queue agree with the request under way and that memory and
disk copy agree while the page is clean (`Sound`); and when a page may be writable,
dirty or protected, given the threads inside a fault on it and the snapshot's
position (`Guarded`): a clean page is writable only for the thread whose write fault
has just loaded it, and a page the snapshot has not saved is write protected. The
refinement is proved from `IInv` and `CInv`: a store is a `Store` of `AtomicSnapshot`,
`MarkAll` its `Take`, `UpdateSuperblock` its `Commit`, and every other step, though it
may change memory, disk and the blocks that name them, stutters.

The two hypotheses are what the code needs. `MaxIoErrors = 0`: a failed transfer is
reported as done, so the page is not what the disk holds. `PrivateWriters`, a page that
some thread writes is used by no other: with two users of a written page the races
listed above happen. `ImplementsSnapshots` with shared pages is therefore not claimed.

### Interlock

`CInv` adds to the types and the count that the request is positive while the snapshot
thread holds it, which keeps its decrement in range whatever the shutdown stores. A
step changes the number of stopped threads by the one thread that moves in or out,
or, at the broadcast, by none.

The last two theorems need `OneNew`: at most one thread is created after the start,
none returns and no shutdown is made. `stop_exit` and the list above show why. `SInv`
adds that `n_vm_threads` is the number of threads that have counted themselves, that the
request is 1 exactly while the snapshot thread has one, that a woken thread has still
to go on only while the snapshot thread waits for it, and that past its wait as many
threads are stopped as it waited for. As many stopped as counted threads means all
of them (`AllStopped`), and a thread that has not counted itself yet finds the
request at its first instruction. The refinement is proved step by
step: a thread step changes `busy` by at most itself, and enlarges it only when
no stop is asked for.

### Disk queue

`Inv` adds to the types: `Token`, the request made current is with one thread that has
still to trigger the driver, or in `go`, or with the one deferred call that serves it;
`QueueOK`, the queue holds a request once, and exactly while it is chained; `Flags`;
`Places`, a request in some thread's hand is neither chained nor current, and in one
hand; `Wakes`, a sleeping caller about to be woken has a request that has ended;
`IdleExact`, the count of idle deferred call threads. `Token` is what makes the
asserts of the driver hold with several deferred call threads, although `interrupt`
clears `q->current` without the lock.

### Threads

`IInv` has five parts. `Waiting`: queues, sleep flags and places agree, in both
directions. `Owners`: a mutex is owned by the one thread that is past its lock and not
among its waiters, which is the hand-over. `Timers`: the timed call of a thread is
for the sleep it is in. `Kills`: the list and the count of the killer, all dead.
`Units`: a timed out thread has not run since, and no unit is lost. `ThreadsInv`
says once what the operators on queues do (a removal from the middle, the choice of the
highest priority, an insertion into the queue of differences), and what joining and
leaving a queue does to the invariant; `ThreadsProofs` goes through the operations.

`OnTimeCalls` (`ThreadsTimes`) needs the sum of the differences up to a place of the
queue. `UpTo` is the induction it takes, stated for a set of naturals and proved from
the least number outside it; `SumExists`, `SumUnique` and `DueIsSum` make the sum the
only function with its two equations. What an insertion, a removal, a detached head and
a count-down do to every sum follows place by place, and `NextOnTime` goes through the
actions.

### Only model-checked

- The liveness properties (`SnapshotCompletes`, `AccessCompletes`, `SnapshotTaken`,
  `StoppedThreadsWake`, `Served`, `TimeoutWakes`): fairness and `ENABLED` are outside the
  prover.
- Everything about `Pager`: the free list and the snapshot lists are chains of blocks on
  the disk, read by recursion, and every property speaks of a whole chain.

## Not modelled

The physical memory allocator, which may reclaim from inside a page fault; the object
memory (allocator, reference counts, collector) and the bytecode; the scheduler's choice
of the next thread; the killing of another thread; pool, terminals, ports;
drivers other than the disk's; network, file systems, windows, compiler and class
library. `PROJECT.json` gives the reason for each, and lists with the hazards those
that no property covers.
