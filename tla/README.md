# A TLA+ development for Exascale10 (E10)

E10 adds a node-local write cache to ROMIO, the MPI-IO library. A process that
writes through the cache puts its data into a local file, and a pool of
synchronisation threads copies it to the global file in the background. Around
this cache the repository holds the ROMIO code that calls it (collective open,
two-phase collective access, data sieving, file views, shared file pointers), a
native driver for BeeGFS with its own caching service, and MPIWRAP, a library
that postpones the closes of an application so that the cache has time to empty.

The development has one TLA+ module per part, a TLC configuration for each
question it asks, and TLAPS proofs about the write cache, its queues, the collective
open, the shared file pointer, data sieving, MPIWRAP and the BeeGFS driver. `PROJECT.json` maps every definition to the lines of C or C++ it
stands for.

## The parts and how they interact

```
 application
    | MPI_File_open/close, guard names        MpiWrap
 MPI-IO calls
    | open, close       CacheOpen     (all processes)
    | views, pointers   FileView      (one process)
    | shared pointer    SharedPointer (all processes)
    | strided access    DataSieving   (several processes, one file)
    | collective access TwoPhase, P2PAggregation, both over FileDomains
 ADIO_WriteContig / Flush / Close
    | write cache       CacheSync over Requests        implements WriteBack
    |   its queues      AtomicQueue                    implements Fifo
    | BeeGFS driver     BeegfsCache
 local file, sync threads or cache daemon, global file
```

The modules meet at interfaces where the code has function calls. `CacheSync`
treats a queue operation as atomic, which `AtomicQueue` justifies by implementing
`Fifo`. It takes from `CacheOpen` what a process can have after the open: a cache or
none, threads or (on a process that is no aggregator) none. `TwoPhase` calls the
cache as a local copy that is flushed later, and `MpiWrap` as data that is in the
file once the handle is closed, which is what `CacheSync` shows of a close.

## Which module models which code

| Module | Code | State | Actions |
|---|---|---|---|
| `Requests` | `adi_atomic_queue.c`, `adi_cache_sync.c` | (operators) requests and the three queues `pen_`, `sub_`, `wait_` of a thread | enqueue, flush, wait, with the identities of requests |
| `CacheSync` | `ad_write.c`, `ad_flush.c`, `ad_close.c`, `adi_cache_sync.c`, the fallback in `ad_write_coll.c`, `set_info.c` | versions of each block in the cache file, the global file and the threads' buffers; queues; program counters of the main thread and the threads | one per step of `ADIOI_GEN_WriteContig`, `ADIOI_GEN_Flush`, `ADIO_Close`, the allocation fallback and `ADIOI_Sync_thread_start` |
| `WriteBack` | the promise of the cache | stored and accepted version of each block, the call | Invoke, Accept, Transfer, Return |
| `CacheSyncRefines` | refinement mapping | | |
| `AtomicQueue`, `Fifo` | `adi_atomic_queue.c` | envelopes in memory, mutex, condition variable, program counters | one per critical section or step between them |
| `CacheOpen` | `ad_open.c`, `ad_opencoll.c`, `ad_close.c` | per process the handle, the cache file, the threads, where it is; files of the nodes | one per local step, `Collective` for the MPI collectives |
| `SharedPointer` | `ad_get_sh_fp.c`, `ad_set_sh_fp.c`, `mpi-io/*_sh.c`, `*_ord*.c`, `seek_sh.c`, `close.c` | pointer file, lock, regions given out, program of each rank | one per step between lock, read, write and message |
| `FileDomains`, `TwoPhase` | `ad_aggregate.c`, `ad_write_coll.c`, `ad_read_coll.c` | file, buffers of aggregators, round, messages | one per step between collectives |
| `P2PAggregation` | `p2p_aggregation.c`, `ad_threaded_io.c`, the branch of `ad_gpfs_wrcoll.c` and `ad_gpfs_rdcoll.c` that calls them | messages in flight, posted receives, two buffer halves, I/O threads | one per step between waits, the threads, `Deliver` for MPI |
| `FileView` | `ad_set_view.c`, `ad_seek.c`, `get_fp_posn.c`, `byte_offset.c`, `eof_offset.c`, the walks of `ad_read*.c`, `ad_write*.c` and their BeeGFS form | the view, `fp_ind`, what the last access reached | one per call |
| `DataSieving` | `ad_write_str.c`, `ad_read_str.c`, `lock.c`, `mpi-io/write.c`, `read.c` | file, locks, window and buffer of each process | one per lock, read, write, unlock |
| `MpiWrap` | `mpiwrap.cpp` | handles, list of postponed closes, cached data | open, write, close, finalize |
| `BeegfsCache` | `ad_beegfs_opencoll.c`, `ad_beegfs_open.c`, `ad_beegfs_write.c`, `ad_beegfs_flush.c`, `ad_beegfs_close.c`, `ad_beegfs_cache_sync.c` | as `CacheSync`, with the locks and ranges of the daemon | one per step, `Copy` for the daemon |

`MC...` modules hold the values of constants that a configuration file cannot
write. Data is abstracted to versions (the number of the write that produced it),
offsets to small numbers, names to strings of a few.
What lies outside the repository (MPI collectives and messages, POSIX locks, the
BeeGFS cache daemon) is modelled from how the code uses it and marked external in
the map.

## The runs

| Run | Question |
|---|---|
| `cache_durable` | One sync thread. Is an acknowledged write in the global file when a flush returns, and does it get there without one under `flush_immediate`? Does the file ever go back to an older version while blocks are rewritten under a running copy? Does the cache implement `WriteBack`? |
| `cache_pool` | Two sync threads, coherent cache, failing I/O of the threads. Is every request alive while a thread uses it, is the shutdown clean, are all locks released, does every call return? |
| `cache_nopool` | A process without a pool, all flush flags. Does the cache file hold what was acknowledged? |
| `atomic_queue` | Does the queue implement a FIFO, without lost wakeups, dangling envelopes or leaks? |
| `cache_open` | Do all processes agree on using the cache after failures on some of them, does a failing cache leave the open intact, does everybody return? |
| `shared_pointer` | Are the regions disjoint and without gaps, ordered by rank in ordered calls? When does a seek take effect? Does the pointer file live as long as it is used? |
| `two_phase` | Is the data in the file when a collective write returns, do holes keep their contents, do reads return the file, do all ranks make the same collectives? |
| `file_view` | Does each access of any sequence of calls reach the bytes the view defines, and leave the pointer where the next one expects it? |
| `data_sieving` | Are updates lost under a concurrent read-modify-write, is atomic mode serial, are locks released? |
| `mpi_wrap` | Is each postponed close made once, before the next checkpoint or at the end? |
| `beegfs_cache` | The questions of `cache_open` and `cache_durable` for the native driver. |
| `p2p_aggregation` | Do messages meet the receives they are meant for, do thread and messages keep to different halves of the buffer, is the data right, are errors of the thread reported? |

All twelve pass. Every property has a mutant in `PROJECT.json`: a plausible mistake
in the code under which TLC finds the property violated.

### What the conditions of the properties say

A property is stated under the conditions on which it is true of the code. They
are part of the result:

- `FlushedMeansTransferred`, `DirtyHasOwner`, `NeverBack`, `ImplementsWriteBack`:
  sync threads whose reads and writes succeed (their result is not looked at), one
  thread per process, and no `flush_none`.
- `NothingAbandoned`, `CacheOpenWhileRead`, `LocksReleased`: no `flush_none`;
  `LocksReleased` also no failed write of the main thread, which keeps its lock.
- `AllReturn` of `TwoPhase` and `DataSieving`: no access has failed. A rank that
  fails leaves the rounds, or keeps its lock.
- `ReadsFile`: pieces of one request overlap only inside one file domain.
- `AccessRight` of `FileView`: accesses of one family on views
  with empty blocks. (Where the code looks for the position and finds it in no block it
  would read past the flattened list. The model then accesses nothing, which
  `AccessRight` rejects unless nothing was asked for.)
  `PositionKept`: no open cache.
- `ReturnedKept` and `Serial` of `DataSieving`: no access that goes without a lock
  (single-block requests and, in nonatomic mode, contiguous ones) lies in the range of
  one that locks: in atomic mode none, in nonatomic mode no write in the range of a
  write. This is `Apart`, and the assumption `ScenariosApart` of `MCDataSieving` says
  that the scenarios of the run are of this kind.
- `RegionsTile`, `OrderedByRank`: no first read of the pointer file has failed
  (`lost`), which the code takes for an empty file.
- `OrderedByRank` and `OrderedBeforeSeek`: calls whose transfer gathers the offsets of
  all ranks (`Gathering`), which are the writes unless `romio_cb_write` and the reads unless
  `romio_cb_read` is `disable` (`ad_write_coll.c:101`, `ad_read_coll.c:101`). With the hint
  disabled rank 0 returns from an ordered call, and may seek, while others still wait for
  the token. `OrderedByRank` then speaks of the ranks that got their region before the
  same seek. The constants `cb_write` and `cb_read` are these hints; the run has the
  first enabled and the second disabled, so that both kinds of call occur.
- `AllSynced` of `MpiWrap`: a guard file is opened only when no file is open.
- `FallbackOpens` of `BeegfsCache`: failures during the creation of the file, and not
  `MPI_MODE_EXCL` with a first attempt that has left the file it created (`LeftBehind`):
  the second attempt keeps the flag and fails on that file.
- `P2PAggregation`: every process has data, nobody covers a whole domain from
  outside, no domain of one byte, the number of rounds suffices and no aggregator's
  domain ends rounds before the others' (`Regular` in `MCP2PAggregation`).

### Further counterexamples

Where a condition excludes something the code can meet, a configuration shows
what happens without it. Each of these, a file of its own or the
configuration of the run with one constant or property changed, makes TLC report a
violation. They are run with
the `MC` module of the same name, for instance
`tlc -config CacheSync_syncerror.cfg MCCacheSync`.

| Configuration | Violates | Because |
|---|---|---|
| `CacheSync_fallback` | `FallbackWritesGlobal` | the allocation fallback leaves `cache_fd->is_open` set, later writes go to the closed descriptor, against `ad_write_coll.c:384` |
| `CacheSync_syncerror` | `FlushedMeansTransferred` | a failed copy of a sync thread is not reported |
| `CacheSync_durable`, `NThreads = 2` | `FlushedMeansTransferred` | one thread holds an old version of a block in its buffer while the other copies the new one, and writes it afterwards |
| `CacheSync_storage` | `SyncReachesStorage` | with the cache the flush never reaches `fsync` |
| `CacheSync_unlocked` | `LockedWhileDirty` | the thread unlocks an extent that has been rewritten and locked again |
| `CacheSync_nopool` | `NoCrash` (added) | no pool on a process that is no aggregator |
| `CacheSync_pool`, `NewFlags <- NoFlush` | `LocksReleased`, `CacheOpenWhileRead`, `NothingAbandoned` | after a change to `flush_none` the close skips the requests enqueued before |
| `CacheOpen_creator` | `OneCreator` | without `ADIO_EXCL` no process learns that another created the cache file |
| `TwoPhase_failure` | `FailuresReturn` | a failing rank leaves the rounds, the others wait |
| `TwoPhase`, `Setups <- AcrossSetups` | `ReadsFile` | `buf_idx` describes consecutive places of the buffer |
| `TwoPhase_cached` | `CachedUnwrittenKept` | holes are filled from the global file, which is behind the cache |
| `FileView_cached` | `PositionKept` | the cached driver advances `cache_fd->fp_ind` |
| `FileView_beegfs` | `PositionKept` | `fp_ind` is advanced twice |
| `FileView`, `Mixed = TRUE` | `AccessRight` | the naive access leaves `fp_ind` on an empty block |
| `DataSieving_block`, also with `Scenarios <- InHole` | `ReturnedKept` | a write without a lock in the hole of a window |
| `SharedPointer` | `AlwaysByRank` (added) | the ordered reads do not gather, rank 0 sets the pointer before rank 1 has its region |
| `BeegfsCache` | `CacheFailureHidden` (added) | the retry without the cache keeps `ADIO_EXCL` and meets the file the first attempt left |
| `MpiWrap_early` | `AllSynced` | a file opened before the first guard file and closed after it is never closed |
| `MpiWrap_hints` | `NamedHints` | `dirname()` has cut the name that is looked up next |
| `P2PAggregation_span`, also with `RoundsSetups` | `DataRight` | a process that covers a domain is not counted; too few rounds |
| `P2PAggregation`, `ByteSetups` | `CallReturns` | a domain of one byte counts as unused |
| `P2PAggregation`, `EmptySetups` or `ShortSetups` | `NoMisuse` | a process without data; a negative length to read |

### Properties that are not part of a run

The modules state a type invariant each, and some properties that follow from others
or weigh less: `NeverBack` (implied by `ImplementsWriteBack`, and proved), `AllFreed`,
`DeletedAfterClose`, `OrderedBeforeSeek`, `OnePointerFile`, `PointerFileRemoved`,
`SameCollectives`, `OwnDomain`, `StartFound`, `ListFits`, `LocksReleased` of
`DataSieving`, `OneCycle`, `GuardsReadBack`, `CacheAgreement`, `LocksDropped` and
`EventuallyTransferred` of `BeegfsCache`, `NoThreadLeft`, `ThreadErrorReported`. They
hold in the instance of their module's run; adding the name to the configuration
checks them again. `AllFreed`, `DeletedAfterClose`, `OrderedBeforeSeek`,
`OnePointerFile`, `PointerFileRemoved`, `LocksReleased` of `DataSieving`, `OneCycle`,
`GuardsReadBack` and `CacheAgreement` of `BeegfsCache` are proved.

## Bounds

Every bound is a constant of its module and a conjunct of a guard.

- `CacheSync`: two blocks, written one by one or together, are the least for
  partial rewrites; three writes give an old request, a rewrite during its copy
  and one more; a buffer of one block makes a request take two chunks, one of two
  makes it take one. Two threads exercise the round-robin.
- `AtomicQueue`: four pushes, five envelopes, so that freed memory is reused while
  the sentinel and two requests are alive.
- `CacheOpen`: three processes on two nodes (two share a cache file, one of these
  no aggregator), two opens in a row, up to two faults.
- `SharedPointer`: two ranks, three collective calls in any order, an independent
  access between any two steps, one fault. Of the four ordered calls `OrderedCalls`
  takes a write, which gathers, and a split read, which does not; the other two
  are the same steps with the roles exchanged.
- `TwoPhase`: three ranks and seven bytes: several rounds, empty and aligned
  domains, one aggregator (the broadcast) or two, two calls in a row, one fault, one
  independent write, contiguous views and others. (In the others an empty request
  ends at byte 0, since `ADIOI_Calc_my_off_len` leaves `end_offset` at its initial value.)
- `FileView`: seven views (contiguous, with holes, with empty blocks, adjacent
  blocks), displacement and etypes of 1 to 3 bytes, positions up to `MaxByte`.
- `DataSieving`: three processes, windows smaller than, equal to and larger than
  the requests, one failure.
- `MpiWrap`: two guard files and another, four handles, one failing open.
- `BeegfsCache`: two processes, two blocks, two writes each, four kinds of open, one
  of five kinds of fault.
- `P2PAggregation`: three processes, two or three aggregators, two or three rounds,
  with and without thread, eager or synchronous sends, one kind of fault.

No symmetry is used: the runs that check liveness would be unsound with it.
Deadlock is not checked where the system may stop, which is where processes
finish their program or a failed rank leaves the others in a collective call; what
must not stop there is stated as a liveness property.

## Fairness

Every liveness property rests on weak fairness of single steps. In `CacheSync`,
`AtomicQueue`, `BeegfsCache` and `P2PAggregation` the steps of a thread
or process that can run are eventually run, which is what the operating system
promises, as the code never spins. Starting a new call is not fair: the application
need not make one. Mutexes need no strong fairness: each waiter
of the queue is the only one, and in `DataSieving` and `SharedPointer` every
process makes a bounded number of accesses. `Deliver` and
`Collective` are fair because MPI makes progress; `Copy` because the cache daemon
does. In `TwoPhase` it is enough that
some rank that can take a step takes one: every step brings the call closer to its
end. Failures are bounded and never fair.

## What is proved

TLAPS checks proofs about seven components, each for every value of the constants:
any number of blocks, threads, processes, requests, handles, pushes, writes and faults. The
assumptions are those of the modules (`SizeAssumption`, `ExtentAssumption` and
`HintAssumption` in `CacheSync`, and their like in the others), which give the
constants their types; TLC evaluates them in every run. Where a theorem needs more,
the condition is a hypothesis of the theorem. Each inductive invariant was checked
by TLC on the instances of the runs before it was proved.

| Theorem | States | Conditions |
|---|---|---|
| **`CacheSync`** | | |
| `TypeCorrect` | `Spec => []TypeOK` | none |
| `RequestsLive` | `Spec => []NoUseAfterFree` | none: any threads, flags, errors |
| `CacheHolds` | `Spec => []CacheHoldsAcked` | none |
| `CleanShutdown` | `Spec => []NothingAbandoned` | no `flush_none` |
| `CacheOpen` | `Spec => []CacheOpenWhileRead` | no `flush_none` |
| `LocksFreed` | `Spec => [](writeErrors = 0 => LocksReleased)` | no `flush_none` |
| `Durability` | `Spec => []FlushedMeansTransferred` | one thread without I/O errors, no `flush_none` |
| `DirtyOwned` | `Spec => []DirtyHasOwner` | the same |
| `NoOldVersion` | `Spec => NeverBack` | the same |
| `Refinement` | `Spec => ImplementsWriteBack` | the same |
| **`AtomicQueue`** | | |
| `FrontSafe` | `Spec => []NoDanglingEnvelope` | none |
| `NoLeak` | `Spec => []AllFreed` | none |
| `QueueIsFifo` | `Spec => ImplementsFifo` | none |
| **`CacheOpen`** | | |
| `AllOrNone` | `Spec => []CacheAgreement` | none |
| `StandardOpen` | `Spec => FallbackOpens` | none |
| `DeletedOnReturn` | `Spec => DeletedAfterClose` | none |
| **`SharedPointer`** | | |
| `TypeCorrect` | `Spec => []TypeOK` | none |
| `LockProtects` | of two ranks between lock and unlock, each has a file of its own | none |
| `RegionsAlwaysTile` | `Spec => []RegionsTile` | none (`~lost` is part of the property) |
| `RegionsInRankOrder` | `Spec => []OrderedByRank` | the same; any `cb_write`, `cb_read`: across a seek only for calls that gather (`Gathering`, part of the property) |
| `SeeksAreVisible` | `Spec => []SeekVisible` | none |
| `SeeksWait` | `Spec => []OrderedBeforeSeek` | calls that gather (`Gathering`, part of the property) |
| `PointerFileShared` | `Spec => []OnePointerFile` | none |
| `PointerFileGone` | `Spec => []PointerFileRemoved` | none |
| **`DataSieving`** | | |
| `TypeCorrect` | `Spec => []TypeOK` | none |
| `NoLockLeft` | `Spec => []LocksReleased` | none |
| `ReturnedWritesKept` | `Spec => [](Apart(scen) => ReturnedKept)` | `Apart(scen)` |
| `AtomicIsSerial` | `Spec => [](Apart(scen) => Serial)` | `Apart(scen)` |
| **`MpiWrap`** | | |
| `DeferredCloseSafe` | `Spec => []NoMisuse` | `Disciplined` |
| `FinalizeSyncs` | `Spec => []AllSynced` | the same |
| `LastCycleOnly` | `Spec => []OneCycle` | the same |
| `CyclesReadBack` | `Spec => []GuardsReadBack` | the same |
| **`BeegfsCache`** | | |
| `FallbackWorks` | `Spec => []FallbackOpens` | not `MPI_MODE_EXCL` with a file left by the first attempt (`LeftBehind`, part of the property) |
| `CacheAgreed` | `Spec => []CacheAgreement` | none |
| `FlushTransfers` | `Spec => []FlushedMeansTransferred` | none |
| `LocksCoverDirty` | `Spec => []LockedWhileDirty` | none |

The conditions are those without which the configurations above find
counterexamples. "No `flush_none`" is `AlwaysFlushes`, "one thread without I/O errors"
and it together are `Dependable`; both are in `CacheSyncInv`. `Apart` compares the
requests of a scenario as explained above. `Disciplined` is the
constant of `MpiWrap` by which the application opens a guard file only when it has no
file open.

### The write cache

The argument, bottom up, with the invariants of `CacheSyncInv`:

1. `ControlInv` (in `CacheSyncLifetimeProofs`): what the handle says at each place of
   the main thread, and that a busy thread has a `SYNC` request.
2. `IdentityInv`: in each thread the requests of `pen_`, of `sub_` and the one being
   worked on have different identities, which were handed out and are
   neither complete nor freed.
   The flush frees all requests after it waited for the youngest only; this is right
   because of `YoungestInv`: the youngest request of `wait_` is the last one the thread
   will finish, so that when it is complete the thread holds none of the others.
   What the queue operations do to these two facts is stated without the state
   machine, as lemmas about sequences of requests, at the beginning of
   `CacheSyncLifetimeProofs`, whose later parts apply them. Together with `TypeOK`
   they are `LifetimeInv`, which is inductive and implies `NoUseAfterFree`.
3. `AckedInv`: the current `WriteContig` has put its version into every block it has
   transferred, and the cache file is never behind the acknowledged versions. It
   needs `LifetimeInv` for the identity of the current request only, hence
   `CacheHolds` has no condition.
4. `CleanInv` says how far a flush and a shutdown have come: which threads have
   empty queues, are idle, joining or gone. It needs the flag never to be
   `flush_none`, as such a flush does nothing.
5. `LocksInv`: for every lock there is somebody who will release it (`Unreleased`):
   the write that took it, a request in a queue, or a thread before its unlock. Each
   step hands the lock on or releases it; when a flush has returned, `CleanInv` says
   that nobody is left. A write that fails keeps its lock and enqueues no request,
   which is why the theorem counts write errors.
6. `VersionInv` orders the versions of a block: the global file is never ahead of a
   thread's buffer, the buffer never ahead of the cache file, the acknowledged
   version never ahead of the cache file. `DirtyHasOwner` says that a block of the
   global file that is behind has a request, or a buffer filled late enough, that will
   bring it up to date. It is the reason why a flush that finds the queues empty may
   return, and it is not inductive without `VersionInv`. With two threads it is
   false: a slow thread can write an old buffer over a younger block.
   These proofs, and those of points 4, 5 and 7, are in `CacheSyncDurableProofs`; the
   lemmas about `CleanInv` that concern single actions are with the lifetimes.
7. The refinement maps `stored` to the global file, `accepted` to the acknowledged
   versions and `call` to the call being executed, which `CallInv` ties to the place
   of the main thread. `NeverBack` and the refinement follow step by step
   from `DurableInv`.

### The queue

`QueueInv` of `AtomicQueueProofs` says who holds the mutex at which place (`LockInv`),
that `size_` counts the filled envelopes except between a change of the list and the
change of `size_` under the same lock (`SizeInv`), that the envelopes of the list are
distinct and are exactly those allocated (`HeapInv`), that the list holds the requests
pushed and not taken in order (`OrderInv`), and what each thread knows at its place
(`PlaceInv`). The envelope that `front` has looked at stays the first because only the
sync thread pops. For the refinement the queue of `Fifo` is the sequence of
requests in the list without its last, empty envelope: filling that envelope is the
push, unlinking the first is the pop, every other step stutters.

### The collective open and close

`CacheInv` of `CacheOpenProofs` says, place by place, what a process has of the cache
(`StageOf`): nothing before the attempt; after it a descriptor exactly if the error is
not that of the open (`Attempted`); after the reduction, and the revert if there is one,
a descriptor exactly if the cache is used, and without the cache no threads (`Settled`).
All places between the reduction and the barrier of the close (`Decided`) are entered
by all processes together, therefore with the same decision, and nothing is said about
how far apart the processes are in between. `ExcuseInv` follows the errors: the revert
may leave an error of the cache behind, even a new one when another process of the node
has deleted the cache file already, and the proof shows that each way from there to the
last reduction overwrites it with a result of the global file. `DeleteInv` says that the
file is gone when the root has reached the last barrier, the only place from which a
close that deletes returns.

### The shared file pointer

`Inv` of `SharedPointerProofs` has four layers.

1. `Control`: where a rank may be in which call, and that its position in the program
   and its split collective agree with the calls it has made.
2. `Schedule`: the ranks make the same collective calls but not at the same time, and
   the model, like MPI, knows of a barrier or a message only how many there were. The
   proof follows sets instead: `Entered`, `Departed`, `Received` and `Sent` are the
   synchronising calls whose barrier a rank has entered, which it has left, whose token
   it has received and has sent. The counters `bar`, `token` and `gen` are the sizes of
   these sets. Each set is an initial part of the synchronising calls of the program, so
   that of two of them the one that counts more contains the other; this is why
   counting is enough, and why a rank cannot take the token of one call for that of
   another or leave a barrier that somebody else has not reached. The
   end of a split collective, and a begin that is refused, do not synchronise.
3. `NameOK` and `LockOK`: until a rank has left the close, every open pointer file is the
   one its name stands for, and before that file exists nothing has been handed out. A
   rank between lock and unlock holds the lock of its file, and the value it is about
   to advance is still the one in the file.
4. `ClaimsOK`, `PointerAhead` and the properties. A region begins where the pointer
   stands and the pointer moves to its end, which gives `RegionsTile`. That the regions
   of an ordered call follow the ranks needs `Schedule`: the higher rank writes the
   pointer only after it has received the token of this call, hence after the lower
   one has sent it. If the call gathers, no seek falls between the two, since rank 0
   comes to the seek only when all have entered the ordered call's transfer; if it does
   not, the property is about regions of the same seek, and the pointer only moves
   forward between seeks. The
   two properties of seeks compare `gen` with the number of seeks before a call in the
   same way.

The steps are proved from a few facts about cardinalities (`Counting`), which the
library of finite sets supplies at the end of the module.

### Data sieving

`Inv` of `DataSievingProofs` is `Control /\ (Apart(scen) => DataOK)`.

1. `Control` is about one access at a time: what it holds at each place (`HeldOK`: its
   whole range in atomic mode, its window in nonatomic mode), that a window fits the
   buffer and that of a write stays within the range (a read that goes on in the middle
   of a piece counts from the piece's beginning and may read past the range), that
   an access which has returned has left no piece out (`WindowOK`), what a read has got (`GotOK`), and that locks of two processes are
   disjoint (`Exclusive`). The first piece that reaches past the last window exists
   because a set of naturals that is not empty has a least element (`LeastExists`,
   from the library's well-founded orders).
2. `DataOK` is about the file. `Fresh`: outside the writer's own bytes a window that is
   about to be written back equals the file, because whoever could change the file there
   needs the lock, or is kept out by `Apart`. `Kept`: of the bytes behind it, those that
   only this process writes are its own; a window of somebody else that lies over them
   is fresh and does not take them back.
3. The other conjuncts carry atomic mode. `Owned`: while a process holds the lock of its
   range, what it has written is untouched. `NotBegun`: one that has not begun has
   left no trace. `ReadSerial`: what a read has seen so far of a write is none of it if
   the write has not begun, all of it if the write is over, and never a part of both
   kinds; the write cannot begin or end in between, since both lock their
   whole range. `WriteSerial`: of two writes that are over one lies wholly over the other.

### MPIWRAP

`WrapInv` of `MpiWrapProofs` ties the list of postponed closes to the handles: with an
empty list the open handles are those the application has open; otherwise
they are the listed ones, all opened in the current cycle. Only open handles have data
in a cache, so that closing the list leaves none.

### The BeeGFS driver

`OpenInv` of `BeegfsCacheProofs` covers the open: what the results the root has
broadcast say about the file (`ResultInv`), how far each process is in the attempts and
that it has given up the cache exactly if it has seen the first one fail (`RoundInv`),
and what justifies an error (`ErrorInv`). `DataInv` covers the data: the file a process
writes to holds its writes or later ones (`StampInv`), only a process with an open,
cached file has queued anything (`UseInv`), and a block that is behind is in a queued
request, with the daemon, or given up (`OwnedInv`). `BeegfsLockInv` adds the locks: they
are taken before the write and dropped after a wait that leaves nothing of the
process behind. Writes under `flush_none`, which nobody copies, do not count
as acknowledged in this module.

## What is only model-checked

- Every liveness property: the prover has no rule for `ENABLED`.
- What the recursive walks of `FileView` and the folds of `FileDomains`, `TwoPhase` and
  `P2PAggregation` compute: facts about them for all inputs need induction over data,
  which the installed provers cannot instantiate. (The least element of a set of
  naturals, which the proofs about data sieving use, is a theorem of the library without
  such a parameter.) TLC compares the walks and folds with definitions by sets of bytes on
  bounded inputs.
- Hence the safety properties of `FileView`, `TwoPhase` and `P2PAggregation`, whose
  statements rest on these computations: `AccessRight`, `PositionKept`, `EofRight`;
  `ReturnedMeansWritten`, `UnwrittenKept`, `ReadsFile`; `DataRight`, `BuffersApart` and
  `NoMisuse` of `P2PAggregation`.

## Not modelled

The repository contains about 120000 lines, of which half are MPE (a logging and
graphics library, included for its event calls) and a good part of the rest are
drivers for file systems, benchmarks and test programs. The models cover the
write cache, the paths that lead to it and the native BeeGFS driver. Left out, with the
reasons:

- *Hints, host names, configuration files* (`ad_hints.c`, `cb_config_list.c`,
  `system_hints.c`, the JSON reader of MPIWRAP): parsers of text into the values that
  the models take as constants.
- *Flattening of datatypes* (`flatten.c`, `ad_darray.c`, `ad_subarray.c`): sequential, over
  the recursive datatypes of an MPI library that is not part of the repository.
  The models start from its result, a list of blocks.
- *The second implementation of collective access* (`ad_io_coll.c`,
  `ad_aggregate_new.c`, `ad_coll_*_new.c`): called only when the hint `romio_cb_pfr`, off
  by default, is set.
- *Nonblocking access*: the blocking call with a finished request, or POSIX
  asynchronous I/O, whose concurrency is in the operating system.
- *Other drivers* (Lustre, PVFS2, PanFS, NFS, XFS, and GPFS but for the branch in
  `P2PAggregation`): translations to the interfaces of file systems, and variants of the
  generic algorithms, which are modelled.
- *Argument checks, Fortran bindings, handle conversion* of the MPI-IO layer; *error
  texts*; *memory management* except where a property speaks of freed memory.
- *MPI-2 emulation, MPE, benchmarks, scripts, tests.*

Inside the modelled parts: noncontiguous user buffers of the collective access,
persistent file realms, filetypes of size zero, the NFS variants of the shared pointer,
a descriptor and sync threads that a failed open leaves behind when it frees the handle
(`CacheOpen` has the fields of the handle only),
striping hints, prefetch, discard and deferred open of the BeeGFS driver. The BeeGFS
daemon is modelled from its calls: one cache domain, a block copied atomically,
`deeper_cache_flush_wait` waiting for all ranges of the file.
