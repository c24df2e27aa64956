------------------------------ MODULE CacheSync ------------------------------
(***************************************************************************)
(* The write cache of one process: the main thread that runs the MPI-IO    *)
(* calls (WriteContig, Flush, Close, SetInfo and the collective write's    *)
(* Cache_alloc), the pool of synchronisation threads, the cache file in    *)
(* the node-local file system and the global file.                         *)
(*                                                                         *)
(* A file is a function from blocks to versions.  Every WriteContig call   *)
(* writes a fresh version, so comparing versions tells old data from new.  *)
(* Queues are sequences: module AtomicQueue shows that the mutex/condition *)
(* variable queue of adi_atomic_queue.c behaves like one.                  *)
(***************************************************************************)
EXTENDS Requests

CONSTANTS
  NBlocks,        \* blocks of the file
  Extents,        \* the extents [off, len] the application writes
  NThreads,       \* hint e10_cache_threads
  BufSize,        \* hint ind_wr_buffer_size, in blocks
  InitFlag,       \* hint e10_cache_flush_flag at open
  NewFlags,       \* the values MPI_File_set_info may give it later
  Coherent,       \* hint e10_cache = "coherent"
  Discard,        \* hint e10_cache_discard_flag
  CacheIsOpen,    \* OpenColl opened the cache file
  PoolStarted,    \* OpenColl started the thread pool on this process
  MaxWrites,      \* bound: WriteContig calls
  MaxWriteErrors, \* bound: failing pwrite calls of the main thread
  MaxSyncErrors   \* bound: failing pread/pwrite calls of the sync threads

Flags == {"flush_immediate", "flush_onclose", "flush_none"}
Block == 0 .. NBlocks - 1
Thread == 0 .. NThreads - 1

ASSUME SizeAssumption ==
  /\ NBlocks \in Nat
  /\ NThreads \in Nat \ {0}
  /\ BufSize \in Nat \ {0}
  /\ MaxWrites \in Nat
  /\ MaxWriteErrors \in Nat
  /\ MaxSyncErrors \in Nat

(* MPI_File_write returns before WriteContig when there is nothing to write.*)
ASSUME ExtentAssumption ==
  Extents \subseteq {e \in [off : Nat, len : Nat \ {0}] : e.off + e.len <= NBlocks}

(* OpenColl starts no pool when the cache is not open or never flushed.    *)
ASSUME HintAssumption ==
  /\ InitFlag \in Flags /\ NewFlags \subseteq Flags
  /\ Coherent \in BOOLEAN /\ Discard \in BOOLEAN
  /\ CacheIsOpen \in BOOLEAN /\ PoolStarted \in BOOLEAN
  /\ PoolStarted => CacheIsOpen /\ InitFlag # "flush_none"

VARIABLES
  \* files
  cache,      \* contents of the cache file
  global,     \* contents of the global file
  stable,     \* what of it the last fsync has put on the storage device
  cacheFd,    \* cache_fd->fd_sys is an open descriptor
  globalFd,   \* fd->fd_sys is an open descriptor
  cacheFile,  \* the cache file exists
  locks,      \* blocks of the global file this process holds fcntl locks on
  \* file handle
  isOpen,     \* cache_fd->is_open
  pool,       \* fd->thread_pool # NULL
  curr,       \* fd->thread_curr
  flag,       \* hints->e10_cache_flush_flag
  e10Cache,   \* hints->e10_cache = ADIOI_HINT_ENABLE
  \* queues of each thread
  pen, sub, wait,
  \* main thread
  mpc,        \* where it is
  op,         \* the call being executed
  idx,        \* loop index over the pool
  wreq,       \* the request of the WriteContig call being executed
  xfer,       \* bytes_xfered of that call
  nw,         \* WriteContig calls so far
  \* sync threads
  tpc,        \* where each one is
  treq,       \* the request it works on
  toff,       \* its bytes_xfered
  tbuf,       \* its buffer
  complete,   \* requests of each thread whose Grequest is complete
  freed,      \* requests of each thread whose memory was freed
  \* history
  acked,      \* version of the last WriteContig on each block that succeeded
  writeErrors, syncErrors

files == <<cache, global, stable, cacheFd, globalFd, cacheFile, locks>>
handle == <<isOpen, pool, curr, flag, e10Cache>>
queues == <<pen, sub, wait>>
main == <<mpc, op, idx, wreq, xfer, nw>>
threads == <<tpc, treq, toff, tbuf, complete, freed>>
history == <<acked, writeErrors, syncErrors>>
vars == <<files, handle, queues, main, threads, history>>
-----------------------------------------------------------------------------
(* n blocks of request r, from its block number o on                       *)
Span(r, o, n) == {b \in Block : r.off + o <= b /\ b < r.off + o + n}
BlocksOf(r) == Span(r, 0, r.len)

(* What a buffer holds after a failed pread: bytes of no version.          *)
Garbage == -1

Smaller(a, b) == IF a < b THEN a ELSE b
-----------------------------------------------------------------------------
Init ==
  /\ cache = [b \in Block |-> 0]
  /\ global = [b \in Block |-> 0]
  /\ stable = [b \in Block |-> 0]
  /\ cacheFd = CacheIsOpen
  /\ globalFd = TRUE
  /\ cacheFile = CacheIsOpen
  /\ locks = {}
  /\ isOpen = CacheIsOpen
  /\ pool = PoolStarted
  /\ curr = 0
  /\ flag = InitFlag
  /\ e10Cache = CacheIsOpen
  /\ pen = [t \in Thread |-> <<>>]
  /\ sub = [t \in Thread |-> <<>>]
  /\ wait = [t \in Thread |-> <<>>]
  /\ mpc = "idle" /\ op = "none" /\ idx = 0
  /\ wreq = Shutdown /\ xfer = 0 /\ nw = 0
  /\ tpc = [t \in Thread |-> IF PoolStarted THEN "front" ELSE "exited"]
  /\ treq = [t \in Thread |-> Shutdown]
  /\ toff = [t \in Thread |-> 0]
  /\ tbuf = [t \in Thread |-> [b \in Block |-> Garbage]]
  /\ complete = [t \in Thread |-> {}]
  /\ freed = [t \in Thread |-> {}]
  /\ acked = [b \in Block |-> 0]
  /\ writeErrors = 0 /\ syncErrors = 0
-----------------------------------------------------------------------------
(***************************************************************************)
(* ADIOI_GEN_WriteContig, with ADIO_EXPLICIT_OFFSET.                       *)
(***************************************************************************)

(* The call starts: the coherent cache locks the extent in the global file.*)
WriteBegin(e) ==
  /\ mpc = "idle" /\ nw < MaxWrites
  /\ nw' = nw + 1
  /\ wreq' = SyncReq(nw + 1, e)
  /\ xfer' = 0
  /\ mpc' = "pwrite" /\ op' = "write"
  /\ locks' = IF isOpen /\ Coherent THEN locks \cup BlocksOf(wreq') ELSE locks
  /\ UNCHANGED <<cache, global, stable, cacheFd, globalFd, cacheFile, handle,
                 queues, idx, threads, history>>

(* File f after a pwrite of n blocks at offset + bytes_xfered              *)
OverwrittenFromStart(f, n) ==
  [b \in Block |-> IF b \in Span(wreq, 0, n) THEN wreq.id ELSE f[b]]
Overwritten(f, n) ==
  [b \in Block |-> IF b \in Span(wreq, xfer, n) THEN wreq.id ELSE f[b]]

(* One pwrite of the loop, which may transfer less than it was asked to.   *)
(* The file handle is cache_fd's when cache_fd->is_open, else fd's.        *)
WritePwrite ==
  /\ mpc = "pwrite" /\ xfer < wreq.len
  /\ IF isOpen THEN cacheFd ELSE globalFd
  /\ \E n \in 1 .. wreq.len - xfer :
       /\ xfer' = xfer + n
       /\ cache' = IF isOpen THEN Overwritten(cache, n) ELSE cache
       /\ global' = IF isOpen THEN global ELSE Overwritten(global, n)
  /\ UNCHANGED <<stable, cacheFd, globalFd, cacheFile, locks, handle, queues,
                 mpc, op, idx, wreq, nw, threads, history>>

(* pwrite returns -1: WriteContig returns the error at once.  It must when *)
(* the descriptor is closed, and may at any time.                          *)
WriteFail ==
  /\ mpc = "pwrite" /\ xfer < wreq.len
  /\ \/ /\ ~ (IF isOpen THEN cacheFd ELSE globalFd)
        /\ UNCHANGED writeErrors
     \/ /\ writeErrors < MaxWriteErrors
        /\ writeErrors' = writeErrors + 1
  /\ mpc' = "idle" /\ op' = "none"
  /\ UNCHANGED <<files, handle, queues, idx, wreq, xfer, nw, threads, acked,
                 syncErrors>>

(* From here on the call returns MPI_SUCCESS.                              *)
Acknowledge ==
  acked' = [b \in Block |-> IF b \in BlocksOf(wreq) THEN wreq.id ELSE acked[b]]

(* The round-robin step over the pool                                      *)
NextThread == (curr + 1) % NThreads

(* Does WriteContig itself submit the request?                             *)
FlushesNowSwapped == flag = "flush_onclose"
FlushesNow == flag = "flush_immediate"

(* The data is in the file.  A cached write hands a request to the next    *)
(* thread of the pool, unless the cache is never flushed.  fd->thread_pool *)
(* is dereferenced without a check.                                        *)
WriteEnqueue ==
  /\ mpc = "pwrite" /\ xfer = wreq.len
  /\ \/ /\ ~ isOpen \/ flag = "flush_none"
        /\ mpc' = "idle" /\ op' = "none"
        /\ Acknowledge
        /\ UNCHANGED <<pen, curr>>
     \/ /\ isOpen /\ flag # "flush_none" /\ ~ pool
        /\ mpc' = "crashed"
        /\ UNCHANGED <<op, pen, curr, acked>>
     \/ /\ isOpen /\ flag # "flush_none" /\ pool
        /\ Acknowledge
        /\ pen' = [pen EXCEPT ![curr] = Append(@, wreq)]
        /\ IF FlushesNow
           THEN mpc' = "wflush" /\ UNCHANGED <<op, curr>>
           ELSE /\ mpc' = "idle" /\ op' = "none"
                /\ curr' = NextThread
  /\ UNCHANGED <<files, isOpen, pool, flag, e10Cache, sub, wait, idx, wreq,
                 xfer, nw, threads, writeErrors, syncErrors>>

(* One iteration of ADIOI_Sync_thread_flush(t): start the Grequest and     *)
(* move the oldest pending request to sub_, with a copy in wait_.          *)
FlushOne(t) ==
  /\ pen[t] # <<>>
  /\ pen' = [pen EXCEPT ![t] = Tail(@)]
  /\ sub' = [sub EXCEPT ![t] = Append(@, Head(pen[t]))]
  /\ wait' = [wait EXCEPT ![t] = Append(@, Head(pen[t]))]

(* The flush loop of a flush_immediate write, then the round-robin step.   *)
WriteFlush ==
  /\ mpc = "wflush"
  /\ \/ /\ FlushOne(curr)
        /\ UNCHANGED <<mpc, op, curr>>
     \/ /\ pen[curr] = <<>>
        /\ curr' = NextThread
        /\ mpc' = "idle" /\ op' = "none"
        /\ UNCHANGED queues
  /\ UNCHANGED <<files, isOpen, pool, flag, e10Cache, idx, wreq, xfer, nw,
                 threads, history>>
-----------------------------------------------------------------------------
(***************************************************************************)
(* ADIOI_GEN_Flush, called by MPI_File_sync, ADIO_Close and the fallback   *)
(* of the collective write.                                                *)
(***************************************************************************)

(* Without a pool or with flush_none there is only an fsync of the global  *)
(* file; else the requests of every thread are submitted and waited for.   *)
FlushBeginFsyncOnly(o) ==
  /\ op' = o /\ idx' = 0
  /\ mpc' = "fsync"
FlushBeginImmediateOnly(o) ==
  /\ op' = o /\ idx' = 0
  /\ mpc' = IF isOpen /\ pool /\ FlushesNow THEN "flush" ELSE "fsync"
FlushBegin(o) ==
  /\ op' = o /\ idx' = 0
  /\ mpc' = IF isOpen /\ pool /\ flag # "flush_none" THEN "flush" ELSE "fsync"

(* MPI_File_sync                                                           *)
Sync ==
  /\ mpc = "idle"
  /\ FlushBegin("sync")
  /\ UNCHANGED <<files, handle, queues, wreq, xfer, nw, threads, history>>

(* First loop: ADIOI_Sync_thread_flush on every thread.                    *)
FlushThreads ==
  /\ mpc = "flush"
  /\ \/ /\ idx < NThreads
        /\ FlushOne(idx)
        /\ UNCHANGED <<mpc, idx>>
     \/ /\ idx < NThreads /\ pen[idx] = <<>>
        /\ idx' = idx + 1
        /\ UNCHANGED <<mpc, queues>>
     \/ /\ idx = NThreads
        /\ idx' = 0 /\ mpc' = "wait"
        /\ UNCHANGED queues
  /\ UNCHANGED <<files, handle, op, wreq, xfer, nw, threads, history>>

(* The request ADIOI_Sync_thread_wait gives to MPI_Wait: the back of wait_ *)
WaitedForOldest(t) == Head(wait[t])
WaitedFor(t) == Back(wait[t])

(* Second loop: ADIOI_Sync_thread_wait on every thread.  MPI_Wait blocks   *)
(* on the youngest request only; then all requests of wait_ are freed.     *)
WaitThreads ==
  /\ mpc = "wait"
  /\ \/ /\ idx < NThreads
        /\ wait[idx] # <<>> => WaitedFor(idx).id \in complete[idx]
        /\ freed' = [freed EXCEPT ![idx] = @ \cup {r.id : r \in Elements(wait[idx])}]
        /\ wait' = [wait EXCEPT ![idx] = <<>>]
        /\ idx' = idx + 1
        /\ UNCHANGED mpc
     \/ /\ idx = NThreads
        /\ mpc' = "flushed"
        /\ UNCHANGED <<idx, wait, freed>>
  /\ UNCHANGED <<files, handle, pen, sub, op, wreq, xfer, nw, tpc, treq, toff,
                 tbuf, complete, history>>

(* The fsync of the global file.  When it fails Flush returns an error,    *)
(* which MPI_File_sync passes on and the closing code drops.               *)
Fsync ==
  /\ mpc = "fsync"
  /\ \/ /\ stable' = global
        /\ mpc' = "flushed"
        /\ UNCHANGED <<op, writeErrors>>
     \/ /\ writeErrors < MaxWriteErrors
        /\ writeErrors' = writeErrors + 1
        /\ IF op = "sync" THEN mpc' = "idle" /\ op' = "none"
                          ELSE mpc' = "closeCache" /\ UNCHANGED op
        /\ UNCHANGED stable
  /\ UNCHANGED <<cache, global, cacheFd, globalFd, cacheFile, locks, handle,
                 queues, idx, wreq, xfer, nw, threads, acked, syncErrors>>

(* Flush returns MPI_SUCCESS: to the application, or to the code that then *)
(* closes the cache file.                                                  *)
FlushReturn ==
  /\ mpc = "flushed"
  /\ IF op = "sync" THEN mpc' = "idle" /\ op' = "none"
                    ELSE mpc' = "closeCache" /\ UNCHANGED op
  /\ UNCHANGED <<files, handle, queues, idx, wreq, xfer, nw, threads, history>>
-----------------------------------------------------------------------------
(***************************************************************************)
(* ADIO_Close, and the part of ADIOI_Exch_and_write that gives the cache   *)
(* up when ADIOI_Cache_alloc fails on any process.                         *)
(***************************************************************************)

(* The collective write cannot allocate its file domain in the cache: it   *)
(* flushes the cache, closes it and stops the pool.                        *)
CacheAllocFail ==
  /\ mpc = "idle" /\ isOpen /\ e10Cache
  /\ FlushBegin("alloc")
  /\ UNCHANGED <<files, handle, queues, wreq, xfer, nw, threads, history>>

Close ==
  /\ mpc = "idle"
  /\ IF isOpen THEN FlushBegin("close")
               ELSE mpc' = "delete" /\ op' = "close" /\ UNCHANGED idx
  /\ UNCHANGED <<files, handle, queues, wreq, xfer, nw, threads, history>>

(* ADIOI_GEN_Close(cache_fd) leaves cache_fd->is_open as it is.            *)
CloseCache ==
  /\ mpc = "closeCache"
  /\ cacheFd' = FALSE
  /\ mpc' = "fini" /\ idx' = 0
  /\ UNCHANGED <<cache, global, stable, globalFd, cacheFile, locks, handle,
                 queues, op, wreq, xfer, nw, threads, history>>

(* ADIOI_Sync_thread_fini: submit a shutdown request ...                   *)
ThreadShutdown ==
  /\ mpc = "fini" /\ pool /\ idx < NThreads
  /\ sub' = [sub EXCEPT ![idx] = Append(@, Shutdown)]
  /\ mpc' = "join"
  /\ UNCHANGED <<files, handle, pen, wait, op, idx, wreq, xfer, nw, threads,
                 history>>

(* ... and join the thread.                                                *)
ThreadJoin ==
  /\ mpc = "join" /\ tpc[idx] = "exited"
  /\ mpc' = "fini" /\ idx' = idx + 1
  /\ UNCHANGED <<files, handle, queues, op, wreq, xfer, nw, threads, history>>

(* ADIOI_Sync_thread_pool_fini returns.  The fallback then disables the    *)
(* hint and the collective write returns with an error.                    *)
PoolFini ==
  /\ mpc = "fini" /\ (pool => idx = NThreads)
  /\ pool' = FALSE
  /\ IF op = "alloc"
     THEN e10Cache' = FALSE /\ mpc' = "idle" /\ op' = "none"
     ELSE mpc' = "delete" /\ UNCHANGED <<e10Cache, op>>
  /\ UNCHANGED <<files, isOpen, curr, flag, queues, idx, wreq, xfer, nw,
                 threads, history>>

(* The rest of ADIO_Close: the process that created the cache file deletes *)
(* it if it is to be discarded, and the global file is closed, which also  *)
(* drops the locks on it.                                                  *)
CloseGlobal ==
  /\ mpc = "delete"
  /\ cacheFile' = (cacheFile /\ ~ Discard)
  /\ globalFd' = FALSE
  /\ locks' = {}
  /\ mpc' = "closed" /\ op' = "none"
  /\ UNCHANGED <<cache, global, stable, cacheFd, handle, queues, idx, wreq,
                 xfer, nw, threads, history>>

(* MPI_File_set_info with e10_cache_flush_flag, which ADIOI_GEN_SetInfo    *)
(* reads only while the cache is enabled.                                  *)
SetInfo(f) ==
  /\ mpc = "idle" /\ e10Cache
  /\ flag' = f
  /\ UNCHANGED <<files, isOpen, pool, curr, e10Cache, queues, main, threads,
                 history>>
-----------------------------------------------------------------------------
(***************************************************************************)
(* ADIOI_Sync_thread_start: the life of a synchronisation thread.          *)
(***************************************************************************)

(* What follows the copying of the first o blocks of request r.            *)
CopyFromButLast(r, o) == IF o + 1 < r.len THEN "pread" ELSE "unlock"
CopyFrom(r, o) == IF o < r.len THEN "pread" ELSE "unlock"

(* front and pop of sub_, and the type of the request.                     *)
ThreadFront(t) ==
  /\ tpc[t] = "front" /\ sub[t] # <<>>
  /\ sub' = [sub EXCEPT ![t] = Tail(@)]
  /\ treq' = [treq EXCEPT ![t] = Head(sub[t])]
  /\ toff' = [toff EXCEPT ![t] = 0]
  /\ tpc' = [tpc EXCEPT ![t] = IF Head(sub[t]).type = "SHUTDOWN" THEN "exited"
                               ELSE CopyFrom(Head(sub[t]), 0)]
  /\ UNCHANGED <<files, handle, pen, wait, main, tbuf, complete, freed, history>>

(* wr_count, and the blocks of the chunk the thread is copying             *)
CountLessOne(t) == Smaller(BufSize, treq[t].len - toff[t]) - 1
Count(t) == Smaller(BufSize, treq[t].len - toff[t])
Chunk(t) == Span(treq[t], toff[t], Count(t))

(* What pread puts into the buffer                                         *)
ReadInto(t) == [b \in Block |-> IF b \in Chunk(t) THEN cache[b] ELSE Garbage]

(* pread of a chunk from the cache file.  Its result is not looked at:     *)
(* when it fails the buffer keeps whatever it held.                        *)
ThreadRead(t) ==
  /\ tpc[t] = "pread"
  /\ \/ /\ cacheFd
        /\ tbuf' = [tbuf EXCEPT ![t] = ReadInto(t)]
        /\ UNCHANGED syncErrors
     \/ /\ \/ ~ cacheFd /\ UNCHANGED syncErrors
           \/ syncErrors < MaxSyncErrors /\ syncErrors' = syncErrors + 1
        /\ tbuf' = [tbuf EXCEPT ![t] = [b \in Block |-> Garbage]]
  /\ tpc' = [tpc EXCEPT ![t] = "pwrite"]
  /\ UNCHANGED <<files, handle, queues, main, treq, toff, complete, freed,
                 acked, writeErrors>>

(* pwrite of the chunk to the global file, whose result is not looked at   *)
(* either: a fault leaves only its first k blocks written.                 *)
ThreadWrite(t) ==
  /\ tpc[t] = "pwrite"
  /\ \E k \in 0 .. Count(t) :
       /\ IF k = Count(t) THEN UNCHANGED syncErrors
          ELSE syncErrors < MaxSyncErrors /\ syncErrors' = syncErrors + 1
       /\ global' = [b \in Block |-> IF b \in Span(treq[t], toff[t], k)
                                     THEN tbuf[t][b] ELSE global[b]]
  /\ toff' = [toff EXCEPT ![t] = @ + Count(t)]
  /\ tpc' = [tpc EXCEPT ![t] = CopyFrom(treq[t], toff[t] + Count(t))]
  /\ UNCHANGED <<cache, stable, cacheFd, globalFd, cacheFile, locks, handle,
                 queues, main, treq, tbuf, complete, freed, acked, writeErrors>>

(* The extent given to ADIOI_UNLOCK: off, not the advanced offset          *)
UnlockedAfterCopy(t) == Span(treq[t], toff[t], treq[t].len)
Unlocked(t) == BlocksOf(treq[t])

(* ADIOI_UNLOCK of the extent the coherent cache locked in WriteContig.    *)
ThreadUnlock(t) ==
  /\ tpc[t] = "unlock"
  /\ locks' = IF Coherent THEN locks \ Unlocked(t) ELSE locks
  /\ tpc' = [tpc EXCEPT ![t] = "complete"]
  /\ UNCHANGED <<cache, global, stable, cacheFd, globalFd, cacheFile, handle,
                 queues, main, treq, toff, tbuf, complete, freed, history>>

(* MPI_Grequest_complete                                                   *)
ThreadComplete(t) ==
  /\ tpc[t] = "complete"
  /\ complete' = [complete EXCEPT ![t] = @ \cup {treq[t].id}]
  /\ tpc' = [tpc EXCEPT ![t] = "front"]
  /\ UNCHANGED <<files, handle, queues, main, treq, toff, tbuf, freed, history>>
-----------------------------------------------------------------------------
(* The calls the application may make next                                 *)
Call ==
  \/ \E e \in Extents : WriteBegin(e)
  \/ Sync
  \/ CacheAllocFail
  \/ Close
  \/ \E f \in NewFlags : SetInfo(f)

(* The steps of a call being executed                                      *)
MainStep ==
  \/ WritePwrite \/ WriteFail \/ WriteEnqueue \/ WriteFlush
  \/ FlushThreads \/ WaitThreads \/ Fsync \/ FlushReturn
  \/ CloseCache \/ ThreadShutdown \/ ThreadJoin \/ PoolFini \/ CloseGlobal

(* A crash of the process takes its threads with it.                       *)
ThreadStep(t) ==
  /\ mpc # "crashed"
  /\ \/ ThreadFront(t) \/ ThreadRead(t) \/ ThreadWrite(t)
     \/ ThreadUnlock(t) \/ ThreadComplete(t)

(* The file is closed, or the process is gone.                             *)
Terminated ==
  /\ mpc \in {"closed", "crashed"}
  /\ UNCHANGED vars

Next == Call \/ MainStep \/ (\E t \in Thread : ThreadStep(t)) \/ Terminated

Spec == Init /\ [][Next]_vars

(* The operating system schedules every thread of the process.             *)
FairSpec == Spec /\ WF_vars(MainStep) /\ \A t \in Thread : WF_vars(ThreadStep(t))
-----------------------------------------------------------------------------
(* Every variable has its type.                                            *)
TypeFiles ==
  /\ cache \in [Block -> Nat] /\ global \in [Block -> Int]
  /\ stable \in [Block -> Int]
  /\ cacheFd \in BOOLEAN /\ globalFd \in BOOLEAN /\ cacheFile \in BOOLEAN
  /\ locks \subseteq Block
TypeHandle ==
  /\ isOpen \in BOOLEAN /\ pool \in BOOLEAN /\ e10Cache \in BOOLEAN
  /\ curr \in Thread /\ flag \in Flags
TypeQueues ==
  /\ pen \in [Thread -> Seq(Request)] /\ sub \in [Thread -> Seq(Request)]
  /\ wait \in [Thread -> Seq(Request)]
TypePlace ==
  /\ mpc \in {"idle", "pwrite", "wflush", "flush", "wait", "fsync", "flushed",
              "closeCache", "fini", "join", "delete", "closed", "crashed"}
  /\ op \in {"none", "write", "sync", "alloc", "close"}
TypeMain == /\ idx \in 0 .. NThreads
            /\ wreq \in Request /\ xfer \in Nat /\ nw \in Nat
TypeTpc ==
  tpc \in [Thread -> {"front", "pread", "pwrite", "unlock", "complete", "exited"}]
TypeThreads ==
  /\ treq \in [Thread -> Request] /\ toff \in [Thread -> Nat]
  /\ tbuf \in [Thread -> [Block -> Int]]
  /\ complete \in [Thread -> SUBSET Nat] /\ freed \in [Thread -> SUBSET Nat]
TypeHistory ==
  acked \in [Block -> Nat] /\ writeErrors \in Nat /\ syncErrors \in Nat
TypeOK ==
  /\ TypeFiles /\ TypeHandle /\ TypeQueues /\ TypePlace /\ TypeMain
  /\ TypeTpc /\ TypeThreads /\ TypeHistory

(* A block whose acknowledged version is not in the global file is still   *)
(* in someone's hands: a pending or submitted request, the part of its     *)
(* request a sync thread has not read, or the chunk in the thread's buffer,*)
(* which then holds that version.  This is why Flush only needs to empty   *)
(* the queues (WriteContig against ADIOI_Sync_thread_start).               *)
DirtyHasOwner ==
  \A b \in Block : global[b] < acked[b] =>
    \E t \in Thread :
      \/ \E r \in Elements(pen[t]) \cup Elements(sub[t]) : b \in BlocksOf(r)
      \/ tpc[t] \in {"pread", "pwrite"}
         /\ b \in Span(treq[t], toff[t], treq[t].len - toff[t])
         /\ (tpc[t] = "pwrite" /\ b \in Chunk(t) => tbuf[t][b] >= acked[b])

(* When ADIOI_GEN_Flush returns, and from there until the file is closed,  *)
(* the global file holds every write that WriteContig acknowledged, or a   *)
(* younger one.                                                            *)
FlushedMeansTransferred ==
  mpc \in {"flushed", "closeCache", "fini", "join", "delete", "closed"}
    => \A b \in Block : global[b] >= acked[b]

(* ADIOI_Sync_thread_wait waits for one request and frees them all: no     *)
(* sync thread holds, or will take from sub_, a request already freed.     *)
NoUseAfterFree ==
  \A t \in Thread :
    /\ \A r \in Elements(sub[t]) : r.type = "SYNC" => r.id \notin freed[t]
    /\ tpc[t] \notin {"front", "exited"} => treq[t].id \notin freed[t]

(* ADIO_Close and the fallback close the cache file before they stop the   *)
(* pool: no thread is then about to read from it.                          *)
CacheOpenWhileRead ==
  \A t \in Thread : tpc[t] = "pread" => cacheFd

(* A thread that ADIOI_Sync_thread_fini has shut down leaves no request in *)
(* its queues, which are then destroyed.                                   *)
NothingAbandoned ==
  PoolStarted => \A t \in Thread : tpc[t] = "exited" =>
    pen[t] = <<>> /\ sub[t] = <<>> /\ wait[t] = <<>>

(* The sync thread never replaces a version in the global file by an older *)
(* one, whatever WriteContig does to the cache file meanwhile.             *)
NeverBack == [][\A b \in Block : global'[b] >= global[b]]_global

(* The cache file holds every acknowledged write or a younger one, through *)
(* failing writes, flag changes and the fallback.                          *)
CacheHoldsAcked == CacheIsOpen => \A b \in Block : cache[b] >= acked[b]

(* The locks that the coherent cache takes in WriteContig are all released *)
(* by the sync threads when Flush returns, as long as the cache is in use. *)
LocksReleased == mpc = "flushed" /\ e10Cache => locks = {}

(* Every MPI-IO call returns.                                              *)
CallReturns == mpc # "idle" ~> mpc \in {"idle", "closed"}

(* As long as the flag is flush_immediate an acknowledged write reaches    *)
(* the global file without any further call.                               *)
EventuallyTransferred ==
  [](flag = "flush_immediate") =>
    \A b \in Block, v \in 1 .. MaxWrites : acked[b] = v ~> global[b] >= v

(* After MPI_File_sync the previous writes are on the storage device: what *)
(* the manual page of MPI_File_sync says (mpi-io/fsync.c).                 *)
SyncReachesStorage ==
  mpc = "flushed" /\ op = "sync" => \A b \in Block : stable[b] >= acked[b]

(* The coherent cache holds the lock of every block whose cached version   *)
(* is not in the global file (README.md on e10_cache).                     *)
LockedWhileDirty ==
  Coherent => \A b \in Block : global[b] < acked[b] => b \in locks

(* After the collective write has given the cache up, writes go to the     *)
(* global file (comment in ADIOI_Exch_and_write).                          *)
FallbackWritesGlobal == mpc = "pwrite" /\ CacheIsOpen /\ ~ e10Cache => ~ isOpen

(* No MPI-IO call brings the process down.                                 *)
NoCrash == mpc # "crashed"

=============================================================================
