----------------------------- MODULE BeegfsCache ------------------------------
(***************************************************************************)
(* The native BeeGFS driver (adio/ad_beegfs): the collective open with its *)
(* fallback to plain BeeGFS, WriteContig, Flush and Close of the processes *)
(* of one cache domain.                                                    *)
(*                                                                         *)
(* Here the file the process opens is the one in the cache file system.    *)
(* There are no sync threads: the requests of a process are handed, range  *)
(* by range, to the BeeGFS cache daemon, which copies them to the global   *)
(* file, and deeper_cache_flush_wait waits for the daemon.  A file is a    *)
(* function from blocks to the number of the pwrite that wrote the block.  *)
(***************************************************************************)
EXTENDS Integers, Sequences, Functions

CONSTANTS
    Ranks, Root,
    NBlocks,
    Extents,   \* the sets of (adjacent) blocks the application writes
    FlushFlags, \* values of e10_cache_flush_flag
    MaxWrites, \* bound: WriteContig calls
    Opens,     \* the opens considered: [mode, coherent, old]
    Faults     \* sets of faults that may occur together, each at most once

Block == 0 .. NBlocks - 1
Flags == {"flush_immediate", "flush_onclose", "flush_none"}

ASSUME BeegfsAssumption ==
    /\ Root \in Ranks /\ Extents \subseteq SUBSET Block /\ {} \notin Extents
    /\ FlushFlags \subseteq Flags
    /\ Opens \subseteq [mode : {"create", "excl", "plain"}, coherent : BOOLEAN, old : BOOLEAN]
    /\ UNION Faults \subseteq {"create", "open", "real", "short", "pwrite", "range", "wait"}

VARIABLES
    hints,   \* of the open: [mode, coherent, old]; old: the file existed before
    exists,  \* the file exists
    \* collective open
    created, \* what the root broadcast after each attempt to create the file
    round,   \* attempts each process knows of
    blksize, \* the root has broadcast fd->blksize
    err,     \* error_code of each process
    \* file handles
    cached,  \* hints->e10_cache = ADIOI_HINT_ENABLE, and then fd->thread_pool
    flag,    \* hints->e10_cache_flush_flag
    pc, op,  \* where each process is, in which call
    blocks,  \* the extent of its current write
    left,    \* what of it pwrite has not transferred
    pen, wait, \* the queues of its thread structure
    \* files
    cache, global, locks,
    daemon,  \* ranges the daemon has not finished: [id, left]
    \* history
    nw, clock,
    written, \* the pwrites of the current write of each process, by block
    acked,   \* the same, for writes that returned and are to be transferred
    lost,    \* blocks of ranges the daemon refused or gave up
    faults   \* kinds of faults that have occurred

opening == <<hints, exists, created, round, blksize, err>>
handle == <<cached, flag>>
queues == <<pen, wait>>
files == <<cache, global, locks, daemon>>
history == <<nw, clock, written, acked, lost, faults>>
vars == <<opening, handle, pc, op, blocks, left, queues, files, history>>

Zero == [b \in Block |-> 0]

Init ==
    /\ hints \in Opens
    /\ exists = hints.old /\ created = << >> /\ blksize = FALSE
    /\ round = [r \in Ranks |-> 0] /\ err = [r \in Ranks |-> "none"]
    /\ cached = [r \in Ranks |-> TRUE]
    /\ flag \in FlushFlags
    /\ pc = [r \in Ranks |-> IF hints.mode = "plain" THEN "open" ELSE "create"]
    /\ op = [r \in Ranks |-> "open"]
    /\ blocks = [r \in Ranks |-> {}] /\ left = blocks
    /\ pen = [r \in Ranks |-> << >>] /\ wait = pen
    /\ cache = Zero /\ global = Zero /\ locks = {} /\ daemon = {}
    /\ nw = 0 /\ clock = 0 /\ lost = {} /\ faults = {}
    /\ written = [r \in Ranks |-> Zero] /\ acked = written

Fault(k) ==
    /\ k \notin faults /\ \E F \in Faults : faults \cup {k} \subseteq F
    /\ faults' = faults \cup {k}
\* The local variables of a WriteContig that is over.
Forget(r) ==
    /\ blocks' = [blocks EXCEPT ![r] = {}] /\ left' = [left EXCEPT ![r] = {}]
    /\ written' = [written EXCEPT ![r] = Zero]
Goto(r, p) == pc' = [pc EXCEPT ![r] = p]
-----------------------------------------------------------------------------
(***************************************************************************)
(* ADIOI_BEEGFS_OpenColl and the end of ADIO_Open.                         *)
(***************************************************************************)

\* The root makes the directory, creates the file and closes it, through the cache
\* while that is enabled.  When the close fails the file may have been created.
CreateResult ==
    \/ /\ hints.mode = "excl" /\ exists
       /\ created' = Append(created, "exist") /\ UNCHANGED <<exists, faults>>
    \/ /\ ~(hints.mode = "excl" /\ exists)
       /\ \/ created' = Append(created, "none") /\ exists' = TRUE /\ UNCHANGED faults
          \/ /\ Fault(IF cached[Root] THEN "create" ELSE "real")
             /\ created' = Append(created, "io") /\ exists' \in {exists, TRUE}

\* What a process does with the result e: retry without the cache.
Revert(r, e) == [cached EXCEPT ![r] = FALSE]

\* Mutant: there is no second attempt.
NoRetry(r, e) == IF e = "none" THEN "open" ELSE "opened"
\* The next place of a process that has got e.
AfterCreate(r, e) ==
    IF e = "none" THEN "open" ELSE IF cached[r] THEN "create" ELSE "opened"

TakeResult(r, e) ==
    /\ round' = [round EXCEPT ![r] = @ + 1]
    /\ err' = [err EXCEPT ![r] = e]
    /\ cached' = IF e # "none" /\ cached[r] THEN Revert(r, e) ELSE cached
    /\ Goto(r, AfterCreate(r, e))

CreateRoot ==
    /\ pc[Root] = "create"
    /\ CreateResult
    /\ TakeResult(Root, created'[Len(created')])
    /\ UNCHANGED <<hints, blksize, flag, op, blocks, left, queues, files,
                   nw, clock, written, acked, lost>>

\* The others get the root's result.
CreateOther(r) ==
    /\ r # Root /\ pc[r] = "create" /\ round[r] < Len(created)
    /\ TakeResult(r, created[round[r] + 1])
    /\ UNCHANGED <<hints, exists, created, blksize, flag, op, blocks, left, queues,
                   files, history>>

\* Everyone makes the directory and prefetches the file, whatever comes of it, and
\* opens the file, twice if need be.
OpenFile(r) ==
    /\ pc[r] = "open"
    /\ \/ /\ err' = [err EXCEPT ![r] = IF exists THEN "none" ELSE "noent"]
          /\ UNCHANGED faults
       \/ /\ exists /\ Fault(IF cached[r] THEN "open" ELSE "real")
          /\ err' = [err EXCEPT ![r] = "io"]
    /\ Goto(r, "bcast")
    /\ UNCHANGED <<hints, exists, created, round, blksize, handle, op, blocks, left,
                   queues, files, nw, clock, written, acked, lost>>

\* Mutant: the root leaves after an error without the broadcast.
SendsIfOpen == blksize' = (err[Root] = "none")
\* The broadcast of the block size: the root sends it whatever the result was.
Sends == blksize' = TRUE

Bcast(r) ==
    /\ pc[r] = "bcast"
    /\ IF r = Root THEN Sends ELSE blksize /\ UNCHANGED blksize
    /\ Goto(r, "opened")
    /\ UNCHANGED <<hints, exists, created, round, err, handle, op, blocks, left, queues,
                   files, history>>

\* ADIO_Open: the maximum of the error codes; the open fails on all or on none.
Opened(r) ==
    /\ pc[r] = "opened" /\ \A q \in Ranks : pc[q] \notin {"create", "open", "bcast"}
    /\ Goto(r, IF \A q \in Ranks : err[q] = "none" THEN "idle" ELSE "failed")
    /\ op' = [op EXCEPT ![r] = "none"]
    /\ UNCHANGED <<opening, handle, blocks, left, queues, files, history>>
-----------------------------------------------------------------------------
(***************************************************************************)
(* ADIOI_BEEGFS_WriteContig                                                *)
(***************************************************************************)
WriteBegin(r, e) ==
    /\ pc[r] = "idle" /\ nw < MaxWrites
    /\ nw' = nw + 1
    /\ blocks' = [blocks EXCEPT ![r] = e] /\ left' = [left EXCEPT ![r] = e]
    /\ op' = [op EXCEPT ![r] = "write"]
    /\ Goto(r, IF cached[r] /\ hints.coherent THEN "lock" ELSE "pwrite")
    /\ UNCHANGED <<opening, handle, queues, files, clock, written, acked, lost, faults>>

\* Mutant: the first block only is locked.
LockedFirst(r) == {<<r, b>> : b \in {x \in blocks[r] : \A y \in blocks[r] : x <= y}}
\* ADIOI_WRITE_LOCK of the extent.
Locked(r) == {r} \X blocks[r]

Lock(r) ==
    /\ pc[r] = "lock"
    /\ \A q \in Ranks \ {r}, b \in blocks[r] : <<q, b>> \notin locks
    /\ locks' = locks \cup Locked(r)
    /\ Goto(r, "pwrite")
    /\ UNCHANGED <<opening, handle, op, blocks, left, queues, cache, global, daemon, history>>

\* One pwrite of the loop, which may stop short.
Pwrite(r) ==
    \E last \in left[r] :
        LET now == {b \in left[r] : b <= last}
            stamp(f) == [b \in Block |-> IF b \in now THEN clock + 1 ELSE f[b]]
        IN /\ pc[r] = "pwrite"
           /\ left' = [left EXCEPT ![r] = @ \ now]
           /\ clock' = clock + 1
           /\ cache' = IF cached[r] THEN stamp(cache) ELSE cache
           /\ global' = IF cached[r] THEN global ELSE stamp(global)
           /\ written' = [written EXCEPT ![r] = stamp(@)]
           /\ IF now = left[r] THEN UNCHANGED faults ELSE Fault("short")
           /\ UNCHANGED <<opening, handle, pc, op, blocks, queues, locks, daemon,
                          nw, acked, lost>>

\* WriteContig returns the error; its lock stays.
PwriteFails(r) ==
    /\ pc[r] = "pwrite" /\ left[r] # {} /\ Fault("pwrite")
    /\ Goto(r, "idle") /\ op' = [op EXCEPT ![r] = "none"] /\ Forget(r)
    /\ UNCHANGED <<opening, handle, queues, files, nw, clock, acked, lost>>

\* Mutant: a request is put in the queue only if it is flushed at once.
QueuesImmediate(r) == cached[r] /\ flag = "flush_immediate"
\* Does the write leave a request?
Queues(r) == cached[r] /\ flag # "flush_none"

Request(r) == [id |-> nw, blocks |-> blocks[r]]

FlushesNow(r) == flag = "flush_immediate"

Enqueue(r) ==
    /\ pc[r] = "pwrite" /\ left[r] = {}
    /\ acked' = IF cached[r] /\ flag = "flush_none" THEN acked
                ELSE [acked EXCEPT ![r] = [b \in Block |->
                         IF b \in blocks[r] THEN written[r][b] ELSE @[b]]]
    /\ pen' = IF Queues(r) THEN [pen EXCEPT ![r] = Append(@, Request(r))]
              ELSE pen
    /\ LET now == Queues(r) /\ FlushesNow(r)
       IN /\ Goto(r, IF now THEN "wflush" ELSE "idle")
          /\ op' = IF now THEN op ELSE [op EXCEPT ![r] = "none"]
    /\ Forget(r)
    /\ UNCHANGED <<opening, handle, wait, files, nw, clock, lost, faults>>

\* ADIOI_BEEGFS_Sync_thread_start gives the range to the daemon, which may refuse it.
StartRange(r, q) ==
    \/ daemon' = daemon \cup {[rank |-> r, id |-> q.id, left |-> q.blocks]}
       /\ UNCHANGED <<lost, faults>>
    \/ Fault("range") /\ lost' = lost \cup q.blocks /\ UNCHANGED daemon

\* One iteration of ADIOI_BEEGFS_Sync_thread_flush, which drops the error code.
FlushOne(r) ==
    LET q == Head(pen[r])
    IN /\ pen[r] # << >>
       /\ pen' = [pen EXCEPT ![r] = Tail(@)]
       /\ wait' = [wait EXCEPT ![r] = Append(@, q)]
       /\ StartRange(r, q)

\* The flush of a flush_immediate write.
WriteFlush(r) ==
    /\ pc[r] = "wflush"
    /\ \/ FlushOne(r) /\ UNCHANGED <<pc, op>>
       \/ /\ pen[r] = << >> /\ Goto(r, "idle") /\ op' = [op EXCEPT ![r] = "none"]
          /\ UNCHANGED <<pen, wait, daemon, lost, faults>>
    /\ UNCHANGED <<opening, handle, blocks, left, cache, global, locks,
                   nw, clock, written, acked>>
-----------------------------------------------------------------------------
(***************************************************************************)
(* ADIOI_BEEGFS_Flush, called by MPI_File_sync and ADIO_Close, and Close.  *)
(***************************************************************************)

\* Without thread structure or with flush_none there is an fsync only; the close
\* does not even call Flush without the structure.
FlushBegin(r, o) ==
    /\ pc[r] = "idle"
    /\ op' = [op EXCEPT ![r] = o]
    /\ Goto(r, IF cached[r] /\ flag # "flush_none" THEN "flush" ELSE "flushed")
    /\ UNCHANGED <<opening, handle, blocks, left, queues, files, history>>

Flush(r) ==
    /\ pc[r] = "flush"
    /\ \/ FlushOne(r) /\ UNCHANGED pc
       \/ pen[r] = << >> /\ Goto(r, "wait") /\ UNCHANGED <<pen, wait, daemon, lost, faults>>
    /\ UNCHANGED <<opening, handle, op, blocks, left, cache, global, locks,
                   nw, clock, written, acked>>

\* deeper_cache_flush_wait: the daemon has finished with the file.
Waited == daemon = {}

\* The locks of all requests of wait_ are dropped.
Unlocked(r) == {r} \X UNION {q.blocks : q \in Range(wait[r])}

\* ADIOI_BEEGFS_Sync_thread_wait.  An error of the daemon is only printed.
Wait(r) ==
    /\ pc[r] = "wait"
    /\ \/ Waited /\ UNCHANGED <<lost, faults>>
       \/ /\ daemon # {} /\ Fault("wait")
          /\ lost' = lost \cup UNION {d.left : d \in daemon}
    /\ locks' = IF hints.coherent THEN locks \ Unlocked(r) ELSE locks
    /\ wait' = [wait EXCEPT ![r] = << >>]
    /\ Goto(r, "flushed")
    /\ UNCHANGED <<opening, handle, op, blocks, left, pen, cache, global, daemon,
                   nw, clock, written, acked>>

\* MPI_File_sync returns; ADIO_Close frees the queues and closes the file, which
\* drops the locks of the process.
FlushReturn(r) ==
    /\ pc[r] = "flushed"
    /\ op' = [op EXCEPT ![r] = "none"]
    /\ IF op[r] = "sync"
       THEN Goto(r, "idle") /\ UNCHANGED <<pen, wait, locks>>
       ELSE /\ Goto(r, "closed")
            /\ pen' = [pen EXCEPT ![r] = << >>] /\ wait' = [wait EXCEPT ![r] = << >>]
            /\ locks' = {l \in locks : l[1] # r}
    /\ UNCHANGED <<opening, handle, blocks, left, cache, global, daemon, history>>

\* The daemon copies a block, as the cache has it then.
Copy ==
    \E d \in daemon, b \in Block :
        /\ b \in d.left
        /\ global' = [global EXCEPT ![b] = cache[b]]
        /\ daemon' = (daemon \ {d}) \cup
                     {x \in {[d EXCEPT !.left = @ \ {b}]} : x.left # {}}
        /\ UNCHANGED <<opening, handle, pc, op, blocks, left, queues, cache, locks, history>>
-----------------------------------------------------------------------------
Step(r) ==
    \/ (r = Root /\ CreateRoot) \/ CreateOther(r) \/ OpenFile(r) \/ Bcast(r) \/ Opened(r)
    \/ Lock(r) \/ Pwrite(r) \/ PwriteFails(r) \/ Enqueue(r) \/ WriteFlush(r)
    \/ Flush(r) \/ Wait(r) \/ FlushReturn(r)

Call(r) ==
    \/ \E e \in Extents : WriteBegin(r, e)
    \/ FlushBegin(r, "sync") \/ FlushBegin(r, "close")

Next == Copy \/ \E r \in Ranks : Step(r) \/ Call(r)

\* Processes and daemon run; the application need not call anything.
Spec == Init /\ [][Next]_vars /\ WF_vars(Copy) /\ \A r \in Ranks : WF_vars(Step(r))
-----------------------------------------------------------------------------
Requests == [id : 1 .. MaxWrites, blocks : Extents]

TypeOK ==
    /\ exists \in BOOLEAN /\ blksize \in BOOLEAN
    /\ created \in Seq({"none", "exist", "io"}) /\ round \in [Ranks -> 0 .. 2]
    /\ err \in [Ranks -> {"none", "exist", "noent", "io"}]
    /\ cached \in [Ranks -> BOOLEAN] /\ flag \in Flags
    /\ pc \in [Ranks -> {"create", "open", "bcast", "opened", "failed", "idle", "lock",
                         "pwrite", "wflush", "flush", "wait", "flushed", "closed"}]
    /\ op \in [Ranks -> {"open", "write", "sync", "close", "none"}]
    /\ \A r \in Ranks : left[r] \subseteq blocks[r] /\ blocks[r] \subseteq Block
    /\ pen \in [Ranks -> Seq(Requests)] /\ wait \in [Ranks -> Seq(Requests)]
    /\ locks \subseteq Ranks \X Block
    /\ \A d \in daemon : d.left # {} /\ d.left \subseteq Block
    /\ cache \in [Block -> 0 .. clock] /\ global \in [Block -> 0 .. clock]
    /\ lost \subseteq Block /\ faults \subseteq UNION Faults

\* The file is open.
Running(r) == pc[r] \notin {"create", "open", "bcast", "opened", "failed"}

\* The processes that have the file open use the cache all or none: they take the
\* same turns through the retry of OpenColl (ad_beegfs_opencoll.c:147).
CacheAgreement ==
    \A r, q \in Ranks : Running(r) /\ Running(q) => cached[r] = cached[q]

\* A first attempt, through the cache, has failed and left the file it has created.
LeftBehind == ~hints.old /\ exists /\ "create" \in faults

\* A cache that fails while the file is created fails the open in one case only: with
\* MPI_MODE_EXCL, which the second attempt keeps, when the first has left the file.
\* Otherwise the open fails only if an open of the file fails, or with a file that
\* was there before and MPI_MODE_EXCL, or with none and no MPI_MODE_CREATE
\* (ad_beegfs_opencoll.c:147).
FallbackOpens ==
    \A r \in Ranks : pc[r] = "failed" =>
        \/ faults \cap {"open", "real"} # {}
        \/ hints.mode = "excl" /\ (hints.old \/ LeftBehind)
        \/ hints.mode = "plain" /\ ~hints.old

\* The same without the exception, as the message at ad_beegfs_opencoll.c:142
\* has it ("reverting to standard implementation"), which the code does not keep.
CacheFailureHidden ==
    \A r \in Ranks : pc[r] = "failed" =>
        \/ faults \cap {"open", "real"} # {}
        \/ hints.mode = "excl" /\ hints.old
        \/ hints.mode = "plain" /\ ~hints.old

\* When Flush returns, what the process has written is in the global file, except for
\* ranges the daemon refused or gave up, although Flush waits for the daemon and
\* not for its own requests (ad_beegfs_flush.c:32).
FlushedMeansTransferred ==
    \A r \in Ranks : pc[r] = "flushed" =>
        \A b \in Block : global[b] >= acked[r][b] \/ b \in lost

\* With the coherent cache a process holds the lock of each block it has written
\* until the block is in the global file (ad_beegfs_write.c:46 and the unlocks in
\* ADIOI_BEEGFS_Sync_thread_wait).
LockedWhileDirty ==
    \A r \in Ranks : hints.coherent /\ cached[r] /\ pc[r] # "closed" =>
        \A b \in Block \ lost : global[b] < acked[r][b] => <<r, b>> \in locks

\* A flush leaves no lock behind, unless a write failed or the cache is never flushed
\* (ad_beegfs_cache_sync.c:107).
LocksDropped ==
    \A r \in Ranks : pc[r] = "flushed" /\ "pwrite" \notin faults /\ flag # "flush_none" =>
        \A b \in Block : <<r, b>> \notin locks

\* The open, MPI_File_sync and MPI_File_close return on every process, whatever fails
\* and whatever the others do: the processes meet in the same broadcasts of OpenColl,
\* and a flush needs nobody but the daemon (ad_beegfs_opencoll.c:139, 256).
CallReturns ==
    LET waiting(r) == op[r] \in {"open", "sync", "close"}
    IN \A r \in Ranks : waiting(r) ~> ~waiting(r)

\* The process has written something that is not in the global file.
Behind(r) == \E b \in Block \ lost : global[b] < acked[r][b]

\* With flush_immediate a write reaches the global file without another call
\* (ad_beegfs_write.c:99).
EventuallyTransferred ==
    flag = "flush_immediate" => \A r \in Ranks : Behind(r) ~> ~Behind(r)
=============================================================================
