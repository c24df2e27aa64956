------------------------------ MODULE CacheOpen ------------------------------
(***************************************************************************)
(* Opening and closing a file collectively: MPI_File_open, ADIO_Open,      *)
(* ADIOI_GEN_OpenColl with the cache file and the thread pool, and         *)
(* MPI_File_close and ADIO_Close, on all processes of a communicator.      *)
(*                                                                         *)
(* A file is named by its path and identified by the inode the path leads  *)
(* to; 0 is no file.  All reductions and barriers are one step of all      *)
(* processes; a broadcast lets its root go on.  What the threads do while  *)
(* the file is open is the subject of CacheSync.                           *)
(***************************************************************************)
EXTENDS Integers

CONSTANTS
  Rank,       \* processes
  Node,       \* compute nodes, each with its own cache directory
  NodeOf,     \* the node of each process
  Aggs,       \* aggregators, fd->is_agg
  Root,       \* ranklist[0]
  CbWrite,    \* hint romio_cb_write is "enable"
  Deferred,   \* deferred open
  FlushNone,  \* hint e10_cache_flush_flag is "flush_none"
  Discard,    \* hint e10_cache_discard_flag
  NThreads,   \* hint e10_cache_threads
  Modes,      \* access modes: sets of "create", "excl" and "delete"
  MaxOpens,   \* bound: collective opens
  MaxFaults   \* bound: failing open and pthread_create calls

ASSUME OpenAssumption ==
  /\ NodeOf \in [Rank -> Node]
  /\ Root \in Aggs /\ Aggs \subseteq Rank
  /\ {CbWrite, Deferred, FlushNone, Discard} \subseteq BOOLEAN
  /\ NThreads \in Nat /\ MaxOpens \in Nat /\ MaxFaults \in Nat
  /\ Modes \subseteq SUBSET {"create", "excl", "delete"}

VARIABLES
  at,         \* where each process is
  mode,       \* the access mode it opens with
  err,        \* its error_code
  e10,        \* fd->hints->e10_cache is enabled
  cacheFd,    \* inode of cache_fd->fd_sys
  cacheOpen,  \* cache_fd->is_open
  creator,    \* cache_fd->access_mode has ADIO_CREATE
  pool,       \* running sync threads, -1 for no thread_pool
  fd,         \* inode of fd->fd_sys
  posted,     \* what the root has broadcast, "none" before
  path,       \* inode of the global file's path
  cachePath,  \* inode of the cache file's path on each node
  inodes,     \* inodes used so far
  opens,      \* collective opens so far
  faults,     \* faults so far
  excuse      \* history: the open in progress met a problem with the global file

vars == <<at, mode, err, e10, cacheFd, cacheOpen, creator, pool, fd, posted,
          path, cachePath, inodes, opens, faults, excuse>>
cacheVars == <<e10, cacheFd, cacheOpen, creator, pool, cachePath>>
globalVars == <<fd, posted, path, excuse>>
bounds == <<opens, faults>>

Init ==
  /\ at = [p \in Rank |-> "closed"]
  /\ mode = [p \in Rank |-> {}]
  /\ err = [p \in Rank |-> "ok"]
  /\ e10 = [p \in Rank |-> TRUE]
  /\ cacheFd = [p \in Rank |-> 0]
  /\ cacheOpen = [p \in Rank |-> FALSE]
  /\ creator = [p \in Rank |-> FALSE]
  /\ pool = [p \in Rank |-> -1]
  /\ fd = [p \in Rank |-> 0]
  /\ posted = [w \in {"created", "blksize"} |-> "none"]
  /\ path = 0
  /\ cachePath = [n \in Node |-> 0]
  /\ inodes = 0 /\ opens = 0 /\ faults = 0
  /\ excuse = FALSE

AllAt(place) == \A p \in Rank : at[p] = place
Go(p, place) == at' = [at EXCEPT ![p] = place]
Fault == faults < MaxFaults /\ faults' = faults + 1
NoFault == UNCHANGED faults

(* Inodes used when inode i is. *)
Used(i) == IF i > inodes THEN i ELSE inodes

------------------------------------------------------------------------------
(* MPI_File_open: each process brings its access mode to a reduction.      *)
Open(p) ==
  /\ at[p] = "closed" /\ opens < MaxOpens
  /\ \E m \in Modes : mode' = [mode EXCEPT ![p] = m]
  /\ Go(p, "amode")
  /\ UNCHANGED <<err, cacheVars, globalVars, inodes, bounds>>

(* ADIO_Open starts from a fresh file handle. *)
FreshHandle ==
  /\ err' = [p \in Rank |-> "ok"]
  /\ e10' = [p \in Rank |-> TRUE]
  /\ cacheOpen' = [p \in Rank |-> FALSE]
  /\ creator' = [p \in Rank |-> FALSE]

SameAmode ==
  /\ AllAt("amode")
  /\ opens' = opens + 1
  /\ at' = [p \in Rank |-> IF \A q, s \in Rank : mode[q] = mode[s]
                           THEN "cache" ELSE "closed"]
  /\ FreshHandle
  /\ posted' = [w \in DOMAIN posted |-> "none"]
  /\ excuse' = FALSE
  /\ UNCHANGED <<mode, cacheFd, pool, fd, path, cachePath, inodes, faults>>

(* OpenColl: open the cache file with ADIO_CREATE | ADIO_RDWR.  Without    *)
(* ADIO_EXCL, ADIOI_UFS_Open does not return MPI_ERR_FILE_EXISTS.          *)
OpenCache(p) ==
  /\ at[p] = "cache"
  /\ creator' = [creator EXCEPT ![p] = TRUE]
  /\ LET n == NodeOf[p]
         ino == IF cachePath[n] # 0 THEN cachePath[n] ELSE inodes + 1
     IN \/ /\ NoFault
           /\ cacheFd' = [cacheFd EXCEPT ![p] = ino]
           /\ cachePath' = [cachePath EXCEPT ![n] = ino]
           /\ inodes' = Used(ino)
           /\ UNCHANGED err
        \/ /\ Fault
           /\ err' = [err EXCEPT ![p] = "io"]
           /\ UNCHANGED <<cacheFd, cachePath, inodes>>
  /\ Go(p, "pool")
  /\ UNCHANGED <<mode, e10, cacheOpen, pool, globalVars, opens>>

(* With collective buffering only aggregators get a thread pool. *)
HasPool(p) == err[p] = "ok" /\ ~ FlushNone /\ (CbWrite => p \in Aggs)

(* ADIOI_Sync_thread_pool_init: a failing pthread_create ends the loop. *)
StartPool(p) ==
  /\ at[p] = "pool"
  /\ \/ HasPool(p) /\ NoFault /\ UNCHANGED err
        /\ pool' = [pool EXCEPT ![p] = NThreads]
     \/ HasPool(p) /\ Fault
        /\ err' = [err EXCEPT ![p] = "thread"]
        /\ \E i \in 0 .. NThreads - 1 : pool' = [pool EXCEPT ![p] = i]
     \/ ~ HasPool(p) /\ NoFault /\ UNCHANGED <<pool, err>>
  /\ Go(p, "agree")
  /\ UNCHANGED <<mode, e10, cacheFd, cacheOpen, creator, cachePath,
                 globalVars, inodes, opens>>

AgreeAlone ==
  /\ AllAt("agree")
  /\ at' = [p \in Rank |-> IF err[p] = "ok" THEN "create" ELSE "revert"]
  /\ cacheOpen' = [p \in Rank |-> err[p] = "ok"]
  /\ UNCHANGED <<mode, err, e10, cacheFd, creator, pool, cachePath, globalVars,
                 inodes, bounds>>
(* The reduction after which all use the cache or none does. *)
Agree ==
  /\ AllAt("agree")
  /\ LET good == \A p \in Rank : err[p] = "ok"
     IN /\ at' = [p \in Rank |-> IF good THEN "create" ELSE "revert"]
        /\ cacheOpen' = [p \in Rank |-> good]
  /\ UNCHANGED <<mode, err, e10, cacheFd, creator, pool, cachePath, globalVars,
                 inodes, bounds>>

(* Undo the cache on this process; ADIO_Delete overwrites error_code.      *)
Revert(p) ==
  /\ at[p] = "revert"
  /\ LET undo == err[p] \in {"ok", "thread"}
         n == NodeOf[p]
         deletes == undo /\ creator[p] /\ Discard
     IN /\ cacheFd' = [cacheFd EXCEPT ![p] = IF undo THEN 0 ELSE @]
        /\ cachePath' = [cachePath EXCEPT ![n] = IF deletes THEN 0 ELSE @]
        /\ err' = [err EXCEPT ![p] =
             IF deletes /\ cachePath[n] = 0 THEN "io" ELSE IF undo THEN "ok" ELSE @]
        /\ pool' = [pool EXCEPT ![p] = IF undo THEN -1 ELSE @]
  /\ e10' = [e10 EXCEPT ![p] = FALSE]
  /\ Go(p, "create")
  /\ UNCHANGED <<mode, cacheOpen, creator, globalVars, inodes, bounds>>

------------------------------------------------------------------------------
CreateRootSilent ==
  /\ at[Root] = "create" /\ "create" \in mode[Root]
  /\ LET exists == "excl" \in mode[Root] /\ path # 0
         Outcome(e) == /\ err' = [err EXCEPT ![Root] = e]
                       /\ posted' = [posted EXCEPT !["created"] = IF e = "ok" THEN e ELSE @]
                       /\ Go(Root, IF e = "ok" THEN "open" ELSE "final")
     IN \/ /\ ~ exists /\ NoFault
           /\ path' = IF path # 0 THEN path ELSE inodes + 1
           /\ inodes' = Used(path')
           /\ Outcome("ok") /\ UNCHANGED excuse
        \/ /\ exists /\ NoFault
           /\ Outcome("exists") /\ excuse' = TRUE
           /\ UNCHANGED <<path, inodes>>
        \/ /\ ~ exists /\ Fault
           /\ Outcome("io") /\ excuse' = TRUE
           /\ UNCHANGED <<path, inodes>>
  /\ UNCHANGED <<mode, cacheVars, fd, opens>>
(* Only the root creates the file; it broadcasts the outcome and closes    *)
(* the file again, which is taken to succeed.                              *)
CreateRoot ==
  /\ at[Root] = "create" /\ "create" \in mode[Root]
  /\ LET exists == "excl" \in mode[Root] /\ path # 0
         Outcome(e) == /\ err' = [err EXCEPT ![Root] = e]
                       /\ posted' = [posted EXCEPT !["created"] = e]
                       /\ Go(Root, IF e = "ok" THEN "open" ELSE "final")
     IN \/ /\ ~ exists /\ NoFault
           /\ path' = IF path # 0 THEN path ELSE inodes + 1
           /\ inodes' = Used(path')
           /\ Outcome("ok") /\ UNCHANGED excuse
        \/ /\ exists /\ NoFault
           /\ Outcome("exists") /\ excuse' = TRUE
           /\ UNCHANGED <<path, inodes>>
        \/ /\ ~ exists /\ Fault
           /\ Outcome("io") /\ excuse' = TRUE
           /\ UNCHANGED <<path, inodes>>
  /\ UNCHANGED <<mode, cacheVars, fd, opens>>

CreateOtherAtOnce(p) ==
  /\ p # Root /\ at[p] = "create" /\ "create" \in mode[p]
  /\ Go(p, IF err[p] = "ok" THEN "open" ELSE "final")
  /\ UNCHANGED <<mode, err, cacheVars, globalVars, inodes, bounds>>
CreateOther(p) ==
  /\ p # Root /\ at[p] = "create" /\ "create" \in mode[p]
  /\ posted["created"] # "none"
  /\ err' = [err EXCEPT ![p] = posted["created"]]
  /\ Go(p, IF err'[p] = "ok" THEN "open" ELSE "final")
  /\ UNCHANGED <<mode, cacheVars, globalVars, inodes, bounds>>

NoCreate(p) ==
  /\ at[p] = "create" /\ "create" \notin mode[p]
  /\ Go(p, "open")
  /\ UNCHANGED <<mode, err, cacheVars, globalVars, inodes, bounds>>

(* A deferred open ends here on a process that is no aggregator. *)
DeferOpen(p) ==
  /\ at[p] = "open" /\ Deferred /\ p \notin Aggs
  /\ err' = [err EXCEPT ![p] = "ok"]
  /\ Go(p, "bcast")
  /\ UNCHANGED <<mode, cacheVars, globalVars, inodes, bounds>>

(* The file is opened without ADIO_CREATE, and once more after an error.   *)
OpenGlobal(p) ==
  /\ at[p] = "open" /\ ~ (Deferred /\ p \notin Aggs)
  /\ \/ /\ path # 0 /\ NoFault
        /\ fd' = [fd EXCEPT ![p] = path]
        /\ err' = [err EXCEPT ![p] = "ok"]
        /\ UNCHANGED excuse
     \/ /\ IF path = 0 THEN NoFault ELSE Fault
        /\ err' = [err EXCEPT ![p] = "io"]
        /\ excuse' = TRUE
        /\ UNCHANGED fd
  /\ Go(p, "bcast")
  /\ UNCHANGED <<mode, cacheVars, posted, path, inodes, opens>>

(* The broadcast of the block size. *)
Bcast(p) ==
  /\ at[p] = "bcast"
  /\ IF p = Root THEN posted' = [posted EXCEPT !["blksize"] = "ok"]
     ELSE posted["blksize"] # "none" /\ UNCHANGED posted
  /\ Go(p, "final")
  /\ UNCHANGED <<mode, err, cacheVars, fd, path, excuse, inodes, bounds>>

(* ADIO_Open: one failure fails all, those who opened the file close it.   *)
(* A cache that was set up is not undone any more: ADIO_Open frees the     *)
(* handle, and no later call reaches the descriptor and the threads that   *)
(* are left behind.  The fields here are those of the handle.              *)
Final ==
  /\ AllAt("final")
  /\ LET good == \A p \in Rank : err[p] = "ok"
     IN /\ at' = [p \in Rank |-> IF good THEN "in_use" ELSE "closed"]
        /\ fd' = [p \in Rank |-> IF good THEN fd[p] ELSE 0]
        /\ cacheOpen' = [p \in Rank |-> good /\ cacheOpen[p]]
        /\ cacheFd' = [p \in Rank |-> IF good THEN cacheFd[p] ELSE 0]
        /\ pool' = [p \in Rank |-> IF good THEN pool[p] ELSE -1]
  /\ UNCHANGED <<mode, err, e10, creator, cachePath, posted, path, excuse,
                 inodes, bounds>>

------------------------------------------------------------------------------
(* MPI_File_close, up to its barrier. *)
Close(p) ==
  /\ at[p] = "in_use"
  /\ Go(p, "closing")
  /\ UNCHANGED <<mode, err, cacheVars, globalVars, inodes, bounds>>

ClosingBarrier ==
  /\ AllAt("closing")
  /\ at' = [p \in Rank |-> "close_cache"]
  /\ UNCHANGED <<mode, err, cacheVars, globalVars, inodes, bounds>>

(* ADIO_Close: flush, close the cache file, stop the threads, delete it. *)
CloseCacheOf(p) ==
  /\ at[p] = "close_cache"
  /\ cacheFd' = [cacheFd EXCEPT ![p] = IF cacheOpen[p] THEN 0 ELSE @]
  /\ pool' = [pool EXCEPT ![p] = IF cacheOpen[p] THEN -1 ELSE @]
  /\ cacheOpen' = [cacheOpen EXCEPT ![p] = FALSE]
  /\ cachePath' = [cachePath EXCEPT ![NodeOf[p]] =
       IF creator[p] /\ Discard THEN 0 ELSE @]
  /\ creator' = [creator EXCEPT ![p] = FALSE]
  /\ Go(p, "close_global")
  /\ UNCHANGED <<mode, err, e10, globalVars, inodes, bounds>>

(* ... and the file itself; the root deletes it if it is to be deleted, and *)
(* a barrier keeps the others from leaving before.                          *)
CloseGlobalOf(p) ==
  /\ at[p] = "close_global"
  /\ fd' = [fd EXCEPT ![p] = 0]
  /\ path' = IF "delete" \in mode[p] /\ p = Root THEN 0 ELSE path
  /\ Go(p, IF "delete" \in mode[p] THEN "deleted" ELSE "closed")
  /\ UNCHANGED <<mode, err, cacheVars, posted, excuse, inodes, bounds>>

DeletedBarrier ==
  /\ AllAt("deleted")
  /\ at' = [p \in Rank |-> "closed"]
  /\ UNCHANGED <<mode, err, cacheVars, globalVars, inodes, bounds>>

------------------------------------------------------------------------------
OpenStep(p) ==
  \/ OpenCache(p) \/ StartPool(p) \/ Revert(p) \/ CreateOther(p) \/ NoCreate(p)
  \/ DeferOpen(p) \/ OpenGlobal(p) \/ Bcast(p)
CloseStep(p) == CloseCacheOf(p) \/ CloseGlobalOf(p)
Collective == SameAmode \/ Agree \/ CreateRoot \/ Final \/ ClosingBarrier \/ DeletedBarrier

Next ==
  \/ \E p \in Rank : Open(p) \/ OpenStep(p) \/ Close(p) \/ CloseStep(p)
  \/ Collective

(* Processes keep running, and all call the collective operations. *)
Spec ==
  /\ Init /\ [][Next]_vars
  /\ \A p \in Rank : WF_vars(Open(p) \/ OpenStep(p) \/ CloseStep(p))
  /\ WF_vars(Collective)

------------------------------------------------------------------------------
Places == {"closed", "amode", "cache", "pool", "agree", "revert", "create", "open",
           "bcast", "final", "in_use", "closing", "close_cache",
           "close_global", "deleted"}

(* Types; threads and a cache descriptor exist only on a process whose     *)
(* file is open or being opened or closed.                                 *)
TypeOK ==
  /\ at \in [Rank -> Places]
  /\ mode \in [Rank -> Modes \union {{}}]
  /\ err \in [Rank -> {"ok", "io", "thread", "exists"}]
  /\ e10 \in [Rank -> BOOLEAN] /\ creator \in [Rank -> BOOLEAN]
  /\ cacheFd \in [Rank -> 0 .. inodes] /\ fd \in [Rank -> 0 .. inodes]
  /\ cacheOpen \in [Rank -> BOOLEAN]
  /\ pool \in [Rank -> -1 .. NThreads]
  /\ path \in 0 .. inodes /\ cachePath \in [Node -> 0 .. inodes]
  /\ \A p \in Rank : at[p] = "closed" => pool[p] = -1 /\ cacheFd[p] = 0 /\ fd[p] = 0

InUse(p) == at[p] \in {"in_use", "closing"}

(* The cache is used by all processes or by none (ad_opencoll.c:113).  A   *)
(* process that does not use it has no cache descriptor and no thread left *)
(* over from its attempt, and its hint says so.                            *)
CacheAgreement ==
  \A p \in Rank : InUse(p) =>
    /\ \A q \in Rank : InUse(q) => cacheOpen[p] = cacheOpen[q]
    /\ e10[p] = cacheOpen[p]
    /\ cacheOpen[p] = (cacheFd[p] # 0)
    /\ ~ cacheOpen[p] => pool[p] = -1

(* README.md:66: "If the local open fails the standard open is performed." *)
(* An open fails only for a reason of the global file, whatever happens to *)
(* the cache files and the threads, on whichever process.                  *)
FallbackOpens == [][Final /\ ~ excuse => at'[Root] = "in_use"]_vars

(* When MPI_File_close with ADIO_DELETE_ON_CLOSE returns on any process    *)
(* the file is gone, although only the root deletes it.                    *)
DeletedAfterClose ==
  [][\A p \in Rank :
       at[p] \in {"close_global", "deleted"} /\ at'[p] = "closed" /\ "delete" \in mode[p]
         => path' = 0]_vars

(* No process is left waiting in a collective operation of the open.       *)
OpenReturns ==
  \A p \in Rank : at[p] = "cache" ~> at[p] \in {"in_use", "closed"}

(* ad_opencoll.c:88: "for every node only one proc will have ADIO_CREATE   *)
(* flag on".                                                               *)
OneCreator ==
  \A p, q \in Rank : p # q /\ NodeOf[p] = NodeOf[q] /\ InUse(p) /\ InUse(q)
    => ~ (creator[p] /\ creator[q])
==============================================================================
