----------------------------- MODULE CacheSyncInv -----------------------------
(***************************************************************************)
(* The inductive invariants behind the properties of CacheSync.            *)
(***************************************************************************)
EXTENDS CacheSync

(* The thread works on a request.                                          *)
Busy(t) == tpc[t] \in {"pread", "pwrite", "unlock", "complete"}
Work(t) == IF Busy(t) THEN {treq[t]} ELSE {}

(* The pool is there and nobody has started to shut it down.               *)
Live == pool /\ mpc \notin {"fini", "join"}

(* Identities handed out to requests so far: the current WriteContig has   *)
(* one, but no request yet.                                                *)
Issued == IF mpc = "pwrite" THEN nw - 1 ELSE nw
-----------------------------------------------------------------------------
(* The control state of the main thread: what the handle says when the     *)
(* main thread is at a given place.                                        *)
ControlInv ==
  /\ isOpen = CacheIsOpen
  /\ pool => PoolStarted
  /\ mpc \in {"wflush", "flush", "wait", "join"} => pool
  /\ mpc = "join" => idx < NThreads
  /\ mpc \in {"delete", "closed"} => ~ pool
  /\ mpc = "pwrite" => wreq.type = "SYNC" /\ wreq.id = nw /\ nw > 0
  /\ \A t \in Thread : Busy(t) => treq[t].type = "SYNC"
  /\ \A t \in Thread : \A i \in DOMAIN pen[t] : pen[t][i].type = "SYNC"

(* The identities of the requests of each thread (module Requests).        *)
IdentityOf(t) ==
  Identity(pen[t], sub[t], wait[t], Work(t), complete[t], freed[t], Issued)
IdentityInv == \A t \in Thread : IdentityOf(t)

(* The youngest request of wait_ is the last one the thread will finish.   *)
YoungestOf(t) == tpc[t] # "exited" /\ Youngest(sub[t], wait[t], Work(t))
YoungestInv == Live => \A t \in Thread : YoungestOf(t)

LifetimeInv == TypeOK /\ ControlInv /\ IdentityInv /\ YoungestInv
-----------------------------------------------------------------------------
(* From here on the flush flag is never flush_none.                        *)
AlwaysFlushes == "flush_none" \notin NewFlags \cup {InitFlag}

Empty(t) == pen[t] = <<>> /\ sub[t] = <<>> /\ wait[t] = <<>>

(* How far a flush has come.                                               *)
FlushInv ==
  /\ flag # "flush_none"
  /\ mpc = "flush" => \A t \in Thread : t < idx => pen[t] = <<>>
  /\ mpc = "wait" => \A t \in Thread :
                       pen[t] = <<>> /\ (t < idx => wait[t] = <<>>)
  /\ mpc = "fsync" => ~ pool

(* What is left when it is over, and the shutdown of the pool: the threads *)
(* below idx are gone, the one at idx may be joining, the others are idle. *)
Idle(t) == Empty(t) /\ tpc[t] = "front"
Gone(t) == Empty(t) /\ tpc[t] = "exited"
Joining(t) ==
  \/ Gone(t)
  \/ pen[t] = <<>> /\ sub[t] = <<Shutdown>> /\ wait[t] = <<>> /\ tpc[t] = "front"
ShutdownInv ==
  /\ pool /\ mpc \in {"flushed", "closeCache"} => \A t \in Thread : Idle(t)
  /\ pool /\ mpc \in {"fini", "join"} => \A t \in Thread :
       /\ t < idx => Gone(t)
       /\ t = idx /\ mpc = "join" => Joining(t)
       /\ t = idx /\ mpc = "fini" => Idle(t)
       /\ t > idx => Idle(t)
  /\ ~ pool => \A t \in Thread : Gone(t)
  /\ ~ cacheFd /\ CacheIsOpen => ~ Live

CleanInv == FlushInv /\ ShutdownInv
-----------------------------------------------------------------------------
(* The file WriteContig writes to has every block of the current call that *)
(* was transferred, the cache file is never behind the acknowledged writes *)
(* nor behind the global file, and what a sync thread holds in its buffer  *)
(* is between the two.                                                     *)
BlockVersions ==
  \A b \in Block : /\ acked[b] <= Issued
                   /\ cache[b] <= nw /\ global[b] <= nw
                   /\ CacheIsOpen => acked[b] <= cache[b] /\ global[b] <= cache[b]
                   /\ ~ CacheIsOpen => acked[b] <= global[b]
WriteVersions ==
  mpc = "pwrite" => /\ xfer <= wreq.len
                    /\ \A b \in Span(wreq, 0, xfer) :
                         (IF CacheIsOpen THEN cache[b] ELSE global[b]) = nw
BufferVersions ==
  \A t \in Thread :
    /\ tpc[t] \in {"pread", "pwrite"} => toff[t] < treq[t].len
    /\ tpc[t] = "pwrite" => \A b \in Chunk(t) : /\ global[b] <= tbuf[t][b]
                                                /\ tbuf[t][b] <= cache[b]
VersionInv == BlockVersions /\ WriteVersions /\ BufferVersions

(* One thread whose reads and writes do not fail, and no flush_none.       *)
Dependable == NThreads = 1 /\ MaxSyncErrors = 0 /\ AlwaysFlushes

DurableInv == LifetimeInv /\ CleanInv /\ VersionInv /\ DirtyHasOwner

(* The call being executed, from where the main thread is.                 *)
CallInv ==
  /\ mpc \in {"idle", "closed"} => op = "none"
  /\ mpc \in {"pwrite", "wflush", "crashed"} => op = "write"
  /\ mpc \in {"flush", "wait", "fsync", "flushed"} => op \in {"sync", "alloc", "close"}
  /\ mpc \in {"closeCache", "fini", "join"} => op \in {"alloc", "close"}
  /\ mpc = "delete" => op = "close"
-----------------------------------------------------------------------------
(* The cache file alone, with any number of threads and any faults.        *)
AckedInv ==
  /\ \A b \in Block : cache[b] <= nw /\ (CacheIsOpen => acked[b] <= cache[b])
  /\ mpc = "pwrite" /\ CacheIsOpen => \A b \in Span(wreq, 0, xfer) : cache[b] = nw

(* Someone will release the lock of block b: the current write hands it    *)
(* on, or a request does that a thread is going to reach its unlock with.  *)
Unreleased(b) ==
  \/ mpc = "pwrite" /\ b \in BlocksOf(wreq)
  \/ \E t \in Thread :
       \/ \E r \in Elements(pen[t]) \cup Elements(sub[t]) : b \in BlocksOf(r)
       \/ tpc[t] \in {"pread", "pwrite", "unlock"} /\ b \in BlocksOf(treq[t])

(* No lock is forgotten while the cache is in use and no write has failed. *)
LocksInv ==
  /\ e10Cache => CacheIsOpen
  /\ ~ cacheFd /\ e10Cache => mpc \in {"fini", "join", "delete", "closed"}
  /\ ~ Coherent => locks = {}
  /\ e10Cache /\ writeErrors = 0 /\ mpc # "crashed" => \A b \in locks : Unreleased(b)

==============================================================================
