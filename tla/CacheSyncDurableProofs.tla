------------------------ MODULE CacheSyncDurableProofs ------------------------
(*****************************************************************************)
(* Flush, Close and the fallback shut the pool down cleanly and lose        *)
(* nothing: no request is abandoned, no thread reads the closed cache file, *)
(* and with one dependable thread the acknowledged writes are in the global *)
(* file when Flush returns.  The global file never goes back, and the cache *)
(* implements WriteBack.                                                    *)
(*****************************************************************************)
EXTENDS CacheSyncRefines, CacheSyncLifetimeProofs

(*****************************************************************************)
(* What the steps do to the versions in the two files, with one dependable  *)
(* thread: the copy loop of the sync thread, then the pwrite loop of        *)
(* WriteContig.                                                             *)
(*****************************************************************************)

(* A thread that copies has the cache file open, and it is the only one.   *)
LEMMA CopyingThread ==
  ASSUME Dependable, LifetimeInv, CleanInv, NEW t \in Thread, Busy(t)
  PROVE  cacheFd /\ CacheIsOpen /\ Thread = {t} /\ pool
<1>1. Live /\ pool
  BY Zenon, BusyMeansLive
<1>2. CacheIsOpen
  BY Zenon, <1>1, HintAssumption DEF LifetimeInv, ControlInv
<1>3. Thread = {0}
  BY DEF Thread, Dependable
<1> QED BY Zenon, <1>1, <1>2, <1>3 DEF CleanInv, ShutdownInv

(* What the invariant says of the numbers a sync thread works with.        *)
LEMMA CopyFacts ==
  ASSUME DurableInv, NEW t \in Thread
  PROVE  /\ treq[t].off \in Nat /\ treq[t].len \in Nat /\ toff[t] \in Nat
         /\ Count(t) \in Int /\ Count(t) <= treq[t].len - toff[t]
         /\ \A b \in Block : /\ tbuf[t][b] \in Int /\ cache[b] \in Int /\ global[b] \in Int
                             /\ acked[b] \in Int /\ b \in Int
<1> USE SizeAssumption
<1>0. TypeOK
  BY Zenon DEF DurableInv, LifetimeInv
<1>1. treq[t] \in Request /\ toff[t] \in Nat
  BY Zenon, <1>0 DEF TypeOK, TypeThreads
<1>2. treq[t].off \in Nat /\ treq[t].len \in Nat
  BY Zenon, <1>1 DEF Request
<1>3. Count(t) \in Int /\ Count(t) <= treq[t].len - toff[t]
  BY <1>1, <1>2 DEF Count, Smaller
<1>4. \A b \in Block : /\ tbuf[t][b] \in Int /\ cache[b] \in Int /\ global[b] \in Int
                       /\ acked[b] \in Int /\ b \in Int
  BY SMTT(30), <1>0 DEF TypeOK, TypeFiles, TypeThreads, TypeHistory, Block
<1> QED BY Zenon, <1>1, <1>2, <1>3, <1>4

(* front and pop of sub_: the request passes from the queue to the thread. *)
LEMMA DurableFront ==
  ASSUME Dependable, DurableInv, NEW t \in Thread, ThreadFront(t)
  PROVE  VersionInv' /\ DirtyHasOwner'
<1> USE SizeAssumption
<1>0. /\ TypeOK /\ ControlInv /\ LifetimeInv /\ CleanInv /\ VersionInv /\ DirtyHasOwner
  BY Zenon DEF DurableInv, LifetimeInv
<1>t. /\ treq[t].off \in Nat /\ treq[t].len \in Nat /\ toff[t] \in Nat
      /\ Count(t) \in Int /\ Count(t) <= treq[t].len - toff[t]
      /\ \A b \in Block : /\ tbuf[t][b] \in Int /\ cache[b] \in Int /\ global[b] \in Int
                          /\ acked[b] \in Int /\ b \in Int
  BY Zenon, CopyFacts
<1> DEFINE h == Head(sub[t])
<1>1. /\ tpc[t] = "front" /\ sub[t] # <<>> /\ sub'[t] = Tail(sub[t])
      /\ treq'[t] = h /\ toff'[t] = 0
      /\ tpc'[t] = IF h.type = "SHUTDOWN" THEN "exited" ELSE CopyFrom(h, 0)
      /\ \A u \in Thread \ {t} : /\ tpc'[u] = tpc[u] /\ treq'[u] = treq[u]
                                 /\ toff'[u] = toff[u] /\ sub'[u] = sub[u]
      /\ UNCHANGED <<cache, global, acked, nw, wreq, xfer, mpc, pen, tbuf>>
  BY Zenon, <1>0
  DEF ThreadFront, TypeOK, TypeFiles, TypeQueues, TypeMain, TypeTpc, TypeThreads, TypeHistory, files, main, history
<1>2. Elements(sub[t]) = Elements(sub'[t]) \cup {h} /\ h \in Request /\ h = sub[t][1] /\ 1 \in DOMAIN sub[t]
  BY <1>0, <1>1, TailFacts DEF TypeOK, TypeQueues
<1>3. h.len \in Nat /\ h.off \in Nat
  BY Zenon, <1>2 DEF Request
<1>4. h.type = "SHUTDOWN" => BlocksOf(h) = {}
  <2>1. CASE Live
    BY Zenon, <1>0, <1>2, <2>1 DEF LifetimeInv, YoungestInv, YoungestOf, Youngest
  <2>2. CASE ~ Live
    <3>1. ~ Gone(t) /\ ~ Idle(t)
      BY Zenon, <1>1 DEF Gone, Idle, Empty
    <3>2. t \in Int /\ idx \in Int
      BY <1>0 DEF Thread, TypeOK, TypeMain
    <3>3. Joining(t)
      BY <1>0, <2>2, <3>1, <3>2 DEF CleanInv, ShutdownInv, Live
    <3>4. h = Shutdown
      BY SMTT(30), <3>1, <3>3, <1>2 DEF Joining
    <3> QED BY <3>4 DEF Shutdown, BlocksOf, Span, Block
  <2> QED BY Zenon, <2>1, <2>2
<1>5. VersionInv'
  <2>1. \A u \in Thread : tpc'[u] \in {"pread", "pwrite"} => toff'[u] < treq'[u].len
    <3> SUFFICES ASSUME NEW u \in Thread, tpc'[u] \in {"pread", "pwrite"}
                 PROVE  toff'[u] < treq'[u].len
      BY Zenon
    <3>1. CASE u = t
      BY Zenon, <1>1, <1>3, <3>1 DEF CopyFrom
    <3>2. CASE u # t
      BY Zenon, <1>0, <1>1, <3>2 DEF VersionInv, BufferVersions
    <3> QED BY Zenon, <3>1, <3>2
  <2>2. \A u \in Thread : tpc'[u] = "pwrite" => u # t /\ Chunk(u)' = Chunk(u)
    BY Zenon, <1>1 DEF CopyFrom, Chunk, Span, Count
  <2>7. BlockVersions'
    BY Zenon, <1>0, <1>1, <2>1, <2>2 DEF VersionInv, BlockVersions, Issued, Span
  <2>8. WriteVersions'
    BY Zenon, <1>0, <1>1, <2>1, <2>2 DEF VersionInv, WriteVersions, Issued, Span
  <2>9. BufferVersions'
    BY Zenon, <1>0, <1>1, <2>1, <2>2 DEF VersionInv, BufferVersions
  <2> QED BY Zenon, <2>7, <2>8, <2>9 DEF VersionInv
<1>6. DirtyHasOwner'
  <2> SUFFICES ASSUME NEW b \in Block, global[b] < acked[b]
               PROVE  \E u \in Thread :
                        \/ \E r \in Elements(pen[u]) \cup Elements(sub'[u]) : b \in BlocksOf(r)
                        \/ /\ tpc'[u] \in {"pread", "pwrite"}
                           /\ b \in Span(treq'[u], toff'[u], treq'[u].len - toff'[u])
                           /\ tpc'[u] = "pwrite" /\ b \in Chunk(u)' => tbuf[u][b] >= acked[b]
    BY Zenon, <1>1 DEF DirtyHasOwner
  <2>1. PICK u \in Thread :
          \/ \E r \in Elements(pen[u]) \cup Elements(sub[u]) : b \in BlocksOf(r)
          \/ /\ tpc[u] \in {"pread", "pwrite"}
             /\ b \in Span(treq[u], toff[u], treq[u].len - toff[u])
             /\ tpc[u] = "pwrite" /\ b \in Chunk(u) => tbuf[u][b] >= acked[b]
    BY Zenon, <1>0 DEF DirtyHasOwner
  <2>2. CASE b \in BlocksOf(h)
    <3>1. h.type # "SHUTDOWN" /\ 0 < h.len
      BY SMTT(30), <1>t, <1>3, <1>4, <2>2 DEF BlocksOf, Span
    <3>2. tpc'[t] = "pread"
      BY ZenonT(30), <1>1, <3>1 DEF CopyFrom
    <3>3. b \in Span(treq'[t], toff'[t], treq'[t].len - toff'[t])
      BY SMTT(30), <1>1, <1>3, <2>2 DEF BlocksOf
    <3> QED BY Zenon, <3>2, <3>3
  <2>3. CASE b \notin BlocksOf(h)
    <3>1. CASE \E r \in Elements(pen[u]) \cup Elements(sub[u]) : b \in BlocksOf(r)
      BY SMTT(30), <1>1, <1>2, <2>3, <3>1
    <3>2. CASE /\ tpc[u] \in {"pread", "pwrite"}
               /\ b \in Span(treq[u], toff[u], treq[u].len - toff[u])
               /\ tpc[u] = "pwrite" /\ b \in Chunk(u) => tbuf[u][b] >= acked[b]
      BY Zenon, <1>1, <3>2 DEF Chunk, Span, Count
    <3> QED BY Zenon, <2>1, <3>1, <3>2
  <2> QED BY Zenon, <2>2, <2>3
<1> QED BY Zenon, <1>5, <1>6

(* pread of a chunk: the buffer holds what the cache file holds.           *)
LEMMA DurableRead ==
  ASSUME Dependable, DurableInv, NEW t \in Thread, ThreadRead(t)
  PROVE  VersionInv' /\ DirtyHasOwner'
<1> USE SizeAssumption
<1>0. /\ TypeOK /\ ControlInv /\ LifetimeInv /\ CleanInv /\ VersionInv /\ DirtyHasOwner
  BY Zenon DEF DurableInv, LifetimeInv
<1>t. /\ treq[t].off \in Nat /\ treq[t].len \in Nat /\ toff[t] \in Nat
      /\ Count(t) \in Int /\ Count(t) <= treq[t].len - toff[t]
      /\ \A b \in Block : /\ tbuf[t][b] \in Int /\ cache[b] \in Int /\ global[b] \in Int
                          /\ acked[b] \in Int /\ b \in Int
  BY Zenon, CopyFacts
<1>1. cacheFd /\ CacheIsOpen /\ Thread = {t}
  BY Zenon, <1>0, CopyingThread DEF ThreadRead, Busy
<1>2. ~ (syncErrors < MaxSyncErrors)
  BY SMTT(30), <1>0 DEF TypeOK, TypeHistory, Dependable
<1>3. /\ tpc[t] = "pread" /\ tpc'[t] = "pwrite"
      /\ \A b \in Chunk(t) : tbuf'[t][b] = cache[b]
      /\ UNCHANGED <<cache, global, acked, nw, wreq, xfer, mpc, pen, sub, treq, toff>>
  BY SMTT(30), <1>0, <1>1, <1>2
  DEF ThreadRead, TypeOK, TypeFiles, TypeQueues, TypeMain, TypeTpc, TypeThreads, TypeHistory, files, main, queues, ReadInto, Chunk, Span
<1>4. Chunk(t)' = Chunk(t)
  BY Zenon, <1>3 DEF Chunk, Span, Count
<1>5. VersionInv'
  <2>1. BlockVersions'
    BY Zenon, <1>0, <1>3 DEF VersionInv, BlockVersions, Issued
  <2>2. WriteVersions'
    BY Zenon, <1>0, <1>3 DEF VersionInv, WriteVersions, Span
  <2>3. BufferVersions'
    <3>1. toff[t] < treq[t].len
      BY Zenon, <1>0, <1>3 DEF VersionInv, BufferVersions
    <3>2. \A b \in Chunk(t) : b \in Block /\ global[b] <= cache[b] /\ cache[b] <= cache[b]
      BY <1>0, <1>t, <1>1 DEF VersionInv, BlockVersions, Chunk, Span
    <3> QED BY <1>1, <1>3, <1>4, <3>1, <3>2 DEF BufferVersions
  <2> QED BY Zenon, <2>1, <2>2, <2>3 DEF VersionInv
<1>6. \A b \in Block : acked[b] <= cache[b]
  BY Zenon, <1>0, <1>1 DEF VersionInv, BlockVersions
<1>7. DirtyHasOwner'
  <2> SUFFICES ASSUME NEW b \in Block, global[b] < acked[b]
               PROVE  \/ \E r \in Elements(pen[t]) \cup Elements(sub[t]) : b \in BlocksOf(r)
                      \/ /\ b \in Span(treq[t], toff[t], treq[t].len - toff[t])
                         /\ b \in Chunk(t) => tbuf'[t][b] >= acked[b]
    BY SMTT(30), <1>1, <1>3, <1>4 DEF DirtyHasOwner, BlocksOf, Span
  <2> QED BY ZenonT(30), <1>0, <1>t, <1>1, <1>3, <1>6 DEF DirtyHasOwner
<1> QED BY Zenon, <1>5, <1>7

(* pwrite of the chunk: its blocks are clean, the rest has its owner.      *)
LEMMA DurableWrite ==
  ASSUME Dependable, DurableInv, NEW t \in Thread, ThreadWrite(t)
  PROVE  VersionInv' /\ DirtyHasOwner'
<1> USE SizeAssumption
<1>0. /\ TypeOK /\ ControlInv /\ LifetimeInv /\ CleanInv /\ VersionInv /\ DirtyHasOwner
  BY Zenon DEF DurableInv, LifetimeInv
<1>t. /\ treq[t].off \in Nat /\ treq[t].len \in Nat /\ toff[t] \in Nat
      /\ Count(t) \in Int /\ Count(t) <= treq[t].len - toff[t]
      /\ \A b \in Block : /\ tbuf[t][b] \in Int /\ cache[b] \in Int /\ global[b] \in Int
                          /\ acked[b] \in Int /\ b \in Int
  BY Zenon, CopyFacts
<1>1. CacheIsOpen /\ Thread = {t}
  BY Zenon, <1>0, CopyingThread DEF ThreadWrite, Busy
<1>2. ~ (syncErrors < MaxSyncErrors)
  BY <1>0 DEF TypeOK, TypeHistory, Dependable
<1>3. /\ tpc[t] = "pwrite" /\ tpc'[t] = CopyFrom(treq[t], toff[t] + Count(t))
      /\ toff'[t] = toff[t] + Count(t)
      /\ UNCHANGED <<cache, acked, nw, wreq, xfer, mpc, pen, sub, treq, tbuf>>
  BY Zenon, <1>0
  DEF ThreadWrite, TypeOK, TypeFiles, TypeQueues, TypeMain, TypeTpc, TypeThreads, TypeHistory, main, queues
<1>4. global' = [b \in Block |-> IF b \in Chunk(t) THEN tbuf[t][b] ELSE global[b]]
  BY Zenon, <1>2 DEF ThreadWrite, Chunk
<1>5. \A b \in Block : /\ global'[b] \in Int /\ global[b] <= global'[b] /\ global'[b] <= cache[b]
                       /\ b \in Chunk(t) => global'[b] = tbuf[t][b]
  <2>1. \A b \in Block : global[b] <= cache[b]
    BY Zenon, <1>0, <1>1 DEF VersionInv, BlockVersions
  <2>2. \A b \in Chunk(t) : /\ global[b] <= tbuf[t][b] /\ tbuf[t][b] <= cache[b]
    BY Zenon, <1>0, <1>3 DEF VersionInv, BufferVersions
  <2>3. ASSUME NEW b \in Block, b \in Chunk(t)
        PROVE  /\ global'[b] \in Int /\ global[b] <= global'[b] /\ global'[b] <= cache[b]
               /\ global'[b] = tbuf[t][b]
    BY Zenon, <1>t, <1>4, <2>2, <2>3
  <2>4. ASSUME NEW b \in Block, b \notin Chunk(t)
        PROVE  /\ global'[b] \in Int /\ global[b] <= global'[b] /\ global'[b] <= cache[b]
    <3>1. global'[b] = global[b] /\ global[b] \in Int /\ global[b] <= cache[b]
      BY Zenon, <1>t, <1>4, <2>1, <2>4
    <3>2. global[b] <= global[b]
      BY <3>1
    <3> QED
      BY Zenon, <3>1, <3>2
  <2> QED
    BY Zenon, <2>3, <2>4
<1>6. tpc'[t] # "pwrite" /\ (tpc'[t] = "pread" <=> toff'[t] < treq[t].len)
  BY Zenon, <1>3 DEF CopyFrom
<1>7. VersionInv'
  <2>1. \A b \in Block : /\ acked[b] <= Issued' /\ cache[b] <= nw /\ global'[b] <= nw
                         /\ acked[b] <= cache[b] /\ global'[b] <= cache[b]
    <3>1. \A b \in Block : /\ acked[b] <= Issued /\ cache[b] <= nw /\ nw \in Int
                           /\ acked[b] <= cache[b] /\ Issued' = Issued
      BY SMTT(30), <1>0, <1>1, <1>3
      DEF VersionInv, BlockVersions, Issued, TypeOK, TypeFiles, TypeMain, TypeHistory
    <3> QED BY SMTT(30), <1>t, <1>5, <3>1
  <2>2. mpc = "pwrite" => /\ xfer <= wreq.len
                          /\ \A b \in Span(wreq, 0, xfer) : cache[b] = nw
    BY Zenon, <1>0, <1>1 DEF VersionInv, WriteVersions
  <2>7. BlockVersions'
    BY Zenon, <1>1, <1>3, <2>1 DEF BlockVersions
  <2>8. WriteVersions'
    BY Zenon, <1>1, <1>3, <2>2 DEF WriteVersions, Span
  <2>9. BufferVersions'
    BY Zenon, <1>1, <1>3, <1>6 DEF BufferVersions
  <2> QED BY Zenon, <2>7, <2>8, <2>9 DEF VersionInv
<1>8. DirtyHasOwner'
  <2> SUFFICES ASSUME NEW b \in Block, global'[b] < acked[b]
               PROVE  \/ \E r \in Elements(pen[t]) \cup Elements(sub[t]) : b \in BlocksOf(r)
                      \/ /\ tpc'[t] = "pread"
                         /\ b \in Span(treq[t], toff'[t], treq[t].len - toff'[t])
    BY Zenon, <1>1, <1>3 DEF DirtyHasOwner, BlocksOf, Span
  <2>1. global[b] < acked[b]
    BY SMTT(30), <1>t, <1>5
  <2>2. CASE \E r \in Elements(pen[t]) \cup Elements(sub[t]) : b \in BlocksOf(r)
    BY Zenon, <2>2
  <2>3. CASE /\ b \in Span(treq[t], toff[t], treq[t].len - toff[t])
             /\ b \in Chunk(t) => tbuf[t][b] >= acked[b]
    <3>1. b \notin Chunk(t)
      BY SMTT(30), <1>t, <1>5, <2>3
    <3>2. treq[t].off + toff[t] + Count(t) <= b /\ b < treq[t].off + treq[t].len
      BY SMTT(30), <1>t, <2>3, <3>1 DEF Chunk, Span
    <3>3. toff'[t] < treq[t].len
      BY SMTT(30), <1>t, <1>3, <3>2
    <3>4. b \in Span(treq[t], toff'[t], treq[t].len - toff'[t])
      BY <1>t, <1>3, <3>2 DEF Span
    <3> QED BY Zenon, <1>6, <3>3, <3>4
  <2> QED BY Zenon, <1>0, <1>1, <1>3, <2>1, <2>2, <2>3 DEF DirtyHasOwner
<1> QED BY Zenon, <1>7, <1>8

(* The end of a request, whose blocks are all written.                     *)
LEMMA DurableUnlock ==
  ASSUME Dependable, DurableInv, NEW t \in Thread, ThreadUnlock(t) \/ ThreadComplete(t)
  PROVE  VersionInv' /\ DirtyHasOwner'
<1> USE SizeAssumption
<1>0. /\ TypeOK /\ ControlInv /\ LifetimeInv /\ CleanInv /\ VersionInv /\ DirtyHasOwner
  BY Zenon DEF DurableInv, LifetimeInv
<1>t. /\ treq[t].off \in Nat /\ treq[t].len \in Nat /\ toff[t] \in Nat
      /\ Count(t) \in Int /\ Count(t) <= treq[t].len - toff[t]
      /\ \A b \in Block : /\ tbuf[t][b] \in Int /\ cache[b] \in Int /\ global[b] \in Int
                          /\ acked[b] \in Int /\ b \in Int
  BY Zenon, CopyFacts
<1>1. /\ tpc[t] \notin {"pread", "pwrite"} /\ tpc'[t] \notin {"pread", "pwrite"}
      /\ \A u \in Thread \ {t} : tpc'[u] = tpc[u]
      /\ UNCHANGED <<cache, global, acked, nw, wreq, xfer, mpc, pen, sub, treq, toff, tbuf>>
  BY SMTT(30), <1>0
  DEF ThreadUnlock, ThreadComplete, TypeOK, TypeFiles, TypeQueues, TypeMain, TypeTpc, TypeThreads, TypeHistory, files, main, queues, history
<1>2. \A u \in Thread : Chunk(u)' = Chunk(u) /\ (tpc'[u] = tpc[u] \/ u = t)
  BY Zenon, <1>1 DEF Chunk, Span, Count
<1>3. VersionInv'
  <2>1. BlockVersions'
    BY Zenon, <1>0, <1>1, <1>2 DEF VersionInv, BlockVersions, Issued, Span
  <2>2. WriteVersions'
    BY Zenon, <1>0, <1>1, <1>2 DEF VersionInv, WriteVersions, Issued, Span
  <2>3. BufferVersions'
    BY Zenon, <1>0, <1>1, <1>2 DEF VersionInv, BufferVersions, Issued, Span
  <2> QED BY Zenon, <2>1, <2>2, <2>3 DEF VersionInv
<1>4. DirtyHasOwner'
  <2> SUFFICES ASSUME NEW b \in Block, global'[b] < acked'[b]
               PROVE  \E u \in Thread :
                        \/ \E r \in Elements(pen'[u]) \cup Elements(sub'[u]) : b \in BlocksOf(r)
                        \/ /\ tpc'[u] \in {"pread", "pwrite"}
                           /\ b \in Span(treq'[u], toff'[u], treq'[u].len - toff'[u])
                           /\ tpc'[u] = "pwrite" /\ b \in Chunk(u)' => tbuf'[u][b] >= acked'[b]
    BY Zenon DEF DirtyHasOwner
  <2>1. global[b] < acked[b]
    BY Zenon, <1>1
  <2>2. PICK u \in Thread :
          \/ \E r \in Elements(pen[u]) \cup Elements(sub[u]) : b \in BlocksOf(r)
          \/ /\ tpc[u] \in {"pread", "pwrite"}
             /\ b \in Span(treq[u], toff[u], treq[u].len - toff[u])
             /\ tpc[u] = "pwrite" /\ b \in Chunk(u) => tbuf[u][b] >= acked[b]
    BY Zenon, <1>0, <2>1 DEF DirtyHasOwner
  <2>3. /\ pen'[u] = pen[u] /\ sub'[u] = sub[u] /\ treq'[u] = treq[u] /\ toff'[u] = toff[u]
        /\ tbuf'[u][b] = tbuf[u][b] /\ acked'[b] = acked[b] /\ Chunk(u)' = Chunk(u)
        /\ tpc[u] \in {"pread", "pwrite"} => tpc'[u] = tpc[u]
    BY Zenon, <1>1, <1>2
  <2> QED BY Zenon, <2>2, <2>3
<1> QED BY Zenon, <1>3, <1>4

(* The part of the invariant a step of the thread may disturb.             *)
LEMMA DurableThread ==
  ASSUME Dependable, DurableInv, NEW t \in Thread, ThreadStep(t)
  PROVE  VersionInv' /\ DirtyHasOwner'
BY Zenon, DurableFront, DurableRead, DurableWrite, DurableUnlock DEF ThreadStep
-------------------------------------------------------------------------------
(* Steps that change no file, version or buffer.                           *)
LEMMA SameVersions ==
  ASSUME VersionInv, TypeOK, nw' = nw,
         UNCHANGED <<cache, global, acked, wreq, xfer, tpc, treq, toff, tbuf>>,
         mpc' = "pwrite" => mpc = "pwrite"
  PROVE  VersionInv'
<1>1. /\ nw \in Nat /\ \A b \in Block : acked[b] \in Nat /\ Issued \in Int /\ Issued' \in Int
      /\ Issued <= Issued'
  BY DEF TypeOK, TypeMain, TypeHistory, Issued
<1> HIDE DEF Issued
<1>2. \A b \in Block : acked[b] <= Issued => acked[b] <= Issued'
  BY <1>1
<1>7. BlockVersions'
  BY Zenon, <1>2 DEF VersionInv, BlockVersions, Span, Chunk, Count
<1>8. WriteVersions'
  BY Zenon, <1>2 DEF VersionInv, WriteVersions, Span, Chunk, Count
<1>9. BufferVersions'
  BY Zenon, <1>2 DEF VersionInv, BufferVersions, Span, Chunk, Count
<1> QED BY Zenon, <1>7, <1>8, <1>9 DEF VersionInv

(* Steps that keep every request that covers a block in pen_ or sub_.      *)
LEMMA SameOwners ==
  ASSUME DirtyHasOwner,
         UNCHANGED <<global, acked, tpc, treq, toff, tbuf>>,
         \A t \in Thread : \A r \in Elements(pen[t]) \cup Elements(sub[t]) :
           r \in Elements(pen'[t]) \cup Elements(sub'[t]) \/ BlocksOf(r) = {}
  PROVE  DirtyHasOwner'
<1> SUFFICES ASSUME NEW b \in Block, global[b] < acked[b]
             PROVE  \E t \in Thread :
                      \/ \E r \in Elements(pen'[t]) \cup Elements(sub'[t]) : b \in BlocksOf(r)
                      \/ /\ tpc[t] \in {"pread", "pwrite"}
                         /\ b \in Span(treq[t], toff[t], treq[t].len - toff[t])
                         /\ tpc[t] = "pwrite" /\ b \in Chunk(t) => tbuf[t][b] >= acked[b]
  BY Zenon DEF DirtyHasOwner, Chunk, Count
<1> QED BY Zenon DEF DirtyHasOwner

(* A flush step moves a request from pen_ to sub_.                         *)
LEMMA FlushOneOwners ==
  ASSUME TypeQueues, NEW t \in Thread, FlushOne(t)
  PROVE  \A u \in Thread : \A r \in Elements(pen[u]) \cup Elements(sub[u]) :
           r \in Elements(pen'[u]) \cup Elements(sub'[u])
<1>1. /\ pen[t] \in Seq(Request) /\ sub[t] \in Seq(Request) /\ pen[t] # <<>>
      /\ pen'[t] = Tail(pen[t]) /\ sub'[t] = Append(sub[t], Head(pen[t]))
      /\ \A u \in Thread \ {t} : pen'[u] = pen[u] /\ sub'[u] = sub[u]
  BY Zenon DEF FlushOne, TypeQueues
<1>2. /\ Elements(pen[t]) = Elements(pen'[t]) \cup {Head(pen[t])}
      /\ Elements(sub'[t]) = Elements(sub[t]) \cup {Head(pen[t])}
  BY ZenonT(30), <1>1, MoveFacts
<1> QED BY ZenonT(30), <1>1, <1>2

(* What the invariant says of the versions.                                *)
LEMMA VersionFacts ==
  ASSUME DurableInv
  PROVE  /\ nw \in Nat /\ wreq \in Request /\ xfer \in Nat /\ Issued \in Int
         /\ wreq.off \in Nat /\ wreq.len \in Nat /\ wreq.id \in Nat
         /\ \A b \in Block : /\ cache[b] \in Int /\ global[b] \in Int /\ acked[b] \in Int
                             /\ b \in Int
<1> USE SizeAssumption
<1>0. TypeOK
  BY Zenon DEF DurableInv, LifetimeInv
<1>1. nw \in Nat /\ wreq \in Request /\ xfer \in Nat
  BY Zenon, <1>0 DEF TypeOK, TypeMain
<1>2. wreq.off \in Nat /\ wreq.len \in Nat /\ wreq.id \in Nat
  BY Zenon, <1>1 DEF Request
<1>3. Issued \in Int
  BY SMTT(30), <1>1 DEF Issued
<1>4. \A b \in Block : /\ cache[b] \in Int /\ global[b] \in Int /\ acked[b] \in Int
                       /\ b \in Int
  BY <1>0 DEF TypeOK, TypeFiles, TypeHistory, Block
<1> QED BY Zenon, <1>1, <1>2, <1>3, <1>4

(* Steps that change none of the files, requests and buffers.              *)
LEMMA DurableQuiet ==
  ASSUME DurableInv,
         UNCHANGED <<cache, global, acked, nw, wreq, xfer, tpc, treq, toff, tbuf, pen, sub>>,
         mpc' = "pwrite" => mpc = "pwrite"
  PROVE  VersionInv' /\ DirtyHasOwner'
<1>1. TypeOK /\ VersionInv /\ DirtyHasOwner
  BY Zenon DEF DurableInv, LifetimeInv
<1>2. VersionInv'
  BY Zenon, <1>1, SameVersions
<1>3. DirtyHasOwner'
  BY Zenon, <1>1, SameOwners
<1> QED BY Zenon, <1>2, <1>3

(* WriteContig starts.                                                     *)
LEMMA DurableBegin ==
  ASSUME Dependable, DurableInv, NEW e \in Extents, WriteBegin(e)
  PROVE  VersionInv' /\ DirtyHasOwner'
<1> USE SizeAssumption
<1>0. /\ TypeOK /\ ControlInv /\ LifetimeInv /\ CleanInv /\ VersionInv /\ DirtyHasOwner
      /\ TypeQueues
  BY Zenon DEF DurableInv, LifetimeInv, TypeOK, TypeQueues
<1>v. /\ nw \in Nat /\ wreq \in Request /\ xfer \in Nat /\ Issued \in Int
      /\ wreq.off \in Nat /\ wreq.len \in Nat /\ wreq.id \in Nat
      /\ \A b \in Block : /\ cache[b] \in Int /\ global[b] \in Int /\ acked[b] \in Int
                          /\ b \in Int
  BY Zenon, VersionFacts
<1>1. /\ mpc = "idle" /\ mpc' = "pwrite" /\ nw' = nw + 1 /\ xfer' = 0
      /\ UNCHANGED <<cache, global, acked, pen, sub, tpc, treq, toff, tbuf>>
  BY Zenon DEF WriteBegin, queues, threads, history
<1>2. wreq' = SyncReq(nw + 1, e) /\ e.off \in Nat /\ e.len \in Nat
  BY Zenon, ExtentAssumption DEF WriteBegin
<1>3. wreq'.off \in Nat /\ wreq'.len \in Nat
  BY Zenon, <1>2 DEF SyncReq
<1>4. Issued' = Issued
  BY <1>v, <1>1 DEF Issued
<1>5. Span(wreq', 0, xfer') = {}
  BY SMTT(30), <1>v, <1>1, <1>3 DEF Span
<1>6. \A t \in Thread : Chunk(t)' = Chunk(t)
  BY Zenon, <1>1 DEF Chunk, Span, Count
<1>7. \A b \in Block : (cache[b] <= nw => cache[b] <= nw') /\ (global[b] <= nw => global[b] <= nw')
  BY <1>v, <1>1
<1>8. 0 <= wreq'.len
  BY SMTT(30), <1>3
<1>9. VersionInv'
  <2>1. BlockVersions'
    BY Zenon, <1>0, <1>1, <1>4, <1>5, <1>6, <1>7, <1>8 DEF VersionInv, BlockVersions
  <2>2. WriteVersions'
    BY Zenon, <1>0, <1>1, <1>4, <1>5, <1>6, <1>7, <1>8 DEF VersionInv, WriteVersions
  <2>3. BufferVersions'
    BY Zenon, <1>0, <1>1, <1>4, <1>5, <1>6, <1>7, <1>8 DEF VersionInv, BufferVersions
  <2> QED BY Zenon, <2>1, <2>2, <2>3 DEF VersionInv
<1>10. DirtyHasOwner'
  BY Zenon, <1>0, <1>1, SameOwners
<1> QED BY Zenon, <1>9, <1>10

(* A pwrite of WriteContig, to the cache file or to the global file.       *)
LEMMA PwriteCached ==
  ASSUME DurableInv, WritePwrite, CacheIsOpen
  PROVE  VersionInv' /\ DirtyHasOwner'
<1> USE SizeAssumption
<1>0. /\ TypeOK /\ ControlInv /\ LifetimeInv /\ CleanInv /\ VersionInv /\ DirtyHasOwner
      /\ TypeQueues
  BY Zenon DEF DurableInv, LifetimeInv, TypeOK, TypeQueues
<1>v. /\ nw \in Nat /\ wreq \in Request /\ xfer \in Nat /\ Issued \in Int
      /\ wreq.off \in Nat /\ wreq.len \in Nat /\ wreq.id \in Nat
      /\ \A b \in Block : /\ cache[b] \in Int /\ global[b] \in Int /\ acked[b] \in Int
                          /\ b \in Int
  BY Zenon, VersionFacts
<1>1. /\ mpc = "pwrite" /\ mpc' = "pwrite" /\ wreq.id = nw
      /\ UNCHANGED <<acked, nw, wreq, pen, sub, tpc, treq, toff, tbuf>>
  BY Zenon, <1>0 DEF WritePwrite, ControlInv, queues, threads, history
<1>2. PICK n \in 1 .. wreq.len - xfer :
        /\ xfer' = xfer + n
        /\ cache' = IF isOpen THEN Overwritten(cache, n) ELSE cache
        /\ global' = IF isOpen THEN global ELSE Overwritten(global, n)
  BY Zenon DEF WritePwrite
<1>3. xfer' <= wreq.len /\ xfer' \in Nat /\ n \in Nat
  BY <1>v, <1>2
<1>4. \A b \in Span(wreq, 0, xfer') : b \in Span(wreq, 0, xfer) \/ b \in Span(wreq, xfer, n)
  BY SMTT(30), <1>v, <1>2, <1>3 DEF Span
<1>5. Issued' = Issued /\ \A t \in Thread : Chunk(t)' = Chunk(t)
  BY Zenon, <1>1 DEF Issued, Chunk, Span, Count
<1>11. /\ global' = global /\ \A b \in Block : cache'[b] \in {cache[b], nw}
      /\ \A b \in Span(wreq, xfer, n) : cache'[b] = nw
  BY Zenon, <1>0, <1>1, <1>2 DEF ControlInv, Overwritten, Span
<1>12. \A b \in Block : cache[b] <= cache'[b] /\ cache'[b] <= nw /\ cache'[b] \in Int
  BY SMTT(30), <1>0, <1>v, <1>11 DEF VersionInv, BlockVersions
<1>13. \A b \in Span(wreq, 0, xfer') : cache'[b] = nw
  <2>1. \A b \in Span(wreq, 0, xfer) : cache[b] = nw /\ b \in Block
    BY Zenon, <1>0, <1>1 DEF VersionInv, WriteVersions, Span
  <2> QED BY Zenon, <1>4, <1>11, <2>1
<1>14. \A b \in Block : acked[b] <= cache'[b] /\ global[b] <= cache'[b]
  BY SMTT(30), <1>0, <1>v, <1>12 DEF VersionInv, BlockVersions
<1>15. \A t \in Thread : tpc[t] = "pwrite" => \A b \in Chunk(t) : tbuf[t][b] <= cache'[b]
  <2>1. \A t \in Thread : tpc[t] = "pwrite" => \A b \in Chunk(t) :
           tbuf[t][b] <= cache[b] /\ b \in Block /\ tbuf[t][b] \in Int
    <3> TAKE t \in Thread
    <3>1. \A b \in Chunk(t) : b \in Block
      BY Zenon DEF Chunk, Span
    <3>2. \A b \in Block : tbuf[t][b] \in Int
      BY Zenon, CopyFacts
    <3> QED BY Zenon, <1>0, <3>1, <3>2 DEF VersionInv, BufferVersions
  <2> QED BY SMTT(30), <1>v, <1>12, <2>1
<1>16. VersionInv'
  <2>1. BlockVersions'
    BY Zenon, <1>0, <1>1, <1>3, <1>5, <1>11, <1>12, <1>13, <1>14, <1>15
    DEF VersionInv, BlockVersions, Span
  <2>2. WriteVersions'
    BY SMTT(30), <1>0, <1>1, <1>3, <1>5, <1>11, <1>12, <1>13, <1>14, <1>15
    DEF VersionInv, WriteVersions, Span
  <2>3. BufferVersions'
    BY Zenon, <1>0, <1>1, <1>3, <1>5, <1>11, <1>12, <1>13, <1>14, <1>15
    DEF VersionInv, BufferVersions, Span
  <2> QED BY Zenon, <2>1, <2>2, <2>3 DEF VersionInv
<1>17. DirtyHasOwner'
  BY Zenon, <1>0, <1>1, <1>11, SameOwners
<1> QED BY Zenon, <1>16, <1>17

(* The same without a cache: the pwrite goes to the global file.           *)
LEMMA PwriteGlobal ==
  ASSUME DurableInv, WritePwrite, ~ CacheIsOpen
  PROVE  VersionInv' /\ DirtyHasOwner'
<1> USE SizeAssumption
<1>0. /\ TypeOK /\ ControlInv /\ LifetimeInv /\ CleanInv /\ VersionInv /\ DirtyHasOwner
      /\ TypeQueues
  BY Zenon DEF DurableInv, LifetimeInv, TypeOK, TypeQueues
<1>v. /\ nw \in Nat /\ wreq \in Request /\ xfer \in Nat /\ Issued \in Int
      /\ wreq.off \in Nat /\ wreq.len \in Nat /\ wreq.id \in Nat
      /\ \A b \in Block : /\ cache[b] \in Int /\ global[b] \in Int /\ acked[b] \in Int
                          /\ b \in Int
  BY Zenon, VersionFacts
<1>1. /\ mpc = "pwrite" /\ mpc' = "pwrite" /\ wreq.id = nw
      /\ UNCHANGED <<acked, nw, wreq, pen, sub, tpc, treq, toff, tbuf>>
  BY Zenon, <1>0 DEF WritePwrite, ControlInv, queues, threads, history
<1>2. PICK n \in 1 .. wreq.len - xfer :
        /\ xfer' = xfer + n
        /\ cache' = IF isOpen THEN Overwritten(cache, n) ELSE cache
        /\ global' = IF isOpen THEN global ELSE Overwritten(global, n)
  BY Zenon DEF WritePwrite
<1>3. xfer' <= wreq.len /\ xfer' \in Nat /\ n \in Nat
  BY <1>v, <1>2
<1>4. \A b \in Span(wreq, 0, xfer') : b \in Span(wreq, 0, xfer) \/ b \in Span(wreq, xfer, n)
  BY SMTT(30), <1>v, <1>2, <1>3 DEF Span
<1>5. Issued' = Issued /\ \A t \in Thread : Chunk(t)' = Chunk(t)
  BY Zenon, <1>1 DEF Issued, Chunk, Span, Count
<1>11. /\ cache' = cache /\ \A b \in Block : global'[b] \in {global[b], nw}
      /\ \A b \in Span(wreq, xfer, n) : global'[b] = nw
  BY Zenon, <1>0, <1>1, <1>2 DEF ControlInv, Overwritten, Span
<1>12. \A b \in Block : global[b] <= global'[b] /\ global'[b] <= nw /\ global'[b] \in Int
  BY SMTT(30), <1>0, <1>v, <1>11 DEF VersionInv, BlockVersions
<1>13. \A b \in Span(wreq, 0, xfer') : global'[b] = nw
  <2>1. \A b \in Span(wreq, 0, xfer) : global[b] = nw /\ b \in Block
    BY Zenon, <1>0, <1>1 DEF VersionInv, WriteVersions, Span
  <2> QED BY Zenon, <1>4, <1>11, <2>1
<1>14. \A b \in Block : acked[b] <= global'[b]
  BY SMTT(30), <1>0, <1>v, <1>12 DEF VersionInv, BlockVersions
<1>15. \A t \in Thread : tpc[t] = "exited"
  BY Zenon, <1>0, HintAssumption DEF ControlInv, CleanInv, ShutdownInv, Gone
<1>16. VersionInv'
  <2>1. BlockVersions'
    BY ZenonT(30), <1>0, <1>1, <1>3, <1>5, <1>11, <1>12, <1>13, <1>14, <1>15
    DEF VersionInv, BlockVersions, Span
  <2>2. WriteVersions'
    BY ZenonT(30), <1>0, <1>1, <1>3, <1>5, <1>11, <1>12, <1>13, <1>14, <1>15
    DEF VersionInv, WriteVersions, Span
  <2>3. BufferVersions'
    BY ZenonT(30), <1>0, <1>1, <1>3, <1>5, <1>11, <1>12, <1>13, <1>14, <1>15
    DEF VersionInv, BufferVersions, Span
  <2> QED BY Zenon, <2>1, <2>2, <2>3 DEF VersionInv
<1>17. DirtyHasOwner'
  <2>1. \A b \in Block : /\ acked'[b] = acked[b] /\ acked[b] \in Int
                         /\ global'[b] \in Int /\ acked[b] <= global'[b]
    BY Zenon, <1>v, <1>1, <1>12, <1>14
  <2>2. \A b \in Block : ~ (global'[b] < acked'[b])
    BY <2>1
  <2> QED BY Zenon, <2>2 DEF DirtyHasOwner
<1> QED BY Zenon, <1>16, <1>17

LEMMA DurablePwrite ==
  ASSUME Dependable, DurableInv, WritePwrite
  PROVE  VersionInv' /\ DirtyHasOwner'
BY Zenon, PwriteCached, PwriteGlobal

(*****************************************************************************)
(* The clean shutdown of the pool.                                          *)
(*****************************************************************************)

(* A step that touches no queue and no thread's place.                     *)
LEMMA SameThreads ==
  ASSUME UNCHANGED <<queues, tpc>>, NEW t \in Thread
  PROVE  /\ Idle(t)' <=> Idle(t)
         /\ Gone(t)' <=> Gone(t)
         /\ Joining(t)' <=> Joining(t)
BY Zenon DEF Idle, Gone, Joining, Empty, queues

(* The step of any actor.                                                  *)
LEMMA CleanNext ==
  ASSUME AlwaysFlushes, LifetimeInv, CleanInv, [Next]_vars
  PROVE  CleanInv'
<1> USE SizeAssumption
<1>0. /\ TypeOK /\ ControlInv /\ idx \in Int /\ NThreads \in Int
      /\ \A t \in Thread : t \in Int /\ 0 <= t /\ t < NThreads
  BY Zenon, CleanFacts
<1>1. ASSUME NEW e \in Extents, WriteBegin(e) PROVE CleanInv'
  BY <1>0, <1>1, SameThreads
  DEF WriteBegin, ControlInv, CleanInv, FlushInv, ShutdownInv, Live,
      files, handle, queues, main, threads, history
<1>2. ASSUME Sync PROVE CleanInv'
  BY <1>0, <1>2, HintAssumption, SameThreads
  DEF Sync, FlushBegin, ControlInv, CleanInv, FlushInv, ShutdownInv, Live,
      files, handle, queues, main, threads, history
<1>3. ASSUME CacheAllocFail PROVE CleanInv'
  BY <1>0, <1>3, SameThreads
  DEF CacheAllocFail, FlushBegin, ControlInv, CleanInv, FlushInv, ShutdownInv, Live,
      files, handle, queues, main, threads, history
<1>4. ASSUME Close PROVE CleanInv'
  BY <1>0, <1>4, SameThreads
  DEF Close, FlushBegin, ControlInv, CleanInv, FlushInv, ShutdownInv, Live,
      files, handle, queues, main, threads, history
<1>5. ASSUME NEW f \in NewFlags, SetInfo(f) PROVE CleanInv'
  BY <1>0, <1>5, SameThreads
  DEF SetInfo, AlwaysFlushes, ControlInv, CleanInv, FlushInv, ShutdownInv, Live,
      files, handle, queues, main, threads, history
<1>6. ASSUME WritePwrite PROVE CleanInv'
  BY <1>0, <1>6, SameThreads
  DEF WritePwrite, ControlInv, CleanInv, FlushInv, ShutdownInv, Live,
      files, handle, queues, main, threads, history
<1>7. ASSUME WriteFail PROVE CleanInv'
  BY <1>0, <1>7, SameThreads
  DEF WriteFail, ControlInv, CleanInv, FlushInv, ShutdownInv, Live,
      files, handle, queues, main, threads, history
<1>8. ASSUME Fsync PROVE CleanInv'
  BY <1>0, <1>8, SameThreads
  DEF Fsync, ControlInv, CleanInv, FlushInv, ShutdownInv, Live,
      files, handle, queues, main, threads, history
<1>9. ASSUME FlushReturn PROVE CleanInv'
  BY <1>0, <1>9, SameThreads
  DEF FlushReturn, ControlInv, CleanInv, FlushInv, ShutdownInv, Live,
      files, handle, queues, main, threads, history
<1>10. ASSUME CloseGlobal PROVE CleanInv'
  BY <1>0, <1>10, SameThreads
  DEF CloseGlobal, ControlInv, CleanInv, FlushInv, ShutdownInv, Live,
      files, handle, queues, main, threads, history
<1>11. ASSUME CloseCache PROVE CleanInv'
  BY <1>0, <1>11, SameThreads
  DEF CloseCache, ControlInv, CleanInv, FlushInv, ShutdownInv, Live,
      files, handle, queues, main, threads, history
<1>12. ASSUME UNCHANGED vars PROVE CleanInv'
  BY <1>12, SameThreads
  DEF vars, CleanInv, FlushInv, ShutdownInv, Live, files, handle, queues, main, threads
<1> QED
  BY <1>1, <1>2, <1>3, <1>4, <1>5, <1>6, <1>7, <1>8, <1>9, <1>10, <1>11, <1>12,
     CleanEnqueue, CleanWriteFlush, CleanFlush, CleanWait, CleanFini, CleanJoin,
     CleanPoolFini, CleanFront, CleanBusy
  DEF Next, Call, MainStep, ThreadStep, Terminated

(* When the flush flag is never flush_none, the threads that are shut down *)
(* have nothing left in their queues.                                      *)
THEOREM CleanShutdown == ASSUME AlwaysFlushes PROVE Spec => []NothingAbandoned
<1>1. Init => LifetimeInv /\ CleanInv
  BY Zenon, LifetimeInit, CleanInit
<1>2. LifetimeInv /\ CleanInv /\ [Next]_vars => LifetimeInv' /\ CleanInv'
  BY Zenon, LifetimeNext, CleanNext
<1>3. LifetimeInv /\ CleanInv => NothingAbandoned
  <2> SUFFICES ASSUME LifetimeInv, CleanInv, NEW t \in Thread, tpc[t] = "exited"
               PROVE  Empty(t)
    BY Zenon DEF NothingAbandoned, Empty
  <2>1. (~ Idle(t) /\ (Joining(t) => Gone(t)) /\ ~ Live) \/ Empty(t)
    BY Zenon DEF Idle, Joining, LifetimeInv, YoungestInv, YoungestOf
  <2>2. idx \in Int /\ t \in Int
    BY SMTT(30), SizeAssumption DEF LifetimeInv, TypeOK, TypeMain, Thread
  <2> QED BY SMTT(30), <2>1, <2>2 DEF CleanInv, ShutdownInv, Gone, Live
<1> QED BY <1>1, <1>2, <1>3, PTL DEF Spec

(* Under the same condition no thread reads from the closed cache file.    *)
THEOREM CacheOpen == ASSUME AlwaysFlushes PROVE Spec => []CacheOpenWhileRead
<1>1. Init => LifetimeInv /\ CleanInv
  BY Zenon, LifetimeInit, CleanInit
<1>2. LifetimeInv /\ CleanInv /\ [Next]_vars => LifetimeInv' /\ CleanInv'
  BY Zenon, LifetimeNext, CleanNext
<1>3. LifetimeInv /\ CleanInv => CacheOpenWhileRead
  <2> SUFFICES ASSUME LifetimeInv, CleanInv, NEW t \in Thread, tpc[t] = "pread"
               PROVE  cacheFd
    BY Zenon DEF CacheOpenWhileRead
  <2>1. Busy(t)
    BY Zenon DEF Busy
  <2>2. Live /\ pool
    BY Zenon, <2>1, BusyMeansLive
  <2>3. CacheIsOpen
    BY Zenon, <2>2, HintAssumption DEF LifetimeInv, ControlInv
  <2> QED BY <2>2, <2>3 DEF CleanInv, ShutdownInv
<1> QED BY <1>1, <1>2, <1>3, PTL DEF Spec
-------------------------------------------------------------------------------
(* WriteContig acknowledges the write and makes its request.               *)
LEMMA DurableEnqueue ==
  ASSUME Dependable, DurableInv, WriteEnqueue
  PROVE  VersionInv' /\ DirtyHasOwner'
<1> USE SizeAssumption
<1>0. /\ TypeOK /\ ControlInv /\ LifetimeInv /\ CleanInv /\ VersionInv /\ DirtyHasOwner
      /\ TypeQueues
  BY Zenon DEF DurableInv, LifetimeInv, TypeOK, TypeQueues
<1>v. /\ nw \in Nat /\ wreq \in Request /\ xfer \in Nat /\ Issued \in Int
      /\ wreq.off \in Nat /\ wreq.len \in Nat /\ wreq.id \in Nat
      /\ \A b \in Block : /\ cache[b] \in Int /\ global[b] \in Int /\ acked[b] \in Int
                          /\ b \in Int
  BY Zenon, VersionFacts
<1>1. /\ mpc = "pwrite" /\ mpc' # "pwrite" /\ xfer = wreq.len /\ wreq.id = nw
      /\ UNCHANGED <<cache, global, nw, wreq, xfer, sub, tpc, treq, toff, tbuf>>
  BY Zenon, <1>0 DEF WriteEnqueue, ControlInv, files, threads
<1>2. CASE mpc' = "crashed"
  BY Zenon, DurableQuiet, <1>1, <1>2 DEF WriteEnqueue
<1>3. CASE mpc' # "crashed"
  <2>1. acked' = [b \in Block |-> IF b \in BlocksOf(wreq) THEN nw ELSE acked[b]]
    BY Zenon, <1>1, <1>3 DEF WriteEnqueue, Acknowledge
  <2>2. \A b \in BlocksOf(wreq) : (IF CacheIsOpen THEN cache[b] ELSE global[b]) = nw
    BY Zenon, <1>0, <1>1 DEF VersionInv, WriteVersions, BlocksOf
  <2>3. Issued' = nw /\ Issued <= nw /\ \A t \in Thread : Chunk(t)' = Chunk(t)
    BY <1>v, <1>1 DEF Issued, Chunk, Span, Count
  <2>4. \A b \in Block : /\ acked'[b] <= nw
                         /\ CacheIsOpen => acked'[b] <= cache[b]
                         /\ ~ CacheIsOpen => acked'[b] <= global[b]
    BY <1>0, <1>v, <2>1, <2>2, <2>3 DEF VersionInv, BlockVersions
  <2>5. VersionInv'
    <3>1. BlockVersions'
      BY Zenon, <1>0, <1>1, <2>3, <2>4 DEF VersionInv, BlockVersions
    <3>2. WriteVersions'
      BY Zenon, <1>0, <1>1, <2>3, <2>4 DEF VersionInv, WriteVersions
    <3>3. BufferVersions'
      BY Zenon, <1>0, <1>1, <2>3, <2>4 DEF VersionInv, BufferVersions
    <3> QED BY Zenon, <3>1, <3>2, <3>3 DEF VersionInv
  <2>6. CASE ~ CacheIsOpen
    <3>1. \A b \in Block : ~ (global'[b] < acked'[b])
      BY <1>v, <1>1, <2>1, <2>4, <2>6
    <3>2. DirtyHasOwner'
      BY Zenon, <3>1 DEF DirtyHasOwner
    <3> QED BY Zenon, <2>5, <3>2
  <2>7. CASE CacheIsOpen
    <3>1. pen' = [pen EXCEPT ![curr] = Append(@, wreq)] /\ curr \in Thread
      BY <1>0, <1>3, <2>7
      DEF WriteEnqueue, ControlInv, CleanInv, FlushInv, TypeOK, TypeHandle, TypeQueues, TypeMain
    <3>2. PICK c \in Thread : c = curr
      BY Zenon, <3>1
    <3>3. pen[c] \in Seq(Request) /\ pen'[c] = Append(pen[c], wreq)
      BY Zenon, <1>0, <3>1, <3>2 DEF TypeQueues
    <3>4. Elements(pen'[c]) = Elements(pen[c]) \cup {wreq}
      <4>1. Elements(Append(pen[c], wreq)) = Elements(pen[c]) \cup {wreq}
        BY <1>v, <3>3, PushElements
      <4> QED BY Zenon, <3>3, <4>1
    <3>5. \A u \in Thread : u # c => pen'[u] = pen[u]
      BY Zenon, <1>0, <3>1, <3>2 DEF TypeQueues
    <3>6. DirtyHasOwner'
      <4> SUFFICES ASSUME NEW b \in Block, global[b] < acked'[b]
                   PROVE  \E u \in Thread :
                            \/ \E r \in Elements(pen'[u]) \cup Elements(sub[u]) : b \in BlocksOf(r)
                            \/ /\ tpc[u] \in {"pread", "pwrite"}
                               /\ b \in Span(treq[u], toff[u], treq[u].len - toff[u])
                               /\ tpc[u] = "pwrite" /\ b \in Chunk(u) => tbuf[u][b] >= acked'[b]
        BY Zenon, <1>1, <2>3 DEF DirtyHasOwner
      <4>1. CASE b \in BlocksOf(wreq)
        BY Zenon, <3>4, <4>1
      <4>2. CASE b \notin BlocksOf(wreq)
        <5>1. acked'[b] = acked[b]
          BY Zenon, <2>1, <4>2
        <5>2. \A u \in Thread : Elements(pen[u]) \subseteq Elements(pen'[u])
          BY Zenon, <3>4, <3>5
        <5> QED BY Zenon, <1>0, <5>1, <5>2 DEF DirtyHasOwner
      <4> QED BY Zenon, <4>1, <4>2
    <3> QED BY Zenon, <2>5, <3>6
  <2> QED BY Zenon, <2>6, <2>7
<1> QED BY Zenon, <1>2, <1>3

(* The requests pass from pen_ to sub_.                                    *)
LEMMA DurableFlushes ==
  ASSUME Dependable, DurableInv, WriteFlush \/ FlushThreads
  PROVE  VersionInv' /\ DirtyHasOwner'
<1> USE SizeAssumption
<1>0. /\ TypeOK /\ ControlInv /\ LifetimeInv /\ CleanInv /\ VersionInv /\ DirtyHasOwner
      /\ TypeQueues
  BY Zenon DEF DurableInv, LifetimeInv, TypeOK, TypeQueues
<1>v. /\ nw \in Nat /\ wreq \in Request /\ xfer \in Nat /\ Issued \in Int
      /\ wreq.off \in Nat /\ wreq.len \in Nat /\ wreq.id \in Nat
      /\ \A b \in Block : /\ cache[b] \in Int /\ global[b] \in Int /\ acked[b] \in Int
                          /\ b \in Int
  BY Zenon, VersionFacts
<1>1. /\ UNCHANGED <<cache, global, acked, nw, wreq, xfer, tpc, treq, toff, tbuf>>
      /\ mpc' # "pwrite"
  BY Zenon DEF WriteFlush, FlushThreads, files, threads, history
<1>2. UNCHANGED <<pen, sub>> \/ \E t \in Thread : FlushOne(t)
  BY SMTT(30), <1>0
  DEF WriteFlush, FlushThreads, queues, TypeOK, TypeHandle, TypeQueues, TypeMain, Thread
<1>3. VersionInv'
  BY Zenon, <1>0, <1>1, SameVersions
<1>4. DirtyHasOwner'
  BY Zenon, <1>0, <1>1, <1>2, SameOwners, FlushOneOwners
<1> QED BY Zenon, <1>3, <1>4

(* The shutdown request covers no block.                                   *)
LEMMA DurableShutdown ==
  ASSUME Dependable, DurableInv, ThreadShutdown
  PROVE  VersionInv' /\ DirtyHasOwner'
<1> USE SizeAssumption
<1>0. /\ TypeOK /\ ControlInv /\ LifetimeInv /\ CleanInv /\ VersionInv /\ DirtyHasOwner
      /\ TypeQueues
  BY Zenon DEF DurableInv, LifetimeInv, TypeOK, TypeQueues
<1>v. /\ nw \in Nat /\ wreq \in Request /\ xfer \in Nat /\ Issued \in Int
      /\ wreq.off \in Nat /\ wreq.len \in Nat /\ wreq.id \in Nat
      /\ \A b \in Block : /\ cache[b] \in Int /\ global[b] \in Int /\ acked[b] \in Int
                          /\ b \in Int
  BY Zenon, VersionFacts
<1>1. /\ UNCHANGED <<cache, global, acked, nw, wreq, xfer, tpc, treq, toff, tbuf, pen>>
      /\ mpc' # "pwrite" /\ sub' = [sub EXCEPT ![idx] = Append(@, Shutdown)]
  BY Zenon DEF ThreadShutdown, files, threads, history
<1>2. PICK i \in Thread : i = idx
  BY <1>0 DEF ThreadShutdown, TypeOK, TypeQueues, TypeMain, Thread
<1>3. /\ sub[i] \in Seq(Request) /\ sub'[i] = Append(sub[i], Shutdown) /\ Shutdown \in Request
      /\ \A u \in Thread : u # i => sub'[u] = sub[u]
  BY Zenon, <1>0, <1>1, <1>2 DEF TypeQueues, Shutdown, Request
<1>4. Elements(sub'[i]) = Elements(sub[i]) \cup {Shutdown}
  <2>1. Elements(Append(sub[i], Shutdown)) = Elements(sub[i]) \cup {Shutdown}
    BY <1>3, PushElements
  <2> QED BY Zenon, <1>3, <2>1
<1>5. VersionInv'
  BY Zenon, <1>0, <1>1, SameVersions
<1>6. DirtyHasOwner'
  BY Zenon, <1>0, <1>1, <1>3, <1>4, SameOwners
<1> QED BY Zenon, <1>5, <1>6
-------------------------------------------------------------------------------
(* The initial states.                                                     *)
LEMMA DurableInit == Dependable /\ Init => DurableInv
<1> SUFFICES ASSUME Dependable, Init PROVE DurableInv
  BY Zenon
<1>1. LifetimeInv /\ CleanInv
  BY Zenon, LifetimeInit, CleanInit DEF Dependable
<1>2. Issued = 0
  BY Zenon DEF Init, Issued
<1>3. VersionInv
  BY <1>2, HintAssumption
  DEF Init, VersionInv, BlockVersions, WriteVersions, BufferVersions
<1>4. DirtyHasOwner
  BY DEF Init, DirtyHasOwner
<1> QED BY Zenon, <1>1, <1>3, <1>4 DEF DurableInv

(* The steps of the main thread.                                           *)
LEMMA DurableMain ==
  ASSUME Dependable, DurableInv, Call \/ MainStep \/ UNCHANGED vars
  PROVE  VersionInv' /\ DirtyHasOwner'
<1>1. ASSUME Sync \/ CacheAllocFail \/ Close \/ WriteFail \/ WaitThreads \/ Fsync
             \/ FlushReturn \/ CloseCache \/ ThreadJoin \/ PoolFini \/ CloseGlobal
      PROVE  VersionInv' /\ DirtyHasOwner'
  BY Zenon, <1>1, DurableQuiet
  DEF Sync, CacheAllocFail, Close, FlushBegin, WriteFail, WaitThreads, Fsync, FlushReturn,
      CloseCache, ThreadJoin, PoolFini, CloseGlobal, files, queues, threads, history
<1>2. ASSUME (\E f \in NewFlags : SetInfo(f)) \/ UNCHANGED vars
      PROVE  VersionInv' /\ DirtyHasOwner'
  BY Zenon, <1>2, DurableQuiet DEF SetInfo, vars, files, queues, main, threads, history
<1> QED BY Zenon, <1>1, <1>2, DurableBegin, DurablePwrite, DurableEnqueue, DurableFlushes,
           DurableShutdown
        DEF Call, MainStep

(* The invariant of the durable cache is inductive.                        *)
LEMMA DurableNext ==
  ASSUME Dependable, DurableInv, [Next]_vars
  PROVE  DurableInv'
<1>1. LifetimeInv' /\ CleanInv'
  BY Zenon, LifetimeNext, CleanNext DEF DurableInv, Dependable
<1>2. VersionInv' /\ DirtyHasOwner'
  BY Zenon, DurableThread, DurableMain DEF Next, Terminated
<1> QED BY Zenon, <1>1, <1>2 DEF DurableInv

(* Nobody owns a block once Flush has emptied the queues.                  *)
LEMMA DurableFlush == ASSUME DurableInv PROVE FlushedMeansTransferred
<1>0. TypeOK /\ CleanInv /\ ControlInv /\ DirtyHasOwner
  BY Zenon DEF DurableInv, LifetimeInv
<1> SUFFICES ASSUME mpc \in {"flushed", "closeCache", "fini", "join", "delete", "closed"},
                    NEW b \in Block, global[b] < acked[b]
             PROVE  FALSE
  BY SMTT(30), <1>0 DEF FlushedMeansTransferred, TypeOK, TypeFiles, TypeHistory
<1>1. PICK t \in Thread :
        \/ \E r \in Elements(pen[t]) \cup Elements(sub[t]) : b \in BlocksOf(r)
        \/ tpc[t] \in {"pread", "pwrite"}
  BY Zenon, <1>0 DEF DirtyHasOwner
<1>2. idx \in Int /\ t \in Int
  BY SMTT(30), <1>0, SizeAssumption DEF TypeOK, TypeMain, Thread
<1>3. Idle(t) \/ Gone(t) \/ Joining(t)
  <2>1. t < idx \/ t = idx \/ t > idx
    BY <1>2
  <2> QED BY Zenon, <1>0, <2>1 DEF CleanInv, ShutdownInv, ControlInv
<1>4. pen[t] = <<>> /\ (sub[t] = <<>> \/ sub[t] = <<Shutdown>>) /\ tpc[t] \in {"front", "exited"}
  BY Zenon, <1>3 DEF Idle, Gone, Joining, Empty
<1>5. Elements(pen[t]) = {} /\ Elements(sub[t]) \subseteq {Shutdown}
  BY <1>4 DEF Elements
<1>6. BlocksOf(Shutdown) = {}
  BY SizeAssumption DEF BlocksOf, Span, Shutdown, Block
<1> QED BY Zenon, <1>1, <1>4, <1>5, <1>6

(* With one sync thread whose reads and writes do not fail and a flag that *)
(* is never flush_none, the global file holds every acknowledged write     *)
(* when Flush returns and until the file is closed.                        *)
THEOREM Durability == ASSUME Dependable PROVE Spec => []FlushedMeansTransferred
<1>1. Init => DurableInv
  BY Zenon, DurableInit
<1>2. DurableInv /\ [Next]_vars => DurableInv'
  BY Zenon, DurableNext
<1>3. DurableInv => FlushedMeansTransferred
  BY Zenon, DurableFlush
<1> QED BY <1>1, <1>2, <1>3, PTL DEF Spec

(* Under the same condition a dirty block is always in someone's hands.    *)
THEOREM DirtyOwned == ASSUME Dependable PROVE Spec => []DirtyHasOwner
<1>1. Init => DurableInv
  BY Zenon, DurableInit
<1>2. DurableInv /\ [Next]_vars => DurableInv'
  BY Zenon, DurableNext
<1>3. DurableInv => DirtyHasOwner
  BY Zenon DEF DurableInv
<1> QED BY <1>1, <1>2, <1>3, PTL DEF Spec
-----------------------------------------------------------------------------
LEMMA CallNext == CallInv /\ [Next]_vars => CallInv'
<1> SUFFICES ASSUME CallInv, [Next]_vars PROVE CallInv'
  BY Zenon
<1>1. CASE Call
  BY Zenon, <1>1
  DEF Call, WriteBegin, Sync, CacheAllocFail, Close, FlushBegin, SetInfo, CallInv, main
<1>2. CASE WritePwrite \/ WriteFail \/ WriteEnqueue \/ WriteFlush
  BY Zenon, <1>2 DEF WritePwrite, WriteFail, WriteEnqueue, WriteFlush, CallInv
<1>3. CASE FlushThreads \/ WaitThreads \/ Fsync \/ FlushReturn
  BY Zenon, <1>3 DEF FlushThreads, WaitThreads, Fsync, FlushReturn, CallInv
<1>4. CASE CloseCache \/ ThreadShutdown \/ ThreadJoin \/ PoolFini \/ CloseGlobal
  BY Zenon, <1>4
  DEF CloseCache, ThreadShutdown, ThreadJoin, PoolFini, CloseGlobal, CallInv
<1>5. CASE (\E t \in Thread : ThreadStep(t)) \/ UNCHANGED vars
  BY <1>5
  DEF ThreadStep, ThreadFront, ThreadRead, ThreadWrite, ThreadUnlock, ThreadComplete, vars,
      CallInv, main
<1> QED BY Zenon, <1>1, <1>2, <1>3, <1>4, <1>5 DEF Next, MainStep, Terminated

(* Only a pwrite of the main thread or of a sync thread changes the global *)
(* file, and neither writes an older version.                              *)
LEMMA GlobalGrows ==
  ASSUME Dependable, DurableInv, [Next]_vars
  PROVE  \A b \in Block : global'[b] >= global[b]
<1>0. TypeOK /\ ControlInv /\ LifetimeInv /\ CleanInv /\ VersionInv
  BY Zenon DEF DurableInv, LifetimeInv
<1>v. \A b \in Block : global[b] \in Int /\ global[b] <= nw /\ global[b] >= global[b]
  BY <1>0 DEF TypeOK, TypeFiles, TypeMain, VersionInv, BlockVersions
<1>1. CASE global' = global
  BY Zenon, <1>v, <1>1
<1>2. CASE WritePwrite
  <2>1. mpc = "pwrite" /\ wreq.id = nw
    BY ZenonT(30), <1>0, <1>2 DEF WritePwrite, ControlInv
  <2>2. \A b \in Block : global'[b] \in {global[b], nw}
    BY Zenon, <1>2, <2>1 DEF WritePwrite, Overwritten
  <2> QED BY ZenonT(30), <1>v, <2>2
<1>3. ASSUME NEW t \in Thread, ThreadWrite(t) PROVE \A b \in Block : global'[b] >= global[b]
  <2>1. ~ (syncErrors < MaxSyncErrors)
    BY SMTT(30), <1>0 DEF TypeOK, TypeHistory, Dependable
  <2>2. global' = [b \in Block |-> IF b \in Chunk(t) THEN tbuf[t][b] ELSE global[b]]
    BY Zenon, <1>3, <2>1 DEF ThreadWrite, Chunk
  <2>3. \A b \in Chunk(t) : global[b] <= tbuf[t][b] /\ tbuf[t][b] \in Int
    BY SMTT(30), <1>0, <1>3
    DEF VersionInv, BufferVersions, ThreadWrite, TypeOK, TypeFiles, TypeTpc, TypeThreads, Chunk, Span
  <2> QED BY ZenonT(30), <1>v, <2>2, <2>3
<1>4. global' = global \/ WritePwrite \/ \E t \in Thread : ThreadWrite(t)
  <2>1. CASE Call
    BY Zenon, <2>1 DEF Call, WriteBegin, Sync, CacheAllocFail, Close, SetInfo, files
  <2>2. CASE MainStep
    BY ZenonT(30), <2>2
    DEF MainStep, WriteFail, WriteEnqueue, WriteFlush, FlushThreads, WaitThreads, Fsync,
        FlushReturn, CloseCache, ThreadShutdown, ThreadJoin, PoolFini, CloseGlobal, files
  <2>3. CASE \E t \in Thread : ThreadStep(t)
    BY Zenon, <2>3
    DEF ThreadStep, ThreadFront, ThreadRead, ThreadUnlock, ThreadComplete, files
  <2>4. CASE UNCHANGED vars
    BY Zenon, <2>4 DEF vars, files
  <2> QED BY Zenon, <2>1, <2>2, <2>3, <2>4 DEF Next, Terminated
<1> QED BY Zenon, <1>1, <1>2, <1>3, <1>4

(* The global file never goes back to an older version.                    *)
THEOREM NoOldVersion == ASSUME Dependable PROVE Spec => NeverBack
<1>1. Init => DurableInv
  BY Zenon, DurableInit
<1>2. DurableInv /\ [Next]_vars => DurableInv'
  BY Zenon, DurableNext
<1>3. DurableInv /\ [Next]_vars => [\A b \in Block : global'[b] >= global[b]]_global
  BY Zenon, GlobalGrows
<1> QED BY <1>1, <1>2, <1>3, PTL DEF Spec, NeverBack

(* Every acknowledged write is in the global file: the queues are empty.   *)
LEMMA DurableFsync == ASSUME DurableInv, mpc = "fsync" PROVE \A b \in Block : global[b] >= acked[b]
<1>0. TypeOK /\ CleanInv /\ ControlInv /\ DirtyHasOwner
  BY SMTT(30) DEF DurableInv, LifetimeInv
<1>1. \A t \in Thread : Gone(t)
  BY Zenon, <1>0 DEF CleanInv, FlushInv, ShutdownInv
<1>2. \A t \in Thread : Elements(pen[t]) = {} /\ Elements(sub[t]) = {} /\ tpc[t] = "exited"
  BY SMTT(30), <1>1 DEF Gone, Empty, Elements
<1>3. \A b \in Block : ~ (global[b] < acked[b])
  BY Zenon, <1>0, <1>2 DEF DirtyHasOwner
<1> QED BY <1>0, <1>3 DEF TypeOK, TypeFiles, TypeHistory

(* WriteContig acknowledges a version younger than all the others.         *)
LEMMA AcceptStep ==
  ASSUME DurableInv, CallInv, WriteEnqueue, mpc' # "crashed"
  PROVE  Abstract!Accept
<1>0. TypeOK /\ ControlInv /\ VersionInv
  BY Zenon DEF DurableInv, LifetimeInv
<1>1. /\ mpc = "pwrite" /\ op = "write" /\ op' \in {"write", "none"} /\ wreq.id = nw
      /\ global' = global
      /\ acked' = [b \in Block |-> IF b \in BlocksOf(wreq) THEN nw ELSE acked[b]]
  BY Zenon, <1>0 DEF WriteEnqueue, Acknowledge, CallInv, ControlInv, files
<1>2. \A b \in Block : acked[b] \in Nat /\ acked[b] < nw /\ nw \in Nat
  BY SMTT(30), <1>0, <1>1
  DEF VersionInv, BlockVersions, Issued, TypeOK, TypeMain, TypeHistory
<1>3. \A b \in Block : acked'[b] \in {acked[b], nw}
  BY Zenon, <1>1
<1> QED BY Zenon, <1>1, <1>2, <1>3 DEF Abstract!Accept

LEMMA RefinesStep ==
  ASSUME Dependable, DurableInv, CallInv, [Next]_vars
  PROVE  [Abstract!Next]_(Abstract!vars)
<1> DEFINE Same == UNCHANGED <<global, acked, op>>
<1>g. \A b \in Block : global'[b] >= global[b]
  BY Zenon, GlobalGrows
<1>d. mpc \in {"flushed", "fini", "delete", "fsync"} => \A b \in Block : global[b] >= acked[b]
  BY Zenon, DurableFlush, DurableFsync DEF FlushedMeansTransferred
<1>s. Same => [Abstract!Next]_(Abstract!vars)
  BY Zenon DEF Abstract!vars
<1>t. UNCHANGED <<acked, op>> => [Abstract!Next]_(Abstract!vars)
  BY Zenon, <1>g DEF Abstract!Next, Abstract!Transfer
<1>r. ASSUME UNCHANGED <<global, acked>>, op # "none", op' = "none",
             op # "write" => \A b \in Block : global[b] >= acked[b]
      PROVE  [Abstract!Next]_(Abstract!vars)
  BY Zenon, <1>r DEF Abstract!Next, Abstract!Return, Abstract!Durable
<1>i. ASSUME UNCHANGED <<global, acked>>, op = "none", op' # "none"
      PROVE  [Abstract!Next]_(Abstract!vars)
  BY Zenon, <1>i DEF Abstract!Next, Abstract!Invoke
<1> HIDE DEF Same
<1>1. CASE Call
  <2>1. CASE \E f \in NewFlags : SetInfo(f)
    BY Zenon, <1>t, <2>1 DEF SetInfo, main, history
  <2>2. CASE (\E e \in Extents : WriteBegin(e)) \/ Sync \/ CacheAllocFail \/ Close
    BY Zenon, <1>i, <2>2
    DEF WriteBegin, Sync, CacheAllocFail, Close, FlushBegin, CallInv, files, history
  <2> QED BY Zenon, <1>1, <2>1, <2>2 DEF Call
<1>2. CASE WriteEnqueue
  <2>1. CASE mpc' = "crashed"
    BY Zenon, <1>2, <1>t, <2>1 DEF WriteEnqueue
  <2>2. CASE mpc' # "crashed"
    BY Zenon, <1>2, <2>2, AcceptStep DEF Abstract!Next
  <2> QED BY Zenon, <2>1, <2>2
<1>3. CASE WritePwrite \/ FlushThreads \/ WaitThreads \/ CloseCache \/ ThreadShutdown \/ ThreadJoin
  BY Zenon, <1>3, <1>t
  DEF WritePwrite, FlushThreads, WaitThreads, CloseCache, ThreadShutdown, ThreadJoin, history
<1>4. CASE WriteFail \/ WriteFlush
  <2>1. op = "write" /\ UNCHANGED <<global, acked>> /\ op' \in {op, "none"}
    BY ZenonT(30), <1>4 DEF WriteFail, WriteFlush, CallInv, files, history
  <2> QED BY Zenon, <1>r, <1>t, <2>1
<1>5. CASE Fsync \/ FlushReturn \/ PoolFini \/ CloseGlobal
  <2>1. /\ op \in {"sync", "alloc", "close"} /\ UNCHANGED <<global, acked>> /\ op' \in {op, "none"}
        /\ mpc \in {"flushed", "fini", "delete", "fsync"}
    <3>1. CASE Fsync
      BY Zenon, <3>1 DEF Fsync, CallInv
    <3>2. CASE FlushReturn
      BY Zenon, <3>2 DEF FlushReturn, CallInv, files, history
    <3>3. CASE PoolFini
      BY Zenon, <3>3 DEF PoolFini, CallInv, files, history
    <3>4. CASE CloseGlobal
      BY Zenon, <3>4 DEF CloseGlobal, CallInv, files, history
    <3> QED BY Zenon, <1>5, <3>1, <3>2, <3>3, <3>4
  <2> QED BY Zenon, <1>d, <1>r, <1>t, <2>1
<1>6. CASE (\E t \in Thread : ThreadStep(t)) \/ UNCHANGED vars
  BY <1>6, <1>t
  DEF ThreadStep, ThreadFront, ThreadRead, ThreadWrite, ThreadUnlock, ThreadComplete, main,
      history, vars
<1> QED BY Zenon, <1>1, <1>2, <1>3, <1>4, <1>5, <1>6 DEF Next, MainStep, Terminated

(* The cache with one dependable thread implements a write-back file.      *)
THEOREM Refinement == ASSUME Dependable PROVE Spec => ImplementsWriteBack
<1>1. Init => DurableInv /\ CallInv /\ Abstract!Init
  BY Zenon, DurableInit DEF Init, CallInv, Abstract!Init
<1>2. DurableInv /\ CallInv /\ [Next]_vars => DurableInv' /\ CallInv'
  BY Zenon, DurableNext, CallNext
<1>3. DurableInv /\ CallInv /\ [Next]_vars => [Abstract!Next]_(Abstract!vars)
  BY Zenon, RefinesStep
<1> QED BY <1>1, <1>2, <1>3, PTL DEF Spec, ImplementsWriteBack, Abstract!Spec
------------------------------------------------------------------------------
(* The locks of the coherent cache.                                        *)

(* A step that keeps the locks, and with each the one who will release it. *)
LEMMA LocksQuiet ==
  ASSUME LocksInv, locks' \subseteq locks, e10Cache' => e10Cache,
         ~ cacheFd' /\ e10Cache' => mpc' \in {"fini", "join", "delete", "closed"},
         e10Cache' /\ writeErrors' = 0 /\ mpc' # "crashed" =>
           /\ writeErrors = 0 /\ mpc # "crashed"
           /\ \A b \in locks' : Unreleased(b) => Unreleased(b)'
  PROVE  LocksInv'
<1>1. ~ Coherent => locks' = {}
  BY Zenon DEF LocksInv
<1> QED BY Zenon, <1>1 DEF LocksInv

LEMMA UnreleasedStays ==
  ASSUME UNCHANGED <<tpc, treq>>, mpc = "pwrite" => mpc' = "pwrite" /\ wreq' = wreq,
         \A u \in Thread : \A r \in Elements(pen[u]) \cup Elements(sub[u]) :
           r \in Elements(pen'[u]) \cup Elements(sub'[u])
  PROVE  \A b : Unreleased(b) => Unreleased(b)'
BY Zenon DEF Unreleased

(* The steps that move no request.                                         *)
LEMMA LocksCalls ==
  ASSUME LifetimeInv, LocksInv,
         \/ Sync \/ CacheAllocFail \/ Close \/ (\E f \in NewFlags : SetInfo(f))
         \/ WritePwrite \/ WaitThreads \/ Fsync \/ FlushReturn
         \/ CloseCache \/ ThreadJoin \/ PoolFini \/ UNCHANGED vars
  PROVE  LocksInv'
<1>1. /\ UNCHANGED <<pen, sub, tpc, treq, locks, wreq>>
      /\ e10Cache' => e10Cache
      /\ mpc = "pwrite" => mpc' = "pwrite"
      /\ writeErrors' = writeErrors \/ (writeErrors' = writeErrors + 1 /\ mpc' # "crashed")
      /\ mpc' # "crashed" => mpc # "crashed"
      /\ \/ UNCHANGED <<cacheFd, mpc>>
         \/ mpc' \in {"fini", "join", "delete", "closed"}
         \/ ~ e10Cache'
         \/ cacheFd' = cacheFd /\ mpc \notin {"fini", "join", "delete", "closed"}
  <2>1. CASE Sync
    BY Zenon, <2>1 DEF Sync, FlushBegin, files, handle, queues, threads, history
  <2>2. CASE CacheAllocFail
    BY Zenon, <2>2
    DEF CacheAllocFail, FlushBegin, files, handle, queues, threads, history
  <2>3. CASE Close
    BY Zenon, <2>3 DEF Close, FlushBegin, files, handle, queues, threads, history
  <2>4. CASE \E f \in NewFlags : SetInfo(f)
    BY Zenon, <2>4 DEF SetInfo, files, queues, main, threads, history
  <2>5. CASE WritePwrite
    BY Zenon, <2>5 DEF WritePwrite, handle, queues, threads, history
  <2>6. CASE WaitThreads
    BY Zenon, <2>6 DEF WaitThreads, files, handle, history
  <2>7. CASE Fsync
    BY Zenon, <2>7 DEF Fsync, handle, queues, threads
  <2>8. CASE FlushReturn
    BY Zenon, <2>8 DEF FlushReturn, files, handle, queues, threads, history
  <2>9. CASE CloseCache
    BY Zenon, <2>9 DEF CloseCache, handle, queues, threads, history
  <2>10. CASE ThreadJoin
    BY Zenon, <2>10 DEF ThreadJoin, files, handle, queues, threads, history
  <2>11. CASE PoolFini
    BY Zenon, <2>11 DEF PoolFini, files, queues, threads, history
  <2>12. CASE UNCHANGED vars
    BY Zenon, <2>12 DEF vars, files, handle, queues, threads, main, history
  <2> QED
    BY Zenon, <2>1, <2>2, <2>3, <2>4, <2>5, <2>6, <2>7, <2>8, <2>9, <2>10, <2>11, <2>12
<1>2. ~ cacheFd' /\ e10Cache' => mpc' \in {"fini", "join", "delete", "closed"}
  <2> DEFINE late == {"fini", "join", "delete", "closed"}
  <2>1. \/ UNCHANGED <<cacheFd, mpc>> \/ mpc' \in late \/ ~ e10Cache'
        \/ (cacheFd' = cacheFd /\ mpc \notin late)
    BY Zenon, <1>1
  <2>2. ~ cacheFd /\ e10Cache => mpc \in late
    BY Zenon DEF LocksInv
  <2>3. e10Cache' => e10Cache
    BY Zenon, <1>1
  <2> HIDE DEF late
  <2>4. ASSUME cacheFd' = cacheFd, ~ cacheFd', e10Cache' PROVE mpc \in late
    BY Zenon, <2>2, <2>3, <2>4
  <2>5. ~ cacheFd' /\ e10Cache' => mpc' \in late
    BY Zenon, <2>1, <2>4
  <2> QED BY Zenon, <2>5 DEF late
<1>3. \A b : Unreleased(b) => Unreleased(b)'
  <2>1. \A u \in Thread : \A r \in Elements(pen[u]) \cup Elements(sub[u]) :
          r \in Elements(pen'[u]) \cup Elements(sub'[u])
    BY Zenon, <1>1
  <2> QED BY Zenon, <1>1, <2>1, UnreleasedStays
<1>4. writeErrors' = 0 => writeErrors = 0
  <2>1. writeErrors \in Nat /\ (writeErrors' = writeErrors \/ writeErrors' = writeErrors + 1)
    BY Zenon, <1>1 DEF LifetimeInv, TypeOK, TypeHistory
  <2> QED BY <2>1
<1> QED BY Zenon, <1>1, <1>2, <1>3, <1>4, LocksQuiet

(* A write takes its locks and hands them on with its request.             *)
LEMMA LocksBegin ==
  ASSUME LifetimeInv, LocksInv, NEW e \in Extents, WriteBegin(e) PROVE LocksInv'
<1>1. /\ mpc = "idle" /\ mpc' = "pwrite"
      /\ locks' = IF isOpen /\ Coherent THEN locks \cup BlocksOf(wreq') ELSE locks
      /\ UNCHANGED <<cacheFd, e10Cache, pen, sub, tpc, treq, writeErrors>>
  BY Zenon DEF WriteBegin, handle, queues, threads, history
<1>2. \A b : Unreleased(b) => Unreleased(b)'
  BY Zenon, <1>1, UnreleasedStays
<1>3. \A b \in locks' : b \in locks \/ Unreleased(b)'
  BY Zenon, <1>1 DEF Unreleased
<1> QED BY Zenon, <1>1, <1>2, <1>3 DEF LocksInv

LEMMA LocksFail == ASSUME LifetimeInv, LocksInv, WriteFail PROVE LocksInv'
<1>1. /\ mpc = "pwrite" /\ mpc' = "idle"
      /\ ~ (IF isOpen THEN cacheFd ELSE globalFd) \/ writeErrors' = writeErrors + 1
      /\ UNCHANGED <<cacheFd, e10Cache, locks>>
  BY Zenon DEF WriteFail, files, handle
<1>2. writeErrors' # writeErrors + 1 => ~ e10Cache
  BY Zenon, <1>1 DEF LocksInv, LifetimeInv, ControlInv
<1>3. writeErrors' = writeErrors + 1 => writeErrors' # 0
  BY DEF LifetimeInv, TypeOK, TypeHistory
<1> QED BY Zenon, <1>1, <1>2, <1>3 DEF LocksInv

LEMMA LocksEnqueue ==
  ASSUME LifetimeInv, FlushInv, LocksInv, WriteEnqueue PROVE LocksInv'
<1>1. /\ mpc = "pwrite" /\ mpc' \in {"idle", "crashed", "wflush"}
      /\ UNCHANGED <<cacheFd, e10Cache, locks, sub, tpc, treq, writeErrors>>
      /\ \/ ~ isOpen \/ mpc' = "crashed"
         \/ pen' = [pen EXCEPT ![curr] = Append(@, wreq)]
  BY Zenon DEF WriteEnqueue, FlushInv, files, threads
<1>2. ~ isOpen => ~ e10Cache
  BY Zenon DEF LifetimeInv, ControlInv, LocksInv
<1>3. curr \in Thread /\ pen \in [Thread -> Seq(Request)] /\ wreq \in Request
  BY Zenon DEF LifetimeInv, TypeOK, TypeHandle, TypeQueues, TypeMain
<1>4. ASSUME pen' = [pen EXCEPT ![curr] = Append(@, wreq)], NEW b, Unreleased(b)
      PROVE  Unreleased(b)'
  <2>1. /\ pen'[curr] = Append(pen[curr], wreq) /\ pen[curr] \in Seq(Request)
        /\ \A u \in Thread \ {curr} : pen'[u] = pen[u]
    BY Zenon, <1>3, <1>4
  <2>2. Elements(pen'[curr]) = Elements(pen[curr]) \cup {wreq}
    <3>1. Elements(Append(pen[curr], wreq)) = Elements(pen[curr]) \cup {wreq}
      BY <1>3, <2>1, PushElements
    <3> QED BY Zenon, <2>1, <3>1
  <2>3. CASE b \in BlocksOf(wreq)
    BY Zenon, <1>3, <2>2, <2>3 DEF Unreleased
  <2>4. CASE b \notin BlocksOf(wreq)
    <3>1. PICK t \in Thread :
            \/ \E r \in Elements(pen[t]) \cup Elements(sub[t]) : b \in BlocksOf(r)
            \/ tpc[t] \in {"pread", "pwrite", "unlock"} /\ b \in BlocksOf(treq[t])
      BY Zenon, <1>4, <2>4 DEF Unreleased
    <3>2. Elements(pen[t]) \subseteq Elements(pen'[t])
      BY Zenon, <2>1, <2>2
    <3> QED BY Zenon, <1>1, <3>1, <3>2 DEF Unreleased
  <2> QED BY Zenon, <2>3, <2>4
<1> QED BY Zenon, <1>1, <1>2, <1>4, LocksQuiet DEF LocksInv

(* A flush hands the locks on to the sync thread.                          *)
LEMMA LocksMove ==
  ASSUME LifetimeInv, LocksInv, WriteFlush \/ FlushThreads \/ ThreadShutdown
  PROVE  LocksInv'
<1>1. /\ UNCHANGED <<locks, e10Cache, cacheFd, writeErrors, tpc, treq>>
      /\ mpc \in {"wflush", "flush", "fini"} /\ mpc' \in {"wflush", "idle", "flush", "wait", "join"}
      /\ mpc = "fini" => mpc' = "join"
  <2>1. CASE WriteFlush
    BY Zenon, <2>1 DEF WriteFlush, files, threads, history
  <2>2. CASE FlushThreads
    BY Zenon, <2>2 DEF FlushThreads, files, handle, threads, history
  <2>3. CASE ThreadShutdown
    BY Zenon, <2>3 DEF ThreadShutdown, files, handle, threads, history
  <2> QED BY Zenon, <2>1, <2>2, <2>3
<1>2. TypeQueues /\ curr \in Thread /\ idx \in 0 .. NThreads
  BY Zenon DEF LifetimeInv, TypeOK, TypeHandle, TypeMain
<1>3. \A u \in Thread : \A r \in Elements(pen[u]) \cup Elements(sub[u]) :
        r \in Elements(pen'[u]) \cup Elements(sub'[u])
  <2>1. CASE \E t \in Thread : FlushOne(t)
    BY Zenon, <1>2, <2>1, FlushOneOwners
  <2>2. CASE UNCHANGED <<pen, sub>>
    BY Zenon, <2>2
  <2>3. CASE ThreadShutdown
    <3>1. idx \in Thread /\ pen' = pen /\ sub' = [sub EXCEPT ![idx] = Append(@, Shutdown)]
      BY <1>2, <2>3, SizeAssumption DEF ThreadShutdown, Thread
    <3>2. /\ sub[idx] \in Seq(Request) /\ Shutdown \in Request
          /\ sub'[idx] = Append(sub[idx], Shutdown)
          /\ \A u \in Thread \ {idx} : sub'[u] = sub[u]
      <4>1. Shutdown \in Request
        BY Zenon DEF Request, Shutdown
      <4>2. sub \in [Thread -> Seq(Request)]
        BY Zenon, <1>2 DEF TypeQueues
      <4> QED BY Zenon, <3>1, <4>1, <4>2
    <3>3. Elements(sub'[idx]) = Elements(sub[idx]) \cup {Shutdown}
      <4>1. Elements(Append(sub[idx], Shutdown)) = Elements(sub[idx]) \cup {Shutdown}
        BY <3>2, PushElements
      <4> QED BY Zenon, <3>2, <4>1
    <3> QED BY Zenon, <3>1, <3>2, <3>3
  <2>4. idx < NThreads => idx \in Thread
    BY <1>2, SizeAssumption DEF Thread
  <2>5. CASE WriteFlush
    BY Zenon, <1>2, <2>1, <2>2, <2>5 DEF WriteFlush, queues
  <2>6. CASE FlushThreads
    BY Zenon, <2>1, <2>2, <2>4, <2>6 DEF FlushThreads, queues
  <2> QED BY Zenon, <2>3, <2>5, <2>6
<1>4. \A b : Unreleased(b) => Unreleased(b)'
  BY Zenon, <1>1, <1>3, UnreleasedStays
<1>5. ~ cacheFd' /\ e10Cache' => mpc' \in {"fini", "join", "delete", "closed"}
  <2>1. ~ cacheFd /\ e10Cache => mpc = "fini"
    BY Zenon, <1>1 DEF LocksInv
  <2> QED BY Zenon, <1>1, <2>1
<1> QED BY Zenon, <1>1, <1>4, <1>5, LocksQuiet

(* Closing the global file drops the locks.                                *)
LEMMA LocksClosed == ASSUME LocksInv, CloseGlobal PROVE LocksInv'
BY Zenon DEF LocksInv, CloseGlobal, handle

(* What the sync thread does with the lock of its request.                 *)
LEMMA LocksTaken ==
  ASSUME LifetimeInv, ShutdownInv, LocksInv, NEW t \in Thread, ThreadFront(t)
  PROVE  LocksInv'
<1>1. /\ UNCHANGED <<locks, e10Cache, cacheFd, mpc, wreq, writeErrors, pen>>
      /\ tpc[t] = "front" /\ sub[t] # <<>>
      /\ sub' = [sub EXCEPT ![t] = Tail(@)]
      /\ treq' = [treq EXCEPT ![t] = Head(sub[t])]
      /\ tpc' = [tpc EXCEPT ![t] = IF Head(sub[t]).type = "SHUTDOWN" THEN "exited"
                                   ELSE CopyFrom(Head(sub[t]), 0)]
  BY Zenon DEF ThreadFront, files, handle, main, history
<1>2. /\ sub[t] \in Seq(Request) /\ sub'[t] = Tail(sub[t]) /\ treq'[t] = Head(sub[t])
      /\ tpc'[t] = IF Head(sub[t]).type = "SHUTDOWN" THEN "exited" ELSE CopyFrom(Head(sub[t]), 0)
      /\ \A u \in Thread \ {t} : sub'[u] = sub[u] /\ treq'[u] = treq[u] /\ tpc'[u] = tpc[u]
  BY Zenon, <1>1 DEF LifetimeInv, TypeOK, TypeQueues, TypeThreads, TypeTpc
<1>3. Elements(sub[t]) = Elements(sub'[t]) \cup {Head(sub[t])}
  BY <1>1, <1>2, TailFacts
<1>4. Head(sub[t]).type = "SHUTDOWN" => BlocksOf(Head(sub[t])) = {}
  <2>1. CASE Live
    <3>1. Head(sub[t]) = sub[t][1] /\ 1 \in DOMAIN sub[t]
      BY <1>1, <1>2, TailFacts
    <3>2. Head(sub[t]).type = "SYNC"
      BY Zenon, <2>1, <3>1 DEF LifetimeInv, YoungestInv, YoungestOf, Youngest
    <3> QED BY Zenon, <3>2
  <2>2. CASE ~ Live
    <3>1. sub[t] = <<>> \/ sub[t] = <<Shutdown>>
      <4>1. CASE ~ pool
        BY Zenon, <4>1 DEF ShutdownInv, Gone, Empty
      <4>2. CASE pool /\ mpc \in {"fini", "join"}
        <5>1. idx \in Nat /\ t \in Nat /\ (t < idx \/ t = idx \/ t > idx)
          BY SizeAssumption DEF LifetimeInv, TypeOK, TypeMain, Thread
        <5>2. Gone(t) \/ Joining(t) \/ Idle(t)
          BY Zenon, <4>2, <5>1 DEF ShutdownInv
        <5> QED BY Zenon, <5>2 DEF Gone, Joining, Idle, Empty
      <4> QED BY Zenon, <2>2, <4>1, <4>2 DEF Live
    <3>2. Head(sub[t]) = Shutdown
      BY <1>1, <3>1
    <3>3. BlocksOf(Shutdown) = {}
      BY SizeAssumption DEF BlocksOf, Span, Shutdown, Block
    <3> QED BY Zenon, <3>2, <3>3
  <2> QED BY Zenon, <2>1, <2>2
<1>5. tpc'[t] \in {"pread", "unlock"} \/ BlocksOf(Head(sub[t])) = {}
  BY Zenon, <1>2, <1>4 DEF CopyFrom
<1>6. ASSUME NEW b, Unreleased(b) PROVE Unreleased(b)'
  <2>1. CASE mpc = "pwrite" /\ b \in BlocksOf(wreq)
    BY Zenon, <1>1, <2>1 DEF Unreleased
  <2>2. CASE \E u \in Thread : \E r \in Elements(pen[u]) : b \in BlocksOf(r)
    BY Zenon, <1>1, <2>2 DEF Unreleased
  <2>3. CASE \E u \in Thread : \E r \in Elements(sub[u]) : b \in BlocksOf(r)
    <3>1. PICK u \in Thread : \E r \in Elements(sub[u]) : b \in BlocksOf(r)
      BY Zenon, <2>3
    <3>2. CASE u # t
      BY Zenon, <1>2, <3>1, <3>2 DEF Unreleased
    <3>3. CASE u = t /\ \E r \in Elements(sub'[t]) : b \in BlocksOf(r)
      BY Zenon, <3>3 DEF Unreleased
    <3>4. CASE u = t /\ b \in BlocksOf(Head(sub[t]))
      BY Zenon, <1>2, <1>5, <3>4 DEF Unreleased
    <3> QED BY Zenon, <1>3, <3>1, <3>2, <3>3, <3>4
  <2>4. CASE \E u \in Thread : tpc[u] \in {"pread", "pwrite", "unlock"} /\ b \in BlocksOf(treq[u])
    BY Zenon, <1>1, <1>2, <2>4 DEF Unreleased
  <2> QED BY Zenon, <1>6, <2>1, <2>2, <2>3, <2>4 DEF Unreleased
<1>7. ~ cacheFd' /\ e10Cache' => mpc' \in {"fini", "join", "delete", "closed"}
  BY Zenon, <1>1 DEF LocksInv
<1> QED BY Zenon, <1>1, <1>6, <1>7, LocksQuiet

LEMMA LocksKept ==
  ASSUME LifetimeInv, LocksInv, NEW t \in Thread,
         ThreadRead(t) \/ ThreadWrite(t) \/ ThreadComplete(t)
  PROVE  LocksInv'
<1>1. /\ UNCHANGED <<locks, e10Cache, cacheFd, mpc, wreq, writeErrors, pen, sub, treq>>
      /\ \/ tpc[t] = "pread" /\ tpc' = [tpc EXCEPT ![t] = "pwrite"]
         \/ tpc[t] = "pwrite" /\ tpc' = [tpc EXCEPT ![t] = CopyFrom(treq[t], toff[t] + Count(t))]
         \/ tpc[t] = "complete" /\ tpc' = [tpc EXCEPT ![t] = "front"]
  <2>1. CASE ThreadRead(t)
    BY Zenon, <2>1 DEF ThreadRead, files, handle, main, queues
  <2>2. CASE ThreadWrite(t)
    BY Zenon, <2>2 DEF ThreadWrite, handle, main, queues
  <2>3. CASE ThreadComplete(t)
    BY Zenon, <2>3 DEF ThreadComplete, files, handle, main, queues, history
  <2> QED BY Zenon, <2>1, <2>2, <2>3
<1>2. /\ \A u \in Thread \ {t} : tpc'[u] = tpc[u]
      /\ tpc[t] \in {"pread", "pwrite", "unlock"} => tpc'[t] \in {"pread", "pwrite", "unlock"}
  BY <1>1 DEF LifetimeInv, TypeOK, TypeTpc, CopyFrom
<1>3. ASSUME NEW b, Unreleased(b) PROVE Unreleased(b)'
  BY Zenon, <1>1, <1>2, <1>3 DEF Unreleased
<1>4. ~ cacheFd' /\ e10Cache' => mpc' \in {"fini", "join", "delete", "closed"}
  BY Zenon, <1>1 DEF LocksInv
<1> QED BY Zenon, <1>1, <1>3, <1>4, LocksQuiet

LEMMA LocksUnlock ==
  ASSUME LifetimeInv, LocksInv, NEW t \in Thread, ThreadUnlock(t) PROVE LocksInv'
<1>1. /\ UNCHANGED <<e10Cache, cacheFd, mpc, wreq, writeErrors, pen, sub, treq>>
      /\ tpc[t] = "unlock" /\ tpc' = [tpc EXCEPT ![t] = "complete"]
      /\ locks' = IF Coherent THEN locks \ BlocksOf(treq[t]) ELSE locks
  BY Zenon DEF ThreadUnlock, Unlocked, handle, main, queues, history
<1>2. \A u \in Thread \ {t} : tpc'[u] = tpc[u]
  BY Zenon, <1>1 DEF LifetimeInv, TypeOK, TypeTpc
<1>3. locks' \subseteq locks /\ \A b \in locks' : b \notin BlocksOf(treq[t])
  <2>1. CASE Coherent
    BY Zenon, <1>1, <2>1
  <2>2. CASE ~ Coherent
    BY Zenon, <1>1, <2>2 DEF LocksInv
  <2> QED BY Zenon, <2>1, <2>2
<1>4. ASSUME NEW b \in locks', Unreleased(b) PROVE Unreleased(b)'
  BY Zenon, <1>1, <1>2, <1>3, <1>4 DEF Unreleased
<1>5. ~ cacheFd' /\ e10Cache' => mpc' \in {"fini", "join", "delete", "closed"}
  BY Zenon, <1>1 DEF LocksInv
<1> QED BY Zenon, <1>1, <1>3, <1>4, <1>5, LocksQuiet

LEMMA LocksNext ==
  LifetimeInv /\ CleanInv /\ LocksInv /\ [Next]_vars => LocksInv'
<1> SUFFICES ASSUME LifetimeInv, CleanInv, LocksInv, [Next]_vars PROVE LocksInv'
  BY Zenon
<1>1. ASSUME NEW e \in Extents, WriteBegin(e) PROVE LocksInv'
  BY Zenon, <1>1, LocksBegin
<1>2. ASSUME \/ Sync \/ CacheAllocFail \/ Close \/ (\E f \in NewFlags : SetInfo(f))
             \/ WritePwrite \/ WaitThreads \/ Fsync \/ FlushReturn
             \/ CloseCache \/ ThreadJoin \/ PoolFini \/ UNCHANGED vars
      PROVE  LocksInv'
  BY Zenon, <1>2, LocksCalls
<1>3. ASSUME WriteFail PROVE LocksInv'
  BY Zenon, <1>3, LocksFail
<1>4. ASSUME WriteEnqueue PROVE LocksInv'
  BY Zenon, <1>4, LocksEnqueue DEF CleanInv
<1>5. ASSUME WriteFlush \/ FlushThreads \/ ThreadShutdown PROVE LocksInv'
  BY Zenon, <1>5, LocksMove
<1>6. ASSUME CloseGlobal PROVE LocksInv'
  BY Zenon, <1>6, LocksClosed
<1>7. ASSUME NEW t \in Thread, ThreadStep(t) PROVE LocksInv'
  BY Zenon, <1>7, LocksTaken, LocksKept, LocksUnlock DEF CleanInv, ThreadStep
<1> QED
  BY Zenon, <1>1, <1>2, <1>3, <1>4, <1>5, <1>6, <1>7
  DEF Next, Call, MainStep, Terminated

(* The locks that the coherent cache takes in WriteContig are all released *)
(* by the sync threads when ADIOI_GEN_Flush returns, for any number of     *)
(* threads and whatever their reads and writes do, as long as no pwrite of *)
(* the main thread failed and the flush flag is never flush_none: a write  *)
(* hands its locks on with its request, a flush hands the request on, and  *)
(* a thread unlocks what it has copied (WriteContig, Flush and             *)
(* ADIOI_Sync_thread_start).                                               *)
THEOREM LocksFreed ==
  ASSUME AlwaysFlushes PROVE Spec => [](writeErrors = 0 => LocksReleased)
<1>1. Init => LifetimeInv /\ CleanInv /\ LocksInv
  <2>1. Init => LocksInv
    <3> SUFFICES ASSUME Init PROVE LocksInv
      OBVIOUS
    <3>1. e10Cache = CacheIsOpen /\ cacheFd = CacheIsOpen /\ locks = {}
      BY Zenon DEF Init
    <3> QED BY Zenon, <3>1, HintAssumption DEF LocksInv
  <2> QED BY Zenon, <2>1, LifetimeInit, CleanInit
<1>2. LifetimeInv /\ CleanInv /\ LocksInv /\ [Next]_vars
        => LifetimeInv' /\ CleanInv' /\ LocksInv'
  BY Zenon, LifetimeNext, CleanNext, LocksNext
<1>3. LifetimeInv /\ CleanInv /\ LocksInv => (writeErrors = 0 => LocksReleased)
  <2> SUFFICES ASSUME LifetimeInv, CleanInv, LocksInv, writeErrors = 0,
                      mpc = "flushed", e10Cache
               PROVE  locks = {}
    BY Zenon DEF LocksReleased
  <2>1. \A t \in Thread : Idle(t) \/ Gone(t)
    BY Zenon DEF CleanInv, ShutdownInv
  <2>2. Elements(<<>>) = {}
    BY DEF Elements
  <2>3. \A b : ~ Unreleased(b)
    BY Zenon, <2>1, <2>2 DEF Unreleased, Idle, Gone, Empty
  <2>4. \A b \in locks : Unreleased(b)
    BY Zenon DEF LocksInv
  <2> QED BY Zenon, <2>3, <2>4
<1> QED BY <1>1, <1>2, <1>3, PTL DEF Spec

===============================================================================
