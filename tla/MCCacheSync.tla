----------------------------- MODULE MCCacheSync -----------------------------
(* Model values for CacheSync: two blocks, written one by one or together. *)
EXTENDS CacheSyncInv, CacheSyncRefines

MCExtents == {[off |-> 0, len |-> 1], [off |-> 1, len |-> 1],
              [off |-> 0, len |-> 2]}
BothBlocks == {[off |-> 0, len |-> 2]}
FlushingFlags == {"flush_immediate", "flush_onclose"}
NoFlags == {}
NoFlush == {"flush_none"}
==============================================================================
