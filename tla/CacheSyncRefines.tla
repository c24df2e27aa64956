-------------------------- MODULE CacheSyncRefines ---------------------------
(***************************************************************************)
(* The cache of CacheSync as an implementation of the abstract file of     *)
(* WriteBack.                                                              *)
(***************************************************************************)
EXTENDS CacheSync

(* The cache implements a write-back file: the global file never goes back *)
(* and MPI_File_sync, MPI_File_close and the fallback return only when     *)
(* every acknowledged write is in it.                                      *)
Abstract == INSTANCE WriteBack
  WITH Blocks <- Block, stored <- global, accepted <- acked, call <- op
ImplementsWriteBack == Abstract!Spec

==============================================================================
