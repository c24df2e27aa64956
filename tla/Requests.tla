------------------------------- MODULE Requests -------------------------------
(***************************************************************************)
(* The requests of the write cache and the queues that hold them.          *)
(***************************************************************************)
EXTENDS Integers, Sequences

(* Requests (ADIOI_Sync_req_init).  The identity of a request, which in    *)
(* the program is its address, is the version its WriteContig wrote.       *)
Request == [type : {"SYNC", "SHUTDOWN"}, id : Nat, off : Nat, len : Nat]
SyncReq(v, e) == [type |-> "SYNC", id |-> v, off |-> e.off, len |-> e.len]
Shutdown == [type |-> "SHUTDOWN", id |-> 0, off |-> 0, len |-> 0]

(* The youngest element of a queue (ADIOI_Atomic_queue_back), and all of   *)
(* its elements                                                            *)
Back(q) == q[Len(q)]
Elements(q) == {q[i] : i \in DOMAIN q}
-----------------------------------------------------------------------------
(***************************************************************************)
(* What holds of the identities in the queues pen, sub and wait of one     *)
(* thread, where work holds the request it works on, if any; done are its  *)
(* complete requests, freed those given back, and n identities are in use. *)
(***************************************************************************)

(* A request that is pending, submitted or worked on is neither complete   *)
(* nor freed.                                                              *)
Fresh(r, done, freed, n) == r.id \in 1 .. n /\ r.id \notin done \cup freed
IdsFresh(pen, sub, work, done, freed, n) ==
  /\ \A i \in DOMAIN pen : Fresh(pen[i], done, freed, n)
  /\ \A i \in DOMAIN sub : sub[i].type = "SYNC" => Fresh(sub[i], done, freed, n)
  /\ \A r \in work : Fresh(r, done, freed, n)

(* Only identities in use are known.                                       *)
IdsKnown(wait, done, freed, n) ==
  /\ done \subseteq 0 .. n /\ freed \subseteq 0 .. n
  /\ \A i \in DOMAIN wait : wait[i].id \in 1 .. n

(* Requests have different identities.                                     *)
PenDistinct(pen, sub, wait, work) ==
  /\ \A i, j \in DOMAIN pen : i # j => pen[i].id # pen[j].id
  /\ \A i \in DOMAIN pen, j \in DOMAIN sub :
       sub[j].type = "SYNC" => pen[i].id # sub[j].id
  /\ \A i \in DOMAIN pen, j \in DOMAIN wait : pen[i].id # wait[j].id
  /\ \A i \in DOMAIN pen, r \in work : pen[i].id # r.id
SubDistinct(sub, work) ==
  /\ \A i, j \in DOMAIN sub :
       i # j /\ sub[i].type = "SYNC" /\ sub[j].type = "SYNC"
         => sub[i].id # sub[j].id
  /\ \A i \in DOMAIN sub, r \in work :
       sub[i].type = "SYNC" => sub[i].id # r.id

Identity(pen, sub, wait, work, done, freed, n) ==
  /\ IdsKnown(wait, done, freed, n)
  /\ IdsFresh(pen, sub, work, done, freed, n)
  /\ PenDistinct(pen, sub, wait, work)
  /\ SubDistinct(sub, work)

(* The youngest request of wait_ is the last one the thread will finish.   *)
Youngest(sub, wait, work) ==
  /\ \A i \in DOMAIN sub : sub[i].type = "SYNC"
  /\ sub # <<>> => wait # <<>> /\ Back(wait) = Back(sub)
  /\ sub = <<>> => \A r \in work : wait # <<>> /\ Back(wait) = r
===============================================================================
