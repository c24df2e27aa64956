---------------------------- MODULE AtomicQueue ------------------------------
(***************************************************************************)
(* The submission queue between the main thread and a sync thread: a list  *)
(* of envelopes of which the last is always empty, a size, a mutex and a   *)
(* condition variable.                                                     *)
(*                                                                         *)
(* The main thread pushes requests 1, 2, ... and at last the shutdown      *)
(* request, joins the sync thread and finalises the queue                  *)
(* (ADIOI_Sync_thread_fini).  The sync thread runs front, pop, front, ...  *)
(* until it has taken the shutdown request (ADIOI_Sync_thread_start).      *)
(***************************************************************************)
EXTENDS Integers, Sequences

CONSTANTS
  Envelope,   \* addresses malloc may return; a freed one may be reused
  MaxPushes   \* bound: requests pushed, the last one is the shutdown

ASSUME PushAssumption == MaxPushes \in Nat \ {0}

NULL == 0
Request == 1 .. MaxPushes

VARIABLES
  list,    \* q->head_, the envelopes in order
  req,     \* env->req_ of each envelope
  live,    \* envelopes allocated and not freed
  size,    \* q->size_
  lock,    \* owner of q->lock_: "none", "main" or "sync"
  main,    \* where the main thread is
  pushed,  \* requests pushed so far
  was,     \* the local variable size of push
  sync,    \* where the sync thread is
  call,    \* the call it executes: "front" or "pop"
  env,     \* the local variable env of front
  r,       \* the request front returned
  taken    \* history: requests taken from the queue

vars == <<list, req, live, size, lock, main, pushed, was, sync, call, env, r, taken>>
heap == <<list, req, live>>
mainVars == <<main, pushed, was>>
syncVars == <<sync, call, env, r, taken>>

(* ADIOI_Atomic_queue_init: one empty envelope. *)
Init ==
  /\ \E e \in Envelope : list = <<e>> /\ live = {e} /\ env = e
  /\ req = [e \in Envelope |-> NULL]
  /\ size = 0 /\ lock = "none"
  /\ main = "idle" /\ pushed = 0 /\ was = 0
  /\ sync = "enter" /\ call = "front" /\ r = NULL
  /\ taken = <<>>

Empty == ~ (size > 0)

(* The empty envelope, the last of the list.                               *)
Spare == list[Len(list)]

------------------------------------------------------------------------------
(* ADIOI_Atomic_queue_push, in the main thread. *)

PushLock ==
  /\ main = "idle" /\ pushed < MaxPushes
  /\ lock = "none" /\ lock' = "main"
  /\ was' = size
  /\ main' = "fill"
  /\ UNCHANGED <<heap, size, pushed, syncVars>>

(* The request goes into the empty envelope, a new empty one to the tail. *)
PushFillFirst ==
  /\ main = "fill"
  /\ \E e \in Envelope \ live :
       /\ req' = [req EXCEPT ![Spare] = pushed + 1, ![e] = NULL]
       /\ list' = <<e>> \o list
       /\ live' = live \union {e}
  /\ pushed' = pushed + 1
  /\ main' = "count"
  /\ UNCHANGED <<size, lock, was, syncVars>>
PushFill ==
  /\ main = "fill"
  /\ \E e \in Envelope \ live :
       /\ req' = [req EXCEPT ![Spare] = pushed + 1, ![e] = NULL]
       /\ list' = Append(list, e)
       /\ live' = live \union {e}
  /\ pushed' = pushed + 1
  /\ main' = "count"
  /\ UNCHANGED <<size, lock, was, syncVars>>

(* The sync thread is woken when the queue was empty on entry. *)
WakesAfterCount(s) == s = 1
Wakes(s) == s = 0

PushCount ==
  /\ main = "count"
  /\ size' = size + 1
  /\ lock' = "none"
  /\ main' = IF Wakes(was) THEN "signal" ELSE "idle"
  /\ UNCHANGED <<heap, pushed, was, syncVars>>

(* pthread_cond_signal is lost on a thread that is not waiting. *)
PushSignal ==
  /\ main = "signal" /\ main' = "idle"
  /\ sync' = IF sync = "wait" THEN "enter" ELSE sync
  /\ UNCHANGED <<heap, size, lock, pushed, was, call, env, r, taken>>

(* ADIOI_Atomic_queue_fini, after pthread_join: frees the last envelope.   *)
Fini ==
  /\ main = "idle" /\ pushed = MaxPushes
  /\ sync = "exit"
  /\ main' = "done"
  /\ live' = live \ {Spare}
  /\ UNCHANGED <<list, req, size, lock, pushed, was, syncVars>>

------------------------------------------------------------------------------
(* ADIOI_Atomic_queue_front and _pop, in the sync thread. *)

Enter ==
  /\ sync = "enter" /\ sync' = "test"
  /\ lock = "none" /\ lock' = "sync"
  /\ UNCHANGED <<heap, size, mainVars, call, env, r, taken>>

(* pthread_cond_wait releases the mutex and sleeps in one step. *)
Wait ==
  /\ sync = "test" /\ Empty
  /\ sync' = "wait" /\ lock' = "none"
  /\ UNCHANGED <<heap, size, mainVars, call, env, r, taken>>

(* POSIX allows it to return without a signal. *)
SpuriousWakeup ==
  /\ sync = "wait" /\ sync' = "enter"
  /\ UNCHANGED <<heap, size, lock, mainVars, call, env, r, taken>>

FrontPeekFrees ==
  /\ sync = "test" /\ call = "front" /\ ~ Empty
  /\ env' = Head(list)
  /\ live' = live \ {Head(list)}
  /\ sync' = "read" /\ lock' = "none"
  /\ UNCHANGED <<list, req, size, mainVars, call, r, taken>>
FrontPeek ==
  /\ sync = "test" /\ call = "front" /\ ~ Empty
  /\ env' = Head(list)
  /\ sync' = "read" /\ lock' = "none"
  /\ UNCHANGED <<heap, size, mainVars, call, r, taken>>

(* return env->req_, with the mutex already released. *)
FrontReturn ==
  /\ sync = "read"
  /\ r' = req[env]
  /\ call' = "pop" /\ sync' = "enter"
  /\ UNCHANGED <<heap, size, lock, mainVars, env, taken>>

PopDel ==
  /\ sync = "test" /\ call = "pop" /\ ~ Empty
  /\ live' = live \ {Head(list)}
  /\ list' = Tail(list)
  /\ taken' = Append(taken, r)
  /\ sync' = "count"
  /\ UNCHANGED <<req, size, lock, mainVars, call, env, r>>

PopCount ==
  /\ sync = "count"
  /\ size' = size - 1
  /\ lock' = "none"
  /\ call' = "front"
  /\ sync' = IF r = MaxPushes THEN "exit" ELSE "enter"
  /\ UNCHANGED <<heap, mainVars, env, r, taken>>

Done == main = "done" /\ UNCHANGED vars

------------------------------------------------------------------------------
MainStep == PushLock \/ PushFill \/ PushCount \/ PushSignal \/ Fini
SyncStep == Enter \/ Wait \/ FrontPeek \/ FrontReturn \/ PopDel \/ PopCount

Next == MainStep \/ SyncStep \/ SpuriousWakeup \/ Done

(* Both threads keep running; nothing obliges POSIX to wake up a waiting   *)
(* thread without a signal, or the application to push again.              *)
Spec ==
  /\ Init /\ [][Next]_vars
  /\ WF_vars(PushFill \/ PushCount \/ PushSignal \/ Fini)
  /\ WF_vars(SyncStep)

------------------------------------------------------------------------------
(* Types; the list is never without the empty envelope, and its length and *)
(* size_ agree whenever the mutex is free.                                 *)
TypeOK ==
  /\ list \in Seq(Envelope) /\ list # <<>>
  /\ req \in [Envelope -> Request \union {NULL}]
  /\ live \subseteq Envelope
  /\ size \in Nat /\ (lock = "none" => size = Len(list) - 1)
  /\ lock \in {"none", "main", "sync"}
  /\ main \in {"idle", "fill", "count", "signal", "done"}
  /\ pushed \in 0 .. MaxPushes /\ was \in Nat
  /\ sync \in {"enter", "test", "wait", "read", "count", "exit"}
  /\ call \in {"front", "pop"}
  /\ env \in Envelope /\ r \in Request \union {NULL}
  /\ taken \in Seq(Request)

(* adi_atomic_queue.c:345 dereferences env after the mutex is released: it *)
(* has not been freed by then, nor reused for a later request.             *)
NoDanglingEnvelope == sync = "read" => env \in live /\ env = Head(list)

(* ADIOI_Atomic_queue_fini frees one envelope only: after the shutdown     *)
(* handshake that is the only one left, nothing leaks and the sync thread  *)
(* no longer uses the queue.                                               *)
AllFreed == main = "done" => live = {} /\ lock = "none" /\ sync = "exit"

(* No wakeup is lost: signalling only when the queue was empty, and only   *)
(* after the unlock, still gets every pushed request to the sync thread.   *)
EventuallyTaken == \A n \in Request : pushed >= n ~> Len(taken) >= n

(* The queue is a FIFO: one request out per request in, in order.          *)
Abstract == INSTANCE Fifo
  WITH queue <- [i \in 1 .. Len(list) - 1 |-> req[list[i]]], taken <- taken
ImplementsFifo == Abstract!Spec
==============================================================================
