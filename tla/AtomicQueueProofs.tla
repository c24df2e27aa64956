-------------------------- MODULE AtomicQueueProofs ---------------------------
(***************************************************************************)
(* The atomic queue is a FIFO for any number of requests and envelopes:    *)
(* front never reads a freed envelope, fini frees the last one, and the    *)
(* list implements Fifo.                                                   *)
(***************************************************************************)
EXTENDS AtomicQueue, TLAPS

(* Who holds the mutex, from where the two threads are.                    *)
LockInv ==
  /\ lock = "main" <=> main \in {"fill", "count"}
  /\ lock = "sync" <=> sync \in {"test", "count"}

(* size_ counts the filled envelopes, except between a change of the list  *)
(* and the change of size_ that follows under the same lock.               *)
SizeInv ==
  CASE main = "count" -> size = Len(list) - 2
    [] sync = "count" -> size = Len(list)
    [] OTHER          -> size = Len(list) - 1

(* The allocated envelopes are those of the list, each there once, until   *)
(* fini frees the one that is left.                                        *)
HeapInv ==
  /\ \A i, j \in 1 .. Len(list) : list[i] = list[j] => i = j
  /\ main # "done" => live = {list[i] : i \in 1 .. Len(list)}
  /\ main = "done" => live = {}

(* The queue holds the requests pushed and not taken, in order.            *)
OrderInv ==
  /\ pushed = Len(taken) + Len(list) - 1
  /\ \A i \in 1 .. Len(list) - 1 : req[list[i]] = Len(taken) + i

(* What each thread knows of the queue at each place of its code: pop only *)
(* follows a front, whose request is still the first one.                  *)
PlaceInv ==
  /\ main = "fill" => pushed < MaxPushes
  /\ main = "done" => sync = "exit"
  /\ sync = "wait" => call = "front"
  /\ sync = "read" => env = Head(list) /\ Len(list) > 1
  /\ sync \in {"enter", "test"} /\ call = "pop" => r = Len(taken) + 1 /\ Len(list) > 1
  /\ sync = "count" => r = Len(taken)
  /\ sync = "exit" => Len(taken) = MaxPushes

QueueInv == TypeOK /\ LockInv /\ SizeInv /\ HeapInv /\ OrderInv /\ PlaceInv

LEMMA QueueTypes ==
  ASSUME QueueInv
  PROVE  /\ list \in Seq(Envelope) /\ Len(list) \in Nat /\ Len(list) >= 1
         /\ taken \in Seq(Request) /\ Len(taken) \in Nat
         /\ size \in Nat /\ pushed \in Nat /\ MaxPushes \in Nat /\ pushed <= MaxPushes
         /\ \A i \in 1 .. Len(list) : list[i] \in Envelope
         /\ Head(list) = list[1] /\ Spare = list[Len(list)]
BY PushAssumption DEF QueueInv, TypeOK, Spare

LEMMA QueueInit == Init => QueueInv
<1> SUFFICES ASSUME Init PROVE QueueInv
  OBVIOUS
<1>1. PICK e \in Envelope : list = <<e>> /\ live = {e} /\ env = e
  BY DEF Init
<1>2. Len(list) = 1 /\ list[1] = e /\ list \in Seq(Envelope) /\ list # <<>>
  BY <1>1
<1>3. taken = <<>> /\ Len(taken) = 0 /\ taken \in Seq(Request)
  BY DEF Init
<1>4. TypeOK
  BY <1>1, <1>2, <1>3, PushAssumption DEF Init, TypeOK, Request, NULL
<1>5. LockInv /\ SizeInv /\ PlaceInv
  BY <1>2 DEF Init, LockInv, SizeInv, PlaceInv
<1>6. HeapInv /\ OrderInv
  BY <1>1, <1>2, <1>3 DEF Init, HeapInv, OrderInv
<1> QED BY <1>4, <1>5, <1>6 DEF QueueInv

(* A step that changes neither the list nor what was pushed or taken, nor  *)
(* frees an envelope.                                                      *)
LEMMA SameQueue ==
  ASSUME QueueInv, UNCHANGED <<list, req, live, pushed, taken>>,
         main' = "done" <=> main = "done"
  PROVE  HeapInv' /\ OrderInv'
BY DEF QueueInv, HeapInv, OrderInv

(* The steps of either thread that leave the list alone.                   *)
LEMMA QuietSteps ==
  ASSUME QueueInv,
         PushLock \/ PushCount \/ PushSignal \/ Enter \/ Wait \/ SpuriousWakeup
         \/ FrontPeek \/ FrontReturn \/ PopCount \/ UNCHANGED vars
  PROVE  QueueInv'
<1> USE QueueTypes
<1>1. CASE PushLock
  BY <1>1, SameQueue
  DEF QueueInv, PushLock, TypeOK, LockInv, SizeInv, PlaceInv, heap, syncVars
<1>2. CASE PushCount
  BY <1>2, SameQueue
  DEF QueueInv, PushCount, TypeOK, LockInv, SizeInv, PlaceInv, heap, syncVars
<1>3. CASE PushSignal
  BY <1>3, SameQueue
  DEF QueueInv, PushSignal, TypeOK, LockInv, SizeInv, PlaceInv, heap
<1>4. CASE Enter
  BY <1>4, SameQueue
  DEF QueueInv, Enter, TypeOK, LockInv, SizeInv, PlaceInv, heap, mainVars
<1>5. CASE Wait
  BY <1>5, SameQueue
  DEF QueueInv, Wait, Empty, TypeOK, LockInv, SizeInv, PlaceInv, heap, mainVars
<1>6. CASE SpuriousWakeup
  BY <1>6, SameQueue
  DEF QueueInv, SpuriousWakeup, TypeOK, LockInv, SizeInv, PlaceInv, heap, mainVars
<1>7. CASE FrontPeek
  BY <1>7, SameQueue
  DEF QueueInv, FrontPeek, Empty, TypeOK, LockInv, SizeInv, PlaceInv, heap, mainVars
<1>8. CASE FrontReturn
  BY <1>8, SameQueue
  DEF QueueInv, FrontReturn, TypeOK, LockInv, SizeInv, OrderInv, PlaceInv, heap, mainVars
<1>9. CASE PopCount
  BY <1>9, SameQueue
  DEF QueueInv, PopCount, TypeOK, LockInv, SizeInv, PlaceInv, heap, mainVars
<1>10. CASE UNCHANGED vars
  BY <1>10, SameQueue
  DEF QueueInv, TypeOK, LockInv, SizeInv, PlaceInv, vars
<1> QED BY <1>1, <1>2, <1>3, <1>4, <1>5, <1>6, <1>7, <1>8, <1>9, <1>10

(* push fills the empty envelope at the back and appends a new empty one.  *)
LEMMA FillFacts ==
  ASSUME QueueInv, NEW e \in Envelope \ live,
         req' = [req EXCEPT ![Spare] = pushed + 1, ![e] = NULL],
         list' = Append(list, e), main = "fill"
  PROVE  /\ Len(list') = Len(list) + 1 /\ list' \in Seq(Envelope) /\ list' # <<>>
         /\ list'[Len(list) + 1] = e /\ Head(list') = Head(list)
         /\ \A i \in 1 .. Len(list) : list'[i] = list[i] /\ list[i] # e
         /\ \A i \in 1 .. Len(list) - 1 : req'[list[i]] = req[list[i]]
         /\ req'[list[Len(list)]] = pushed + 1
<1> USE QueueTypes
<1>1. /\ Len(list') = Len(list) + 1 /\ list' \in Seq(Envelope) /\ list' # <<>>
      /\ list'[Len(list) + 1] = e /\ \A i \in 1 .. Len(list) : list'[i] = list[i]
  OBVIOUS
<1>2. Head(list') = Head(list)
  BY <1>1
<1>3. \A i \in 1 .. Len(list) : list[i] # e
  BY DEF QueueInv, HeapInv
<1>4. \A i \in 1 .. Len(list) - 1 : list[i] # Spare /\ list[i] \in Envelope
  BY DEF QueueInv, HeapInv
<1>5. \A i \in 1 .. Len(list) - 1 : req'[list[i]] = req[list[i]]
  BY <1>3, <1>4 DEF QueueInv, TypeOK
<1>6. req'[list[Len(list)]] = pushed + 1
  BY <1>3 DEF QueueInv, TypeOK
<1> QED BY Zenon, <1>1, <1>2, <1>3, <1>5, <1>6

LEMMA FillStep == ASSUME QueueInv, PushFill PROVE QueueInv'
<1> USE QueueTypes
<1>1. PICK e \in Envelope \ live :
        /\ req' = [req EXCEPT ![Spare] = pushed + 1, ![e] = NULL]
        /\ list' = Append(list, e) /\ live' = live \union {e}
  BY Zenon DEF PushFill
<1>2. /\ main = "fill" /\ main' = "count" /\ pushed' = pushed + 1
      /\ UNCHANGED <<size, lock, was, sync, call, env, r, taken>>
  BY DEF PushFill, syncVars
<1>3. /\ Len(list') = Len(list) + 1 /\ list' \in Seq(Envelope) /\ list' # <<>>
      /\ list'[Len(list) + 1] = e /\ Head(list') = Head(list)
      /\ \A i \in 1 .. Len(list) : list'[i] = list[i] /\ list[i] # e
      /\ \A i \in 1 .. Len(list) - 1 : req'[list[i]] = req[list[i]]
      /\ req'[list[Len(list)]] = pushed + 1
  BY Zenon, <1>1, <1>2, FillFacts
<1>4. lock = "main" /\ pushed < MaxPushes /\ sync \notin {"test", "count"}
  BY <1>2 DEF QueueInv, LockInv, PlaceInv
<1>5. TypeOK'
  <2>1. req' \in [Envelope -> Request \union {NULL}]
    BY <1>1, <1>4, PushAssumption DEF QueueInv, TypeOK, Request, NULL
  <2>2. live' \subseteq Envelope /\ pushed' \in 0 .. MaxPushes
    BY <1>1, <1>2, <1>4 DEF QueueInv, TypeOK
  <2> QED BY <1>2, <1>3, <1>4, <2>1, <2>2 DEF QueueInv, TypeOK
<1>6. LockInv' /\ PlaceInv'
  BY <1>2, <1>3 DEF QueueInv, LockInv, PlaceInv
<1>7. SizeInv'
  BY <1>2, <1>3, <1>4 DEF QueueInv, SizeInv
<1>8. HeapInv'
  <2>1. \A i \in 1 .. Len(list') : i \in 1 .. Len(list) \/ i = Len(list) + 1
    BY <1>3
  <2>2. \A i, j \in 1 .. Len(list') : list'[i] = list'[j] => i = j
    BY <1>3, <2>1 DEF QueueInv, HeapInv
  <2>3. live' = {list'[i] : i \in 1 .. Len(list')}
    BY <1>1, <1>2, <1>3, <2>1 DEF QueueInv, HeapInv
  <2> QED BY <1>2, <2>2, <2>3 DEF HeapInv
<1>9. OrderInv'
  <2>1. pushed = Len(taken) + Len(list) - 1
    BY DEF QueueInv, OrderInv
  <2>2. ASSUME NEW i \in 1 .. Len(list') - 1 PROVE req'[list'[i]] = Len(taken') + i
    <3>1. CASE i < Len(list)
      <4>1. i \in 1 .. Len(list) - 1 /\ i \in 1 .. Len(list)
        BY <3>1
      <4> QED BY Zenon, <1>2, <1>3, <4>1 DEF QueueInv, OrderInv
    <3>2. CASE i = Len(list)
      BY <1>2, <1>3, <2>1, <3>2
    <3> QED BY <1>3, <3>1, <3>2
  <2> QED BY <1>2, <1>3, <2>1, <2>2 DEF OrderInv
<1> QED BY <1>5, <1>6, <1>7, <1>8, <1>9 DEF QueueInv

(* pop takes the first envelope off the list and frees it.                 *)
LEMMA PopFacts ==
  ASSUME QueueInv, PopDel
  PROVE  /\ Len(list) > 1 /\ Len(list') = Len(list) - 1
         /\ list' \in Seq(Envelope) /\ list' # <<>>
         /\ \A i \in 1 .. Len(list') : list'[i] = list[i + 1]
         /\ taken' \in Seq(Request) /\ Len(taken') = Len(taken) + 1
         /\ r = Len(taken) + 1 /\ req[list[1]] = r /\ r \in Request
<1> USE QueueTypes
<1>1. Len(list) > 1 /\ r = Len(taken) + 1
  BY DEF QueueInv, PlaceInv, PopDel
<1>2. Len(list') = Len(list) - 1 /\ list' \in Seq(Envelope) /\ list' # <<>>
  BY <1>1 DEF PopDel
<1>3. \A i \in 1 .. Len(list') : list'[i] = list[i + 1]
  BY <1>1 DEF PopDel
<1>4. req[list[1]] = r
  BY <1>1 DEF QueueInv, OrderInv
<1>5. r \in Request
  BY <1>1 DEF QueueInv, TypeOK, NULL
<1>6. taken' \in Seq(Request) /\ Len(taken') = Len(taken) + 1
  BY <1>5 DEF PopDel
<1> QED BY <1>1, <1>2, <1>3, <1>4, <1>5, <1>6

LEMMA PopStep == ASSUME QueueInv, PopDel PROVE QueueInv'
<1> USE QueueTypes
<1>1. /\ Len(list) > 1 /\ Len(list') = Len(list) - 1
      /\ list' \in Seq(Envelope) /\ list' # <<>>
      /\ \A i \in 1 .. Len(list') : list'[i] = list[i + 1]
      /\ taken' \in Seq(Request) /\ Len(taken') = Len(taken) + 1
      /\ r = Len(taken) + 1
  BY PopFacts
<1>2. /\ sync = "test" /\ sync' = "count" /\ live' = live \ {list[1]}
      /\ UNCHANGED <<req, size, lock, main, pushed, was, call, env, r>>
  BY DEF PopDel, mainVars
<1>3. lock = "sync" /\ main \notin {"fill", "count", "done"}
  BY <1>2 DEF QueueInv, LockInv, PlaceInv
<1>4. TypeOK'
  BY <1>1, <1>2, <1>3 DEF QueueInv, TypeOK
<1>5. LockInv' /\ PlaceInv'
  BY <1>1, <1>2, <1>3 DEF QueueInv, LockInv, PlaceInv
<1>6. SizeInv'
  BY <1>1, <1>2, <1>3 DEF QueueInv, SizeInv
<1>7. HeapInv'
  <2>1. \A i \in 1 .. Len(list') : i + 1 \in 1 .. Len(list) /\ i + 1 # 1
    BY <1>1
  <2>2. \A i, j \in 1 .. Len(list') : list'[i] = list'[j] => i = j
    <3> SUFFICES ASSUME NEW i \in 1 .. Len(list'), NEW j \in 1 .. Len(list'),
                        list'[i] = list'[j]
                 PROVE  i = j
      OBVIOUS
    <3>1. list[i + 1] = list[j + 1]
      BY Zenon, <1>1
    <3>2. i + 1 = j + 1
      BY Zenon, <2>1, <3>1 DEF QueueInv, HeapInv
    <3> QED BY <3>2
  <2>3. \A i \in 1 .. Len(list) : i = 1 \/ i - 1 \in 1 .. Len(list')
    BY <1>1
  <2>4. {list'[i] : i \in 1 .. Len(list')} = {list[i] : i \in 1 .. Len(list)} \ {list[1]}
    <3>1. ASSUME NEW i \in 1 .. Len(list')
          PROVE  list'[i] \in {list[k] : k \in 1 .. Len(list)} \ {list[1]}
      <4>1. list'[i] = list[i + 1] /\ i + 1 \in 1 .. Len(list) /\ i + 1 # 1
        BY Zenon, <1>1, <2>1
      <4>2. 1 \in 1 .. Len(list)
        BY <4>1
      <4>3. list[i + 1] # list[1]
        BY Zenon, <4>1, <4>2 DEF QueueInv, HeapInv
      <4> QED BY Zenon, <4>1, <4>3
    <3>2. ASSUME NEW i \in 1 .. Len(list), list[i] # list[1]
          PROVE  \E k \in 1 .. Len(list') : list[i] = list'[k]
      <4>1. i - 1 \in 1 .. Len(list') /\ (i - 1) + 1 = i
        BY <2>3, <3>2
      <4> QED BY Zenon, <1>1, <4>1
    <3> QED BY <3>1, <3>2
  <2> QED BY <1>2, <1>3, <2>2, <2>4 DEF QueueInv, HeapInv
<1>8. OrderInv'
  <2>1. pushed' = Len(taken') + Len(list') - 1
    BY <1>1, <1>2 DEF QueueInv, OrderInv
  <2>2. ASSUME NEW i \in 1 .. Len(list') - 1 PROVE req'[list'[i]] = Len(taken') + i
    <3>1. i + 1 \in 1 .. Len(list) - 1 /\ i \in 1 .. Len(list')
      BY <1>1
    <3>2. req[list[i + 1]] = Len(taken) + (i + 1)
      BY <3>1 DEF QueueInv, OrderInv
    <3> QED BY <1>1, <1>2, <3>1, <3>2
  <2> QED BY <2>1, <2>2 DEF OrderInv
<1> QED BY <1>4, <1>5, <1>6, <1>7, <1>8 DEF QueueInv

(* After the join the list holds the empty envelope only.                  *)
LEMMA FiniStep == ASSUME QueueInv, Fini PROVE QueueInv'
<1> USE QueueTypes
<1>1. Len(list) = 1
  <2>1. pushed = MaxPushes /\ Len(taken) = MaxPushes
    BY DEF QueueInv, PlaceInv, Fini
  <2>2. pushed = Len(taken) + Len(list) - 1
    BY DEF QueueInv, OrderInv
  <2>3. Len(list) \in Nat /\ Len(taken) \in Nat /\ MaxPushes \in Nat /\ pushed \in Nat
    BY QueueTypes
  <2>4. \A m, n, p, l \in Nat : p = m /\ n = m /\ p = n + l - 1 => l = 1
    OBVIOUS
  <2> QED BY Zenon, <2>1, <2>2, <2>3, <2>4
<1>2. /\ main = "idle" /\ main' = "done" /\ sync = "exit" /\ live' = live \ {Spare}
      /\ UNCHANGED <<list, req, size, lock, pushed, was, sync, call, env, r, taken>>
  BY DEF Fini, syncVars
<1>3. live' = {}
  BY <1>1, <1>2 DEF QueueInv, HeapInv
<1>4. TypeOK'
  BY <1>2, <1>3 DEF QueueInv, TypeOK
<1>5. LockInv' /\ SizeInv' /\ PlaceInv'
  BY <1>2 DEF QueueInv, LockInv, SizeInv, PlaceInv
<1>6. HeapInv' /\ OrderInv'
  BY <1>2, <1>3 DEF QueueInv, HeapInv, OrderInv
<1> QED BY <1>4, <1>5, <1>6 DEF QueueInv

LEMMA QueueNext == QueueInv /\ [Next]_vars => QueueInv'
BY QuietSteps, FillStep, PopStep, FiniStep
DEF Next, MainStep, SyncStep, Done

LEMMA QueueCorrect == Spec => []QueueInv
BY QueueInit, QueueNext, PTL DEF Spec

(* front dereferences env->req_ after it has released the mutex: the       *)
(* envelope is then still allocated and still the first of the queue, since*)
(* only the thread that called front pops.                                 *)
THEOREM FrontSafe == Spec => []NoDanglingEnvelope
<1>1. QueueInv => NoDanglingEnvelope
  BY QueueTypes DEF QueueInv, HeapInv, PlaceInv, NoDanglingEnvelope
<1> QED BY <1>1, QueueCorrect, PTL

(* ADIOI_Atomic_queue_fini frees one envelope only; after the shutdown     *)
(* handshake that is all there is to free, for any number of requests.     *)
THEOREM NoLeak == Spec => []AllFreed
<1>1. QueueInv => AllFreed
  BY DEF QueueInv, TypeOK, LockInv, HeapInv, PlaceInv, AllFreed
<1> QED BY <1>1, QueueCorrect, PTL

-----------------------------------------------------------------------------
(* The refinement mapping: the requests of the filled envelopes.           *)
Filled == [i \in 1 .. Len(list) - 1 |-> req[list[i]]]

LEMMA FilledType ==
  ASSUME QueueInv
  PROVE  Filled \in Seq(Request) /\ Len(Filled) = Len(list) - 1
<1> USE QueueTypes
<1>1. \A i \in 1 .. Len(list) - 1 : req[list[i]] \in Request
  BY DEF QueueInv, OrderInv, Request
<1> QED BY <1>1 DEF Filled

(* A push is a Put, when the envelope is filled.                           *)
LEMMA FillPuts ==
  ASSUME QueueInv, PushFill
  PROVE  \E q \in Request : Filled' = Append(Filled, q) /\ taken' = taken
<1> USE QueueTypes
<1>1. PICK e \in Envelope \ live :
        /\ req' = [req EXCEPT ![Spare] = pushed + 1, ![e] = NULL]
        /\ list' = Append(list, e)
  BY Zenon DEF PushFill
<1>2. main = "fill" /\ taken' = taken
  BY DEF PushFill, syncVars
<1>3. /\ Len(list') = Len(list) + 1
      /\ \A i \in 1 .. Len(list) : list'[i] = list[i]
      /\ \A i \in 1 .. Len(list) - 1 : req'[list[i]] = req[list[i]]
      /\ req'[list[Len(list)]] = pushed + 1
  BY Zenon, <1>1, <1>2, FillFacts
<1>4. pushed + 1 \in Request
  BY <1>2 DEF QueueInv, PlaceInv, Request
<1>5. Filled \in Seq(Request) /\ Len(Filled) = Len(list) - 1
  BY FilledType
<1> DEFINE A == Append(Filled, pushed + 1)
<1>6. /\ A \in Seq(Request) /\ Len(A) = Len(list) /\ A[Len(list)] = pushed + 1
      /\ \A i \in 1 .. Len(list) - 1 : A[i] = Filled[i]
  BY <1>4, <1>5
<1>7. \A i \in 1 .. Len(list) - 1 : Filled[i] = req[list[i]]
  BY DEF Filled
<1> HIDE DEF A
<1>8. \A i \in 1 .. Len(list) : A[i] = req'[list'[i]]
  <2> SUFFICES ASSUME NEW i \in 1 .. Len(list) PROVE A[i] = req'[list'[i]]
    OBVIOUS
  <2>1. CASE i = Len(list)
    BY <1>3, <1>6, <2>1
  <2>2. CASE i \in 1 .. Len(list) - 1
    BY <1>3, <1>6, <1>7, <2>2
  <2> QED BY <2>1, <2>2
<1>9. Filled' = [i \in 1 .. Len(list) |-> req'[list'[i]]]
  BY <1>3 DEF Filled
<1>10. A = [i \in 1 .. Len(list) |-> A[i]]
  BY <1>6
<1>11. Filled' = A
  BY <1>8, <1>9, <1>10
<1> QED BY <1>2, <1>4, <1>11 DEF A

(* A pop is a Get, when the envelope leaves the list.                      *)
LEMMA PopGets ==
  ASSUME QueueInv, PopDel
  PROVE  Filled # <<>> /\ taken' = Append(taken, Head(Filled)) /\ Filled' = Tail(Filled)
<1> USE QueueTypes
<1>1. /\ Len(list) > 1 /\ Len(list') = Len(list) - 1
      /\ \A i \in 1 .. Len(list') : list'[i] = list[i + 1]
      /\ req[list[1]] = r
  BY PopFacts
<1>2. req' = req /\ taken' = Append(taken, r)
  BY DEF PopDel
<1>3. Filled \in Seq(Request) /\ Len(Filled) = Len(list) - 1
  BY FilledType
<1>4. Filled # <<>> /\ Head(Filled) = Filled[1]
  BY <1>1, <1>3
<1>5. \A i \in 1 .. Len(list) - 1 : Filled[i] = req[list[i]]
  BY DEF Filled
<1> DEFINE T == Tail(Filled)
<1>6. /\ T \in Seq(Request) /\ Len(T) = Len(list) - 2
      /\ \A i \in 1 .. Len(list) - 2 : T[i] = Filled[i + 1]
  BY <1>1, <1>3, <1>4
<1> HIDE DEF T
<1>7. Filled' = [i \in 1 .. Len(list) - 2 |-> req[list'[i]]]
  BY <1>1, <1>2 DEF Filled
<1>8. \A i \in 1 .. Len(list) - 2 : T[i] = req[list'[i]]
  <2> SUFFICES ASSUME NEW i \in 1 .. Len(list) - 2 PROVE T[i] = req[list'[i]]
    OBVIOUS
  <2>1. i \in 1 .. Len(list') /\ i + 1 \in 1 .. Len(list) - 1
    BY <1>1
  <2> QED BY Zenon, <1>1, <1>5, <1>6, <2>1
<1>9. T = [i \in 1 .. Len(list) - 2 |-> T[i]]
  BY <1>6
<1>10. Filled' = T
  BY <1>7, <1>8, <1>9
<1>11. Head(Filled) = r
  BY <1>1, <1>4, <1>5
<1> QED BY <1>2, <1>4, <1>10, <1>11 DEF T

LEMMA FifoStep ==
  ASSUME QueueInv, [Next]_vars
  PROVE  [Abstract!Next]_(Abstract!vars)
<1>1. CASE PushFill
  BY Zenon, <1>1, FillPuts DEF Abstract!Next, Abstract!Put, Filled
<1>2. CASE PopDel
  BY Zenon, <1>2, PopGets DEF Abstract!Next, Abstract!Get, Filled
<1>3. CASE ~ PushFill /\ ~ PopDel
  <2>1. UNCHANGED <<list, req, taken>>
    BY <1>3
    DEF Next, MainStep, SyncStep, Done, PushLock, PushCount, PushSignal, Fini, Enter, Wait,
        SpuriousWakeup, FrontPeek, FrontReturn, PopCount, vars, heap, mainVars, syncVars
  <2> QED BY <2>1 DEF Abstract!vars
<1> QED BY <1>1, <1>2, <1>3

(* The atomic queue implements Fifo: every request pushed comes out once,  *)
(* in order, however the two threads interleave.                           *)
THEOREM QueueIsFifo == Spec => ImplementsFifo
<1>1. Init => Abstract!Init
  BY DEF Init, Abstract!Init
<1>2. QueueInv /\ [Next]_vars => [Abstract!Next]_(Abstract!vars)
  BY FifoStep
<1> QED BY <1>1, <1>2, QueueCorrect, PTL DEF Spec, ImplementsFifo, Abstract!Spec
===============================================================================
