----------------------- MODULE CacheSyncLifetimeProofs ------------------------
(***************************************************************************)
(* From the operations of adi_cache_sync.c on the queues of one thread to  *)
(* the lifetime of requests.  First what the operations do to sequences of *)
(* requests, then the types of CacheSync, then LifetimeInv: a request is   *)
(* freed only after its thread has completed it.  Last the actions that    *)
(* matter for CleanInv, the clean shutdown of the pool, and the cache      *)
(* file, which holds what was acknowledged.                                *)
(***************************************************************************)
EXTENDS CacheSyncInv, TLAPS

(***************************************************************************)
(* Facts about the operations on queues.                                   *)
(***************************************************************************)

(* Pushing adds the request at the back (ADIOI_Atomic_queue_push).         *)
LEMMA AppendFacts ==
  ASSUME NEW S, NEW q \in Seq(S), NEW x \in S
  PROVE  /\ Append(q, x) \in Seq(S) /\ Append(q, x) # <<>>
         /\ DOMAIN Append(q, x) = 1 .. Len(q) + 1 /\ DOMAIN q = 1 .. Len(q)
         /\ \A i \in DOMAIN q : Append(q, x)[i] = q[i] /\ q[i] \in S
         /\ Append(q, x)[Len(q) + 1] = x
         /\ \A i \in DOMAIN Append(q, x) :
              \/ i \in DOMAIN q /\ Append(q, x)[i] = q[i]
              \/ i = Len(q) + 1 /\ Append(q, x)[i] = x
         /\ Back(Append(q, x)) = x
         /\ Elements(Append(q, x)) = Elements(q) \cup {x}
<1> DEFINE p == Append(q, x)
<1>1. /\ p \in Seq(S) /\ p # <<>> /\ Len(p) = Len(q) + 1 /\ Len(q) \in Nat
      /\ DOMAIN p = 1 .. Len(q) + 1 /\ DOMAIN q = 1 .. Len(q)
      /\ \A i \in DOMAIN q : p[i] = q[i] /\ q[i] \in S
      /\ p[Len(q) + 1] = x
  OBVIOUS
<1> HIDE DEF p
<1>2. Back(p) = x
  BY Zenon, <1>1 DEF Back
<1>3. Elements(p) \subseteq Elements(q) \cup {x}
  <2> SUFFICES ASSUME NEW i \in DOMAIN p PROVE p[i] \in Elements(q) \cup {x}
    BY Zenon DEF Elements
  <2>1. i \in DOMAIN q \/ i = Len(q) + 1
    BY <1>1
  <2> QED BY Zenon, <1>1, <2>1 DEF Elements
<1>4. Elements(q) \cup {x} \subseteq Elements(p)
  <2>1. \A i \in DOMAIN q : i \in DOMAIN p /\ p[i] = q[i]
    BY <1>1
  <2>2. Len(q) + 1 \in DOMAIN p
    BY <1>1
  <2> QED BY Zenon, <1>1, <2>1, <2>2 DEF Elements
<1> QED BY <1>1, <1>2, <1>3, <1>4 DEF p

(* What a queue holds after a push. *)
LEMMA PushElements ==
  ASSUME NEW S, NEW q \in Seq(S), NEW x \in S
  PROVE  Elements(Append(q, x)) = Elements(q) \cup {x}
BY AppendFacts

(* Popping removes the request at the front (ADIOI_Atomic_queue_pop).      *)
LEMMA TailFacts ==
  ASSUME NEW S, NEW q \in Seq(S), q # <<>>
  PROVE  /\ Tail(q) \in Seq(S) /\ Head(q) \in S /\ Head(q) = q[1]
         /\ 1 \in DOMAIN q /\ Len(q) > 0 /\ Len(q) \in Nat
         /\ DOMAIN Tail(q) = 1 .. Len(q) - 1 /\ DOMAIN q = 1 .. Len(q)
         /\ \A i \in DOMAIN Tail(q) : Tail(q)[i] = q[i + 1] /\ i + 1 \in DOMAIN q
         /\ Tail(q) # <<>> => Back(Tail(q)) = Back(q)
         /\ Tail(q) = <<>> => Back(q) = Head(q)
         /\ Elements(q) = Elements(Tail(q)) \cup {Head(q)}
<1> DEFINE p == Tail(q)
<1>1. /\ p \in Seq(S) /\ Head(q) \in S /\ Head(q) = q[1]
      /\ Len(p) = Len(q) - 1 /\ Len(q) \in Nat /\ Len(q) > 0
      /\ DOMAIN p = 1 .. Len(q) - 1 /\ DOMAIN q = 1 .. Len(q)
      /\ \A i \in DOMAIN p : p[i] = q[i + 1]
  OBVIOUS
<1> HIDE DEF p
<1>2. p # <<>> => Back(p) = Back(q)
  <2>1. p # <<>> => Len(p) > 0
    BY <1>1
  <2> QED BY <1>1, <2>1 DEF Back
<1>3. p = <<>> => Back(q) = Head(q)
  <2>1. p = <<>> => Len(p) = 0
    OBVIOUS
  <2> QED BY <1>1, <2>1 DEF Back
<1>4. Elements(q) \subseteq Elements(p) \cup {Head(q)}
  <2> SUFFICES ASSUME NEW i \in DOMAIN q PROVE q[i] \in Elements(p) \cup {Head(q)}
    BY Zenon DEF Elements
  <2>1. CASE i = 1
    BY Zenon, <1>1, <2>1
  <2>2. CASE i # 1
    <3>1. i - 1 \in DOMAIN p /\ p[i - 1] = q[i]
      BY <1>1, <2>2
    <3> QED BY Zenon, <3>1 DEF Elements
  <2> QED BY Zenon, <2>1, <2>2
<1>5. Elements(p) \cup {Head(q)} \subseteq Elements(q)
  <2>1. \A i \in DOMAIN p : i + 1 \in DOMAIN q /\ p[i] = q[i + 1]
    BY <1>1
  <2>2. 1 \in DOMAIN q
    BY <1>1
  <2> QED BY <1>1, <2>1, <2>2 DEF Elements
<1> QED BY <1>1, <1>2, <1>3, <1>4, <1>5 DEF p

(* Flushing moves the request at the front of one queue to another.        *)
LEMMA MoveFacts ==
  ASSUME NEW S, NEW p \in Seq(S), NEW s \in Seq(S), p # <<>>
  PROVE  /\ Elements(p) = Elements(Tail(p)) \cup {Head(p)}
         /\ Elements(Append(s, Head(p))) = Elements(s) \cup {Head(p)}
<1>1. Head(p) \in S /\ Elements(p) = Elements(Tail(p)) \cup {Head(p)}
  BY TailFacts
<1>2. Elements(Append(s, Head(p))) = Elements(s) \cup {Head(p)}
  BY <1>1, AppendFacts
<1> QED BY <1>1, <1>2

(* The requests in a queue are requests, and the last one is at its end.   *)
LEMMA ElementFacts ==
  ASSUME NEW S, NEW q \in Seq(S)
  PROVE  /\ Elements(q) \subseteq S
         /\ Elements(q) = {q[i] : i \in DOMAIN q}
         /\ q # <<>> => Back(q) \in Elements(q) /\ Back(q) \in S
         /\ q # <<>> => \E i \in DOMAIN q : Back(q) = q[i]
<1>1. \A i \in DOMAIN q : q[i] \in S
  OBVIOUS
<1>2. q # <<>> => Len(q) \in DOMAIN q
  OBVIOUS
<1> QED BY Zenon, <1>1, <1>2 DEF Elements, Back
-----------------------------------------------------------------------------
(* Moving a request from pen_ to sub_ and wait_ (ADIOI_Sync_thread_flush). *)
LEMMA FlushRequest ==
  ASSUME NEW pq \in Seq(Request), NEW sq \in Seq(Request), NEW wq \in Seq(Request),
         NEW work, NEW done, NEW gone, NEW n,
         pq # <<>>, pq[1].type = "SYNC",
         Identity(pq, sq, wq, work, done, gone, n), Youngest(sq, wq, work)
  PROVE  /\ Identity(Tail(pq), Append(sq, Head(pq)), Append(wq, Head(pq)),
                     work, done, gone, n)
         /\ Youngest(Append(sq, Head(pq)), Append(wq, Head(pq)), work)
<1> DEFINE h == Head(pq)
           p == Tail(pq)
           s == Append(sq, h)
           w == Append(wq, h)
<1>1. h \in Request /\ h = pq[1] /\ 1 \in DOMAIN pq
  BY Zenon, TailFacts
<1>2. \A i \in DOMAIN p : /\ i \in Int /\ i + 1 \in DOMAIN pq /\ i + 1 # 1
                          /\ p[i] = pq[i + 1]
  BY TailFacts
<1>3. /\ \A i \in DOMAIN s : \/ i \in DOMAIN sq /\ s[i] = sq[i]
                             \/ i = Len(sq) + 1 /\ s[i] = h
      /\ Back(s) = h /\ s # <<>>
  BY <1>1, AppendFacts
<1>4. /\ \A i \in DOMAIN w : \/ i \in DOMAIN wq /\ w[i] = wq[i]
                             \/ i = Len(wq) + 1 /\ w[i] = h
      /\ Back(w) = h /\ w # <<>>
  BY <1>1, AppendFacts
<1> HIDE DEF h, p, s, w
<1>5. h.type = "SYNC" /\ Fresh(h, done, gone, n)
  BY Zenon, <1>1 DEF Identity, IdsFresh
<1>6. Youngest(s, w, work)
  BY Zenon, <1>3, <1>4, <1>5 DEF Youngest
<1>7. IdsKnown(w, done, gone, n)
  BY Zenon, <1>4, <1>5 DEF Identity, IdsKnown, Fresh
<1>8. IdsFresh(p, s, work, done, gone, n)
  BY Zenon, <1>2, <1>3, <1>5 DEF Identity, IdsFresh
<1>9. \A i \in DOMAIN p : p[i].id # h.id
  BY <1>1, <1>2 DEF Identity, PenDistinct
<1>10. PenDistinct(p, s, w, work)
  <2>1. \A i, j \in DOMAIN p : i # j => p[i].id # p[j].id
    <3> SUFFICES ASSUME NEW i \in DOMAIN p, NEW j \in DOMAIN p, i # j
                 PROVE  p[i].id # p[j].id
      BY Zenon
    <3>1. i + 1 # j + 1
      BY <1>2
    <3> QED BY Zenon, <1>2, <3>1 DEF Identity, PenDistinct
  <2>2. \A i \in DOMAIN p, j \in DOMAIN s : s[j].type = "SYNC" => p[i].id # s[j].id
    BY <1>2, <1>3, <1>9 DEF Identity, PenDistinct
  <2>3. \A i \in DOMAIN p, j \in DOMAIN w : p[i].id # w[j].id
    BY <1>2, <1>4, <1>9 DEF Identity, PenDistinct
  <2>4. \A i \in DOMAIN p, r \in work : p[i].id # r.id
    BY <1>2 DEF Identity, PenDistinct
  <2> QED BY Zenon, <2>1, <2>2, <2>3, <2>4 DEF PenDistinct
<1>11. SubDistinct(s, work)
  <2>1. \A i \in DOMAIN sq : sq[i].type = "SYNC" => sq[i].id # h.id
    BY Zenon, <1>1 DEF Identity, PenDistinct
  <2>2. \A r \in work : h.id # r.id
    BY Zenon, <1>1 DEF Identity, PenDistinct
  <2> QED BY Zenon, <1>3, <2>1, <2>2 DEF Identity, SubDistinct
<1> QED BY Zenon, <1>6, <1>7, <1>8, <1>10, <1>11 DEF Identity, h, p, s, w

(* WriteContig appends a fresh request to pen_,                            *)
LEMMA EnqueueRequest ==
  ASSUME NEW pq \in Seq(Request), NEW sq, NEW wq, NEW work, NEW done, NEW gone,
         NEW n \in Nat, NEW r \in Request, r.id = n + 1,
         Identity(pq, sq, wq, work, done, gone, n)
  PROVE  Identity(Append(pq, r), sq, wq, work, done, gone, n + 1)
<1> DEFINE p == Append(pq, r)
<1>1. \A i \in DOMAIN p : \/ i \in DOMAIN pq /\ p[i] = pq[i]
                          \/ i = Len(pq) + 1 /\ p[i] = r
  BY Zenon, AppendFacts
<1>2. /\ 0 .. n \subseteq 0 .. n + 1 /\ 1 .. n \subseteq 1 .. n + 1
      /\ r.id \in 1 .. n + 1 /\ r.id \notin 0 .. n /\ r.id \notin 1 .. n
  OBVIOUS
<1> DEFINE m == n + 1
<1> HIDE DEF p, m
<1>3. 0 .. n \subseteq 0 .. m /\ 1 .. n \subseteq 1 .. m /\ r.id \in 1 .. m
  BY Zenon, <1>2 DEF m
<1>4. IdsKnown(wq, done, gone, m)
  BY Zenon, <1>3 DEF Identity, IdsKnown
<1>5. IdsFresh(p, sq, work, done, gone, m)
  <2>1. r.id \notin done \cup gone
    BY Zenon, <1>2 DEF Identity, IdsKnown
  <2>2. Fresh(r, done, gone, m)
    BY Zenon, <1>3, <2>1 DEF Fresh
  <2>3. \A q : Fresh(q, done, gone, n) => Fresh(q, done, gone, m)
    BY Zenon, <1>3 DEF Fresh
  <2> QED BY Zenon, <1>1, <2>2, <2>3 DEF Identity, IdsFresh
<1>6. PenDistinct(p, sq, wq, work)
  <2>1. \A i \in DOMAIN pq : pq[i].id # r.id
    BY Zenon, <1>2 DEF Identity, IdsFresh, Fresh
  <2>2. \A i \in DOMAIN sq : sq[i].type = "SYNC" => sq[i].id # r.id
    BY Zenon, <1>2 DEF Identity, IdsFresh, Fresh
  <2>3. \A q \in work : q.id # r.id
    BY Zenon, <1>2 DEF Identity, IdsFresh, Fresh
  <2>4. \A i \in DOMAIN wq : wq[i].id # r.id
    BY Zenon, <1>2 DEF Identity, IdsKnown
  <2> QED BY Zenon, <1>1, <2>1, <2>2, <2>3, <2>4 DEF Identity, PenDistinct
<1> QED BY Zenon, <1>4, <1>5, <1>6 DEF Identity, m, p

(* ADIOI_Sync_thread_wait empties wait_ once the youngest request is       *)
(* complete: then the thread has nothing left to do,                       *)
LEMMA WaitDone ==
  ASSUME NEW pq, NEW sq \in Seq(Request), NEW wq, NEW work, NEW done, NEW gone, NEW n,
         Identity(pq, sq, wq, work, done, gone, n), Youngest(sq, wq, work),
         wq # <<>> => Back(wq).id \in done
  PROVE  sq = <<>> /\ work = {} /\ Youngest(sq, <<>>, work)
<1>1. sq = <<>>
  <2> SUFFICES ASSUME sq # <<>> PROVE FALSE
    BY Zenon
  <2>1. PICK i \in DOMAIN sq : Back(sq) = sq[i]
    BY Zenon, ElementFacts
  <2> QED BY Zenon, <2>1 DEF Identity, IdsFresh, Youngest, Fresh
<1>2. work = {}
  <2> SUFFICES ASSUME NEW r \in work PROVE FALSE
    BY Zenon
  <2> QED BY Zenon, <1>1 DEF Identity, IdsFresh, Youngest, Fresh
<1>3. Youngest(sq, <<>>, work)
  BY Zenon, <1>1, <1>2 DEF Youngest
<1> QED BY Zenon, <1>1, <1>2, <1>3

LEMMA WaitRequest ==
  ASSUME NEW pq, NEW wq, NEW done, NEW gone, NEW n \in Int, NEW g,
         Identity(pq, <<>>, wq, {}, done, gone, n),
         \A v \in g : v \in gone \/ \E i \in DOMAIN wq : v = wq[i].id
  PROVE  Identity(pq, <<>>, <<>>, {}, done, g, n)
<1>1. DOMAIN << >> = {}
  OBVIOUS
<1>2. IdsKnown(<<>>, done, g, n)
  <2>1. 1 .. n \subseteq 0 .. n
    OBVIOUS
  <2> QED BY Zenon, <1>1, <2>1 DEF Identity, IdsKnown
<1>3. IdsFresh(pq, <<>>, {}, done, g, n)
  <2>1. \A i \in DOMAIN pq, j \in DOMAIN wq : pq[i].id # wq[j].id
    BY Zenon DEF Identity, PenDistinct
  <2>2. \A i \in DOMAIN pq : Fresh(pq[i], done, g, n)
    BY Zenon, <2>1 DEF Identity, IdsFresh, Fresh
  <2> QED BY Zenon, <1>1, <2>2 DEF IdsFresh
<1>4. PenDistinct(pq, <<>>, <<>>, {}) /\ SubDistinct(<<>>, {})
  BY Zenon, <1>1 DEF Identity, PenDistinct
<1> QED BY Zenon, <1>2, <1>3, <1>4 DEF Identity

(* the sync thread takes the next request, and works on it unless it is    *)
(* the shutdown request,                                                   *)
LEMMA FrontRequest ==
  ASSUME NEW pq, NEW sq \in Seq(Request), NEW wq, NEW done, NEW gone, NEW n, NEW work,
         sq # <<>>, Identity(pq, sq, wq, {}, done, gone, n),
         work = IF Head(sq).type = "SYNC" THEN {Head(sq)} ELSE {}
  PROVE  /\ Identity(pq, Tail(sq), wq, work, done, gone, n)
         /\ Youngest(sq, wq, {}) => Youngest(Tail(sq), wq, work)
<1> DEFINE h == Head(sq)
           s == Tail(sq)
<1>1. h \in Request /\ h = sq[1] /\ 1 \in DOMAIN sq
  BY Zenon, TailFacts
<1>2. \A i \in DOMAIN s : /\ i + 1 \in DOMAIN sq /\ i + 1 # 1 /\ i \in Int
                          /\ s[i] = sq[i + 1]
  BY TailFacts
<1>3. /\ s # <<>> => Back(s) = Back(sq)
      /\ s = <<>> => Back(sq) = h
  BY Zenon, TailFacts
<1>4. \A r \in work : r = h /\ h.type = "SYNC"
  BY Zenon
<1> HIDE DEF h, s
<1>5. h.type = "SYNC" => Fresh(h, done, gone, n)
  BY Zenon, <1>1 DEF Identity, IdsFresh
<1>6. IdsKnown(wq, done, gone, n)
  BY Zenon DEF Identity
<1>7. IdsFresh(pq, s, work, done, gone, n)
  BY Zenon, <1>2, <1>4, <1>5 DEF Identity, IdsFresh
<1>8. PenDistinct(pq, s, wq, work)
  <2>1. h.type = "SYNC" => \A i \in DOMAIN pq : pq[i].id # h.id
    BY Zenon, <1>1 DEF Identity, PenDistinct
  <2> QED BY Zenon, <1>2, <1>4, <2>1 DEF Identity, PenDistinct
<1>9. SubDistinct(s, work)
  <2>1. \A i, j \in DOMAIN s : i # j /\ s[i].type = "SYNC" /\ s[j].type = "SYNC"
                                 => s[i].id # s[j].id
    <3> SUFFICES ASSUME NEW i \in DOMAIN s, NEW j \in DOMAIN s, i # j,
                        s[i].type = "SYNC", s[j].type = "SYNC"
                 PROVE  s[i].id # s[j].id
      BY Zenon
    <3>1. i + 1 # j + 1
      BY <1>2
    <3> QED BY Zenon, <1>2, <3>1 DEF Identity, SubDistinct
  <2>2. h.type = "SYNC" =>
          \A i \in DOMAIN s : s[i].type = "SYNC" => s[i].id # h.id
    BY <1>1, <1>2 DEF Identity, SubDistinct
  <2> QED BY Zenon, <1>4, <2>1, <2>2 DEF SubDistinct
<1>10. Youngest(sq, wq, {}) => Youngest(s, wq, work)
  BY Zenon, <1>1, <1>2, <1>3, <1>4 DEF Youngest
<1> QED BY Zenon, <1>6, <1>7, <1>8, <1>9, <1>10 DEF Identity, s

(* and completes it.                                                       *)
LEMMA CompleteRequest ==
  ASSUME NEW pq, NEW sq, NEW wq, NEW r, NEW done, NEW gone, NEW n \in Int,
         Identity(pq, sq, wq, {r}, done, gone, n)
  PROVE  /\ Identity(pq, sq, wq, {}, done \cup {r.id}, gone, n)
         /\ Youngest(sq, wq, {r}) => Youngest(sq, wq, {})
<1>1. r.id \in 0 .. n
  BY DEF Identity, IdsFresh, Fresh
<1>2. IdsKnown(wq, done \cup {r.id}, gone, n)
  BY Zenon, <1>1 DEF Identity, IdsKnown
<1>3. IdsFresh(pq, sq, {}, done \cup {r.id}, gone, n)
  <2>1. \A q : Fresh(q, done, gone, n) /\ q.id # r.id
                 => Fresh(q, done \cup {r.id}, gone, n)
    BY Zenon DEF Fresh
  <2>2. \A i \in DOMAIN pq : pq[i].id # r.id
    BY Zenon DEF Identity, PenDistinct
  <2>3. \A i \in DOMAIN sq : sq[i].type = "SYNC" => sq[i].id # r.id
    BY Zenon DEF Identity, SubDistinct
  <2> QED BY Zenon, <2>1, <2>2, <2>3 DEF Identity, IdsFresh
<1>4. PenDistinct(pq, sq, wq, {}) /\ SubDistinct(sq, {})
  BY Zenon DEF Identity, PenDistinct, SubDistinct
<1>5. Youngest(sq, wq, {r}) => Youngest(sq, wq, {})
  BY Zenon DEF Youngest
<1> QED BY Zenon, <1>2, <1>3, <1>4, <1>5 DEF Identity

(* pool_fini appends the shutdown request to sub_.                         *)
LEMMA ShutdownRequest ==
  ASSUME NEW pq, NEW sq \in Seq(Request), NEW wq, NEW work, NEW done, NEW gone, NEW n,
         Identity(pq, sq, wq, work, done, gone, n)
  PROVE  Identity(pq, Append(sq, Shutdown), wq, work, done, gone, n)
<1> DEFINE s == Append(sq, Shutdown)
<1>1. Shutdown \in Request /\ Shutdown.type # "SYNC"
  BY Zenon DEF Shutdown, Request
<1>2. \A i \in DOMAIN s : s[i].type = "SYNC" => i \in DOMAIN sq /\ s[i] = sq[i]
  BY <1>1, AppendFacts
<1> HIDE DEF s
<1>3. IdsFresh(pq, s, work, done, gone, n)
  BY Zenon, <1>2 DEF Identity, IdsFresh
<1>4. PenDistinct(pq, s, wq, work)
  BY <1>2 DEF Identity, PenDistinct
<1>5. SubDistinct(s, work)
  BY Zenon, <1>2 DEF Identity, SubDistinct
<1> QED BY Zenon, <1>3, <1>4, <1>5 DEF Identity, s

(* A new WriteContig call uses up an identity.                             *)
LEMMA MoreIdentities ==
  ASSUME NEW pq, NEW sq, NEW wq, NEW work, NEW done, NEW gone, NEW n \in Int,
         NEW m \in Int, n <= m, Identity(pq, sq, wq, work, done, gone, n)
  PROVE  Identity(pq, sq, wq, work, done, gone, m)
<1>1. 0 .. n \subseteq 0 .. m /\ 1 .. n \subseteq 1 .. m
  OBVIOUS
<1>2. IdsKnown(wq, done, gone, m)
  BY Zenon, <1>1 DEF Identity, IdsKnown
<1>3. IdsFresh(pq, sq, work, done, gone, m)
  BY Zenon, <1>1 DEF Identity, IdsFresh, Fresh
<1> QED BY Zenon, <1>2, <1>3 DEF Identity

(* What a step leaves alone of thread t's requests.                        *)
SameRequests(t) ==
  /\ pen'[t] = pen[t] /\ sub'[t] = sub[t] /\ wait'[t] = wait[t]
  /\ treq'[t] = treq[t] /\ complete'[t] = complete[t] /\ freed'[t] = freed[t]
  /\ Busy(t)' = Busy(t) /\ (tpc'[t] = "exited" <=> tpc[t] = "exited")

(* A step that leaves a thread's requests alone keeps what is known of them.*)
LEMMA SameRequestsIdentity ==
  ASSUME NEW t \in Thread, IdentityOf(t), SameRequests(t),
         Issued \in Int, Issued' \in Int, Issued <= Issued'
  PROVE  IdentityOf(t)'
<1>1. Work(t)' = Work(t)
  BY Zenon DEF SameRequests, Work
<1> QED BY Zenon, <1>1, MoreIdentities DEF IdentityOf, SameRequests

LEMMA SameRequestsYoungest ==
  ASSUME NEW t \in Thread, YoungestOf(t), SameRequests(t)
  PROVE  YoungestOf(t)'
<1>1. Work(t)' = Work(t)
  BY Zenon DEF SameRequests, Work
<1> QED BY Zenon, <1>1 DEF YoungestOf, SameRequests

(* What the steps on the requests of one thread do to them: moving one     *)
(* from pen_ to sub_ and wait_ (ADIOI_Sync_thread_flush),                  *)
LEMMA FlushOneLifetime ==
  ASSUME TypeQueues, NEW t \in Thread, FlushOne(t),
         IdentityOf(t), YoungestOf(t), pen[t][1].type = "SYNC",
         Issued' = Issued, UNCHANGED <<tpc, treq, complete, freed>>
  PROVE  IdentityOf(t)' /\ YoungestOf(t)'
<1>1. /\ pen[t] \in Seq(Request) /\ sub[t] \in Seq(Request) /\ wait[t] \in Seq(Request)
      /\ pen[t] # <<>> /\ pen'[t] = Tail(pen[t])
      /\ sub'[t] = Append(sub[t], Head(pen[t]))
      /\ wait'[t] = Append(wait[t], Head(pen[t]))
  BY Zenon DEF FlushOne, TypeQueues
<1>2. Work(t)' = Work(t)
  BY Zenon DEF Work, Busy
<1> QED BY <1>1, <1>2, FlushRequest DEF IdentityOf, YoungestOf

(* WriteContig's appending a fresh request to pen_,                        *)
LEMMA EnqueueLifetime ==
  ASSUME TypeQueues, NEW t \in Thread, NEW r \in Request,
         pen'[t] = Append(pen[t], r), r.id = Issued + 1, Issued' = Issued + 1,
         Issued \in Nat, IdentityOf(t),
         UNCHANGED <<sub, wait, tpc, treq, complete, freed>>
  PROVE  IdentityOf(t)'
<1>1. pen[t] \in Seq(Request)
  BY Zenon DEF TypeQueues
<1>2. Work(t)' = Work(t)
  BY Zenon DEF Work, Busy
<1> QED BY Zenon, <1>1, <1>2, EnqueueRequest DEF IdentityOf

(* ADIOI_Sync_thread_wait,                                                 *)
LEMMA WaitLifetime ==
  ASSUME TypeQueues, NEW t \in Thread, IdentityOf(t), YoungestOf(t), Issued \in Int,
         wait[t] # <<>> => Back(wait[t]).id \in complete[t],
         wait'[t] = <<>>, freed'[t] = freed[t] \cup {r.id : r \in Elements(wait[t])},
         Issued' = Issued, UNCHANGED <<pen, sub, tpc, treq, complete>>
  PROVE  IdentityOf(t)' /\ YoungestOf(t)' /\ sub[t] = <<>> /\ ~ Busy(t)
<1>1. wait[t] \in Seq(Request) /\ sub[t] \in Seq(Request)
  BY Zenon DEF TypeQueues
<1>2. Work(t)' = Work(t)
  BY Zenon DEF Work, Busy
<1>3. \A v \in freed'[t] : v \in freed[t] \/ \E i \in DOMAIN wait[t] : v = wait[t][i].id
  BY Zenon DEF Elements
<1>4. sub[t] = <<>> /\ Work(t) = {} /\ Youngest(sub[t], <<>>, Work(t))
  BY Zenon, <1>1, WaitDone DEF IdentityOf, YoungestOf
<1>5. Identity(pen[t], <<>>, <<>>, {}, complete[t], freed'[t], Issued)
  BY <1>3, <1>4, WaitRequest DEF IdentityOf
<1>6. IdentityOf(t)' /\ YoungestOf(t)'
  BY Zenon, <1>2, <1>4, <1>5 DEF IdentityOf, YoungestOf
<1> QED BY Zenon, <1>4, <1>6 DEF Work

(* the sync thread's taking the next request                               *)
LEMMA FrontLifetime ==
  ASSUME TypeQueues, TypeTpc, treq \in [Thread -> Request],
         NEW t \in Thread, ThreadFront(t), IdentityOf(t), Issued' = Issued
  PROVE  /\ IdentityOf(t)' /\ (YoungestOf(t) => YoungestOf(t)')
         /\ Busy(t)' => treq'[t].type = "SYNC"
<1> DEFINE h == Head(sub[t])
<1>1. /\ sub[t] \in Seq(Request) /\ sub[t] # <<>> /\ sub'[t] = Tail(sub[t])
      /\ treq'[t] = h /\ tpc[t] = "front"
      /\ h.type = "SHUTDOWN" => tpc'[t] = "exited"
      /\ h.type # "SHUTDOWN" => tpc'[t] \in {"pread", "unlock"}
      /\ UNCHANGED <<pen, wait, complete, freed>>
  BY Zenon DEF ThreadFront, TypeQueues, TypeTpc, CopyFrom
<1>2. h.type \in {"SYNC", "SHUTDOWN"}
  <2>1. h \in Request
    BY Zenon, <1>1, TailFacts
  <2> QED BY Zenon, <2>1 DEF Request
<1> HIDE DEF h
<1>3. (Busy(t)' <=> h.type = "SYNC") /\ ~ Busy(t)
  BY Zenon, <1>1, <1>2 DEF Busy
<1>4. Work(t) = {} /\ Work(t)' = IF h.type = "SYNC" THEN {h} ELSE {}
  BY Zenon, <1>1, <1>3 DEF Work
<1>5. /\ Identity(pen[t], sub'[t], wait[t], Work(t)', complete[t], freed[t], Issued)
      /\ Youngest(sub[t], wait[t], {}) => Youngest(sub'[t], wait[t], Work(t)')
  BY <1>1, <1>4, FrontRequest DEF IdentityOf, h
<1>6. IdentityOf(t)'
  BY Zenon, <1>1, <1>5 DEF IdentityOf
<1>7. ASSUME YoungestOf(t) PROVE YoungestOf(t)'
  <2>1. \A i \in DOMAIN sub[t] : sub[t][i].type = "SYNC"
    BY Zenon, <1>7 DEF YoungestOf, Youngest
  <2>2. h.type = "SYNC"
    BY Zenon, <1>1, <2>1, TailFacts DEF h
  <2> QED BY Zenon, <1>1, <1>4, <1>5, <1>7, <2>2 DEF YoungestOf
<1> QED BY Zenon, <1>1, <1>3, <1>6, <1>7

(* and completing it,                                                      *)
LEMMA CompleteLifetime ==
  ASSUME NEW t \in Thread, ThreadComplete(t), IdentityOf(t),
         TypeTpc, complete \in [Thread -> SUBSET Nat],
         Issued \in Int, Issued' = Issued
  PROVE  IdentityOf(t)' /\ (YoungestOf(t) => YoungestOf(t)')
<1>1. /\ complete'[t] = complete[t] \cup {treq[t].id} /\ tpc'[t] = "front"
      /\ UNCHANGED <<pen, sub, wait, treq, freed>> /\ tpc[t] = "complete"
  BY Zenon DEF ThreadComplete, TypeTpc, queues
<1>2. Work(t) = {treq[t]} /\ Work(t)' = {}
  BY Zenon, <1>1 DEF Work, Busy
<1> QED BY <1>1, <1>2, CompleteRequest DEF IdentityOf, YoungestOf

(* and the shutdown request.                                               *)
LEMMA ShutdownLifetime ==
  ASSUME NEW t \in Thread, IdentityOf(t), Issued' = Issued,
         UNCHANGED <<pen, wait, tpc, treq, complete, freed>>,
         sub[t] \in Seq(Request), sub'[t] = Append(sub[t], Shutdown)
  PROVE  IdentityOf(t)'
<1>1. Work(t)' = Work(t)
  BY Zenon DEF Work, Busy
<1> QED BY Zenon, <1>1, ShutdownRequest DEF IdentityOf

-------------------------------------------------------------------------------
TypeInv == TypeOK /\ (mpc = "join" => idx < NThreads)

LEMMA TypeInit == Init => TypeInv
BY SizeAssumption, HintAssumption
DEF Init, TypeInv, TypeOK, TypeFiles, TypeHandle, TypeQueues, TypePlace, TypeMain,
    TypeTpc, TypeThreads, TypeHistory, Shutdown, Request, Garbage, Thread, Flags

(* The parts of the type invariant that the proofs below use.              *)
LEMMA TypeFacts ==
  /\ TypeOK => /\ TypeQueues /\ TypeTpc /\ TypeMain /\ TypeThreads /\ TypeHandle
               /\ nw \in Int /\ idx \in Int
  /\ TypeOK' => TypeMain'
BY SizeAssumption DEF TypeOK, TypeMain

(* Moving a request from pen_ to sub_ and wait_ keeps the queues' types.   *)
LEMMA FlushOneType ==
  ASSUME TypeQueues, NEW t \in Thread, FlushOne(t)
  PROVE  TypeQueues'
<1>1. Tail(pen[t]) \in Seq(Request) /\ Head(pen[t]) \in Request
  BY Zenon, TailFacts DEF FlushOne, TypeQueues
<1>2. /\ Append(sub[t], Head(pen[t])) \in Seq(Request)
      /\ Append(wait[t], Head(pen[t])) \in Seq(Request)
  BY Zenon, <1>1, AppendFacts DEF TypeQueues
<1> QED BY Zenon, <1>1, <1>2 DEF FlushOne, TypeQueues

LEMMA TypeNext == TypeInv /\ [Next]_vars => TypeInv'
<1> USE SizeAssumption, HintAssumption
<1> SUFFICES ASSUME TypeInv, [Next]_vars PROVE TypeInv'
  BY Zenon
<1>0. TypeQueues
  BY Zenon DEF TypeInv, TypeOK
<1> USE DEF TypeInv, TypeOK, TypeFiles, TypeHandle, TypeQueues, TypePlace, TypeMain, TypeTpc,
         TypeThreads, TypeHistory
<1>1. ASSUME NEW e \in Extents, WriteBegin(e) PROVE TypeInv'
  <2>1. SyncReq(nw + 1, e) \in Request /\ BlocksOf(SyncReq(nw + 1, e)) \subseteq Block
    BY ExtentAssumption DEF SyncReq, Request, BlocksOf, Span
  <2> QED BY <1>1, <2>1 DEF WriteBegin, files, handle, queues, main, threads, history
<1>2. ASSUME Sync PROVE TypeInv'
  BY <1>2 DEF Sync, FlushBegin, files, handle, queues, main, threads, history
<1>3. ASSUME CacheAllocFail PROVE TypeInv'
  BY <1>3 DEF CacheAllocFail, FlushBegin, files, handle, queues, main, threads, history
<1>4. ASSUME Close PROVE TypeInv'
  BY <1>4 DEF Close, FlushBegin, files, handle, queues, main, threads, history
<1>5. ASSUME NEW f \in NewFlags, SetInfo(f) PROVE TypeInv'
  BY Zenon, <1>5 DEF SetInfo, files, handle, queues, main, threads, history
<1>6. ASSUME WritePwrite PROVE TypeInv'
  <2>1. wreq.id \in Nat /\ wreq.len \in Nat
    BY Zenon DEF Request
  <2>2. PICK n \in 1 .. wreq.len - xfer :
          /\ xfer' = xfer + n
          /\ cache' = IF isOpen THEN Overwritten(cache, n) ELSE cache
          /\ global' = IF isOpen THEN global ELSE Overwritten(global, n)
    BY Zenon, <1>6 DEF WritePwrite
  <2>3. /\ Overwritten(cache, n) \in [Block -> Nat]
        /\ Overwritten(global, n) \in [Block -> Int]
    BY SMTT(30), <2>1 DEF Overwritten
  <2>4. xfer' \in Nat /\ cache' \in [Block -> Nat] /\ global' \in [Block -> Int]
    <3>1. xfer' \in Nat
      BY <2>1, <2>2
    <3>2. CASE isOpen
      BY Zenon, <2>2, <2>3, <3>1, <3>2
    <3>3. CASE ~ isOpen
      BY Zenon, <2>2, <2>3, <3>1, <3>3
    <3> QED BY Zenon, <3>2, <3>3
  <2> QED
    BY SMTT(30), <1>6, <2>4
    DEF WritePwrite, files, handle, queues, main, threads, history
<1>7. ASSUME WriteFail PROVE TypeInv'
  BY <1>7 DEF WriteFail, files, handle, queues, main, threads, history
<1>8. ASSUME WriteEnqueue PROVE TypeInv'
  <2>1. Append(pen[curr], wreq) \in Seq(Request)
    BY AppendFacts
  <2>2. NextThread \in Thread
    BY DEF NextThread, Thread
  <2>3. wreq.id \in Nat
    BY Zenon DEF Request
  <2> QED
    BY ZenonT(30), <1>8, <2>1, <2>2, <2>3
    DEF WriteEnqueue, Acknowledge, files, handle, queues, main, threads, history
<1>9. ASSUME WriteFlush PROVE TypeInv'
  <2>1. FlushOne(curr) => TypeQueues'
    <3>1. curr \in Thread
      OBVIOUS
    <3> HIDE DEF TypeQueues
    <3> QED BY Zenon, <1>0, <3>1, FlushOneType
  <2>2. NextThread \in Thread
    BY DEF NextThread, Thread
  <2> QED
    BY ZenonT(30), <1>9, <2>1, <2>2
    DEF WriteFlush, files, handle, queues, main, threads, history
<1>10. ASSUME FlushThreads PROVE TypeInv'
  <2>1. idx < NThreads /\ FlushOne(idx) => TypeQueues'
    <3>1. idx < NThreads => idx \in Thread
      BY DEF Thread
    <3> HIDE DEF TypeQueues
    <3> QED BY Zenon, <1>0, <3>1, FlushOneType
  <2>2. TypeQueues'
    BY Zenon, <1>10, <2>1 DEF FlushThreads, queues
  <2>3. idx' \in 0 .. NThreads /\ mpc' \in {"flush", "wait"}
    BY SMTT(30), <1>10 DEF FlushThreads
  <2> QED
    BY SMTT(30), <1>10, <2>2, <2>3
    DEF FlushThreads, files, handle, queues, main, threads, history
<1>11. ASSUME WaitThreads PROVE TypeInv'
  <2>1. idx < NThreads => idx \in Thread
    BY DEF Thread
  <2>2. idx < NThreads => {r.id : r \in Elements(wait[idx])} \subseteq Nat
    <3> SUFFICES ASSUME idx < NThreads, NEW r \in Elements(wait[idx]) PROVE r.id \in Nat
      BY Zenon
    <3>1. r \in Request
      BY <2>1, ElementFacts
    <3> QED BY Zenon, <3>1 DEF Request
  <2>3. wait' \in [Thread -> Seq(Request)] /\ freed' \in [Thread -> SUBSET Nat]
    <3>1. CASE idx < NThreads
      <4>1. freed[idx] \cup {r.id : r \in Elements(wait[idx])} \in SUBSET Nat
        BY Zenon, <2>1, <2>2, <3>1
      <4>2. /\ freed' = [freed EXCEPT ![idx] = @ \cup {r.id : r \in Elements(wait[idx])}]
            /\ wait' = [wait EXCEPT ![idx] = <<>>]
        BY <1>11, <3>1 DEF WaitThreads
      <4>3. wait' \in [Thread -> Seq(Request)]
        BY SMTT(30), <2>1, <3>1, <4>2
      <4>4. freed' \in [Thread -> SUBSET Nat]
        BY Zenon, <2>1, <3>1, <4>1, <4>2
      <4> QED BY Zenon, <4>3, <4>4
    <3>2. CASE ~ (idx < NThreads)
      BY Zenon, <1>11, <3>2 DEF WaitThreads
    <3> QED BY Zenon, <3>1, <3>2
  <2>4. idx' \in 0 .. NThreads /\ mpc' \in {"wait", "flushed"}
    BY <1>11 DEF WaitThreads
  <2>5. TypeQueues' /\ TypeThreads' /\ TypeMain'
    BY Zenon, <1>11, <2>3, <2>4 DEF WaitThreads
  <2> HIDE DEF TypeQueues, TypeThreads, TypeMain
  <2> QED BY <1>11, <2>4, <2>5 DEF WaitThreads, files, handle, history
<1>12. ASSUME Fsync PROVE TypeInv'
  <2>1. writeErrors + 1 \in Nat
    OBVIOUS
  <2>2. /\ stable' \in [Block -> Int] /\ writeErrors' \in Nat
        /\ op' \in {"none", "write", "sync", "alloc", "close"}
        /\ mpc' \in {"flushed", "idle", "closeCache"}
    BY Zenon, <1>12, <2>1 DEF Fsync
  <2> QED
    BY ZenonT(30), <1>12, <2>1, <2>2
    DEF Fsync, files, handle, queues, main, threads, history
<1>13. ASSUME FlushReturn PROVE TypeInv'
  BY <1>13 DEF FlushReturn, files, handle, queues, main, threads, history
<1>14. ASSUME CloseCache PROVE TypeInv'
  <2>1. idx' \in 0 .. NThreads /\ mpc' = "fini"
    BY <1>14 DEF CloseCache
  <2>2. cacheFd' \in BOOLEAN
    BY ZenonT(30), <1>14 DEF CloseCache
  <2> QED
    BY <1>14, <2>1, <2>2
    DEF CloseCache, files, handle, queues, main, threads, history
<1>15. ASSUME ThreadShutdown PROVE TypeInv'
  <2>1. idx < NThreads => idx \in Thread
    BY DEF Thread
  <2>2. idx < NThreads => Append(sub[idx], Shutdown) \in Seq(Request)
    BY <2>1, AppendFacts DEF Shutdown, Request
  <2>3. TypeQueues'
    BY Zenon, <1>15, <2>1, <2>2 DEF ThreadShutdown
  <2> HIDE DEF TypeQueues
  <2> QED
    BY Zenon, <1>15, <2>3
    DEF ThreadShutdown, files, handle, main, threads, history
<1>16. ASSUME ThreadJoin PROVE TypeInv'
  BY SMTT(30), <1>16 DEF ThreadJoin, files, handle, queues, main, threads, history
<1>17. ASSUME PoolFini PROVE TypeInv'
  BY ZenonT(30), <1>17 DEF PoolFini, files, handle, queues, main, threads, history
<1>18. ASSUME CloseGlobal PROVE TypeInv'
  BY ZenonT(30), <1>18 DEF CloseGlobal, files, handle, queues, main, threads, history
<1>19. ASSUME NEW t \in Thread, ThreadFront(t) PROVE TypeInv'
  <2>1. Tail(sub[t]) \in Seq(Request) /\ Head(sub[t]) \in Request
    BY <1>19, TailFacts DEF ThreadFront
  <2>2. /\ (IF Head(sub[t]).type = "SHUTDOWN" THEN "exited" ELSE CopyFrom(Head(sub[t]), 0))
             \in {"front", "pread", "pwrite", "unlock", "complete", "exited"}
        /\ 0 \in Nat
    BY Zenon DEF CopyFrom
  <2>3. TypeQueues' /\ TypeTpc' /\ TypeThreads'
    BY Zenon, <1>19, <2>1, <2>2 DEF ThreadFront
  <2> HIDE DEF TypeQueues, TypeTpc, TypeThreads
  <2> QED BY <1>19, <2>3 DEF ThreadFront, files, handle, main, history
<1>20. ASSUME NEW t \in Thread, ThreadRead(t) PROVE TypeInv'
  <2>1. [b \in Block |-> Garbage] \in [Block -> Int] /\ ReadInto(t) \in [Block -> Int]
    BY DEF ReadInto, Garbage
  <2>2. tbuf' \in [Thread -> [Block -> Int]]
    BY ZenonT(30), <1>20, <2>1 DEF ThreadRead
  <2>3. syncErrors' \in Nat
    <3>1. syncErrors + 1 \in Nat
      OBVIOUS
    <3> QED BY Zenon, <1>20, <3>1 DEF ThreadRead
  <2>4. TypeThreads' /\ TypeTpc' /\ TypeHistory'
    BY Zenon, <1>20, <2>2, <2>3 DEF ThreadRead
  <2> HIDE DEF TypeThreads, TypeTpc, TypeHistory
  <2> QED BY <1>20, <2>4 DEF ThreadRead, files, handle, queues, main
<1>21. ASSUME NEW t \in Thread, ThreadWrite(t) PROVE TypeInv'
  <2>1. toff[t] + Count(t) \in Nat
    <3>1. treq[t].len \in Nat /\ toff[t] \in Nat
      BY Zenon DEF Request
    <3> HIDE DEF TypeInv
    <3> QED BY <3>1 DEF Count, Smaller
  <2>2. CopyFrom(treq[t], toff[t] + Count(t)) \in {"pread", "unlock"}
    BY Zenon DEF CopyFrom
  <2>3. global' \in [Block -> Int] /\ syncErrors' \in Nat
    BY SMTT(30), <1>21 DEF ThreadWrite
  <2>4. toff' \in [Thread -> Nat]
    BY Zenon, <1>21, <2>1 DEF ThreadWrite
  <2>5. tpc' \in [Thread -> {"front", "pread", "pwrite", "unlock", "complete",
                             "exited"}]
    BY Zenon, <1>21, <2>2 DEF ThreadWrite
  <2>6. TypeThreads' /\ TypeHistory'
    BY Zenon, <1>21, <2>3, <2>4 DEF ThreadWrite
  <2>7. TypeFiles' /\ TypeTpc'
    BY Zenon, <1>21, <2>3, <2>5 DEF ThreadWrite
  <2>8. TypeHandle' /\ TypeQueues'
    BY Zenon, <1>21 DEF ThreadWrite, handle, queues
  <2>9. TypePlace' /\ TypeMain' /\ (mpc' = "join" => idx' < NThreads)
    BY Zenon, <1>21 DEF ThreadWrite, main
  <2> QED BY Zenon, <2>6, <2>7, <2>8, <2>9
<1>22. ASSUME NEW t \in Thread, ThreadUnlock(t) PROVE TypeInv'
  <2>1. TypeTpc' /\ locks' \subseteq locks
    BY Zenon, <1>22 DEF ThreadUnlock
  <2> HIDE DEF TypeTpc
  <2> QED BY <1>22, <2>1 DEF ThreadUnlock, handle, queues, main, history
<1>23. ASSUME NEW t \in Thread, ThreadComplete(t) PROVE TypeInv'
  <2>1. treq[t].id \in Nat
    BY Zenon DEF Request
  <2> QED
    BY SMTT(30), <1>23, <2>1
    DEF ThreadComplete, files, handle, queues, main, threads, history
<1>24. CASE UNCHANGED vars
  BY <1>24 DEF vars, files, handle, queues, main, threads, history
<1> QED
  BY ZenonT(30), <1>1, <1>2, <1>3, <1>4, <1>5, <1>6, <1>7, <1>8, <1>9, <1>10, <1>11, <1>12, <1>13, <1>14, <1>15, <1>16, <1>17, <1>18, <1>19, <1>20, <1>21, <1>22, <1>23, <1>24
  DEF Next, Call, MainStep, ThreadStep, Terminated

(* The variables keep their types in every behaviour.                      *)
THEOREM TypeCorrect == Spec => []TypeOK
<1>1. TypeInv => TypeOK
  BY Zenon DEF TypeInv
<1> QED BY TypeInit, TypeNext, <1>1, PTL DEF Spec

(* A thread that works on a request is in a pool nobody shuts down.        *)
LEMMA BusyMeansLive ==
  ASSUME LifetimeInv, CleanInv, NEW t \in Thread, Busy(t)
  PROVE  Live /\ mpc \notin {"flushed", "closeCache"} /\ pool
<1>1. tpc[t] \notin {"front", "exited"}
  BY Zenon DEF Busy
<1>2. ~ Idle(t) /\ ~ Gone(t) /\ ~ Joining(t)
  BY Zenon, <1>1 DEF Idle, Gone, Joining
<1>3. pool
  BY Zenon, <1>2 DEF CleanInv, ShutdownInv
<1>4. idx \in Int /\ t \in Int
  BY SizeAssumption DEF LifetimeInv, TypeOK, TypeMain, Thread
<1>5. t < idx \/ t = idx \/ t > idx
  BY <1>4
<1>6. mpc \notin {"fini", "join"}
  BY Zenon, <1>2, <1>3, <1>5 DEF CleanInv, ShutdownInv
<1> QED BY Zenon, <1>2, <1>3, <1>6 DEF CleanInv, ShutdownInv, Live

-------------------------------------------------------------------------------
LEMMA LifetimeInit == Init => LifetimeInv
<1> SUFFICES ASSUME Init PROVE LifetimeInv
  BY Zenon
<1>1. TypeInv
  BY Zenon, TypeInit
<1>2. ControlInv
  BY HintAssumption DEF Init, ControlInv, Busy
<1>3. /\ Issued = 0 /\ \A t \in Thread : Work(t) = {}
  <2>1. nw = 0 /\ mpc = "idle" /\ \A t \in Thread : tpc[t] \in {"front", "exited"}
    BY Zenon DEF Init
  <2> QED BY Zenon, <2>1 DEF Issued, Work, Busy
<1>4. \A t \in Thread : /\ pen[t] = <<>> /\ sub[t] = <<>> /\ wait[t] = <<>>
                        /\ complete[t] = {} /\ freed[t] = {}
                        /\ tpc[t] = IF PoolStarted THEN "front" ELSE "exited"
  BY Zenon DEF Init
<1>5. IdentityInv
  <2> SUFFICES ASSUME NEW t \in Thread PROVE IdentityOf(t)
    BY Zenon DEF IdentityInv
  <2>1. Identity(<<>>, <<>>, <<>>, {}, {}, {}, 0)
    BY DEF Identity, IdsKnown, IdsFresh, PenDistinct, SubDistinct
  <2> QED BY Zenon, <1>3, <1>4, <2>1 DEF IdentityOf
<1>6. YoungestInv
  <2> SUFFICES ASSUME Live, NEW t \in Thread PROVE YoungestOf(t)
    BY Zenon DEF YoungestInv
  <2>1. tpc[t] = "front"
    BY Zenon, <1>2, <1>4 DEF Live, ControlInv
  <2>2. Youngest(<<>>, <<>>, {})
    BY DEF Youngest
  <2>3. tpc[t] # "exited"
    BY Zenon, <2>1
  <2> QED BY Zenon, <1>3, <1>4, <2>2, <2>3 DEF YoungestOf
<1> QED BY Zenon, <1>1, <1>2, <1>5, <1>6 DEF LifetimeInv, TypeInv

(* A step that touches no thread's requests keeps the invariant.           *)
LEMMA QuietStep ==
  ASSUME IdentityInv, YoungestInv, \A t \in Thread : SameRequests(t),
         Issued \in Int, Issued' \in Int, Issued <= Issued', Live' => Live
  PROVE  IdentityInv' /\ YoungestInv'
<1>1. IdentityInv'
  BY Zenon, SameRequestsIdentity DEF IdentityInv
<1>2. YoungestInv'
  BY Zenon, SameRequestsYoungest DEF YoungestInv
<1> QED BY Zenon, <1>1, <1>2

(* A step on the requests of thread t only.                                *)
LEMMA OneThreadStep ==
  ASSUME IdentityInv, YoungestInv, NEW t \in Thread,
         IdentityOf(t)', Live' => YoungestOf(t)',
         \A u \in Thread \ {t} : SameRequests(u),
         Issued \in Int, Issued' \in Int, Issued <= Issued', Live' => Live
  PROVE  IdentityInv' /\ YoungestInv'
<1>1. IdentityInv'
  BY Zenon, SameRequestsIdentity DEF IdentityInv
<1>2. YoungestInv'
  BY Zenon, SameRequestsYoungest DEF YoungestInv
<1> QED BY Zenon, <1>1, <1>2

(* What the step lemmas below know of the types.                           *)
LEMMA LifetimeTypes ==
  ASSUME LifetimeInv, TypeOK'
  PROVE  /\ TypeQueues /\ TypeTpc /\ TypeMain /\ TypeThreads /\ TypeHandle
         /\ Issued \in Int /\ Issued' \in Int /\ Issued \in Nat
<1>1. TypeQueues /\ TypeTpc /\ TypeMain /\ TypeThreads /\ TypeHandle /\ TypeMain'
  BY Zenon, TypeFacts DEF LifetimeInv
<1>2. nw \in Nat /\ nw' \in Nat /\ (mpc = "pwrite" => nw > 0)
  BY Zenon, <1>1 DEF TypeMain, LifetimeInv, ControlInv
<1> QED BY <1>1, <1>2 DEF Issued

(* The main thread may go where the state of the handle allows it to be.   *)
GoodPlace ==
  /\ mpc \in {"wflush", "flush", "wait", "join"} => pool
  /\ mpc = "join" => idx < NThreads
  /\ mpc \in {"delete", "closed"} => ~ pool
  /\ mpc = "pwrite" => wreq.type = "SYNC" /\ wreq.id = nw /\ nw > 0

LEMMA ControlStep ==
  ASSUME ControlInv, UNCHANGED <<pen, tpc, treq, isOpen>>, pool' => pool, GoodPlace'
  PROVE  ControlInv'
<1>1. \A t \in Thread : Busy(t)' = Busy(t)
  BY Zenon DEF Busy
<1> QED BY Zenon, <1>1 DEF ControlInv, GoodPlace

(* What a step that touches no thread's requests may do.                   *)
QuietMain ==
  /\ UNCHANGED <<pen, sub, wait, tpc, treq, complete, freed, isOpen>>
  /\ pool' => pool
  /\ mpc \in {"fini", "join"} => mpc' \in {"fini", "join"} \/ ~ pool'
  /\ \/ nw' = nw /\ (mpc' = "pwrite" => mpc = "pwrite")
     \/ nw' = nw + 1 /\ mpc' = "pwrite"
  /\ GoodPlace'

LEMMA QuietRequests ==
  ASSUME LifetimeInv, QuietMain
  PROVE  ControlInv' /\ IdentityInv' /\ YoungestInv'
<1>1. nw \in Nat /\ (mpc = "pwrite" => nw > 0)
  BY Zenon, TypeFacts DEF LifetimeInv, TypeMain, ControlInv
<1>2. \/ nw' = nw /\ (mpc' = "pwrite" => mpc = "pwrite")
      \/ nw' = nw + 1 /\ mpc' = "pwrite"
  BY Zenon DEF QuietMain
<1>3. Issued \in Int /\ Issued' \in Int /\ Issued <= Issued'
  BY <1>1, <1>2 DEF Issued
<1>4. Live' => Live
  BY Zenon DEF QuietMain, Live
<1>5. \A t \in Thread : SameRequests(t)
  BY Zenon DEF QuietMain, SameRequests, Busy
<1>6. ControlInv'
  <2>1. UNCHANGED <<pen, tpc, treq, isOpen>> /\ (pool' => pool) /\ GoodPlace'
    BY Zenon DEF QuietMain
  <2>2. ControlInv
    BY Zenon DEF LifetimeInv
  <2> QED BY Zenon, <2>1, <2>2, ControlStep
<1> QED BY Zenon, <1>3, <1>4, <1>5, <1>6, QuietStep DEF LifetimeInv

(* Such are the steps of the main thread that touch no queue.              *)
LEMMA QuietSteps ==
  ASSUME LifetimeInv,
         \/ \E e \in Extents : WriteBegin(e)
         \/ \E f \in NewFlags : SetInfo(f)
         \/ Sync \/ CacheAllocFail \/ Close \/ WritePwrite \/ WriteFail \/ Fsync
         \/ FlushReturn \/ CloseCache \/ ThreadJoin \/ PoolFini \/ CloseGlobal
         \/ UNCHANGED vars
  PROVE  ControlInv' /\ IdentityInv' /\ YoungestInv'
<1> SUFFICES QuietMain
  BY Zenon, QuietRequests
<1>0. nw \in Nat /\ GoodPlace /\ (~ isOpen => ~ pool) /\ idx \in Int
  BY Zenon, TypeFacts, HintAssumption DEF LifetimeInv, TypeMain, ControlInv, GoodPlace
<1> USE DEF QuietMain, GoodPlace, handle, queues, main, threads
<1>1. ASSUME NEW e \in Extents, WriteBegin(e) PROVE QuietMain
  BY <1>0, <1>1 DEF WriteBegin, SyncReq
<1>2. ASSUME NEW f \in NewFlags, SetInfo(f) PROVE QuietMain
  BY Zenon, <1>0, <1>2 DEF SetInfo
<1>3. CASE Sync
  BY Zenon, <1>0, <1>3 DEF Sync, FlushBegin
<1>4. CASE CacheAllocFail
  BY Zenon, <1>0, <1>4 DEF CacheAllocFail, FlushBegin
<1>5. CASE Close
  BY Zenon, <1>0, <1>5 DEF Close, FlushBegin
<1>6. CASE WritePwrite
  BY Zenon, <1>0, <1>6 DEF WritePwrite
<1>7. CASE WriteFail
  BY Zenon, <1>0, <1>7 DEF WriteFail
<1>8. CASE Fsync
  BY Zenon, <1>0, <1>8 DEF Fsync
<1>9. CASE FlushReturn
  BY Zenon, <1>0, <1>9 DEF FlushReturn
<1>10. CASE CloseCache
  BY Zenon, <1>0, <1>10 DEF CloseCache
<1>11. CASE ThreadJoin
  BY Zenon, <1>0, <1>11 DEF ThreadJoin
<1>12. CASE PoolFini
  BY Zenon, <1>0, <1>12 DEF PoolFini
<1>13. CASE CloseGlobal
  BY Zenon, <1>0, <1>13 DEF CloseGlobal
<1>14. CASE UNCHANGED vars
  BY Zenon, <1>0, <1>14 DEF vars
<1> QED BY Zenon, <1>1, <1>2, <1>3, <1>4, <1>5, <1>6, <1>7, <1>8, <1>9, <1>10, <1>11, <1>12, <1>13, <1>14

(* The steps of a sync thread between the front of sub_ and the completion.*)
LEMMA CopySteps ==
  ASSUME LifetimeInv, NEW t \in Thread, ThreadRead(t) \/ ThreadWrite(t) \/ ThreadUnlock(t)
  PROVE  ControlInv' /\ IdentityInv' /\ YoungestInv'
<1>1. /\ UNCHANGED <<pen, sub, wait, treq, complete, freed, isOpen, pool, mpc, nw, idx, wreq>>
      /\ tpc[t] \in {"pread", "pwrite", "unlock"}
      /\ tpc' = [tpc EXCEPT ![t] = tpc'[t]] /\ tpc'[t] \in {"pread", "pwrite", "unlock", "complete"}
  <2>1. TypeTpc
    BY Zenon, TypeFacts DEF LifetimeInv
  <2> QED
    BY Zenon, <2>1
    DEF TypeTpc, ThreadRead, ThreadWrite, ThreadUnlock, CopyFrom, handle, queues, main
<1>2. Busy(t) /\ Busy(t)' /\ tpc[t] # "exited" /\ tpc'[t] # "exited"
  BY Zenon, <1>1 DEF Busy
<1>3. \A u \in Thread \ {t} : tpc'[u] = tpc[u]
  <2>1. TypeTpc
    BY Zenon, TypeFacts DEF LifetimeInv
  <2> QED BY Zenon, <1>1, <2>1 DEF TypeTpc
<1>4. \A u \in Thread : SameRequests(u)
  <2> TAKE u \in Thread
  <2>1. /\ pen'[u] = pen[u] /\ sub'[u] = sub[u] /\ wait'[u] = wait[u]
        /\ treq'[u] = treq[u] /\ complete'[u] = complete[u] /\ freed'[u] = freed[u]
    BY Zenon, <1>1
  <2>2. CASE u = t
    BY Zenon, <1>2, <2>1, <2>2 DEF SameRequests
  <2>3. CASE u # t
    <3>1. Busy(u)' = Busy(u) /\ tpc'[u] = tpc[u]
      BY Zenon, <1>3, <2>3 DEF Busy
    <3> QED BY Zenon, <2>1, <3>1 DEF SameRequests
  <2> QED BY Zenon, <2>2, <2>3
<1>5. Issued' = Issued /\ Issued \in Int /\ Live' = Live
  BY <1>1, TypeFacts DEF Issued, Live, LifetimeInv, TypeMain
<1>6. IdentityInv' /\ YoungestInv'
  BY SMTT(30), <1>4, <1>5, QuietStep DEF LifetimeInv
<1>7. \A u \in Thread : Busy(u)' = Busy(u)
  BY Zenon, <1>4 DEF SameRequests
<1>8. ControlInv'
  BY Zenon, <1>1, <1>7 DEF LifetimeInv, ControlInv
<1> QED BY Zenon, <1>6, <1>8

(* WriteContig appends a request to pen_ of the current thread.            *)
LEMMA EnqueueStep ==
  ASSUME LifetimeInv, TypeOK', WriteEnqueue
  PROVE  ControlInv' /\ IdentityInv' /\ YoungestInv'
<1>0. /\ TypeQueues /\ TypeTpc /\ TypeMain /\ TypeThreads /\ TypeHandle
      /\ Issued \in Int /\ Issued' \in Int /\ Issued \in Nat
  BY Zenon, LifetimeTypes
<1>1. CASE pen' = pen
  <2>1. QuietMain
    BY Zenon, <1>0, <1>1 DEF WriteEnqueue, QuietMain, GoodPlace, threads
  <2> QED BY Zenon, <2>1, QuietRequests
<1>2. CASE isOpen /\ flag # "flush_none" /\ pool
  <2>1. /\ pen' = [pen EXCEPT ![curr] = Append(@, wreq)] /\ mpc' \in {"wflush", "idle"}
        /\ UNCHANGED <<sub, wait, tpc, treq, complete, freed, nw, pool, isOpen, wreq, idx>>
        /\ mpc = "pwrite"
    BY Zenon, <1>2 DEF WriteEnqueue, files, handle, queues, main, threads, history
  <2>2. /\ curr \in Thread /\ wreq \in Request /\ wreq.id = nw /\ wreq.type = "SYNC"
        /\ nw \in Nat /\ pen \in [Thread -> Seq(Request)]
    BY Zenon, <1>0, <2>1 DEF TypeMain, TypeHandle, TypeQueues, LifetimeInv, ControlInv
  <2>3. Issued' = Issued + 1 /\ wreq.id = Issued + 1 /\ Live /\ Live'
    BY <2>1, <2>2, <1>2 DEF Issued, Live
  <2>t. PICK t \in Thread : t = curr
    BY Zenon, <2>2
  <2>4. pen'[t] = Append(pen[t], wreq) /\ \A u \in Thread \ {t} : pen'[u] = pen[u]
    BY Zenon, <2>1, <2>2, <2>t
  <2>5. IdentityOf(t)'
    BY Zenon, <1>0, <2>1, <2>2, <2>3, <2>4, EnqueueLifetime DEF LifetimeInv, IdentityInv
  <2>6. YoungestOf(t)'
    <3>1. YoungestOf(t)
      BY Zenon, <2>2, <2>3 DEF LifetimeInv, YoungestInv
    <3> QED BY Zenon, <2>1, <3>1 DEF YoungestOf, Work, Busy
  <2>7. \A u \in Thread \ {t} : SameRequests(u)
    BY Zenon, <2>1, <2>4 DEF SameRequests, Busy
  <2>8. IdentityInv' /\ YoungestInv'
    BY SMTT(30), <1>0, <2>2, <2>3, <2>5, <2>6, <2>7, OneThreadStep DEF LifetimeInv
  <2>9. \A u \in Thread : \A i \in DOMAIN pen'[u] : pen'[u][i].type = "SYNC"
    <3> SUFFICES ASSUME NEW u \in Thread, NEW i \in DOMAIN pen'[u]
                 PROVE  pen'[u][i].type = "SYNC"
      BY Zenon
    <3>1. (i \in DOMAIN pen[u] /\ pen'[u][i] = pen[u][i]) \/ pen'[u][i] = wreq
      <4>1. pen[t] \in Seq(Request)
        BY Zenon, <2>2
      <4>4. \A k \in DOMAIN pen'[t] :
              (k \in DOMAIN pen[t] /\ pen'[t][k] = pen[t][k]) \/ pen'[t][k] = wreq
        BY <2>2, <2>4, <4>1, AppendFacts
      <4>2. CASE u = t
        BY Zenon, <4>2, <4>4
      <4>3. CASE u # t
        BY Zenon, <2>4, <4>3
      <4> QED BY Zenon, <4>2, <4>3
    <3> QED BY Zenon, <2>2, <3>1 DEF LifetimeInv, ControlInv
  <2>10. ControlInv'
    BY Zenon, <1>2, <2>1, <2>9 DEF LifetimeInv, ControlInv, Busy
  <2> QED BY Zenon, <2>8, <2>10
<1> QED BY Zenon, <1>1, <1>2 DEF WriteEnqueue

(* A request moves from pen_ to sub_ and wait_.                            *)
LEMMA FlushStep ==
  ASSUME LifetimeInv, TypeOK', NEW t \in Thread, FlushOne(t), Live,
         mpc \in {"wflush", "flush"}, mpc' = mpc,
         UNCHANGED <<tpc, treq, complete, freed, nw, pool, isOpen, wreq, idx>>
  PROVE  ControlInv' /\ IdentityInv' /\ YoungestInv'
<1>0. /\ TypeQueues /\ TypeTpc /\ TypeMain /\ TypeThreads /\ TypeHandle
      /\ Issued \in Int /\ Issued' \in Int /\ Issued \in Nat
  BY Zenon, LifetimeTypes
<1>1. /\ pen[t] # <<>> /\ pen[t] \in Seq(Request)
      /\ pen'[t] = Tail(pen[t])
      /\ \A u \in Thread \ {t} : pen'[u] = pen[u] /\ sub'[u] = sub[u] /\ wait'[u] = wait[u]
  BY Zenon, <1>0 DEF FlushOne, TypeQueues
<1>2. /\ 1 \in DOMAIN pen[t]
      /\ \A i \in DOMAIN pen'[t] : i + 1 \in DOMAIN pen[t] /\ pen'[t][i] = pen[t][i + 1]
  BY <1>1, TailFacts
<1>3. Issued' = Issued /\ Live'
  BY Zenon DEF Issued, Live
<1>4. pen[t][1].type = "SYNC" /\ IdentityOf(t) /\ YoungestOf(t)
  BY Zenon, <1>2 DEF LifetimeInv, ControlInv, IdentityInv, YoungestInv
<1>5. IdentityOf(t)' /\ YoungestOf(t)'
  BY Zenon, <1>0, <1>3, <1>4, FlushOneLifetime
<1>6. \A u \in Thread \ {t} : SameRequests(u)
  BY Zenon, <1>1 DEF SameRequests, Busy
<1>7. IdentityInv' /\ YoungestInv'
  BY SMTT(30), <1>0, <1>3, <1>5, <1>6, OneThreadStep DEF LifetimeInv
<1>8. \A u \in Thread : \A i \in DOMAIN pen'[u] : pen'[u][i].type = "SYNC"
  <2>1. \A i \in DOMAIN pen'[t] : pen'[t][i].type = "SYNC"
    BY SMTT(30), <1>2 DEF LifetimeInv, ControlInv
  <2>2. \A u \in Thread \ {t} : \A i \in DOMAIN pen'[u] : pen'[u][i].type = "SYNC"
    BY SMTT(30), <1>1 DEF LifetimeInv, ControlInv
  <2> QED BY Zenon, <2>1, <2>2
<1>9. ControlInv'
  BY Zenon, <1>8 DEF LifetimeInv, ControlInv, Busy
<1> QED BY Zenon, <1>7, <1>9

(* The flush of a flush_immediate write.                                   *)
LEMMA WriteFlushStep ==
  ASSUME LifetimeInv, TypeOK', WriteFlush
  PROVE  ControlInv' /\ IdentityInv' /\ YoungestInv'
<1>0. /\ TypeQueues /\ TypeTpc /\ TypeMain /\ TypeThreads /\ TypeHandle
      /\ Issued \in Int /\ Issued' \in Int /\ Issued \in Nat
  BY Zenon, LifetimeTypes
<1>n. pool
  BY Zenon DEF WriteFlush, LifetimeInv, ControlInv
<1>1. curr \in Thread /\ Live
  BY Zenon, <1>0, <1>n DEF WriteFlush, TypeHandle, Live
<1>2. CASE FlushOne(curr) /\ mpc' = mpc
  BY Zenon, FlushStep, <1>1, <1>2
  DEF WriteFlush, files, handle, queues, main, threads, history
<1>3. CASE UNCHANGED queues
  <2>1. QuietMain
    BY Zenon, <1>3, <1>n DEF WriteFlush, QuietMain, GoodPlace, queues, handle, threads
  <2> QED BY Zenon, <2>1, QuietRequests
<1> QED BY Zenon, <1>2, <1>3 DEF WriteFlush

(* The first loop of Flush.                                                *)
LEMMA FlushThreadsStep ==
  ASSUME LifetimeInv, TypeOK', FlushThreads
  PROVE  ControlInv' /\ IdentityInv' /\ YoungestInv'
<1>0. /\ TypeQueues /\ TypeTpc /\ TypeMain /\ TypeThreads /\ TypeHandle
      /\ Issued \in Int /\ Issued' \in Int /\ Issued \in Nat
  BY Zenon, LifetimeTypes
<1>n. pool
  BY Zenon DEF FlushThreads, LifetimeInv, ControlInv
<1>1. Live /\ (idx < NThreads => idx \in Thread)
  BY SMTT(30), <1>0, <1>n, SizeAssumption DEF FlushThreads, TypeMain, Live, Thread
<1>2. CASE idx < NThreads /\ FlushOne(idx) /\ mpc' = mpc /\ idx' = idx
  BY Zenon, FlushStep, <1>1, <1>2
  DEF FlushThreads, files, handle, queues, main, threads, history
<1>3. CASE UNCHANGED queues
  <2>1. QuietMain
    BY Zenon, <1>3, <1>n DEF FlushThreads, QuietMain, GoodPlace, queues, handle, threads
  <2> QED BY Zenon, <2>1, QuietRequests
<1> QED BY Zenon, <1>2, <1>3 DEF FlushThreads

(* The second loop of Flush.                                               *)
LEMMA WaitThreadsStep ==
  ASSUME LifetimeInv, TypeOK', WaitThreads
  PROVE  ControlInv' /\ IdentityInv' /\ YoungestInv'
<1>0. /\ TypeQueues /\ TypeTpc /\ TypeMain /\ TypeThreads /\ TypeHandle
      /\ Issued \in Int /\ Issued' \in Int /\ Issued \in Nat
  BY Zenon, LifetimeTypes
<1>1. ControlInv'
  <2>1. GoodPlace' /\ UNCHANGED <<pen, tpc, treq, isOpen, pool>>
    BY Zenon DEF WaitThreads, GoodPlace, handle, LifetimeInv, ControlInv
  <2> QED BY Zenon, <2>1, ControlStep DEF LifetimeInv
<1>2. Issued' = Issued /\ Live /\ Live'
  BY Zenon
  DEF WaitThreads, Issued, Live, LifetimeInv, ControlInv, files, handle, queues, main, threads, history
<1>3. CASE idx < NThreads
  <2>1. PICK t \in Thread : t = idx
    BY SMTT(30), <1>0, <1>3, SizeAssumption DEF TypeMain, Thread
  <2>2. /\ wait[t] # <<>> => Back(wait[t]).id \in complete[t]
        /\ wait' = [wait EXCEPT ![t] = <<>>]
        /\ freed' = [freed EXCEPT ![t] = @ \cup {r.id : r \in Elements(wait[t])}]
        /\ UNCHANGED <<pen, sub, tpc, treq, complete>>
    BY SMTT(30), <1>0, <1>3, <2>1 DEF WaitThreads, WaitedFor, TypeMain
  <2>3. /\ wait'[t] = <<>> /\ freed'[t] = freed[t] \cup {r.id : r \in Elements(wait[t])}
        /\ \A u \in Thread \ {t} : wait'[u] = wait[u] /\ freed'[u] = freed[u]
    BY Zenon, <1>0, <2>2 DEF TypeQueues, TypeThreads
  <2>4. IdentityOf(t) /\ YoungestOf(t)
    BY Zenon, <1>2 DEF LifetimeInv, IdentityInv, YoungestInv
  <2>5. IdentityOf(t)' /\ YoungestOf(t)'
    BY Zenon, <1>0, <1>2, <2>2, <2>3, <2>4, WaitLifetime
  <2>7. \A u \in Thread \ {t} : SameRequests(u)
    BY Zenon, <2>2, <2>3 DEF SameRequests, Busy
  <2>6. IdentityInv' /\ YoungestInv'
    BY <1>0, <1>2, <2>5, <2>7, OneThreadStep DEF LifetimeInv
  <2> QED BY Zenon, <1>1, <2>6
<1>4. CASE ~ (idx < NThreads)
  <2>1. \A u \in Thread : SameRequests(u)
    BY Zenon, <1>4 DEF WaitThreads, SameRequests, Busy
  <2> QED BY SMTT(30), <1>0, <1>1, <1>2, <2>1, QuietStep DEF LifetimeInv
<1> QED BY Zenon, <1>3, <1>4

(* The shutdown request.                                                   *)
LEMMA ShutdownStep ==
  ASSUME LifetimeInv, TypeOK', ThreadShutdown
  PROVE  ControlInv' /\ IdentityInv' /\ YoungestInv'
<1>0. /\ TypeQueues /\ TypeTpc /\ TypeMain /\ TypeThreads /\ TypeHandle
      /\ Issued \in Int /\ Issued' \in Int /\ Issued \in Nat
  BY Zenon, LifetimeTypes
<1>1. ~ Live' /\ Issued' = Issued
  BY Zenon DEF ThreadShutdown, Live, Issued
<1>2. ControlInv'
  <2>1. GoodPlace' /\ UNCHANGED <<pen, tpc, treq, isOpen, pool>>
    BY Zenon DEF ThreadShutdown, GoodPlace, handle, threads
  <2> QED BY Zenon, <2>1, ControlStep DEF LifetimeInv
<1>3. PICK t \in Thread : t = idx
  BY <1>0, SizeAssumption DEF ThreadShutdown, TypeMain, Thread
<1>4. /\ sub'[t] = Append(sub[t], Shutdown) /\ sub[t] \in Seq(Request)
      /\ \A u \in Thread \ {t} : sub'[u] = sub[u]
      /\ UNCHANGED <<pen, wait, tpc, treq, complete, freed>>
  BY Zenon, <1>0, <1>3 DEF ThreadShutdown, TypeQueues, threads
<1>6. IdentityOf(t)'
  <2>1. IdentityOf(t)
    BY Zenon DEF LifetimeInv, IdentityInv
  <2> QED BY Zenon, <1>1, <1>4, <2>1, ShutdownLifetime
<1>7. \A u \in Thread \ {t} : SameRequests(u)
  BY Zenon, <1>4 DEF SameRequests, Busy
<1>8. IdentityInv' /\ YoungestInv'
  BY <1>0, <1>1, <1>6, <1>7, OneThreadStep DEF LifetimeInv
<1> QED BY Zenon, <1>2, <1>8

(* A sync thread takes a request.                                          *)
LEMMA FrontStep ==
  ASSUME LifetimeInv, TypeOK', NEW t \in Thread, ThreadFront(t)
  PROVE  ControlInv' /\ IdentityInv' /\ YoungestInv'
<1>0. /\ TypeQueues /\ TypeTpc /\ TypeMain /\ TypeThreads /\ TypeHandle
      /\ Issued \in Int /\ Issued' \in Int /\ Issued \in Nat
  BY Zenon, LifetimeTypes
<1>1. TypeTpc /\ treq \in [Thread -> Request]
  BY Zenon, <1>0 DEF TypeThreads
<1>2. Issued' = Issued /\ Live' = Live
  BY Zenon DEF ThreadFront, Issued, Live, main, handle
<1>3. /\ IdentityOf(t)' /\ (YoungestOf(t) => YoungestOf(t)')
      /\ Busy(t)' => treq'[t].type = "SYNC"
  BY Zenon, <1>0, <1>1, <1>2, FrontLifetime DEF LifetimeInv, IdentityInv
<1>4. /\ \A u \in Thread \ {t} : /\ sub'[u] = sub[u] /\ treq'[u] = treq[u]
                                 /\ tpc'[u] = tpc[u]
      /\ UNCHANGED <<pen, wait, complete, freed>>
  BY Zenon, <1>0, <1>1 DEF ThreadFront, TypeQueues, TypeTpc
<1>5. \A u \in Thread \ {t} : SameRequests(u)
  BY Zenon, <1>4 DEF SameRequests, Busy
<1>6. IdentityInv' /\ YoungestInv'
  BY SMTT(30), <1>0, <1>2, <1>3, <1>5, OneThreadStep DEF LifetimeInv, YoungestInv
<1>7. \A u \in Thread : Busy(u)' => treq'[u].type = "SYNC"
  <2>1. \A u \in Thread \ {t} : Busy(u)' = Busy(u) /\ treq'[u] = treq[u]
    BY Zenon, <1>5 DEF SameRequests
  <2> QED BY Zenon, <1>3, <2>1 DEF LifetimeInv, ControlInv
<1>8. ControlInv'
  BY Zenon, <1>7 DEF ThreadFront, LifetimeInv, ControlInv, handle, main
<1> QED BY Zenon, <1>6, <1>8

(* A sync thread completes its request.                                    *)
LEMMA CompleteStep ==
  ASSUME LifetimeInv, TypeOK', NEW t \in Thread, ThreadComplete(t)
  PROVE  ControlInv' /\ IdentityInv' /\ YoungestInv'
<1>0. /\ TypeQueues /\ TypeTpc /\ TypeMain /\ TypeThreads /\ TypeHandle
      /\ Issued \in Int /\ Issued' \in Int /\ Issued \in Nat
  BY Zenon, LifetimeTypes
<1>1. TypeTpc /\ complete \in [Thread -> SUBSET Nat]
  BY Zenon, <1>0 DEF TypeThreads
<1>2. Issued' = Issued /\ Live' = Live
  BY Zenon DEF ThreadComplete, Issued, Live, main, handle
<1>3. IdentityOf(t)' /\ (YoungestOf(t) => YoungestOf(t)')
  BY Zenon, <1>0, <1>1, <1>2, CompleteLifetime DEF LifetimeInv, IdentityInv
<1>4. \A u \in Thread \ {t} : SameRequests(u)
  BY Zenon, <1>1 DEF ThreadComplete, TypeTpc, SameRequests, Busy, queues
<1>5. IdentityInv' /\ YoungestInv'
  BY SMTT(30), <1>0, <1>2, <1>3, <1>4, OneThreadStep DEF LifetimeInv, YoungestInv
<1>6. ControlInv'
  BY Zenon, <1>1
  DEF ThreadComplete, TypeTpc, LifetimeInv, ControlInv, Busy, handle, main, queues
<1> QED BY Zenon, <1>5, <1>6

-------------------------------------------------------------------------------
LEMMA LifetimeNext == LifetimeInv /\ [Next]_vars => LifetimeInv'
<1> SUFFICES ASSUME LifetimeInv, [Next]_vars PROVE LifetimeInv'
  BY Zenon
<1>1. TypeOK'
  BY Zenon, TypeNext DEF TypeInv, LifetimeInv, ControlInv
<1>2. ControlInv' /\ IdentityInv' /\ YoungestInv'
  BY Zenon, <1>1, QuietSteps, CopySteps, EnqueueStep, WriteFlushStep, FlushThreadsStep,
     WaitThreadsStep, ShutdownStep, FrontStep, CompleteStep
  DEF Next, Call, MainStep, ThreadStep, Terminated
<1> QED BY Zenon, <1>1, <1>2 DEF LifetimeInv

(* No behaviour lets a sync thread use a freed request: waiting for the    *)
(* youngest request in ADIOI_Sync_thread_wait is enough.                   *)
THEOREM RequestsLive == Spec => []NoUseAfterFree
<1>1. LifetimeInv => NoUseAfterFree
  <2> SUFFICES ASSUME LifetimeInv, NEW t \in Thread
               PROVE  /\ \A r \in Elements(sub[t]) : r.type = "SYNC" => r.id \notin freed[t]
                      /\ tpc[t] \notin {"front", "exited"} => treq[t].id \notin freed[t]
    BY Zenon DEF NoUseAfterFree
  <2>1. sub[t] \in Seq(Request) /\ IdentityOf(t)
    BY Zenon DEF LifetimeInv, TypeOK, TypeQueues, IdentityInv
  <2>2. Elements(sub[t]) = {sub[t][i] : i \in DOMAIN sub[t]}
    BY Zenon, <2>1, ElementFacts
  <2>3. tpc[t] \notin {"front", "exited"} => Busy(t)
    BY Zenon DEF LifetimeInv, TypeOK, TypeTpc, Busy
  <2> QED BY Zenon, <2>1, <2>2, <2>3 DEF IdentityOf, Identity, IdsFresh, Fresh, Work
<1> QED BY LifetimeInit, LifetimeNext, <1>1, PTL DEF Spec

LEMMA CleanInit == AlwaysFlushes /\ Init => CleanInv
BY HintAssumption
DEF AlwaysFlushes, Init, CleanInv, FlushInv, ShutdownInv, Gone, Empty, Live

LEMMA CleanFacts ==
  ASSUME LifetimeInv
  PROVE  /\ TypeOK /\ ControlInv /\ idx \in Int /\ NThreads \in Int
         /\ \A t \in Thread : t \in Int /\ 0 <= t /\ t < NThreads
BY SMTT(30), SizeAssumption DEF LifetimeInv, TypeOK, TypeMain, Thread

(* WriteContig makes a request while the pool is there.                    *)
LEMMA CleanEnqueue ==
  ASSUME LifetimeInv, CleanInv, WriteEnqueue
  PROVE  CleanInv'
<1> USE SizeAssumption
<1>0. /\ TypeOK /\ ControlInv /\ idx \in Int /\ NThreads \in Int
      /\ \A t \in Thread : t \in Int /\ 0 <= t /\ t < NThreads
  BY Zenon, CleanFacts
<1>1. /\ mpc = "pwrite" /\ mpc' \in {"idle", "crashed", "wflush"}
      /\ UNCHANGED <<pool, flag, sub, wait, tpc, cacheFd>>
      /\ pen' # pen => pool
  BY Zenon DEF WriteEnqueue, files, handle, queues, main, threads, history
<1> QED BY Zenon, <1>1 DEF CleanInv, FlushInv, ShutdownInv, Gone, Empty, Live

(* WriteContig flushes while the pool is there.                            *)
LEMMA CleanWriteFlush ==
  ASSUME LifetimeInv, CleanInv, WriteFlush
  PROVE  CleanInv'
<1> USE SizeAssumption
<1>0. /\ TypeOK /\ ControlInv /\ idx \in Int /\ NThreads \in Int
      /\ \A t \in Thread : t \in Int /\ 0 <= t /\ t < NThreads
  BY Zenon, CleanFacts
<1>1. /\ mpc = "wflush" /\ mpc' \in {"idle", "wflush"} /\ pool
      /\ UNCHANGED <<pool, flag, tpc, cacheFd>>
  BY Zenon, <1>0
  DEF WriteFlush, ControlInv, files, handle, queues, main, threads, history
<1> QED BY Zenon, <1>1 DEF CleanInv, FlushInv, ShutdownInv, Live

(* Flush empties pen_ of one thread after the other.                       *)
LEMMA CleanFlush ==
  ASSUME LifetimeInv, CleanInv, FlushThreads
  PROVE  CleanInv'
<1> USE SizeAssumption
<1>0. /\ TypeOK /\ ControlInv /\ idx \in Int /\ NThreads \in Int
      /\ \A t \in Thread : t \in Int /\ 0 <= t /\ t < NThreads
  BY Zenon, CleanFacts
<1>1. /\ mpc = "flush" /\ mpc' \in {"flush", "wait"} /\ pool
      /\ UNCHANGED <<pool, flag, tpc, cacheFd>>
  BY Zenon, <1>0
  DEF FlushThreads, ControlInv, files, handle, queues, main, threads, history
<1>2. mpc' = "flush" => \A t \in Thread : t < idx' => pen'[t] = <<>>
  <2>1. CASE idx < NThreads /\ FlushOne(idx) /\ UNCHANGED <<mpc, idx>>
    <3>1. \A t \in Thread : t < idx => pen'[t] = pen[t]
      BY <1>0, <2>1 DEF FlushOne, TypeOK, TypeQueues, TypeMain
    <3> QED BY Zenon, <1>1, <2>1, <3>1 DEF CleanInv, FlushInv
  <2>2. CASE idx < NThreads /\ pen[idx] = <<>> /\ idx' = idx + 1 /\ UNCHANGED <<mpc, queues>>
    <3>1. \A t \in Thread : t < idx' => t < idx \/ t = idx
      BY <1>0, <2>2
    <3> QED BY Zenon, <1>1, <2>2, <3>1 DEF CleanInv, FlushInv, queues
  <2>3. CASE mpc' = "wait"
    BY Zenon, <2>3
  <2> QED BY Zenon, <2>1, <2>2, <2>3 DEF FlushThreads
<1>3. mpc' = "wait" => \A t \in Thread : pen'[t] = <<>> /\ ~ (t < idx')
  BY <1>0, <1>1 DEF FlushThreads, CleanInv, FlushInv, queues
<1> QED BY Zenon, <1>1, <1>2, <1>3 DEF CleanInv, FlushInv, ShutdownInv, Live

(* Flush waits for one thread after the other: all of them are idle then.  *)
LEMMA CleanWait ==
  ASSUME LifetimeInv, CleanInv, WaitThreads
  PROVE  CleanInv'
<1> USE SizeAssumption
<1>0. /\ TypeOK /\ ControlInv /\ idx \in Int /\ NThreads \in Int
      /\ \A t \in Thread : t \in Int /\ 0 <= t /\ t < NThreads
  BY Zenon, CleanFacts
<1>1. /\ mpc = "wait" /\ mpc' \in {"wait", "flushed"} /\ pool
      /\ UNCHANGED <<pool, flag, tpc, cacheFd, pen, sub>>
  BY Zenon, <1>0
  DEF WaitThreads, ControlInv, files, handle, queues, main, threads, history
<1>2. mpc' = "wait" => \A t \in Thread : t < idx' => wait'[t] = <<>>
  <2> SUFFICES ASSUME mpc' = "wait", NEW t \in Thread, t < idx' PROVE wait'[t] = <<>>
    BY Zenon
  <2>1. /\ idx < NThreads /\ idx' = idx + 1 /\ wait' = [wait EXCEPT ![idx] = <<>>]
    BY Zenon, <1>1 DEF WaitThreads
  <2>2. t < idx \/ t = idx
    BY <1>0, <2>1
  <2> QED BY Zenon, <1>0, <1>1, <2>1, <2>2 DEF TypeOK, TypeQueues, CleanInv, FlushInv
<1>3. mpc' = "flushed" => \A t \in Thread : Idle(t)'
  <2> SUFFICES ASSUME mpc' = "flushed", NEW t \in Thread PROVE Idle(t)'
    BY Zenon
  <2>1. idx = NThreads /\ UNCHANGED wait
    BY Zenon, <1>1 DEF WaitThreads
  <2>2. pen[t] = <<>> /\ wait[t] = <<>>
    BY Zenon, <1>0, <1>1, <2>1 DEF CleanInv, FlushInv
  <2>3. YoungestOf(t)
    BY Zenon, <1>1 DEF LifetimeInv, YoungestInv, Live
  <2>4. sub[t] = <<>> /\ ~ Busy(t) /\ tpc[t] # "exited"
    BY Zenon, <2>2, <2>3 DEF YoungestOf, Youngest, Work
  <2>5. tpc[t] = "front"
    BY Zenon, <1>0, <2>4 DEF TypeOK, TypeTpc, Busy
  <2> QED BY Zenon, <1>1, <2>1, <2>2, <2>4, <2>5 DEF Idle, Empty
<1> QED BY Zenon, <1>1, <1>2, <1>3 DEF CleanInv, FlushInv, ShutdownInv, Live

(* A shutdown request goes to an idle thread.                              *)
LEMMA CleanFini ==
  ASSUME LifetimeInv, CleanInv, ThreadShutdown
  PROVE  CleanInv'
<1> USE SizeAssumption
<1>0. /\ TypeOK /\ ControlInv /\ idx \in Int /\ NThreads \in Int
      /\ \A t \in Thread : t \in Int /\ 0 <= t /\ t < NThreads
  BY Zenon, CleanFacts
<1>1. /\ mpc = "fini" /\ mpc' = "join" /\ pool /\ idx < NThreads
      /\ UNCHANGED <<pool, flag, tpc, cacheFd, pen, wait, idx>>
      /\ sub' = [sub EXCEPT ![idx] = Append(@, Shutdown)]
  BY Zenon DEF ThreadShutdown, files, handle, queues, main, threads, history
<1>2. idx \in Thread
  BY <1>0, <1>1 DEF TypeOK, TypeMain, Thread
<1>3. sub[idx] = <<>> /\ pen[idx] = <<>> /\ wait[idx] = <<>> /\ tpc[idx] = "front"
  BY Zenon, <1>1, <1>2 DEF CleanInv, ShutdownInv, Idle, Empty
<1>4. sub'[idx] = <<Shutdown>> /\ \A t \in Thread \ {idx} : sub'[t] = sub[t]
  BY <1>0, <1>1, <1>2, <1>3 DEF TypeOK, TypeQueues, TypeMain
<1>5. Joining(idx)'
  BY Zenon, <1>1, <1>3, <1>4 DEF Joining
<1>6. \A t \in Thread : /\ t < idx => Gone(t)'
                        /\ t = idx => Joining(t)'
                        /\ t > idx => Idle(t)'
  BY Zenon, <1>0, <1>1, <1>4, <1>5 DEF CleanInv, ShutdownInv, Gone, Idle, Empty
<1>7. FlushInv'
  BY Zenon, <1>1 DEF CleanInv, FlushInv
<1>8. ~ Live' /\ pool' /\ mpc' = "join" /\ idx' = idx
  BY Zenon, <1>1 DEF Live
<1>9. ShutdownInv'
  BY Zenon, <1>0, <1>6, <1>8 DEF ShutdownInv
<1> QED BY Zenon, <1>7, <1>9 DEF CleanInv

(* The thread that is joined is gone.                                      *)
LEMMA CleanJoin ==
  ASSUME LifetimeInv, CleanInv, ThreadJoin
  PROVE  CleanInv'
<1> USE SizeAssumption
<1>0. /\ TypeOK /\ ControlInv /\ idx \in Int /\ NThreads \in Int
      /\ \A t \in Thread : t \in Int /\ 0 <= t /\ t < NThreads
  BY Zenon, CleanFacts
<1>1. /\ mpc = "join" /\ mpc' = "fini" /\ pool /\ idx' = idx + 1 /\ tpc[idx] = "exited"
      /\ UNCHANGED <<pool, flag, tpc, cacheFd, pen, sub, wait>>
  BY Zenon, <1>0
  DEF ThreadJoin, ControlInv, files, handle, queues, main, threads, history
<1>2. idx \in Thread => Gone(idx)
  BY Zenon, <1>1 DEF CleanInv, ShutdownInv, Joining, Gone
<1>3. \A t \in Thread : /\ t < idx' => Gone(t)
                        /\ t = idx' => Idle(t)
                        /\ t > idx' => Idle(t)
  BY <1>0, <1>1, <1>2 DEF CleanInv, ShutdownInv
<1>4. \A t \in Thread : Gone(t)' = Gone(t) /\ Idle(t)' = Idle(t)
  BY Zenon, <1>1 DEF Gone, Idle, Empty
<1>5. FlushInv'
  BY Zenon, <1>1 DEF CleanInv, FlushInv
<1>6. ~ Live' /\ pool' /\ mpc' = "fini"
  BY Zenon, <1>1 DEF Live
<1>7. ShutdownInv'
  BY Zenon, <1>0, <1>1, <1>3, <1>4, <1>6 DEF ShutdownInv
<1> QED BY Zenon, <1>5, <1>7 DEF CleanInv

(* The pool is freed when all threads are gone.                            *)
LEMMA CleanPoolFini ==
  ASSUME LifetimeInv, CleanInv, PoolFini
  PROVE  CleanInv'
<1> USE SizeAssumption
<1>0. /\ TypeOK /\ ControlInv /\ idx \in Int /\ NThreads \in Int
      /\ \A t \in Thread : t \in Int /\ 0 <= t /\ t < NThreads
  BY Zenon, CleanFacts
<1>1. /\ mpc = "fini" /\ mpc' \in {"idle", "delete"} /\ ~ pool'
      /\ (pool => idx = NThreads)
      /\ UNCHANGED <<flag, tpc, cacheFd, pen, sub, wait>>
  BY Zenon DEF PoolFini, files, handle, queues, main, threads, history
<1>2. \A t \in Thread : Gone(t)
  BY Zenon, <1>0, <1>1 DEF CleanInv, ShutdownInv
<1>3. \A t \in Thread : Gone(t)' = Gone(t)
  BY Zenon, <1>1 DEF Gone, Empty
<1> QED BY Zenon, <1>1, <1>2, <1>3 DEF CleanInv, FlushInv, ShutdownInv, Live

(* A thread takes a request or the shutdown request.                       *)
LEMMA CleanFront ==
  ASSUME LifetimeInv, CleanInv, NEW t \in Thread, ThreadFront(t)
  PROVE  CleanInv'
<1> USE SizeAssumption
<1>0. /\ TypeOK /\ ControlInv /\ idx \in Int /\ NThreads \in Int
      /\ \A u \in Thread : u \in Int /\ 0 <= u /\ u < NThreads
  BY Zenon, CleanFacts
<1>1. /\ tpc[t] = "front" /\ sub[t] # <<>>
      /\ UNCHANGED <<pool, flag, cacheFd, pen, wait, mpc, idx>>
      /\ sub' = [sub EXCEPT ![t] = Tail(@)]
  BY Zenon DEF ThreadFront, files, handle, queues, main, threads, history
<1>2. \A u \in Thread \ {t} : sub'[u] = sub[u] /\ tpc'[u] = tpc[u]
  BY Zenon, <1>0 DEF ThreadFront, TypeOK, TypeQueues, TypeTpc, TypeThreads
<1>3. ~ Idle(t) /\ ~ Gone(t) /\ pool /\ mpc \notin {"flushed", "closeCache"}
  BY ZenonT(30), <1>1 DEF Idle, Gone, Empty, CleanInv, ShutdownInv
<1>4. CASE mpc \in {"fini", "join"}
  <2>1. mpc = "join" /\ t = idx /\ Joining(t)
    BY <1>0, <1>3, <1>4 DEF CleanInv, ShutdownInv
  <2>2. sub[t] = <<Shutdown>> /\ pen[t] = <<>> /\ wait[t] = <<>>
    BY Zenon, <1>3, <2>1 DEF Joining
  <2>3. sub'[t] = <<>> /\ tpc'[t] = "exited"
    BY <1>0, <1>1, <2>2
    DEF ThreadFront, TypeOK, TypeQueues, TypeTpc, TypeThreads, Shutdown
  <2>4. Joining(t)'
    BY Zenon, <1>1, <2>2, <2>3 DEF Joining, Gone, Empty
  <2>5. \A u \in Thread \ {t} : Gone(u)' = Gone(u) /\ Idle(u)' = Idle(u)
    BY Zenon, <1>1, <1>2 DEF Gone, Idle, Empty
  <2> QED
    BY Zenon, <1>0, <1>1, <1>3, <2>1, <2>4, <2>5
    DEF CleanInv, FlushInv, ShutdownInv, Live
<1>5. CASE mpc \notin {"fini", "join"}
  BY Zenon, <1>1, <1>3, <1>5 DEF CleanInv, FlushInv, ShutdownInv, Live
<1> QED BY Zenon, <1>4, <1>5

(* A step of a thread that works on a request.                             *)
LEMMA CleanBusy ==
  ASSUME LifetimeInv, CleanInv, NEW t \in Thread,
         ThreadRead(t) \/ ThreadWrite(t) \/ ThreadUnlock(t) \/ ThreadComplete(t)
  PROVE  CleanInv'
<1> USE SizeAssumption
<1>0. /\ TypeOK /\ ControlInv /\ idx \in Int /\ NThreads \in Int
      /\ \A u \in Thread : u \in Int /\ 0 <= u /\ u < NThreads
  BY Zenon, CleanFacts
<1>a. tpc[t] \in {"pread", "pwrite", "unlock", "complete"} /\ \E v : tpc' = [tpc EXCEPT ![t] = v]
  BY Zenon DEF ThreadRead, ThreadWrite, ThreadUnlock, ThreadComplete
<1>1. Busy(t)
  BY Zenon, <1>a DEF Busy
<1>2. \A u \in Thread \ {t} : tpc'[u] = tpc[u]
  BY Zenon, <1>0, <1>a DEF TypeOK, TypeTpc
<1>3. main' = main /\ handle' = handle /\ queues' = queues /\ cacheFd' = cacheFd
  <2>1. CASE ThreadRead(t)
    BY ZenonT(30), <2>1 DEF ThreadRead, files
  <2>2. CASE ThreadWrite(t)
    BY Zenon, <2>2 DEF ThreadWrite
  <2>3. CASE ThreadUnlock(t)
    BY Zenon, <2>3 DEF ThreadUnlock
  <2>4. CASE ThreadComplete(t)
    BY ZenonT(30), <2>4 DEF ThreadComplete, files
  <2> QED BY Zenon, <2>1, <2>2, <2>3, <2>4
<1>4. Live /\ mpc \notin {"flushed", "closeCache"} /\ pool
  BY Zenon, <1>1, BusyMeansLive
<1>5. UNCHANGED <<mpc, idx, pool, flag, isOpen, e10Cache, pen, sub, wait, cacheFd>>
  BY Zenon, <1>3 DEF handle, main, queues
<1>6. FlushInv'
  BY Zenon, <1>5 DEF CleanInv, FlushInv
<1>7. ShutdownInv'
  BY Zenon, <1>4, <1>5 DEF CleanInv, ShutdownInv, Live
<1> QED
  BY Zenon, <1>6, <1>7 DEF CleanInv
------------------------------------------------------------------------------
(* The cache file and the acknowledged writes.                             *)
LEMMA AckedQuiet ==
  ASSUME AckedInv, UNCHANGED <<cache, acked, nw>>,
         mpc' = "pwrite" => mpc = "pwrite" /\ UNCHANGED <<wreq, xfer>>
  PROVE  AckedInv'
BY Zenon DEF AckedInv, Span

(* Only WriteContig writes to the cache file.                              *)
LEMMA AckedOthers ==
  ASSUME NEW t \in Thread,
         \/ Sync \/ CacheAllocFail \/ Close \/ (\E f \in NewFlags : SetInfo(f))
         \/ WriteFail \/ WriteFlush \/ FlushThreads \/ WaitThreads \/ Fsync \/ FlushReturn
         \/ CloseCache \/ ThreadShutdown \/ ThreadJoin \/ PoolFini \/ CloseGlobal
         \/ ThreadStep(t) \/ UNCHANGED vars
  PROVE  /\ UNCHANGED <<cache, acked, nw>>
         /\ mpc' = "pwrite" => mpc = "pwrite" /\ UNCHANGED <<wreq, xfer>>
<1>1. CASE Sync \/ CacheAllocFail \/ Close \/ \E f \in NewFlags : SetInfo(f)
  BY Zenon, <1>1
  DEF Sync, CacheAllocFail, Close, SetInfo, FlushBegin, files, main, history
<1>2. CASE WriteFail \/ WriteFlush \/ FlushThreads \/ WaitThreads
  BY Zenon, <1>2 DEF WriteFail, WriteFlush, FlushThreads, WaitThreads, files, history
<1>3. CASE Fsync \/ FlushReturn \/ CloseCache \/ ThreadShutdown
  BY Zenon, <1>3 DEF Fsync, FlushReturn, CloseCache, ThreadShutdown, files, history
<1>4. CASE ThreadJoin \/ PoolFini \/ CloseGlobal
  BY Zenon, <1>4 DEF ThreadJoin, PoolFini, CloseGlobal, files, history
<1>5. CASE ThreadStep(t)
  BY Zenon, <1>5 DEF ThreadStep, ThreadFront, ThreadRead, ThreadWrite, ThreadUnlock,
                     ThreadComplete, files, main, history
<1>6. CASE UNCHANGED vars
  BY Zenon, <1>6 DEF vars, files, main, history
<1> QED BY Zenon, <1>1, <1>2, <1>3, <1>4, <1>5, <1>6

LEMMA AckedFacts ==
  ASSUME LifetimeInv
  PROVE  /\ nw \in Nat /\ xfer \in Nat
         /\ wreq.off \in Nat /\ wreq.len \in Nat /\ wreq.id \in Nat
         /\ \A b \in Block : cache[b] \in Nat /\ acked[b] \in Nat /\ b \in Int
         /\ isOpen = CacheIsOpen /\ (mpc = "pwrite" => wreq.id = nw)
<1>1. nw \in Nat /\ xfer \in Nat /\ wreq \in Request
  BY Zenon DEF LifetimeInv, TypeOK, TypeMain
<1>2. wreq.off \in Nat /\ wreq.len \in Nat /\ wreq.id \in Nat
  BY Zenon, <1>1 DEF Request
<1>3. \A b \in Block : cache[b] \in Nat /\ acked[b] \in Nat /\ b \in Int
  BY SizeAssumption DEF LifetimeInv, TypeOK, TypeFiles, TypeHistory, Block
<1> QED BY Zenon, <1>1, <1>2, <1>3 DEF LifetimeInv, ControlInv

LEMMA AckedNext == LifetimeInv /\ AckedInv /\ [Next]_vars => AckedInv'
<1> SUFFICES ASSUME LifetimeInv, AckedInv, [Next]_vars PROVE AckedInv'
  BY Zenon
<1>f. /\ nw \in Nat /\ xfer \in Nat
      /\ wreq.off \in Nat /\ wreq.len \in Nat /\ wreq.id \in Nat
      /\ \A b \in Block : cache[b] \in Nat /\ acked[b] \in Nat /\ b \in Int
      /\ isOpen = CacheIsOpen /\ (mpc = "pwrite" => wreq.id = nw)
  BY Zenon, AckedFacts
<1>1. ASSUME NEW e \in Extents, WriteBegin(e) PROVE AckedInv'
  <2>1. nw' = nw + 1 /\ xfer' = 0 /\ UNCHANGED <<cache, acked>>
        /\ wreq'.off \in Nat
    BY Zenon, <1>1, ExtentAssumption DEF WriteBegin, SyncReq, history
  <2>2. Span(wreq', 0, xfer') = {}
    BY <1>f, <2>1 DEF Span
  <2>3. \A b \in Block : cache'[b] <= nw' /\ (CacheIsOpen => acked'[b] <= cache'[b])
    BY <1>f, <2>1 DEF AckedInv
  <2> QED BY Zenon, <2>2, <2>3 DEF AckedInv
<1>2. ASSUME WritePwrite PROVE AckedInv'
  <2>1. mpc = "pwrite" /\ UNCHANGED <<acked, nw, wreq>> /\ wreq.id = nw
    BY Zenon, <1>f, <1>2 DEF WritePwrite, history
  <2>2. PICK n \in 1 .. wreq.len - xfer :
          xfer' = xfer + n /\ cache' = IF CacheIsOpen THEN Overwritten(cache, n) ELSE cache
    BY Zenon, <1>f, <1>2 DEF WritePwrite
  <2>3. CASE ~ CacheIsOpen
    BY Zenon, <2>1, <2>2, <2>3 DEF AckedInv
  <2>4. CASE CacheIsOpen
    <3>1. \A b \in Block : /\ b \in Span(wreq, xfer, n) => cache'[b] = nw
                           /\ b \notin Span(wreq, xfer, n) => cache'[b] = cache[b]
      BY Zenon, <2>1, <2>2, <2>4 DEF Overwritten
    <3>2. \A b \in Block : cache[b] <= nw /\ acked[b] <= cache[b]
      BY Zenon, <2>4 DEF AckedInv
    <3>3. \A b \in Block : cache'[b] <= nw /\ acked[b] <= cache'[b]
      BY <1>f, <3>1, <3>2
    <3>4. \A b \in Span(wreq, 0, xfer') :
             b \in Block /\ (b \in Span(wreq, 0, xfer) \/ b \in Span(wreq, xfer, n))
      BY <1>f, <2>2 DEF Span
    <3>5. \A b \in Span(wreq, 0, xfer) : cache[b] = nw
      BY Zenon, <2>1, <2>4 DEF AckedInv
    <3>6. \A b \in Span(wreq, 0, xfer') : cache'[b] = nw
      BY Zenon, <3>1, <3>4, <3>5
    <3> QED BY Zenon, <2>1, <3>3, <3>6 DEF AckedInv, Span
  <2> QED BY Zenon, <2>3, <2>4
<1>3. ASSUME WriteEnqueue PROVE AckedInv'
  <2>1. mpc = "pwrite" /\ xfer = wreq.len /\ UNCHANGED <<cache, nw>> /\ mpc' # "pwrite"
    BY Zenon, <1>3 DEF WriteEnqueue, files
  <2>2. acked' = acked \/ Acknowledge
    BY Zenon, <1>3 DEF WriteEnqueue
  <2>3. \A b \in Block : \/ acked'[b] = acked[b]
                         \/ b \in BlocksOf(wreq) /\ acked'[b] = nw
    BY Zenon, <1>f, <2>1, <2>2 DEF Acknowledge
  <2>4. CacheIsOpen => \A b \in BlocksOf(wreq) : cache[b] = nw
    BY Zenon, <2>1 DEF AckedInv, BlocksOf
  <2>5. \A b \in Block : cache[b] <= nw /\ (CacheIsOpen => acked'[b] <= cache[b])
    BY Zenon, <1>f, <2>3, <2>4 DEF AckedInv
  <2> QED BY Zenon, <2>1, <2>5 DEF AckedInv
<1>4. 0 \in Thread
  BY SizeAssumption DEF Thread
<1> QED BY Zenon, <1>1, <1>2, <1>3, <1>4, AckedOthers, AckedQuiet
        DEF Next, Call, MainStep, Terminated

(* Whatever fails, however many threads there are and whichever flags the  *)
(* application sets, the cache file holds the last acknowledged version of *)
(* every block or a younger one (ADIOI_GEN_WriteContig).                   *)
THEOREM CacheHolds == Spec => []CacheHoldsAcked
<1>1. Init => LifetimeInv /\ AckedInv
  <2>1. ASSUME Init PROVE AckedInv
    BY <2>1 DEF Init, AckedInv
  <2> QED BY Zenon, <2>1, LifetimeInit
<1>2. LifetimeInv /\ AckedInv /\ [Next]_vars => LifetimeInv' /\ AckedInv'
  BY Zenon, LifetimeNext, AckedNext
<1>3. ASSUME LifetimeInv, AckedInv PROVE CacheHoldsAcked
  BY Zenon, <1>3, AckedFacts DEF AckedInv, CacheHoldsAcked
<1> QED BY <1>1, <1>2, <1>3, PTL DEF Spec
===============================================================================
