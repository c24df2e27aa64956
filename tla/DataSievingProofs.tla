-------------------------- MODULE DataSievingProofs ---------------------------
(***************************************************************************)
(* The safety properties of data sieving, for any number of processes, any *)
(* requests and buffer sizes, and any failures.                            *)
(***************************************************************************)
EXTENDS DataSieving, TLAPS

Windowed(r) == ~ Direct(Op(r))
Locks(r) == ~ Unlocked(scen, Op(r))

\* The bytes of its request that process r has accessed so far.
Progress(r) == IF pc[r] \in {"read", "write"} THEN win[r].off ELSE EndOf(win[r])
Accessed(r) ==
    {b \in Mine(r) : IF Direct(Op(r)) THEN pc[r] \in {"unlockall", "done"}
                                      ELSE b < Progress(r)}

Place == {"direct", "lockall", "open", "read", "write", "unlock", "unlockall",
          "done"}
Window == [off : Nat, len : Nat]
Contents == UNION {[D -> Ranks \cup {0}] : D \in SUBSET Bytes}

Types ==
    /\ scen \in Scenarios /\ max_bufsize \in BufferSizes
    /\ file \in [Bytes -> Ranks \cup {0}]
    /\ pc \in [Ranks -> Place]
    /\ win \in [Ranks -> Window]
    /\ buf \in [Ranks -> Contents] /\ got \in [Ranks -> Contents]
    /\ held \in [Ranks -> SUBSET Bytes]
    /\ failed \in [Ranks -> {"none", "read", "write"}]

\* Where a process may be.
PlaceOK(r) ==
    /\ Direct(Op(r)) => pc[r] \in {"lockall", "direct", "unlockall", "done"}
    /\ Windowed(r) => pc[r] # "direct"
    /\ ~ Locks(r) => pc[r] \in {"direct", "done"}
    /\ pc[r] \in {"lockall", "unlockall"} => scen.atomic
    /\ pc[r] \in {"write", "unlock"} => Op(r).kind = "write"
    /\ pc[r] = "unlock" => ~ scen.atomic
    /\ pc[r] \notin {"unlock", "unlockall", "done"} => failed[r] = "none"

\* What it has locked.
HeldOK(r) ==
    /\ ~ Locks(r) => held[r] = {}
    /\ scen.atomic =>
         /\ pc[r] = "lockall" => held[r] = {}
         /\ (Locks(r) /\ pc[r] \notin {"lockall", "done"}) => held[r] = Whole(r)
    /\ ~ scen.atomic =>
         /\ Op(r).kind = "read" => held[r] = {}
         /\ pc[r] = "open" => held[r] = {}
         /\ (Op(r).kind = "write" /\ pc[r] \in {"read", "write", "unlock"}) =>
               held[r] = Span(win[r])
    /\ (pc[r] = "done" /\ held[r] # {}) =>
         failed[r] = "read" \/ (failed[r] = "write" /\ scen.atomic)

\* Its window.
WindowOK(r) ==
    /\ win[r].len <= max_bufsize
    /\ Op(r).kind # "read" => Span(win[r]) \subseteq Bytes
    /\ Op(r).kind # "read" /\ pc[r] \in {"read", "write"} => Span(win[r]) \subseteq Whole(r)
    /\ pc[r] = "open" => Past(r, EndOf(win[r])) # {}
    /\ (Windowed(r) /\ failed[r] = "none" /\ pc[r] \in {"unlockall", "done"}) =>
         Past(r, EndOf(win[r])) = {}
    /\ pc[r] \in {"lockall", "direct"} => win[r] = NoWindow
    /\ pc[r] = "write" => DOMAIN buf[r] = Span(win[r])

\* What a read has put into the user's buffer.
GotOK(r) ==
    /\ DOMAIN got[r] \subseteq Mine(r)
    /\ pc[r] \in {"lockall", "direct"} => DOMAIN got[r] = {}
    /\ (Op(r).kind = "read" /\ failed[r] = "none") => Accessed(r) \subseteq DOMAIN got[r]

Exclusive == \A r, q \in Ranks : r # q => held[r] \cap held[q] = {}

Control ==
    /\ Types /\ Exclusive
    /\ \A r \in Ranks : PlaceOK(r) /\ HeldOK(r) /\ WindowOK(r) /\ GotOK(r)

\* The window in memory is the window of the file with the process's own pieces.
Fresh ==
    \A r \in Ranks : pc[r] = "write" =>
        \A b \in Span(win[r]) : buf[r][b] = IF b \in Mine(r) THEN r ELSE file[b]

Writes(r) == Op(r).kind # "read"

Kept ==
    \A r \in Ranks : (Writes(r) /\ failed[r] = "none") =>
        \A b \in Accessed(r) : Writers(b) = {r} => file[b] = r

\* In atomic mode: nobody writes where a process that holds its lock has written; a
\* process that has not begun has written nothing.
Owned ==
    scen.atomic => \A r \in Ranks : (Writes(r) /\ failed[r] = "none" /\ pc[r] # "done") =>
        \A b \in Accessed(r) : file[b] = r

NotBegun ==
    \A r \in Ranks : pc[r] \in {"lockall", "direct"} => \A b \in Bytes : file[b] # r

\* The bytes a read and one write have in common, and two writes.
Seen(r, q) == {b \in Mine(r) \cap Mine(q) : Writers(b) = {q}}
Shared(r, q) == {b \in Mine(r) \cap Mine(q) : Writers(b) = {r, q}}

\* What a read has of a write it meets.
AllOf(r, q) == \A b \in Seen(r, q) \cap DOMAIN got[r] : got[r][b] = q
NoneOf(r, q) == \A b \in Seen(r, q) \cap DOMAIN got[r] : got[r][b] # q

ReadSerial ==
    scen.atomic => \A r, q \in Ranks :
      (r # q /\ ~ Writes(r) /\ Writes(q) /\ failed[q] = "none") =>
        /\ (pc[r] # "done" /\ pc[q] \in {"lockall", "direct"}) => NoneOf(r, q)
        /\ (pc[r] # "done" /\ pc[q] = "done") => AllOf(r, q)
        /\ AllOf(r, q) \/ NoneOf(r, q)

WriteSerial ==
    scen.atomic => \A r, q \in Ranks :
      (r # q /\ Writes(r) /\ Writes(q) /\ Returned(r) /\ Returned(q)) =>
        \/ \A b \in Shared(r, q) : file[b] = r
        \/ \A b \in Shared(r, q) : file[b] = q

DataOK == Fresh /\ Kept /\ Owned /\ NotBegun /\ ReadSerial /\ WriteSerial

Inv == Control /\ (Apart(scen) => DataOK)

(***************************************************************************)
(* Requests and windows                                                    *)
(***************************************************************************)

\* A set of natural numbers has a least element; proved below, from the library.
LeastExists ==
    \A I \in SUBSET Nat : I # {} => \E i \in I : \A j \in I : i <= j

\* The pieces of a request: numbered from 1, nonempty, inside the file.
LEMMA PieceFacts ==
  ASSUME NEW op, Request(op)
  PROVE  /\ Len(op.pieces) \in Nat /\ DOMAIN op.pieces = 1 .. Len(op.pieces)
         /\ 1 \in DOMAIN op.pieces /\ Len(op.pieces) \in DOMAIN op.pieces
         /\ \A i \in DOMAIN op.pieces :
               /\ op.pieces[i].off \in Nat /\ op.pieces[i].len \in Nat \ {0}
               /\ EndOf(op.pieces[i]) \in Nat
               /\ op.pieces[i].off < EndOf(op.pieces[i])
               /\ EndOf(op.pieces[i]) - 1 \in Bytes
<1>1. op.pieces \in Seq(Piece) /\ op.pieces # << >>
  BY Zenon DEF Request
<1>2. /\ Len(op.pieces) \in Nat /\ DOMAIN op.pieces = 1 .. Len(op.pieces)
      /\ 1 \in DOMAIN op.pieces /\ Len(op.pieces) \in DOMAIN op.pieces
  BY <1>1
<1>3. ASSUME NEW i \in DOMAIN op.pieces
      PROVE  /\ op.pieces[i].off \in Nat /\ op.pieces[i].len \in Nat \ {0}
             /\ EndOf(op.pieces[i]) \in Nat
             /\ op.pieces[i].off < EndOf(op.pieces[i])
             /\ EndOf(op.pieces[i]) - 1 \in Bytes
  <2>1. op.pieces[i] \in Piece
    BY <1>1
  <2>2. op.pieces[i].off \in Nat /\ op.pieces[i].len \in Nat \ {0}
    BY <2>1 DEF Piece
  <2>3. EndOf(op.pieces[i]) - 1 \in Span(op.pieces[i])
    BY <2>2 DEF Span, EndOf
  <2>4. Span(op.pieces[i]) \subseteq Bytes
    BY Zenon DEF Request
  <2> QED
    BY <2>2, <2>3, <2>4 DEF EndOf
<1> QED
  BY Zenon, <1>2, <1>3

\* The pieces are in the order of the file, not only the neighbours.
LEMMA Sorted ==
  ASSUME LeastExists, NEW op, Request(op), NEW i \in DOMAIN op.pieces,
         NEW j \in DOMAIN op.pieces, i < j
  PROVE  EndOf(op.pieces[i]) <= op.pieces[j].off
<1> DEFINE p == op.pieces
           n == Len(p)
           J == {k \in 1 .. n : k > i /\ ~ (EndOf(p[i]) <= p[k].off)}
<1>1. /\ n \in Nat /\ DOMAIN p = 1 .. n
      /\ \A k \in DOMAIN p : /\ p[k].off \in Nat /\ EndOf(p[k]) \in Nat
                             /\ p[k].off < EndOf(p[k])
  BY Zenon, PieceFacts
<1>2. \A k \in 1 .. n - 1 : EndOf(p[k]) <= p[k + 1].off
  BY Zenon DEF Request
<1> HIDE DEF p, n
<1>3. ASSUME J # {} PROVE FALSE
  <2>1. J \in SUBSET Nat
    BY <1>1
  <2>2. PICK k \in J : \A l \in J : k <= l
    BY Zenon, <1>3, <2>1 DEF LeastExists
  <2>3. /\ k \in 1 .. n /\ k > i /\ ~ (EndOf(p[i]) <= p[k].off)
        /\ i \in 1 .. n
    BY Zenon, <1>1, <2>2 DEF p
  <2>4. CASE k = i + 1
    BY <1>1, <1>2, <2>3, <2>4
  <2>5. CASE k # i + 1
    <3>1. k - 1 \in 1 .. n /\ k - 1 > i /\ ~ (k <= k - 1) /\ k - 1 \in 1 .. n - 1
          /\ k - 1 + 1 = k
      BY <1>1, <2>3, <2>5
    <3>2. k - 1 \notin J
      BY Zenon, <2>2, <3>1
    <3>3. EndOf(p[i]) <= p[k - 1].off
      BY Zenon, <3>1, <3>2
    <3>4. EndOf(p[k - 1]) <= p[k].off
      BY Zenon, <1>2, <3>1
    <3>5. /\ EndOf(p[i]) \in Nat /\ p[k - 1].off \in Nat /\ EndOf(p[k - 1]) \in Nat
          /\ p[k].off \in Nat /\ p[k - 1].off < EndOf(p[k - 1])
      BY Zenon, <1>1, <2>3, <3>1
    <3> QED
      BY <2>3, <3>3, <3>4, <3>5
  <2> QED
    BY Zenon, <2>4, <2>5
<1>4. j \notin J /\ j \in 1 .. n
  BY Zenon, <1>1, <1>3 DEF p
<1>5. j > i
  BY <1>1, <1>4 DEF p
<1> QED
  BY Zenon, <1>4, <1>5 DEF p

\* A request lies between its first byte and its last one.
LEMMA RangeFacts ==
  ASSUME LeastExists, NEW op, Request(op)
  PROVE  /\ BytesOf(op) \subseteq RangeOf(op) /\ RangeOf(op) \subseteq Bytes
         /\ RangeOf(op) # {} /\ BytesOf(op) \subseteq Bytes
<1> DEFINE p == op.pieces
           n == Len(p)
<1>1. /\ n \in Nat /\ DOMAIN p = 1 .. n /\ 1 \in DOMAIN p /\ n \in DOMAIN p
      /\ \A k \in DOMAIN p : /\ p[k].off \in Nat /\ EndOf(p[k]) \in Nat
                             /\ p[k].off < EndOf(p[k])
                             /\ EndOf(p[k]) - 1 \in Bytes
  BY Zenon, PieceFacts
<1>2. \A k \in DOMAIN p : p[1].off <= p[k].off
  <2> TAKE k \in DOMAIN p
  <2>1. CASE k = 1
    BY <1>1, <2>1
  <2>2. CASE k # 1
    <3>1. 1 < k
      BY <1>1, <2>2
    <3>2. EndOf(p[1]) <= p[k].off
      BY Zenon, <1>1, <3>1, Sorted
    <3> QED
      BY <1>1, <3>2
  <2> QED
    BY Zenon, <2>1, <2>2
<1>3. \A k \in DOMAIN p : EndOf(p[k]) <= EndOf(p[n])
  <2> TAKE k \in DOMAIN p
  <2>1. CASE k = n
    BY <1>1, <2>1
  <2>2. CASE k # n
    <3>1. k < n
      BY <1>1, <2>2
    <3>2. EndOf(p[k]) <= p[n].off
      BY Zenon, <1>1, <3>1, Sorted
    <3> QED
      BY <1>1, <3>2
  <2> QED
    BY Zenon, <2>1, <2>2
<1>4. RangeOf(op) = p[1].off .. EndOf(p[n]) - 1
  BY Zenon DEF RangeOf, EndOffset
<1>5. BytesOf(op) = UNION {Span(p[k]) : k \in DOMAIN p}
  BY Zenon DEF BytesOf
<1> HIDE DEF p, n
<1>6. ASSUME NEW k \in DOMAIN p, NEW b \in Span(p[k]) PROVE b \in RangeOf(op)
  BY <1>1, <1>2, <1>3, <1>4, <1>6 DEF Span
<1>7. RangeOf(op) \subseteq Bytes /\ RangeOf(op) # {}
  <2>1. EndOf(p[n]) - 1 \in Bytes /\ EndOf(p[n]) \in Nat
    BY Zenon, <1>1
  <2>2. p[1].off \in Nat /\ p[1].off < EndOf(p[1]) /\ EndOf(p[1]) \in Nat
    BY Zenon, <1>1
  <2>3. EndOf(p[1]) <= EndOf(p[n])
    BY Zenon, <1>1, <1>3
  <2>4. p[1].off \in p[1].off .. EndOf(p[n]) - 1
    BY <2>1, <2>2, <2>3
  <2> QED
    BY <1>4, <2>1, <2>2, <2>4, DataSievingAssumption DEF Bytes
<1> QED
  BY Zenon, <1>5, <1>6, <1>7

\* Nothing of the request lies behind byte e.
LEMMA PastFacts ==
  ASSUME Types, NEW r \in Ranks, NEW e \in Nat, Past(r, e) = {}, NEW b \in Mine(r)
  PROVE  b < e
<1>1. Request(Op(r))
  BY Zenon, DataSievingAssumption DEF Types, Op
<1>2. PICK i \in DOMAIN Op(r).pieces : b \in Span(Op(r).pieces[i])
  BY Zenon DEF Mine, BytesOf
<1>3. /\ Op(r).pieces[i].off \in Nat /\ EndOf(Op(r).pieces[i]) \in Nat
  BY Zenon, <1>1, PieceFacts
<1>4. ~ (EndOf(Op(r).pieces[i]) > e)
  BY Zenon DEF Past
<1> QED
  BY <1>2, <1>3, <1>4 DEF Span

\* The next window skips no byte of the request, and the one of a write lies in it.
LEMMA NextFacts ==
  ASSUME LeastExists, Types, NEW r \in Ranks, Past(r, EndOf(win[r])) # {}
  PROVE  /\ NextWindow(r) \in Window
         /\ NextWindow(r).len <= max_bufsize
         /\ Op(r).kind # "read" => Span(NextWindow(r)) \subseteq Whole(r)
         /\ \A b \in Mine(r) : b < NextWindow(r).off => b < EndOf(win[r])
<1> DEFINE p == Op(r).pieces
           n == Len(p)
           e == EndOf(win[r])
           i == First(Past(r, e))
           o == NextWindow(r).off
           f == IF p[i].off < e /\ Op(r).kind = "read" THEN p[i].off ELSE o
           l == WindowLen(r, f)
<1>1. Request(Op(r))
  BY Zenon, DataSievingAssumption DEF Types, Op
<1>2. /\ n \in Nat /\ DOMAIN p = 1 .. n /\ 1 \in DOMAIN p /\ n \in DOMAIN p
      /\ \A k \in DOMAIN p : /\ p[k].off \in Nat /\ EndOf(p[k]) \in Nat
                             /\ p[k].off < EndOf(p[k])
  BY Zenon, <1>1, PieceFacts
<1>3. e \in Nat /\ max_bufsize \in Nat \ {0}
  <2>1. win[r].off \in Nat /\ win[r].len \in Nat
    BY DEF Types, Window
  <2> QED
    BY <2>1, DataSievingAssumption DEF EndOf, Types
<1>4. /\ i \in DOMAIN p /\ EndOf(p[i]) > e
      /\ \A j \in DOMAIN p : EndOf(p[j]) > e => i <= j
  <2>1. Past(r, e) \in SUBSET (1 .. n)
    BY Zenon, <1>2 DEF Past
  <2>2. Past(r, e) \in SUBSET Nat
    BY <2>1, <1>2
  <2>3. \E k \in Past(r, e) : \A j \in Past(r, e) : k <= j
    BY Zenon, <2>2 DEF LeastExists
  <2>4. i \in Past(r, e) /\ \A j \in Past(r, e) : i <= j
    BY Zenon, <2>3 DEF First
  <2> QED
    BY Zenon, <2>4 DEF Past
<1>5. /\ o = IF p[i].off >= e THEN p[i].off ELSE e
      /\ NextWindow(r) = [off |-> o, len |-> l]
  <2>1. CASE p[i].off >= e
    <3>1. NextWindow(r) = [off |-> p[i].off, len |-> WindowLen(r, p[i].off)]
      BY Zenon, <2>1 DEF NextWindow
    <3>2. o = p[i].off
      BY <3>1
    <3>3. f = o
      BY Zenon, <3>2
    <3> QED
      BY Zenon, <2>1, <3>1, <3>2, <3>3
  <2>2. CASE ~ (p[i].off >= e)
    <3>1. NextWindow(r) =
            [off |-> e, len |-> WindowLen(r, IF Op(r).kind = "read" THEN p[i].off ELSE e)]
      BY Zenon, <2>2 DEF NextWindow
    <3>2. o = e
      BY <3>1
    <3>3. p[i].off < e
      BY <1>2, <1>3, <1>4, <2>2
    <3>4. f = IF Op(r).kind = "read" THEN p[i].off ELSE e
      BY Zenon, <3>2, <3>3
    <3> QED
      BY Zenon, <2>2, <3>1, <3>2, <3>4
  <2> QED
    BY Zenon, <2>1, <2>2
<1>6. Whole(r) = p[1].off .. EndOf(p[n]) - 1 /\ EndOffset(Op(r)) = EndOf(p[n]) - 1
  BY Zenon DEF Whole, RangeOf, EndOffset
<1>7. l = IF max_bufsize <= EndOf(p[n]) - 1 - f + 1 THEN max_bufsize
          ELSE EndOf(p[n]) - 1 - f + 1
  BY Zenon, <1>6 DEF WindowLen, Lesser
<1>8. f = IF p[i].off < e /\ Op(r).kind = "read" THEN p[i].off ELSE o
  BY Zenon
<1>9. p[1].off <= p[i].off
  <2>1. CASE i = 1
    BY <1>2, <2>1
  <2>2. CASE i # 1
    <3>1. 1 < i
      BY <1>2, <1>4, <2>2
    <3>2. EndOf(p[1]) <= p[i].off
      BY Zenon, <1>1, <1>2, <1>4, <3>1, Sorted
    <3> QED
      BY <1>2, <1>4, <3>2
  <2> QED
    BY Zenon, <2>1, <2>2
<1>10. EndOf(p[i]) <= EndOf(p[n])
  <2>1. CASE i = n
    BY <1>2, <2>1
  <2>2. CASE i # n
    <3>1. i < n
      BY <1>2, <1>4, <2>2
    <3>2. EndOf(p[i]) <= p[n].off
      BY Zenon, <1>1, <1>2, <1>4, <3>1, Sorted
    <3> QED
      BY <1>2, <1>4, <3>2
  <2> QED
    BY Zenon, <2>1, <2>2
<1>11. ASSUME NEW b \in Mine(r), b < o PROVE b < e
  <2>1. PICK j \in DOMAIN p : b \in Span(p[j])
    BY Zenon DEF Mine, BytesOf
  <2>2. b \in Nat /\ p[j].off <= b /\ b < EndOf(p[j])
    <3>1. p[j].off \in Nat /\ EndOf(p[j]) \in Nat
      BY Zenon, <1>2
    <3> QED
      BY <2>1, <3>1 DEF Span
  <2>3. CASE ~ (EndOf(p[j]) > e)
    <3>1. EndOf(p[j]) \in Nat
      BY Zenon, <1>2
    <3> QED
      BY <1>3, <2>2, <2>3, <3>1
  <2>4. CASE EndOf(p[j]) > e
    <3>1. i <= j
      BY Zenon, <1>4, <2>4
    <3>2. p[i].off <= p[j].off
      <4>1. CASE i = j
        BY <1>2, <4>1
      <4>2. CASE i # j
        <5>1. i < j
          BY <1>2, <1>4, <3>1, <4>2
        <5>2. EndOf(p[i]) <= p[j].off
          BY Zenon, <1>1, <1>4, <5>1, Sorted
        <5> QED
          BY <1>2, <1>4, <5>2
      <4> QED
        BY Zenon, <4>1, <4>2
    <3>3. p[i].off \in Nat /\ p[j].off \in Nat
      BY Zenon, <1>2, <1>4
    <3> QED
      BY <1>3, <1>5, <1>11, <2>2, <3>2, <3>3
  <2> QED
    BY Zenon, <2>3, <2>4
<1>12. /\ p[i].off \in Nat /\ EndOf(p[i]) \in Nat /\ p[i].off < EndOf(p[i])
       /\ EndOf(p[n]) \in Nat /\ p[1].off \in Nat
  BY Zenon, <1>2, <1>4
<1> HIDE DEF p, n, e, i, o, f, l
<1>13. o \in Nat /\ o < EndOf(p[n]) /\ p[1].off <= o
  BY <1>3, <1>4, <1>5, <1>9, <1>10, <1>12
<1>14. f \in Nat /\ f < EndOf(p[n]) /\ (Op(r).kind # "read" => f = o)
  BY <1>8, <1>12, <1>10, <1>13
<1>15. /\ l \in Nat /\ l <= max_bufsize
       /\ Op(r).kind # "read" => o + l - 1 <= EndOf(p[n]) - 1
  BY <1>3, <1>7, <1>12, <1>13, <1>14
<1>18. NextWindow(r) \in Window /\ NextWindow(r).len = l
  BY <1>5, <1>13, <1>15 DEF Window
<1>16. Span(NextWindow(r)) = o .. o + l - 1
  BY <1>5, <1>13, <1>15, <1>18 DEF Span, EndOf
<1>17. Op(r).kind # "read" => o .. o + l - 1 \subseteq p[1].off .. EndOf(p[n]) - 1
  BY <1>12, <1>13, <1>15
<1> QED
  BY Zenon, <1>6, <1>11, <1>15, <1>16, <1>17, <1>18 DEF e, o

(***************************************************************************)
(* Control                                                                 *)
(***************************************************************************)

\* A step of one process changes the state of no other.
LEMMA OthersStay ==
  ASSUME Types, NEW p \in Ranks, Step(p)
  PROVE  /\ scen' = scen /\ max_bufsize' = max_bufsize
         /\ \A q \in Ranks \ {p} :
               /\ pc'[q] = pc[q] /\ win'[q] = win[q] /\ buf'[q] = buf[q]
               /\ held'[q] = held[q] /\ got'[q] = got[q] /\ failed'[q] = failed[q]
<1> USE DEF Types, Goto, Fail
<1>1. CASE LockAll(p)
  BY Zenon, <1>1 DEF LockAll
<1>2. CASE DirectAccess(p)
  BY Zenon, <1>2 DEF DirectAccess
<1>3. CASE OpenWindow(p)
  BY Zenon, <1>3 DEF OpenWindow
<1>4. CASE ReadWindow(p)
  BY Zenon, <1>4 DEF ReadWindow
<1>5. CASE ReadFails(p)
  BY Zenon, <1>5 DEF ReadFails
<1>6. CASE WriteWindow(p)
  BY Zenon, <1>6 DEF WriteWindow
<1>7. CASE WriteFails(p)
  BY Zenon, <1>7 DEF WriteFails
<1>8. CASE Unlock(p)
  BY Zenon, <1>8 DEF Unlock
<1> QED
  BY Zenon, <1>1, <1>2, <1>3, <1>4, <1>5, <1>6, <1>7, <1>8 DEF Step

\* What there is to show of a step of process p.
LEMMA ControlFrom ==
  ASSUME Control, NEW p \in Ranks, Step(p), Types',
         PlaceOK(p)', HeldOK(p)', WindowOK(p)', GotOK(p)',
         \A q \in Ranks \ {p} : held'[p] \cap held[q] = {}
  PROVE  Control'
<1>1. /\ scen' = scen /\ max_bufsize' = max_bufsize
      /\ \A q \in Ranks \ {p} :
            /\ pc'[q] = pc[q] /\ win'[q] = win[q] /\ buf'[q] = buf[q]
            /\ held'[q] = held[q] /\ got'[q] = got[q] /\ failed'[q] = failed[q]
  BY Zenon, OthersStay DEF Control
<1>2. \A q \in Ranks : /\ Op(q)' = Op(q) /\ Mine(q)' = Mine(q) /\ Whole(q)' = Whole(q)
                       /\ Windowed(q)' = Windowed(q) /\ Locks(q)' = Locks(q)
                       /\ \A e : Past(q, e)' = Past(q, e)
  BY Zenon, <1>1 DEF Op, Mine, Whole, Windowed, Locks, Past
<1>3. ASSUME NEW q \in Ranks \ {p}
      PROVE  PlaceOK(q)' /\ HeldOK(q)' /\ WindowOK(q)' /\ GotOK(q)'
  <2>1. PlaceOK(q) /\ HeldOK(q) /\ WindowOK(q) /\ GotOK(q)
    BY Zenon DEF Control
  <2>2. PlaceOK(q)'
    BY Zenon, <1>1, <1>2, <2>1 DEF PlaceOK
  <2>3. HeldOK(q)'
    BY Zenon, <1>1, <1>2, <2>1 DEF HeldOK
  <2>4. WindowOK(q)'
    BY Zenon, <1>1, <1>2, <2>1 DEF WindowOK
  <2>5. Accessed(q)' = Accessed(q)
    BY Zenon, <1>1, <1>2 DEF Accessed, Progress
  <2>6. GotOK(q)'
    BY Zenon, <1>1, <1>2, <2>1, <2>5 DEF GotOK
  <2> QED
    BY Zenon, <2>2, <2>3, <2>4, <2>6
<1>4. Exclusive'
  <2> SUFFICES ASSUME NEW r \in Ranks, NEW q \in Ranks, r # q
               PROVE  held'[r] \cap held'[q] = {}
    BY Zenon DEF Exclusive
  <2>1. CASE r = p
    BY Zenon, <1>1, <2>1
  <2>2. CASE q = p
    BY Zenon, <1>1, <2>2
  <2>3. CASE r # p /\ q # p
    BY Zenon, <1>1, <2>3 DEF Control, Exclusive
  <2> QED
    BY Zenon, <2>1, <2>2, <2>3
<1> QED
  BY Zenon, <1>3, <1>4 DEF Control

\* What the types say of one process.
LEMMA OpFacts ==
  ASSUME LeastExists, Types, NEW p \in Ranks
  PROVE  /\ Request(Op(p)) /\ Op(p).kind \in {"write", "read", "contig"}
         /\ scen.atomic \in BOOLEAN
         /\ Mine(p) \subseteq Whole(p) /\ Whole(p) \subseteq Bytes
         /\ Whole(p) # {} /\ Mine(p) \subseteq Bytes /\ Bytes \subseteq Nat
         /\ win[p].off \in Nat /\ win[p].len \in Nat /\ EndOf(win[p]) \in Nat
         /\ Past(p, 0) # {}
<1>1. Request(Op(p)) /\ scen.atomic \in BOOLEAN
  BY Zenon, DataSievingAssumption DEF Types, Op
<1>2. Op(p).kind \in {"write", "read", "contig"}
  BY Zenon, <1>1 DEF Request
<1>3. /\ Mine(p) \subseteq Whole(p) /\ Whole(p) \subseteq Bytes
      /\ Whole(p) # {} /\ Mine(p) \subseteq Bytes
  BY Zenon, <1>1, RangeFacts DEF Mine, Whole
<1>4. win[p].off \in Nat /\ win[p].len \in Nat /\ EndOf(win[p]) \in Nat
  BY DEF Types, Window, EndOf
<1>5. Past(p, 0) # {}
  <2>1. /\ 1 \in DOMAIN Op(p).pieces
        /\ Op(p).pieces[1].off \in Nat /\ EndOf(Op(p).pieces[1]) \in Nat
        /\ Op(p).pieces[1].off < EndOf(Op(p).pieces[1])
    BY Zenon, <1>1, PieceFacts
  <2>2. EndOf(Op(p).pieces[1]) > 0
    BY <2>1
  <2> QED
    BY Zenon, <2>1, <2>2 DEF Past
<1>6. Bytes \subseteq Nat
  BY DataSievingAssumption DEF Bytes
<1> QED
  BY Zenon, <1>1, <1>2, <1>3, <1>4, <1>5, <1>6

\* What follows a window (the loop of ADIOI_GEN_WriteStrided).
LEMMA AfterFacts ==
  ASSUME NEW p \in Ranks
  PROVE  /\ After(p) \in {"open", "unlockall", "done"}
         /\ After(p) = "unlockall" => scen.atomic
         /\ After(p) = "open" => failed[p] = "none" /\ Past(p, EndOf(win[p])) # {}
         /\ (After(p) # "open" /\ failed[p] = "none") => Past(p, EndOf(win[p])) = {}
         /\ (After(p) = "done" /\ scen.atomic) => failed[p] # "none"
<1>1. CASE failed[p] # "none"
  BY Zenon, <1>1, "done" # "open", "done" # "unlockall" DEF After
<1>2. CASE failed[p] = "none" /\ Past(p, EndOf(win[p])) # {}
  BY Zenon, <1>2, "done" # "open", "open" # "unlockall" DEF After
<1>3. CASE failed[p] = "none" /\ Past(p, EndOf(win[p])) = {} /\ scen.atomic
  BY Zenon, <1>3, "done" # "unlockall", "open" # "unlockall" DEF After
<1>4. CASE failed[p] = "none" /\ Past(p, EndOf(win[p])) = {} /\ ~ scen.atomic
  BY Zenon, <1>4, "done" # "unlockall", "open" # "done" DEF After
<1> QED
  BY Zenon, <1>1, <1>2, <1>3, <1>4

\* Where a step takes its process.
LEMMA PcFacts ==
  ASSUME Types, NEW p \in Ranks, Step(p)
  PROVE  /\ LockAll(p) => pc[p] = "lockall" /\
               pc'[p] = IF Direct(Op(p)) THEN "direct" ELSE "open"
         /\ DirectAccess(p) => pc[p] = "direct" /\
               pc'[p] = IF held[p] = {} THEN "done" ELSE "unlockall"
         /\ OpenWindow(p) => pc[p] = "open" /\ pc'[p] = "read" /\ win'[p] = NextWindow(p)
         /\ ReadWindow(p) => pc[p] = "read" /\
               \/ Op(p).kind = "write" /\ pc'[p] = "write"
               \/ Op(p).kind = "read" /\ pc'[p] = After(p)
         /\ ReadFails(p) => pc[p] = "read" /\ pc'[p] = "done" /\ failed'[p] = "read"
         /\ WriteWindow(p) => pc[p] = "write" /\
               pc'[p] = IF scen.atomic THEN After(p) ELSE "unlock"
         /\ WriteFails(p) => pc[p] = "write" /\ failed'[p] = "write" /\
               pc'[p] = IF scen.atomic THEN "done" ELSE "unlock"
         /\ Unlock(p) => pc[p] \in {"unlock", "unlockall"} /\ held'[p] = {} /\
               pc'[p] = IF pc[p] = "unlock" THEN After(p) ELSE "done"
<1>1. DOMAIN pc = Ranks /\ DOMAIN win = Ranks /\ DOMAIN failed = Ranks /\ DOMAIN held = Ranks
  BY Zenon DEF Types
<1> USE DEF Goto, Fail
<1>2. LockAll(p) => pc[p] = "lockall" /\
         pc'[p] = IF Direct(Op(p)) THEN "direct" ELSE "open"
  BY Zenon, <1>1 DEF LockAll
<1>3. DirectAccess(p) => pc[p] = "direct" /\
         pc'[p] = IF held[p] = {} THEN "done" ELSE "unlockall"
  BY Zenon, <1>1 DEF DirectAccess
<1>4. OpenWindow(p) => pc[p] = "open" /\ pc'[p] = "read" /\ win'[p] = NextWindow(p)
  BY Zenon, <1>1 DEF OpenWindow
<1>5. ReadWindow(p) => pc[p] = "read" /\
         \/ Op(p).kind = "write" /\ pc'[p] = "write"
         \/ Op(p).kind = "read" /\ pc'[p] = After(p)
  BY Zenon, <1>1 DEF ReadWindow
<1>6. ReadFails(p) => pc[p] = "read" /\ pc'[p] = "done" /\ failed'[p] = "read"
  BY Zenon, <1>1 DEF ReadFails
<1>7. WriteWindow(p) => pc[p] = "write" /\
         pc'[p] = IF scen.atomic THEN After(p) ELSE "unlock"
  BY Zenon, <1>1 DEF WriteWindow
<1>8. WriteFails(p) => pc[p] = "write" /\ failed'[p] = "write" /\
         pc'[p] = IF scen.atomic THEN "done" ELSE "unlock"
  BY Zenon, <1>1 DEF WriteFails
<1>9. Unlock(p) => pc[p] \in {"unlock", "unlockall"} /\ held'[p] = {} /\
         pc'[p] = IF pc[p] = "unlock" THEN After(p) ELSE "done"
  BY Zenon, <1>1 DEF Unlock, Released
<1> QED
  BY Zenon, <1>2, <1>3, <1>4, <1>5, <1>6, <1>7, <1>8, <1>9

\* What a step adds to the bytes its process has accessed.
Accesses(p) ==
    WriteWindow(p) \/ (ReadWindow(p) /\ Op(p).kind = "read")

\* Only the transfer of a window, or an access without window, adds to them.
LEMMA AccessedStep ==
  ASSUME LeastExists, Control, NEW p \in Ranks, Step(p), failed'[p] = "none",
         ~ DirectAccess(p), NEW b \in Accessed(p)'
  PROVE  b \in Accessed(p) \/ (b \in Span(win[p]) /\ Accesses(p))
<1>1. /\ Types /\ PlaceOK(p) /\ WindowOK(p)
  BY Zenon DEF Control
<1>2. scen' = scen
  BY Zenon, <1>1, OthersStay
<1>3. Mine(p)' = Mine(p) /\ Op(p)' = Op(p)
  BY Zenon, <1>2 DEF Mine, Op
<1>4. /\ b \in Mine(p)
      /\ Direct(Op(p)) => pc'[p] \in {"unlockall", "done"}
      /\ ~ Direct(Op(p)) => b < Progress(p)'
  BY Zenon, <1>3 DEF Accessed
<1>5. b \in Nat /\ win[p].off \in Nat /\ EndOf(win[p]) \in Nat
  BY Zenon, <1>1, <1>4, OpFacts
<1>7. After(p) \in {"open", "unlockall", "done"}
  BY Zenon, AfterFacts
<1>8. CASE Direct(Op(p))
  <2>1. pc[p] \in {"lockall", "unlockall"}
    BY <1>1, <1>4, <1>8, PcFacts DEF PlaceOK, Step
  <2>2. CASE pc[p] = "lockall"
    <3>1. LockAll(p)
      BY <2>2, <1>1, PcFacts DEF Step
    <3> QED
      BY <1>1, <1>4, <1>8, <3>1, PcFacts
  <2>3. CASE pc[p] = "unlockall"
    BY Zenon, <1>4, <1>8, <2>3 DEF Accessed
  <2> QED
    BY Zenon, <2>1, <2>2, <2>3
<1>9. CASE ~ Direct(Op(p))
  <2>1. CASE Accesses(p)
    <3>1. win'[p] = win[p] /\ pc'[p] \notin {"read", "write"} /\ pc[p] \in {"read", "write"}
      <4>1. win' = win
        BY Zenon, <2>1 DEF Accesses, ReadWindow, WriteWindow
      <4>2. pc'[p] \in {After(p), "unlock"} /\ pc[p] \in {"read", "write"}
        <5>1. CASE WriteWindow(p)
          BY Zenon, <1>1, <5>1, PcFacts
        <5>2. CASE ReadWindow(p) /\ Op(p).kind = "read"
          BY Zenon, <1>1, <5>2, PcFacts, "read" # "write"
        <5> QED
          BY Zenon, <2>1, <5>1, <5>2 DEF Accesses
      <4> QED
        BY <1>7, <4>1, <4>2
    <3>2. b < EndOf(win[p])
      BY Zenon, <1>4, <1>9, <3>1 DEF Progress
    <3>3. Progress(p) = win[p].off
      BY Zenon, <3>1 DEF Progress
    <3>4. b < win[p].off \/ b \in Span(win[p])
      BY <1>5, <3>2 DEF Span
    <3> QED
      BY Zenon, <1>4, <1>9, <2>1, <3>3, <3>4 DEF Accessed
  <2>2. CASE OpenWindow(p)
    <3>1. pc[p] = "open" /\ pc'[p] = "read" /\ win'[p] = NextWindow(p)
      BY Zenon, <1>1, <2>2, PcFacts
    <3>2. b < NextWindow(p).off
      BY Zenon, <1>4, <1>9, <3>1 DEF Progress
    <3>3. b < EndOf(win[p])
      BY Zenon, <1>1, <1>4, <3>1, <3>2, NextFacts DEF WindowOK
    <3>4. Progress(p) = EndOf(win[p])
      BY <3>1 DEF Progress
    <3> QED
      BY Zenon, <1>4, <1>9, <3>3, <3>4 DEF Accessed
  <2>3. CASE ReadWindow(p) /\ Op(p).kind # "read"
    <3>1. pc[p] = "read" /\ pc'[p] = "write" /\ win' = win
      BY Zenon, <1>1, <2>3, PcFacts DEF ReadWindow
    <3>2. Progress(p)' = Progress(p)
      BY Zenon, <3>1 DEF Progress
    <3> QED
      BY Zenon, <1>4, <1>9, <3>2 DEF Accessed
  <2>4. CASE LockAll(p) \/ Unlock(p)
    <3>1. win' = win
      BY Zenon, <2>4 DEF LockAll, Unlock
    <3>2. pc[p] \in {"lockall", "unlock", "unlockall"} /\ pc'[p] \in {"open", "unlockall", "done"}
      <4>1. CASE LockAll(p)
        BY Zenon, <1>1, <1>9, <4>1, PcFacts
      <4>2. CASE Unlock(p)
        BY Zenon, <1>1, <1>7, <4>2, PcFacts
      <4> QED
        BY Zenon, <2>4, <4>1, <4>2
    <3>3. Progress(p)' = Progress(p)
      <4>1. pc[p] \notin {"read", "write"} /\ pc'[p] \notin {"read", "write"}
        BY <3>2
      <4> QED
        BY Zenon, <3>1, <4>1 DEF Progress
    <3> QED
      BY Zenon, <1>4, <1>9, <3>3 DEF Accessed
  <2>5. ~ ReadFails(p) /\ ~ WriteFails(p)
    BY Zenon, <1>1, PcFacts, "none" # "read", "none" # "write"
  <2> QED
    BY Zenon, <2>1, <2>2, <2>3, <2>4, <2>5 DEF Step, Accesses
<1> QED
  BY Zenon, <1>8, <1>9

\* The requests do not change.
LEMMA SameOps ==
  ASSUME scen' = scen, NEW q \in Ranks
  PROVE  /\ Op(q)' = Op(q) /\ Mine(q)' = Mine(q) /\ Whole(q)' = Whole(q)
         /\ Windowed(q)' = Windowed(q) /\ Locks(q)' = Locks(q)
         /\ Writes(q)' = Writes(q) /\ \A e : Past(q, e)' = Past(q, e)
         /\ \A b : Writers(b)' = Writers(b)
  BY Zenon DEF Op, Mine, Whole, Windowed, Locks, Past, Writes, Writers

\* The range is locked when nobody has locked a part of it.
LEMMA ControlLockAll ==
  ASSUME LeastExists, Control, NEW p \in Ranks, LockAll(p)
  PROVE  Control'
<1>1. Types /\ PlaceOK(p) /\ HeldOK(p) /\ WindowOK(p) /\ GotOK(p)
  BY Zenon DEF Control
<1>2. Step(p)
  BY Zenon DEF Step
<1>3. /\ pc[p] = "lockall" /\ pc'[p] = IF Direct(Op(p)) THEN "direct" ELSE "open"
      /\ held'[p] = Whole(p)
      /\ UNCHANGED <<scen, max_bufsize, file, win, buf, got, failed>>
  BY Zenon, <1>1, <1>2, PcFacts DEF LockAll, RangeLock, Types
<1>4. /\ Op(p)' = Op(p) /\ Mine(p)' = Mine(p) /\ Whole(p)' = Whole(p)
      /\ Windowed(p)' = Windowed(p) /\ Locks(p)' = Locks(p)
      /\ \A e : Past(p, e)' = Past(p, e)
  BY Zenon, <1>3, SameOps
<1>5. Whole(p) \subseteq Bytes /\ Past(p, 0) # {}
  BY Zenon, <1>1, OpFacts
<1>6. Types'
  <2>1. pc'[p] \in Place
    BY Zenon, <1>3 DEF Place
  <2>2. pc' \in [Ranks -> Place] /\ held' \in [Ranks -> SUBSET Bytes]
    BY Zenon, <1>1, <1>3, <1>5, <2>1 DEF LockAll, Goto, Types, RangeLock
  <2> QED
    BY Zenon, <1>1, <1>3, <2>2 DEF Types
<1>7. PlaceOK(p)'
  BY <1>1, <1>3, <1>4 DEF PlaceOK, Windowed
<1>8. HeldOK(p)'
  BY <1>1, <1>3, <1>4 DEF PlaceOK, HeldOK
<1>9. WindowOK(p)'
  <2>1. EndOf(win[p]) = 0
    BY <1>1, <1>3 DEF WindowOK, NoWindow, EndOf
  <2> QED
    BY <1>1, <1>3, <1>4, <1>5, <2>1 DEF PlaceOK, WindowOK
<1>10. GotOK(p)'
  <2>1. failed'[p] = "none"
    BY <1>1, <1>3 DEF PlaceOK
  <2>2. Accessed(p)' \subseteq Accessed(p)
    <3>1. ~ DirectAccess(p) /\ ~ Accesses(p)
      BY <1>3 DEF DirectAccess, Accesses, ReadWindow, WriteWindow
    <3> QED
      BY Zenon, <1>2, <2>1, <3>1, AccessedStep
  <2> QED
    BY Zenon, <1>1, <1>3, <1>4, <2>2 DEF GotOK
<1>11. \A q \in Ranks \ {p} : held'[p] \cap held[q] = {}
  BY Zenon, <1>3 DEF LockAll, Free, RangeLock
<1> QED
  BY Zenon, <1>2, <1>6, <1>7, <1>8, <1>9, <1>10, <1>11, ControlFrom

\* The unlock of a window, and that of the range at the end of the access.
LEMMA ControlUnlock ==
  ASSUME LeastExists, Control, NEW p \in Ranks, Unlock(p)
  PROVE  Control'
<1>1. Types /\ PlaceOK(p) /\ HeldOK(p) /\ WindowOK(p) /\ GotOK(p)
  BY Zenon DEF Control
<1>2. Step(p)
  BY Zenon DEF Step
<1>3. /\ pc[p] \in {"unlock", "unlockall"} /\ held'[p] = {}
      /\ pc'[p] = IF pc[p] = "unlock" THEN After(p) ELSE "done"
      /\ UNCHANGED <<scen, max_bufsize, file, win, buf, got, failed>>
  BY Zenon, <1>1, <1>2, PcFacts DEF Unlock
<1>4. /\ Op(p)' = Op(p) /\ Mine(p)' = Mine(p) /\ Whole(p)' = Whole(p)
      /\ Windowed(p)' = Windowed(p) /\ Locks(p)' = Locks(p)
      /\ \A e : Past(p, e)' = Past(p, e)
  BY Zenon, <1>3, SameOps
<1>5. /\ After(p) \in {"open", "unlockall", "done"}
      /\ After(p) = "unlockall" => scen.atomic
      /\ After(p) = "open" => failed[p] = "none" /\ Past(p, EndOf(win[p])) # {}
      /\ (After(p) # "open" /\ failed[p] = "none") => Past(p, EndOf(win[p])) = {}
  BY Zenon, AfterFacts
<1>6. Types'
  <2>1. pc'[p] \in Place
    BY Zenon, <1>3, <1>5 DEF Place
  <2>2. pc' \in [Ranks -> Place] /\ held' \in [Ranks -> SUBSET Bytes]
    BY Zenon, <1>1, <1>3, <2>1 DEF Unlock, Goto, Types, Released
  <2> QED
    BY Zenon, <1>1, <1>3, <2>2 DEF Types
<1>7. PlaceOK(p)'
  BY <1>1, <1>3, <1>4, <1>5 DEF PlaceOK
<1>8. HeldOK(p)'
  BY <1>1, <1>3, <1>4, <1>5 DEF PlaceOK, HeldOK
<1>9. WindowOK(p)'
  BY <1>1, <1>3, <1>4, <1>5 DEF PlaceOK, WindowOK
<1>10. GotOK(p)'
  <2>1. ~ DirectAccess(p) /\ ~ Accesses(p)
    BY <1>3 DEF DirectAccess, Accesses, ReadWindow, WriteWindow
  <2>2. failed'[p] = "none" => Accessed(p)' \subseteq Accessed(p)
    BY Zenon, <1>2, <2>1, AccessedStep
  <2>3. pc'[p] \notin {"lockall", "direct"}
    BY <1>3, <1>5
  <2> QED
    BY Zenon, <1>1, <1>3, <1>4, <2>2, <2>3 DEF GotOK
<1>11. \A q \in Ranks \ {p} : held'[p] \cap held[q] = {}
  BY Zenon, <1>3
<1> QED
  BY Zenon, <1>2, <1>6, <1>7, <1>8, <1>9, <1>10, <1>11, ControlFrom

\* The next window, locked in nonatomic mode when nobody has locked a part of it.
LEMMA ControlOpenWindow ==
  ASSUME LeastExists, Control, NEW p \in Ranks, OpenWindow(p)
  PROVE  Control'
<1>1. Types /\ PlaceOK(p) /\ HeldOK(p) /\ WindowOK(p) /\ GotOK(p)
  BY Zenon DEF Control
<1>2. Step(p)
  BY Zenon DEF Step
<1>3. /\ pc[p] = "open" /\ pc'[p] = "read" /\ win'[p] = NextWindow(p)
      /\ held'[p] = WindowLock(p, NextWindow(p))
      /\ UNCHANGED <<scen, max_bufsize, file, buf, got, failed>>
  BY Zenon, <1>1, <1>2, PcFacts DEF OpenWindow, Types
<1>4. /\ Op(p)' = Op(p) /\ Mine(p)' = Mine(p) /\ Whole(p)' = Whole(p)
      /\ Windowed(p)' = Windowed(p) /\ Locks(p)' = Locks(p)
      /\ \A e : Past(p, e)' = Past(p, e)
  BY Zenon, <1>3, SameOps
<1>5. /\ NextWindow(p) \in Window /\ NextWindow(p).len <= max_bufsize
      /\ Op(p).kind # "read" => Span(NextWindow(p)) \subseteq Whole(p)
  <2>1. Past(p, EndOf(win[p])) # {}
    BY Zenon, <1>1, <1>3 DEF WindowOK
  <2> QED
    BY Zenon, <1>1, <2>1, NextFacts
<1>6. Whole(p) \subseteq Bytes /\ Op(p).kind \in {"write", "read", "contig"}
  BY Zenon, <1>1, OpFacts
<1>7. held'[p] = IF scen.atomic \/ Op(p).kind = "read" THEN held[p] ELSE Span(NextWindow(p))
  BY Zenon, <1>3 DEF WindowLock
<1>8. Types'
  <2>1. held'[p] \in SUBSET Bytes
    BY Zenon, <1>1, <1>5, <1>6, <1>7 DEF Types
  <2>2. "read" \in Place
    BY Zenon DEF Place
  <2>3. /\ held' = [held EXCEPT ![p] = held'[p]] /\ win' = [win EXCEPT ![p] = NextWindow(p)]
        /\ pc' = [pc EXCEPT ![p] = "read"]
    BY Zenon, <1>3 DEF OpenWindow, Goto
  <2>4. pc' \in [Ranks -> Place] /\ held' \in [Ranks -> SUBSET Bytes]
        /\ win' \in [Ranks -> Window]
    BY Zenon, <1>1, <1>5, <2>1, <2>2, <2>3 DEF Types
  <2> QED
    BY Zenon, <1>1, <1>3, <2>4 DEF Types
<1>9. PlaceOK(p)'
  BY <1>1, <1>3, <1>4 DEF PlaceOK
<1>10. HeldOK(p)'
  BY <1>1, <1>3, <1>4, <1>7 DEF PlaceOK, HeldOK
<1>11. WindowOK(p)'
  <2>1. Op(p).kind # "read" => Span(NextWindow(p)) \subseteq Bytes
    BY Zenon, <1>5, <1>6
  <2> QED
    BY Zenon, <1>3, <1>4, <1>5, <2>1 DEF WindowOK
<1>12. GotOK(p)'
  <2>1. failed'[p] = "none"
    BY <1>1, <1>3 DEF PlaceOK
  <2>2. Accessed(p)' \subseteq Accessed(p)
    <3>1. ~ DirectAccess(p) /\ ~ Accesses(p)
      BY <1>3 DEF DirectAccess, Accesses, ReadWindow, WriteWindow
    <3> QED
      BY Zenon, <1>2, <2>1, <3>1, AccessedStep
  <2> QED
    BY Zenon, <1>1, <1>3, <1>4, <2>2 DEF GotOK
<1>13. \A q \in Ranks \ {p} : held'[p] \cap held[q] = {}
  BY Zenon, <1>3 DEF OpenWindow, Free
<1> QED
  BY Zenon, <1>2, <1>8, <1>9, <1>10, <1>11, <1>12, <1>13, ControlFrom

\* Buffers are functions from bytes of the file to processes.
LEMMA ContentsFacts ==
  /\ \A D \in SUBSET Bytes : \A f \in [D -> Ranks \cup {0}] : f \in Contents
  /\ \A f \in Contents : DOMAIN f \in SUBSET Bytes /\ f \in [DOMAIN f -> Ranks \cup {0}]
<1>1. ASSUME NEW f \in Contents
      PROVE  DOMAIN f \in SUBSET Bytes /\ f \in [DOMAIN f -> Ranks \cup {0}]
  <2>1. PICK D \in SUBSET Bytes : f \in [D -> Ranks \cup {0}]
    BY Zenon DEF Contents
  <2> QED
    BY Zenon, <2>1
<1> QED
  BY Zenon, <1>1 DEF Contents

\* The read of the read-modify-write.
LEMMA ControlReadWrite ==
  ASSUME LeastExists, Control, NEW p \in Ranks, ReadWindow(p), Op(p).kind = "write"
  PROVE  Control'
<1>1. Types /\ PlaceOK(p) /\ HeldOK(p) /\ WindowOK(p) /\ GotOK(p)
  BY Zenon DEF Control
<1>2. Step(p)
  BY Zenon DEF Step
<1> DEFINE w == [b \in Span(win[p]) |-> IF b \in Mine(p) THEN p ELSE file[b]]
<1>3. /\ pc[p] = "read" /\ pc' = [pc EXCEPT ![p] = "write"] /\ buf' = [buf EXCEPT ![p] = w]
      /\ UNCHANGED <<scen, max_bufsize, file, win, held, got, failed>>
  BY Zenon, "write" # "read" DEF ReadWindow, Goto
<1>4. pc'[p] = "write" /\ buf'[p] = w
  BY Zenon, <1>1, <1>3 DEF Types
<1>5. /\ Op(p)' = Op(p) /\ Mine(p)' = Mine(p) /\ Whole(p)' = Whole(p)
      /\ Windowed(p)' = Windowed(p) /\ Locks(p)' = Locks(p)
      /\ \A e : Past(p, e)' = Past(p, e)
  BY Zenon, <1>3, SameOps
<1>6. Types'
  <2>1. w \in [Span(win[p]) -> Ranks \cup {0}] /\ Span(win[p]) \in SUBSET Bytes
    BY Zenon, <1>1 DEF WindowOK, Types
  <2>2. w \in Contents
    BY Zenon, <2>1, ContentsFacts
  <2> HIDE DEF w
  <2>3. "write" \in Place
    BY Zenon DEF Place
  <2>4. pc' \in [Ranks -> Place] /\ buf' \in [Ranks -> Contents]
    BY Zenon, <1>1, <1>3, <2>2, <2>3 DEF Types
  <2> QED
    BY Zenon, <1>1, <1>3, <2>4 DEF Types
<1>7. DOMAIN w = Span(win[p])
  BY Zenon
<1> HIDE DEF w
<1>8. PlaceOK(p)'
  BY <1>1, <1>3, <1>4, <1>5 DEF PlaceOK
<1>9. HeldOK(p)'
  BY <1>1, <1>3, <1>4, <1>5 DEF PlaceOK, HeldOK
<1>10. WindowOK(p)'
  BY <1>1, <1>3, <1>4, <1>5, <1>7 DEF WindowOK
<1>11. GotOK(p)'
  BY <1>1, <1>3, <1>4, <1>5 DEF GotOK
<1>12. \A q \in Ranks \ {p} : held'[p] \cap held[q] = {}
  BY Zenon, <1>3 DEF Control, Exclusive
<1> QED
  BY Zenon, <1>2, <1>6, <1>8, <1>9, <1>10, <1>11, <1>12, ControlFrom

\* A strided read fills the user's buffer from a window.
LEMMA ControlReadRead ==
  ASSUME LeastExists, Control, NEW p \in Ranks, ReadWindow(p), Op(p).kind = "read"
  PROVE  Control'
<1>1. Types /\ PlaceOK(p) /\ HeldOK(p) /\ WindowOK(p) /\ GotOK(p)
  BY Zenon DEF Control
<1>2. Step(p)
  BY Zenon DEF Step
<1> DEFINE D == DOMAIN got[p] \cup (Span(win[p]) \cap Mine(p))
           g == [b \in D |-> IF b \in DOMAIN got[p] THEN got[p][b] ELSE file[b]]
<1>3. /\ pc[p] = "read" /\ pc' = [pc EXCEPT ![p] = After(p)] /\ got' = [got EXCEPT ![p] = g]
      /\ UNCHANGED <<scen, max_bufsize, file, win, held, buf, failed>>
  BY Zenon, "write" # "read" DEF ReadWindow, Goto
<1>4. pc'[p] = After(p) /\ got'[p] = g
  BY Zenon, <1>1, <1>3 DEF Types
<1>5. /\ Op(p)' = Op(p) /\ Mine(p)' = Mine(p) /\ Whole(p)' = Whole(p)
      /\ Windowed(p)' = Windowed(p) /\ Locks(p)' = Locks(p)
      /\ \A e : Past(p, e)' = Past(p, e)
  BY Zenon, <1>3, SameOps
<1>6. /\ After(p) \in {"open", "unlockall", "done"}
      /\ After(p) = "unlockall" => scen.atomic
      /\ After(p) = "open" => failed[p] = "none" /\ Past(p, EndOf(win[p])) # {}
      /\ (After(p) # "open" /\ failed[p] = "none") => Past(p, EndOf(win[p])) = {}
      /\ (After(p) = "done" /\ scen.atomic) => failed[p] # "none"
  BY Zenon, AfterFacts
<1>7. Types'
  <2>1. D \in SUBSET Bytes /\ D \subseteq Mine(p)
    <3>1. Mine(p) \subseteq Bytes
      BY Zenon, <1>1, OpFacts
    <3> QED
      BY Zenon, <1>1, <3>1 DEF GotOK
  <2>2. g \in [D -> Ranks \cup {0}]
    <3>1. got[p] \in [DOMAIN got[p] -> Ranks \cup {0}]
      BY Zenon, <1>1, ContentsFacts DEF Types
    <3>2. file \in [Bytes -> Ranks \cup {0}]
      BY Zenon, <1>1 DEF Types
    <3> QED
      BY Zenon, <2>1, <3>1, <3>2
  <2>3. g \in Contents
    BY Zenon, <2>1, <2>2, ContentsFacts
  <2> HIDE DEF g
  <2>4. After(p) \in Place
    BY Zenon, <1>6 DEF Place
  <2>5. pc' \in [Ranks -> Place] /\ got' \in [Ranks -> Contents]
    BY Zenon, <1>1, <1>3, <2>3, <2>4 DEF Types
  <2> QED
    BY Zenon, <1>1, <1>3, <2>5 DEF Types
<1>8. DOMAIN g = D
  BY Zenon
<1> HIDE DEF g
<1>9. PlaceOK(p)'
  BY <1>1, <1>3, <1>4, <1>5, <1>6 DEF PlaceOK
<1>10. HeldOK(p)'
  BY Zenon, <1>1, <1>3, <1>4, <1>5, <1>6 DEF PlaceOK, HeldOK
<1>11. WindowOK(p)'
  BY Zenon, <1>1, <1>3, <1>4, <1>5, <1>6 DEF PlaceOK, WindowOK
<1>12. GotOK(p)'
  <2>1. failed'[p] = "none" /\ failed[p] = "none"
    BY <1>1, <1>3 DEF PlaceOK
  <2>2. ASSUME NEW b \in Accessed(p)' PROVE b \in D
    <3>1. ~ DirectAccess(p)
      BY <1>3 DEF DirectAccess
    <3>2. b \in Accessed(p) \/ b \in Span(win[p])
      BY Zenon, <1>2, <2>1, <3>1, AccessedStep
    <3>3. b \in Mine(p)
      BY Zenon, <1>5 DEF Accessed
    <3> QED
      BY Zenon, <1>1, <2>1, <3>2, <3>3 DEF GotOK
  <2>3. D \subseteq Mine(p)
    BY Zenon, <1>1 DEF GotOK
  <2>4. pc'[p] \notin {"lockall", "direct"}
    BY <1>4, <1>6
  <2> QED
    BY Zenon, <1>4, <1>5, <1>8, <2>2, <2>3, <2>4 DEF GotOK
<1>13. \A q \in Ranks \ {p} : held'[p] \cap held[q] = {}
  BY Zenon, <1>3 DEF Control, Exclusive
<1> QED
  BY Zenon, <1>2, <1>7, <1>9, <1>10, <1>11, <1>12, <1>13, ControlFrom

\* The exit after a failed read.
LEMMA ControlReadFails ==
  ASSUME LeastExists, Control, NEW p \in Ranks, ReadFails(p)
  PROVE  Control'
<1>1. Types /\ PlaceOK(p) /\ HeldOK(p) /\ WindowOK(p) /\ GotOK(p)
  BY Zenon DEF Control
<1>2. Step(p)
  BY Zenon DEF Step
<1>3. /\ pc[p] = "read" /\ pc' = [pc EXCEPT ![p] = "done"]
      /\ failed' = [failed EXCEPT ![p] = "read"]
      /\ UNCHANGED <<scen, max_bufsize, file, win, buf, held, got>>
  BY Zenon DEF ReadFails, Goto, Fail
<1>4. pc'[p] = "done" /\ failed'[p] = "read"
  BY Zenon, <1>1, <1>3 DEF Types
<1>5. /\ Op(p)' = Op(p) /\ Mine(p)' = Mine(p) /\ Whole(p)' = Whole(p)
      /\ Windowed(p)' = Windowed(p) /\ Locks(p)' = Locks(p)
      /\ \A e : Past(p, e)' = Past(p, e)
  BY Zenon, <1>3, SameOps
<1>6. Types'
  <2>1. "done" \in Place
    BY Zenon DEF Place
  <2>2. pc' \in [Ranks -> Place] /\ failed' \in [Ranks -> {"none", "read", "write"}]
    BY Zenon, <1>1, <1>3, <2>1 DEF Types
  <2> QED
    BY Zenon, <1>1, <1>3, <2>2 DEF Types
<1>7. PlaceOK(p)'
  BY <1>1, <1>3, <1>4, <1>5 DEF PlaceOK
<1>8. HeldOK(p)'
  BY <1>1, <1>3, <1>4, <1>5 DEF PlaceOK, HeldOK
<1>9. WindowOK(p)'
  BY Zenon, <1>1, <1>3, <1>4, <1>5 DEF WindowOK
<1>10. GotOK(p)'
  BY <1>1, <1>3, <1>4, <1>5 DEF GotOK
<1>11. \A q \in Ranks \ {p} : held'[p] \cap held[q] = {}
  BY Zenon, <1>3 DEF Control, Exclusive
<1> QED
  BY Zenon, <1>2, <1>6, <1>7, <1>8, <1>9, <1>10, <1>11, ControlFrom

\* Writing the buffer over the file.
LEMMA OverlayFacts ==
  ASSUME NEW f, NEW g
  PROVE  /\ DOMAIN Overlay(f, g) = DOMAIN f
         /\ \A b \in DOMAIN f : Overlay(f, g)[b] = IF b \in DOMAIN g THEN g[b] ELSE f[b]
  BY Zenon DEF Overlay

\* The write of the read-modify-write.
LEMMA ControlWriteWindow ==
  ASSUME LeastExists, Control, NEW p \in Ranks, WriteWindow(p)
  PROVE  Control'
<1>1. Types /\ PlaceOK(p) /\ HeldOK(p) /\ WindowOK(p) /\ GotOK(p)
  BY Zenon DEF Control
<1>2. Step(p)
  BY Zenon DEF Step
<1> DEFINE to == IF scen.atomic THEN After(p) ELSE "unlock"
<1>3. /\ pc[p] = "write" /\ pc' = [pc EXCEPT ![p] = to] /\ file' = Overlay(file, buf[p])
      /\ UNCHANGED <<scen, max_bufsize, win, buf, held, got, failed>>
  BY Zenon DEF WriteWindow, Goto
<1>4. pc'[p] = to
  BY Zenon, <1>1, <1>3 DEF Types
<1>5. /\ Op(p)' = Op(p) /\ Mine(p)' = Mine(p) /\ Whole(p)' = Whole(p)
      /\ Windowed(p)' = Windowed(p) /\ Locks(p)' = Locks(p)
      /\ \A e : Past(p, e)' = Past(p, e)
  BY Zenon, <1>3, SameOps
<1>6. /\ After(p) \in {"open", "unlockall", "done"}
      /\ After(p) = "unlockall" => scen.atomic
      /\ After(p) = "open" => failed[p] = "none" /\ Past(p, EndOf(win[p])) # {}
      /\ (After(p) # "open" /\ failed[p] = "none") => Past(p, EndOf(win[p])) = {}
      /\ (After(p) = "done" /\ scen.atomic) => failed[p] # "none"
  BY Zenon, AfterFacts
<1>7. Types'
  <2>1. file' \in [Bytes -> Ranks \cup {0}]
    <3>1. buf[p] \in [DOMAIN buf[p] -> Ranks \cup {0}]
      BY Zenon, <1>1, ContentsFacts DEF Types
    <3>2. file \in [Bytes -> Ranks \cup {0}]
      BY Zenon, <1>1 DEF Types
    <3> QED
      BY Zenon, <1>3, <3>1, <3>2 DEF Overlay
  <2>2. to \in Place
    BY Zenon, <1>6 DEF Place
  <2> HIDE DEF to
  <2>3. pc' \in [Ranks -> Place]
    BY Zenon, <1>1, <1>3, <2>2 DEF Types
  <2> QED
    BY Zenon, <1>1, <1>3, <2>1, <2>3 DEF Types
<1>8. PlaceOK(p)'
  BY <1>1, <1>3, <1>4, <1>5, <1>6 DEF PlaceOK
<1>a. /\ scen' = scen /\ max_bufsize' = max_bufsize /\ held'[p] = held[p]
      /\ win'[p] = win[p] /\ failed'[p] = failed[p]
      /\ Op(p).kind = "write" /\ failed[p] = "none"
  BY Zenon, <1>1, <1>3 DEF PlaceOK
<1>b. /\ pc'[p] \in {"open", "unlockall", "unlock"}
      /\ pc'[p] = "open" => scen.atomic /\ Past(p, EndOf(win[p])) # {}
      /\ pc'[p] = "unlockall" => Past(p, EndOf(win[p])) = {}
  BY Zenon, <1>4, <1>6, <1>a
<1>9. HeldOK(p)'
  <2>1. /\ ~ Locks(p) => held[p] = {}
        /\ (scen.atomic /\ Locks(p)) => held[p] = Whole(p)
        /\ ~ scen.atomic => held[p] = Span(win[p])
    BY Zenon, <1>1, <1>3, <1>a DEF HeldOK
  <2> QED
    BY Zenon, <1>5, <1>a, <1>b, <2>1 DEF HeldOK
<1>10. WindowOK(p)'
  <2>1. /\ win[p].len <= max_bufsize
        /\ Op(p).kind # "read" => Span(win[p]) \subseteq Bytes
    BY Zenon, <1>1 DEF WindowOK
  <2> QED
    BY Zenon, <1>5, <1>a, <1>b, <2>1 DEF WindowOK
<1>11. GotOK(p)'
  <2>1. Op(p)'.kind # "read"
    BY <1>1, <1>3, <1>5 DEF PlaceOK
  <2>2. pc'[p] \notin {"lockall", "direct"}
    BY <1>4, <1>6
  <2> QED
    BY Zenon, <1>1, <1>3, <1>5, <2>1, <2>2 DEF GotOK
<1>12. \A q \in Ranks \ {p} : held'[p] \cap held[q] = {}
  BY Zenon, <1>3 DEF Control, Exclusive
<1> QED
  BY Zenon, <1>2, <1>7, <1>8, <1>9, <1>10, <1>11, <1>12, ControlFrom

\* A failed write has written a part of the window.
LEMMA WriteFailsFacts ==
  ASSUME Control, NEW p \in Ranks, WriteFails(p)
  PROVE  \E S \in SUBSET Span(win[p]) :
            file' = [b \in Bytes |-> IF b \in S THEN buf[p][b] ELSE file[b]]
<1>1. /\ win[p].off \in Nat /\ win[p].len \in Nat /\ win[p] \in Window
  BY DEF Control, Types, Window
<1>2. PICK n \in 0 .. win[p].len - 1 :
         file' = Overlay(file, [b \in Span([win[p] EXCEPT !.len = n]) |-> buf[p][b]])
  BY Zenon DEF WriteFails
<1>3. Span([win[p] EXCEPT !.len = n]) \subseteq Span(win[p])
  BY <1>1 DEF Span, EndOf, Window
<1>4. DOMAIN file = Bytes
  BY Zenon DEF Control, Types
<1> DEFINE S == Span([win[p] EXCEPT !.len = n])
<1>5. Overlay(file, [b \in S |-> buf[p][b]])
         = [b \in Bytes |-> IF b \in S THEN buf[p][b] ELSE file[b]]
  <2> HIDE DEF S
  <2> QED
    BY Zenon, <1>4 DEF Overlay
<1> QED
  BY Zenon, <1>2, <1>3, <1>5

\* A write that fails after a part of the window.
LEMMA ControlWriteFails ==
  ASSUME LeastExists, Control, NEW p \in Ranks, WriteFails(p)
  PROVE  Control'
<1>1. Types /\ PlaceOK(p) /\ HeldOK(p) /\ WindowOK(p) /\ GotOK(p)
  BY Zenon DEF Control
<1>2. Step(p)
  BY Zenon DEF Step
<1> DEFINE to == IF scen.atomic THEN "done" ELSE "unlock"
<1>3. /\ pc[p] = "write" /\ pc' = [pc EXCEPT ![p] = to]
      /\ failed' = [failed EXCEPT ![p] = "write"]
      /\ UNCHANGED <<scen, max_bufsize, win, buf, held, got>>
  BY Zenon DEF WriteFails, Goto, Fail
<1>4. pc'[p] = to /\ failed'[p] = "write"
  BY Zenon, <1>1, <1>3 DEF Types
<1>5. /\ Op(p)' = Op(p) /\ Mine(p)' = Mine(p) /\ Whole(p)' = Whole(p)
      /\ Windowed(p)' = Windowed(p) /\ Locks(p)' = Locks(p)
      /\ \A e : Past(p, e)' = Past(p, e)
  BY Zenon, <1>3, SameOps
<1>6. Types'
  <2>1. file' \in [Bytes -> Ranks \cup {0}]
    <3>1. buf[p] \in [Span(win[p]) -> Ranks \cup {0}]
      BY Zenon, <1>1, <1>3, ContentsFacts DEF Types, WindowOK
    <3>2. file \in [Bytes -> Ranks \cup {0}]
      BY Zenon, <1>1 DEF Types
    <3>3. PICK S \in SUBSET Span(win[p]) :
             file' = [b \in Bytes |-> IF b \in S THEN buf[p][b] ELSE file[b]]
      BY Zenon, WriteFailsFacts
    <3> QED
      BY Zenon, <3>1, <3>2, <3>3
  <2>2. to \in Place
    BY Zenon DEF Place
  <2> HIDE DEF to
  <2>3. pc' \in [Ranks -> Place] /\ failed' \in [Ranks -> {"none", "read", "write"}]
    BY Zenon, <1>1, <1>3, <2>2 DEF Types
  <2> QED
    BY Zenon, <1>1, <1>3, <2>1, <2>3 DEF Types
<1>7. PlaceOK(p)'
  BY <1>1, <1>3, <1>4, <1>5 DEF PlaceOK
<1>8. HeldOK(p)'
  BY <1>1, <1>3, <1>4, <1>5 DEF PlaceOK, HeldOK
<1>9. WindowOK(p)'
  <2>1. /\ win[p].len <= max_bufsize
        /\ Op(p).kind # "read" => Span(win[p]) \subseteq Bytes
    BY Zenon, <1>1 DEF WindowOK
  <2>2. pc'[p] \in {"done", "unlock"} /\ failed'[p] # "none"
    BY Zenon, <1>4
  <2> QED
    BY Zenon, <1>3, <1>5, <2>1, <2>2 DEF WindowOK
<1>10. GotOK(p)'
  BY <1>1, <1>3, <1>4, <1>5 DEF GotOK
<1>11. \A q \in Ranks \ {p} : held'[p] \cap held[q] = {}
  BY Zenon, <1>3 DEF Control, Exclusive
<1> QED
  BY Zenon, <1>2, <1>6, <1>7, <1>8, <1>9, <1>10, <1>11, ControlFrom

\* An access without window.
LEMMA ControlDirectAccess ==
  ASSUME LeastExists, Control, NEW p \in Ranks, DirectAccess(p)
  PROVE  Control'
<1>1. Types /\ PlaceOK(p) /\ HeldOK(p) /\ WindowOK(p) /\ GotOK(p)
  BY Zenon DEF Control
<1>2. Step(p)
  BY Zenon DEF Step
<1> DEFINE to == IF held[p] = {} THEN "done" ELSE "unlockall"
           g == [b \in Mine(p) |-> file[b]]
<1>3. /\ pc[p] = "direct" /\ pc' = [pc EXCEPT ![p] = to]
      /\ UNCHANGED <<scen, max_bufsize, win, buf, held>>
  BY Zenon DEF DirectAccess, Goto
<1>4. pc'[p] = to
  BY Zenon, <1>1, <1>3 DEF Types
<1>5. /\ Op(p)' = Op(p) /\ Mine(p)' = Mine(p) /\ Whole(p)' = Whole(p)
      /\ Windowed(p)' = Windowed(p) /\ Locks(p)' = Locks(p)
      /\ \A e : Past(p, e)' = Past(p, e)
  BY Zenon, <1>3, SameOps
<1>6. /\ ~ Windowed(p) /\ (Locks(p) => scen.atomic)
      /\ Whole(p) # {} /\ Mine(p) \in SUBSET Bytes
  BY Zenon, <1>1, <1>3, OpFacts DEF PlaceOK, Locks, Unlocked, Windowed
<1>7. \/ /\ Op(p).kind # "read" /\ UNCHANGED <<got, failed>>
         /\ file' = [b \in Bytes |-> IF b \in Mine(p) THEN p ELSE file[b]]
      \/ /\ Op(p).kind = "read" /\ UNCHANGED <<file, failed>>
         /\ got' = [got EXCEPT ![p] = g]
      \/ /\ \E x \in {"read", "write"} : failed' = [failed EXCEPT ![p] = x]
         /\ UNCHANGED <<file, got>>
  BY Zenon DEF DirectAccess, Fail
<1>8. Types'
  <2>1. file \in [Bytes -> Ranks \cup {0}]
    BY Zenon, <1>1 DEF Types
  <2>2. file' \in [Bytes -> Ranks \cup {0}]
    <3>1. [b \in Bytes |-> IF b \in Mine(p) THEN p ELSE file[b]] \in [Bytes -> Ranks \cup {0}]
      BY Zenon, <2>1
    <3> QED
      BY Zenon, <1>7, <2>1, <3>1
  <2>3. got' \in [Ranks -> Contents]
    <3>1. g \in [Mine(p) -> Ranks \cup {0}]
      BY Zenon, <1>6, <2>1
    <3>2. g \in Contents
      BY Zenon, <1>6, <3>1, ContentsFacts
    <3> HIDE DEF g
    <3> QED
      BY Zenon, <1>1, <1>7, <3>2 DEF Types
  <2>4. failed' \in [Ranks -> {"none", "read", "write"}]
    <3> HIDE DEF g
    <3>1. CASE failed' = failed
      BY Zenon, <1>1, <3>1 DEF Types
    <3>2. CASE \E x \in {"read", "write"} : failed' = [failed EXCEPT ![p] = x]
      <4>1. PICK x \in {"read", "write"} : failed' = [failed EXCEPT ![p] = x]
        BY Zenon, <3>2
      <4>2. x \in {"none", "read", "write"}
        BY Zenon
      <4> QED
        BY Zenon, <1>1, <4>1, <4>2 DEF Types
    <3> QED
      BY Zenon, <1>7, <3>1, <3>2
  <2>5. to \in Place
    BY Zenon DEF Place
  <2> HIDE DEF to
  <2>6. pc' \in [Ranks -> Place]
    BY Zenon, <1>1, <1>3, <2>5 DEF Types
  <2> QED
    BY Zenon, <1>1, <1>3, <2>2, <2>3, <2>4, <2>6 DEF Types
<1>9. PlaceOK(p)'
  BY <1>1, <1>3, <1>4, <1>5, <1>6 DEF PlaceOK, HeldOK, Windowed
<1>a. /\ pc'[p] \in {"done", "unlockall"}
      /\ pc'[p] = "done" => held[p] = {}
  BY Zenon, <1>4
<1>10. HeldOK(p)'
  <2>1. /\ ~ Locks(p) => held[p] = {}
        /\ (scen.atomic /\ Locks(p)) => held[p] = Whole(p)
    BY Zenon, <1>1, <1>3 DEF HeldOK
  <2>2. ~ scen.atomic => held[p] = {}
    BY Zenon, <1>6, <2>1
  <2> QED
    BY Zenon, <1>3, <1>5, <1>a, <2>1, <2>2 DEF HeldOK
<1>11. WindowOK(p)'
  <2>1. /\ win[p].len <= max_bufsize
        /\ Op(p).kind # "read" => Span(win[p]) \subseteq Bytes
    BY Zenon, <1>1 DEF WindowOK
  <2> QED
    BY Zenon, <1>3, <1>5, <1>6, <1>a, <2>1 DEF WindowOK
<1>12. GotOK(p)'
  <2>1. pc'[p] \notin {"lockall", "direct"}
    BY <1>4
  <2>2. DOMAIN got'[p] \subseteq Mine(p)
    <3>1. CASE got' = got
      BY Zenon, <1>1, <3>1 DEF GotOK
    <3>2. CASE got' = [got EXCEPT ![p] = g]
      BY Zenon, <1>1, <3>2 DEF Types
    <3> QED
      BY Zenon, <1>7, <3>1, <3>2
  <2>3. (Op(p).kind = "read" /\ failed'[p] = "none") => Mine(p) \subseteq DOMAIN got'[p]
    <3>1. CASE got' = [got EXCEPT ![p] = g]
      BY Zenon, <1>1, <3>1 DEF Types
    <3>2. CASE \E x \in {"read", "write"} : failed' = [failed EXCEPT ![p] = x]
      BY Zenon, <1>1, <3>2, "none" # "read", "none" # "write" DEF Types
    <3> QED
      BY Zenon, <1>7, <3>1, <3>2
  <2>4. Accessed(p)' \subseteq Mine(p)
    BY Zenon, <1>5 DEF Accessed
  <2> QED
    BY Zenon, <1>5, <2>1, <2>2, <2>3, <2>4 DEF GotOK
<1>13. \A q \in Ranks \ {p} : held'[p] \cap held[q] = {}
  BY Zenon, <1>3 DEF Control, Exclusive
<1> QED
  BY Zenon, <1>2, <1>8, <1>9, <1>10, <1>11, <1>12, <1>13, ControlFrom

\* Every step keeps the control part of the invariant.
LEMMA ControlStep ==
  ASSUME LeastExists, Control, NEW p \in Ranks, Step(p)
  PROVE  Control'
<1>1. ReadWindow(p) => Op(p).kind = "write" \/ Op(p).kind = "read"
  BY Zenon DEF ReadWindow
<1> QED
  BY Zenon, <1>1, ControlLockAll, ControlUnlock, ControlOpenWindow, ControlReadWrite,
     ControlReadRead, ControlReadFails, ControlWriteWindow, ControlWriteFails,
     ControlDirectAccess DEF Step

(***************************************************************************)
(* The file                                                                *)
(***************************************************************************)

\* An error stays, and an access that is over makes no step.
LEMMA FailedStep ==
  ASSUME Types, NEW p \in Ranks, Step(p)
  PROVE  pc[p] # "done" /\ (failed'[p] = "none" => failed[p] = "none")
<1>1. CASE LockAll(p) \/ OpenWindow(p) \/ ReadWindow(p) \/ WriteWindow(p) \/ Unlock(p)
  <2>1. failed' = failed
    BY Zenon, <1>1 DEF LockAll, OpenWindow, ReadWindow, WriteWindow, Unlock
  <2>2. pc[p] # "done"
    BY <1>1 DEF LockAll, OpenWindow, ReadWindow, WriteWindow, Unlock
  <2> QED
    BY Zenon, <2>1, <2>2
<1>2. CASE ReadFails(p) \/ WriteFails(p)
  <2>1. failed'[p] # "none"
    BY Zenon, <1>2, PcFacts, "none" # "read", "none" # "write"
  <2>2. pc[p] # "done"
    BY <1>2 DEF ReadFails, WriteFails
  <2> QED
    BY Zenon, <2>1, <2>2
<1>3. CASE DirectAccess(p)
  <2>1. failed' = failed \/ \E x \in {"read", "write"} : failed' = [failed EXCEPT ![p] = x]
    BY Zenon, <1>3 DEF DirectAccess, Fail
  <2>2. pc[p] # "done"
    BY <1>3 DEF DirectAccess
  <2> QED
    BY Zenon, <2>1, <2>2, "none" # "read", "none" # "write" DEF Types
<1> QED
  BY Zenon, <1>1, <1>2, <1>3 DEF Step

\* The lock under which a process writes a byte.
LEMMA WriteLock ==
  ASSUME LeastExists, Control, NEW p \in Ranks, NEW b \in Mine(p), Locks(p),
         \/ pc[p] = "direct"
         \/ pc[p] = "write" /\ b \in Span(win[p])
  PROVE  b \in held[p]
<1>1. Types /\ PlaceOK(p) /\ HeldOK(p)
  BY Zenon DEF Control
<1>2. b \in Whole(p)
  BY Zenon, <1>1, OpFacts
<1>3. CASE scen.atomic
  <2>1. pc[p] \notin {"lockall", "done"}
    OBVIOUS
  <2> QED
    BY Zenon, <1>1, <1>2, <1>3, <2>1 DEF HeldOK
<1>4. CASE ~ scen.atomic
  <2>1. ~ Direct(Op(p))
    BY Zenon, <1>4 DEF Locks, Unlocked
  <2>2. pc[p] = "write"
    BY Zenon, <1>1, <2>1 DEF PlaceOK, Windowed
  <2>3. b \in Span(win[p])
    BY Zenon, <2>2, "write" # "direct"
  <2> QED
    BY Zenon, <1>1, <1>4, <2>2, <2>3 DEF HeldOK, PlaceOK
<1> QED
  BY Zenon, <1>3, <1>4

\* A step changes only bytes of its own request, under its lock.
LEMMA Touch ==
  ASSUME LeastExists, Control, Fresh, NEW p \in Ranks, Step(p),
         NEW b \in Bytes, file'[b] # file[b]
  PROVE  /\ file'[b] = p /\ b \in Mine(p) /\ Writes(p)
         /\ pc[p] \in {"direct", "write"} /\ (Locks(p) => b \in held[p])
<1>1. Types /\ PlaceOK(p) /\ HeldOK(p) /\ WindowOK(p)
  BY Zenon DEF Control
<1>2. DOMAIN file = Bytes
  BY Zenon, <1>1 DEF Types
<1>3. CASE DirectAccess(p)
  <2>1. /\ pc[p] = "direct" /\ Writes(p)
        /\ file' = [c \in Bytes |-> IF c \in Mine(p) THEN p ELSE file[c]]
    BY Zenon, <1>3 DEF DirectAccess, Writes
  <2>2. b \in Mine(p) /\ file'[b] = p
    BY Zenon, <2>1
  <2> QED
    BY Zenon, <2>1, <2>2, WriteLock
<1>4. CASE WriteWindow(p) \/ WriteFails(p)
  <2>1. pc[p] = "write" /\ DOMAIN buf[p] = Span(win[p])
    BY Zenon, <1>1, <1>4 DEF WriteWindow, WriteFails, WindowOK
  <2>2. b \in Span(win[p]) /\ file'[b] = buf[p][b]
    <3>1. CASE WriteWindow(p)
      <4>1. file' = [c \in Bytes |-> IF c \in Span(win[p]) THEN buf[p][c] ELSE file[c]]
        BY Zenon, <1>2, <2>1, <3>1 DEF WriteWindow, Overlay
      <4> QED
        BY Zenon, <4>1
    <3>2. CASE WriteFails(p)
      <4>1. PICK S \in SUBSET Span(win[p]) :
               file' = [c \in Bytes |-> IF c \in S THEN buf[p][c] ELSE file[c]]
        BY Zenon, <3>2, WriteFailsFacts
      <4> QED
        BY Zenon, <4>1
    <3> QED
      BY Zenon, <1>4, <3>1, <3>2
  <2>3. buf[p][b] = IF b \in Mine(p) THEN p ELSE file[b]
    BY Zenon, <2>1, <2>2 DEF Fresh
  <2>4. b \in Mine(p) /\ file'[b] = p
    BY Zenon, <2>2, <2>3
  <2>5. Writes(p)
    BY Zenon, <1>1, <2>1, "write" # "read" DEF PlaceOK, Writes
  <2> QED
    BY Zenon, <2>1, <2>2, <2>4, <2>5, WriteLock
<1>5. ~ (LockAll(p) \/ OpenWindow(p) \/ ReadWindow(p) \/ ReadFails(p) \/ Unlock(p))
  BY Zenon DEF LockAll, OpenWindow, ReadWindow, ReadFails, Unlock
<1> QED
  BY Zenon, <1>3, <1>4, <1>5 DEF Step

\* Nobody changes what another one has locked.
LEMMA Safe ==
  ASSUME LeastExists, Control, Fresh, Apart(scen), NEW p \in Ranks, Step(p),
         NEW q \in Ranks \ {p}, NEW b \in held[q], b \in Whole(q), Locks(q),
         scen.atomic \/ Writes(q)
  PROVE  file'[b] = file[b]
<1>1. SUFFICES ASSUME file'[b] # file[b] PROVE FALSE
  OBVIOUS
<1>2. b \in Bytes
  BY Zenon DEF Control, Types
<1>3. b \in Mine(p) /\ Writes(p) /\ (Locks(p) => b \in held[p])
  BY Zenon, <1>1, <1>2, Touch
<1>4. CASE Locks(p)
  BY Zenon, <1>3, <1>4 DEF Control, Exclusive
<1>5. CASE ~ Locks(p)
  <2>1. BytesOf(scen.ops[p]) \cap RangeOf(scen.ops[q]) = {}
    BY Zenon, <1>3, <1>5 DEF Apart, Locks, Op, Writes
  <2> QED
    BY Zenon, <1>3, <2>1 DEF Mine, Whole, Op
<1> QED
  BY Zenon, <1>4, <1>5

\* What a process has accessed and written holds its data, or did before the step.
LEMMA OwnWrite ==
  ASSUME LeastExists, Control, Fresh, NEW p \in Ranks, Step(p), failed'[p] = "none",
         Writes(p), NEW b \in Accessed(p)'
  PROVE  file'[b] = p \/ (b \in Accessed(p) /\ file'[b] = file[b])
<1>1. Types /\ PlaceOK(p) /\ WindowOK(p)
  BY Zenon DEF Control
<1>2. b \in Mine(p)
  <2>1. scen' = scen
    BY Zenon, <1>1, OthersStay
  <2>2. Mine(p)' = Mine(p)
    BY Zenon, <2>1, SameOps
  <2> QED
    BY Zenon, <2>2 DEF Accessed
<1>3. b \in Bytes /\ DOMAIN file = Bytes
  BY Zenon, <1>1, <1>2, OpFacts DEF Types
<1>4. CASE DirectAccess(p)
  <2>1. file' = [c \in Bytes |-> IF c \in Mine(p) THEN p ELSE file[c]]
    BY Zenon, <1>1, <1>4, "none" # "read", "none" # "write" DEF DirectAccess, Writes, Types, Fail
  <2> QED
    BY Zenon, <1>2, <1>3, <2>1
<1>5. CASE ~ DirectAccess(p) /\ b \in Accessed(p)
  <2>1. file'[b] # file[b] => file'[b] = p
    BY Zenon, <1>3, Touch
  <2> QED
    BY Zenon, <1>5, <2>1
<1>6. CASE b \in Span(win[p]) /\ Accesses(p)
  <2>1. WriteWindow(p)
    BY Zenon, <1>6 DEF Accesses, Writes
  <2>2. pc[p] = "write" /\ DOMAIN buf[p] = Span(win[p]) /\ file' = Overlay(file, buf[p])
    BY Zenon, <1>1, <2>1 DEF WriteWindow, WindowOK
  <2>3. buf[p][b] = p
    BY Zenon, <1>2, <1>6, <2>2 DEF Fresh
  <2> QED
    BY Zenon, <1>3, <1>6, <2>2, <2>3, OverlayFacts
<1> QED
  BY Zenon, <1>4, <1>5, <1>6, AccessedStep

\* An access that is over has accessed all of its request.
LEMMA AllAccessed ==
  ASSUME LeastExists, Control, NEW r \in Ranks, pc[r] \in {"unlockall", "done"},
         failed[r] = "none"
  PROVE  Mine(r) = Accessed(r)
<1>1. Types /\ WindowOK(r)
  BY Zenon DEF Control
<1>2. CASE Direct(Op(r))
  BY Zenon, <1>2 DEF Accessed
<1>3. CASE ~ Direct(Op(r))
  <2>1. Past(r, EndOf(win[r])) = {} /\ EndOf(win[r]) \in Nat
    BY Zenon, <1>1, <1>3, OpFacts DEF WindowOK, Windowed
  <2>2. Progress(r) = EndOf(win[r])
    BY DEF Progress
  <2>3. \A b \in Mine(r) : b < EndOf(win[r])
    BY Zenon, <1>1, <2>1, PastFacts
  <2> QED
    BY Zenon, <1>3, <2>2, <2>3 DEF Accessed
<1> QED
  BY Zenon, <1>2, <1>3

\* One that has not begun has accessed nothing.
LEMMA NoneAccessed ==
  ASSUME LeastExists, Control, NEW r \in Ranks, pc[r] \in {"lockall", "direct"}
  PROVE  Accessed(r) = {}
<1>1. Types /\ PlaceOK(r) /\ WindowOK(r)
  BY Zenon DEF Control
<1>2. CASE Direct(Op(r))
  <2>1. pc[r] \notin {"unlockall", "done"}
    OBVIOUS
  <2> QED
    BY Zenon, <1>2, <2>1 DEF Accessed
<1>3. CASE ~ Direct(Op(r))
  <2>1. Progress(r) = 0
    BY <1>1 DEF Progress, WindowOK, NoWindow, EndOf
  <2>2. \A b \in Mine(r) : b \in Nat
    BY Zenon, <1>1, OpFacts
  <2>3. \A b \in Mine(r) : ~ (b < 0)
    BY <2>2
  <2> QED
    BY Zenon, <1>3, <2>1, <2>3 DEF Accessed
<1> QED
  BY Zenon, <1>2, <1>3

\* Nobody writes into a window between its read and its write.
LEMMA FreshStep ==
  ASSUME LeastExists, Control, Fresh, Apart(scen), NEW p \in Ranks, Step(p)
  PROVE  Fresh'
<1>1. Types /\ scen' = scen
  BY Zenon, OthersStay DEF Control
<1>2. SUFFICES ASSUME NEW r \in Ranks, pc'[r] = "write", NEW b \in Span(win'[r])
               PROVE  buf'[r][b] = IF b \in Mine(r) THEN r ELSE file'[b]
  BY Zenon, <1>1, SameOps DEF Fresh
<1>3. CASE r = p
  <2>1. After(p) # "write"
    <3>1. After(p) \in {"open", "unlockall", "done"}
      BY Zenon, AfterFacts
    <3> QED
      BY <3>1
  <2>2. ReadWindow(p) /\ Op(p).kind = "write"
    BY <1>1, <1>2, <1>3, <2>1, PcFacts DEF Step
  <2>3. /\ buf' = [buf EXCEPT ![p] = [c \in Span(win[p]) |->
                                          IF c \in Mine(p) THEN p ELSE file[c]]]
        /\ file' = file /\ win' = win
    BY Zenon, <2>2, "write" # "read" DEF ReadWindow
  <2> QED
    BY Zenon, <1>1, <1>2, <1>3, <2>3 DEF Types
<1>4. CASE r # p
  <2>1. pc'[r] = pc[r] /\ win'[r] = win[r] /\ buf'[r] = buf[r]
    BY Zenon, <1>1, <1>4, OthersStay
  <2>2. buf[r][b] = IF b \in Mine(r) THEN r ELSE file[b]
    BY Zenon, <1>2, <2>1 DEF Fresh
  <2>3. /\ b \in Whole(r) /\ b \in held[r] /\ Locks(r) /\ Writes(r)
    <3>1. PlaceOK(r) /\ HeldOK(r) /\ WindowOK(r)
      BY Zenon DEF Control
    <3>2. b \in Span(win[r]) /\ pc[r] = "write"
      BY Zenon, <1>2, <2>1
    <3>3. Locks(r) /\ Op(r).kind = "write"
      BY <3>1, <3>2 DEF PlaceOK
    <3>4. b \in Whole(r)
      BY Zenon, <3>1, <3>2, <3>3, "write" # "read" DEF WindowOK
    <3>5. held[r] = Whole(r) \/ held[r] = Span(win[r])
      <4>1. pc[r] \notin {"lockall", "done"} /\ pc[r] \in {"read", "write", "unlock"}
        BY <3>2
      <4> QED
        BY Zenon, <3>1, <3>3, <4>1 DEF HeldOK
    <3> QED
      BY Zenon, <3>2, <3>3, <3>4, <3>5, "write" # "read" DEF Writes
  <2>4. file'[b] = file[b]
    BY Zenon, <1>4, <2>3, Safe
  <2> QED
    BY Zenon, <2>1, <2>2, <2>4
<1> QED
  BY Zenon, <1>3, <1>4

\* The view of a step on the other processes.
LEMMA Other ==
  ASSUME Types, NEW p \in Ranks, Step(p), NEW r \in Ranks \ {p}
  PROVE  /\ Accessed(r)' = Accessed(r) /\ pc'[r] = pc[r]
         /\ failed'[r] = failed[r] /\ got'[r] = got[r]
<1>1. /\ scen' = scen /\ pc'[r] = pc[r] /\ win'[r] = win[r]
      /\ failed'[r] = failed[r] /\ got'[r] = got[r]
  BY Zenon, OthersStay
<1>2. Mine(r)' = Mine(r) /\ Op(r)' = Op(r)
  BY Zenon, <1>1, SameOps
<1> QED
  BY Zenon, <1>1, <1>2 DEF Accessed, Progress

\* What one process alone writes stays.
LEMMA KeptStep ==
  ASSUME LeastExists, Control, Fresh, Kept, NEW p \in Ranks, Step(p)
  PROVE  Kept'
<1>1. Types /\ scen' = scen
  BY Zenon, OthersStay DEF Control
<1>2. SUFFICES ASSUME NEW r \in Ranks, Writes(r), failed'[r] = "none",
                      NEW b \in Accessed(r)', Writers(b) = {r}
               PROVE  file'[b] = r
  BY Zenon, <1>1, SameOps DEF Kept
<1>3. CASE r = p
  <2>1. failed[p] = "none"
    BY Zenon, <1>1, <1>2, <1>3, FailedStep
  <2>2. b \in Accessed(p) => file[b] = p
    BY Zenon, <1>2, <1>3, <2>1 DEF Kept
  <2> QED
    BY Zenon, <1>2, <1>3, <2>2, OwnWrite
<1>4. CASE r # p
  <2>1. failed[r] = "none" /\ b \in Accessed(r)
    BY Zenon, <1>1, <1>2, <1>4, Other
  <2>2. file[b] = r
    BY Zenon, <1>2, <2>1 DEF Kept
  <2>3. b \in Bytes
    BY Zenon, <1>1, <2>1, OpFacts DEF Accessed
  <2>4. file'[b] # file[b] => b \in Mine(p) /\ Writes(p)
    BY Zenon, <2>3, Touch
  <2>5. ~ (b \in Mine(p) /\ Writes(p))
    BY Zenon, <1>2, <1>4 DEF Writers, Writes
  <2> QED
    BY Zenon, <2>2, <2>4, <2>5
<1> QED
  BY Zenon, <1>3, <1>4

\* In atomic mode what has been written stays as long as the range is locked.
LEMMA OwnedStep ==
  ASSUME LeastExists, Control, Fresh, Owned, Apart(scen), NEW p \in Ranks, Step(p)
  PROVE  Owned'
<1>1. Types /\ scen' = scen
  BY Zenon, OthersStay DEF Control
<1>2. SUFFICES ASSUME scen.atomic, NEW r \in Ranks, Writes(r), failed'[r] = "none",
                      pc'[r] # "done", NEW b \in Accessed(r)'
               PROVE  file'[b] = r
  BY Zenon, <1>1, SameOps DEF Owned
<1>3. CASE r = p
  <2>1. failed[p] = "none" /\ pc[p] # "done"
    BY Zenon, <1>1, <1>2, <1>3, FailedStep
  <2>2. b \in Accessed(p) => file[b] = p
    BY Zenon, <1>2, <1>3, <2>1 DEF Owned
  <2> QED
    BY Zenon, <1>2, <1>3, <2>2, OwnWrite
<1>4. CASE r # p
  <2>1. failed[r] = "none" /\ b \in Accessed(r) /\ pc[r] # "done"
    BY Zenon, <1>1, <1>2, <1>4, Other
  <2>2. file[b] = r
    BY Zenon, <1>2, <2>1 DEF Owned
  <2>3. pc[r] \notin {"lockall", "direct"}
    BY Zenon, <2>1, NoneAccessed
  <2>4. PlaceOK(r) /\ HeldOK(r)
    BY Zenon DEF Control
  <2>5. Locks(r)
    BY Zenon, <2>1, <2>3, <2>4 DEF PlaceOK
  <2>6. held[r] = Whole(r)
    BY Zenon, <1>2, <2>1, <2>3, <2>4, <2>5 DEF HeldOK
  <2>7. b \in Whole(r)
    BY Zenon, <1>1, <2>1, OpFacts DEF Accessed
  <2>8. file'[b] = file[b]
    BY Zenon, <1>2, <1>4, <2>5, <2>6, <2>7, Safe
  <2> QED
    BY Zenon, <2>2, <2>8
<1> QED
  BY Zenon, <1>3, <1>4

\* A process that has not begun has written nothing.
LEMMA NotBegunStep ==
  ASSUME LeastExists, Control, Fresh, NotBegun, NEW p \in Ranks, Step(p)
  PROVE  NotBegun'
<1>1. Types
  BY Zenon DEF Control
<1>2. SUFFICES ASSUME NEW r \in Ranks, pc'[r] \in {"lockall", "direct"}, NEW b \in Bytes
               PROVE  file'[b] # r
  BY Zenon DEF NotBegun
<1>3. CASE r = p
  <2>1. After(p) \notin {"lockall", "direct"}
    <3>1. After(p) \in {"open", "unlockall", "done"}
      BY Zenon, AfterFacts
    <3> QED
      BY <3>1
  <2>2. LockAll(p)
    BY <1>1, <1>2, <1>3, <2>1, PcFacts DEF Step
  <2>3. file' = file /\ pc[p] = "lockall"
    BY Zenon, <2>2 DEF LockAll
  <2> QED
    BY Zenon, <1>3, <2>3 DEF NotBegun
<1>4. CASE r # p
  <2>1. pc[r] \in {"lockall", "direct"}
    BY Zenon, <1>1, <1>2, <1>4, OthersStay
  <2>2. file[b] # r
    BY Zenon, <2>1 DEF NotBegun
  <2>3. file'[b] # file[b] => file'[b] = p
    BY Zenon, Touch
  <2> QED
    BY Zenon, <1>4, <2>2, <2>3
<1> QED
  BY Zenon, <1>3, <1>4

(***************************************************************************)
(* Atomic mode                                                             *)
(***************************************************************************)

\* A write that returns leaves its data in the file.
LEMMA Finish ==
  ASSUME LeastExists, Control, Fresh, Owned, scen.atomic, NEW p \in Ranks, Step(p),
         Writes(p), pc'[p] = "done", failed'[p] = "none", NEW b \in Mine(p)
  PROVE  file'[b] = p
<1>1. Types /\ PlaceOK(p)
  BY Zenon DEF Control
<1>2. failed[p] = "none" /\ pc[p] # "done"
  BY Zenon, <1>1, FailedStep
<1>3. After(p) # "done"
  BY Zenon, <1>2, AfterFacts
<1>4. ~ LockAll(p) /\ ~ OpenWindow(p) /\ ~ ReadFails(p) /\ ~ WriteFails(p)
  BY <1>1, PcFacts
<1>5. ~ ReadWindow(p)
  BY <1>1, <1>3, PcFacts
<1>6. ~ WriteWindow(p)
  BY Zenon, <1>1, <1>3, PcFacts
<1>7. CASE Unlock(p)
  <2>1. pc[p] = "unlockall" /\ file' = file
    BY Zenon, <1>1, <1>3, <1>7, PcFacts DEF Unlock
  <2>2. b \in Accessed(p)
    BY Zenon, <1>2, <2>1, AllAccessed
  <2> QED
    BY Zenon, <1>2, <2>1, <2>2 DEF Owned
<1>8. CASE DirectAccess(p)
  <2>1. Control'
    BY Zenon, ControlStep
  <2>2. b \in Accessed(p)'
    <3>1. scen' = scen /\ ~ Windowed(p)
      BY Zenon, <1>1, <1>8, OthersStay DEF DirectAccess, PlaceOK
    <3>2. Mine(p)' = Mine(p) /\ Op(p)' = Op(p) /\ Direct(Op(p))
      BY Zenon, <3>1, SameOps DEF Windowed
    <3> QED
      BY Zenon, <3>2 DEF Accessed
  <2>3. Accessed(p) = {}
    BY Zenon, <1>8, NoneAccessed DEF DirectAccess
  <2> QED
    BY Zenon, <2>2, <2>3, OwnWrite
<1> QED
  BY Zenon, <1>4, <1>5, <1>6, <1>7, <1>8 DEF Step

\* The write that returns last lies over the other one.
LEMMA WriteSerialStep ==
  ASSUME LeastExists, Control, Fresh, Owned, WriteSerial, NEW p \in Ranks, Step(p)
  PROVE  WriteSerial'
<1>1. Types /\ scen' = scen
  BY Zenon, OthersStay DEF Control
<1>2. /\ \A r, q \in Ranks : Shared(r, q)' = Shared(r, q)
      /\ \A r \in Ranks : Writes(r)' = Writes(r)
  BY Zenon, <1>1, SameOps DEF Shared
<1>3. SUFFICES ASSUME scen'.atomic, NEW r \in Ranks, NEW q \in Ranks, r # q,
                      Writes(r)', Writes(q)', Returned(r)', Returned(q)'
               PROVE  \/ \A b \in Shared(r, q)' : file'[b] = r
                      \/ \A b \in Shared(r, q)' : file'[b] = q
  BY Zenon DEF WriteSerial
<1>4. /\ scen.atomic /\ r # q /\ Writes(r) /\ Writes(q) /\ Returned(r)' /\ Returned(q)'
      /\ Shared(r, q)' = Shared(r, q)
  BY Zenon, <1>3, <1>1, <1>2
<1>5. SUFFICES \/ \A b \in Shared(r, q) : file'[b] = r
               \/ \A b \in Shared(r, q) : file'[b] = q
  BY Zenon, <1>4
<1>6. ASSUME NEW s \in {r, q}, s = p
      PROVE  \A b \in Shared(r, q) : file'[b] = s
  <2>1. /\ pc'[p] = "done" /\ failed'[p] = "none" /\ Writes(p)
        /\ \A b \in Shared(r, q) : b \in Mine(p)
    BY Zenon, <1>4, <1>6 DEF Shared, Returned
  <2>2. \A b \in Mine(p) : file'[b] = p
    BY Zenon, <1>4, <2>1, Finish
  <2> QED
    BY Zenon, <1>6, <2>1, <2>2
<1>7. CASE r # p /\ q # p
  <2>1. Returned(r) /\ Returned(q)
    BY Zenon, <1>1, <1>4, <1>7, Other DEF Returned
  <2>2. ASSUME NEW b \in Shared(r, q) PROVE file'[b] = file[b]
    <3>1. b \in Bytes
      BY Zenon, <1>1, OpFacts DEF Shared
    <3>2. ~ (b \in Mine(p) /\ Writes(p))
      BY Zenon, <1>7 DEF Shared, Writers, Writes
    <3> QED
      BY Zenon, <3>1, <3>2, Touch
  <2>3. \/ \A b \in Shared(r, q) : file[b] = r
        \/ \A b \in Shared(r, q) : file[b] = q
    BY Zenon, <1>4, <2>1 DEF WriteSerial
  <2> QED
    BY Zenon, <2>2, <2>3
<1> QED
  BY Zenon, <1>6, <1>7

\* In atomic mode a write that shares a byte with an access under way stands before
\* its lock or has returned.
LEMMA Outside ==
  ASSUME LeastExists, Control, Apart(scen), scen.atomic, NEW r \in Ranks, NEW q \in Ranks,
         r # q, NEW b \in Mine(r), b \in Mine(q), Locks(r),
         pc[r] \notin {"lockall", "done"}
  PROVE  Locks(q) /\ pc[q] \in {"lockall", "done"}
<1>1. Types /\ HeldOK(r) /\ HeldOK(q) /\ Exclusive
  BY Zenon DEF Control
<1>2. b \in Whole(r) /\ b \in Whole(q)
  BY Zenon, <1>1, OpFacts
<1>3. Locks(q)
  <2>1. SUFFICES ASSUME ~ Locks(q) PROVE FALSE
    OBVIOUS
  <2>2. BytesOf(scen.ops[q]) \cap RangeOf(scen.ops[r]) = {}
    BY Zenon, <2>1 DEF Apart, Locks, Op
  <2> QED
    BY Zenon, <1>2, <2>2 DEF Mine, Whole, Op
<1>4. b \in held[r]
  BY Zenon, <1>1, <1>2 DEF HeldOK
<1>5. pc[q] \notin {"lockall", "done"} => b \in held[q]
  BY Zenon, <1>1, <1>2, <1>3 DEF HeldOK
<1> QED
  BY Zenon, <1>1, <1>3, <1>4, <1>5 DEF Exclusive

\* What a reader finds of a write: nothing before it has begun, all after it.
LEMMA Finds ==
  ASSUME LeastExists, Control, Kept, NotBegun, NEW r \in Ranks, NEW q \in Ranks,
         Writes(q), failed[q] = "none", NEW b \in Seen(r, q)
  PROVE  /\ pc[q] \in {"lockall", "direct"} => file[b] # q
         /\ pc[q] = "done" => file[b] = q
<1>1. Types
  BY Zenon DEF Control
<1>2. b \in Mine(q) /\ Writers(b) = {q} /\ b \in Bytes
  BY Zenon, <1>1, OpFacts DEF Seen
<1>3. ASSUME pc[q] = "done" PROVE file[b] = q
  <2>1. b \in Accessed(q)
    BY Zenon, <1>2, <1>3, AllAccessed
  <2> QED
    BY Zenon, <1>2, <2>1 DEF Kept
<1> QED
  BY Zenon, <1>2, <1>3 DEF NotBegun

\* A write that returns has met no read under way.
LEMMA ReadSerialOther ==
  ASSUME LeastExists, Control, Apart(scen), scen.atomic, NEW q \in Ranks, Step(q),
         NEW r \in Ranks, r # q, pc[r] # "done", pc'[q] = "done"
  PROVE  AllOf(r, q)
<1>1. SUFFICES ASSUME NEW b \in Seen(r, q) \cap DOMAIN got[r] PROVE FALSE
  BY Zenon DEF AllOf
<1>2. Types /\ PlaceOK(r) /\ GotOK(r)
  BY Zenon DEF Control
<1>3. pc[r] \notin {"lockall", "direct"}
  BY Zenon, <1>1, <1>2 DEF GotOK
<1>4. Locks(r)
  BY Zenon, <1>2, <1>3 DEF PlaceOK
<1>5. b \in Mine(r) /\ b \in Mine(q)
  BY Zenon, <1>1 DEF Seen
<1>6. pc[q] \in {"lockall", "done"}
  BY Zenon, <1>3, <1>4, <1>5, Outside
<1>7. pc[q] # "done"
  BY Zenon, <1>2, FailedStep
<1>8. LockAll(q)
  BY <1>2, <1>6, <1>7, PcFacts DEF Step
<1> QED
  BY <1>2, <1>8, PcFacts

\* A read without window and lock meets only writes without window and lock.
LEMMA ReadSerialDirect ==
  ASSUME LeastExists, Control, Kept, NotBegun, Apart(scen), scen.atomic,
         NEW p \in Ranks, Step(p), DirectAccess(p), Op(p).kind = "read",
         got' = [got EXCEPT ![p] = [b \in Mine(p) |-> file[b]]],
         NEW q \in Ranks, p # q, Writes(q), failed[q] = "none"
  PROVE  /\ pc'[p] = "done"
         /\ \/ \A b \in Seen(p, q) : got'[p][b] = q
            \/ \A b \in Seen(p, q) : got'[p][b] # q
<1>1. Types /\ PlaceOK(p) /\ HeldOK(p) /\ PlaceOK(q)
  BY Zenon DEF Control
<1>2. ~ Locks(p) /\ held[p] = {}
  <2>1. Direct(Op(p))
    BY Zenon, <1>1 DEF DirectAccess, PlaceOK, Windowed
  <2>2. Op(p).kind # "contig"
    OBVIOUS
  <2>3. ~ Locks(p)
    BY Zenon, <2>1, <2>2 DEF Locks, Unlocked
  <2> QED
    BY Zenon, <1>1, <2>3 DEF HeldOK
<1>3. pc'[p] = "done"
  BY Zenon, <1>1, <1>2, PcFacts
<1>4. \A b \in Seen(p, q) : got'[p][b] = file[b] /\ b \in Mine(p) /\ b \in Mine(q)
  BY Zenon, <1>1 DEF Seen, Types
<1>5. CASE Locks(q)
  <2>1. BytesOf(scen.ops[p]) \cap RangeOf(scen.ops[q]) = {}
    BY Zenon, <1>2, <1>5 DEF Apart, Locks, Op
  <2>2. Mine(p) \cap Mine(q) = {}
    <3>1. Mine(q) \subseteq Whole(q)
      BY Zenon, <1>1, OpFacts
    <3> QED
      BY Zenon, <2>1, <3>1 DEF Mine, Whole, Op
  <2> QED
    BY Zenon, <1>3, <1>4, <2>2
<1>6. CASE ~ Locks(q)
  <2>1. pc[q] \in {"direct", "done"}
    BY Zenon, <1>1, <1>6 DEF PlaceOK
  <2>2. /\ pc[q] = "direct" => \A b \in Seen(p, q) : file[b] # q
        /\ pc[q] = "done" => \A b \in Seen(p, q) : file[b] = q
    BY Zenon, Finds
  <2> QED
    BY Zenon, <1>3, <1>4, <2>1, <2>2
<1> QED
  BY Zenon, <1>5, <1>6

\* A read of a window, under the lock of the whole range.
LEMMA ReadSerialWindow ==
  ASSUME LeastExists, Control, Kept, NotBegun, ReadSerial, Apart(scen), scen.atomic,
         NEW p \in Ranks, ReadWindow(p), Op(p).kind = "read",
         NEW q \in Ranks, p # q, Writes(q), failed[q] = "none"
  PROVE  \/ AllOf(p, q)' /\ pc[q] \notin {"lockall", "direct"}
         \/ NoneOf(p, q)' /\ pc[q] # "done"
         \/ AllOf(p, q)' /\ NoneOf(p, q)'
<1>1. Types /\ PlaceOK(p)
  BY Zenon DEF Control
<1> DEFINE D == DOMAIN got[p] \cup (Span(win[p]) \cap Mine(p))
           g == [b \in D |-> IF b \in DOMAIN got[p] THEN got[p][b] ELSE file[b]]
<1>2. pc[p] = "read" /\ scen' = scen /\ got' = [got EXCEPT ![p] = g]
  BY Zenon, "write" # "read" DEF ReadWindow
<1>3. got'[p] = g
  BY Zenon, <1>1, <1>2 DEF Types
<1>4. Seen(p, q)' = Seen(p, q)
  BY Zenon, <1>2, SameOps DEF Seen
<1>5. \A b \in DOMAIN got'[p] :
         \/ b \in DOMAIN got[p] /\ got'[p][b] = got[p][b]
         \/ got'[p][b] = file[b]
  BY Zenon, <1>3
<1> HIDE DEF g, D
<1>6. CASE Seen(p, q) = {}
  BY Zenon, <1>4, <1>6 DEF AllOf, NoneOf
<1>7. CASE Seen(p, q) # {}
  <2>1. pc[q] \in {"lockall", "done"}
    <3>1. PICK b \in Seen(p, q) : TRUE
      BY Zenon, <1>7
    <3>2. b \in Mine(p) /\ b \in Mine(q)
      BY Zenon DEF Seen
    <3>3. pc[p] \notin {"lockall", "done", "direct"}
      BY <1>2
    <3>4. Locks(p)
      BY Zenon, <1>1, <3>3 DEF PlaceOK
    <3> QED
      BY Zenon, <3>2, <3>3, <3>4, Outside
  <2>2. pc[p] # "done" /\ ~ Writes(p)
    BY Zenon, <1>2, "read" # "done" DEF Writes
  <2>3. CASE pc[q] = "lockall"
    <3>1. NoneOf(p, q)
      BY Zenon, <2>2, <2>3 DEF ReadSerial
    <3>2. \A b \in Seen(p, q) : file[b] # q
      BY Zenon, <2>3, Finds
    <3>3. NoneOf(p, q)'
      BY Zenon, <1>4, <1>5, <3>1, <3>2 DEF NoneOf
    <3> QED
      BY Zenon, <2>3, <3>3, "lockall" # "done"
  <2>4. CASE pc[q] = "done"
    <3>1. AllOf(p, q)
      BY Zenon, <2>2, <2>4 DEF ReadSerial
    <3>2. \A b \in Seen(p, q) : file[b] = q
      BY Zenon, <2>4, Finds
    <3>3. AllOf(p, q)'
      BY Zenon, <1>4, <1>5, <3>1, <3>2 DEF AllOf
    <3> QED
      BY Zenon, <2>4, <3>3, "lockall" # "done", "direct" # "done"
  <2> QED
    BY Zenon, <2>1, <2>3, <2>4
<1> QED
  BY Zenon, <1>6, <1>7

\* A read has all of a write or nothing of it.
LEMMA ReadSerialStep ==
  ASSUME LeastExists, Control, Kept, NotBegun, ReadSerial, Apart(scen),
         NEW p \in Ranks, Step(p)
  PROVE  ReadSerial'
<1>1. Types /\ scen' = scen
  BY Zenon, OthersStay DEF Control
<1>2. /\ \A r, q \in Ranks : Seen(r, q)' = Seen(r, q)
      /\ \A r \in Ranks : Writes(r)' = Writes(r)
  BY Zenon, <1>1, SameOps DEF Seen
<1>3. SUFFICES ASSUME scen.atomic, NEW r \in Ranks, NEW q \in Ranks, r # q,
                      ~ Writes(r), Writes(q), failed'[q] = "none"
               PROVE  /\ (pc'[r] # "done" /\ pc'[q] \in {"lockall", "direct"}) => NoneOf(r, q)'
                      /\ (pc'[r] # "done" /\ pc'[q] = "done") => AllOf(r, q)'
                      /\ AllOf(r, q)' \/ NoneOf(r, q)'
  BY Zenon, <1>1, <1>2 DEF ReadSerial
<1>4. failed[q] = "none"
  BY Zenon, <1>1, <1>3, Other, FailedStep
<1>5. /\ (pc[r] # "done" /\ pc[q] \in {"lockall", "direct"}) => NoneOf(r, q)
      /\ (pc[r] # "done" /\ pc[q] = "done") => AllOf(r, q)
      /\ AllOf(r, q) \/ NoneOf(r, q)
  BY Zenon, <1>3, <1>4 DEF ReadSerial
<1>6. got'[r] = got[r] => AllOf(r, q)' = AllOf(r, q) /\ NoneOf(r, q)' = NoneOf(r, q)
  BY Zenon, <1>2 DEF AllOf, NoneOf
<1>7. CASE r # p /\ q # p
  <2>1. got'[r] = got[r] /\ pc'[r] = pc[r] /\ pc'[q] = pc[q]
    BY Zenon, <1>1, <1>7, Other
  <2> QED
    BY Zenon, <1>5, <1>6, <2>1
<1>8. CASE q = p
  <2>1. got'[r] = got[r] /\ pc'[r] = pc[r]
    BY Zenon, <1>1, <1>3, <1>8, Other
  <2>2. pc'[q] \in {"lockall", "direct"} => pc[q] \in {"lockall", "direct"}
    <3>1. After(p) \in {"open", "unlockall", "done"}
      BY Zenon, AfterFacts
    <3> QED
      BY <1>1, <1>8, <3>1, PcFacts DEF Step
  <2>3. (pc'[r] # "done" /\ pc'[q] = "done") => AllOf(r, q)
    BY Zenon, <1>3, <1>8, <2>1, ReadSerialOther
  <2> QED
    BY Zenon, <1>5, <1>6, <2>1, <2>2, <2>3
<1>9. CASE r = p
  <2>1. pc[r] # "done" /\ pc'[q] = pc[q]
    BY Zenon, <1>1, <1>3, <1>9, Other, FailedStep
  <2>2. CASE got'[r] = got[r]
    BY Zenon, <1>5, <1>6, <2>1, <2>2
  <2>3. CASE ReadWindow(p) /\ Op(p).kind = "read"
    <3>1. \/ AllOf(r, q)' /\ pc[q] \notin {"lockall", "direct"}
          \/ NoneOf(r, q)' /\ pc[q] # "done"
          \/ AllOf(r, q)' /\ NoneOf(r, q)'
      BY Zenon, <1>3, <1>4, <1>9, <2>3, ReadSerialWindow
    <3> QED
      BY Zenon, <2>1, <3>1
  <2>4. CASE /\ DirectAccess(p) /\ Op(p).kind = "read"
             /\ got' = [got EXCEPT ![p] = [b \in Mine(p) |-> file[b]]]
    <3>1. /\ pc'[p] = "done"
          /\ \/ \A b \in Seen(p, q) : got'[p][b] = q
             \/ \A b \in Seen(p, q) : got'[p][b] # q
      BY Zenon, <1>3, <1>4, <1>9, <2>4, ReadSerialDirect
    <3> QED
      BY Zenon, <1>2, <1>9, <3>1 DEF AllOf, NoneOf
  <2>5. got' = got \/ (ReadWindow(p) /\ Op(p).kind = "read") \/
        (/\ DirectAccess(p) /\ Op(p).kind = "read"
         /\ got' = [got EXCEPT ![p] = [b \in Mine(p) |-> file[b]]])
    BY Zenon DEF Step, LockAll, DirectAccess, OpenWindow, ReadWindow, ReadFails, WriteWindow,
       WriteFails, Unlock
  <2> QED
    BY Zenon, <2>2, <2>3, <2>4, <2>5
<1> QED
  BY Zenon, <1>7, <1>8, <1>9

(***************************************************************************)
(* The invariant                                                           *)
(***************************************************************************)

\* The initial state.
LEMMA InitControl ==
  ASSUME LeastExists, Init
  PROVE  Control
<1>1. /\ scen \in Scenarios /\ max_bufsize \in BufferSizes
      /\ file = [b \in Bytes |-> 0] /\ pc = [r \in Ranks |-> StartPc(scen, r)]
      /\ win = [r \in Ranks |-> NoWindow]
      /\ buf = [r \in Ranks |-> << >>] /\ got = [r \in Ranks |-> << >>]
      /\ held = [r \in Ranks |-> {}] /\ failed = [r \in Ranks |-> "none"]
  BY Zenon DEF Init
<1>2. << >> \in Contents /\ DOMAIN << >> = {}
  <2>1. DOMAIN << >> = {} /\ << >> \in [{} -> Ranks \cup {0}]
    OBVIOUS
  <2>2. {} \in SUBSET Bytes
    BY Zenon
  <2> QED
    BY Zenon, <2>1, <2>2, ContentsFacts
<1>3. NoWindow \in Window /\ EndOf(NoWindow) = 0 /\ Span(NoWindow) = {} /\ NoWindow.len = 0
  BY DEF NoWindow, Window, EndOf, Span
<1>4. ASSUME NEW r \in Ranks
      PROVE  /\ pc[r] = IF Unlocked(scen, Op(r)) THEN "direct"
                        ELSE IF scen.atomic THEN "lockall" ELSE "open"
             /\ win[r] = NoWindow /\ buf[r] = << >> /\ got[r] = << >>
             /\ held[r] = {} /\ failed[r] = "none"
  BY Zenon, <1>1 DEF StartPc, Op
<1>5. Types
  <2>1. pc \in [Ranks -> Place]
    <3>1. \A r \in Ranks : StartPc(scen, r) \in Place
      BY Zenon DEF StartPc, Place
    <3> QED
      BY Zenon, <1>1, <3>1
  <2>2. file \in [Bytes -> Ranks \cup {0}] /\ failed \in [Ranks -> {"none", "read", "write"}]
    BY Zenon, <1>1
  <2>3. /\ win \in [Ranks -> Window] /\ held \in [Ranks -> SUBSET Bytes]
        /\ buf \in [Ranks -> Contents] /\ got \in [Ranks -> Contents]
    BY Zenon, <1>1, <1>2, <1>3
  <2> QED
    BY Zenon, <1>1, <2>1, <2>2, <2>3 DEF Types
<1>6. Exclusive
  BY Zenon, <1>4 DEF Exclusive
<1>7. ASSUME NEW r \in Ranks
      PROVE  PlaceOK(r) /\ HeldOK(r) /\ WindowOK(r) /\ GotOK(r)
  <2>1. /\ pc[r] \in {"direct", "lockall", "open"}
        /\ pc[r] = "direct" <=> ~ Locks(r)
        /\ pc[r] = "lockall" => scen.atomic
        /\ pc[r] = "open" => ~ Direct(Op(r)) /\ ~ scen.atomic
        /\ pc[r] = "direct" => Direct(Op(r))
    BY <1>4 DEF Locks, Unlocked
  <2>2. Past(r, 0) # {}
    BY Zenon, <1>5, OpFacts
  <2>3. PlaceOK(r)
    BY <1>4, <2>1 DEF PlaceOK, Windowed
  <2>4. HeldOK(r)
    BY <1>4, <2>1 DEF HeldOK
  <2>5. WindowOK(r)
    <3>1. win[r].len <= max_bufsize
      BY <1>1, <1>3, <1>4, DataSievingAssumption
    <3>2. pc[r] \notin {"read", "write", "unlockall", "done"}
      BY <2>1
    <3> QED
      BY Zenon, <1>3, <1>4, <2>2, <3>1, <3>2 DEF WindowOK
  <2>6. GotOK(r)
    <3>1. Accessed(r) = {}
      <4>1. CASE Direct(Op(r))
        <5>1. pc[r] \notin {"unlockall", "done"}
          BY <2>1
        <5> QED
          BY Zenon, <4>1, <5>1 DEF Accessed
      <4>2. CASE ~ Direct(Op(r))
        <5>1. Progress(r) = 0
          BY <1>3, <1>4, <2>1 DEF Progress
        <5>2. \A b \in Mine(r) : b \in Nat
          BY Zenon, <1>5, OpFacts
        <5>3. \A b \in Mine(r) : ~ (b < 0)
          BY <5>2
        <5> QED
          BY Zenon, <4>2, <5>1, <5>3 DEF Accessed
      <4> QED
        BY Zenon, <4>1, <4>2
    <3> QED
      BY Zenon, <1>2, <1>4, <3>1 DEF GotOK
  <2> QED
    BY Zenon, <2>3, <2>4, <2>5, <2>6
<1> QED
  BY Zenon, <1>5, <1>6, <1>7 DEF Control

LEMMA InitData ==
  ASSUME LeastExists, Init
  PROVE  DataOK
<1>1. Control
  BY Zenon, InitControl
<1>2. /\ file = [b \in Bytes |-> 0]
      /\ \A r \in Ranks : pc[r] = StartPc(scen, r) /\ got[r] = << >>
  BY Zenon DEF Init
<1>3. \A r \in Ranks : pc[r] \in {"direct", "lockall", "open"}
  BY Zenon, <1>2 DEF StartPc
<1>4. \A r \in Ranks : pc[r] \notin {"write", "done"}
  BY <1>3
<1>5. \A r \in Ranks : Accessed(r) = {}
  <2> TAKE r \in Ranks
  <2>1. CASE pc[r] \in {"lockall", "direct"}
    BY Zenon, <1>1, <2>1, NoneAccessed
  <2>2. CASE pc[r] = "open"
    <3>1. PlaceOK(r) /\ Types
      BY Zenon, <1>1 DEF Control
    <3>2. ~ Direct(Op(r))
      BY <2>2, <3>1 DEF PlaceOK
    <3>3. Progress(r) = 0
      <4>1. win[r] = NoWindow
        BY Zenon DEF Init
      <4> QED
        BY <2>2, <4>1 DEF Progress, NoWindow, EndOf
    <3>4. \A b \in Mine(r) : b \in Nat
      BY Zenon, <3>1, OpFacts
    <3>5. \A b \in Mine(r) : ~ (b < 0)
      BY <3>4
    <3> QED
      BY Zenon, <3>2, <3>3, <3>5 DEF Accessed
  <2> QED
    BY Zenon, <1>3, <2>1, <2>2
<1>6. Fresh
  BY Zenon, <1>4 DEF Fresh
<1>7. Kept /\ Owned
  BY Zenon, <1>5 DEF Kept, Owned
<1>8. NotBegun
  <2>1. \A r \in Ranks : r # 0
    BY DataSievingAssumption
  <2> QED
    BY Zenon, <1>2, <2>1 DEF NotBegun
<1>9. WriteSerial
  BY Zenon, <1>4 DEF WriteSerial, Returned
<1>10. ReadSerial
  <2>1. \A r \in Ranks : DOMAIN got[r] = {}
    <3>1. DOMAIN << >> = {}
      OBVIOUS
    <3> QED
      BY Zenon, <1>2, <3>1
  <2> QED
    BY Zenon, <2>1 DEF ReadSerial, AllOf, NoneOf
<1> QED
  BY Zenon, <1>6, <1>7, <1>8, <1>9, <1>10 DEF DataOK

\* Every step keeps the invariant.
LEMMA InvStep ==
  ASSUME LeastExists, Inv, NEW p \in Ranks, Step(p)
  PROVE  Inv'
<1>1. Control /\ Types /\ Control'
  BY Zenon, ControlStep DEF Inv, Control
<1>2. SUFFICES ASSUME Apart(scen)' PROVE DataOK'
  BY Zenon, <1>1 DEF Inv
<1>3. Apart(scen)
  <2>1. scen' = scen
    BY Zenon, <1>1, OthersStay
  <2> QED
    BY Zenon, <1>2, <2>1 DEF Apart
<1>4. Fresh /\ Kept /\ Owned /\ NotBegun /\ ReadSerial /\ WriteSerial
  BY Zenon, <1>3 DEF Inv, DataOK
<1>5. Fresh' /\ Kept' /\ Owned' /\ NotBegun'
  BY Zenon, <1>1, <1>3, <1>4, FreshStep, KeptStep, OwnedStep, NotBegunStep
<1>6. ReadSerial' /\ WriteSerial'
  BY Zenon, <1>1, <1>3, <1>4, ReadSerialStep, WriteSerialStep
<1> QED
  BY Zenon, <1>5, <1>6 DEF DataOK

\* So does a step that changes nothing.
LEMMA InvStutter ==
  ASSUME Inv, UNCHANGED vars
  PROVE  Inv'
<1>1. /\ scen' = scen /\ max_bufsize' = max_bufsize /\ file' = file /\ pc' = pc
      /\ win' = win /\ buf' = buf /\ held' = held /\ got' = got /\ failed' = failed
  BY Zenon DEF vars
<1>2. /\ \A r \in Ranks : Accessed(r)' = Accessed(r)
      /\ \A r \in Ranks : /\ Op(r)' = Op(r) /\ Mine(r)' = Mine(r) /\ Whole(r)' = Whole(r)
                          /\ Windowed(r)' = Windowed(r) /\ Locks(r)' = Locks(r)
                          /\ Writes(r)' = Writes(r) /\ Returned(r)' = Returned(r)
                          /\ \A e : Past(r, e)' = Past(r, e)
      /\ \A b : Writers(b)' = Writers(b)
      /\ \A r, q \in Ranks : Seen(r, q)' = Seen(r, q) /\ Shared(r, q)' = Shared(r, q)
  BY Zenon, <1>1 DEF Accessed, Progress, Op, Mine, Whole, Windowed, Locks, Writes, Returned,
     Past, Writers, Seen, Shared
<1>3. Types => Types'
  BY Zenon, <1>1 DEF Types
<1>4. \A r \in Ranks : PlaceOK(r) => PlaceOK(r)'
  BY Zenon, <1>1, <1>2 DEF PlaceOK
<1>5. \A r \in Ranks : HeldOK(r) => HeldOK(r)'
  BY Zenon, <1>1, <1>2 DEF HeldOK
<1>6. \A r \in Ranks : WindowOK(r) => WindowOK(r)'
  BY Zenon, <1>1, <1>2 DEF WindowOK
<1>7. \A r \in Ranks : GotOK(r) => GotOK(r)'
  BY Zenon, <1>1, <1>2 DEF GotOK
<1>8. Control'
  BY Zenon, <1>1, <1>3, <1>4, <1>5, <1>6, <1>7 DEF Inv, Control, Exclusive
<1>9. Apart(scen)' => Apart(scen)
  BY Zenon, <1>1 DEF Apart
<1>10. Fresh => Fresh'
  BY Zenon, <1>1, <1>2 DEF Fresh
<1>11. Kept => Kept'
  BY Zenon, <1>1, <1>2 DEF Kept
<1>12. Owned => Owned'
  BY Zenon, <1>1, <1>2 DEF Owned
<1>13. NotBegun => NotBegun'
  BY Zenon, <1>1, <1>2 DEF NotBegun
<1>14. ReadSerial => ReadSerial'
  <2>1. SUFFICES ASSUME ReadSerial, scen.atomic, NEW r \in Ranks, NEW q \in Ranks, r # q,
                        ~ Writes(r), Writes(q), failed[q] = "none"
                 PROVE  /\ (pc[r] # "done" /\ pc[q] \in {"lockall", "direct"}) => NoneOf(r, q)'
                        /\ (pc[r] # "done" /\ pc[q] = "done") => AllOf(r, q)'
                        /\ AllOf(r, q)' \/ NoneOf(r, q)'
    BY Zenon, <1>1, <1>2 DEF ReadSerial
  <2>2. AllOf(r, q)' = AllOf(r, q) /\ NoneOf(r, q)' = NoneOf(r, q)
    BY Zenon, <1>1, <1>2 DEF AllOf, NoneOf
  <2>3. /\ (pc[r] # "done" /\ pc[q] \in {"lockall", "direct"}) => NoneOf(r, q)
        /\ (pc[r] # "done" /\ pc[q] = "done") => AllOf(r, q)
        /\ AllOf(r, q) \/ NoneOf(r, q)
    BY Zenon, <2>1 DEF ReadSerial
  <2> QED
    BY Zenon, <2>2, <2>3
<1>15. WriteSerial => WriteSerial'
  <2>1. SUFFICES ASSUME WriteSerial, scen'.atomic, NEW r \in Ranks, NEW q \in Ranks, r # q,
                        Writes(r)', Writes(q)', Returned(r)', Returned(q)'
                 PROVE  \/ \A b \in Shared(r, q)' : file'[b] = r
                        \/ \A b \in Shared(r, q)' : file'[b] = q
    BY Zenon DEF WriteSerial
  <2>2. /\ scen.atomic /\ Writes(r) /\ Writes(q) /\ Returned(r) /\ Returned(q)
        /\ Shared(r, q)' = Shared(r, q) /\ file' = file
    BY Zenon, <1>1, <1>2, <2>1
  <2>3. \/ \A b \in Shared(r, q) : file[b] = r
        \/ \A b \in Shared(r, q) : file[b] = q
    BY Zenon, <2>1, <2>2 DEF WriteSerial
  <2> QED
    BY Zenon, <2>2, <2>3
<1> QED
  BY Zenon, <1>8, <1>9, <1>10, <1>11, <1>12, <1>13, <1>14, <1>15 DEF Inv, DataOK

(***************************************************************************)
(* Theorems                                                                *)
(***************************************************************************)
INSTANCE WellFoundedInduction

\* The order of the natural numbers is well founded.
LEMMA LeastExistsHolds == LeastExists
<1>1. SUFFICES ASSUME NEW I \in SUBSET Nat, I # {}
               PROVE  \E i \in I : \A j \in I : i <= j
  BY Zenon DEF LeastExists
<1> DEFINE L == {ss \in Nat \X Nat : ss[1] < ss[2]}
<1>2. IsWellFoundedOn(L, Nat)
  BY Zenon, NatLessThanWellFounded DEF OpToRel
<1>3. ASSUME NEW i \in Nat, NEW j \in Nat, j < i
      PROVE  <<j, i>> \in L
  BY <1>3
<1> HIDE DEF L
<1>4. PICK i \in I : \A j \in I : ~ (<<j, i>> \in L)
  BY Zenon, <1>1, <1>2, WFMin
<1>5. ASSUME NEW j \in I PROVE i <= j
  <2>1. i \in Nat /\ j \in Nat
    OBVIOUS
  <2>2. ~ (j < i)
    BY Zenon, <1>3, <1>4, <2>1
  <2> QED
    BY <2>1, <2>2
<1> QED
  BY Zenon, <1>5

\* The steps of the accesses of ad_write_str.c, ad_read_str.c and mpi-io/write.c
\* preserve the invariant: where a process may be, what it has locked, which window
\* is open and what it has read; and, for requests of which none without a lock lies
\* in the range of one with a lock, what is in the file.
THEOREM Invariance == Spec => []Inv
<1>1. Init => Inv
  BY Zenon, LeastExistsHolds, InitControl, InitData DEF Inv
<1>2. Inv /\ [Next]_vars => Inv'
  <2>1. ASSUME Inv, Next PROVE Inv'
    BY Zenon, <2>1, LeastExistsHolds, InvStep DEF Next
  <2>2. ASSUME Inv, UNCHANGED vars PROVE Inv'
    BY Zenon, <2>2, InvStutter
  <2> QED
    BY Zenon, <2>1, <2>2
<1> QED
  BY <1>1, <1>2, PTL DEF Spec

\* At most max_bufsize bytes are read at once; the window of a write, which is written
\* back, lies in the file (the part a read adds to a piece may pass the end of the
\* request), and a read fills only its own bytes.
THEOREM TypeCorrect == Spec => []TypeOK
<1>1. Inv => TypeOK
  <2>1. SUFFICES ASSUME Types, \A r \in Ranks : WindowOK(r) /\ GotOK(r) PROVE TypeOK
    BY Zenon DEF Inv, Control
  <2>2. \A r \in Ranks : DOMAIN buf[r] \subseteq Bytes
    BY Zenon, <2>1, ContentsFacts DEF Types
  <2>3. \A r \in Ranks : win[r].off \in Nat /\ win[r].len \in Nat
    BY <2>1 DEF Types, Window
  <2> QED
    BY Zenon, <2>1, <2>2, <2>3 DEF TypeOK, Types, Place, WindowOK, GotOK
<1> QED
  BY <1>1, Invariance, PTL

\* An access that is over holds no lock, unless it left at the exit after a failed
\* read of a window or, in atomic mode, a failed write of one (ad_write_str.c:18,
\* 31, 46, 60).
THEOREM NoLockLeft == Spec => []LocksReleased
<1>1. Inv => LocksReleased
  BY Zenon DEF Inv, Control, HeldOK, LocksReleased
<1> QED
  BY <1>1, Invariance, PTL

\* What a returned write has written and nobody else writes is in the file, and no
\* read-modify-write of another window takes it back, if no access without a lock
\* lies in the range of one that locks (ad_write_str.c:28).
THEOREM ReturnedWritesKept == Spec => [](Apart(scen) => ReturnedKept)
<1>1. Inv => (Apart(scen) => ReturnedKept)
  <2>1. SUFFICES ASSUME Inv, Apart(scen), NEW r \in Ranks, Returned(r), NEW b \in Mine(r),
                        Writers(b) = {r}
                 PROVE  file[b] = r
    BY Zenon DEF ReturnedKept
  <2>2. Control /\ Kept
    BY Zenon, <2>1 DEF Inv, DataOK
  <2>3. pc[r] = "done" /\ failed[r] = "none"
    BY Zenon, <2>1 DEF Returned
  <2>4. CASE Writes(r)
    <3>1. b \in Accessed(r)
      BY Zenon, <2>1, <2>2, <2>3, LeastExistsHolds, AllAccessed
    <3> QED
      BY Zenon, <2>1, <2>2, <2>3, <2>4, <3>1 DEF Kept
  <2>5. CASE ~ Writes(r)
    BY Zenon, <2>1, <2>5 DEF Writes, Writers
  <2> QED
    BY Zenon, <2>4, <2>5
<1> QED
  BY <1>1, Invariance, PTL

\* In atomic mode accesses are serial under the same condition: of two overlapping
\* writes one lies wholly over the other, and a read sees all of a write or nothing
\* (ad_write_str.c:343, ad_read_str.c:271, mpi-io/write.c:116).
THEOREM AtomicIsSerial == Spec => [](Apart(scen) => Serial)
<1>1. Inv => (Apart(scen) => Serial)
  <2> DEFINE both(r, q) == {b \in Mine(r) \cap Mine(q) :
                               Writers(b) = {r, q} \/ Writers(b) = {q}}
  <2>1. SUFFICES ASSUME Inv, Apart(scen), scen.atomic, NEW r \in Ranks, NEW q \in Ranks,
                        r # q, Returned(r), Returned(q)
                 PROVE  IF Op(r).kind = "read"
                        THEN \/ \A b \in both(r, q) : got[r][b] = q
                             \/ \A b \in both(r, q) : got[r][b] # q
                        ELSE Op(q).kind # "read" =>
                             \/ \A b \in both(r, q) : file[b] = r
                             \/ \A b \in both(r, q) : file[b] = q
    BY Zenon DEF Serial
  <2>2. Control /\ ReadSerial /\ WriteSerial /\ GotOK(r)
    BY Zenon, <2>1 DEF Inv, DataOK, Control
  <2>3. pc[r] = "done" /\ failed[r] = "none" /\ failed[q] = "none"
    BY Zenon, <2>1 DEF Returned
  <2>4. CASE Op(r).kind = "read" /\ Op(q).kind # "read"
    <3>1. \A b \in both(r, q) : b \in Seen(r, q)
      BY Zenon, <2>4 DEF Seen, Writers
    <3>2. \A b \in both(r, q) : b \in DOMAIN got[r]
      <4>1. Mine(r) = Accessed(r)
        BY Zenon, <2>2, <2>3, LeastExistsHolds, AllAccessed
      <4> QED
        BY Zenon, <2>2, <2>3, <2>4, <4>1 DEF GotOK
    <3>3. \/ \A b \in Seen(r, q) \cap DOMAIN got[r] : got[r][b] = q
          \/ \A b \in Seen(r, q) \cap DOMAIN got[r] : got[r][b] # q
      BY Zenon, <2>1, <2>2, <2>3, <2>4 DEF ReadSerial, AllOf, NoneOf, Writes
    <3> HIDE DEF both
    <3> QED
      BY Zenon, <2>4, <3>1, <3>2, <3>3
  <2>5. CASE Op(r).kind = "read" /\ Op(q).kind = "read"
    <3>1. both(r, q) = {}
      BY Zenon, <2>5 DEF Writers
    <3> HIDE DEF both
    <3> QED
      BY Zenon, <2>5, <3>1
  <2>6. CASE Op(r).kind # "read" /\ Op(q).kind # "read"
    <3>1. \A b \in both(r, q) : b \in Shared(r, q)
      BY Zenon, <2>1, <2>6 DEF Shared, Writers
    <3>2. \/ \A b \in Shared(r, q) : file[b] = r
          \/ \A b \in Shared(r, q) : file[b] = q
      BY Zenon, <2>1, <2>2, <2>6 DEF WriteSerial, Writes
    <3> HIDE DEF both
    <3> QED
      BY Zenon, <2>6, <3>1, <3>2
  <2> HIDE DEF both
  <2> QED
    BY Zenon, <2>4, <2>5, <2>6
<1> QED
  BY <1>1, Invariance, PTL
=============================================================================
