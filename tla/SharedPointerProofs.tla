------------------------- MODULE SharedPointerProofs -------------------------
(***************************************************************************)
(* The safety properties of the shared file pointer, for any number of     *)
(* ranks, any program of collective calls and any interleaving of the      *)
(* ranks.                                                                  *)
(*                                                                         *)
(* The ranks make the same collective calls, but not at the same time.     *)
(* What holds their accesses in order is the token of the ordered          *)
(* accesses, and the calls no rank leaves before all have come to them:    *)
(* the seeks, the close, and the ordered accesses whose transfer gathers   *)
(* the offsets of all ranks (collective buffering not disabled; an ordered *)
(* access that does not gather passes the token and lets its ranks go).    *)
(* The proof follows, for every rank, the set of calls whose token it has  *)
(* received, whose token it has sent, whose barrier it has entered and     *)
(* which it has left; the counters token, bar and gen of the specification *)
(* are the sizes of these sets.                                            *)
(***************************************************************************)
EXTENDS SharedPointer, TLAPS

\* A split collective is active after the first n calls of program P: a begin
\* with no end since.
SplitActive(P, n) ==
    \E i \in 1 .. n : /\ P[i].op \in Begins
                      /\ \A j \in i + 1 .. n : P[j].op # "ordered_end"

\* In call k of program P the ranks wait for a token or for each other.  In the end
\* of a split collective they do not, nor in a begin that is refused.
Synchronises(P, k) ==
    /\ P[k].op # "ordered_end"
    /\ P[k].op \in Begins => ~ SplitActive(P, k - 1)

\* The synchronising calls with an operation of O among the first n of P,
\* without the last one as long as it is pending.
Calls(P, n, pending, O) ==
    {k \in 1 .. n : /\ P[k].op \in O
                    /\ Synchronises(P, k)
                    /\ k = n => ~ pending}

AnyOp == Ordered \cup {"seek_shared", "close"}

\* The operations no rank leaves before all have come to them.
Meeting == Gathering \cup {"seek_shared", "close"}

\* Rank p is in a synchronising call and has not come to its barrier; rank p is
\* in none; rank 0 is in a seek and has not set the pointer.
BeforeBarrier(p) ==
    call[p].op \in AnyOp /\ pc[p] \notin {"coll", "barrier", "closed"}

Outside(p) == call[p].op \notin AnyOp \/ pc[p] = "closed"

Unset == call[0].op = "seek_shared" /\ pc[0] \notin {"setunlock", "barrier"}

\* The calls whose barrier rank p has entered, which it has left, whose token it
\* has received, whose token it has sent; the seeks that have set the pointer.
Entered(p) == Calls(prog, pos[p], BeforeBarrier(p), Meeting)

Departed(p) == Calls(prog, pos[p], ~ Outside(p), Meeting)

Received(p) == Calls(prog, pos[p], pc[p] = "recv", Ordered)

Sent(p) == Calls(prog, pos[p], BeforeBarrier(p), Ordered)

SeeksSet == Calls(prog, pos[0], Unset, {"seek_shared"})

Getting == {"get", "lockfirst", "read", "readfirst", "write", "unlock", "giveup"}

Setting == {"set", "setwrite", "setunlock"}

Locked == {"read", "readfirst", "write", "unlock", "giveup", "setwrite",
           "setunlock"}

\* The call records, and where a rank may be in which call.
SeekOfRank0 == [op : {"seek_shared"}, incr : {0}, offset : Int]

CallType ==
         {Idle}
    \cup [op : Ordered \cup {"shared"}, incr : Nat]
    \cup [op : {"seek_shared", "close"}, incr : {0}]
    \cup SeekOfRank0

CallOK(p) ==
    /\ call[p].op = "none" <=> pc[p] = "idle"
    /\ call[p].op = "shared" => pc[p] \in Getting
    /\ call[p].op \in Ordered => pc[p] \in Getting \cup {"recv", "send", "coll", "failed"}
    /\ call[p].op = "seek_shared" =>
         \/ pc[p] = "barrier"
         \/ /\ p = 0 /\ pc[p] \in Getting \cup Setting \cup {"failed"}
            /\ call[p] \in SeekOfRank0
            /\ pc[p] \in Setting => call[p].offset \in Nat
    /\ call[p].op = "close" => pc[p] \in {"barrier", "closed"}
    /\ pc[p] = "write" => call[p].incr # 0

\* A rank in a collective call is in the call its position in the program says,
\* and the file's mark is the one the program leads to.
PlaceOK(p) ==
    /\ pos[p] \in 0 .. Len(prog)
    /\ split[p] = 1 <=> SplitActive(prog, pos[p])
    /\ call[p].op \in AnyOp =>
         /\ pos[p] # 0
         /\ prog[pos[p]].op = call[p].op
         /\ Synchronises(prog, pos[p])
    /\ (pos[p] # 0 /\ prog[pos[p]].op = "close") => call[p].op = "close"

CloseIsLast == \A k \in 1 .. Len(prog) : prog[k].op = "close" => k = Len(prog)

Control ==
    /\ TypeOK
    /\ pos \in [Rank -> Nat]
    /\ call \in [Rank -> CallType]
    /\ CloseIsLast
    /\ \A p \in Rank : CallOK(p) /\ PlaceOK(p)

Schedule ==
    /\ \A p, q \in Rank : Departed(q) \subseteq Entered(p)
    /\ \A p \in Rank : bar[p] = Cardinality(Entered(p))
    /\ \A q \in Rank \ {0} :
          token[q] = Cardinality(Sent(q - 1)) - Cardinality(Received(q))
    /\ \A p, q \in Rank : p < q => Received(q) \subseteq Sent(p)
    /\ gen = Cardinality(SeeksSet)

\* While no rank has left the close, the ranks that have the pointer file open
\* have the one its name stands for open; before it is created nothing has
\* been handed out.
NameOK ==
    /\ (\A p \in Rank : pc[p] # "closed") =>
          /\ \A p \in Rank : sfd[p] # NULL => sfd[p] = name
          /\ name = NULL => claims = {} /\ gen = 0 /\ base = 0
    /\ name # NULL => \E p \in Rank : sfd[p] = name
    /\ \A p \in Rank : pc[p] = "closed" => sfd[p] = NULL

\* The holder of the lock, and what it has read.
LockAt(p) ==
    /\ pc[p] = "lockfirst" => sfd[p] # NULL
    /\ pc[p] \in Locked => sfd[p] # NULL /\ lock[sfd[p]] = p
    /\ (~ lost /\ pc[p] = "write") => fp[p] = val[sfd[p]]

LockOK == \A p \in Rank : LockAt(p)

ClaimType == [rank : Rank, op : Ordered \cup {"shared"}, pos : Nat, off : Nat,
              len : Nat \ {0}, gen : Nat]

ClaimsOK ==
    /\ claims \subseteq ClaimType
    /\ \A c \in claims :
          /\ c.pos <= Len(prog)
          /\ c.gen <= gen
          /\ c.op \in Ordered => c.pos \in Received(c.rank)

PointerAhead == (~ lost /\ name # NULL) => base <= val[name]

Inv ==
    /\ Control /\ Schedule /\ NameOK /\ LockOK /\ ClaimsOK /\ PointerAhead
    /\ RegionsTile /\ OrderedByRank /\ SeekVisible /\ OrderedBeforeSeek

(***************************************************************************)
(* What a step leaves alone                                                 *)
(***************************************************************************)

\* A step of one rank leaves the others where they are.
LEMMA OthersStay ==
  ASSUME Control, NEW p \in Rank, Step(p)
  PROVE  /\ \A q \in Rank : q # p =>
              /\ pc'[q] = pc[q] /\ call'[q] = call[q] /\ pos'[q] = pos[q]
              /\ split'[q] = split[q] /\ fp'[q] = fp[q] /\ sfd'[q] = sfd[q]
              /\ bar'[q] = bar[q]
<1> USE DEF Goto
<1>1. /\ DOMAIN pc = Rank /\ DOMAIN call = Rank /\ DOMAIN pos = Rank
      /\ DOMAIN split = Rank /\ DOMAIN fp = Rank /\ DOMAIN sfd = Rank
      /\ DOMAIN bar = Rank
  BY Zenon DEF Control, TypeOK
<1>2. CASE SharedAccess(p)
  BY Zenon, <1>1, <1>2 DEF SharedAccess
<1>3. CASE OrderedEnter(p)
  BY Zenon, <1>1, <1>3 DEF NextCollective, OrderedEnter
<1>4. CASE OrderedEnd(p)
  BY Zenon, <1>1, <1>4 DEF NextCollective, OrderedEnd
<1>5. CASE SeekEnter(p)
  BY Zenon, <1>1, <1>5 DEF NextCollective, SeekEnter
<1>6. CASE CloseEnter(p)
  BY Zenon, <1>1, <1>6 DEF NextCollective, CloseEnter
<1>7. CASE GetOpen(p)
  BY Zenon, <1>1, <1>7 DEF OpenPointer, GetOpen
<1>8. CASE GetLock(p)
  BY Zenon, <1>1, <1>8 DEF GetLock
<1>9. CASE GetRead(p)
  BY Zenon, <1>1, <1>9 DEF GetRead
<1>10. CASE GetReadFails(p)
  BY Zenon, <1>1, <1>10 DEF GetReadFails
<1>11. CASE GetWrite(p)
  BY Zenon, <1>1, <1>11 DEF GetWrite
<1>12. CASE WriteFails(p)
  BY Zenon, <1>1, <1>12 DEF WriteFails
<1>13. CASE OpenFails(p)
  BY Zenon, <1>1, <1>13 DEF Return, OpenFails
<1>14. CASE GetDone(p)
  BY Zenon, <1>1, <1>14 DEF Unlock, Return, GetDone
<1>15. CASE GetGiveUp(p)
  BY Zenon, <1>1, <1>15 DEF Unlock, Return, GetGiveUp
<1>16. CASE SetOpen(p)
  BY Zenon, <1>1, <1>16 DEF OpenPointer, SetOpen
<1>17. CASE SetLock(p)
  BY Zenon, <1>1, <1>17 DEF SetLock
<1>18. CASE SetWrite(p)
  BY Zenon, <1>1, <1>18 DEF SetWrite
<1>19. CASE SetDone(p)
  BY Zenon, <1>1, <1>19 DEF Unlock, SetDone
<1>20. CASE TokenRecv(p)
  BY Zenon, <1>1, <1>20 DEF TokenRecv
<1>21. CASE TokenSend(p)
  BY Zenon, <1>1, <1>21 DEF PassToken, TokenSend
<1>22. CASE CollTransfer(p)
  BY Zenon, <1>1, <1>22 DEF Return, CollTransfer
<1>23. CASE SeekBarrier(p)
  BY Zenon, <1>1, <1>23 DEF Return, SeekBarrier
<1>24. CASE CloseLeave(p)
  BY Zenon, <1>1, <1>24 DEF RemoveName, CloseLeave
<1> QED
  BY Zenon, <1>2, <1>3, <1>4, <1>5, <1>6, <1>7, <1>8, <1>9, <1>10, <1>11, <1>12, <1>13, <1>14, <1>15, <1>16, <1>17, <1>18, <1>19, <1>20, <1>21, <1>22, <1>23, <1>24 DEF Step

\* The steps that touch neither the pointer file nor a rank's copy of it.
Aside(p) ==
    \/ SharedAccess(p) \/ OrderedEnter(p) \/ OrderedEnd(p) \/ SeekEnter(p)
    \/ CloseEnter(p) \/ OpenFails(p) \/ TokenRecv(p) \/ TokenSend(p)
    \/ CollTransfer(p) \/ SeekBarrier(p)

\* They leave it all alone.
LEMMA AsideFacts ==
  ASSUME Control, NEW p \in Rank, Aside(p)
  PROVE  /\ UNCHANGED <<fp, sfd, name, val, lock, claims, gen, base, lost>>
         /\ pc[p] # "closed"
         /\ pc'[p] \notin Locked \cup {"lockfirst", "closed"}
<1> USE DEF Goto
<1>1. DOMAIN pc = Rank
  BY Zenon DEF Control, TypeOK
<1>2. CASE SharedAccess(p)
  BY <1>1, <1>2 DEF SharedAccess, Locked
<1>3. CASE OrderedEnter(p)
  BY <1>1, <1>3 DEF NextCollective, OrderedEnter, Locked
<1>4. CASE OrderedEnd(p)
  BY <1>1, <1>4 DEF NextCollective, OrderedEnd, Locked
<1>5. CASE SeekEnter(p)
  BY <1>1, <1>5 DEF NextCollective, SeekEnter, Locked
<1>6. CASE CloseEnter(p)
  BY <1>1, <1>6 DEF NextCollective, CloseEnter, Locked
<1>7. CASE OpenFails(p)
  BY <1>1, <1>7 DEF Return, OpenFails, Locked
<1>8. CASE TokenRecv(p)
  BY <1>1, <1>8 DEF TokenRecv, Locked
<1>9. CASE TokenSend(p)
  BY <1>1, <1>9 DEF TokenSend, Locked
<1>10. CASE CollTransfer(p)
  BY <1>1, <1>10 DEF Return, CollTransfer, Locked
<1>11. CASE SeekBarrier(p)
  BY <1>1, <1>11 DEF Return, SeekBarrier, Locked
<1> QED
  BY Zenon, <1>2, <1>3, <1>4, <1>5, <1>6, <1>7, <1>8, <1>9, <1>10, <1>11 DEF Aside

\* The steps that neither open nor close the pointer file nor write it.
Harmless(p) ==
    \/ Aside(p) \/ GetLock(p) \/ SetLock(p) \/ GetRead(p) \/ GetReadFails(p)
    \/ WriteFails(p) \/ GetDone(p) \/ GetGiveUp(p) \/ SetDone(p)

\* They hand out nothing and set nothing.
LEMMA HarmlessFacts ==
  ASSUME Control, NEW p \in Rank, Harmless(p)
  PROVE  /\ UNCHANGED <<sfd, name, val, claims, gen, base>>
         /\ ~ lost' => ~ lost
         /\ pc[p] # "closed" /\ pc'[p] # "closed"
<1> USE DEF Goto
<1>1. DOMAIN pc = Rank
  BY Zenon DEF Control, TypeOK
<1>2. CASE Aside(p)
  BY Zenon, <1>2, AsideFacts
<1>3. CASE GetLock(p)
  BY <1>1, <1>3 DEF GetLock
<1>4. CASE SetLock(p)
  BY <1>1, <1>4 DEF SetLock
<1>5. CASE GetRead(p)
  BY <1>1, <1>5 DEF GetRead
<1>6. CASE GetReadFails(p)
  BY Zenon, <1>1, <1>6 DEF GetReadFails
<1>7. CASE WriteFails(p)
  BY <1>1, <1>7 DEF WriteFails
<1>8. CASE GetDone(p)
  <2>1. CASE call[p].op = "shared"
    BY <1>1, <1>8, <2>1 DEF GetDone, Return
  <2>2. CASE call[p].op \in Ordered
    BY <1>1, <1>8, <2>2 DEF GetDone, Ordered
  <2>3. CASE call[p].op \notin Ordered \cup {"shared"}
    BY <1>1, <1>8, <2>3 DEF GetDone
  <2> QED
    BY Zenon, <2>1, <2>2, <2>3
<1>9. CASE GetGiveUp(p)
  BY <1>1, <1>9 DEF GetGiveUp, Return
<1>10. CASE SetDone(p)
  BY <1>1, <1>10 DEF SetDone
<1> QED
  BY Zenon, <1>2, <1>3, <1>4, <1>5, <1>6, <1>7, <1>8, <1>9, <1>10 DEF Harmless

\* The operation of a call is one of the five a rank can be in, or none.
LEMMA OpCases ==
  ASSUME Control, NEW p \in Rank
  PROVE  /\ call[p] \in CallType
         /\ call[p].op \in {"none", "shared"} \cup AnyOp
<1>1. call[p] \in CallType
  BY Zenon DEF Control
<1> QED
  BY <1>1 DEF CallType, SeekOfRank0, Idle, AnyOp, Ordered

\* Once a rank has left the close every rank is in it, so that the name is not
\* removed under a rank that may still open the pointer file.
LEMMA NoneClosed ==
  ASSUME Control, Schedule, NEW p \in Rank, call[p].op # "close"
  PROVE  \A q \in Rank : pc[q] # "closed"
<1> SUFFICES ASSUME NEW q \in Rank, pc[q] = "closed"
             PROVE  FALSE
  OBVIOUS
<1>1. call[q].op = "close"
  <2>1. CallOK(q)
    BY Zenon DEF Control
  <2> QED
    BY <2>1, OpCases DEF CallOK, AnyOp, Getting, Setting
<1>2. /\ pos[q] \in Nat /\ pos[q] # 0
      /\ pos[q] \in 0 .. Len(prog)
      /\ prog[pos[q]].op = "close"
      /\ Synchronises(prog, pos[q])
  BY Zenon, <1>1 DEF Control, PlaceOK, AnyOp
<1>3. pos[q] \in 1 .. Len(prog) /\ pos[q] \in 1 .. pos[q]
  BY <1>2
<1>4. pos[q] \in Departed(q)
  BY Zenon, <1>2, <1>3 DEF Departed, Calls, Outside, Meeting
<1>5. pos[q] \in 1 .. pos[p]
  BY Zenon, <1>4 DEF Schedule, Entered, Calls
<1>6. pos[q] = Len(prog)
  BY Zenon, <1>2, <1>3 DEF Control, CloseIsLast
<1>7. pos[p] \in 0 .. Len(prog) /\ pos[p] \in Nat
  BY Zenon DEF Control, PlaceOK
<1>8. Len(prog) \in Nat
  BY DEF Control, TypeOK
<1>9. pos[p] = pos[q]
  BY <1>3, <1>5, <1>6, <1>7, <1>8
<1> QED
  BY Zenon, <1>2, <1>9 DEF Control, PlaceOK

(***************************************************************************)
(* The pointer file and its lock                                            *)
(***************************************************************************)

\* The file that an open of a name standing for nothing creates is a new one.
LEMMA FreshFile ==
  ASSUME Control, Schedule, NameOK, NEW p \in Rank, call[p].op # "close",
         name = NULL
  PROVE  /\ \A q \in Rank : sfd[q] = NULL
         /\ (CHOOSE g \in FileId : \A q \in Rank : sfd[q] # g) \in FileId
<1>1. \A q \in Rank : pc[q] # "closed"
  BY Zenon, NoneClosed
<1>2. \A q \in Rank : sfd[q] = NULL
  BY Zenon, <1>1 DEF NameOK
<1>3. 1 \in FileId /\ 1 # NULL
  BY SharedPointerAssumption DEF FileId, NULL
<1>4. \E g \in FileId : \A q \in Rank : sfd[q] # g
  BY Zenon, <1>2, <1>3
<1> QED
  BY Zenon, <1>2, <1>4

\* What a rank that opens the pointer file gets.
LEMMA OpenResult ==
  ASSUME Control, Schedule, NameOK, NEW p \in Rank, call[p].op # "close",
         OpenPointer(p)
  PROVE  /\ name' \in FileId /\ name' # NULL
         /\ sfd' = [sfd EXCEPT ![p] = name']
         /\ name # NULL => name' = name /\ val' = val
         /\ name = NULL => /\ \A q \in Rank : sfd[q] = NULL
                           /\ val' = [val EXCEPT ![name'] = 0]
         /\ val' \in [FileId -> Nat]
<1>1. name \in FileId \cup {NULL} /\ val \in [FileId -> Nat]
  BY Zenon DEF Control, TypeOK
<1>2. NULL \notin FileId
  BY DEF NULL, FileId
<1>3. CASE name # NULL
  BY Zenon, <1>1, <1>2, <1>3 DEF OpenPointer
<1>4. CASE name = NULL
  <2> DEFINE f == CHOOSE g \in FileId : \A q \in Rank : sfd[q] # g
  <2>1. /\ sfd' = [sfd EXCEPT ![p] = f]
        /\ name' = f
        /\ val' = [val EXCEPT ![f] = 0]
    BY <1>4 DEF OpenPointer
  <2>2. f \in FileId /\ \A q \in Rank : sfd[q] = NULL
    BY Zenon, <1>4, FreshFile
  <2> HIDE DEF f
  <2>3. val' \in [FileId -> Nat]
    BY Zenon, <1>1, <2>1
  <2> QED
    BY Zenon, <1>2, <1>4, <2>1, <2>2, <2>3
<1> QED
  BY Zenon, <1>3, <1>4

\* Two ranks that hold a lock hold it on different files.
LEMMA LockExclusive ==
  ASSUME LockOK, NEW p \in Rank, NEW q \in Rank, p # q, pc[p] \in Locked,
         pc[q] \in Locked
  PROVE  sfd[p] # sfd[q]
BY Zenon DEF LockOK, LockAt

\* Every step keeps the lock with the rank that reads or writes the pointer.
LEMMA LockKept ==
  ASSUME Control, Schedule, NameOK, LockOK, NEW p \in Rank, Step(p)
  PROVE  LockOK'
<1> USE DEF Goto
<1>1. ASSUME NEW q \in Rank, q # p
      PROVE  /\ pc'[q] = pc[q] /\ sfd'[q] = sfd[q] /\ fp'[q] = fp[q]
             /\ sfd[q] \in FileId \cup {NULL}
             /\ LockAt(q)
  BY Zenon, <1>1, OthersStay DEF Control, TypeOK, LockOK
<1>2. /\ LockAt(p) /\ DOMAIN pc = Rank /\ DOMAIN fp = Rank /\ DOMAIN sfd = Rank
      /\ DOMAIN lock = FileId /\ DOMAIN val = FileId
      /\ sfd[p] # NULL => sfd[p] \in FileId
      /\ p # NULL
  <2>1. p # NULL
    BY DEF Rank, NULL
  <2> QED
    BY Zenon, <2>1 DEF Control, TypeOK, LockOK
<1>3. CASE Aside(p)
  <2>1. /\ UNCHANGED <<fp, sfd, name, val, lock, claims, gen, base, lost>>
        /\ pc'[p] \notin Locked /\ pc'[p] # "lockfirst"
    BY Zenon, <1>3, AsideFacts
  <2>2. LockAt(p)'
    BY Zenon, <2>1 DEF LockAt, Locked
  <2>3. ASSUME NEW q \in Rank, q # p PROVE LockAt(q)'
    BY Zenon, <1>1, <2>1, <2>3 DEF LockAt
  <2> QED
    BY Zenon, <2>2, <2>3 DEF LockOK
<1>4. CASE GetOpen(p) \/ SetOpen(p)
  <2>1. /\ UNCHANGED <<fp, lock, lost>> /\ OpenPointer(p)
        /\ pc[p] \in {"get", "set"} /\ pc'[p] \in {"lockfirst", "set"}
    BY Zenon, <1>2, <1>4 DEF GetOpen, SetOpen
  <2>2. call[p].op # "close"
    BY <2>1 DEF Control, CallOK
  <2>3. /\ name' # NULL
        /\ sfd' = [sfd EXCEPT ![p] = name']
        /\ name # NULL => val' = val
        /\ name = NULL => \A q \in Rank : sfd[q] = NULL
    BY Zenon, <2>1, <2>2, OpenResult
  <2>4. LockAt(p)'
    BY <1>2, <2>1, <2>3 DEF LockAt, Locked
  <2>5. ASSUME NEW q \in Rank, q # p PROVE LockAt(q)'
    <3>1. pc[q] = "write" => pc[q] \in Locked
      BY Zenon DEF Locked
    <3> QED
      BY Zenon, <1>1, <2>1, <2>3, <2>5, <3>1 DEF LockAt
  <2> QED
    BY Zenon, <2>4, <2>5 DEF LockOK
<1>5. CASE GetLock(p) \/ SetLock(p)
  <2>1. /\ UNCHANGED <<fp, sfd, val, lost>>
        /\ lock[sfd[p]] = NULL /\ lock' = [lock EXCEPT ![sfd[p]] = p]
        /\ pc'[p] \in {"read", "readfirst", "setwrite"}
    BY Zenon, <1>2, <1>5 DEF GetLock, SetLock, LockFree
  <2>2. sfd[p] # NULL
    BY Zenon, <1>2, <1>5 DEF GetLock, SetLock, LockAt
  <2>3. LockAt(p)'
    BY <1>2, <2>1, <2>2 DEF LockAt, Locked
  <2>4. ASSUME NEW q \in Rank, q # p PROVE LockAt(q)'
    <3>1. q # NULL
      BY DEF Rank, NULL
    <3>2. pc[q] \in Locked => sfd[q] # sfd[p] /\ sfd[q] \in FileId
      BY Zenon, <1>1, <2>1, <2>4, <3>1 DEF LockAt
    <3>3. pc[q] \in Locked => lock'[sfd[q]] = lock[sfd[q]]
      BY Zenon, <1>2, <2>1, <3>2
    <3> QED
      BY Zenon, <1>1, <2>1, <2>4, <3>3 DEF LockAt
  <2> QED
    BY Zenon, <2>3, <2>4 DEF LockOK
<1>6. CASE GetRead(p) \/ GetReadFails(p) \/ WriteFails(p)
  <2>1. /\ UNCHANGED <<sfd, val, lock>> /\ (~ lost' => ~ lost)
        /\ pc[p] \in Locked /\ pc'[p] \in Locked /\ pc'[p] # "lockfirst"
        /\ (pc'[p] = "write" /\ ~ lost') => fp'[p] = val[sfd[p]]
    <3>1. CASE GetRead(p)
      BY <1>2, <3>1 DEF GetRead, Locked
    <3>2. CASE GetReadFails(p)
      BY Zenon, <1>2, <3>2 DEF GetReadFails, Locked
    <3>3. CASE WriteFails(p)
      BY <1>2, <3>3 DEF WriteFails, Locked
    <3> QED
      BY Zenon, <1>6, <3>1, <3>2, <3>3
  <2>2. LockAt(p)'
    BY Zenon, <1>2, <2>1 DEF LockAt
  <2>3. ASSUME NEW q \in Rank, q # p PROVE LockAt(q)'
    BY Zenon, <1>1, <2>1, <2>3 DEF LockAt
  <2> QED
    BY Zenon, <2>2, <2>3 DEF LockOK
<1>7. CASE GetWrite(p) \/ SetWrite(p)
  <2>1. /\ UNCHANGED <<fp, sfd, lock, lost>>
        /\ pc[p] \in Locked /\ pc'[p] \in Locked
        /\ pc'[p] # "lockfirst" /\ pc'[p] # "write"
        /\ \E v : val' = [val EXCEPT ![sfd[p]] = v]
    BY <1>2, <1>7 DEF GetWrite, SetWrite, Locked
  <2>2. LockAt(p)'
    BY Zenon, <1>2, <2>1 DEF LockAt
  <2>3. ASSUME NEW q \in Rank, q # p PROVE LockAt(q)'
    <3>1. pc[q] = "write" => sfd[q] # sfd[p] /\ pc[q] \in Locked
      BY Zenon, <2>1, <2>3, LockExclusive DEF Locked
    <3>2. pc[q] = "write" => sfd[q] \in FileId
      BY Zenon, <1>1, <2>3, <3>1 DEF LockAt
    <3>3. pc[q] = "write" => val'[sfd[q]] = val[sfd[q]]
      BY Zenon, <1>2, <2>1, <3>1, <3>2
    <3> QED
      BY Zenon, <1>1, <2>1, <2>3, <3>3 DEF LockAt
  <2> QED
    BY Zenon, <2>2, <2>3 DEF LockOK
<1>8. CASE GetDone(p) \/ GetGiveUp(p) \/ SetDone(p)
  <2>1. /\ UNCHANGED <<fp, sfd, val, lost>>
        /\ lock' = [lock EXCEPT ![sfd[p]] = NULL]
        /\ pc[p] \in Locked
        /\ pc'[p] \in {"idle", "send", "failed", "set", "barrier"}
    <3>1. CASE GetDone(p)
      <4>1. pc' = [pc EXCEPT ![p] = "idle"] \/ pc' = [pc EXCEPT ![p] = "send"]
            \/ pc' = [pc EXCEPT ![p] = "failed"] \/ pc' = [pc EXCEPT ![p] = "set"]
        <5>1. CASE call[p].op = "shared"
          BY Zenon, <3>1, <5>1 DEF GetDone, Return
        <5>2. CASE call[p].op \in Ordered
          BY <3>1, <5>2 DEF GetDone, Ordered
        <5>3. CASE call[p].op \notin Ordered \cup {"shared"}
          BY Zenon, <3>1, <5>3 DEF GetDone
        <5> QED
          BY Zenon, <5>1, <5>2, <5>3
      <4>2. /\ UNCHANGED <<fp, sfd, val, lost>> /\ pc[p] = "unlock"
            /\ lock' = [lock EXCEPT ![sfd[p]] = NULL]
        BY Zenon, <3>1 DEF GetDone, Unlock
      <4> QED
        BY Zenon, <1>2, <4>1, <4>2 DEF Locked
    <3>2. CASE GetGiveUp(p)
      BY <1>2, <3>2 DEF GetGiveUp, Unlock, Return, Locked
    <3>3. CASE SetDone(p)
      BY <1>2, <3>3 DEF SetDone, Unlock, Locked
    <3> QED
      BY Zenon, <1>8, <3>1, <3>2, <3>3
  <2>2. LockAt(p)'
    BY <2>1 DEF LockAt, Locked
  <2>3. ASSUME NEW q \in Rank, q # p PROVE LockAt(q)'
    <3>1. pc[q] \in Locked => sfd[q] # sfd[p]
      BY Zenon, <2>1, <2>3, LockExclusive
    <3>2. pc[q] \in Locked => sfd[q] \in FileId
      BY Zenon, <1>1, <2>3 DEF LockAt
    <3>3. pc[q] \in Locked => lock'[sfd[q]] = lock[sfd[q]]
      BY Zenon, <1>2, <2>1, <3>1, <3>2
    <3> QED
      BY Zenon, <1>1, <2>1, <2>3, <3>3 DEF LockAt
  <2> QED
    BY Zenon, <2>2, <2>3 DEF LockOK
<1>9. CASE CloseLeave(p)
  <2>1. UNCHANGED <<fp, val, lock, lost>> /\ pc'[p] = "closed"
    BY Zenon, <1>2, <1>9 DEF CloseLeave
  <2>2. LockAt(p)'
    BY <2>1 DEF LockAt, Locked
  <2>3. ASSUME NEW q \in Rank, q # p PROVE LockAt(q)'
    BY Zenon, <1>1, <2>1, <2>3 DEF LockAt
  <2> QED
    BY Zenon, <2>2, <2>3 DEF LockOK
<1> QED
  BY Zenon, <1>3, <1>4, <1>5, <1>6, <1>7, <1>8, <1>9 DEF Step, Aside

\* Where the rank that takes a step is, for the actions that use the pointer.
LEMMA UserNotClosed ==
  ASSUME Control, Schedule, NEW p \in Rank,
         pc[p] \in Locked \cup {"get", "lockfirst", "set"}
  PROVE  call[p].op # "close" /\ \A q \in Rank : pc[q] # "closed"
<1>1. call[p].op # "close"
  <2>1. CallOK(p)
    BY Zenon DEF Control
  <2> QED
    BY <2>1 DEF CallOK, Locked
<1> QED
  BY Zenon, <1>1, NoneClosed

\* The file a rank has locked is the one the name stands for.
LEMMA LockedIsNamed ==
  ASSUME Control, Schedule, NameOK, LockOK, NEW p \in Rank, pc[p] \in Locked
  PROVE  sfd[p] = name /\ name # NULL /\ name \in FileId
<1>1. \A q \in Rank : pc[q] # "closed"
  BY Zenon, UserNotClosed
<1>2. sfd[p] # NULL
  BY Zenon DEF LockOK, LockAt
<1>3. sfd[p] = name
  BY Zenon, <1>1, <1>2 DEF NameOK
<1>4. name \in FileId \cup {NULL}
  BY Zenon DEF Control, TypeOK
<1> QED
  BY Zenon, <1>2, <1>3, <1>4

\* Every step keeps the ranks on one pointer file: the barrier of the close comes
\* before the first removal.
LEMMA NameKept ==
  ASSUME Control, Schedule, NameOK, LockOK, NEW p \in Rank, Step(p)
  PROVE  NameOK'
<1> USE DEF Goto
<1>1. ASSUME NEW q \in Rank, q # p
      PROVE  pc'[q] = pc[q] /\ sfd'[q] = sfd[q]
  BY Zenon, <1>1, OthersStay
<1>2. DOMAIN pc = Rank /\ DOMAIN sfd = Rank
  BY Zenon DEF Control, TypeOK
<1>3. CASE Harmless(p)
  <2>1. /\ UNCHANGED <<sfd, name, claims, gen, base>>
        /\ pc[p] # "closed" /\ pc'[p] # "closed"
    BY Zenon, <1>3, HarmlessFacts
  <2>2. \A q \in Rank : pc'[q] = "closed" <=> pc[q] = "closed"
    BY Zenon, <1>1, <2>1
  <2> QED
    BY Zenon, <2>1, <2>2 DEF NameOK
<1>4. CASE GetWrite(p) \/ SetWrite(p)
  <2>1. /\ UNCHANGED <<sfd, name>> /\ pc[p] \in Locked
        /\ pc[p] # "closed" /\ pc'[p] # "closed"
    BY <1>2, <1>4 DEF GetWrite, SetWrite, Locked
  <2>2. name # NULL
    BY Zenon, <2>1, LockedIsNamed
  <2>3. \A q \in Rank : pc'[q] = "closed" <=> pc[q] = "closed"
    BY Zenon, <1>1, <2>1
  <2> QED
    BY Zenon, <2>1, <2>2, <2>3 DEF NameOK
<1>5. CASE GetOpen(p) \/ SetOpen(p)
  <2>1. /\ OpenPointer(p) /\ pc[p] \in {"get", "set"}
        /\ pc'[p] \in {"lockfirst", "set"}
    BY Zenon, <1>2, <1>5 DEF GetOpen, SetOpen
  <2>2. call[p].op # "close" /\ \A q \in Rank : pc[q] # "closed"
    BY Zenon, <2>1, UserNotClosed
  <2>3. /\ name' # NULL /\ sfd' = [sfd EXCEPT ![p] = name']
        /\ name # NULL => name' = name
        /\ name = NULL => \A q \in Rank : sfd[q] = NULL
    BY Zenon, <2>1, <2>2, OpenResult
  <2>4. sfd'[p] = name' /\ pc'[p] # "closed"
    BY <1>2, <2>1, <2>3
  <2>5. \A q \in Rank : sfd'[q] # NULL => sfd'[q] = name'
    BY Zenon, <1>1, <2>2, <2>3, <2>4 DEF NameOK
  <2>6. \A q \in Rank : pc'[q] # "closed"
    BY Zenon, <1>1, <2>2, <2>4
  <2> QED
    BY Zenon, <2>3, <2>4, <2>5, <2>6 DEF NameOK
<1>6. CASE CloseLeave(p)
  <2>1. /\ sfd' = [sfd EXCEPT ![p] = NULL] /\ pc'[p] = "closed" /\ sfd'[p] = NULL
        /\ name' = IF sfd[p] # NULL THEN NULL ELSE name
    BY Zenon, <1>2, <1>6 DEF CloseLeave, RemoveName
  <2>2. name' # NULL => \E q \in Rank : sfd'[q] = name'
    <3>1. SUFFICES ASSUME name' # NULL PROVE \E q \in Rank : sfd'[q] = name'
      OBVIOUS
    <3>2. sfd[p] = NULL /\ name' = name
      BY Zenon, <2>1, <3>1
    <3>3. PICK q \in Rank : sfd[q] = name
      BY Zenon, <3>1, <3>2 DEF NameOK
    <3>4. q # p
      BY Zenon, <3>1, <3>2, <3>3
    <3> QED
      BY Zenon, <1>1, <3>2, <3>3, <3>4
  <2>3. \A q \in Rank : pc'[q] = "closed" => sfd'[q] = NULL
    BY Zenon, <1>1, <2>1 DEF NameOK
  <2> QED
    BY Zenon, <2>1, <2>2, <2>3 DEF NameOK
<1> QED
  BY Zenon, <1>3, <1>4, <1>5, <1>6 DEF Step, Harmless, Aside

(***************************************************************************)
(* The regions tile the file: GetWrite adds the next one, SetWrite starts   *)
(* anew                                                                     *)
(***************************************************************************)

\* The types of the call records.
LEMMA CallFacts ==
  ASSUME Control, NEW p \in Rank
  PROVE  /\ Idle \in CallType
         /\ \A n \in Counts, o \in Ordered \cup {"shared"} :
               [op |-> o, incr |-> n] \in CallType
         /\ \A o \in {"seek_shared", "close"} : [op |-> o, incr |-> 0] \in CallType
         /\ \A o \in Offsets :
               [op |-> "seek_shared", incr |-> 0, offset |-> o] \in SeekOfRank0
         /\ SeekOfRank0 \subseteq CallType
         /\ pc[p] \in Getting => call[p].incr \in Nat
         /\ call[p].op = "seek_shared" => call[p].incr = 0
         /\ pc[p] \in Setting =>
               call[p].op = "seek_shared" /\ p = 0 /\ call[p] \in SeekOfRank0
               /\ call[p].offset \in Nat
         /\ (pc[p] \in Getting /\ call[p].op \notin Ordered \cup {"shared"}) =>
               call[p].op = "seek_shared" /\ p = 0 /\ call[p] \in SeekOfRank0
<1>1. Counts \subseteq Nat /\ Offsets \subseteq Int
  BY SharedPointerAssumption
<1>2. CallOK(p)
  BY Zenon DEF Control
<1>3. call[p] \in CallType /\ call[p].op \in {"none", "shared"} \cup AnyOp
  BY Zenon, OpCases
<1>4. Idle \in CallType /\ SeekOfRank0 \subseteq CallType
  BY Zenon DEF CallType
<1>5. \A n \in Counts, o \in Ordered \cup {"shared"} :
         [op |-> o, incr |-> n] \in CallType
  BY <1>1 DEF CallType
<1>6. \A o \in {"seek_shared", "close"} : [op |-> o, incr |-> 0] \in CallType
  BY DEF CallType
<1>7. \A o \in Offsets :
         [op |-> "seek_shared", incr |-> 0, offset |-> o] \in SeekOfRank0
  BY <1>1 DEF SeekOfRank0
<1>8. /\ pc[p] \in Getting => call[p].incr \in Nat
      /\ call[p].op = "seek_shared" => call[p].incr = 0
  BY <1>2, <1>3 DEF CallOK, CallType, SeekOfRank0, Idle, Getting, Ordered
<1>9. /\ pc[p] \in Setting =>
            call[p].op = "seek_shared" /\ p = 0 /\ call[p] \in SeekOfRank0
            /\ call[p].offset \in Nat
      /\ (pc[p] \in Getting /\ call[p].op \notin Ordered \cup {"shared"}) =>
            call[p].op = "seek_shared" /\ p = 0 /\ call[p] \in SeekOfRank0
  BY <1>2, <1>3 DEF CallOK, AnyOp, Ordered, Getting, Setting
<1> QED
  BY Zenon, <1>4, <1>5, <1>6, <1>7, <1>8, <1>9

\* Every step keeps the regions without overlap and gap: a write hands out what
\* begins where the pointer stands, a seek starts anew.
LEMMA TilesKept ==
  ASSUME Control, Schedule, NameOK, LockOK, ClaimsOK, PointerAhead, RegionsTile,
         NEW p \in Rank, Step(p)
  PROVE  PointerAhead' /\ RegionsTile'
<1>1. /\ val \in [FileId -> Nat] /\ base \in Nat /\ gen \in Nat
      /\ name \in FileId \cup {NULL}
  BY Zenon DEF Control, TypeOK
<1>2. CASE Harmless(p)
  <2>1. UNCHANGED <<name, val, claims, gen, base>> /\ (~ lost' => ~ lost)
    BY Zenon, <1>2, HarmlessFacts
  <2> QED
    BY Zenon, <2>1 DEF PointerAhead, RegionsTile, Current, Region
<1>3. CASE GetOpen(p) \/ SetOpen(p)
  <2>1. /\ UNCHANGED <<claims, gen, base, lost>> /\ OpenPointer(p)
        /\ pc[p] \in {"get", "set"}
    BY Zenon, <1>3 DEF GetOpen, SetOpen
  <2>2. call[p].op # "close" /\ \A q \in Rank : pc[q] # "closed"
    BY Zenon, <2>1, UserNotClosed
  <2>3. /\ name' \in FileId
        /\ name # NULL => name' = name /\ val' = val
        /\ name = NULL => val' = [val EXCEPT ![name'] = 0]
    BY Zenon, <2>1, <2>2, OpenResult
  <2>4. CASE name # NULL
    BY Zenon, <2>1, <2>3, <2>4 DEF PointerAhead, RegionsTile, Current, Region
  <2>5. CASE name = NULL
    <3>1. claims = {} /\ base = 0
      BY Zenon, <2>2, <2>5 DEF NameOK
    <3>2. val'[name'] = 0
      BY Zenon, <1>1, <2>3, <2>5
    <3>3. Current' = {} /\ UNION {Region(c) : c \in {}} = {}
      BY Zenon, <2>1, <3>1 DEF Current
    <3>4. base' <= val'[name'] /\ base' .. val'[name'] - 1 = {}
      BY <2>1, <3>1, <3>2
    <3> QED
      BY Zenon, <3>3, <3>4 DEF PointerAhead, RegionsTile, Region
  <2> QED
    BY Zenon, <2>4, <2>5
<1>4. CASE GetWrite(p)
  <2>1. pc[p] = "write" /\ pc[p] \in Locked /\ pc[p] \in Getting
    BY Zenon, <1>4 DEF GetWrite, Locked, Getting
  <2>2. sfd[p] = name /\ name # NULL /\ name \in FileId
    BY Zenon, <2>1, LockedIsNamed
  <2> DEFINE v == val[name]
             n == call[p].incr
             new == [rank |-> p, op |-> call[p].op, pos |-> pos[p], off |-> fp[p],
                     len |-> n, gen |-> gen]
  <2>3. /\ UNCHANGED <<name, gen, base, lost>>
        /\ val' = [val EXCEPT ![name] = fp[p] + n]
        /\ claims' = claims \cup {new}
    BY Zenon, <1>4, <2>2 DEF GetWrite
  <2>4. v \in Nat /\ n \in Nat /\ n # 0
    <3>1. CallOK(p) /\ n \in Nat
      BY Zenon, <2>1, CallFacts DEF Control
    <3> QED
      BY Zenon, <1>1, <2>1, <2>2, <3>1 DEF CallOK
  <2> SUFFICES ASSUME ~ lost
               PROVE  PointerAhead' /\ RegionsTile'
    BY Zenon, <2>3 DEF PointerAhead, RegionsTile
  <2>5. fp[p] = v /\ base <= v
    BY Zenon, <2>1, <2>2 DEF LockOK, LockAt, PointerAhead
  <2>6. val'[name'] = v + n
    BY Zenon, <1>1, <2>2, <2>3, <2>5
  <2>7. Current' = Current \cup {new}
    <3>1. new.gen = gen /\ gen' = gen /\ claims' = claims \cup {new}
      BY <2>3
    <3> HIDE DEF new
    <3> QED
      BY Zenon, <3>1 DEF Current
  <2>8. Region(new) = v .. v + n - 1
    BY Zenon, <2>5 DEF Region
  <2>9. /\ \A c, d \in Current : c # d => Region(c) \cap Region(d) = {}
        /\ UNION {Region(c) : c \in Current} = base .. v - 1
    BY Zenon, <2>2 DEF RegionsTile
  <2> HIDE DEF v, n, new
  <2>10. \A c \in Current : Region(c) \subseteq base .. v - 1
    BY Zenon, <2>9
  <2>11. (base .. v - 1) \cap (v .. v + n - 1) = {}
    BY <1>1, <2>4, <2>5
  <2>12. (base .. v - 1) \cup (v .. v + n - 1) = base .. v + n - 1
    BY <1>1, <2>4, <2>5
  <2>13. \A c \in Current : Region(c) \cap Region(new) = {} /\ Region(new) \cap Region(c) = {}
    BY Zenon, <2>8, <2>10, <2>11
  <2>14. ASSUME NEW c \in Current', NEW d \in Current', c # d
         PROVE  Region(c) \cap Region(d) = {}
    <3>1. c \in Current \/ c = new
      BY Zenon, <2>7
    <3>2. d \in Current \/ d = new
      BY Zenon, <2>7
    <3>3. CASE c \in Current /\ d \in Current
      BY Zenon, <2>9, <2>14, <3>3
    <3>4. CASE c = new /\ d \in Current
      BY Zenon, <2>13, <3>4
    <3>5. CASE c \in Current /\ d = new
      BY Zenon, <2>13, <3>5
    <3> QED
      BY Zenon, <2>14, <3>1, <3>2, <3>3, <3>4, <3>5
  <2>15. UNION {Region(c) : c \in Current'} = base .. v + n - 1
    <3>1. UNION {Region(c) : c \in Current'} =
             (UNION {Region(c) : c \in Current}) \cup Region(new)
      BY Zenon, <2>7
    <3> QED
      BY Zenon, <2>8, <2>9, <2>12, <3>1
  <2>16. base <= v + n
    BY <1>1, <2>4, <2>5
  <2>17. PointerAhead'
    BY Zenon, <2>3, <2>6, <2>16 DEF PointerAhead
  <2>18. base' = base /\ val'[name'] = v + n
    BY Zenon, <2>3, <2>6
  <2>19. base' .. val'[name'] - 1 = base .. v + n - 1
    BY <1>1, <2>4, <2>18
  <2>20. RegionsTile'
    BY Zenon, <2>14, <2>15, <2>19 DEF RegionsTile, Region
  <2> QED
    BY Zenon, <2>17, <2>20
<1>5. CASE SetWrite(p)
  <2>1. pc[p] \in Locked /\ pc[p] \in Setting
    BY Zenon, <1>5 DEF SetWrite, Locked, Setting
  <2>2. sfd[p] = name /\ name # NULL /\ name \in FileId
    BY Zenon, <2>1, LockedIsNamed
  <2>3. call[p].offset \in Nat
    BY Zenon, <2>1, CallFacts
  <2>4. /\ UNCHANGED <<name, claims, lost>> /\ gen' = gen + 1
        /\ val'[name'] = call[p].offset /\ base' = call[p].offset
    BY Zenon, <1>1, <1>5, <2>2 DEF SetWrite
  <2>5. \A c \in claims : c.gen # gen'
    <3>1. ASSUME NEW c \in claims PROVE c.gen \in Nat /\ c.gen <= gen
      BY DEF ClaimsOK, ClaimType
    <3> QED
      BY <1>1, <2>4, <3>1
  <2>6. Current' = {} /\ UNION {Region(c) : c \in {}} = {}
    BY Zenon, <2>4, <2>5 DEF Current
  <2>7. base' <= val'[name'] /\ base' .. val'[name'] - 1 = {}
    BY <2>3, <2>4
  <2> QED
    BY Zenon, <2>6, <2>7 DEF PointerAhead, RegionsTile, Region
<1>6. CASE CloseLeave(p)
  <2>1. /\ UNCHANGED <<val, claims, gen, base, lost>>
        /\ name' # NULL => name' = name
    BY Zenon, <1>6 DEF CloseLeave, RemoveName
  <2> QED
    BY Zenon, <2>1 DEF PointerAhead, RegionsTile, Current, Region
<1> QED
  BY Zenon, <1>2, <1>3, <1>4, <1>5, <1>6 DEF Step, Harmless, Aside

(***************************************************************************)
(* Where a rank is in the call it is in                                     *)
(***************************************************************************)

Inside(p) ==
    \/ SharedAccess(p) \/ GetOpen(p) \/ GetLock(p) \/ GetRead(p)
    \/ GetReadFails(p) \/ GetWrite(p) \/ WriteFails(p) \/ OpenFails(p)
    \/ GetDone(p) \/ GetGiveUp(p) \/ SetOpen(p) \/ SetLock(p) \/ SetWrite(p)
    \/ SetDone(p) \/ TokenRecv(p) \/ TokenSend(p) \/ CollTransfer(p)
    \/ SeekBarrier(p) \/ CloseLeave(p)

\* Inside a call a rank stays in it or returns from it, and the place it comes
\* to is one of its call.
LEMMA CallInside ==
  ASSUME Control, Schedule, NameOK, LockOK, NEW p \in Rank, Inside(p)
  PROVE  /\ CallOK(p)'
         /\ \/ call'[p].op = call[p].op
            \/ call[p].op # "close" /\ call'[p].op \in {"none", "shared"}
<1> USE DEF Goto
<1>1. DOMAIN pc = Rank /\ DOMAIN call = Rank
  BY Zenon DEF Control, TypeOK
<1>2. CallOK(p) /\ call[p].op \in {"none", "shared"} \cup AnyOp
  BY Zenon, OpCases DEF Control
<1>3. Idle.op = "none"
  BY Zenon DEF Idle
<1>4. CASE SharedAccess(p)
  BY <1>1, <1>2, <1>3, <1>4 DEF SharedAccess, CallOK, Getting, Setting, Ordered, AnyOp
<1>5. CASE GetOpen(p)
  BY <1>1, <1>2, <1>3, <1>5 DEF GetOpen, CallOK, Getting, Setting, Ordered, AnyOp
<1>6. CASE GetLock(p)
  BY <1>1, <1>2, <1>3, <1>6 DEF GetLock, CallOK, Getting, Setting, Ordered, AnyOp
<1>7. CASE GetRead(p)
  BY <1>1, <1>2, <1>3, <1>7 DEF GetRead, CallOK, Getting, Setting, Ordered, AnyOp
<1>8. CASE GetReadFails(p)
  BY <1>1, <1>2, <1>3, <1>8 DEF GetReadFails, CallOK, Getting, Setting, Ordered, AnyOp
<1>9. CASE GetWrite(p)
  BY <1>1, <1>2, <1>3, <1>9 DEF GetWrite, CallOK, Getting, Setting, Ordered, AnyOp
<1>10. CASE WriteFails(p)
  BY <1>1, <1>2, <1>3, <1>10 DEF WriteFails, CallOK, Getting, Setting, Ordered, AnyOp
<1>11. CASE OpenFails(p)
  BY <1>1, <1>2, <1>3, <1>11 DEF Return, OpenFails, CallOK, Getting, Setting, Ordered, AnyOp
<1>12. CASE GetDone(p)
  <2>1. CASE call[p].op = "shared"
    BY <1>1, <1>2, <1>3, <1>12, <2>1 DEF GetDone, Return, CallOK, Ordered
  <2>2. CASE call[p].op \in Ordered
    BY <1>1, <1>2, <1>12, <2>2 DEF GetDone, CallOK, Getting, Ordered
  <2>3. CASE call[p].op \notin Ordered \cup {"shared"}
    <3> DEFINE o == call[p].offset + fp[p]
    <3>1. /\ pc'[p] = IF BadOffset(o) THEN "failed" ELSE "set"
          /\ call'[p] = [call[p] EXCEPT !.offset = o]
      BY Zenon, <1>1, <1>12, <2>3 DEF GetDone
    <3>2. call[p] \in SeekOfRank0 /\ p = 0 /\ call[p].op = "seek_shared"
      BY Zenon, <1>12, <2>3, CallFacts DEF GetDone, Getting
    <3>3. o \in Int
      <4>1. fp[p] \in Nat
        BY Zenon DEF Control, TypeOK
      <4> QED
        BY <3>2, <4>1 DEF SeekOfRank0
    <3>4. ~ BadOffset(o) => o \in Nat
      BY <3>3 DEF BadOffset
    <3> HIDE DEF o
    <3>5. call'[p] \in SeekOfRank0 /\ call'[p].op = "seek_shared" /\ call'[p].offset = o
      BY <3>1, <3>2, <3>3 DEF SeekOfRank0
    <3> QED
      BY <3>1, <3>2, <3>4, <3>5 DEF CallOK, Setting, Ordered
  <2> QED
    BY Zenon, <2>1, <2>2, <2>3
<1>13. CASE GetGiveUp(p)
  BY <1>1, <1>2, <1>3, <1>13 DEF Return, GetGiveUp, CallOK, Getting, Setting, Ordered, AnyOp
<1>14. CASE SetOpen(p)
  BY <1>1, <1>2, <1>3, <1>14 DEF SetOpen, CallOK, Getting, Setting, Ordered, AnyOp
<1>15. CASE SetLock(p)
  BY <1>1, <1>2, <1>3, <1>15 DEF SetLock, CallOK, Getting, Setting, Ordered, AnyOp
<1>16. CASE SetWrite(p)
  BY <1>1, <1>2, <1>3, <1>16 DEF SetWrite, CallOK, Getting, Setting, Ordered, AnyOp
<1>17. CASE SetDone(p)
  BY <1>1, <1>2, <1>3, <1>17 DEF SetDone, CallOK, Getting, Setting, Ordered, AnyOp
<1>18. CASE TokenRecv(p)
  BY <1>1, <1>2, <1>3, <1>18 DEF TokenRecv, CallOK, Getting, Setting, Ordered, AnyOp
<1>19. CASE TokenSend(p)
  BY <1>1, <1>2, <1>3, <1>19 DEF TokenSend, CallOK, Getting, Setting, Ordered, AnyOp
<1>20. CASE CollTransfer(p)
  BY <1>1, <1>2, <1>3, <1>20 DEF Return, CollTransfer, CallOK, Ordered
<1>21. CASE SeekBarrier(p)
  BY <1>1, <1>2, <1>3, <1>21 DEF Return, SeekBarrier, CallOK, Ordered
<1>22. CASE CloseLeave(p)
  BY <1>1, <1>2, <1>3, <1>22 DEF CloseLeave, CallOK, Getting, Setting, Ordered, AnyOp
<1> QED
  BY Zenon, <1>4, <1>5, <1>6, <1>7, <1>8, <1>9, <1>10, <1>11, <1>12, <1>13, <1>14, <1>15, <1>16, <1>17, <1>18, <1>19, <1>20, <1>21, <1>22 DEF Inside

\* How the steps change the numbers, within their types.
LEMMA TypeFacts ==
  ASSUME Control, LockOK, NEW p \in Rank
  PROVE  /\ pc[p] \in Locked \cup {"lockfirst"} => sfd[p] # NULL
         /\ sfd[p] # NULL => sfd[p] \in FileId
         /\ shared[p] < MaxShared => shared[p] + 1 \in 0 .. MaxShared
         /\ faults < MaxFaults => faults + 1 \in 0 .. MaxFaults
         /\ bar[p] + 1 \in Nat /\ gen + 1 \in Nat
         /\ token[p] + 1 \in Int /\ token[p] - 1 \in Int
         /\ fp[p] \in Nat /\ 0 \in Nat
<1>1. /\ shared[p] \in 0 .. MaxShared /\ faults \in 0 .. MaxFaults
      /\ bar[p] \in Nat /\ gen \in Nat /\ token[p] \in Int /\ fp[p] \in Nat
      /\ sfd[p] \in FileId \cup {NULL}
  BY Zenon DEF Control, TypeOK
<1>2. pc[p] \in Locked \cup {"lockfirst"} => sfd[p] # NULL
  BY Zenon DEF LockOK, LockAt
<1>3. MaxShared \in Nat /\ MaxFaults \in Nat
  BY SharedPointerAssumption
<1> QED
  BY <1>1, <1>2, <1>3

Types == TypeOK /\ pos \in [Rank -> Nat] /\ call \in [Rank -> CallType]

\* The types under the steps inside a call, one action at a time.
LEMMA TypesInside ==
  ASSUME Control, Schedule, NameOK, LockOK, NEW p \in Rank, Inside(p)
  PROVE  Types'
<1> USE DEF Goto
<1>1. TypeOK /\ pos \in [Rank -> Nat] /\ call \in [Rank -> CallType]
  BY Zenon DEF Control
<1>2. /\ "idle" \in Place /\ "get" \in Place /\ "lockfirst" \in Place
      /\ "read" \in Place /\ "readfirst" \in Place /\ "write" \in Place
      /\ "unlock" \in Place /\ "giveup" \in Place /\ "set" \in Place
      /\ "setwrite" \in Place /\ "setunlock" \in Place /\ "send" \in Place
      /\ "coll" \in Place /\ "barrier" \in Place /\ "closed" \in Place
      /\ "failed" \in Place
  BY Zenon DEF Place
<1>3. /\ Idle \in CallType
      /\ \A m \in Counts : [op |-> "shared", incr |-> m] \in CallType
  BY Zenon, CallFacts
<1>4. CASE SharedAccess(p)
  <2>1. pc' \in [Rank -> Place] /\ call' \in [Rank -> CallType]
    BY Zenon, <1>1, <1>2, <1>3, <1>4 DEF SharedAccess, Return, TypeOK
  <2> QED
    BY Zenon, <1>1, <1>4, <2>1, TypeFacts DEF SharedAccess, Unlock, Types, TypeOK, Locked
<1>5. CASE GetOpen(p)
  <2>1. call[p].op # "close"
    BY <1>5, CallFacts DEF GetOpen, Control, CallOK
  <2>2. name' \in FileId /\ sfd' = [sfd EXCEPT ![p] = name'] /\ val' \in [FileId -> Nat]
    BY Zenon, <1>5, <2>1, OpenResult DEF GetOpen
  <2> QED
    BY Zenon, <1>1, <1>2, <1>5, <2>2 DEF GetOpen, Types, TypeOK
<1>6. CASE GetLock(p)
  <2>1. sfd[p] \in FileId
    BY Zenon, <1>6, TypeFacts DEF GetLock, Locked
  <2>2. pc' \in [Rank -> Place]
    BY Zenon, <1>1, <1>2, <1>6 DEF GetLock, TypeOK
  <2> QED
    BY Zenon, <1>1, <1>6, <2>1, <2>2 DEF GetLock, Types, TypeOK
<1>7. CASE GetRead(p)
  <2>1. pc' \in [Rank -> Place] /\ call' \in [Rank -> CallType]
    BY Zenon, <1>1, <1>2, <1>3, <1>7 DEF GetRead, Return, TypeOK
  <2> QED
    BY Zenon, <1>1, <1>7, <2>1, TypeFacts DEF GetRead, Unlock, Types, TypeOK, Locked
<1>8. CASE GetReadFails(p)
  <2>1. pc' \in [Rank -> Place] /\ call' \in [Rank -> CallType]
    BY Zenon, <1>1, <1>2, <1>3, <1>8 DEF GetReadFails, Return, TypeOK
  <2> QED
    BY Zenon, <1>1, <1>8, <2>1, TypeFacts DEF GetReadFails, Unlock, Types, TypeOK, Locked
<1>9. CASE GetWrite(p)
  <2>1. fp[p] \in Nat /\ call[p].incr \in Nat /\ sfd[p] \in FileId
    BY Zenon, <1>9, TypeFacts, CallFacts DEF GetWrite, Getting, Locked
  <2>2. fp[p] + call[p].incr \in Nat
    BY <2>1
  <2> QED
    BY Zenon, <1>1, <1>2, <1>9, <2>1, <2>2 DEF GetWrite, Types, TypeOK
<1>10. CASE WriteFails(p)
  BY Zenon, <1>1, <1>2, <1>10, TypeFacts, CallFacts DEF WriteFails, Types, TypeOK, Locked, Setting, Getting, TokenHere
<1>11. CASE OpenFails(p)
  <2>1. pc' \in [Rank -> Place] /\ call' \in [Rank -> CallType]
    BY Zenon, <1>1, <1>2, <1>3, <1>11 DEF OpenFails, Return, TypeOK
  <2> QED
    BY Zenon, <1>1, <1>11, <2>1, TypeFacts DEF OpenFails, Unlock, Types, TypeOK, Locked
<1>12. CASE GetDone(p)
  <2>1. sfd[p] \in FileId /\ fp[p] \in Nat
    BY Zenon, <1>12, TypeFacts DEF GetDone, Locked
  <2>2. call' \in [Rank -> CallType] /\ pc' \in [Rank -> Place]
    <3>1. CASE call[p].op = "shared"
      BY Zenon, <3>1, <1>1, <1>2, <1>3, <1>12 DEF GetDone, Return, TypeOK
    <3>2. CASE call[p].op \in Ordered
      BY Zenon, <3>2, <1>1, <1>2, <1>12 DEF GetDone, TypeOK, Ordered
    <3>3. CASE call[p].op \notin Ordered \cup {"shared"}
      <4> DEFINE o == call[p].offset + fp[p]
      <4>1. /\ pc' = [pc EXCEPT ![p] = IF BadOffset(o) THEN "failed" ELSE "set"]
            /\ call' = [call EXCEPT ![p].offset = o]
        BY Zenon, <3>3, <1>12 DEF GetDone
      <4>2. call[p] \in SeekOfRank0
        BY Zenon, <3>3, <1>12, CallFacts DEF GetDone, Getting
      <4>3. o \in Int
        BY <4>2, <2>1 DEF SeekOfRank0
      <4> HIDE DEF o
      <4>4. [call[p] EXCEPT !.offset = o] \in SeekOfRank0
        BY <4>2, <4>3 DEF SeekOfRank0
      <4>5. call' = [call EXCEPT ![p] = [call[p] EXCEPT !.offset = o]]
        BY Zenon, <4>1
      <4> QED
        BY Zenon, <1>1, <1>2, <4>1, <4>4, <4>5, CallFacts DEF TypeOK
    <3> QED
      BY Zenon, <3>1, <3>2, <3>3
  <2> QED
    BY Zenon, <1>1, <1>2, <1>12, <2>1, <2>2 DEF GetDone, Unlock, Types, TypeOK
<1>13. CASE GetGiveUp(p)
  <2>1. pc' \in [Rank -> Place] /\ call' \in [Rank -> CallType]
    BY Zenon, <1>1, <1>2, <1>3, <1>13 DEF GetGiveUp, Return, TypeOK
  <2> QED
    BY Zenon, <1>1, <1>13, <2>1, TypeFacts DEF GetGiveUp, Unlock, Types, TypeOK, Locked
<1>14. CASE SetOpen(p)
  <2>1. call[p].op # "close"
    BY <1>14, CallFacts DEF SetOpen, Control, CallOK
  <2>2. name' \in FileId /\ sfd' = [sfd EXCEPT ![p] = name'] /\ val' \in [FileId -> Nat]
    BY Zenon, <1>14, <2>1, OpenResult DEF SetOpen
  <2> QED
    BY Zenon, <1>1, <1>2, <1>14, <2>2 DEF SetOpen, Types, TypeOK
<1>15. CASE SetLock(p)
  <2>1. sfd[p] \in FileId
    BY Zenon, <1>15, TypeFacts DEF SetLock, Locked
  <2>2. pc' \in [Rank -> Place]
    BY Zenon, <1>1, <1>2, <1>15 DEF SetLock, TypeOK
  <2> QED
    BY Zenon, <1>1, <1>15, <2>1, <2>2 DEF SetLock, Types, TypeOK
<1>16. CASE SetWrite(p)
  BY Zenon, <1>1, <1>2, <1>16, TypeFacts, CallFacts DEF SetWrite, Types, TypeOK, Locked, Setting, Getting, TokenHere
<1>17. CASE SetDone(p)
  BY Zenon, <1>1, <1>2, <1>17, TypeFacts, CallFacts DEF Unlock, SetDone, Types, TypeOK, Locked, Setting, Getting, TokenHere
<1>18. CASE TokenRecv(p)
  BY Zenon, <1>1, <1>2, <1>18, TypeFacts, CallFacts DEF TokenRecv, Types, TypeOK, Locked, Setting, Getting, TokenHere
<1>19. CASE TokenSend(p)
  BY Zenon, <1>1, <1>2, <1>19, TypeFacts, CallFacts DEF PassToken, TokenSend, Types, TypeOK, Locked, Setting, Getting, TokenHere
<1>20. CASE CollTransfer(p)
  BY Zenon, <1>1, <1>2, <1>20, TypeFacts, CallFacts DEF Return, CollTransfer, Types, TypeOK, Locked, Setting, Getting, TokenHere
<1>21. CASE SeekBarrier(p)
  BY Zenon, <1>1, <1>2, <1>21, TypeFacts, CallFacts DEF Return, SeekBarrier, Types, TypeOK, Locked, Setting, Getting, TokenHere
<1>22. CASE CloseLeave(p)
  BY Zenon, <1>1, <1>2, <1>22, TypeFacts, CallFacts DEF RemoveName, CloseLeave, Types, TypeOK, Locked, Setting, Getting, TokenHere
<1> QED
  BY Zenon, <1>4, <1>5, <1>6, <1>7, <1>8, <1>9, <1>10, <1>11, <1>12, <1>13, <1>14, <1>15, <1>16, <1>17, <1>18, <1>19, <1>20, <1>21, <1>22 DEF Inside

\* The steps inside a call keep the ranks at their places.
LEMMA InsideControl ==
  ASSUME Control, Schedule, NameOK, LockOK, NEW p \in Rank, Inside(p)
  PROVE  Control' /\ prog' = prog /\ pos' = pos
<1>1. prog' = prog /\ pos' = pos /\ split' = split
  BY Zenon DEF Inside, SharedAccess, GetOpen, GetLock, GetRead, GetReadFails,
     GetWrite, WriteFails, OpenFails, GetDone, GetGiveUp, SetOpen, SetLock,
     SetWrite, SetDone, TokenRecv, TokenSend, CollTransfer, SeekBarrier, CloseLeave
<1>2. Step(p)
  BY Zenon DEF Inside, Step
<1>3. TypeOK' /\ pos' \in [Rank -> Nat] /\ call' \in [Rank -> CallType]
  BY Zenon, TypesInside DEF Types
<1>4. CloseIsLast'
  BY Zenon, <1>1 DEF Control, CloseIsLast
<1>5. CallOK(p)' /\ PlaceOK(p)'
  <2>1. PlaceOK(p)
    BY Zenon DEF Control
  <2>2. /\ CallOK(p)'
        /\ \/ call'[p].op = call[p].op
           \/ call[p].op # "close" /\ call'[p].op \in {"none", "shared"}
    BY Zenon, CallInside
  <2>3. \A o \in {"none", "shared"} : o \notin AnyOp
    BY DEF AnyOp, Ordered
  <2> QED
    BY Zenon, <1>1, <2>1, <2>2, <2>3 DEF PlaceOK
<1>6. ASSUME NEW q \in Rank, q # p PROVE CallOK(q)' /\ PlaceOK(q)'
  <2>1. CallOK(q) /\ PlaceOK(q)
    BY Zenon DEF Control
  <2>2. pc'[q] = pc[q] /\ call'[q] = call[q]
    BY Zenon, <1>2, <1>6, OthersStay
  <2> QED
    BY Zenon, <1>1, <2>1, <2>2 DEF CallOK, PlaceOK
<1> QED
  BY Zenon, <1>1, <1>3, <1>4, <1>5, <1>6 DEF Control

(***************************************************************************)
(* The first state, and steps that change nothing                           *)
(***************************************************************************)

\* What the proof needs to know of finite sets; it is proved below, from the
\* library's theorems.
Counting ==
    /\ Cardinality({}) = 0
    /\ \A n \in Nat : IsFiniteSet(1 .. n)
    /\ \A S : IsFiniteSet(S) => Cardinality(S) \in Nat
    /\ \A S, x : (IsFiniteSet(S) /\ x \notin S) =>
          Cardinality(S \cup {x}) = Cardinality(S) + 1
    /\ \A S : IsFiniteSet(S) => \A T \in SUBSET S :
          /\ IsFiniteSet(T)
          /\ Cardinality(T) <= Cardinality(S)
          /\ Cardinality(S) = Cardinality(T) => S = T

LEMMA RankFacts ==
  /\ 0 \in Rank /\ NP - 1 \in Rank
  /\ \A q \in Rank \ {0} : q - 1 \in Rank /\ q - 1 < q
  /\ \A q, r \in Rank : q < r => q \in Int /\ r \in Int /\ (q < r - 1 \/ q = r - 1)
  /\ \A q \in Rank : q # Last0 => q + 1 \in Rank \ {0} /\ q + 1 - 1 = q /\ q + 1 # q
BY SharedPointerAssumption DEF Rank, Last0

LEMMA InitControl == Init => Control
<1> HAVE Init
<1>1. /\ prog = << >> /\ Len(prog) = 0 /\ prog \in Seq(Collective)
      /\ Len(prog) <= MaxColl
  BY SharedPointerAssumption DEF Init
<1>2. pos \in [Rank -> Nat] /\ \A p \in Rank : pos[p] = 0 /\ pos[p] \in 0 .. Len(prog)
  BY <1>1 DEF Init
<1>3. call \in [Rank -> CallType] /\ pc \in [Rank -> Place]
  <2>1. Idle \in CallType /\ "idle" \in Place
    BY DEF CallType, Place
  <2> QED
    BY Zenon, <2>1 DEF Init
<1>4. TypeOK
  <2>1. /\ 0 \in 0 .. MaxShared /\ 0 \in 0 .. MaxFaults
        /\ 0 \in Nat /\ 0 \in Int /\ 0 \in {0, 1}
    BY SharedPointerAssumption
  <2>2. lost \in BOOLEAN
    BY Zenon DEF Init
  <2> QED
    BY Zenon, <1>1, <1>2, <1>3, <2>1, <2>2 DEF Init, TypeOK
<1>5. CloseIsLast
  BY <1>1 DEF CloseIsLast
<1>6. ASSUME NEW p \in Rank PROVE CallOK(p) /\ PlaceOK(p)
  <2>1. call[p] = Idle /\ pc[p] = "idle" /\ split[p] = 0 /\ pos[p] = 0
    BY DEF Init
  <2>2. ~ SplitActive(prog, 0)
    BY DEF SplitActive
  <2>3. call[p].op = "none"
    BY <2>1 DEF Idle
  <2>4. CallOK(p)
    BY <2>1, <2>3 DEF CallOK, Ordered
  <2>5. call[p].op \notin AnyOp
    BY <2>3 DEF AnyOp, Ordered
  <2> QED
    BY <1>2, <2>1, <2>2, <2>4, <2>5 DEF PlaceOK
<1> QED
  BY Zenon, <1>2, <1>3, <1>4, <1>5, <1>6 DEF Control

\* Nothing has been called at the start.
LEMMA NoCalls == \A P, x, O : Calls(P, 0, x, O) = {}
BY DEF Calls

LEMMA InitInv ==
  ASSUME Counting, Init
  PROVE  Inv
<1>1. Control
  BY Zenon, InitControl
<1>2. ASSUME NEW p \in Rank
      PROVE  /\ Entered(p) = {} /\ Departed(p) = {} /\ Received(p) = {}
             /\ Sent(p) = {}
             /\ pos[p] = 0 /\ token[p] = 0 /\ bar[p] = 0 /\ sfd[p] = NULL
             /\ pc[p] = "idle" 
  <2>1. pos[p] = 0 /\ token[p] = 0 /\ bar[p] = 0 /\ sfd[p] = NULL /\ pc[p] = "idle"
    BY DEF Init
  <2> QED
    BY Zenon, <2>1, NoCalls DEF Entered, Departed, Received, Sent
<1>3. SeeksSet = {}
  BY Zenon, <1>2, NoCalls, RankFacts DEF SeeksSet
<1>4. Cardinality({}) = 0
  BY Zenon DEF Counting
<1>5. Schedule
  <2>1. gen = 0 /\ 0 - 0 = 0
    BY DEF Init
  <2>2. \A q \in Rank \ {0} : q - 1 \in Rank
    BY Zenon, RankFacts
  <2>3. \A q \in Rank \ {0} :
          token[q] = Cardinality(Sent(q - 1)) - Cardinality(Received(q))
    BY Zenon, <1>2, <1>4, <2>1, <2>2
  <2> QED
    BY Zenon, <1>2, <1>3, <1>4, <2>1, <2>3 DEF Schedule
<1>6. /\ name = NULL /\ claims = {} /\ gen = 0 /\ base = 0
  BY Zenon DEF Init
<1>7. NameOK
  <2>1. \A p \in Rank : pc[p] # "closed"
    BY Zenon, <1>2, "idle" # "closed"
  <2> QED
    BY Zenon, <1>2, <1>6, <2>1 DEF NameOK
<1>8. LockOK
  <2>1. "idle" \notin Locked /\ "idle" # "lockfirst" /\ "idle" # "write"
    BY DEF Locked
  <2> QED
    BY Zenon, <1>2, <2>1 DEF LockOK, LockAt
<1>9. ClaimsOK /\ OrderedByRank /\ SeekVisible /\ OrderedBeforeSeek
  BY Zenon, <1>6 DEF ClaimsOK, OrderedByRank, SeekVisible, OrderedBeforeSeek
<1>10. PointerAhead /\ RegionsTile
  BY Zenon, <1>6 DEF PointerAhead, RegionsTile
<1> QED
  BY Zenon, <1>1, <1>5, <1>7, <1>8, <1>9, <1>10 DEF Inv

LEMMA StutterInv == Inv /\ UNCHANGED vars => Inv'
<1> SUFFICES ASSUME Inv, UNCHANGED vars PROVE Inv'
  OBVIOUS
<1>1. /\ UNCHANGED <<prog, pos, pc, call, fp, sfd, split>>
      /\ UNCHANGED <<name, val, lock, token, bar, shared, faults>>
      /\ UNCHANGED <<claims, gen, base, lost>>
  BY Zenon DEF vars
<1>2. Control'
  BY Zenon, <1>1 DEF Inv, Control, TypeOK, CloseIsLast, CallOK, PlaceOK
<1>3. Schedule'
  BY Zenon, <1>1 DEF Inv, Schedule, Departed, Entered, Sent, Received, SeeksSet,
     BeforeBarrier, Outside, Unset
<1>4. NameOK' /\ LockOK'
  BY Zenon, <1>1 DEF Inv, NameOK, LockOK, LockAt
<1>5. ClaimsOK' /\ PointerAhead'
  BY Zenon, <1>1 DEF Inv, ClaimsOK, PointerAhead, Received
<1>6. RegionsTile' /\ OrderedByRank'
  BY Zenon, <1>1 DEF Inv, RegionsTile, Current, OrderedByRank
<1>7. SeekVisible' /\ OrderedBeforeSeek'
  BY Zenon, <1>1 DEF Inv, SeekVisible, OrderedBeforeSeek, SeeksBefore
<1> QED
  BY Zenon, <1>2, <1>3, <1>4, <1>5, <1>6, <1>7 DEF Inv

(***************************************************************************)
(* The sets of synchronising calls and their sizes                          *)
(***************************************************************************)

\* The set of synchronising calls, which bar, token and gen count, is finite.
LEMMA CallsFinite ==
  ASSUME Counting, NEW P, NEW n \in Nat, NEW x, NEW O
  PROVE  /\ IsFiniteSet(Calls(P, n, x, O))
         /\ Cardinality(Calls(P, n, x, O)) \in Nat
<1>1. IsFiniteSet(1 .. n)
  BY Zenon DEF Counting
<1>2. Calls(P, n, x, O) \in SUBSET (1 .. n)
  BY Zenon DEF Calls
<1>3. IsFiniteSet(Calls(P, n, x, O))
  BY Zenon, <1>1, <1>2 DEF Counting
<1> QED
  BY Zenon, <1>3 DEF Counting

\* Two sets of calls of one program with the same operations are comparable, the
\* one that counts more being the larger: this is what AllEntered tests.
LEMMA CallsCompare ==
  ASSUME Counting, NEW P, NEW n \in Nat, NEW m \in Nat, NEW x \in BOOLEAN,
         NEW y \in BOOLEAN,
         NEW O,
         Cardinality(Calls(P, n, x, O)) <= Cardinality(Calls(P, m, y, O)),
         NEW k \in Calls(P, n, x, O)
  PROVE  k \in Calls(P, m, y, O)
<1> DEFINE A == Calls(P, n, x, O)
           B == Calls(P, m, y, O)
<1>1. A \subseteq B \/ B \subseteq A
  <2>1. ASSUME n < m PROVE A \subseteq B
    BY <2>1 DEF Calls
  <2>2. ASSUME m < n PROVE B \subseteq A
    BY <2>2 DEF Calls
  <2>3. ASSUME m = n PROVE A \subseteq B \/ B \subseteq A
    BY Zenon, <2>3 DEF Calls
  <2> QED
    BY <2>1, <2>2, <2>3
<1>2. IsFiniteSet(A) /\ Cardinality(A) \in Nat /\ Cardinality(B) \in Nat
  BY Zenon, CallsFinite
<1>3. ASSUME B \subseteq A PROVE A = B
  <2>1. Cardinality(B) <= Cardinality(A)
    BY Zenon, <1>2, <1>3 DEF Counting
  <2>2. Cardinality(A) = Cardinality(B)
    BY <2>1, <1>2
  <2> QED
    BY Zenon, <2>2, <1>2, <1>3 DEF Counting
<1> QED
  BY Zenon, <1>1, <1>3

\* Finishing the pending part of a call adds that call, and it is new.
LEMMA CallsFinish ==
  ASSUME Counting, NEW P, NEW n \in Nat, n # 0, NEW O, P[n].op \in O,
         Synchronises(P, n)
  PROVE  /\ Calls(P, n, FALSE, O) = Calls(P, n, TRUE, O) \cup {n}
         /\ n \notin Calls(P, n, TRUE, O)
         /\ Cardinality(Calls(P, n, FALSE, O)) =
               Cardinality(Calls(P, n, TRUE, O)) + 1
<1>1. n \in 1 .. n
  OBVIOUS
<1>2. Calls(P, n, FALSE, O) = Calls(P, n, TRUE, O) \cup {n}
  BY Zenon, <1>1 DEF Calls
<1>3. n \notin Calls(P, n, TRUE, O)
  BY Zenon DEF Calls
<1>4. IsFiniteSet(Calls(P, n, TRUE, O))
  BY Zenon, CallsFinite
<1>5. Cardinality(Calls(P, n, TRUE, O) \cup {n}) =
        Cardinality(Calls(P, n, TRUE, O)) + 1
  BY Zenon, <1>3, <1>4 DEF Counting
<1> QED
  BY Zenon, <1>2, <1>3, <1>5

\* The sets of calls follow the places of the ranks.
LEMMA InsideSets ==
  ASSUME Control, NEW p \in Rank, Step(p), prog' = prog, pos' = pos
  PROVE  /\ \A q \in Rank : q # p =>
              /\ Entered(q)' = Entered(q) /\ Departed(q)' = Departed(q)
              /\ Received(q)' = Received(q) /\ Sent(q)' = Sent(q)
         /\ (BeforeBarrier(p)' <=> BeforeBarrier(p)) =>
              Entered(p)' = Entered(p) /\ Sent(p)' = Sent(p)
         /\ (Outside(p)' <=> Outside(p)) => Departed(p)' = Departed(p)
         /\ (pc'[p] = "recv" <=> pc[p] = "recv") => Received(p)' = Received(p)
         /\ (p = 0 => (Unset' <=> Unset)) => SeeksSet' = SeeksSet
<1>1. ASSUME NEW q \in Rank, q # p
      PROVE  /\ BeforeBarrier(q)' <=> BeforeBarrier(q)
             /\ Outside(q)' <=> Outside(q)
             /\ pc'[q] = "recv" <=> pc[q] = "recv"
             /\ q = 0 => (Unset' <=> Unset)
  <2>1. pc'[q] = pc[q] /\ call'[q] = call[q]
    BY Zenon, <1>1, OthersStay
  <2> QED
    BY Zenon, <2>1 DEF BeforeBarrier, Outside, Unset
<1>2. ASSUME NEW q \in Rank
      PROVE  /\ (BeforeBarrier(q)' <=> BeforeBarrier(q)) =>
                  Entered(q)' = Entered(q) /\ Sent(q)' = Sent(q)
             /\ (Outside(q)' <=> Outside(q)) => Departed(q)' = Departed(q)
             /\ (pc'[q] = "recv" <=> pc[q] = "recv") => Received(q)' = Received(q)
  BY Zenon DEF Entered, Sent, Departed, Received, Calls
<1>3. (p = 0 => (Unset' <=> Unset)) => SeeksSet' = SeeksSet
  <2>1. 0 \in Rank
    BY SharedPointerAssumption DEF Rank
  <2>2. (Unset' <=> Unset) => SeeksSet' = SeeksSet
    BY Zenon DEF SeeksSet, Calls
  <2> QED
    BY Zenon, <1>1, <2>1, <2>2
<1> QED
  BY Zenon, <1>1, <1>2, <1>3

\* The call a rank is in, for the sets it is pending in.
LEMMA PendingCall ==
  ASSUME Counting, Control, NEW p \in Rank, NEW O, call[p].op \in O,
         call[p].op \in AnyOp
  PROVE  /\ pos[p] \in Nat /\ pos[p] # 0
         /\ prog[pos[p]].op = call[p].op /\ Synchronises(prog, pos[p])
         /\ Calls(prog, pos[p], FALSE, O) = Calls(prog, pos[p], TRUE, O) \cup {pos[p]}
         /\ pos[p] \notin Calls(prog, pos[p], TRUE, O)
         /\ Cardinality(Calls(prog, pos[p], FALSE, O)) =
               Cardinality(Calls(prog, pos[p], TRUE, O)) + 1
<1>1. /\ pos[p] \in Nat /\ pos[p] # 0
      /\ prog[pos[p]].op = call[p].op /\ Synchronises(prog, pos[p])
  BY Zenon DEF Control, PlaceOK
<1>2. prog[pos[p]].op \in O
  BY Zenon, <1>1
<1> QED
  BY Zenon, <1>1, <1>2, CallsFinish

\* A call is in a set of calls with other operations neither before nor after.
LEMMA CallsOther ==
  ASSUME NEW P, NEW n, NEW x, NEW y, NEW O, P[n].op \notin O
  PROVE  Calls(P, n, x, O) = Calls(P, n, y, O)
BY Zenon DEF Calls

LEMMA CallsFlag ==
  ASSUME NEW P, NEW n, NEW x \in BOOLEAN, NEW O
  PROVE  /\ x => Calls(P, n, x, O) = Calls(P, n, TRUE, O)
         /\ ~ x => Calls(P, n, x, O) = Calls(P, n, FALSE, O)
BY Zenon

LEMMA FlagTypes ==
  /\ \A p \in Rank : /\ BeforeBarrier(p) \in BOOLEAN /\ (~ Outside(p)) \in BOOLEAN
                     /\ (pc[p] = "recv") \in BOOLEAN
  /\ Unset \in BOOLEAN
  /\ \A p \in Rank : /\ BeforeBarrier(p)' \in BOOLEAN /\ (~ Outside(p))' \in BOOLEAN
                     /\ (pc[p] = "recv")' \in BOOLEAN
  /\ Unset' \in BOOLEAN
BY Zenon DEF BeforeBarrier, Outside, Unset

\* A is the set of the synchronising calls with operations of O up to some point
\* of program P.  Of two such sets the one that counts more is the larger: this
\* is what AllEntered and TokenHere test.
Initial(A, P, O) == \E n \in Nat, x \in BOOLEAN : A = Calls(P, n, x, O)

\* The comparison of two such sets by their sizes.
LEMMA InitialCompare ==
  ASSUME Counting, NEW A, NEW B, NEW P, NEW O, Initial(A, P, O), Initial(B, P, O),
         Cardinality(A) <= Cardinality(B), NEW k \in A
  PROVE  k \in B
<1>1. PICK n \in Nat, x \in BOOLEAN : A = Calls(P, n, x, O)
  BY Zenon DEF Initial
<1>2. PICK m \in Nat, y \in BOOLEAN : B = Calls(P, m, y, O)
  BY Zenon DEF Initial
<1>3. /\ Cardinality(Calls(P, n, x, O)) <= Cardinality(Calls(P, m, y, O))
      /\ k \in Calls(P, n, x, O)
  BY Zenon, <1>1, <1>2
<1>4. k \in Calls(P, m, y, O)
  BY Zenon, <1>3, CallsCompare
<1> QED
  BY Zenon, <1>2, <1>4

LEMMA InitialSets ==
  ASSUME Control, NEW p \in Rank
  PROVE  /\ Initial(Entered(p), prog, Meeting)
         /\ Initial(Sent(p), prog, Ordered)
         /\ Initial(Calls(prog, pos[p], FALSE, Ordered), prog, Ordered)
<1>1. pos[p] \in Nat /\ BeforeBarrier(p) \in BOOLEAN
  BY Zenon, FlagTypes DEF Control
<1>2. Initial(Entered(p), prog, Meeting)
  BY Zenon, <1>1 DEF Initial, Entered
<1>3. Initial(Sent(p), prog, Ordered)
  BY Zenon, <1>1 DEF Initial, Sent
<1>4. Initial(Calls(prog, pos[p], FALSE, Ordered), prog, Ordered)
  BY Zenon, <1>1 DEF Initial
<1> QED
  BY Zenon, <1>2, <1>3, <1>4

(***************************************************************************)
(* Tokens, barriers and seeks: the steps inside a synchronising call        *)
(***************************************************************************)

\* MPI_Send of the token, and the rank comes to the collective transfer.
LEMMA TokenSendSchedule ==
  ASSUME Counting, Control, Schedule, NEW p \in Rank, TokenSend(p)
  PROVE  Schedule' /\ \A q \in Rank : Received(q)' = Received(q)
<1> DEFINE k == pos[p]
<1>1. /\ prog' = prog /\ pos' = pos /\ gen' = gen /\ call' = call
      /\ pc[p] = "send" /\ pc' = [pc EXCEPT ![p] = "coll"]
      /\ token' = IF p = Last0 THEN token ELSE [token EXCEPT ![p + 1] = token[p + 1] + 1]
      /\ bar' = IF call[p].op \in Gathering THEN [bar EXCEPT ![p] = bar[p] + 1] ELSE bar
  BY Zenon DEF TokenSend, Goto, PassToken
<1>2. Step(p)
  BY Zenon DEF Step
<1>3. /\ pc'[p] = "coll" /\ CallOK(p) /\ call[p].op \in {"none", "shared"} \cup AnyOp
      /\ token \in [Rank -> Int] /\ bar \in [Rank -> Nat]
  BY Zenon, <1>1, OpCases DEF Control, TypeOK
<1>4. call[p].op \in Ordered /\ call[p].op \in AnyOp
  BY <1>1, <1>3 DEF CallOK, AnyOp, Getting, Setting
<1>5. /\ BeforeBarrier(p) /\ ~ BeforeBarrier(p)'
      /\ Outside(p)' <=> Outside(p)
      /\ p = 0 => (Unset' <=> Unset)
      /\ pc'[p] = "recv" <=> pc[p] = "recv"
  BY <1>1, <1>3, <1>4 DEF BeforeBarrier, Outside, Unset, Ordered
<1>6. /\ \A q \in Rank : /\ q # p => Entered(q)' = Entered(q) /\ Sent(q)' = Sent(q)
                         /\ Departed(q)' = Departed(q)
                         /\ Received(q)' = Received(q)
      /\ SeeksSet' = SeeksSet
  BY Zenon, <1>1, <1>2, <1>5, InsideSets
<1>7. /\ Entered(p) = Calls(prog, k, TRUE, Meeting)
      /\ Entered(p)' = Calls(prog, k, FALSE, Meeting)
      /\ Sent(p) = Calls(prog, k, TRUE, Ordered)
      /\ Sent(p)' = Calls(prog, k, FALSE, Ordered)
  BY Zenon, <1>1, <1>5, FlagTypes, CallsFlag DEF Entered, Sent
<1>8. IF call[p].op \in Gathering
      THEN /\ Entered(p)' = Entered(p) \cup {k}
           /\ Cardinality(Entered(p)') = Cardinality(Entered(p)) + 1
      ELSE Entered(p)' = Entered(p)
  <2>1. CASE call[p].op \in Gathering
    <3>1. call[p].op \in Meeting
      BY Zenon, <2>1 DEF Meeting
    <3>2. /\ Entered(p)' = Entered(p) \cup {k}
          /\ Cardinality(Entered(p)') = Cardinality(Entered(p)) + 1
      BY Zenon, <1>4, <1>7, <3>1, PendingCall
    <3> QED
      BY Zenon, <2>1, <3>2
  <2>2. CASE call[p].op \notin Gathering
    <3>1. call[p].op \notin Meeting
      BY <1>4, <2>2 DEF Meeting, Ordered
    <3>2. prog[k].op \notin Meeting
      BY Zenon, <1>4, <3>1, PendingCall
    <3> QED
      BY Zenon, <1>7, <2>2, <3>2, CallsOther
  <2> QED
    BY Zenon, <2>1, <2>2
<1>9. /\ Sent(p)' = Sent(p) \cup {k}
      /\ Cardinality(Sent(p)') = Cardinality(Sent(p)) + 1
  BY Zenon, <1>4, <1>7, PendingCall
<1>10. \A q \in Rank : /\ Cardinality(Sent(q)) \in Nat
                       /\ Cardinality(Received(q)) \in Nat
  BY Zenon, CallsFinite DEF Control, Sent, Received
<1>11. ASSUME NEW q \in Rank \ {0}
       PROVE  token'[q] = Cardinality(Sent(q - 1)') - Cardinality(Received(q)')
  <2>1. /\ token[q] = Cardinality(Sent(q - 1)) - Cardinality(Received(q))
        /\ q - 1 \in Rank /\ Received(q)' = Received(q)
    BY Zenon, <1>6, RankFacts DEF Schedule
  <2>2. CASE q - 1 = p
    <3>1. q = p + 1 /\ p # Last0
      BY <2>2, SharedPointerAssumption DEF Rank, Last0
    <3>2. token'[q] = token[q] + 1
      BY Zenon, <1>1, <1>3, <3>1
    <3>3. Cardinality(Sent(q - 1)') = Cardinality(Sent(q - 1)) + 1
      BY Zenon, <1>9, <2>2
    <3>4. Cardinality(Sent(q - 1)) \in Nat /\ Cardinality(Received(q)) \in Nat
      BY Zenon, <1>10, <2>1
    <3>5. token'[q] = Cardinality(Sent(q - 1)') - Cardinality(Received(q))
      BY <2>1, <3>2, <3>3, <3>4
    <3> QED
      BY Zenon, <2>1, <3>5
  <2>3. CASE q - 1 # p
    <3>1. q # p + 1
      BY <2>3 DEF Rank
    <3>2. token'[q] = token[q]
      BY Zenon, <1>1, <1>3, <3>1
    <3> QED
      BY Zenon, <1>6, <2>1, <2>3, <3>2
  <2> QED
    BY Zenon, <2>2, <2>3
<1>12. ASSUME NEW q \in Rank
       PROVE  Entered(q) \subseteq Entered(q)' /\ Sent(q) \subseteq Sent(q)'
  BY Zenon, <1>6, <1>8, <1>9
<1>13. ASSUME NEW q \in Rank, NEW r \in Rank, q < r
       PROVE  Received(r)' \subseteq Sent(q)'
  <2>1. Received(r) \subseteq Sent(q) /\ Received(r)' = Received(r)
    BY Zenon, <1>6, <1>13 DEF Schedule
  <2> QED
    BY Zenon, <1>12, <2>1
<1>14. ASSUME NEW q \in Rank, NEW r \in Rank
       PROVE  Departed(q)' \subseteq Entered(r)'
  <2>1. Departed(q) \subseteq Entered(r) /\ Departed(q)' = Departed(q)
    BY Zenon, <1>6 DEF Schedule
  <2> QED
    BY Zenon, <1>12, <2>1
<1>15. ASSUME NEW q \in Rank PROVE bar'[q] = Cardinality(Entered(q)')
  <2>1. bar[q] = Cardinality(Entered(q))
    BY Zenon DEF Schedule
  <2>2. CASE q = p
    BY Zenon, <1>1, <1>3, <1>8, <2>1, <2>2
  <2>3. CASE q # p
    BY Zenon, <1>1, <1>3, <1>6, <2>1, <2>3
  <2> QED
    BY Zenon, <2>2, <2>3
<1>16. gen' = Cardinality(SeeksSet')
  BY Zenon, <1>1, <1>6 DEF Schedule
<1> QED
  BY Zenon, <1>6, <1>11, <1>13, <1>14, <1>15, <1>16 DEF Schedule

\* MPI_Recv of the token: the rank before has sent it in this very call, and so
\* have all the ranks before that one.
LEMMA TokenRecvSchedule ==
  ASSUME Counting, Control, Schedule, NEW p \in Rank, TokenRecv(p)
  PROVE  /\ Schedule'
         /\ \A q \in Rank : Received(q) \subseteq Received(q)'
<1> DEFINE k == pos[p]
<1>1. /\ prog' = prog /\ pos' = pos /\ bar' = bar /\ gen' = gen /\ call' = call
      /\ pc[p] = "recv" /\ pc' = [pc EXCEPT ![p] = "get"]
      /\ token' = IF p = 0 THEN token ELSE [token EXCEPT ![p] = token[p] - 1]
      /\ p # 0 => token[p] > 0
  BY Zenon DEF TokenRecv, Goto, TokenHere
<1>2. Step(p)
  BY Zenon DEF Step
<1>3. pc'[p] = "get" /\ CallOK(p) /\ call[p].op \in {"none", "shared"} \cup AnyOp
  BY Zenon, <1>1, OpCases DEF Control, TypeOK
<1>4. call[p].op \in Ordered /\ call[p].op \in AnyOp
  BY <1>1, <1>3 DEF CallOK, AnyOp, Getting, Setting
<1>5. /\ BeforeBarrier(p)' <=> BeforeBarrier(p)
      /\ Outside(p)' <=> Outside(p)
      /\ p = 0 => (Unset' <=> Unset)
      /\ pc'[p] # "recv" /\ BeforeBarrier(p)
  BY <1>1, <1>3, <1>4 DEF BeforeBarrier, Outside, Unset, Ordered
<1>6. /\ \A q \in Rank : /\ Entered(q)' = Entered(q) /\ Departed(q)' = Departed(q)
                         /\ Sent(q)' = Sent(q)
                         /\ q # p => Received(q)' = Received(q)
      /\ SeeksSet' = SeeksSet
  BY Zenon, <1>1, <1>2, <1>5, InsideSets
<1>7. /\ Received(p) = Calls(prog, k, TRUE, Ordered)
      /\ Received(p)' = Calls(prog, k, FALSE, Ordered)
  BY Zenon, <1>1, <1>5, FlagTypes, CallsFlag DEF Received
<1>8. /\ k \in Nat /\ k # 0 /\ prog[k].op \in Ordered /\ Synchronises(prog, k)
      /\ Received(p)' = Received(p) \cup {k}
      /\ Cardinality(Received(p)') = Cardinality(Received(p)) + 1
  BY Zenon, <1>4, <1>7, PendingCall
<1>9. \A q \in Rank : /\ Cardinality(Sent(q)) \in Nat
                      /\ Cardinality(Received(q)) \in Nat
  BY Zenon, CallsFinite DEF Control, Sent, Received
<1>10. /\ token \in [Rank -> Int]
       /\ \A q \in Rank \ {0} : q - 1 \in Rank /\ q - 1 < q
       /\ \A q, r \in Rank : q < r => q \in Int /\ r \in Int /\ (q < r - 1 \/ q = r - 1)
  <2>1. token \in [Rank -> Int]
    BY Zenon DEF Control, TypeOK
  <2> QED
    BY Zenon, <2>1, RankFacts
<1>11. \A q \in Rank \ {0} :
          token[q] = Cardinality(Sent(q - 1)) - Cardinality(Received(q))
  BY Zenon DEF Schedule
<1>12. ASSUME p # 0 PROVE k \in Sent(p - 1)
  <2>1. p \in Rank \ {0} /\ p - 1 \in Rank
    BY Zenon, <1>10, <1>12
  <2>2. token[p] = Cardinality(Sent(p - 1)) - Cardinality(Received(p)) /\ token[p] > 0
    BY Zenon, <1>1, <1>11, <1>12, <2>1
  <2>3. Cardinality(Received(p)) + 1 <= Cardinality(Sent(p - 1))
    BY <1>9, <2>1, <2>2
  <2>4. Cardinality(Received(p)') <= Cardinality(Sent(p - 1))
    BY Zenon, <1>8, <2>3
  <2>5. Initial(Received(p)', prog, Ordered) /\ Initial(Sent(p - 1), prog, Ordered)
    BY Zenon, <1>7, <2>1, InitialSets
  <2>6. k \in Received(p)'
    BY Zenon, <1>8
  <2> QED
    BY Zenon, <2>4, <2>5, <2>6, InitialCompare
<1>13. ASSUME NEW q \in Rank, q < p PROVE k \in Sent(q)
  <2>1. p # 0 /\ (q < p - 1 \/ q = p - 1)
    BY <1>10, <1>13 DEF Rank
  <2>2. CASE q = p - 1
    BY Zenon, <1>12, <2>1, <2>2
  <2>3. CASE q < p - 1
    <3>1. p - 1 \in Rank /\ k \in Sent(p - 1)
      BY Zenon, <1>10, <1>12, <2>1
    <3>2. Received(p - 1) \subseteq Sent(q)
      BY Zenon, <2>3, <3>1 DEF Schedule
    <3>3. Sent(p - 1) \subseteq Received(p - 1)
      <4>1. CallOK(p - 1) /\ (pc[p - 1] = "recv" => BeforeBarrier(p - 1))
        <5>1. CallOK(p - 1) /\ call[p - 1].op \in {"none", "shared"} \cup AnyOp
          BY Zenon, <3>1, OpCases DEF Control
        <5> QED
          BY <5>1 DEF CallOK, BeforeBarrier, Getting
      <4> QED
        BY Zenon, <4>1 DEF Sent, Received, Calls
    <3> QED
      BY Zenon, <3>1, <3>2, <3>3
  <2> QED
    BY Zenon, <2>1, <2>2, <2>3
<1>14. ASSUME NEW q \in Rank, NEW r \in Rank, q < r
       PROVE  Received(r)' \subseteq Sent(q)'
  <2>1. Received(r) \subseteq Sent(q) /\ Sent(q)' = Sent(q)
    BY Zenon, <1>6, <1>14 DEF Schedule
  <2>2. CASE r = p
    BY Zenon, <1>8, <1>13, <1>14, <2>1, <2>2
  <2>3. CASE r # p
    BY Zenon, <1>6, <2>1, <2>3
  <2> QED
    BY Zenon, <2>2, <2>3
<1>15. ASSUME NEW q \in Rank \ {0}
       PROVE  token'[q] = Cardinality(Sent(q - 1)') - Cardinality(Received(q)')
  <2>1. /\ token[q] = Cardinality(Sent(q - 1)) - Cardinality(Received(q))
        /\ Sent(q - 1)' = Sent(q - 1) /\ q - 1 \in Rank
    BY Zenon, <1>6, <1>10, <1>11
  <2>2. CASE q = p
    <3>1. token'[q] = token[q] - 1
      BY Zenon, <1>1, <1>10, <2>2
    <3>2. Cardinality(Received(q)') = Cardinality(Received(q)) + 1
      BY Zenon, <1>8, <2>2
    <3>3. Cardinality(Sent(q - 1)) \in Nat /\ Cardinality(Received(q)) \in Nat
      BY Zenon, <1>9, <2>1
    <3>4. token'[q] = Cardinality(Sent(q - 1)) - Cardinality(Received(q)')
      BY <2>1, <3>1, <3>2, <3>3
    <3> QED
      BY Zenon, <2>1, <3>4
  <2>3. CASE q # p
    <3>1. token'[q] = token[q] /\ Received(q)' = Received(q)
      BY Zenon, <1>1, <1>6, <1>10, <2>3
    <3> QED
      BY Zenon, <2>1, <3>1
  <2> QED
    BY Zenon, <2>2, <2>3
<1>16. /\ \A q, r \in Rank : Departed(q)' \subseteq Entered(r)'
       /\ \A q \in Rank : bar'[q] = Cardinality(Entered(q)')
       /\ gen' = Cardinality(SeeksSet')
  BY Zenon, <1>1, <1>6 DEF Schedule
<1>17. \A q \in Rank : Received(q) \subseteq Received(q)'
  BY Zenon, <1>6, <1>8
<1> QED
  BY Zenon, <1>14, <1>15, <1>16, <1>17 DEF Schedule

Leaves(p) == CollTransfer(p) \/ SeekBarrier(p) \/ CloseLeave(p)

\* A rank leaves a synchronising call: all the others have come to it.
LEMMA LeaveSchedule ==
  ASSUME Counting, Control, Schedule, NEW p \in Rank, Leaves(p)
  PROVE  Schedule' /\ \A q \in Rank : Received(q)' = Received(q)
<1>1. /\ prog' = prog /\ pos' = pos /\ gen' = gen /\ token' = token /\ bar' = bar
      /\ call[p].op \in Meeting => \A q \in Rank : bar[q] >= bar[p]
  <2>1. "seek_shared" \notin Gathering /\ "close" \notin Gathering
    BY DEF Gathering, Ordered
  <2>2. CASE CollTransfer(p)
    <3>1. call[p].op \notin {"seek_shared", "close"}
      BY <2>2 DEF CollTransfer, Control, CallOK, Getting, Setting
    <3> QED
      BY Zenon, <2>2, <3>1 DEF CollTransfer, CollGathered, AllEntered, Meeting
  <2> QED
    BY Zenon, <2>2 DEF Leaves, SeekBarrier, CloseLeave, SeekSynced, CloseSynced, AllEntered
<1>2. Step(p)
  BY Zenon DEF Step, Leaves
<1>3. /\ DOMAIN pc = Rank /\ DOMAIN call = Rank /\ Idle.op = "none"
      /\ CallOK(p) /\ call[p].op \in {"none", "shared"} \cup AnyOp
      /\ bar \in [Rank -> Nat]
  BY Zenon, OpCases DEF Control, TypeOK, Idle
<1>4. /\ call[p].op \in AnyOp /\ pc[p] \in {"coll", "barrier"}
      /\ ~ BeforeBarrier(p)' /\ Outside(p)' /\ pc'[p] # "recv"
      /\ p = 0 => (Unset' <=> Unset)
  <2>1. CASE CollTransfer(p)
    <3>1. pc[p] = "coll" /\ pc'[p] = "idle" /\ call'[p] = Idle
      BY Zenon, <1>3, <2>1 DEF CollTransfer, Return, Goto
    <3>2. call[p].op \in Ordered
      BY <1>3, <3>1 DEF CallOK, AnyOp, Getting, Setting
    <3> QED
      BY <1>3, <3>1, <3>2 DEF BeforeBarrier, Outside, Unset, AnyOp, Ordered
  <2>2. CASE SeekBarrier(p)
    BY <1>3, <2>2 DEF SeekBarrier, Return, Goto, BeforeBarrier, Outside,
       Unset, AnyOp, Ordered
  <2>3. CASE CloseLeave(p)
    BY <1>3, <2>3 DEF CloseLeave, Goto, BeforeBarrier, Outside,
       Unset, AnyOp, Ordered
  <2> QED
    BY Zenon, <2>1, <2>2, <2>3 DEF Leaves
<1>5. ~ BeforeBarrier(p) /\ pc[p] # "recv"
  BY <1>4 DEF BeforeBarrier
<1>6. /\ \A q \in Rank : /\ Entered(q)' = Entered(q) /\ Sent(q)' = Sent(q)
                         /\ q # p => Departed(q)' = Departed(q)
                         /\ Received(q)' = Received(q)
      /\ SeeksSet' = SeeksSet
  BY Zenon, <1>1, <1>2, <1>4, <1>5, InsideSets
<1>7. /\ Departed(p)' = Entered(p)
      /\ call[p].op \notin Meeting => Departed(p)' = Departed(p)
  <2>1. Departed(p)' = Calls(prog, pos[p], FALSE, Meeting)
    BY Zenon, <1>1, <1>4, FlagTypes, CallsFlag DEF Departed
  <2>2. Entered(p) = Calls(prog, pos[p], FALSE, Meeting)
    BY Zenon, <1>5, FlagTypes, CallsFlag DEF Entered
  <2>3. ASSUME call[p].op \notin Meeting PROVE Departed(p)' = Departed(p)
    <3>1. prog[pos[p]].op \notin Meeting
      BY Zenon, <1>4, <2>3, PendingCall
    <3> QED
      BY Zenon, <2>1, <3>1, CallsOther DEF Departed
  <2> QED
    BY Zenon, <2>1, <2>2, <2>3
<1>8. ASSUME NEW q \in Rank, call[p].op \in Meeting, NEW k \in Entered(p)
      PROVE  k \in Entered(q)
  <2>1. bar[p] = Cardinality(Entered(p)) /\ bar[q] = Cardinality(Entered(q))
    BY Zenon DEF Schedule
  <2>2. bar[p] <= bar[q]
    BY <1>1, <1>3, <1>8
  <2>3. Cardinality(Entered(p)) <= Cardinality(Entered(q))
    BY Zenon, <2>1, <2>2
  <2>4. Initial(Entered(p), prog, Meeting) /\ Initial(Entered(q), prog, Meeting)
    BY Zenon, InitialSets
  <2> QED
    BY Zenon, <2>3, <2>4, InitialCompare
<1>9. ASSUME NEW q \in Rank, NEW r \in Rank
      PROVE  Departed(r)' \subseteq Entered(q)'
  <2>1. Departed(r) \subseteq Entered(q)
    BY Zenon DEF Schedule
  <2>2. CASE r = p /\ call[p].op \in Meeting
    BY Zenon, <1>6, <1>7, <1>8, <2>2
  <2>3. CASE r # p \/ call[p].op \notin Meeting
    BY Zenon, <1>6, <1>7, <2>1, <2>3
  <2> QED
    BY Zenon, <2>2, <2>3
<1>10. \A q \in Rank \ {0} :
          token'[q] = Cardinality(Sent(q - 1)') - Cardinality(Received(q)')
  BY Zenon, <1>1, <1>6, RankFacts DEF Schedule
<1> QED
  BY Zenon, <1>1, <1>6, <1>9, <1>10 DEF Schedule

\* ADIO_Set_shared_fp has written: the seek counts, its barrier does not yet.
LEMMA SetWriteSchedule ==
  ASSUME Counting, Control, Schedule, NEW p \in Rank, SetWrite(p)
  PROVE  Schedule' /\ \A q \in Rank : Received(q)' = Received(q)
<1>1. /\ prog' = prog /\ pos' = pos /\ gen' = gen + 1 /\ call' = call
      /\ pc[p] = "setwrite" /\ pc' = [pc EXCEPT ![p] = "setunlock"]
      /\ token' = token /\ bar' = bar
  BY Zenon DEF SetWrite, Goto
<1>2. Step(p)
  BY Zenon DEF Step
<1>3. pc'[p] = "setunlock" /\ call[p].op = "seek_shared" /\ p = 0
  BY Zenon, <1>1, CallFacts DEF Control, TypeOK, Setting
<1>4. call[p].op \in {"seek_shared"} /\ call[p].op \in AnyOp
  BY Zenon, <1>3 DEF AnyOp
<1>5. /\ BeforeBarrier(p)' <=> BeforeBarrier(p)
      /\ Outside(p)' <=> Outside(p)
      /\ Unset /\ ~ Unset'
      /\ pc'[p] = "recv" <=> pc[p] = "recv"
  BY <1>1, <1>3, <1>4 DEF BeforeBarrier, Outside, Unset
<1>6. \A q \in Rank : /\ Entered(q)' = Entered(q) /\ Sent(q)' = Sent(q)
                      /\ Departed(q)' = Departed(q)
                      /\ Received(q)' = Received(q)
  BY Zenon, <1>1, <1>2, <1>5, InsideSets
<1>7. /\ SeeksSet = Calls(prog, pos[p], TRUE, {"seek_shared"})
      /\ SeeksSet' = Calls(prog, pos[p], FALSE, {"seek_shared"})
  BY Zenon, <1>1, <1>3, <1>5, FlagTypes, CallsFlag DEF SeeksSet
<1>8. Cardinality(SeeksSet') = Cardinality(SeeksSet) + 1
  BY Zenon, <1>4, <1>7, PendingCall
<1>9. gen' = Cardinality(SeeksSet')
  BY Zenon, <1>1, <1>8 DEF Schedule
<1>10. \A q \in Rank \ {0} :
          token'[q] = Cardinality(Sent(q - 1)') - Cardinality(Received(q)')
  BY Zenon, <1>1, <1>6, RankFacts DEF Schedule
<1> QED
  BY Zenon, <1>1, <1>6, <1>9, <1>10 DEF Schedule

\* Rank p comes to the barrier of a call without a token.
LEMMA ScheduleBarrier ==
  ASSUME Schedule, bar \in [Rank -> Nat], NEW p \in Rank, NEW k,
         \A q \in Rank : /\ q # p => Entered(q)' = Entered(q)
                         /\ Departed(q)' = Departed(q)
                         /\ Received(q)' = Received(q) /\ Sent(q)' = Sent(q),
         Entered(p)' = Entered(p) \cup {k},
         Cardinality(Entered(p)') = Cardinality(Entered(p)) + 1,
         SeeksSet' = SeeksSet,
         bar' = [bar EXCEPT ![p] = bar[p] + 1], token' = token, gen' = gen
  PROVE  Schedule'
<1>1. \A q \in Rank \ {0} : q - 1 \in Rank
  BY SharedPointerAssumption DEF Rank
<1>2. \A q \in Rank \ {0} :
         token'[q] = Cardinality(Sent(q - 1)') - Cardinality(Received(q)')
  BY Zenon, <1>1 DEF Schedule
<1>3. ASSUME NEW q \in Rank PROVE bar'[q] = Cardinality(Entered(q)')
  <2>1. bar[q] = Cardinality(Entered(q))
    BY Zenon DEF Schedule
  <2>2. CASE q = p
    BY Zenon, <2>1, <2>2
  <2>3. CASE q # p
    BY Zenon, <2>1, <2>3
  <2> QED
    BY Zenon, <2>2, <2>3
<1>4. ASSUME NEW q \in Rank, NEW r \in Rank PROVE Departed(r)' \subseteq Entered(q)'
  <2>1. Departed(r)' \subseteq Entered(q)
    BY Zenon DEF Schedule
  <2>2. Entered(q) \subseteq Entered(q)'
    BY Zenon
  <2> QED
    BY Zenon, <2>1, <2>2
<1>5. ASSUME NEW q \in Rank, NEW r \in Rank, q < r
      PROVE  Received(r)' \subseteq Sent(q)'
  <2>1. Received(r) \subseteq Sent(q)
    BY Zenon, <1>5 DEF Schedule
  <2>2. Received(r)' = Received(r) /\ Sent(q)' = Sent(q)
    BY Zenon
  <2> QED
    BY Zenon, <2>1, <2>2
<1>6. gen' = Cardinality(SeeksSet')
  BY Zenon DEF Schedule
<1> QED
  BY Zenon, <1>2, <1>3, <1>4, <1>5, <1>6 DEF Schedule

\* The seek of rank 0 comes to its barrier.
LEMMA SetDoneSchedule ==
  ASSUME Counting, Control, Schedule, NEW p \in Rank, SetDone(p)
  PROVE  Schedule' /\ \A q \in Rank : Received(q)' = Received(q)
<1>1. /\ prog' = prog /\ pos' = pos /\ gen' = gen /\ call' = call
      /\ pc[p] = "setunlock" /\ pc' = [pc EXCEPT ![p] = "barrier"]
      /\ token' = token /\ bar' = [bar EXCEPT ![p] = bar[p] + 1]
  BY Zenon DEF SetDone, Goto
<1>2. Step(p)
  BY Zenon DEF Step
<1>3. /\ pc'[p] = "barrier" /\ call[p].op = "seek_shared" /\ p = 0
      /\ bar \in [Rank -> Nat]
  BY Zenon, <1>1, CallFacts DEF Control, TypeOK, Setting
<1>4. call[p].op \in AnyOp /\ call[p].op \in Meeting /\ call[p].op \notin Ordered
  BY <1>3 DEF AnyOp, Meeting, Ordered
<1>5. /\ BeforeBarrier(p) /\ ~ BeforeBarrier(p)'
      /\ Outside(p)' <=> Outside(p)
      /\ Unset' <=> Unset
      /\ pc'[p] = "recv" <=> pc[p] = "recv"
  BY <1>1, <1>3, <1>4 DEF BeforeBarrier, Outside, Unset
<1>6. /\ \A q \in Rank : /\ q # p => Entered(q)' = Entered(q) /\ Sent(q)' = Sent(q)
                         /\ Departed(q)' = Departed(q)
                         /\ Received(q)' = Received(q)
      /\ SeeksSet' = SeeksSet
  BY Zenon, <1>1, <1>2, <1>5, InsideSets
<1>7. /\ Entered(p) = Calls(prog, pos[p], TRUE, Meeting)
      /\ Entered(p)' = Calls(prog, pos[p], FALSE, Meeting)
  BY Zenon, <1>1, <1>5, FlagTypes, CallsFlag DEF Entered
<1>8. /\ Entered(p)' = Entered(p) \cup {pos[p]}
      /\ Cardinality(Entered(p)') = Cardinality(Entered(p)) + 1
  BY Zenon, <1>4, <1>7, PendingCall
<1>9. Sent(p)' = Sent(p)
  <2>1. prog[pos[p]].op \notin Ordered
    BY Zenon, <1>4, PendingCall
  <2> QED
    BY Zenon, <1>1, <2>1, CallsOther DEF Sent
<1>10. \A q \in Rank : /\ q # p => Entered(q)' = Entered(q)
                       /\ Departed(q)' = Departed(q)
                       /\ Received(q)' = Received(q) /\ Sent(q)' = Sent(q)
  BY Zenon, <1>6, <1>9
<1> QED
  BY Zenon, <1>1, <1>3, <1>6, <1>8, <1>10, ScheduleBarrier

\* The steps that only move the pointer, or open, lock and unlock its file.
Quiet(p) ==
    \/ SharedAccess(p) \/ GetOpen(p) \/ GetLock(p) \/ GetRead(p)
    \/ GetReadFails(p) \/ GetWrite(p) \/ WriteFails(p) \/ OpenFails(p)
    \/ GetDone(p) \/ GetGiveUp(p) \/ SetOpen(p) \/ SetLock(p)

LEMMA QuietFlags ==
  ASSUME Control, NEW p \in Rank, Quiet(p)
  PROVE  /\ BeforeBarrier(p)' <=> BeforeBarrier(p)
         /\ Outside(p)' <=> Outside(p)
         /\ pc'[p] = "recv" <=> pc[p] = "recv"
         /\ p = 0 => (Unset' <=> Unset)
<1> USE DEF Goto
<1>1. DOMAIN pc = Rank /\ DOMAIN call = Rank
  BY Zenon DEF Control, TypeOK
<1>2. CallOK(p) /\ call[p].op \in {"none", "shared"} \cup AnyOp
  BY Zenon, OpCases DEF Control
<1>3. Idle.op = "none"
  BY Zenon DEF Idle
<1>4. CASE SharedAccess(p)
  BY <1>1, <1>2, <1>3, <1>4 DEF SharedAccess, CallOK, BeforeBarrier, Outside, Unset, AnyOp, Ordered
<1>5. CASE GetOpen(p)
  BY <1>1, <1>5 DEF GetOpen, BeforeBarrier, Outside, Unset
<1>6. CASE GetLock(p)
  BY <1>1, <1>6 DEF GetLock, BeforeBarrier, Outside, Unset
<1>7. CASE GetRead(p)
  BY <1>1, <1>7 DEF GetRead, BeforeBarrier, Outside, Unset
<1>8. CASE GetReadFails(p)
  BY <1>1, <1>8 DEF GetReadFails, BeforeBarrier, Outside, Unset
<1>9. CASE GetWrite(p)
  BY <1>1, <1>9 DEF GetWrite, BeforeBarrier, Outside, Unset
<1>10. CASE WriteFails(p)
  BY <1>1, <1>10 DEF WriteFails, BeforeBarrier, Outside, Unset
<1>11. CASE OpenFails(p)
  BY <1>1, <1>2, <1>3, <1>11 DEF Return, OpenFails, CallOK, BeforeBarrier, Outside, Unset, AnyOp, Ordered
<1>12. CASE GetDone(p)
  <2>1. CASE call[p].op = "shared"
    BY <1>1, <1>3, <1>12, <2>1 DEF GetDone, Return, BeforeBarrier, Outside, Unset, AnyOp, Ordered
  <2>2. CASE call[p].op \in Ordered
    BY <1>1, <1>12, <2>2 DEF GetDone, BeforeBarrier, Outside, Unset, Ordered
  <2>3. CASE call[p].op \notin Ordered \cup {"shared"}
    <3> DEFINE o == call[p].offset + fp[p]
    <3>1. /\ pc'[p] = IF BadOffset(o) THEN "failed" ELSE "set"
          /\ call'[p] = [call[p] EXCEPT !.offset = o]
      BY Zenon, <1>1, <1>12, <2>3 DEF GetDone
    <3>2. call[p] \in SeekOfRank0
      BY Zenon, <1>12, <2>3, CallFacts DEF GetDone, Getting
    <3> HIDE DEF o
    <3>3. call'[p].op = call[p].op
      BY <3>1, <3>2 DEF SeekOfRank0
    <3>4. pc[p] = "unlock" /\ pc'[p] \in {"failed", "set"}
      BY Zenon, <1>12, <3>1 DEF GetDone
    <3> QED
      BY <3>3, <3>4 DEF BeforeBarrier, Outside, Unset
  <2> QED
    BY Zenon, <2>1, <2>2, <2>3
<1>13. CASE GetGiveUp(p)
  BY <1>1, <1>2, <1>3, <1>13 DEF Return, GetGiveUp, CallOK, BeforeBarrier, Outside, Unset, AnyOp, Ordered
<1>14. CASE SetOpen(p)
  BY <1>1, <1>14 DEF SetOpen, BeforeBarrier, Outside, Unset
<1>15. CASE SetLock(p)
  BY <1>1, <1>15 DEF SetLock, BeforeBarrier, Outside, Unset
<1> QED
  BY Zenon, <1>4, <1>5, <1>6, <1>7, <1>8, <1>9, <1>10, <1>11, <1>12, <1>13, <1>14, <1>15 DEF Quiet

\* Nothing the schedule counts changes.
LEMMA ScheduleSame ==
  ASSUME Schedule,
         \A q \in Rank : /\ Entered(q)' = Entered(q) /\ Departed(q)' = Departed(q)
                         /\ Received(q)' = Received(q) /\ Sent(q)' = Sent(q),
         SeeksSet' = SeeksSet,
         bar' = bar, token' = token, gen' = gen
  PROVE  Schedule'
<1>1. \A q \in Rank \ {0} : q - 1 \in Rank
  BY SharedPointerAssumption DEF Rank
<1>2. \A q \in Rank \ {0} :
         token'[q] = Cardinality(Sent(q - 1)') - Cardinality(Received(q)')
  BY Zenon, <1>1 DEF Schedule
<1> QED
  BY Zenon, <1>2 DEF Schedule

\* The steps that touch neither a token nor a barrier keep the schedule.
LEMMA QuietSchedule ==
  ASSUME Control, Schedule, NEW p \in Rank, Quiet(p)
  PROVE  /\ Schedule'
         /\ prog' = prog /\ pos' = pos /\ split' = split /\ gen' = gen
         /\ \A q \in Rank : Received(q)' = Received(q)
<1>1. /\ prog' = prog /\ pos' = pos /\ bar' = bar /\ token' = token /\ gen' = gen
      /\ split' = split
  BY Zenon DEF Quiet, SharedAccess, GetOpen, GetLock, GetRead, GetReadFails,
     GetWrite, WriteFails, OpenFails, GetDone, GetGiveUp, SetOpen, SetLock
<1>2. Step(p)
  BY Zenon DEF Quiet, Step
<1>3. /\ \A q \in Rank : /\ Entered(q)' = Entered(q) /\ Departed(q)' = Departed(q)
                         /\ Received(q)' = Received(q) /\ Sent(q)' = Sent(q)
      /\ SeeksSet' = SeeksSet
  BY Zenon, <1>1, <1>2, QuietFlags, InsideSets
<1> QED
  BY Zenon, <1>1, <1>3, ScheduleSame

(***************************************************************************)
(* What is known of a rank that is about to write the pointer back          *)
(***************************************************************************)

NewClaim(p) == [rank |-> p, op |-> call[p].op, pos |-> pos[p], off |-> fp[p],
                len |-> call[p].incr, gen |-> gen]

\* What is known of the rank that is about to write the pointer back.
LEMMA Writer ==
  ASSUME Inv, NEW p \in Rank, pc[p] = "write"
  PROVE  /\ NewClaim(p) \in ClaimType
         /\ pos[p] \in Nat /\ pos[p] <= Len(prog) /\ gen \in Nat
         /\ call[p].op = "shared" \/ call[p].op \in Ordered
         /\ call[p].op \in Ordered =>
              /\ BeforeBarrier(p)
              /\ pos[p] # 0 /\ prog[pos[p]].op = call[p].op
              /\ Synchronises(prog, pos[p])
              /\ pos[p] \in Received(p) /\ pos[p] \notin Sent(p)
              /\ pos[p] \notin Entered(p)
         /\ call[p].op = "shared" => Outside(p)
<1>1. /\ call[p] \in CallType /\ CallOK(p) /\ PlaceOK(p)
      /\ pos[p] \in Nat /\ fp[p] \in Nat /\ gen \in Nat /\ Len(prog) \in Nat
  BY DEF Inv, Control, TypeOK
<1>2. /\ call[p].op = "shared" \/ call[p].op \in Ordered
      /\ call[p].incr \in Nat \ {0}
  BY <1>1 DEF CallType, CallOK, Ordered, Idle, SeekOfRank0, Getting, Setting
<1>3. NewClaim(p) \in ClaimType
  BY <1>1, <1>2 DEF NewClaim, ClaimType
<1>4. pos[p] <= Len(prog)
  <2>1. pos[p] \in 0 .. Len(prog)
    BY Zenon, <1>1 DEF PlaceOK
  <2> QED
    BY <1>1, <2>1
<1>5. ASSUME call[p].op \in Ordered
      PROVE  /\ BeforeBarrier(p)
             /\ pos[p] # 0 /\ prog[pos[p]].op = call[p].op
             /\ Synchronises(prog, pos[p])
             /\ pos[p] \in Received(p) /\ pos[p] \notin Sent(p)
             /\ pos[p] \notin Entered(p)
  <2>1. call[p].op \in AnyOp
    BY Zenon, <1>5 DEF AnyOp
  <2>2. BeforeBarrier(p)
    BY <2>1 DEF BeforeBarrier
  <2>3. pos[p] # 0 /\ prog[pos[p]].op = call[p].op /\ Synchronises(prog, pos[p])
    BY Zenon, <1>1, <2>1 DEF PlaceOK
  <2>4. pos[p] \in 1 .. pos[p]
    BY <1>1, <2>3
  <2>5. pos[p] \in Received(p)
    BY Zenon, <1>5, <2>3, <2>4, "write" # "recv" DEF Received, Calls
  <2>6. pos[p] \notin Sent(p) /\ pos[p] \notin Entered(p)
    BY Zenon, <2>2 DEF Sent, Entered, Calls
  <2> QED
    BY Zenon, <1>5, <2>2, <2>3, <2>5, <2>6
<1>6. ASSUME call[p].op = "shared" PROVE Outside(p)
  BY <1>6 DEF Outside, AnyOp, Ordered
<1> QED
  BY Zenon, <1>1, <1>2, <1>3, <1>4, <1>5, <1>6

Seeks(P, n) == {k \in 1 .. n : P[k].op = "seek_shared"}

\* A seek the writer has left, or that precedes its ordered call, has set the
\* pointer: rank 0 comes to the barrier of a seek only then.
LEMMA SeeksWereSet ==
  ASSUME Inv, NEW p \in Rank, pc[p] = "write", NEW k \in Seeks(prog, pos[p])
  PROVE  k \in SeeksSet
<1>1. k \in 1 .. pos[p] /\ prog[k].op = "seek_shared"
  BY Zenon DEF Seeks
<1>2. Synchronises(prog, k)
  BY <1>1 DEF Synchronises, Begins
<1>3. k = pos[p] => Outside(p)
  <2>1. "seek_shared" \notin Ordered
    BY DEF Ordered
  <2> QED
    BY Zenon, <1>1, <2>1, Writer
<1>4. prog[k].op \in Meeting
  BY Zenon, <1>1 DEF Meeting
<1>5. k \in Departed(p)
  BY Zenon, <1>1, <1>2, <1>3, <1>4 DEF Departed, Calls
<1>6. k \in Entered(0)
  BY Zenon, <1>5, RankFacts DEF Inv, Schedule
<1>7. k \in 1 .. pos[0] /\ (k = pos[0] => ~ BeforeBarrier(0))
  BY Zenon, <1>6 DEF Entered, Calls
<1>8. Unset => BeforeBarrier(0)
  <2>1. CallOK(0)
    BY Zenon, RankFacts DEF Inv, Control
  <2>2. HAVE Unset
  <2>3. call[0].op \in AnyOp
    BY Zenon, <2>2 DEF Unset, AnyOp
  <2>4. pc[0] \in Getting \cup Setting \cup {"failed"}
    BY Zenon, <2>1, <2>2 DEF CallOK, Unset
  <2> QED
    BY <2>3, <2>4 DEF BeforeBarrier, Getting, Setting
<1>9. prog[k].op \in {"seek_shared"}
  BY Zenon, <1>1
<1> QED
  BY Zenon, <1>2, <1>7, <1>8, <1>9 DEF SeeksSet, Calls

\* No seek after an ordered call that gathers has set the pointer before the call's
\* last rank has its region: rank 0 leaves the call only with all the others.
LEMMA NoLaterSeek ==
  ASSUME Inv, NEW p \in Rank, pc[p] = "write", call[p].op \in Gathering,
         NEW k \in SeeksSet
  PROVE  k \in Seeks(prog, pos[p])
<1>1. k \in 1 .. pos[0] /\ prog[k].op = "seek_shared"
  BY Zenon DEF SeeksSet, Calls
<1>2. /\ pos[p] \in Nat /\ pos[p] # 0 /\ prog[pos[p]].op = call[p].op
      /\ Synchronises(prog, pos[p]) /\ pos[p] \notin Entered(p)
  BY Zenon, Writer DEF Gathering
<1>3. pos[0] \in Nat
  BY Zenon, RankFacts DEF Inv, Control
<1>4. ASSUME k > pos[p] PROVE FALSE
  <2>1. pos[p] \in 1 .. pos[0] /\ pos[p] # pos[0]
    BY <1>1, <1>2, <1>3, <1>4
  <2>2. prog[pos[p]].op \in Meeting
    BY Zenon, <1>2 DEF Meeting
  <2>3. pos[p] \in Departed(0)
    BY Zenon, <1>2, <2>1, <2>2 DEF Departed, Calls
  <2>4. pos[p] \in Entered(p)
    BY Zenon, <2>3, RankFacts DEF Inv, Schedule
  <2> QED
    BY Zenon, <1>2, <2>4
<1>5. k \in 1 .. pos[p]
  BY <1>1, <1>2, <1>3, <1>4
<1> QED
  BY Zenon, <1>1, <1>5 DEF Seeks

LEMMA SeeksFinite ==
  ASSUME Counting, NEW P, NEW n \in Nat
  PROVE  IsFiniteSet(Seeks(P, n)) /\ Cardinality(Seeks(P, n)) \in Nat
<1>1. IsFiniteSet(1 .. n)
  BY Zenon DEF Counting
<1>2. Seeks(P, n) \in SUBSET (1 .. n)
  BY Zenon DEF Seeks
<1>3. IsFiniteSet(Seeks(P, n))
  BY Zenon, <1>1, <1>2 DEF Counting
<1> QED
  BY Zenon, <1>3 DEF Counting

LEMMA SeeksBeforeIs == \A n : SeeksBefore(n) = Cardinality(Seeks(prog, n))
BY Zenon DEF SeeksBefore, Seeks

\* Which seeks have set the pointer when a rank hands itself a region.
LEMMA WriterSeeks ==
  ASSUME Counting, Inv, NEW p \in Rank, pc[p] = "write"
  PROVE  /\ SeeksBefore(pos[p]) \in Nat
         /\ gen >= SeeksBefore(pos[p])
         /\ call[p].op \in Gathering => gen = SeeksBefore(pos[p])
<1>1. pos[p] \in Nat /\ gen \in Nat
  BY Zenon, Writer
<1>2. /\ SeeksBefore(pos[p]) = Cardinality(Seeks(prog, pos[p]))
      /\ SeeksBefore(pos[p]) \in Nat
  BY Zenon, <1>1, SeeksBeforeIs, SeeksFinite
<1>3. IsFiniteSet(SeeksSet) /\ gen = Cardinality(SeeksSet)
  <2>1. pos[0] \in Nat
    BY Zenon, RankFacts DEF Inv, Control
  <2> QED
    BY Zenon, <2>1, CallsFinite DEF SeeksSet, Inv, Schedule
<1>4. Seeks(prog, pos[p]) \in SUBSET SeeksSet
  BY Zenon, SeeksWereSet
<1>5. Cardinality(Seeks(prog, pos[p])) <= Cardinality(SeeksSet)
  BY Zenon, <1>3, <1>4 DEF Counting
<1>6. ASSUME call[p].op \in Gathering PROVE Seeks(prog, pos[p]) = SeeksSet
  BY Zenon, <1>6, SeeksWereSet, NoLaterSeek
<1> QED
  BY <1>1, <1>2, <1>3, <1>5, <1>6

\* A region handed out earlier in the same ordered call to a lower rank lies
\* below the pointer the writer has read; a higher rank has none yet.
LEMMA WriterOrder ==
  ASSUME Counting, Inv, NEW p \in Rank, pc[p] = "write",
         call[p].op \in Ordered, ~ lost,
         NEW c \in claims, c.op \in Ordered, c.pos = pos[p]
  PROVE  /\ ~ (p < c.rank)
         /\ (/\ c.rank < p
             /\ (c.op \in Gathering /\ call[p].op \in Gathering) \/ c.gen = gen)
            => c.off + c.len <= fp[p]
<1>1. c \in ClaimType
  BY Zenon DEF Inv, ClaimsOK
<1>2. c.rank \in Rank /\ c.off \in Nat /\ c.len \in Nat \ {0} /\ c.gen \in Nat
  BY <1>1 DEF ClaimType
<1>3. ~ (p < c.rank)
  <2>1. pos[p] \in Received(c.rank) /\ pos[p] \notin Sent(p)
    BY Zenon, Writer DEF Inv, ClaimsOK
  <2> QED
    BY Zenon, <1>2, <2>1 DEF Inv, Schedule
<1> SUFFICES ASSUME (c.op \in Gathering /\ call[p].op \in Gathering) \/ c.gen = gen
             PROVE  c.off + c.len <= fp[p]
  BY Zenon, <1>3
<1>4. c.gen = gen
  <2> SUFFICES ASSUME c.op \in Gathering, call[p].op \in Gathering PROVE c.gen = gen
    BY Zenon
  <2>1. c.gen >= SeeksBefore(pos[p]) /\ c.gen <= SeeksBefore(pos[p])
    BY Zenon DEF Inv, SeekVisible, OrderedBeforeSeek
  <2>2. gen = SeeksBefore(pos[p]) /\ SeeksBefore(pos[p]) \in Nat
    BY Zenon, WriterSeeks
  <2> QED
    BY <1>2, <2>1, <2>2
<1>5. pc[p] \in Locked
  BY Zenon DEF Locked
<1>6. sfd[p] = name /\ name # NULL /\ name \in FileId
  BY Zenon, <1>5, LockedIsNamed DEF Inv
<1>7. fp[p] = val[name] /\ val[name] \in Nat /\ base \in Nat
  BY Zenon, <1>6 DEF Inv, LockOK, LockAt, Control, TypeOK
<1>8. Region(c) \subseteq base .. val[name] - 1
  <2>1. c \in Current
    BY Zenon, <1>4 DEF Current
  <2>2. UNION {Region(d) : d \in Current} = base .. val[name] - 1
    BY Zenon, <1>6 DEF Inv, RegionsTile
  <2> QED
    BY Zenon, <2>1, <2>2
<1>9. c.off + c.len - 1 \in c.off .. c.off + c.len - 1
  BY <1>2
<1>10. c.off + c.len - 1 \in base .. val[name] - 1
  BY Zenon, <1>8, <1>9 DEF Region
<1> QED
  BY <1>2, <1>7, <1>10

(***************************************************************************)
(* Entering a collective call                                               *)
(***************************************************************************)

\* An offset that MPI_File_seek_shared accepts is a position in the file.
LEMMA OffsetFacts == \A o \in Offsets : ~ BadOffset(o) => o \in Nat
BY SharedPointerAssumption DEF BadOffset

\* A call appended to a program.
LEMMA AppendCall ==
  \A P \in Seq(Collective) : \A c \in Collective :
     /\ Append(P, c) \in Seq(Collective)
     /\ Len(Append(P, c)) = Len(P) + 1
     /\ \A k \in 1 .. Len(P) : Append(P, c)[k] = P[k]
     /\ Append(P, c)[Len(P) + 1] = c
OBVIOUS

\* NextCollective takes the rank to the next call of the common program, which
\* grows by a call when the rank is the first to get there, and never past a
\* close.
LEMMA EnterProgram ==
  ASSUME Control, NEW p \in Rank, NEW c \in Collective, NextCollective(p, c)
  PROVE  /\ prog' \in Seq(Collective) /\ Len(prog') <= MaxColl
         /\ Len(prog) \in Nat /\ Len(prog') \in Nat /\ Len(prog) <= Len(prog')
         /\ \A k \in 1 .. Len(prog) : prog'[k] = prog[k]
         /\ pos' = [pos EXCEPT ![p] = pos[p] + 1]
         /\ pos[p] \in Nat /\ pos[p] + 1 \in 1 .. Len(prog')
         /\ prog'[pos[p] + 1] = c
         /\ \A q \in Rank : pos'[q] \in 0 .. Len(prog')
         /\ pos' \in [Rank -> Nat]
         /\ CloseIsLast'
<1>1. /\ prog \in Seq(Collective) /\ Len(prog) <= MaxColl
      /\ Len(prog) \in Nat
      /\ pos \in [Rank -> Nat]
      /\ \A q \in Rank : pos[q] \in 0 .. Len(prog)
      /\ MaxColl \in Nat
  BY SharedPointerAssumption DEF Control, TypeOK
<1>2. /\ pos' = [pos EXCEPT ![p] = pos[p] + 1]
      /\ pc[p] = "idle"
  BY Zenon DEF NextCollective
<1>3. \A k \in 1 .. Len(prog) : prog[k].op = "close" => k = Len(prog)
  BY Zenon DEF Control, CloseIsLast
<1>4. CASE pos[p] < Len(prog) /\ prog[pos[p] + 1] = c /\ prog' = prog
  BY <1>1, <1>2, <1>3, <1>4 DEF CloseIsLast
<1>5. CASE /\ pos[p] = Len(prog) /\ Len(prog) < MaxColl
           /\ prog' = Append(prog, c)
  <2>1. /\ prog' \in Seq(Collective)
        /\ Len(prog') = Len(prog) + 1
        /\ \A k \in 1 .. Len(prog) : prog'[k] = prog[k]
        /\ prog'[Len(prog) + 1] = c
    BY Zenon, <1>1, <1>5, AppendCall
  <2>2. call[p].op = "none"
    BY Zenon, <1>2 DEF Control, CallOK
  <2>3. ~ (pos[p] # 0 /\ prog[pos[p]].op = "close")
    BY <2>2 DEF Control, PlaceOK
  <2>4. ASSUME NEW k \in 1 .. Len(prog) PROVE prog[k].op # "close"
    <3>1. Len(prog) # 0
      BY <1>1
    <3> QED
      BY Zenon, <1>3, <1>5, <2>3, <3>1
  <2>5. CloseIsLast'
    <3>1. ASSUME NEW k \in 1 .. Len(prog'), prog'[k].op = "close"
          PROVE  k = Len(prog')
      <4>1. \A n \in Nat : \A i \in 1 .. n + 1 : i \in 1 .. n \/ i = n + 1
        OBVIOUS
      <4>2. k \in 1 .. Len(prog) \/ k = Len(prog')
        BY Zenon, <1>1, <2>1, <4>1
      <4> QED
        BY Zenon, <2>1, <2>4, <3>1, <4>2
    <3> QED
      BY Zenon, <3>1 DEF CloseIsLast
  <2>6. pos' \in [Rank -> Nat] /\ \A q \in Rank : pos'[q] \in 0 .. Len(prog')
    BY <1>1, <1>2, <2>1
  <2> QED
    BY <1>1, <1>2, <1>5, <2>1, <2>5, <2>6
<1> QED
  BY Zenon, <1>4, <1>5 DEF NextCollective

\* What a program's first calls are decides which of them synchronise: appending
\* a call (NextCollective) changes nothing about the earlier ones.
LEMMA CallsPrefix ==
  ASSUME NEW P, NEW Q, NEW n \in Nat, NEW x, NEW O,
         \A k \in 1 .. n : P[k] = Q[k]
  PROVE  /\ SplitActive(P, n) <=> SplitActive(Q, n)
         /\ \A k \in 1 .. n : Synchronises(P, k) <=> Synchronises(Q, k)
         /\ Calls(P, n, x, O) = Calls(Q, n, x, O)
<1>1. ASSUME NEW m \in 0 .. n
      PROVE  SplitActive(P, m) <=> SplitActive(Q, m)
  BY DEF SplitActive
<1>2. ASSUME NEW k \in 1 .. n
      PROVE  Synchronises(P, k) <=> Synchronises(Q, k)
  <2>1. k - 1 \in 0 .. n
    OBVIOUS
  <2> QED
    BY Zenon, <2>1, <1>1 DEF Synchronises
<1>3. SplitActive(P, n) <=> SplitActive(Q, n)
  BY <1>1
<1> QED
  BY Zenon, <1>2, <1>3 DEF Calls

\* Entering a call adds nothing to a set of calls it is pending for, and nothing
\* to one it does not belong to.
LEMMA CallsEnter ==
  ASSUME NEW P, NEW n \in Nat, NEW x, NEW O,
         x \/ P[n + 1].op \notin O \/ ~ Synchronises(P, n + 1)
  PROVE  Calls(P, n + 1, x, O) = Calls(P, n, FALSE, O)
<1>1. 1 .. n + 1 = (1 .. n) \cup {n + 1}
  OBVIOUS
<1>2. \A k \in 1 .. n : k # n + 1
  OBVIOUS
<1> QED
  BY Zenon, <1>1, <1>2 DEF Calls

\* The calls a rank had entered before do not change, whoever enters a call: for
\* every rank, the calls up to its position, and for the entering one the calls
\* up to its new position, with the new call pending or none of O.
LEMMA EnterCalls ==
  ASSUME Control, NEW p \in Rank, NEW c \in Collective, NextCollective(p, c),
         NEW O
  PROVE  /\ SplitActive(prog', pos[p]) <=> SplitActive(prog, pos[p])
         /\ \A k \in 1 .. Len(prog) : Synchronises(prog', k) <=> Synchronises(prog, k)
         /\ \A q \in Rank, x \in BOOLEAN : q # p =>
              Calls(prog', pos'[q], x, O) = Calls(prog, pos[q], x, O)
         /\ \A q \in Rank : q # p =>
              (SplitActive(prog', pos'[q]) <=> SplitActive(prog, pos[q]))
         /\ \A x \in BOOLEAN :
              (x \/ c.op \notin O \/ ~ Synchronises(prog', pos[p] + 1)) =>
                 Calls(prog', pos'[p], x, O) = Calls(prog, pos[p], FALSE, O)
<1>1. /\ Len(prog) \in Nat
      /\ \A k \in 1 .. Len(prog) : prog'[k] = prog[k]
      /\ pos' = [pos EXCEPT ![p] = pos[p] + 1]
      /\ prog'[pos[p] + 1] = c
  BY Zenon, EnterProgram
<1>2. pos \in [Rank -> Nat] /\ \A q \in Rank : pos[q] \in 0 .. Len(prog)
  BY Zenon DEF Control, PlaceOK
<1>3. ASSUME NEW q \in Rank
      PROVE  \A k \in 1 .. pos[q] : prog'[k] = prog[k]
  BY <1>1, <1>2
<1>4. ASSUME NEW q \in Rank
      PROVE  /\ SplitActive(prog', pos[q]) <=> SplitActive(prog, pos[q])
             /\ \A x \in BOOLEAN : Calls(prog', pos[q], x, O) = Calls(prog, pos[q], x, O)
  <2>1. pos[q] \in Nat /\ \A k \in 1 .. pos[q] : prog'[k] = prog[k]
    BY Zenon, <1>2, <1>3
  <2>2. SplitActive(prog', pos[q]) <=> SplitActive(prog, pos[q])
    BY Zenon, <2>1, CallsPrefix
  <2>3. ASSUME NEW x \in BOOLEAN
        PROVE  Calls(prog', pos[q], x, O) = Calls(prog, pos[q], x, O)
    BY <2>1, CallsPrefix
  <2> QED
    BY Zenon, <2>2, <2>3
<1>5. \A k \in 1 .. Len(prog) : Synchronises(prog', k) <=> Synchronises(prog, k)
  BY Zenon, <1>1, CallsPrefix
<1>6. \A q \in Rank : q # p => pos'[q] = pos[q]
  BY Zenon, <1>1, <1>2
<1>7. pos'[p] = pos[p] + 1 /\ pos[p] \in Nat
  BY Zenon, <1>1, <1>2
<1>8. ASSUME NEW x \in BOOLEAN,
             x \/ c.op \notin O \/ ~ Synchronises(prog', pos[p] + 1)
      PROVE  Calls(prog', pos[p] + 1, x, O) = Calls(prog', pos[p], FALSE, O)
  <2>1. x \/ prog'[pos[p] + 1].op \notin O \/ ~ Synchronises(prog', pos[p] + 1)
    BY Zenon, <1>1, <1>8
  <2> QED
    BY Zenon, <1>7, <2>1, CallsEnter
<1> QED
  BY Zenon, <1>4, <1>5, <1>6, <1>7, <1>8

\* A rank entering a call changes nothing about where the others are.
LEMMA EnterOthers ==
  ASSUME Control, NEW p \in Rank, Step(p), NEW c \in Collective,
         NextCollective(p, c), NEW q \in Rank, q # p
  PROVE  CallOK(q)' /\ PlaceOK(q)'
<1>1. CallOK(q) /\ PlaceOK(q)
  BY Zenon DEF Control
<1>2. /\ pc'[q] = pc[q] /\ call'[q] = call[q] /\ pos'[q] = pos[q]
      /\ split'[q] = split[q]
  BY Zenon, OthersStay
<1>3. /\ pos'[q] \in 0 .. Len(prog')
      /\ pos[q] \in Nat /\ Len(prog) \in Nat
      /\ \A k \in 1 .. Len(prog) : prog'[k] = prog[k]
  BY Zenon, EnterProgram DEF Control
<1>4. /\ SplitActive(prog', pos'[q]) <=> SplitActive(prog, pos[q])
      /\ \A k \in 1 .. Len(prog) : Synchronises(prog', k) <=> Synchronises(prog, k)
  BY Zenon, EnterCalls
<1>5. pos[q] # 0 => pos[q] \in 1 .. Len(prog)
  BY <1>1, <1>3 DEF PlaceOK
<1>6. CallOK(q)'
  BY Zenon, <1>1, <1>2 DEF CallOK
<1>7. PlaceOK(q)'
  BY Zenon, <1>1, <1>2, <1>3, <1>4, <1>5 DEF PlaceOK
<1> QED
  BY Zenon, <1>6, <1>7

\* The sets of calls when rank p, idle before, enters call c.
LEMMA EnterSets ==
  ASSUME Control, NEW p \in Rank, Step(p), NEW c \in Collective,
         NextCollective(p, c),
         \/ call'[p].op = c.op /\ pc'[p] # "closed"
         \/ ~ Synchronises(prog', pos[p] + 1),
         \/ pc'[p] = "recv" /\ call'[p].op = c.op
         \/ c.op \notin Ordered
         \/ ~ Synchronises(prog', pos[p] + 1),
         p = 0 => \/ c.op # "seek_shared"
                  \/ call'[0].op = "seek_shared" /\ pc'[0] \notin {"setunlock", "barrier"}
  PROVE  /\ \A q \in Rank : /\ q # p => Entered(q)' = Entered(q)
                            /\ Departed(q)' = Departed(q)
                            /\ Received(q)' = Received(q) /\ Sent(q)' = Sent(q)
         /\ SeeksSet' = SeeksSet
         /\ (BeforeBarrier(p)' \/ ~ Synchronises(prog', pos[p] + 1)
             \/ c.op \notin Meeting) =>
              Entered(p)' = Entered(p)
         /\ Entered(p) = Calls(prog', pos'[p], TRUE, Meeting)
<1>1. call[p].op = "none" /\ pc[p] = "idle"
  BY Zenon DEF NextCollective, Control, CallOK
<1>2. ~ BeforeBarrier(p) /\ Outside(p) /\ pc[p] # "recv" /\ (p = 0 => ~ Unset)
  BY <1>1 DEF BeforeBarrier, Outside, Unset, AnyOp, Ordered
<1>3. /\ Entered(p) = Calls(prog, pos[p], FALSE, Meeting)
      /\ Departed(p) = Calls(prog, pos[p], FALSE, Meeting)
      /\ Received(p) = Calls(prog, pos[p], FALSE, Ordered)
      /\ Sent(p) = Calls(prog, pos[p], FALSE, Ordered)
      /\ p = 0 => SeeksSet = Calls(prog, pos[p], FALSE, {"seek_shared"})
  BY Zenon, <1>2, FlagTypes, CallsFlag DEF Entered, Departed, Received, Sent, SeeksSet
<1>4. ASSUME NEW q \in Rank, q # p
      PROVE  /\ BeforeBarrier(q)' = BeforeBarrier(q) /\ Outside(q)' = Outside(q)
             /\ (pc[q] = "recv")' = (pc[q] = "recv")
             /\ q = 0 => Unset' = Unset
  <2>1. pc'[q] = pc[q] /\ call'[q] = call[q]
    BY Zenon, <1>4, OthersStay
  <2> QED
    BY Zenon, <2>1 DEF BeforeBarrier, Outside, Unset
<1>5. ASSUME NEW q \in Rank, q # p
      PROVE  /\ Entered(q)' = Entered(q) /\ Departed(q)' = Departed(q)
             /\ Received(q)' = Received(q) /\ Sent(q)' = Sent(q)
             /\ q = 0 => SeeksSet' = SeeksSet
  <2>1. ASSUME NEW x \in BOOLEAN, NEW O \in {Meeting, Ordered, {"seek_shared"}}
        PROVE  Calls(prog', pos'[q], x, O) = Calls(prog, pos[q], x, O)
    <3>1. \A r \in Rank, y \in BOOLEAN : r # p =>
              Calls(prog', pos'[r], y, O) = Calls(prog, pos[r], y, O)
      BY Zenon, EnterCalls
    <3> QED
      BY Zenon, <1>5, <3>1
  <2>2. /\ Meeting \in {Meeting, Ordered, {"seek_shared"}}
        /\ Ordered \in {Meeting, Ordered, {"seek_shared"}}
        /\ {"seek_shared"} \in {Meeting, Ordered, {"seek_shared"}}
    BY Zenon
  <2>3. Entered(q)' = Entered(q) /\ Sent(q)' = Sent(q)
    BY Zenon, <1>4, <1>5, <2>1, <2>2, FlagTypes DEF Entered, Sent
  <2>4. Departed(q)' = Departed(q)
    BY Zenon, <1>4, <1>5, <2>1, <2>2, FlagTypes DEF Departed
  <2>5. Received(q)' = Received(q)
    BY Zenon, <1>4, <1>5, <2>1, <2>2, FlagTypes DEF Received
  <2>6. q = 0 => SeeksSet' = SeeksSet
    BY Zenon, <1>4, <1>5, <2>1, <2>2, FlagTypes DEF SeeksSet
  <2> QED
    BY Zenon, <2>3, <2>4, <2>5, <2>6
<1>6. \A x \in BOOLEAN, O \in {Meeting, Ordered, {"seek_shared"}} :
         (x \/ c.op \notin O \/ ~ Synchronises(prog', pos[p] + 1)) =>
             Calls(prog', pos'[p], x, O) = Calls(prog, pos[p], FALSE, O)
  BY Zenon, EnterCalls
<1>7. Departed(p)' = Departed(p)
  <2>1. \/ ~ Outside(p)' \/ c.op \notin Meeting
        \/ ~ Synchronises(prog', pos[p] + 1)
    BY Zenon DEF Outside, Meeting, Gathering, AnyOp
  <2> QED
    BY Zenon, <1>3, <1>6, <2>1, FlagTypes DEF Departed
<1>8. Received(p)' = Received(p)
  BY Zenon, <1>3, <1>6, FlagTypes DEF Received
<1>9. Sent(p)' = Sent(p)
  <2>1. \/ BeforeBarrier(p)' \/ c.op \notin Ordered
        \/ ~ Synchronises(prog', pos[p] + 1)
    BY DEF BeforeBarrier, AnyOp
  <2> QED
    BY Zenon, <1>3, <1>6, <2>1, FlagTypes DEF Sent
<1>10. SeeksSet' = SeeksSet
  <2>1. CASE p = 0
    <3>1. Unset' \/ c.op \notin {"seek_shared"}
      BY Zenon, <2>1 DEF Unset
    <3> QED
      BY Zenon, <1>3, <1>6, <2>1, <3>1, FlagTypes DEF SeeksSet
  <2>2. CASE p # 0
    <3>1. 0 \in Rank
      BY SharedPointerAssumption DEF Rank
    <3> QED
      BY Zenon, <1>5, <2>2, <3>1
  <2> QED
    BY Zenon, <2>1, <2>2
<1>11. (BeforeBarrier(p)' \/ ~ Synchronises(prog', pos[p] + 1) \/ c.op \notin Meeting) =>
         Entered(p)' = Entered(p)
  BY Zenon, <1>3, <1>6, FlagTypes DEF Entered
<1>12. Entered(p) = Calls(prog', pos'[p], TRUE, Meeting)
  BY Zenon, <1>3, <1>6
<1> QED
  BY Zenon, <1>5, <1>7, <1>8, <1>9, <1>10, <1>11, <1>12

\* When a split collective is active, call by call.
LEMMA SplitStep ==
  ASSUME NEW P, NEW n \in Nat
  PROVE  /\ P[n + 1].op \in Begins => SplitActive(P, n + 1)
         /\ P[n + 1].op = "ordered_end" => ~ SplitActive(P, n + 1)
         /\ P[n + 1].op \notin Begins \cup {"ordered_end"} =>
              (SplitActive(P, n + 1) <=> SplitActive(P, n))
<1>1. n + 1 \in 1 .. n + 1 /\ (n + 1) + 1 .. n + 1 = {}
  OBVIOUS
<1>2. \A i \in 1 .. n + 1 : i = n + 1 \/ (i \in 1 .. n /\ n + 1 \in i + 1 .. n + 1)
  OBVIOUS
<1>3. \A i \in 1 .. n : /\ i \in 1 .. n + 1
                        /\ i + 1 .. n + 1 = (i + 1 .. n) \cup {n + 1}
  OBVIOUS
<1>4. P[n + 1].op \in Begins => SplitActive(P, n + 1)
  BY Zenon, <1>1 DEF SplitActive
<1>5. P[n + 1].op = "ordered_end" => ~ SplitActive(P, n + 1)
  <2>1. "ordered_end" \notin Begins
    BY DEF Begins
  <2> QED
    BY Zenon, <1>2, <2>1 DEF SplitActive
<1>6. P[n + 1].op \notin Begins \cup {"ordered_end"} =>
        (SplitActive(P, n + 1) <=> SplitActive(P, n))
  BY Zenon, <1>2, <1>3 DEF SplitActive
<1> QED
  BY Zenon, <1>4, <1>5, <1>6

\* Whether the next call of a program synchronises.
LEMMA SyncNext ==
  ASSUME NEW P, NEW n \in Nat
  PROVE  Synchronises(P, n + 1) <=>
           /\ P[n + 1].op # "ordered_end"
           /\ P[n + 1].op \in Begins => ~ SplitActive(P, n)
<1>1. n + 1 - 1 = n
  OBVIOUS
<1>2. SplitActive(P, n + 1 - 1) <=> SplitActive(P, n)
  BY Zenon, <1>1
<1> QED
  BY <1>2 DEF Synchronises

\* NextCollective never puts a rank back to the beginning of the program.
LEMMA NextPosition == \A n \in Nat : n + 1 # 0
OBVIOUS

\* The rest of what entering a call keeps: the call is entered as c, or refused.
LEMMA EnterControl ==
  ASSUME Control, NEW p \in Rank, Step(p), NEW c \in Collective,
         NextCollective(p, c),
         pc' \in [Rank -> Place], call' \in [Rank -> CallType],
         split' \in [Rank -> {0, 1}], bar' \in [Rank -> Nat],
         UNCHANGED <<fp, sfd, name, val, lock, token, shared, faults, claims,
                     gen, base, lost>>,
         CallOK(p)',
         split'[p] = 1 <=> (c.op \in Begins \/
                            (c.op # "ordered_end" /\ split[p] = 1)),
         \/ call'[p].op = c.op /\ Synchronises(prog', pos[p] + 1)
         \/ call'[p].op = "none" /\ c.op # "close"
  PROVE  Control'
<1>1. /\ prog' \in Seq(Collective) /\ Len(prog') <= MaxColl
      /\ pos' = [pos EXCEPT ![p] = pos[p] + 1]
      /\ pos[p] \in Nat /\ pos[p] + 1 \in 1 .. Len(prog')
      /\ prog'[pos[p] + 1] = c
      /\ \A q \in Rank : pos'[q] \in 0 .. Len(prog')
      /\ pos' \in [Rank -> Nat]
      /\ CloseIsLast'
  BY Zenon, EnterProgram
<1>2. TypeOK'
  BY Zenon, <1>1 DEF Control, TypeOK
<1>3. pos'[p] = pos[p] + 1
  BY Zenon, <1>1 DEF Control
<1>4. split'[p] = 1 <=> SplitActive(prog', pos[p] + 1)
  <2>1. SplitActive(prog', pos[p]) <=> split[p] = 1
    BY Zenon, EnterCalls DEF Control, PlaceOK
  <2> QED
    BY Zenon, <1>1, <2>1, SplitStep
<1>5. pos[p] + 1 # 0
  BY Zenon, <1>1, NextPosition
<1>6. PlaceOK(p)'
  <2>1. /\ pos'[p] \in 0 .. Len(prog') /\ pos'[p] # 0
        /\ split'[p] = 1 <=> SplitActive(prog', pos'[p])
        /\ prog'[pos'[p]].op = c.op
    BY Zenon, <1>1, <1>3, <1>4, <1>5
  <2>2. "none" \notin AnyOp
    BY Zenon DEF AnyOp, Ordered
  <2>3. call'[p].op \in AnyOp => /\ prog'[pos'[p]].op = call'[p].op
                                  /\ Synchronises(prog', pos'[p])
    BY Zenon, <1>3, <2>1, <2>2
  <2>4. c.op = "close" => call'[p].op = "close"
    BY Zenon
  <2> QED
    BY Zenon, <2>1, <2>3, <2>4 DEF PlaceOK
<1>7. \A q \in Rank : CallOK(q)' /\ PlaceOK(q)'
  BY Zenon, <1>6, EnterOthers
<1> QED
  BY Zenon, <1>1, <1>2, <1>7 DEF Control

\* A call that is entered and finished at once.
LEMMA CallsNext ==
  ASSUME Counting, NEW P, NEW n \in Nat, P[n + 1].op \in Meeting, Synchronises(P,
         n + 1)
  PROVE  /\ Calls(P, n + 1, FALSE, Meeting) = Calls(P, n + 1, TRUE, Meeting) \cup {n + 1}
         /\ Cardinality(Calls(P, n + 1, FALSE, Meeting)) =
               Cardinality(Calls(P, n + 1, TRUE, Meeting)) + 1
<1>1. n + 1 \in Nat /\ n + 1 # 0
  OBVIOUS
<1>2. ASSUME NEW m \in Nat, m # 0, P[m].op \in Meeting, Synchronises(P, m)
      PROVE  /\ Calls(P, m, FALSE, Meeting) = Calls(P, m, TRUE, Meeting) \cup {m}
             /\ Cardinality(Calls(P, m, FALSE, Meeting)) =
                   Cardinality(Calls(P, m, TRUE, Meeting)) + 1
  BY Zenon, <1>2, CallsFinish
<1> QED
  BY Zenon, <1>1, <1>2

\* The entries of the collective calls.
LEMMA OrderedEnterKept ==
  ASSUME Control, Schedule, NEW p \in Rank, OrderedEnter(p)
  PROVE  Control' /\ Schedule' /\ \A q \in Rank : Received(q)' = Received(q)
<1> PICK o \in Ordered, n \in Counts :
       /\ NextCollective(p, [op |-> o])
       /\ IF o \in Begins /\ split[p] # 0
          THEN UNCHANGED <<pc, call, split>>
          ELSE /\ split' = [split EXCEPT ![p] = IF o \in Begins THEN 1 ELSE @]
               /\ Goto(p, "recv")
               /\ call' = [call EXCEPT ![p] = [op |-> o, incr |-> n]]
  BY Zenon, SharedPointerAssumption DEF OrderedEnter
<1> DEFINE c == [op |-> o]
<1>1. c \in Collective /\ c.op = o
  BY Zenon DEF Collective
<1>2. NextCollective(p, c) /\ Step(p)
  BY Zenon DEF Step
<1>3. /\ call[p].op = "none" /\ pc[p] = "idle" /\ CallOK(p)
      /\ split[p] \in {0, 1} /\ split \in [Rank -> {0, 1}]
      /\ pc \in [Rank -> Place] /\ call \in [Rank -> CallType]
      /\ bar \in [Rank -> Nat]
      /\ split[p] = 1 <=> SplitActive(prog', pos[p])
  <2>1. call[p].op = "none" /\ pc[p] = "idle" /\ CallOK(p) /\ PlaceOK(p)
    BY Zenon, <1>2 DEF NextCollective, Control, CallOK
  <2>2. /\ split[p] \in {0, 1} /\ split \in [Rank -> {0, 1}]
        /\ pc \in [Rank -> Place] /\ call \in [Rank -> CallType]
        /\ bar \in [Rank -> Nat]
    BY Zenon DEF Control, TypeOK
  <2>3. SplitActive(prog', pos[p]) <=> SplitActive(prog, pos[p])
    BY Zenon, <1>1, <1>2, EnterCalls
  <2> QED
    BY Zenon, <2>1, <2>2, <2>3 DEF PlaceOK
<1>4. prog'[pos[p] + 1] = c
  BY Zenon, <1>1, <1>2, EnterProgram
<1> HIDE DEF c
<1>5. UNCHANGED <<fp, sfd, name, val, lock, token, bar, shared, faults, claims,
                  gen, base, lost>>
  BY Zenon DEF OrderedEnter
<1>8. Synchronises(prog', pos[p] + 1) <=> ~ (o \in Begins /\ split[p] = 1)
  <2>1. prog'[pos[p] + 1].op = o /\ o # "ordered_end"
    BY <1>1, <1>4 DEF Ordered
  <2>2. SplitActive(prog', pos[p]) <=> split[p] = 1
    BY Zenon, <1>3
  <2>3. pos[p] \in Nat
    BY Zenon DEF Control
  <2> QED
    BY Zenon, <2>1, <2>2, <2>3, SyncNext
<1>6. CASE o \in Begins /\ split[p] # 0
  <2>1. UNCHANGED <<pc, call, split>> /\ split[p] = 1
    BY <1>3, <1>6
  <2>2. ~ Synchronises(prog', pos[p] + 1)
    BY Zenon, <1>6, <1>8, <2>1
  <2>3. CallOK(p)'
    BY Zenon, <1>3, <2>1 DEF CallOK
  <2>4. c.op \in Begins /\ c.op # "close" /\ c.op # "seek_shared"
    BY <1>1, <1>6 DEF Begins
  <2>5. Control'
    BY Zenon, <1>1, <1>2, <1>3, <1>5, <2>1, <2>3, <2>4, EnterControl
  <2>6. /\ \A q \in Rank : /\ Entered(q)' = Entered(q)
                           /\ Departed(q)' = Departed(q)
                           /\ Received(q)' = Received(q) /\ Sent(q)' = Sent(q)
        /\ SeeksSet' = SeeksSet
    BY Zenon, <1>1, <1>2, <2>2, <2>4, EnterSets
  <2> QED
    BY Zenon, <1>5, <2>5, <2>6, ScheduleSame
<1>7. CASE ~ (o \in Begins /\ split[p] # 0)
  <2>1. /\ split' = [split EXCEPT ![p] = IF o \in Begins THEN 1 ELSE @]
        /\ pc' = [pc EXCEPT ![p] = "recv"]
        /\ call' = [call EXCEPT ![p] = [op |-> o, incr |-> n]]
    BY Zenon, <1>7 DEF Goto
  <2>2. /\ pc' \in [Rank -> Place] /\ pc'[p] = "recv"
        /\ call' \in [Rank -> CallType] /\ call'[p].op = o
        /\ split' \in [Rank -> {0, 1}]
        /\ split'[p] = IF o \in Begins THEN 1 ELSE split[p]
    <3>1. "recv" \in Place /\ [op |-> o, incr |-> n] \in CallType
      BY Zenon, CallFacts DEF Place
    <3>2. [op |-> o, incr |-> n].op = o
      BY Zenon
    <3> QED
      BY Zenon, <1>3, <2>1, <3>1, <3>2
  <2>3. Synchronises(prog', pos[p] + 1)
    BY <1>3, <1>7, <1>8
  <2>4. CallOK(p)' /\ BeforeBarrier(p)'
    BY <2>2 DEF CallOK, Ordered, BeforeBarrier, AnyOp
  <2>5. /\ c.op \notin {"close", "seek_shared", "ordered_end"}
        /\ split'[p] = 1 <=> (c.op \in Begins \/
                              (c.op # "ordered_end" /\ split[p] = 1))
    BY <1>1, <2>2 DEF Ordered
  <2>6. Control'
    BY Zenon, <1>1, <1>2, <1>3, <1>5, <2>2, <2>3, <2>4, <2>5, EnterControl
  <2>7. /\ \A q \in Rank : /\ Entered(q)' = Entered(q)
                           /\ Departed(q)' = Departed(q)
                           /\ Received(q)' = Received(q) /\ Sent(q)' = Sent(q)
        /\ SeeksSet' = SeeksSet
    BY Zenon, <1>1, <1>2, <2>2, <2>4, <2>5, EnterSets
  <2> QED
    BY Zenon, <1>5, <2>6, <2>7, ScheduleSame
<1> QED
  BY Zenon, <1>6, <1>7

LEMMA OrderedEndKept ==
  ASSUME Control, Schedule, NEW p \in Rank, OrderedEnd(p)
  PROVE  Control' /\ Schedule' /\ \A q \in Rank : Received(q)' = Received(q)
<1> DEFINE c == [op |-> "ordered_end"]
<1>1. /\ c \in Collective /\ c.op = "ordered_end"
      /\ c.op \notin Ordered /\ c.op # "seek_shared" /\ c.op # "close"
      /\ c.op \notin Begins
  BY DEF Collective, Ordered, Begins
<1>2. NextCollective(p, c) /\ Step(p)
  BY Zenon DEF Step, OrderedEnd
<1>3. /\ call[p].op = "none" /\ pc[p] = "idle" /\ CallOK(p)
      /\ split \in [Rank -> {0, 1}]
      /\ pc \in [Rank -> Place] /\ call \in [Rank -> CallType]
      /\ bar \in [Rank -> Nat]
  BY Zenon, <1>1, <1>2 DEF NextCollective, Control, TypeOK, CallOK
<1>4. prog'[pos[p] + 1] = c
  BY Zenon, <1>1, <1>2, EnterProgram
<1> HIDE DEF c
<1>5. /\ UNCHANGED <<fp, sfd, name, val, lock, token, bar, shared, faults, claims,
                     gen, base, lost, pc, call>>
      /\ split' = [split EXCEPT ![p] = 0]
  BY Zenon DEF OrderedEnd
<1>6. ~ Synchronises(prog', pos[p] + 1)
  BY Zenon, <1>1, <1>4 DEF Synchronises
<1>7. split' \in [Rank -> {0, 1}] /\ split'[p] = 0
  BY Zenon, <1>3, <1>5
<1>8. CallOK(p)' /\ split'[p] # 1
  BY <1>3, <1>5, <1>7 DEF CallOK
<1>9. Control'
  BY Zenon, <1>1, <1>2, <1>3, <1>5, <1>7, <1>8, EnterControl
<1>10. /\ \A q \in Rank : /\ Entered(q)' = Entered(q)
                          /\ Departed(q)' = Departed(q)
                          /\ Received(q)' = Received(q) /\ Sent(q)' = Sent(q)
       /\ SeeksSet' = SeeksSet
  BY Zenon, <1>1, <1>2, <1>6, EnterSets
<1> QED
  BY Zenon, <1>5, <1>9, <1>10, ScheduleSame

LEMMA SeekEnterKept ==
  ASSUME Counting, Control, Schedule, NEW p \in Rank, SeekEnter(p)
  PROVE  Control' /\ Schedule' /\ \A q \in Rank : Received(q)' = Received(q)
<1> PICK w \in {"SET", "CUR"}, o \in Offsets :
       /\ NextCollective(p, [op |-> "seek_shared", whence |-> w, offset |-> o])
       /\ IF p # 0
          THEN /\ Goto(p, "barrier")
               /\ bar' = [bar EXCEPT ![p] = @ + 1]
               /\ call' = [call EXCEPT ![p] = [op |-> "seek_shared", incr |-> 0]]
          ELSE /\ Goto(p, IF w = "CUR" THEN "get"
                          ELSE IF BadOffset(o) THEN "failed" ELSE "set")
               /\ call' = [call EXCEPT ![p] =
                    [op |-> "seek_shared", incr |-> 0, offset |-> o]]
               /\ bar' = bar
  BY Zenon DEF SeekEnter
<1> DEFINE c == [op |-> "seek_shared", whence |-> w, offset |-> o]
<1>1. /\ c \in Collective /\ c.op = "seek_shared"
      /\ c.op \notin Ordered /\ c.op # "close" /\ c.op \in Meeting \cap AnyOp
      /\ c.op \notin Begins /\ c.op # "ordered_end"
  BY DEF Collective, Ordered, Begins, Meeting, AnyOp
<1>2. NextCollective(p, c) /\ Step(p)
  BY Zenon DEF Step
<1>3. /\ call[p].op = "none" /\ pc[p] = "idle"
      /\ split \in [Rank -> {0, 1}] /\ pos[p] \in Nat
      /\ pc \in [Rank -> Place] /\ call \in [Rank -> CallType]
      /\ bar \in [Rank -> Nat]
  BY Zenon, <1>1, <1>2 DEF NextCollective, Control, TypeOK, CallOK
<1>4. prog'[pos[p] + 1] = c /\ pos'[p] = pos[p] + 1
  BY Zenon, <1>1, <1>2, EnterProgram DEF Control
<1> HIDE DEF c
<1>5. UNCHANGED <<fp, sfd, split, name, val, lock, token, shared, faults, claims,
                  gen, base, lost>>
  BY Zenon DEF SeekEnter
<1>6. Synchronises(prog', pos[p] + 1)
  BY Zenon, <1>1, <1>4 DEF Synchronises
<1>7. CASE p # 0
  <2>1. /\ pc' = [pc EXCEPT ![p] = "barrier"]
        /\ bar' = [bar EXCEPT ![p] = bar[p] + 1]
        /\ call' = [call EXCEPT ![p] = [op |-> "seek_shared", incr |-> 0]]
    BY Zenon, <1>7 DEF Goto
  <2>2. "barrier" \in Place /\ [op |-> "seek_shared", incr |-> 0] \in CallType
    BY Zenon, CallFacts DEF Place
  <2>3. /\ pc' \in [Rank -> Place] /\ pc'[p] = "barrier"
        /\ call' \in [Rank -> CallType] /\ call'[p].op = "seek_shared"
    BY Zenon, <1>3, <2>1, <2>2
  <2>4. bar' \in [Rank -> Nat]
    <3>1. bar[p] + 1 \in Nat
      BY <1>3
    <3> QED
      BY Zenon, <1>3, <2>1, <3>1
  <2>5. CallOK(p)' /\ ~ BeforeBarrier(p)' /\ pc'[p] # "closed" /\ pc'[p] # "recv"
    BY <2>3 DEF CallOK, Ordered, BeforeBarrier
  <2>6. Control'
    BY Zenon, <1>1, <1>2, <1>3, <1>5, <1>6, <2>3, <2>4, <2>5, EnterControl
  <2>7. /\ \A q \in Rank : /\ q # p => Entered(q)' = Entered(q)
                           /\ Departed(q)' = Departed(q)
                           /\ Received(q)' = Received(q) /\ Sent(q)' = Sent(q)
        /\ SeeksSet' = SeeksSet
        /\ Entered(p) = Calls(prog', pos'[p], TRUE, Meeting)
    BY Zenon, <1>1, <1>2, <1>7, <2>3, <2>5, EnterSets
  <2>8. Entered(p)' = Calls(prog', pos'[p], FALSE, Meeting)
    BY Zenon, <2>5, FlagTypes, CallsFlag DEF Entered
  <2>9. /\ Entered(p)' = Entered(p) \cup {pos[p] + 1}
        /\ Cardinality(Entered(p)') = Cardinality(Entered(p)) + 1
    <3>1. prog'[pos[p] + 1].op \in Meeting
      BY Zenon, <1>1, <1>4
    <3>2. /\ Calls(prog', pos[p] + 1, FALSE, Meeting) =
                Calls(prog', pos[p] + 1, TRUE, Meeting) \cup {pos[p] + 1}
          /\ Cardinality(Calls(prog', pos[p] + 1, FALSE, Meeting)) =
                Cardinality(Calls(prog', pos[p] + 1, TRUE, Meeting)) + 1
      BY Zenon, <1>3, <1>6, <3>1, CallsNext
    <3> QED
      BY Zenon, <1>4, <2>7, <2>8, <3>2
  <2> QED
    BY Zenon, <1>3, <1>5, <2>1, <2>6, <2>7, <2>9, ScheduleBarrier
<1>8. CASE p = 0
  <2> DEFINE l == IF w = "CUR" THEN "get" ELSE IF BadOffset(o) THEN "failed" ELSE "set"
             r == [op |-> "seek_shared", incr |-> 0, offset |-> o]
  <2>1. pc' = [pc EXCEPT ![p] = l] /\ call' = [call EXCEPT ![p] = r] /\ bar' = bar
    BY Zenon, <1>8 DEF Goto
  <2>2. r \in SeekOfRank0 /\ r \in CallType /\ r.op = "seek_shared" /\ r.offset = o
    BY Zenon, CallFacts
  <2>3. /\ l \in Place /\ l \notin {"setunlock", "barrier", "closed", "recv", "coll"}
        /\ l \in Getting \cup Setting \cup {"failed"} /\ l # "idle" /\ l # "write"
        /\ l \in Setting => o \in Nat
    <3>1. ~ BadOffset(o) => o \in Nat
      BY Zenon, OffsetFacts
    <3>2. l \in {"get", "failed", "set"} /\ (l = "set" => ~ BadOffset(o))
      BY Zenon
    <3> HIDE DEF l
    <3> QED
      BY Zenon, <3>1, <3>2 DEF Place, Getting, Setting
  <2> HIDE DEF l, r
  <2>4. /\ pc' \in [Rank -> Place] /\ pc'[p] = l
        /\ call' \in [Rank -> CallType] /\ call'[p] = r
        /\ bar' \in [Rank -> Nat]
    BY Zenon, <1>3, <2>1, <2>2, <2>3
  <2>5. CallOK(p)'
    BY <1>8, <2>2, <2>3, <2>4 DEF CallOK, Ordered
  <2>6. BeforeBarrier(p)'
    BY Zenon, <1>1, <2>2, <2>3, <2>4 DEF BeforeBarrier
  <2>7. Control'
    BY Zenon, <1>1, <1>2, <1>3, <1>5, <1>6, <2>2, <2>4, <2>5, EnterControl
  <2>8. /\ call'[p].op = c.op /\ pc'[p] # "closed"
        /\ call'[0].op = "seek_shared" /\ pc'[0] \notin {"setunlock", "barrier"}
    BY Zenon, <1>1, <1>8, <2>2, <2>3, <2>4
  <2>9. /\ \A q \in Rank : /\ Entered(q)' = Entered(q)
                           /\ Departed(q)' = Departed(q)
                           /\ Received(q)' = Received(q) /\ Sent(q)' = Sent(q)
        /\ SeeksSet' = SeeksSet
    BY Zenon, <1>1, <1>2, <2>6, <2>8, EnterSets
  <2> QED
    BY Zenon, <1>5, <2>1, <2>7, <2>9, ScheduleSame
<1> QED
  BY Zenon, <1>7, <1>8

LEMMA CloseEnterKept ==
  ASSUME Counting, Control, Schedule, NEW p \in Rank, CloseEnter(p)
  PROVE  Control' /\ Schedule' /\ \A q \in Rank : Received(q)' = Received(q)
<1> DEFINE c == [op |-> "close"]
<1>1. /\ c \in Collective /\ c.op = "close"
      /\ c.op \notin Ordered /\ c.op # "seek_shared" /\ c.op \in Meeting \cap AnyOp
      /\ c.op \notin Begins /\ c.op # "ordered_end"
  BY DEF Collective, Ordered, Begins, Meeting, AnyOp
<1>2. NextCollective(p, c) /\ Step(p)
  BY Zenon DEF Step, CloseEnter
<1>3. /\ call[p].op = "none" /\ pc[p] = "idle"
      /\ split \in [Rank -> {0, 1}] /\ pos[p] \in Nat
      /\ pc \in [Rank -> Place] /\ call \in [Rank -> CallType]
      /\ bar \in [Rank -> Nat]
  BY Zenon, <1>1, <1>2 DEF NextCollective, Control, TypeOK, CallOK
<1>4. prog'[pos[p] + 1] = c /\ pos'[p] = pos[p] + 1
  BY Zenon, <1>1, <1>2, EnterProgram DEF Control
<1> HIDE DEF c
<1>5. /\ UNCHANGED <<fp, sfd, split, name, val, lock, token, shared, faults,
                     claims, gen, base, lost>>
      /\ pc' = [pc EXCEPT ![p] = "barrier"]
      /\ bar' = [bar EXCEPT ![p] = bar[p] + 1]
      /\ call' = [call EXCEPT ![p] = [op |-> "close", incr |-> 0]]
  BY Zenon DEF CloseEnter, Goto
<1>6. Synchronises(prog', pos[p] + 1)
  BY Zenon, <1>1, <1>4 DEF Synchronises
<1>7. "barrier" \in Place /\ [op |-> "close", incr |-> 0] \in CallType
  BY Zenon, CallFacts DEF Place
<1>8. /\ pc' \in [Rank -> Place] /\ pc'[p] = "barrier"
      /\ call' \in [Rank -> CallType] /\ call'[p].op = "close"
  BY Zenon, <1>3, <1>5, <1>7
<1>9. bar' \in [Rank -> Nat]
  <2>1. bar[p] + 1 \in Nat
    BY <1>3
  <2> QED
    BY Zenon, <1>3, <1>5, <2>1
<1>10. CallOK(p)' /\ ~ BeforeBarrier(p)' /\ pc'[p] # "closed" /\ pc'[p] # "recv"
  BY <1>8 DEF CallOK, Ordered, BeforeBarrier
<1>11. Control'
  BY Zenon, <1>1, <1>2, <1>3, <1>5, <1>6, <1>8, <1>9, <1>10, EnterControl
<1>12. /\ \A q \in Rank : /\ q # p => Entered(q)' = Entered(q)
                          /\ Departed(q)' = Departed(q)
                          /\ Received(q)' = Received(q) /\ Sent(q)' = Sent(q)
       /\ SeeksSet' = SeeksSet
       /\ Entered(p) = Calls(prog', pos'[p], TRUE, Meeting)
  BY Zenon, <1>1, <1>2, <1>8, <1>10, EnterSets
<1>13. Entered(p)' = Calls(prog', pos'[p], FALSE, Meeting)
  BY Zenon, <1>10, FlagTypes, CallsFlag DEF Entered
<1>14. /\ Entered(p)' = Entered(p) \cup {pos[p] + 1}
       /\ Cardinality(Entered(p)') = Cardinality(Entered(p)) + 1
  <2>1. prog'[pos[p] + 1].op \in Meeting
    BY Zenon, <1>1, <1>4
  <2>2. /\ Calls(prog', pos[p] + 1, FALSE, Meeting) =
              Calls(prog', pos[p] + 1, TRUE, Meeting) \cup {pos[p] + 1}
        /\ Cardinality(Calls(prog', pos[p] + 1, FALSE, Meeting)) =
              Cardinality(Calls(prog', pos[p] + 1, TRUE, Meeting)) + 1
    BY Zenon, <1>3, <1>6, <2>1, CallsNext
  <2> QED
    BY Zenon, <1>4, <1>12, <1>13, <2>2
<1> QED
  BY Zenon, <1>3, <1>5, <1>11, <1>12, <1>14, ScheduleBarrier

(***************************************************************************)
(* Every step keeps the invariant                                           *)
(***************************************************************************)

\* Every step keeps the schedule of tokens and barriers.
LEMMA StepSchedule ==
  ASSUME Counting, Control, Schedule, NameOK, LockOK, NEW p \in Rank, Step(p)
  PROVE  Control' /\ Schedule'
<1>1. CASE OrderedEnter(p)
  BY Zenon, <1>1, OrderedEnterKept
<1>2. CASE OrderedEnd(p)
  BY Zenon, <1>2, OrderedEndKept
<1>3. CASE SeekEnter(p)
  BY Zenon, <1>3, SeekEnterKept
<1>4. CASE CloseEnter(p)
  BY Zenon, <1>4, CloseEnterKept
<1>5. CASE Quiet(p)
  <2>1. Inside(p)
    BY Zenon, <1>5 DEF Quiet, Inside
  <2> QED
    BY Zenon, <1>5, <2>1, InsideControl, QuietSchedule
<1>6. CASE TokenRecv(p)
  BY Zenon, <1>6, InsideControl, TokenRecvSchedule DEF Inside
<1>7. CASE TokenSend(p)
  BY Zenon, <1>7, InsideControl, TokenSendSchedule DEF Inside
<1>8. CASE SetWrite(p)
  BY Zenon, <1>8, InsideControl, SetWriteSchedule DEF Inside
<1>9. CASE SetDone(p)
  BY Zenon, <1>9, InsideControl, SetDoneSchedule DEF Inside
<1>10. CASE Leaves(p)
  <2>1. Inside(p)
    BY Zenon, <1>10 DEF Leaves, Inside
  <2> QED
    BY Zenon, <1>10, <2>1, InsideControl, LeaveSchedule
<1> QED
  BY Zenon, <1>1, <1>2, <1>3, <1>4, <1>5, <1>6, <1>7, <1>8, <1>9, <1>10
     DEF Step, Quiet, Leaves

Enters(p) == OrderedEnter(p) \/ OrderedEnd(p) \/ SeekEnter(p) \/ CloseEnter(p)

\* A step adds calls at the end of the program only, and takes back no token.
LEMMA ClaimsSame ==
  ASSUME Counting, Control, Schedule, NameOK, LockOK, ClaimsOK, NEW p \in Rank,
         Step(p)
  PROVE  /\ Len(prog) \in Nat /\ Len(prog') \in Nat /\ Len(prog) <= Len(prog')
         /\ \A k \in 1 .. Len(prog) : prog'[k] = prog[k]
         /\ \A q \in Rank : Received(q) \subseteq Received(q)'
<1>1. Len(prog) \in Nat
  BY DEF Control, TypeOK
<1>2. CASE Inside(p)
  <2>1. prog' = prog
    BY Zenon, <1>2, InsideControl
  <2>2. \A q \in Rank : Received(q) \subseteq Received(q)'
    BY Zenon, <1>2, QuietSchedule, TokenRecvSchedule, TokenSendSchedule,
       SetWriteSchedule, SetDoneSchedule, LeaveSchedule DEF Inside, Quiet, Leaves
  <2> QED
    BY <1>1, <2>1, <2>2
<1>3. ASSUME NEW c \in Collective, NextCollective(p, c)
      PROVE  /\ Len(prog') \in Nat /\ Len(prog) <= Len(prog')
             /\ \A k \in 1 .. Len(prog) : prog'[k] = prog[k]
  BY Zenon, <1>3, EnterProgram
<1>4. CASE Enters(p)
  <2>1. \E c \in Collective : NextCollective(p, c)
    <3>1. /\ \A o \in Ordered : [op |-> o] \in Collective
          /\ [op |-> "ordered_end"] \in Collective /\ [op |-> "close"] \in Collective
          /\ \A w \in {"SET", "CUR"}, o \in Offsets :
                [op |-> "seek_shared", whence |-> w, offset |-> o] \in Collective
      BY Zenon DEF Collective
    <3> QED
      BY Zenon, <1>4, <3>1, SharedPointerAssumption
         DEF Enters, OrderedEnter, OrderedEnd, SeekEnter, CloseEnter
  <2>2. \A q \in Rank : Received(q)' = Received(q)
    BY Zenon, <1>4, OrderedEnterKept, OrderedEndKept, SeekEnterKept, CloseEnterKept
       DEF Enters
  <2> QED
    BY Zenon, <1>1, <1>3, <2>1, <2>2
<1> QED
  BY Zenon, <1>2, <1>4 DEF Step, Inside, Enters

\* The seeks before a claim do not change when the program grows.
LEMMA SeeksBeforeSame ==
  ASSUME Control, NEW n \in Nat, n <= Len(prog), Len(prog) \in Nat,
         \A k \in 1 .. Len(prog) : prog'[k] = prog[k]
  PROVE  SeeksBefore(n)' = SeeksBefore(n)
<1>1. \A k \in 1 .. n : k \in 1 .. Len(prog)
  OBVIOUS
<1>2. {k \in 1 .. n : prog'[k].op = "seek_shared"} =
        {k \in 1 .. n : prog[k].op = "seek_shared"}
  BY Zenon, <1>1
<1> QED
  BY Zenon, <1>2 DEF SeeksBefore

\* The steps that hand out no region.
LEMMA OldClaims ==
  ASSUME Counting, Inv, NEW p \in Rank, Step(p), NEW c \in claims
  PROVE  /\ c \in ClaimType
         /\ c.pos <= Len(prog')
         /\ c.op \in Ordered => c.pos \in Received(c.rank)'
         /\ SeeksBefore(c.pos)' = SeeksBefore(c.pos)
         /\ c.gen \in Nat /\ c.gen <= gen /\ gen \in Nat
         /\ c.gen >= SeeksBefore(c.pos)
         /\ c.op \in Gathering => c.gen <= SeeksBefore(c.pos)
         /\ SeeksBefore(c.pos) \in Nat
<1>1. /\ Len(prog) \in Nat /\ Len(prog') \in Nat /\ Len(prog) <= Len(prog')
      /\ \A k \in 1 .. Len(prog) : prog'[k] = prog[k]
      /\ \A q \in Rank : Received(q) \subseteq Received(q)'
  BY Zenon, ClaimsSame DEF Inv
<1>2. /\ c \in ClaimType /\ c.pos <= Len(prog) /\ c.gen <= gen
      /\ c.op \in Ordered => c.pos \in Received(c.rank)
      /\ gen \in Nat
      /\ c.gen >= SeeksBefore(c.pos)
      /\ c.op \in Gathering => c.gen <= SeeksBefore(c.pos)
  BY Zenon DEF Inv, ClaimsOK, SeekVisible, OrderedBeforeSeek, Control, TypeOK
<1>3. c.pos \in Nat /\ c.gen \in Nat /\ c.rank \in Rank
  BY <1>2 DEF ClaimType
<1>4. c.pos <= Len(prog')
  BY <1>1, <1>2, <1>3
<1>5. SeeksBefore(c.pos)' = SeeksBefore(c.pos)
  BY Zenon, <1>1, <1>2, <1>3, SeeksBeforeSame DEF Inv
<1>6. SeeksBefore(c.pos) \in Nat
  BY Zenon, <1>3, SeeksBeforeIs, SeeksFinite
<1> QED
  BY Zenon, <1>1, <1>2, <1>3, <1>4, <1>5, <1>6

Claims == ClaimsOK /\ SeekVisible /\ OrderedBeforeSeek /\ OrderedByRank

\* A step that hands out nothing.
LEMMA NoClaim ==
  ASSUME Counting, Inv, NEW p \in Rank, Step(p), claims' = claims,
         ~ lost' => ~ lost,
         gen' \in Nat, gen <= gen'
  PROVE  Claims'
<1>1. ASSUME NEW c \in claims PROVE c.gen <= gen'
  <2>1. c.gen \in Nat /\ c.gen <= gen /\ gen \in Nat
    BY Zenon, OldClaims
  <2> QED
    BY <2>1
<1>2. ClaimsOK'
  <2>1. claims' \subseteq ClaimType
    BY Zenon DEF Inv, ClaimsOK
  <2>2. \A c \in claims' :
           c.pos <= Len(prog') /\ (c.op \in Ordered => c.pos \in Received(c.rank)')
    BY Zenon, OldClaims
  <2> QED
    BY Zenon, <1>1, <2>1, <2>2 DEF ClaimsOK, Ordered, ClaimType, Rank
<1>3. SeekVisible' /\ OrderedBeforeSeek'
  <2>1. \A c \in claims' : c.gen >= SeeksBefore(c.pos)'
    BY Zenon, OldClaims
  <2>2. \A c \in claims' : c.op \in Gathering => c.gen <= SeeksBefore(c.pos)'
    BY Zenon, OldClaims
  <2> QED
    BY Zenon, <2>1, <2>2 DEF SeekVisible, OrderedBeforeSeek, Gathering
<1>4. OrderedByRank'
  BY Zenon DEF Inv, OrderedByRank, Gathering, Ordered
<1> QED
  BY Zenon, <1>2, <1>3, <1>4 DEF Claims

\* A step that hands out a region.
LEMMA ClaimsGrow ==
  ASSUME Counting, Inv, NEW p \in Rank, GetWrite(p)
  PROVE  Claims'
<1> DEFINE new == NewClaim(p)
<1>1. /\ pc[p] = "write" /\ Step(p)
      /\ prog' = prog /\ gen' = gen /\ lost' = lost
      /\ claims' = claims \cup {new}
  BY Zenon DEF GetWrite, Step, NewClaim
<1>2. /\ new.rank = p /\ new.op = call[p].op /\ new.pos = pos[p]
      /\ new.off = fp[p] /\ new.len = call[p].incr /\ new.gen = gen
  BY DEF NewClaim
<1>3. /\ new \in ClaimType /\ gen \in Nat /\ pos[p] <= Len(prog)
      /\ call[p].op \in Ordered => pos[p] \in Received(p)
  BY Zenon, <1>1, Writer
<1>4. /\ gen >= SeeksBefore(pos[p]) /\ SeeksBefore(pos[p]) \in Nat
      /\ call[p].op \in Gathering => gen = SeeksBefore(pos[p])
  BY Zenon, <1>1, WriterSeeks
<1>5. \A n : SeeksBefore(n)' = SeeksBefore(n)
  BY Zenon, <1>1 DEF SeeksBefore
<1>6. Received(p) \subseteq Received(p)'
  BY Zenon, <1>1, ClaimsSame DEF Inv
<1>7. gen <= gen /\ (gen = SeeksBefore(pos[p]) => gen <= SeeksBefore(pos[p]))
  BY <1>3, <1>4
<1> HIDE DEF new
<1>8. ClaimsOK'
  <2>1. ASSUME NEW c \in claims'
        PROVE  /\ c \in ClaimType /\ c.pos <= Len(prog') /\ c.gen <= gen'
               /\ c.op \in Ordered => c.pos \in Received(c.rank)'
    <3>1. CASE c \in claims
      BY Zenon, <1>1, <3>1, OldClaims
    <3>2. CASE c = new
      BY Zenon, <1>1, <1>2, <1>3, <1>6, <1>7, <3>2
    <3> QED
      BY Zenon, <1>1, <2>1, <3>1, <3>2
  <2> QED
    BY Zenon, <2>1 DEF ClaimsOK, Ordered, ClaimType, Rank
<1>9. SeekVisible' /\ OrderedBeforeSeek'
  <2>1. ASSUME NEW c \in claims'
        PROVE  /\ c.gen >= SeeksBefore(c.pos)'
               /\ c.op \in Gathering => c.gen <= SeeksBefore(c.pos)'
    <3>1. CASE c \in claims
      BY Zenon, <1>1, <3>1, OldClaims
    <3>2. CASE c = new
      BY Zenon, <1>2, <1>4, <1>5, <1>7, <3>2
    <3> QED
      BY Zenon, <1>1, <2>1, <3>1, <3>2
  <2> QED
    BY Zenon, <2>1 DEF SeekVisible, OrderedBeforeSeek, Gathering
<1>10. OrderedByRank'
  <2> SUFFICES ASSUME ~ lost, NEW c \in claims', NEW d \in claims',
                      c.op \in Ordered, d.op \in Ordered, c.pos = d.pos,
                      c.rank < d.rank,
                      (c.op \in Gathering /\ d.op \in Gathering) \/ c.gen = d.gen
               PROVE  c.off + c.len <= d.off
    BY Zenon, <1>1 DEF OrderedByRank, Gathering, Ordered
  <2>1. CASE c \in claims /\ d \in claims
    BY Zenon, <2>1 DEF Inv, OrderedByRank
  <2>2. CASE c \in claims /\ d = new
    BY Zenon, <1>1, <1>2, <2>2, WriterOrder
  <2>3. CASE c = new /\ d \in claims
    BY Zenon, <1>1, <1>2, <2>3, WriterOrder
  <2>4. ~ (c = new /\ d = new)
    <3>1. ~ (p < p)
      BY DEF Rank
    <3> QED
      BY Zenon, <1>2, <3>1
  <2> QED
    BY Zenon, <1>1, <2>1, <2>2, <2>3, <2>4
<1> QED
  BY Zenon, <1>8, <1>9, <1>10 DEF Claims

\* Every step keeps what is known of the regions.
LEMMA ClaimsKept ==
  ASSUME Counting, Inv, NEW p \in Rank, Step(p)
  PROVE  Claims'
<1>1. gen \in Nat
  BY Zenon DEF Inv, Control, TypeOK
<1>2. gen <= gen /\ gen + 1 \in Nat /\ gen <= gen + 1
  BY <1>1
<1>3. CASE Harmless(p)
  BY Zenon, <1>1, <1>2, <1>3, HarmlessFacts, NoClaim DEF Inv
<1>4. CASE GetOpen(p) \/ SetOpen(p)
  <2>1. UNCHANGED <<claims, gen, lost>>
    BY Zenon, <1>4 DEF GetOpen, SetOpen
  <2> QED
    BY Zenon, <1>1, <1>2, <2>1, NoClaim
<1>5. CASE GetWrite(p)
  BY Zenon, <1>5, ClaimsGrow
<1>6. CASE SetWrite(p)
  <2>1. claims' = claims /\ gen' = gen + 1 /\ lost' = lost
    BY Zenon, <1>6 DEF SetWrite
  <2> QED
    BY Zenon, <1>1, <1>2, <2>1, NoClaim
<1>7. CASE CloseLeave(p)
  <2>1. UNCHANGED <<claims, gen, lost>>
    BY Zenon, <1>7 DEF CloseLeave
  <2> QED
    BY Zenon, <1>1, <1>2, <2>1, NoClaim
<1> QED
  BY Zenon, <1>3, <1>4, <1>5, <1>6, <1>7 DEF Step, Harmless, Aside

LEMMA StepInv ==
  ASSUME Counting, Inv, NEW p \in Rank, Step(p)
  PROVE  Inv'
<1>1. Control' /\ Schedule'
  BY Zenon, StepSchedule DEF Inv
<1>2. NameOK' /\ LockOK'
  BY Zenon, NameKept, LockKept DEF Inv
<1>3. PointerAhead' /\ RegionsTile'
  BY Zenon, TilesKept DEF Inv
<1>4. ClaimsOK' /\ SeekVisible' /\ OrderedBeforeSeek' /\ OrderedByRank'
  BY Zenon, ClaimsKept DEF Claims
<1> QED
  BY Zenon, <1>1, <1>2, <1>3, <1>4 DEF Inv

(***************************************************************************)
(* The theorems                                                             *)
(***************************************************************************)

INSTANCE FiniteSetTheorems

LEMMA CountingHolds == Counting
<1>1. \A n \in Nat : IsFiniteSet(1 .. n)
  <2> TAKE n \in Nat
  <2>1. 1 \in Int /\ n \in Int
    OBVIOUS
  <2> QED
    BY Zenon, <2>1, FS_Interval
<1>2. \A S : IsFiniteSet(S) => Cardinality(S) \in Nat
  BY Zenon, FS_CardinalityType
<1>3. \A S, x : (IsFiniteSet(S) /\ x \notin S) =>
         Cardinality(S \cup {x}) = Cardinality(S) + 1
  BY Zenon, FS_AddElement
<1>4. \A S : IsFiniteSet(S) => \A T \in SUBSET S :
         /\ IsFiniteSet(T)
         /\ Cardinality(T) <= Cardinality(S)
         /\ Cardinality(S) = Cardinality(T) => S = T
  BY Zenon, FS_Subset
<1>5. Cardinality({}) = 0
  BY Zenon, FS_EmptySet
<1> QED
  BY Zenon, <1>1, <1>2, <1>3, <1>4, <1>5 DEF Counting

LEMMA NextInv == Inv /\ [Next]_vars => Inv'
BY Zenon, StepInv, StutterInv, CountingHolds DEF Next

\* The inductive invariant holds in every state of the shared file pointer: the
\* ranks' places in their programs, the counters behind the barriers and the
\* tokens (MPI_Recv, MPI_Send, MPI_Barrier in write_ord.c, seek_sh.c and
\* close.c), the one pointer file and its lock, and the regions handed out.
THEOREM Invariance == Spec => []Inv
<1>1. Init => Inv
  BY Zenon, InitInv, CountingHolds
<1>2. Inv /\ [Next]_vars => Inv'
  BY Zenon, NextInv
<1> QED
  BY <1>1, <1>2, PTL DEF Spec

\* A rank is always at one of the points ADIO_Get_shared_fp, ADIO_Set_shared_fp
\* and their callers have, and the pointer file holds a natural number.
THEOREM TypeCorrect == Spec => []TypeOK
<1>1. Inv => TypeOK
  BY Zenon DEF Inv, Control
<1> QED
  BY <1>1, Invariance, PTL

\* Between the lock and the unlock of the pointer file in ADIO_Get_shared_fp and
\* ADIO_Set_shared_fp a rank is alone on that file, whatever the others do and
\* whichever of its reads and writes fail.
THEOREM LockProtects ==
  Spec => [](\A p, q \in Rank :
               (p # q /\ pc[p] \in Locked /\ pc[q] \in Locked) => sfd[p] # sfd[q])
<1>1. Inv => \A p, q \in Rank :
               (p # q /\ pc[p] \in Locked /\ pc[q] \in Locked) => sfd[p] # sfd[q]
  BY Zenon, LockExclusive DEF Inv
<1> QED
  BY <1>1, Invariance, PTL

\* ADIO_Get_shared_fp hands every access a region of its own, and the regions
\* handed out since the last seek leave no gap, as long as no first read of the
\* pointer file has failed.
THEOREM RegionsAlwaysTile == Spec => []RegionsTile
<1>1. Inv => RegionsTile
  BY Zenon DEF Inv
<1> QED
  BY <1>1, Invariance, PTL

\* The token of the ordered accesses (write_ord.c, write_ordb.c, read_ord.c and
\* read_ordb.c) gives the ranks of one call their regions in rank order: all of
\* them when the transfer gathers, which is when romio_cb_write (romio_cb_read) is
\* not "disable", and in any case those between the same two seeks.
THEOREM RegionsInRankOrder == Spec => []OrderedByRank
<1>1. Inv => OrderedByRank
  BY Zenon DEF Inv
<1> QED
  BY <1>1, Invariance, PTL

\* After MPI_File_seek_shared has returned on a rank, that rank's accesses start
\* from the pointer it has set.
THEOREM SeeksAreVisible == Spec => []SeekVisible
<1>1. Inv => SeekVisible
  BY Zenon DEF Inv
<1> QED
  BY <1>1, Invariance, PTL

\* Rank 0 sets the pointer without waiting for the others to come to the seek,
\* and still no ordered access that precedes the seek gets a region from it,
\* provided its transfer gathers (collective buffering not disabled): then rank 0
\* comes to the seek only after every rank has its region.
THEOREM SeeksWait == Spec => []OrderedBeforeSeek
<1>1. Inv => OrderedBeforeSeek
  BY Zenon DEF Inv
<1> QED
  BY <1>1, Invariance, PTL

\* The barrier in MPI_File_close comes before any rank removes the pointer file:
\* every rank that still uses one uses the file the name stands for.
THEOREM PointerFileShared == Spec => []OnePointerFile
<1>1. ASSUME Inv, NEW p \in Rank, sfd[p] # NULL, call[p].op # "close"
      PROVE  sfd[p] = name
  <2>1. \A q \in Rank : pc[q] # "closed"
    BY Zenon, <1>1, NoneClosed DEF Inv
  <2> QED
    BY Zenon, <1>1, <2>1 DEF Inv, NameOK
<1>2. Inv => OnePointerFile
  BY Zenon, <1>1 DEF OnePointerFile
<1> QED
  BY <1>2, Invariance, PTL

\* MPI_File_close closes the pointer file, opened with ADIO_DELETE_ON_CLOSE, on each
\* rank that has it open: when every rank has closed the file, it is gone.
THEOREM PointerFileGone == Spec => []PointerFileRemoved
<1>1. Inv => PointerFileRemoved
  BY Zenon DEF Inv, NameOK, PointerFileRemoved
<1> QED
  BY <1>1, Invariance, PTL
=============================================================================
