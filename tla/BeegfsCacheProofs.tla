-------------------------- MODULE BeegfsCacheProofs ---------------------------
(***************************************************************************)
(* Proofs about BeegfsCache, for any number of processes, blocks, writes   *)
(* and any combination of faults: the fallback of the collective open, the *)
(* agreement of the processes on the cache, what a flush promises, and the *)
(* locks of the coherent cache.                                            *)
(***************************************************************************)
EXTENDS BeegfsCache, TLAPS

Place == {"create", "open", "bcast", "opened", "failed", "idle", "lock", "pwrite",
          "wflush", "flush", "wait", "flushed", "closed"}
Result == {"none", "exist", "io"}

OpenTypes ==
    /\ hints \in [mode : {"create", "excl", "plain"}, coherent : BOOLEAN, old : BOOLEAN]
    /\ exists \in BOOLEAN /\ created \in Seq(Result) /\ round \in [Ranks -> Nat]
    /\ err \in [Ranks -> {"none", "exist", "noent", "io"}]
    /\ cached \in [Ranks -> BOOLEAN] /\ pc \in [Ranks -> Place]

(* What justifies the failure of an open.                                  *)
Excuse ==
    \/ faults \cap {"open", "real"} # {}
    \/ hints.mode = "excl" /\ (hints.old \/ LeftBehind)
    \/ hints.mode = "plain" /\ ~hints.old

(* The results the root has broadcast: a second attempt was not made       *)
(* through the cache, and the file was there before or comes from a first. *)
ResultInv ==
    /\ created = << >> => exists = hints.old
    /\ \A i \in 1 .. Len(created) :
        /\ created[i] = "exist" =>
              hints.mode = "excl" /\ exists /\ (hints.old \/ "create" \in faults)
        /\ created[i] = "none" => exists
        /\ created[i] = "io" /\ i = 1 => "create" \in faults
        /\ created[i] = "io" /\ i # 1 => "real" \in faults

(* How far each process is in the attempts, and that it has given up the   *)
(* cache exactly if it has seen the first attempt fail.                    *)
RoundInv ==
    /\ round[Root] = Len(created)
    /\ \A r \in Ranks :
        /\ round[r] <= Len(created)
        /\ pc[r] = "create" => hints.mode # "plain" /\ (cached[r] => round[r] = 0)
                               /\ (~cached[r] => round[r] = 1)
        /\ pc[r] # "create" => hints.mode = "plain" \/ round[r] >= 1
        /\ cached[r] <=> (round[r] = 0 \/ created[1] = "none")
    /\ hints.mode = "plain" => created = << >> /\ exists = hints.old

(* The error code of a process past the attempts is justified.             *)
ErrorInv ==
    \A r \in Ranks :
        /\ pc[r] = "open" => hints.mode = "plain" \/ exists
        /\ pc[r] \notin {"create", "open"} /\ err[r] # "none" => Excuse
        /\ pc[r] = "failed" => Excuse

OpenInv == OpenTypes /\ ResultInv /\ RoundInv /\ ErrorInv

DataTypes ==
    /\ blocks \in [Ranks -> SUBSET Block] /\ left \in [Ranks -> SUBSET Block]
    /\ pen \in [Ranks -> Seq([id : Nat, blocks : SUBSET Block])]
    /\ cache \in [Block -> Nat] /\ global \in [Block -> Nat]
    /\ nw \in Nat /\ clock \in Nat
    /\ written \in [Ranks -> [Block -> Nat]] /\ acked \in [Ranks -> [Block -> Nat]]

(* The file a process writes to holds its writes, or later ones.           *)
Target(r) == IF cached[r] THEN cache ELSE global
StampInv ==
    /\ \A b \in Block : cache[b] <= clock /\ global[b] <= clock
    /\ \A r \in Ranks, b \in Block :
        written[r][b] <= Target(r)[b] /\ acked[r][b] <= Target(r)[b]

(* Only processes with an open file have written, and only through the     *)
(* cache is anything queued or handed to the daemon.                       *)
UseInv ==
    /\ \A r \in Ranks :
        /\ ~Running(r) => acked[r] = Zero /\ written[r] = Zero
        /\ pen[r] # << >> => Running(r) /\ cached[r]
        /\ cached[r] /\ flag = "flush_none" => acked[r] = Zero
    /\ daemon # {} => \E r \in Ranks : Running(r) /\ cached[r]

Dirty(r, b) == b \notin lost /\ global[b] < acked[r][b]
Queued(r, b) == \E i \in 1 .. Len(pen[r]) : b \in pen[r][i].blocks
WithDaemon(b) == \E d \in daemon : b \in d.left

(* What is not in the global file yet is queued or with the daemon.        *)
OwnedInv ==
    \A r \in Ranks :
        /\ \A b \in Block : Dirty(r, b) => Queued(r, b) \/ WithDaemon(b)
        /\ pc[r] = "wait" => pen[r] = << >>
        /\ pc[r] = "flushed" => \A b \in Block : ~Dirty(r, b)

DataInv == DataTypes /\ StampInv /\ UseInv /\ OwnedInv

(* A write through the coherent cache holds its locks before its pwrite.   *)
WriterLocked ==
    \A r \in Ranks : hints.coherent /\ cached[r] /\ pc[r] = "pwrite" =>
        \A b \in blocks[r] : <<r, b>> \in locks
BeegfsLockInv == WriterLocked /\ LockedWhileDirty

BeegfsInv == OpenInv /\ DataInv /\ BeegfsLockInv
-----------------------------------------------------------------------------
(* The collective open.                                                    *)

LEMMA EmptySeq == \A S : << >> \in Seq(S)
OBVIOUS

LEMMA TailSeq == \A S : \A s \in Seq(S) : s # << >> => Tail(s) \in Seq(S)
OBVIOUS

LEMMA AppendSeq == \A S : \A s \in Seq(S), e \in S : Append(s, e) \in Seq(S)
OBVIOUS

LEMMA OpenInit == Init => OpenInv
<1> SUFFICES ASSUME Init PROVE OpenInv
  BY Zenon
<1>1. OpenTypes
  BY Zenon, BeegfsAssumption, EmptySeq DEF Init, OpenTypes, Place
<1>2. ResultInv /\ RoundInv /\ ErrorInv
  BY <1>1, BeegfsAssumption DEF Init, OpenTypes, ResultInv, RoundInv, ErrorInv
<1> QED BY Zenon, <1>1, <1>2 DEF OpenInv

(* A justification stays one, whatever happens.                            *)
LEMMA ExcuseStays ==
  ASSUME Excuse, hints' = hints, exists => exists', faults \subseteq faults'
  PROVE  Excuse'
BY Zenon DEF Excuse, LeftBehind

(* What a process makes of a result of the root that it takes.             *)
LEMMA TakeStep ==
  ASSUME OpenTypes, RoundInv, ErrorInv,
         NEW r \in Ranks, pc[r] = "create",
         round[r] + 1 <= Len(created'), round[Root]' = Len(created'),
         created' \in Seq(Result), exists' \in BOOLEAN,
         exists => exists', faults \subseteq faults', hints' = hints,
         Len(created) <= Len(created'),
         \A i \in 1 .. Len(created) : created'[i] = created[i],
         ResultInv', TakeResult(r, created'[round[r] + 1])
  PROVE  OpenInv'
<1> DEFINE e == created'[round[r] + 1]
<1>1. /\ round[r] \in Nat /\ Len(created) \in Nat /\ Len(created') \in Nat
      /\ cached[r] \in BOOLEAN /\ e \in Result
      /\ hints.mode # "plain" /\ (cached[r] => round[r] = 0) /\ (~cached[r] => round[r] = 1)
  BY DEF OpenTypes, RoundInv
<1>2. /\ round' = [round EXCEPT ![r] = @ + 1]
      /\ err' = [err EXCEPT ![r] = e]
      /\ cached' = IF e # "none" /\ cached[r] THEN [cached EXCEPT ![r] = FALSE] ELSE cached
      /\ pc' = [pc EXCEPT ![r] = IF e = "none" THEN "open"
                                 ELSE IF cached[r] THEN "create" ELSE "opened"]
  BY Zenon DEF TakeResult, Revert, AfterCreate, Goto
<1> HIDE DEF e
<1>3. OpenTypes'
  BY <1>1, <1>2 DEF OpenTypes, Place, Result
<1>4. /\ e = "exist" => /\ hints'.mode = "excl" /\ exists'
                        /\ hints'.old \/ "create" \in faults'
      /\ e = "none" => exists'
      /\ e = "io" /\ round[r] # 0 => "real" \in faults'
  BY <1>1 DEF ResultInv, e
<1>5. RoundInv'
  <2>1. ASSUME NEW q \in Ranks
        PROVE  /\ round'[q] <= Len(created')
               /\ pc'[q] = "create" => /\ hints'.mode # "plain"
                                       /\ cached'[q] => round'[q] = 0
                                       /\ ~cached'[q] => round'[q] = 1
               /\ pc'[q] # "create" => hints'.mode = "plain" \/ round'[q] >= 1
               /\ cached'[q] <=> (round'[q] = 0 \/ created'[1] = "none")
    <3>1. CASE q = r
      BY <3>1, <1>1, <1>2 DEF OpenTypes, RoundInv, e
    <3>2. CASE q # r
      <4>1. /\ round'[q] = round[q] /\ pc'[q] = pc[q] /\ cached'[q] = cached[q]
            /\ round[q] \in Nat /\ round[q] <= Len(created)
        BY <3>2, <1>2 DEF OpenTypes, RoundInv
      <4>2. round[q] # 0 => created'[1] = created[1]
        BY <1>1, <4>1
      <4> QED BY <1>1, <4>1, <4>2 DEF OpenTypes, RoundInv
    <3> QED BY Zenon, <3>1, <3>2
  <2> QED BY Zenon, <2>1, <1>1 DEF RoundInv
<1>6. ErrorInv'
  <2>1. Excuse => Excuse'
    BY Zenon, ExcuseStays
  <2>2. e \notin {"none"} /\ ~cached[r] => Excuse'
    <3>1. ~cached[r] => round[r] # 0
      BY <1>1
    <3>2. "real" \in faults' => Excuse'
      BY Zenon DEF Excuse
    <3>3. ASSUME e = "exist" PROVE Excuse'
      <4>1. /\ hints'.mode = "excl" /\ exists'
            /\ hints'.old \/ "create" \in faults'
        BY <1>4, <3>3
      <4>2. CASE hints'.old
        BY Zenon, <4>1, <4>2 DEF Excuse
      <4>3. CASE ~hints'.old
        <5>1. LeftBehind'
          BY Zenon, <4>1, <4>3 DEF LeftBehind
        <5> QED BY Zenon, <4>1, <5>1 DEF Excuse
      <4> QED BY Zenon, <4>2, <4>3
    <3> QED BY Zenon, <1>1, <1>4, <3>1, <3>2, <3>3 DEF Result
  <2> SUFFICES ASSUME NEW q \in Ranks
               PROVE  /\ pc'[q] = "open" => hints'.mode = "plain" \/ exists'
                      /\ pc'[q] \notin {"create", "open"} /\ err'[q] # "none" => Excuse'
                      /\ pc'[q] = "failed" => Excuse'
    BY Zenon DEF ErrorInv
  <2>3. CASE q = r
    BY Zenon, <2>3, <2>2, <1>1, <1>2, <1>4 DEF OpenTypes
  <2>4. CASE q # r
    BY Zenon, <2>4, <2>1, <1>2 DEF OpenTypes, ErrorInv
  <2> QED BY Zenon, <2>3, <2>4
<1> QED BY Zenon, <1>3, <1>5, <1>6 DEF OpenInv

LEMMA CreateRootStep == ASSUME OpenInv, CreateRoot PROVE OpenInv'
<1>1. /\ pc[Root] = "create" /\ CreateResult /\ TakeResult(Root, created'[Len(created')])
      /\ hints' = hints /\ Root \in Ranks
  BY Zenon, BeegfsAssumption DEF CreateRoot
<1>2. PICK e \in Result :
        /\ created' = Append(created, e)
        /\ e = "exist" => hints.mode = "excl" /\ exists /\ exists'
        /\ e = "none" => exists'
        /\ e = "io" => (IF cached[Root] THEN "create" ELSE "real") \in faults'
        /\ exists' \in BOOLEAN /\ (exists => exists') /\ faults \subseteq faults'
  <2>1. exists \in BOOLEAN
    BY Zenon DEF OpenInv, OpenTypes
  <2>2. CASE hints.mode = "excl" /\ exists /\ created' = Append(created, "exist")
             /\ UNCHANGED <<exists, faults>>
    BY Zenon, <2>1, <2>2 DEF Result
  <2>3. CASE created' = Append(created, "none") /\ exists' = TRUE /\ UNCHANGED faults
    BY Zenon, <2>1, <2>3 DEF Result
  <2>4. CASE /\ Fault(IF cached[Root] THEN "create" ELSE "real")
             /\ created' = Append(created, "io") /\ exists' \in {exists, TRUE}
    <3>1. /\ faults \subseteq faults'
          /\ (IF cached[Root] THEN "create" ELSE "real") \in faults'
      BY Zenon, <2>4 DEF Fault
    <3>2. exists' \in BOOLEAN /\ (exists => exists')
      <4>1. CASE exists' = exists
        BY Zenon, <2>1, <4>1
      <4>2. CASE exists' = TRUE
        BY Zenon, <4>2
      <4> QED BY Zenon, <2>4, <4>1, <4>2
    <3> QED BY Zenon, <2>4, <3>1, <3>2 DEF Result
  <2> QED BY Zenon, <1>1, <2>2, <2>3, <2>4 DEF CreateResult
<1>3. /\ Len(created') = Len(created) + 1 /\ created' \in Seq(Result)
      /\ \A i \in 1 .. Len(created) : created'[i] = created[i]
      /\ created'[Len(created')] = e /\ Len(created) \in Nat
  BY <1>2 DEF OpenInv, OpenTypes
<1>4. /\ round[Root] = Len(created) /\ (cached[Root] => round[Root] = 0)
      /\ ~cached[Root] => round[Root] = 1 /\ created[1] # "none"
  BY <1>1 DEF OpenInv, OpenTypes, RoundInv
<1>8. e = "exist" => hints.old \/ "create" \in faults
  <2>1. CASE cached[Root]
    <3>1. created = << >>
      BY <1>4, <2>1 DEF OpenInv, OpenTypes
    <3> QED BY Zenon, <1>2, <3>1 DEF OpenInv, ResultInv
  <2>2. CASE ~cached[Root]
    <3>1. 1 \in 1 .. Len(created)
      BY <1>4, <2>2
    <3>2. created[1] \in {"exist", "io"}
      BY <1>4, <2>2, <3>1 DEF OpenInv, OpenTypes, Result
    <3> QED BY Zenon, <3>1, <3>2 DEF OpenInv, ResultInv
  <2> QED BY Zenon, <2>1, <2>2
<1>9. cached[Root] \in BOOLEAN /\ Len(created) \in {0, 1}
      /\ (cached[Root] <=> Len(created) = 0)
  BY <1>1, <1>4 DEF OpenInv, OpenTypes
<1>5. ResultInv'
  <2>1. created' # << >>
    BY <1>3
  <2>2. ASSUME NEW i \in 1 .. Len(created')
        PROVE  /\ created'[i] = "exist" => /\ hints'.mode = "excl" /\ exists'
                                           /\ hints'.old \/ "create" \in faults'
               /\ created'[i] = "none" => exists'
               /\ created'[i] = "io" /\ i = 1 => "create" \in faults'
               /\ created'[i] = "io" /\ i # 1 => "real" \in faults'
    <3>1. CASE i \in 1 .. Len(created)
      <4>1. created'[i] = created[i]
        BY Zenon, <1>3, <3>1
      <4> QED BY Zenon, <1>1, <1>2, <3>1, <4>1 DEF OpenInv, ResultInv
    <3>2. CASE i \notin 1 .. Len(created)
      <4>1. i = Len(created') /\ created'[i] = e /\ (i = 1 <=> Len(created) = 0)
        BY <1>3, <3>2
      <4> QED BY Zenon, <1>1, <1>2, <1>8, <1>9, <4>1
    <3> QED BY Zenon, <3>1, <3>2
  <2> QED BY Zenon, <2>1, <2>2 DEF ResultInv
<1>6. round'[Root] = Len(created')
  BY Zenon, <1>1, <1>3, <1>4 DEF TakeResult, OpenInv, OpenTypes
<1>7. Len(created') = round[Root] + 1
  BY Zenon, <1>3, <1>4
<1> QED BY <1>1, <1>2, <1>3, <1>4, <1>5, <1>6, <1>7, TakeStep DEF OpenInv

LEMMA CreateOtherStep ==
  ASSUME OpenInv, NEW r \in Ranks, CreateOther(r) PROVE OpenInv'
<1>1. /\ r # Root /\ pc[r] = "create" /\ round[r] < Len(created)
      /\ TakeResult(r, created[round[r] + 1])
      /\ UNCHANGED <<hints, exists, created, faults>> /\ Root \in Ranks
  BY Zenon, BeegfsAssumption DEF CreateOther, history
<1>2. round[Root]' = Len(created)
  BY Zenon, <1>1 DEF TakeResult, OpenInv, OpenTypes, RoundInv
<1>3. ResultInv'
  BY Zenon, <1>1 DEF OpenInv, ResultInv
<1>4. round[r] + 1 <= Len(created)
  BY <1>1 DEF OpenInv, OpenTypes
<1>5. Len(created) <= Len(created)
  BY DEF OpenInv, OpenTypes
<1> QED BY Zenon, <1>1, <1>2, <1>3, <1>4, <1>5, TakeStep DEF OpenInv, OpenTypes

LEMMA OpenFileStep == ASSUME OpenInv, NEW r \in Ranks, OpenFile(r) PROVE OpenInv'
<1>1. /\ pc[r] = "open" /\ pc' = [pc EXCEPT ![r] = "bcast"]
      /\ UNCHANGED <<hints, exists, created, round, cached>> /\ faults \subseteq faults'
  BY Zenon DEF OpenFile, Goto, Fault, handle
<1>2. PICK e \in {"none", "noent", "io"} :
        /\ err' = [err EXCEPT ![r] = e]
        /\ e = "noent" => ~exists
        /\ e = "io" => faults' \cap {"open", "real"} # {}
  BY Zenon DEF OpenFile, Fault, OpenInv, OpenTypes
<1>3. OpenTypes' /\ ResultInv' /\ RoundInv'
  BY <1>1, <1>2 DEF OpenInv, OpenTypes, ResultInv, RoundInv, Place
<1>4. Excuse => Excuse'
  BY Zenon, <1>1, ExcuseStays
<1>5. e # "none" => Excuse'
  BY Zenon, <1>1, <1>2 DEF OpenInv, RoundInv, ErrorInv, Excuse
<1>6. ErrorInv'
  BY Zenon, <1>1, <1>2, <1>4, <1>5 DEF OpenInv, OpenTypes, ErrorInv
<1> QED BY Zenon, <1>3, <1>6 DEF OpenInv

(* The steps that leave the open alone.                                    *)
LEMMA LaterStep ==
  ASSUME OpenInv, NEW r \in Ranks, NEW p \in Place \ {"create", "open"},
         UNCHANGED <<hints, exists, created, round, err, cached>>, faults \subseteq faults',
         p = "failed" => Excuse,
         pc[r] \notin {"create", "open"}, pc' = [pc EXCEPT ![r] = p]
  PROVE  OpenInv'
<1>1. Excuse => Excuse'
  BY Zenon, ExcuseStays
<1>2. OpenTypes' /\ ResultInv'
  BY Zenon DEF OpenInv, OpenTypes, ResultInv
<1>3. RoundInv'
  BY Zenon DEF OpenInv, OpenTypes, RoundInv
<1>4. ErrorInv'
  BY Zenon, <1>1 DEF OpenInv, OpenTypes, ErrorInv
<1> QED BY Zenon, <1>2, <1>3, <1>4 DEF OpenInv

LEMMA StayStep ==
  ASSUME OpenInv, pc' = pc, faults \subseteq faults',
         UNCHANGED <<hints, exists, created, round, err, cached>>
  PROVE  OpenInv'
<1>1. Excuse => Excuse'
  BY Zenon, ExcuseStays
<1> QED BY Zenon, <1>1 DEF OpenInv, OpenTypes, ResultInv, RoundInv, ErrorInv

(* Where a process goes that has an open file.                             *)
LEMMA WriteMoves ==
  ASSUME NEW r \in Ranks, OpenTypes,
         \/ \E e \in Extents : WriteBegin(r, e)
         \/ Lock(r) \/ Pwrite(r) \/ PwriteFails(r) \/ Enqueue(r) \/ WriteFlush(r)
  PROVE  /\ UNCHANGED <<hints, exists, created, round, err, cached, flag>>
         /\ faults \subseteq faults'
         /\ pc[r] \in {"idle", "lock", "pwrite", "wflush"}
         /\ \/ pc' = pc
            \/ \E p \in {"lock", "pwrite", "wflush", "idle"} : pc' = [pc EXCEPT ![r] = p]
<1>1. CASE \E e \in Extents : WriteBegin(r, e)
  BY Zenon, <1>1 DEF WriteBegin, Goto, opening, handle
<1>2. CASE Lock(r)
  BY Zenon, <1>2 DEF Lock, Goto, opening, handle, history
<1>3. CASE Pwrite(r)
  BY Zenon, <1>3 DEF Pwrite, Fault, opening, handle
<1>4. CASE PwriteFails(r)
  BY Zenon, <1>4 DEF PwriteFails, Fault, Goto, opening, handle
<1>5. CASE Enqueue(r)
  BY Zenon, <1>5 DEF Enqueue, Goto, opening, handle
<1>6. CASE WriteFlush(r)
  BY Zenon, <1>6 DEF WriteFlush, FlushOne, StartRange, Fault, Goto, opening, handle
<1> QED BY Zenon, <1>1, <1>2, <1>3, <1>4, <1>5, <1>6

LEMMA FlushMoves ==
  ASSUME NEW r \in Ranks, OpenTypes,
         \/ FlushBegin(r, "sync") \/ FlushBegin(r, "close")
         \/ Flush(r) \/ Wait(r) \/ FlushReturn(r)
  PROVE  /\ UNCHANGED <<hints, exists, created, round, err, cached, flag>>
         /\ faults \subseteq faults'
         /\ pc[r] \in {"idle", "flush", "wait", "flushed"}
         /\ \/ pc' = pc
            \/ \E p \in {"flush", "wait", "flushed", "closed", "idle"} :
                  pc' = [pc EXCEPT ![r] = p]
<1>1. CASE FlushBegin(r, "sync") \/ FlushBegin(r, "close")
  BY Zenon, <1>1 DEF FlushBegin, Goto, opening, handle, history
<1>2. CASE Flush(r)
  BY Zenon, <1>2 DEF Flush, FlushOne, StartRange, Fault, Goto, opening, handle
<1>3. CASE Wait(r)
  BY Zenon, <1>3 DEF Wait, Fault, Goto, opening, handle
<1>4. CASE FlushReturn(r)
  BY Zenon, <1>4 DEF FlushReturn, Goto, opening, handle, history
<1> QED BY Zenon, <1>1, <1>2, <1>3, <1>4

LEMMA OpenNext == OpenInv /\ [Next]_vars => OpenInv'
<1> SUFFICES ASSUME OpenInv, [Next]_vars PROVE OpenInv'
  BY Zenon
<1> USE DEF Place
<1>1. CASE UNCHANGED vars \/ Copy
  <2>1. /\ UNCHANGED <<hints, exists, created, round, err, cached>>
        /\ faults \subseteq faults' /\ pc' = pc
    BY Zenon, <1>1 DEF vars, Copy, opening, handle, history
  <2> QED BY Zenon, <2>1, StayStep
<1>2. ASSUME NEW r \in Ranks, Bcast(r) PROVE OpenInv'
  <2>1. /\ UNCHANGED <<hints, exists, created, round, err, cached, faults>>
        /\ pc[r] = "bcast" /\ pc' = [pc EXCEPT ![r] = "opened"]
    BY Zenon, <1>2 DEF Bcast, Goto, handle, history
  <2> QED BY Zenon, <2>1, LaterStep
<1>3. ASSUME NEW r \in Ranks, Opened(r) PROVE OpenInv'
  <2>1. /\ UNCHANGED <<hints, exists, created, round, err, cached, faults>>
        /\ pc[r] = "opened" /\ \A q \in Ranks : pc[q] \notin {"create", "open", "bcast"}
        /\ pc' = [pc EXCEPT ![r] = IF \A q \in Ranks : err[q] = "none" THEN "idle"
                                   ELSE "failed"]
    BY Zenon, <1>3 DEF Opened, Goto, opening, handle, history
  <2>2. CASE \A q \in Ranks : err[q] = "none"
    <3>1. pc' = [pc EXCEPT ![r] = "idle"]
      BY Zenon, <2>1, <2>2
    <3> QED BY Zenon, <2>1, <3>1, LaterStep
  <2>3. CASE ~ \A q \in Ranks : err[q] = "none"
    <3>1. pc' = [pc EXCEPT ![r] = "failed"] /\ Excuse
      BY Zenon, <2>1, <2>3 DEF OpenInv, ErrorInv
    <3> QED BY Zenon, <2>1, <3>1, LaterStep
  <2> QED BY Zenon, <2>2, <2>3
<1>4. ASSUME NEW r \in Ranks,
             \/ \E e \in Extents : WriteBegin(r, e)
             \/ Lock(r) \/ Pwrite(r) \/ PwriteFails(r) \/ Enqueue(r) \/ WriteFlush(r)
      PROVE  OpenInv'
  <2>1. /\ UNCHANGED <<hints, exists, created, round, err, cached>>
        /\ faults \subseteq faults' /\ pc[r] \notin {"create", "open"}
        /\ \/ pc' = pc
           \/ \E p \in {"lock", "pwrite", "wflush", "idle"} : pc' = [pc EXCEPT ![r] = p]
    BY Zenon, <1>4, WriteMoves DEF OpenInv
  <2> QED BY Zenon, <2>1, StayStep, LaterStep
<1>5. ASSUME NEW r \in Ranks,
             \/ FlushBegin(r, "sync") \/ FlushBegin(r, "close")
             \/ Flush(r) \/ Wait(r) \/ FlushReturn(r)
      PROVE  OpenInv'
  <2>1. /\ UNCHANGED <<hints, exists, created, round, err, cached>>
        /\ faults \subseteq faults' /\ pc[r] \notin {"create", "open"}
        /\ \/ pc' = pc
           \/ \E p \in {"flush", "wait", "flushed", "closed", "idle"} : pc' = [pc EXCEPT ![r] = p]
    BY Zenon, <1>5, FlushMoves DEF OpenInv
  <2> QED BY Zenon, <2>1, StayStep, LaterStep
<1> QED BY Zenon, <1>1, <1>2, <1>3, <1>4, <1>5, CreateRootStep, CreateOtherStep, OpenFileStep
        DEF Next, Step, Call

LEMMA OpenCorrect == Spec => []OpenInv
<1>1. Init => OpenInv
  BY Zenon, OpenInit
<1>2. OpenInv /\ [Next]_vars => OpenInv'
  BY Zenon, OpenNext
<1> QED BY <1>1, <1>2, PTL DEF Spec

(* With any number of processes, a first attempt to create the file that   *)
(* fails is made up for by the second, unless it has left the file and the *)
(* open asks for MPI_MODE_EXCL; an open fails for no other reason that has *)
(* to do with the creation through the cache (ad_beegfs_opencoll.c:147).   *)
THEOREM FallbackWorks == Spec => []FallbackOpens
<1>1. OpenInv => FallbackOpens
  BY Zenon DEF OpenInv, ErrorInv, Excuse, FallbackOpens
<1> QED BY <1>1, OpenCorrect, PTL

LEMMA Agreed == OpenInv => CacheAgreement
<1> SUFFICES ASSUME OpenInv, NEW r \in Ranks, NEW q \in Ranks, Running(r), Running(q)
             PROVE  cached[r] = cached[q]
  BY Zenon DEF CacheAgreement
<1>1. /\ round[r] \in Nat /\ round[q] \in Nat /\ cached[r] \in BOOLEAN /\ cached[q] \in BOOLEAN
      /\ hints.mode = "plain" => round[r] = 0 /\ round[q] = 0
      /\ hints.mode # "plain" => round[r] # 0 /\ round[q] # 0
  BY DEF OpenInv, OpenTypes, RoundInv, Running
<1> QED BY Zenon, <1>1 DEF OpenInv, RoundInv

(* Processes that have the file open use the cache all or none, however    *)
(* their steps through the attempts to create it interleave: each of them  *)
(* gives up the cache exactly if the first result of the root is an error  *)
(* (ad_beegfs_opencoll.c:147).                                             *)
THEOREM CacheAgreed == Spec => []CacheAgreement
BY Agreed, OpenCorrect, PTL
-----------------------------------------------------------------------------
(* What is written, queued and transferred.                                *)

LEMMA DataInit == Init => DataInv
<1> SUFFICES ASSUME Init PROVE DataInv
  BY Zenon
<1>1. DataTypes
  BY Zenon, EmptySeq DEF Init, DataTypes, Zero
<1>2. StampInv
  BY DEF Init, StampInv, Target, Zero
<1>3. UseInv
  BY Zenon DEF Init, UseInv, Zero
<1>4. OwnedInv
  BY DEF Init, OwnedInv, Dirty, Zero
<1> QED BY Zenon, <1>1, <1>2, <1>3, <1>4 DEF DataInv

(* A step that moves no data of process q: only while it opens the file it *)
(* changes its mind about the cache, and its queue is only dropped when    *)
(* nothing of it is missing in the global file.                            *)
Still(q) ==
    /\ Running(q) => Running(q)' /\ cached'[q] = cached[q]
    /\ cached'[q] => cached[q]
    /\ written'[q] \in {written[q], Zero}
    /\ \/ pen'[q] = pen[q]
       \/ pen'[q] = << >> /\ \A b \in Block : ~Dirty(q, b)
    /\ pc'[q] = "wait" => pen'[q] = << >>
    /\ pc'[q] = "flushed" => \A b \in Block : ~Dirty(q, b)'

LEMMA SameData ==
  ASSUME OpenTypes, DataInv, DataTypes',
         UNCHANGED <<cache, global, daemon, clock, acked, flag>>, lost \subseteq lost',
         \A q \in Ranks : Still(q)
  PROVE  DataInv'
<1> USE DEF Still
<1>1. StampInv'
  <2>1. ASSUME NEW q \in Ranks, NEW b \in Block
        PROVE  written'[q][b] <= Target(q)'[b] /\ acked'[q][b] <= Target(q)'[b]
    <3>1. /\ cache[b] \in Nat /\ global[b] \in Nat /\ written[q][b] \in Nat
          /\ acked[q][b] \in Nat /\ Zero[b] = 0
          /\ written[q][b] <= Target(q)[b] /\ acked[q][b] <= Target(q)[b]
      BY DEF DataInv, DataTypes, StampInv, Zero
    <3>2. CASE Running(q)
      BY <3>1, <3>2 DEF Target
    <3>3. CASE ~Running(q)
      <4>1. acked[q] = Zero /\ written'[q] = Zero
        BY Zenon, <3>3 DEF DataInv, UseInv
      <4> QED BY <3>1, <4>1 DEF Target
    <3> QED BY Zenon, <3>2, <3>3
  <2> QED BY Zenon, <2>1 DEF StampInv, DataInv
<1>2. UseInv'
  <2>1. ASSUME NEW q \in Ranks
        PROVE  /\ ~Running(q)' => acked'[q] = Zero /\ written'[q] = Zero
               /\ pen'[q] # << >> => Running(q)' /\ cached'[q]
               /\ cached'[q] /\ flag' = "flush_none" => acked'[q] = Zero
    BY Zenon DEF DataInv, UseInv
  <2>2. daemon' # {} => \E q \in Ranks : Running(q)' /\ cached'[q]
    BY Zenon DEF DataInv, UseInv
  <2> QED BY Zenon, <2>1, <2>2 DEF UseInv
<1>3. OwnedInv'
  <2> SUFFICES ASSUME NEW q \in Ranks, NEW b \in Block, Dirty(q, b)'
               PROVE  Queued(q, b)' \/ WithDaemon(b)'
    BY Zenon DEF OwnedInv
  <2>1. Dirty(q, b)
    BY Zenon DEF Dirty
  <2>2. Queued(q, b) \/ WithDaemon(b)
    BY Zenon, <2>1 DEF DataInv, OwnedInv
  <2>3. pen'[q] = pen[q]
    BY Zenon, <2>1
  <2> QED BY Zenon, <2>2, <2>3 DEF Queued, WithDaemon
<1> QED BY Zenon, <1>1, <1>2, <1>3 DEF DataInv

LEMMA PwriteData ==
  ASSUME OpenInv, DataInv, NEW r \in Ranks, Pwrite(r) PROVE DataInv'
<1>1. PICK now \in SUBSET left[r] :
        /\ pc[r] = "pwrite" /\ left' = [left EXCEPT ![r] = @ \ now]
        /\ clock' = clock + 1
        /\ cache' = IF cached[r]
                    THEN [b \in Block |-> IF b \in now THEN clock + 1 ELSE cache[b]]
                    ELSE cache
        /\ global' = IF cached[r] THEN global
                     ELSE [b \in Block |-> IF b \in now THEN clock + 1 ELSE global[b]]
        /\ written' = [written EXCEPT ![r] =
                          [b \in Block |-> IF b \in now THEN clock + 1 ELSE @[b]]]
        /\ UNCHANGED <<cached, flag, pc, blocks, pen, daemon, nw, acked, lost>>
  BY Zenon DEF Pwrite, handle, queues
<1>2. DataTypes'
  <2>1. clock + 1 \in Nat /\ now \subseteq Block
    BY DEF DataInv, DataTypes
  <2>2. left' \in [Ranks -> SUBSET Block]
    BY Zenon, <1>1 DEF DataInv, DataTypes
  <2>3. cache' \in [Block -> Nat]
    BY Zenon, <1>1, <2>1 DEF DataInv, DataTypes
  <2>4. global' \in [Block -> Nat]
    BY Zenon, <1>1, <2>1 DEF DataInv, DataTypes
  <2>5. written' \in [Ranks -> [Block -> Nat]]
    <3>1. [b \in Block |-> IF b \in now THEN clock + 1 ELSE written[r][b]] \in [Block -> Nat]
      BY <2>1 DEF DataInv, DataTypes
    <3> QED BY Zenon, <1>1, <3>1 DEF DataInv, DataTypes
  <2> QED BY Zenon, <1>1, <2>1, <2>2, <2>3, <2>4, <2>5 DEF DataInv, DataTypes
<1>3. Running(r) /\ \A q \in Ranks : Running(q)' <=> Running(q)
  BY Zenon, <1>1 DEF Running
<1>4. ASSUME NEW b \in Block
      PROVE  /\ cache[b] \in Nat /\ global[b] \in Nat /\ clock \in Nat
             /\ cache[b] <= clock /\ global[b] <= clock
             /\ cache'[b] \in Nat /\ global'[b] \in Nat
             /\ cache[b] <= cache'[b] /\ global[b] <= global'[b]
             /\ cache'[b] <= clock' /\ global'[b] <= clock'
  <2>1. /\ cache[b] \in Nat /\ global[b] \in Nat /\ clock \in Nat
        /\ cache[b] <= clock /\ global[b] <= clock
    BY Zenon DEF DataInv, DataTypes, StampInv
  <2>2. cache'[b] \in {cache[b], clock + 1} /\ global'[b] \in {global[b], clock + 1}
    BY Zenon, <1>1
  <2> QED BY <1>1, <2>1, <2>2
<1>5. StampInv'
  <2>1. ASSUME NEW q \in Ranks, NEW b \in Block
        PROVE  written'[q][b] <= Target(q)'[b] /\ acked'[q][b] <= Target(q)'[b]
    <3>1. /\ written[q][b] \in Nat /\ acked[q][b] \in Nat
          /\ written[q][b] <= Target(q)[b] /\ acked[q][b] <= Target(q)[b]
      BY Zenon DEF DataInv, DataTypes, StampInv
    <3>2. Target(q)[b] \in Nat /\ Target(q)'[b] \in Nat /\ Target(q)[b] <= Target(q)'[b]
      BY Zenon, <1>1, <1>4 DEF Target
    <3>3. CASE q = r /\ b \in now
      <4>1. Target(q)'[b] = clock + 1 /\ written'[q][b] = clock + 1
        BY Zenon, <3>3, <1>1 DEF Target, DataInv, DataTypes
      <4> QED BY <1>1, <1>4, <3>1, <3>2, <4>1
    <3>4. CASE ~(q = r /\ b \in now)
      <4>1. written'[q][b] = written[q][b]
        BY Zenon, <3>4, <1>1 DEF DataInv, DataTypes
      <4> QED BY <1>1, <3>1, <3>2, <4>1
    <3> QED BY Zenon, <3>3, <3>4
  <2> QED BY Zenon, <2>1, <1>4 DEF StampInv
<1>6. UseInv'
  <2>1. \A q \in Ranks : q # r => written'[q] = written[q]
    BY Zenon, <1>1 DEF DataInv, DataTypes
  <2> QED BY Zenon, <1>1, <1>3, <2>1 DEF DataInv, UseInv
<1>7. OwnedInv'
  <2>1. ASSUME NEW q \in Ranks, NEW b \in Block, Dirty(q, b)' PROVE Dirty(q, b)
    <3>1. acked[q][b] \in Nat
      BY Zenon DEF DataInv, DataTypes
    <3> QED BY <1>1, <1>4, <2>1, <3>1 DEF Dirty
  <2> QED BY Zenon, <1>1, <2>1 DEF DataInv, OwnedInv, Queued, WithDaemon
<1> QED BY Zenon, <1>2, <1>5, <1>6, <1>7 DEF DataInv

LEMMA EnqueueData ==
  ASSUME OpenInv, DataInv, NEW r \in Ranks, Enqueue(r) PROVE DataInv'
<1> DEFINE stamps == [b \in Block |-> IF b \in blocks[r] THEN written[r][b] ELSE acked[r][b]]
           none == cached[r] /\ flag = "flush_none"
           req == [id |-> nw, blocks |-> blocks[r]]
<1>1. /\ pc[r] = "pwrite" /\ left[r] = {}
      /\ acked' = IF none THEN acked ELSE [acked EXCEPT ![r] = stamps]
      /\ pen' = IF cached[r] /\ flag # "flush_none"
                THEN [pen EXCEPT ![r] = Append(@, req)] ELSE pen
      /\ blocks' = [blocks EXCEPT ![r] = {}] /\ left' = [left EXCEPT ![r] = {}]
      /\ written' = [written EXCEPT ![r] = Zero]
      /\ UNCHANGED <<cached, flag, cache, global, daemon, nw, clock, lost>>
  BY Zenon DEF Enqueue, Queues, Request, Forget, handle, files
<1>2. \E p \in {"wflush", "idle"} : pc' = [pc EXCEPT ![r] = p]
  BY Zenon DEF Enqueue, Goto
<1>3. \A q \in Ranks : /\ Running(q)' <=> Running(q)
                       /\ pc'[q] \in {"wait", "flushed"} => q # r /\ pc'[q] = pc[q]
  BY Zenon, <1>1, <1>2 DEF Running, OpenInv, OpenTypes
<1>4. /\ stamps \in [Block -> Nat] /\ Zero \in [Block -> Nat]
      /\ req \in [id : Nat, blocks : SUBSET Block]
  BY DEF DataInv, DataTypes, Zero
<1>5. /\ pen \in [Ranks -> Seq([id : Nat, blocks : SUBSET Block])]
      /\ acked \in [Ranks -> [Block -> Nat]] /\ written \in [Ranks -> [Block -> Nat]]
      /\ cache \in [Block -> Nat] /\ global \in [Block -> Nat]
  BY Zenon DEF DataInv, DataTypes
<1>6. DataTypes'
  <2>1. pen' \in [Ranks -> Seq([id : Nat, blocks : SUBSET Block])]
    <3>1. Append(pen[r], req) \in Seq([id : Nat, blocks : SUBSET Block])
      BY Zenon, <1>4, <1>5, AppendSeq
    <3> HIDE DEF req
    <3> QED BY Zenon, <1>1, <1>5, <3>1
  <2>2. acked' \in [Ranks -> [Block -> Nat]]
    <3> HIDE DEF stamps, none
    <3> QED BY Zenon, <1>1, <1>4, <1>5
  <2>3. written' \in [Ranks -> [Block -> Nat]]
    BY Zenon, <1>1, <1>4, <1>5
  <2>4. blocks' \in [Ranks -> SUBSET Block] /\ left' \in [Ranks -> SUBSET Block]
    BY Zenon, <1>1 DEF DataInv, DataTypes
  <2> QED BY Zenon, <1>1, <2>1, <2>2, <2>3, <2>4 DEF DataInv, DataTypes
<1>7. StampInv'
  <2>1. ASSUME NEW q \in Ranks, NEW b \in Block
        PROVE  written'[q][b] <= Target(q)'[b] /\ acked'[q][b] <= Target(q)'[b]
    <3>1. written[q][b] <= Target(q)[b] /\ acked[q][b] <= Target(q)[b]
      BY Zenon DEF DataInv, StampInv
    <3>2. Target(q)' = Target(q) /\ Target(q)[b] \in Nat
      BY Zenon, <1>1, <1>5 DEF Target
    <3>3. written'[q][b] \in {written[q][b], 0}
      BY Zenon, <1>1, <1>5 DEF Zero
    <3>4. acked'[q][b] \in {written[q][b], acked[q][b]}
      BY Zenon, <1>1, <1>5
    <3> QED BY <3>1, <3>2, <3>3, <3>4
  <2> QED BY Zenon, <1>1, <2>1 DEF DataInv, StampInv
<1>8. UseInv'
  <2>1. Running(r) /\ \A q \in Ranks \ {r} :
            pen'[q] = pen[q] /\ acked'[q] = acked[q] /\ written'[q] = written[q]
    BY Zenon, <1>1, <1>5 DEF Running
  <2>2. /\ pen'[r] # << >> => cached[r]
        /\ cached[r] /\ flag = "flush_none" => acked'[r] = acked[r]
    BY Zenon, <1>1, <1>5 DEF DataInv, UseInv
  <2>3. ASSUME NEW q \in Ranks
        PROVE  /\ ~Running(q)' => acked'[q] = Zero /\ written'[q] = Zero
               /\ pen'[q] # << >> => Running(q)' /\ cached'[q]
               /\ cached'[q] /\ flag' = "flush_none" => acked'[q] = Zero
    BY Zenon, <1>1, <1>3, <2>1, <2>2 DEF DataInv, UseInv
  <2>4. daemon' # {} => \E q \in Ranks : Running(q)' /\ cached'[q]
    BY Zenon, <1>1, <1>3 DEF DataInv, UseInv
  <2> QED BY Zenon, <2>3, <2>4 DEF UseInv
<1>9. OwnedInv'
  <2>1. ASSUME NEW q \in Ranks, q # r
        PROVE  /\ pen'[q] = pen[q] /\ \A b \in Block : Dirty(q, b)' <=> Dirty(q, b)
               /\ \A b \in Block : Queued(q, b)' <=> Queued(q, b)
    <3>1. pen'[q] = pen[q] /\ acked'[q] = acked[q]
      BY <1>1, <1>5, <2>1
    <3> QED BY Zenon, <1>1, <3>1 DEF Dirty, Queued
  <2>2. ASSUME NEW b \in Block, Dirty(r, b)' PROVE Queued(r, b)' \/ WithDaemon(b)'
    <3>1. cached[r] /\ flag # "flush_none"
      <4>1. ~cached[r] => acked'[r][b] \in Nat /\ acked'[r][b] <= global[b]
        BY <1>1, <1>6, <1>7 DEF StampInv, Target, DataTypes
      <4>2. none => acked'[r][b] = 0
        <5>1. Zero[b] = 0
          BY Zenon DEF Zero
        <5> QED BY Zenon, <1>1, <5>1 DEF DataInv, UseInv
      <4>3. ~(global[b] < 0) /\ \A n \in Nat : n <= global[b] => ~(global[b] < n)
        BY <1>5
      <4> QED BY Zenon, <1>1, <2>2, <4>1, <4>2, <4>3 DEF Dirty
    <3>2. /\ pen'[r] = Append(pen[r], req) /\ Len(pen'[r]) = Len(pen[r]) + 1
          /\ Len(pen[r]) \in Nat
          /\ pen'[r][Len(pen[r]) + 1] = req
          /\ \A i \in 1 .. Len(pen[r]) : pen'[r][i] = pen[r][i]
      BY <1>1, <1>4, <1>5, <3>1
    <3>3. CASE b \in blocks[r]
      <4>1. Len(pen[r]) + 1 \in 1 .. Len(pen'[r])
        BY <3>2
      <4> QED BY <3>2, <3>3, <4>1 DEF Queued
    <3>4. CASE b \notin blocks[r]
      <4>1. acked'[r][b] = acked[r][b]
        BY Zenon, <1>1, <1>5, <3>4
      <4>2. Dirty(r, b)
        BY Zenon, <1>1, <2>2, <4>1 DEF Dirty
      <4>3. Queued(r, b) \/ WithDaemon(b)
        BY Zenon, <4>2 DEF DataInv, OwnedInv
      <4>4. 1 .. Len(pen[r]) \subseteq 1 .. Len(pen'[r])
        BY <3>2
      <4> QED BY Zenon, <1>1, <3>2, <4>3, <4>4 DEF Queued, WithDaemon
    <3> QED BY Zenon, <3>3, <3>4
  <2>3. \A b \in Block : WithDaemon(b)' <=> WithDaemon(b)
    BY Zenon, <1>1 DEF WithDaemon
  <2> QED BY Zenon, <1>3, <2>1, <2>2, <2>3 DEF DataInv, OwnedInv
<1> QED BY Zenon, <1>6, <1>7, <1>8, <1>9 DEF DataInv

(* A request handed to the daemon, or refused, is not forgotten.           *)
LEMMA FlushOneData ==
  ASSUME OpenInv, DataInv, NEW r \in Ranks, FlushOne(r), pc[r] \in {"wflush", "flush"},
         UNCHANGED <<cached, flag, pc, blocks, left, cache, global, nw, clock,
                     written, acked>>
  PROVE  DataInv'
<1>1. /\ pen \in [Ranks -> Seq([id : Nat, blocks : SUBSET Block])] /\ pen[r] # << >>
      /\ pen' = [pen EXCEPT ![r] = Tail(@)]
  BY Zenon DEF DataInv, DataTypes, FlushOne
<1>2. /\ Len(pen[r]) \in Nat /\ Len(pen[r]) > 0 /\ Head(pen[r]) = pen[r][1]
      /\ pen'[r] = Tail(pen[r]) /\ Len(pen'[r]) = Len(pen[r]) - 1
      /\ \A i \in 1 .. Len(pen[r]) - 1 : pen'[r][i] = pen[r][i + 1]
      /\ \A q \in Ranks \ {r} : pen'[q] = pen[q]
  BY <1>1
<1>3. \/ daemon' = daemon \cup {[rank |-> r, id |-> pen[r][1].id, left |-> pen[r][1].blocks]}
         /\ lost' = lost
      \/ daemon' = daemon /\ lost' = lost \cup pen[r][1].blocks
  BY Zenon, <1>2 DEF FlushOne, StartRange
<1>4. daemon \subseteq daemon' /\ lost \subseteq lost'
      /\ \A b \in pen[r][1].blocks : b \in lost' \/ WithDaemon(b)'
  <2>1. CASE /\ lost' = lost
             /\ daemon' = daemon \cup
                    {[rank |-> r, id |-> pen[r][1].id, left |-> pen[r][1].blocks]}
    <3>1. [rank |-> r, id |-> pen[r][1].id, left |-> pen[r][1].blocks].left = pen[r][1].blocks
      BY Zenon
    <3> QED BY Zenon, <2>1, <3>1 DEF WithDaemon
  <2>2. CASE daemon' = daemon /\ lost' = lost \cup pen[r][1].blocks
    BY Zenon, <2>2
  <2> QED BY Zenon, <1>3, <2>1, <2>2
<1>5. DataTypes'
  <2>1. pen' \in [Ranks -> Seq([id : Nat, blocks : SUBSET Block])]
    <3>1. Tail(pen[r]) \in Seq([id : Nat, blocks : SUBSET Block])
      BY Zenon, <1>1, TailSeq
    <3> QED BY Zenon, <1>1, <3>1
  <2> QED BY Zenon, <2>1 DEF DataInv, DataTypes
<1>6. StampInv'
  BY Zenon DEF DataInv, StampInv, Target
<1>7. UseInv'
  <2>1. Running(r) /\ cached[r] /\ \A q \in Ranks : Running(q)' <=> Running(q)
    BY Zenon, <1>1 DEF DataInv, UseInv, Running
  <2> QED BY Zenon, <1>2, <2>1 DEF DataInv, UseInv
<1>8. OwnedInv'
  <2>1. ASSUME NEW q \in Ranks, NEW b \in Block, Dirty(q, b)'
        PROVE  Queued(q, b)' \/ WithDaemon(b)'
    <3>1. Dirty(q, b)
      BY Zenon, <1>4, <2>1 DEF Dirty
    <3>2. CASE WithDaemon(b)
      BY Zenon, <3>2, <1>4 DEF WithDaemon
    <3>3. ASSUME NEW i \in 1 .. Len(pen[q]), b \in pen[q][i].blocks
          PROVE  Queued(q, b)' \/ WithDaemon(b)'
      <4>1. CASE q # r
        BY Zenon, <1>2, <3>3, <4>1 DEF Queued
      <4>2. CASE q = r /\ i = 1
        BY Zenon, <1>4, <2>1, <3>3, <4>2 DEF Dirty
      <4>3. CASE q = r /\ i # 1
        <5>1. i - 1 \in 1 .. Len(pen'[r]) /\ pen'[r][i - 1] = pen[r][i]
          BY <1>2, <3>3, <4>3
        <5> QED BY Zenon, <3>3, <4>3, <5>1 DEF Queued
      <4> QED BY Zenon, <4>1, <4>2, <4>3
    <3> QED BY Zenon, <3>1, <3>2, <3>3 DEF DataInv, OwnedInv, Queued
  <2>2. ASSUME NEW q \in Ranks, pc'[q] \in {"wait", "flushed"}
        PROVE  q # r /\ pen'[q] = pen[q]
    BY Zenon, <1>2, <2>2
  <2>3. \A q \in Ranks, b \in Block : Dirty(q, b)' => Dirty(q, b)
    BY Zenon, <1>4 DEF Dirty
  <2> QED BY Zenon, <2>1, <2>2, <2>3 DEF DataInv, OwnedInv
<1> QED BY Zenon, <1>5, <1>6, <1>7, <1>8 DEF DataInv

(* The daemon copies what the cache has now, which no process can find too *)
(* old: whoever has the file open wrote to the cache.                      *)
LEMMA CopyData == ASSUME OpenInv, DataInv, Copy PROVE DataInv'
<1>1. PICK d \in daemon, b \in Block :
        /\ b \in d.left
        /\ global' = [global EXCEPT ![b] = cache[b]]
        /\ daemon' = (daemon \ {d}) \cup {x \in {[d EXCEPT !.left = @ \ {b}]} : x.left # {}}
        /\ UNCHANGED <<cached, flag, pc, blocks, left, pen, cache, nw, clock, written,
                       acked, lost>>
  BY Zenon DEF Copy, handle, queues, history
<1>2. /\ cache \in [Block -> Nat] /\ global \in [Block -> Nat] /\ clock \in Nat
      /\ written \in [Ranks -> [Block -> Nat]] /\ acked \in [Ranks -> [Block -> Nat]]
  BY Zenon DEF DataInv, DataTypes
<1>3. /\ global'[b] = cache[b] /\ \A c \in Block \ {b} : global'[c] = global[c]
      /\ global' \in [Block -> Nat]
  BY Zenon, <1>1, <1>2
<1>4. DataTypes'
  BY Zenon, <1>1, <1>3 DEF DataInv, DataTypes
<1>5. \A q \in Ranks : Running(q) => cached[q]
  <2>1. PICK s \in Ranks : Running(s) /\ cached[s]
    BY Zenon, <1>1 DEF DataInv, UseInv
  <2> QED BY Zenon, <2>1, Agreed DEF CacheAgreement
<1>6. \A q \in Ranks : written[q][b] <= cache[b] /\ acked[q][b] <= cache[b]
  <2> SUFFICES ASSUME NEW q \in Ranks PROVE written[q][b] <= cache[b] /\ acked[q][b] <= cache[b]
    BY Zenon
  <2>1. CASE cached[q]
    BY Zenon, <2>1 DEF DataInv, StampInv, Target
  <2>2. CASE ~cached[q]
    <3>1. acked[q] = Zero /\ written[q] = Zero
      BY Zenon, <2>2, <1>5 DEF DataInv, UseInv
    <3> QED BY <1>2, <3>1 DEF Zero
  <2> QED BY Zenon, <2>1, <2>2
<1>7. StampInv'
  <2>1. ASSUME NEW q \in Ranks, NEW c \in Block
        PROVE  written'[q][c] <= Target(q)'[c] /\ acked'[q][c] <= Target(q)'[c]
    <3>1. written[q][c] <= Target(q)[c] /\ acked[q][c] <= Target(q)[c]
      BY Zenon DEF DataInv, StampInv
    <3>2. Target(q)'[c] \in {Target(q)[c], cache[c]} /\ (Target(q)'[c] # Target(q)[c] => c = b)
      BY Zenon, <1>1, <1>3 DEF Target
    <3> QED BY Zenon, <1>1, <1>6, <3>1, <3>2
  <2>2. \A c \in Block : cache'[c] <= clock' /\ global'[c] <= clock'
    BY Zenon, <1>1, <1>3 DEF DataInv, StampInv
  <2> QED BY Zenon, <2>1, <2>2 DEF StampInv
<1>8. UseInv'
  <2>1. \A q \in Ranks : Running(q)' <=> Running(q)
    BY Zenon, <1>1 DEF Running
  <2> QED BY Zenon, <1>1, <2>1 DEF DataInv, UseInv
<1>9. OwnedInv'
  <2>1. ASSUME NEW q \in Ranks, NEW c \in Block, Dirty(q, c)' PROVE c # b /\ Dirty(q, c)
    <3>1. \A m, n \in Nat : m <= n => ~(n < m)
      OBVIOUS
    <3>2. c # b
      BY <1>1, <1>2, <1>3, <1>6, <2>1, <3>1 DEF Dirty
    <3> QED BY Zenon, <1>1, <1>3, <2>1, <3>2 DEF Dirty
  <2>2. ASSUME NEW c \in Block, c # b, WithDaemon(c) PROVE WithDaemon(c)'
    <3>1. PICK x \in daemon : c \in x.left
      BY Zenon, <2>2 DEF WithDaemon
    <3>2. CASE x # d
      BY Zenon, <1>1, <3>1, <3>2 DEF WithDaemon
    <3>3. CASE x = d
      <4> DEFINE y == [d EXCEPT !.left = @ \ {b}]
      <4>1. c \in y.left
        BY <2>2, <3>1, <3>3
      <4>2. y \in daemon'
        BY Zenon, <1>1, <4>1
      <4> HIDE DEF y
      <4> QED BY Zenon, <4>1, <4>2 DEF WithDaemon
    <3> QED BY Zenon, <3>2, <3>3
  <2> QED BY Zenon, <1>1, <2>1, <2>2 DEF DataInv, OwnedInv, Queued
<1> QED BY Zenon, <1>4, <1>7, <1>8, <1>9 DEF DataInv

(* A process that opens the file moves no data.                            *)
LEMMA OpenData ==
  ASSUME OpenInv, DataInv, NEW r \in Ranks,
         \/ r = Root /\ CreateRoot
         \/ CreateOther(r) \/ OpenFile(r) \/ Bcast(r) \/ Opened(r)
  PROVE  DataInv'
<1>1. /\ UNCHANGED <<flag, blocks, left, pen, cache, global, daemon, nw, clock, written,
                     acked, lost>>
      /\ ~Running(r) /\ pc[r] \notin {"wait", "flushed"}
      /\ cached' = cached \/ cached' = [cached EXCEPT ![r] = FALSE]
      /\ \E p \in {"create", "open", "bcast", "opened", "failed", "idle"} :
            pc' = [pc EXCEPT ![r] = p]
  <2>1. CASE r = Root /\ CreateRoot
    BY Zenon, <2>1
    DEF CreateRoot, TakeResult, Revert, AfterCreate, Goto, Running, queues, files
  <2>2. CASE CreateOther(r)
    BY Zenon, <2>2
    DEF CreateOther, TakeResult, Revert, AfterCreate, Goto, Running, queues, files, history
  <2>3. CASE OpenFile(r)
    BY Zenon, <2>3 DEF OpenFile, Goto, Running, handle, queues, files
  <2>4. CASE Bcast(r)
    BY Zenon, <2>4 DEF Bcast, Goto, Running, handle, queues, files, history
  <2>5. CASE Opened(r)
    BY Zenon, <2>5 DEF Opened, Goto, Running, handle, queues, files, history
  <2> QED BY Zenon, <2>1, <2>2, <2>3, <2>4, <2>5
<1>2. DataTypes'
  BY Zenon, <1>1 DEF DataInv, DataTypes
<1>3. ASSUME NEW q \in Ranks
      PROVE  /\ Running(q) => Running(q)' /\ cached'[q] = cached[q]
             /\ cached'[q] => cached[q]
             /\ pc'[q] \in {"wait", "flushed"} => pc'[q] = pc[q]
  <2>1. q # r => pc'[q] = pc[q] /\ cached'[q] = cached[q]
    BY Zenon, <1>1 DEF OpenInv, OpenTypes
  <2>2. /\ pc'[r] \in {"create", "open", "bcast", "opened", "failed", "idle"}
        /\ cached'[r] => cached[r]
    BY Zenon, <1>1 DEF OpenInv, OpenTypes
  <2> QED BY Zenon, <1>1, <2>1, <2>2 DEF Running
<1>4. \A q \in Ranks, b \in Block : Dirty(q, b)' <=> Dirty(q, b)
  BY Zenon, <1>1 DEF Dirty
<1>5. \A q \in Ranks :
        /\ written'[q] \in {written[q], Zero} /\ pen'[q] = pen[q]
        /\ pc'[q] = "wait" => pen'[q] = << >>
        /\ pc'[q] = "flushed" => \A b \in Block : ~Dirty(q, b)'
  BY Zenon, <1>1, <1>3, <1>4 DEF DataInv, OwnedInv
<1>6. \A q \in Ranks : Still(q)
  BY Zenon, <1>3, <1>5 DEF Still
<1> QED BY Zenon, <1>1, <1>2, <1>6, SameData DEF OpenInv

(* The steps of a process with an open file that move no data.             *)
LEMMA StillData ==
  ASSUME OpenInv, DataInv, NEW r \in Ranks, Running(r), NEW p \in Place,
         pc' = [pc EXCEPT ![r] = p],
         p \notin {"create", "open", "bcast", "opened", "failed"},
         UNCHANGED <<cached, flag, cache, global, daemon, clock, acked>>,
         lost \subseteq lost', DataTypes',
         \A q \in Ranks \ {r} : pen'[q] = pen[q] /\ written'[q] = written[q],
         written'[r] \in {written[r], Zero},
         \/ pen'[r] = pen[r]
         \/ pen'[r] = << >> /\ \A b \in Block : ~Dirty(r, b),
         p = "wait" => pen'[r] = << >>,
         p = "flushed" => \A b \in Block : ~Dirty(r, b)'
  PROVE  DataInv'
<1>1. pc'[r] = p /\ \A q \in Ranks \ {r} : pc'[q] = pc[q]
  BY Zenon DEF OpenInv, OpenTypes
<1>2. \A q \in Ranks : Running(q) => Running(q)'
  BY Zenon, <1>1 DEF Running
<1>3. \A q \in Ranks, b \in Block : Dirty(q, b)' => Dirty(q, b)
  BY Zenon DEF Dirty
<1>4. \A q \in Ranks \ {r} :
        /\ pc'[q] = "wait" => pen'[q] = << >>
        /\ pc'[q] = "flushed" => \A b \in Block : ~Dirty(q, b)'
  BY Zenon, <1>1, <1>3 DEF DataInv, OwnedInv
<1>5. Still(r)
  BY Zenon, <1>1, <1>2 DEF Still
<1>6. \A q \in Ranks \ {r} : Still(q)
  BY Zenon, <1>2, <1>4 DEF Still
<1> QED BY Zenon, <1>5, <1>6, SameData DEF OpenInv

LEMMA WriteData ==
  ASSUME OpenInv, DataInv, NEW r \in Ranks,
         (\E e \in Extents : WriteBegin(r, e)) \/ Lock(r) \/ PwriteFails(r)
  PROVE  DataInv'
<1>1. /\ UNCHANGED <<cached, flag, pen, cache, global, daemon, clock, acked, lost>>
      /\ pc[r] \in {"idle", "lock", "pwrite"}
      /\ \E p \in {"lock", "pwrite", "idle"} : pc' = [pc EXCEPT ![r] = p]
      /\ written' = written \/ written' = [written EXCEPT ![r] = Zero]
      /\ nw' \in {nw, nw + 1}
      /\ \E e \in SUBSET Block : \/ UNCHANGED <<blocks, left>>
                                 \/ /\ blocks' = [blocks EXCEPT ![r] = e]
                                    /\ left' = [left EXCEPT ![r] = e]
  <2>1. CASE \E e \in Extents : WriteBegin(r, e)
    <3>1. PICK e \in Extents : WriteBegin(r, e)
      BY Zenon, <2>1
    <3>2. e \in SUBSET Block
      BY Zenon, BeegfsAssumption
    <3> QED BY Zenon, <3>1, <3>2 DEF WriteBegin, Goto, handle, queues, files
  <2>2. CASE Lock(r)
    BY Zenon, <2>2 DEF Lock, Goto, handle, queues, history
  <2>3. CASE PwriteFails(r)
    BY Zenon, <2>3 DEF PwriteFails, Forget, Goto, handle, queues, files
  <2> QED BY Zenon, <2>1, <2>2, <2>3
<1>2. Zero \in [Block -> Nat] /\ written \in [Ranks -> [Block -> Nat]]
  BY Zenon DEF Zero, DataInv, DataTypes
<1>3. DataTypes'
  <2>1. nw' \in Nat
    BY <1>1 DEF DataInv, DataTypes
  <2>2. written' \in [Ranks -> [Block -> Nat]]
    <3>1. [written EXCEPT ![r] = Zero] \in [Ranks -> [Block -> Nat]]
      BY Zenon, <1>2
    <3> QED BY Zenon, <1>1, <1>2, <3>1
  <2>3. blocks' \in [Ranks -> SUBSET Block] /\ left' \in [Ranks -> SUBSET Block]
    <3>1. blocks \in [Ranks -> SUBSET Block] /\ left \in [Ranks -> SUBSET Block]
      BY Zenon DEF DataInv, DataTypes
    <3>2. \A e \in SUBSET Block : /\ [blocks EXCEPT ![r] = e] \in [Ranks -> SUBSET Block]
                                  /\ [left EXCEPT ![r] = e] \in [Ranks -> SUBSET Block]
      BY Zenon, <3>1
    <3>3. CASE UNCHANGED <<blocks, left>>
      BY Zenon, <3>1, <3>3
    <3>4. ASSUME NEW e \in SUBSET Block, blocks' = [blocks EXCEPT ![r] = e],
                 left' = [left EXCEPT ![r] = e]
          PROVE  blocks' \in [Ranks -> SUBSET Block] /\ left' \in [Ranks -> SUBSET Block]
      BY Zenon, <3>2, <3>4
    <3> QED BY Zenon, <1>1, <3>3, <3>4
  <2> QED BY Zenon, <1>1, <2>1, <2>2, <2>3 DEF DataInv, DataTypes
<1>4. /\ \A q \in Ranks \ {r} : pen'[q] = pen[q] /\ written'[q] = written[q]
      /\ written'[r] \in {written[r], Zero}
  BY Zenon, <1>1, <1>2
<1>5. PICK p \in Place : p \in {"lock", "pwrite", "idle"} /\ pc' = [pc EXCEPT ![r] = p]
  BY Zenon, <1>1 DEF Place
<1>6. /\ p \notin {"create", "open", "bcast", "opened", "failed"}
      /\ p # "wait" /\ p # "flushed" /\ Running(r)
  BY Zenon, <1>1, <1>5 DEF Running
<1> QED BY Zenon, <1>1, <1>3, <1>4, <1>5, <1>6, StillData

(* When Flush has nothing to do there is nothing to transfer, and when it  *)
(* has waited for the daemon nothing is left.                              *)
LEMMA FlushData ==
  ASSUME OpenInv, DataInv, NEW r \in Ranks,
         \/ FlushBegin(r, "sync") \/ FlushBegin(r, "close") \/ Wait(r) \/ FlushReturn(r)
         \/ pen[r] = << >> /\ (WriteFlush(r) \/ Flush(r))
  PROVE  DataInv'
<1>1. /\ UNCHANGED <<cached, flag, blocks, left, cache, global, daemon, nw, clock, written,
                     acked>>
      /\ lost \subseteq lost'
      /\ pc[r] \in {"idle", "wflush", "flush", "wait", "flushed"}
      /\ \/ UNCHANGED pen
         \/ pc[r] = "flushed" /\ pen' = [pen EXCEPT ![r] = << >>]
      /\ \E p \in {"idle", "flush", "wait", "flushed", "closed"} :
            /\ pc' = [pc EXCEPT ![r] = p]
            /\ p = "wait" => pen[r] = << >>
            /\ p = "flushed" => \/ ~(cached[r] /\ flag # "flush_none")
                                \/ pc[r] = "wait" /\ UNION {d.left : d \in daemon} \subseteq lost'
  <2>1. CASE FlushBegin(r, "sync") \/ FlushBegin(r, "close")
    BY Zenon, <2>1 DEF FlushBegin, Goto, handle, queues, files, history
  <2>2. CASE Wait(r)
    <3>1. UNION {d.left : d \in daemon} \subseteq lost' /\ lost \subseteq lost'
      BY Zenon, <2>2 DEF Wait, Waited
    <3> QED BY Zenon, <2>2, <3>1 DEF Wait, Goto, handle
  <2>3. CASE FlushReturn(r)
    BY Zenon, <2>3 DEF FlushReturn, Goto, handle, history
  <2>4. CASE pen[r] = << >> /\ WriteFlush(r)
    BY Zenon, <2>4 DEF WriteFlush, FlushOne, Goto, handle
  <2>5. CASE pen[r] = << >> /\ Flush(r)
    BY Zenon, <2>5 DEF Flush, FlushOne, Goto, handle
  <2> QED BY Zenon, <2>1, <2>2, <2>3, <2>4, <2>5
<1>2. PICK p \in Place :
        /\ p \in {"idle", "flush", "wait", "flushed", "closed"}
        /\ pc' = [pc EXCEPT ![r] = p]
        /\ p = "wait" => pen[r] = << >>
        /\ p = "flushed" => \/ ~(cached[r] /\ flag # "flush_none")
                            \/ pc[r] = "wait" /\ UNION {d.left : d \in daemon} \subseteq lost'
  BY Zenon, <1>1 DEF Place
<1>3. p \notin {"create", "open", "bcast", "opened", "failed"} /\ Running(r)
  BY Zenon, <1>1, <1>2 DEF Running
<1>4. /\ \A q \in Ranks \ {r} : pen'[q] = pen[q]
      /\ \/ pen'[r] = pen[r]
         \/ pen'[r] = << >> /\ pc[r] = "flushed"
      /\ pen' \in [Ranks -> Seq([id : Nat, blocks : SUBSET Block])]
  <2>1. pen \in [Ranks -> Seq([id : Nat, blocks : SUBSET Block])]
    BY Zenon DEF DataInv, DataTypes
  <2> DEFINE S == [id : Nat, blocks : SUBSET Block]
             none == [pen EXCEPT ![r] = << >>]
  <2>2. pen \in [Ranks -> Seq(S)] /\ << >> \in Seq(S)
    BY Zenon, <2>1, EmptySeq
  <2> HIDE DEF S
  <2>3. none \in [Ranks -> Seq(S)] /\ none[r] = << >> /\ \A q \in Ranks \ {r} : none[q] = pen[q]
    BY Zenon, <2>2
  <2> HIDE DEF none
  <2>4. UNCHANGED pen \/ (pc[r] = "flushed" /\ pen' = none)
    BY Zenon, <1>1 DEF none
  <2> QED BY Zenon, <2>2, <2>3, <2>4 DEF S
<1>5. DataTypes'
  BY Zenon, <1>1, <1>4 DEF DataInv, DataTypes
<1>6. pc[r] = "flushed" => \A b \in Block : ~Dirty(r, b)
  BY Zenon DEF DataInv, OwnedInv
<1>7. ASSUME NEW b \in Block, p = "flushed", Dirty(r, b)' PROVE FALSE
  <2>1. Dirty(r, b) /\ b \notin lost'
    BY Zenon, <1>1, <1>7 DEF Dirty
  <2>2. global[b] \in Nat /\ acked[r][b] \in Nat /\ \A m, n \in Nat : m <= n => ~(n < m)
    BY DEF DataInv, DataTypes
  <2>3. ~(acked[r][b] <= global[b])
    BY Zenon, <2>1, <2>2 DEF Dirty
  <2>4. cached[r]
    BY Zenon, <2>3 DEF DataInv, StampInv, Target
  <2>5. flag # "flush_none"
    <3>1. acked[r] = Zero => acked[r][b] <= global[b]
      BY <2>2 DEF Zero
    <3> QED BY Zenon, <2>3, <2>4, <3>1 DEF DataInv, UseInv
  <2>6. pc[r] = "wait" /\ UNION {d.left : d \in daemon} \subseteq lost' /\ pen[r] = << >>
    BY Zenon, <1>2, <1>7, <2>4, <2>5 DEF DataInv, OwnedInv
  <2>7. ~Queued(r, b)
    BY <2>6 DEF Queued
  <2>8. ~WithDaemon(b)
    BY Zenon, <2>1, <2>6 DEF WithDaemon
  <2> QED BY Zenon, <2>1, <2>7, <2>8 DEF DataInv, OwnedInv
<1>8. p = "wait" => pen'[r] = << >>
  BY Zenon, <1>2, <1>4
<1> QED BY Zenon, <1>1, <1>2, <1>3, <1>4, <1>5, <1>6, <1>7, <1>8, StillData

LEMMA DataNext == OpenInv /\ DataInv /\ [Next]_vars => DataInv'
<1> SUFFICES ASSUME OpenInv, DataInv, [Next]_vars PROVE DataInv'
  BY Zenon
<1>1. CASE UNCHANGED vars
  <2>1. /\ UNCHANGED <<cached, flag, pc, blocks, left, pen, cache, global, daemon>>
        /\ UNCHANGED <<nw, clock, written, acked, lost>>
    BY Zenon, <1>1 DEF vars, handle, queues, files, history
  <2>2. DataTypes' /\ \A q \in Ranks : Running(q)' <=> Running(q)
    BY Zenon, <2>1 DEF DataInv, DataTypes, Running
  <2>3. \A q \in Ranks : Still(q)
    BY Zenon, <2>1, <2>2 DEF DataInv, OwnedInv, Dirty, Still
  <2> QED BY Zenon, <2>1, <2>2, <2>3, SameData DEF OpenInv
<1>2. ASSUME NEW r \in Ranks, pen[r] # << >>, WriteFlush(r) \/ Flush(r) PROVE DataInv'
  <2>1. /\ FlushOne(r) /\ pc[r] \in {"wflush", "flush"}
        /\ UNCHANGED <<cached, flag, pc, blocks, left, cache, global, nw, clock, written, acked>>
    BY Zenon, <1>2 DEF WriteFlush, Flush, handle
  <2> QED BY Zenon, <2>1, FlushOneData
<1>3. ASSUME NEW r \in Ranks, Step(r) PROVE DataInv'
  BY Zenon, <1>2, <1>3, OpenData, WriteData, PwriteData, EnqueueData, FlushData DEF Step
<1>4. ASSUME NEW r \in Ranks, Call(r) PROVE DataInv'
  BY Zenon, <1>4, WriteData, FlushData DEF Call
<1> QED BY Zenon, <1>1, <1>3, <1>4, CopyData DEF Next

LEMMA DataCorrect == Spec => []DataInv
<1>1. Init => DataInv
  BY Zenon, DataInit
<1>2. OpenInv /\ DataInv /\ [Next]_vars => DataInv'
  BY Zenon, DataNext
<1> QED BY <1>1, <1>2, OpenCorrect, PTL DEF Spec

(* When a flush or a close has done its work, every block the process has  *)
(* written is in the global file, in that version or a later one, unless   *)
(* the daemon refused its range or gave up: for any number of processes,   *)
(* although the flush waits for the daemon and not for its own requests    *)
(* (ad_beegfs_flush.c:32).                                                 *)
THEOREM FlushTransfers == Spec => []FlushedMeansTransferred
<1>1. ASSUME DataInv PROVE FlushedMeansTransferred
  <2> SUFFICES ASSUME NEW r \in Ranks, NEW b \in Block, pc[r] = "flushed"
               PROVE  global[b] >= acked[r][b] \/ b \in lost
    BY Zenon DEF FlushedMeansTransferred
  <2>1. ~Dirty(r, b)
    BY Zenon, <1>1 DEF DataInv, OwnedInv
  <2>2. global[b] \in Nat /\ acked[r][b] \in Nat
    BY Zenon, <1>1 DEF DataInv, DataTypes
  <2> QED BY <2>1, <2>2 DEF Dirty
<1> QED BY <1>1, DataCorrect, PTL
-----------------------------------------------------------------------------
(* The locks of the coherent cache.                                        *)

(* A step after which process q holds the locks it has to hold.            *)
KeepsLocks(q) ==
    \/ pc'[q] = pc[q] /\ blocks'[q] = blocks[q]
    \/ /\ pc[q] # "closed"
       /\ hints.coherent /\ cached[q] /\ pc'[q] = "pwrite" =>
            \A b \in blocks'[q] : <<q, b>> \in locks'

(* The steps that release no lock and make no block dirty.                 *)
LEMMA SameLocks ==
  ASSUME BeegfsLockInv, hints' = hints, locks \subseteq locks',
         \A q \in Ranks : cached'[q] => cached[q],
         \A q \in Ranks : KeepsLocks(q),
         \A q \in Ranks, b \in Block : cached[q] /\ Dirty(q, b)' => Dirty(q, b)
  PROVE  BeegfsLockInv'
<1>1. WriterLocked'
  BY Zenon DEF BeegfsLockInv, WriterLocked, KeepsLocks
<1>2. ASSUME NEW q \in Ranks, NEW b \in Block, hints.coherent, cached'[q],
             pc'[q] # "closed", Dirty(q, b)'
      PROVE  <<q, b>> \in locks'
  <2>1. Dirty(q, b) /\ cached[q] /\ pc[q] # "closed"
    BY Zenon, <1>2 DEF KeepsLocks
  <2> QED BY Zenon, <1>2, <2>1 DEF BeegfsLockInv, LockedWhileDirty, Dirty
<1>3. LockedWhileDirty'
  BY Zenon, <1>2 DEF LockedWhileDirty, Dirty
<1> QED BY Zenon, <1>1, <1>3 DEF BeegfsLockInv

LEMMA OpenLocks ==
  ASSUME OpenInv, BeegfsLockInv, NEW r \in Ranks,
         \/ r = Root /\ CreateRoot
         \/ CreateOther(r) \/ OpenFile(r) \/ Bcast(r) \/ Opened(r)
  PROVE  BeegfsLockInv'
<1>1. /\ UNCHANGED <<hints, blocks, global, locks, acked, lost>>
      /\ pc[r] \notin {"closed"}
      /\ cached' = cached \/ cached' = [cached EXCEPT ![r] = FALSE]
      /\ \E p \in {"create", "open", "bcast", "opened", "failed", "idle"} :
            pc' = [pc EXCEPT ![r] = p]
  <2>1. CASE r = Root /\ CreateRoot
    BY Zenon, <2>1 DEF CreateRoot, TakeResult, Revert, AfterCreate, Goto, files
  <2>2. CASE CreateOther(r)
    BY Zenon, <2>2
    DEF CreateOther, TakeResult, Revert, AfterCreate, Goto, files, history
  <2>3. CASE OpenFile(r)
    BY Zenon, <2>3 DEF OpenFile, Goto, handle, files
  <2>4. CASE Bcast(r)
    BY Zenon, <2>4 DEF Bcast, Goto, handle, files, history
  <2>5. CASE Opened(r)
    BY Zenon, <2>5 DEF Opened, Goto, opening, handle, files, history
  <2> QED BY Zenon, <2>1, <2>2, <2>3, <2>4, <2>5
<1>2. /\ \A q \in Ranks : cached'[q] => cached[q]
      /\ pc'[r] # "pwrite" /\ \A q \in Ranks \ {r} : pc'[q] = pc[q]
  BY Zenon, <1>1 DEF OpenInv, OpenTypes
<1>3. \A q \in Ranks : KeepsLocks(q)
  BY Zenon, <1>1, <1>2 DEF KeepsLocks
<1> QED BY Zenon, <1>1, <1>2, <1>3, SameLocks DEF Dirty

LEMMA WriteLocks ==
  ASSUME OpenInv, DataInv, BeegfsLockInv, NEW r \in Ranks,
         \/ \E e \in Extents : WriteBegin(r, e)
         \/ Lock(r) \/ Pwrite(r) \/ PwriteFails(r) \/ WriteFlush(r)
  PROVE  BeegfsLockInv'
<1>1. /\ UNCHANGED <<hints, cached, acked>> /\ locks \subseteq locks' /\ lost \subseteq lost'
      /\ pc[r] \notin {"closed"}
      /\ pc' = pc \/ \E p \in Place : pc' = [pc EXCEPT ![r] = p]
      /\ blocks' = blocks \/ \E e : blocks' = [blocks EXCEPT ![r] = e]
  <2>1. CASE \E e \in Extents : WriteBegin(r, e)
    BY Zenon, <2>1 DEF WriteBegin, Goto, Place, opening, handle, files
  <2>2. CASE Lock(r)
    BY Zenon, <2>2 DEF Lock, Goto, Place, opening, handle, history
  <2>3. CASE Pwrite(r)
    BY Zenon, <2>3 DEF Pwrite, opening, handle
  <2>4. CASE PwriteFails(r)
    BY Zenon, <2>4 DEF PwriteFails, Forget, Goto, Place, opening, handle, files
  <2>5. CASE WriteFlush(r)
    BY Zenon, <2>5 DEF WriteFlush, FlushOne, StartRange, Goto, Place, opening, handle
  <2> QED BY Zenon, <2>1, <2>2, <2>3, <2>4, <2>5
<1>2. ASSUME hints.coherent, cached[r], pc'[r] = "pwrite"
      PROVE  /\ pc[r] \in {"lock", "pwrite"} /\ blocks' = blocks
             /\ pc[r] = "lock" => {r} \X blocks[r] \subseteq locks'
  <2>1. CASE \E e \in Extents : WriteBegin(r, e)
    <3>1. pc' = [pc EXCEPT ![r] = "lock"]
      BY Zenon, <1>2, <2>1 DEF WriteBegin, Goto
    <3> QED BY Zenon, <1>2, <3>1 DEF OpenInv, OpenTypes
  <2>2. CASE Lock(r)
    BY Zenon, <2>2 DEF Lock, Locked
  <2>3. CASE Pwrite(r)
    BY Zenon, <2>3 DEF Pwrite
  <2>4. CASE PwriteFails(r) \/ WriteFlush(r)
    <3>1. /\ pc[r] # "pwrite" \/ pc' = [pc EXCEPT ![r] = "idle"]
          /\ pc' = pc \/ pc' = [pc EXCEPT ![r] = "idle"]
      BY Zenon, <2>4 DEF PwriteFails, WriteFlush, Goto
    <3> QED BY <1>2, <3>1 DEF OpenInv, OpenTypes
  <2> QED BY Zenon, <2>1, <2>2, <2>3, <2>4
<1>3. hints.coherent /\ cached[r] /\ pc'[r] = "pwrite" =>
        \A b \in blocks'[r] : <<r, b>> \in locks'
  BY Zenon, <1>1, <1>2 DEF BeegfsLockInv, WriterLocked
<1>4. \A q \in Ranks \ {r} : pc'[q] = pc[q] /\ blocks'[q] = blocks[q]
  BY <1>1 DEF OpenInv, OpenTypes, DataInv, DataTypes
<1>5. \A q \in Ranks : KeepsLocks(q)
  BY Zenon, <1>1, <1>3, <1>4 DEF KeepsLocks
<1>6. ASSUME NEW q \in Ranks, NEW b \in Block, cached[q], Dirty(q, b)' PROVE Dirty(q, b)
  <2>1. global[b] \in Nat /\ global'[b] \in Nat /\ acked[q][b] \in Nat
        /\ global[b] <= global'[b]
    <3>1. global[b] \in Nat /\ acked[q][b] \in Nat /\ clock \in Nat /\ global[b] <= clock
      BY Zenon DEF DataInv, DataTypes, StampInv
    <3>2. global'[b] \in {global[b], clock + 1}
      <4>1. CASE Pwrite(r)
        <5>1. \E N \in SUBSET Block : global' = IF cached[r] THEN global ELSE
                  [c \in Block |-> IF c \in N THEN clock + 1 ELSE global[c]]
          <6>1. left[r] \subseteq Block
            BY Zenon DEF DataInv, DataTypes
          <6> QED BY Zenon, <4>1, <6>1 DEF Pwrite
        <5> QED BY Zenon, <5>1
      <4>2. CASE ~Pwrite(r)
        BY Zenon, <4>2 DEF WriteBegin, Lock, PwriteFails, WriteFlush, files
      <4> QED BY Zenon, <4>1, <4>2
    <3> QED BY <3>1, <3>2
  <2>2. b \notin lost /\ global'[b] < acked[q][b]
    BY Zenon, <1>1, <1>6 DEF Dirty
  <2>3. global[b] < acked[q][b]
    BY <2>1, <2>2
  <2> QED BY Zenon, <2>2, <2>3 DEF Dirty
<1> QED BY Zenon, <1>1, <1>5, <1>6, SameLocks

(* A write that returns has locked what it makes dirty.                    *)
LEMMA EnqueueLocks ==
  ASSUME OpenInv, DataInv, BeegfsLockInv, NEW r \in Ranks, Enqueue(r) PROVE BeegfsLockInv'
<1>1. /\ pc[r] = "pwrite" /\ UNCHANGED <<hints, cached, global, locks, lost>>
      /\ \E p \in {"wflush", "idle"} : pc' = [pc EXCEPT ![r] = p]
      /\ blocks' = [blocks EXCEPT ![r] = {}]
  BY Zenon DEF Enqueue, Forget, Goto, opening, handle, files
<1>2. /\ \A q \in Ranks \ {r} : acked'[q] = acked[q]
      /\ \A b \in Block \ blocks[r] : acked'[r][b] = acked[r][b]
  BY Zenon DEF Enqueue, DataInv, DataTypes
<1>3. /\ \A q \in Ranks \ {r} : pc'[q] = pc[q] /\ blocks'[q] = blocks[q]
      /\ pc'[r] # "pwrite"
  BY <1>1 DEF OpenInv, OpenTypes, DataInv, DataTypes
<1>4. WriterLocked'
  BY Zenon, <1>1, <1>3 DEF BeegfsLockInv, WriterLocked
<1>5. ASSUME NEW q \in Ranks, NEW b \in Block, hints.coherent, cached[q],
             pc'[q] # "closed", Dirty(q, b)'
      PROVE  <<q, b>> \in locks
  <2>1. CASE q = r /\ b \in blocks[r]
    BY Zenon, <1>1, <1>5, <2>1 DEF BeegfsLockInv, WriterLocked
  <2>2. CASE ~(q = r /\ b \in blocks[r])
    <3>1. acked'[q][b] = acked[q][b] /\ pc[q] # "closed"
      BY <1>1, <1>2, <1>3, <1>5, <2>2
    <3>2. global[b] < acked[q][b] /\ b \notin lost
      BY Zenon, <1>1, <1>5, <3>1 DEF Dirty
    <3> QED BY Zenon, <1>5, <3>1, <3>2 DEF BeegfsLockInv, LockedWhileDirty
  <2> QED BY Zenon, <2>1, <2>2
<1>6. LockedWhileDirty'
  BY Zenon, <1>1, <1>5 DEF LockedWhileDirty, Dirty
<1> QED BY Zenon, <1>4, <1>6 DEF BeegfsLockInv

(* Locks are released when nothing is dirty, or with the file.             *)
LEMMA FlushLocks ==
  ASSUME OpenInv, DataInv, DataInv', BeegfsLockInv, NEW r \in Ranks,
         \/ FlushBegin(r, "sync") \/ FlushBegin(r, "close")
         \/ Flush(r) \/ Wait(r) \/ FlushReturn(r)
  PROVE  BeegfsLockInv'
<1>1. /\ UNCHANGED <<hints, cached, blocks, global, acked>> /\ lost \subseteq lost'
      /\ pc[r] \in {"idle", "flush", "wait", "flushed"}
      /\ pc' = pc \/ \E p \in {"flush", "wait", "flushed", "closed", "idle"} :
                        pc' = [pc EXCEPT ![r] = p]
  <2>1. CASE FlushBegin(r, "sync") \/ FlushBegin(r, "close")
    BY Zenon, <2>1 DEF FlushBegin, Goto, opening, handle, files, history
  <2>2. CASE Flush(r)
    BY Zenon, <2>2 DEF Flush, FlushOne, StartRange, Goto, opening, handle
  <2>3. CASE Wait(r)
    BY Zenon, <2>3 DEF Wait, Goto, opening, handle
  <2>4. CASE FlushReturn(r)
    BY Zenon, <2>4 DEF FlushReturn, Goto, opening, handle, history
  <2> QED BY Zenon, <2>1, <2>2, <2>3, <2>4
<1>2. pc'[r] # "pwrite" /\ pc[r] # "closed" /\ \A q \in Ranks \ {r} : pc'[q] = pc[q]
  BY Zenon, <1>1 DEF OpenInv, OpenTypes
<1>3. \A q \in Ranks \ {r}, b \in Block : <<q, b>> \in locks => <<q, b>> \in locks'
  <2>1. CASE FlushBegin(r, "sync") \/ FlushBegin(r, "close") \/ Flush(r)
    BY Zenon, <2>1 DEF FlushBegin, Flush, files
  <2>2. CASE Wait(r)
    BY Zenon, <2>2 DEF Wait, Unlocked
  <2>3. CASE FlushReturn(r)
    BY Zenon, <2>3 DEF FlushReturn
  <2> QED BY Zenon, <2>1, <2>2, <2>3
<1>4. locks' = locks \/ pc'[r] \in {"flushed", "closed"}
  <2>1. CASE FlushBegin(r, "sync") \/ FlushBegin(r, "close") \/ Flush(r)
    BY Zenon, <2>1 DEF FlushBegin, Flush, files
  <2>2. CASE Wait(r)
    BY Zenon, <2>2 DEF Wait, Goto, OpenInv, OpenTypes
  <2>3. CASE FlushReturn(r)
    BY Zenon, <2>3 DEF FlushReturn, Goto, OpenInv, OpenTypes
  <2> QED BY Zenon, <2>1, <2>2, <2>3
<1>5. WriterLocked'
  <2>1. \A q \in Ranks : blocks[q] \subseteq Block
    BY Zenon DEF DataInv, DataTypes
  <2> QED BY Zenon, <1>1, <1>2, <1>3, <2>1 DEF BeegfsLockInv, WriterLocked
<1>6. ASSUME NEW q \in Ranks, NEW b \in Block, hints.coherent, cached[q],
             pc'[q] # "closed", Dirty(q, b)'
      PROVE  <<q, b>> \in locks'
  <2>1. <<q, b>> \in locks
    <3>1. Dirty(q, b) /\ pc[q] # "closed"
      BY Zenon, <1>1, <1>2, <1>6 DEF Dirty
    <3> QED BY Zenon, <1>6, <3>1 DEF BeegfsLockInv, LockedWhileDirty, Dirty
  <2>2. pc'[q] # "flushed"
    BY Zenon, <1>6 DEF DataInv, OwnedInv
  <2> QED BY Zenon, <1>3, <1>4, <1>6, <2>1, <2>2
<1>7. LockedWhileDirty'
  BY Zenon, <1>1, <1>6 DEF LockedWhileDirty, Dirty
<1> QED BY Zenon, <1>5, <1>7 DEF BeegfsLockInv

LEMMA CopyLocks == ASSUME DataInv, BeegfsLockInv, Copy PROVE BeegfsLockInv'
<1>1. PICK b \in Block :
        /\ global' = [global EXCEPT ![b] = cache[b]]
        /\ UNCHANGED <<hints, cached, pc, blocks, cache, locks, acked, lost>>
  BY Zenon DEF Copy, opening, handle, history
<1>2. ASSUME NEW q \in Ranks, NEW c \in Block, cached[q], Dirty(q, c)' PROVE Dirty(q, c)
  <2>1. /\ global'[b] = cache[b] /\ cache[b] \in Nat /\ acked[q][b] \in Nat
        /\ c # b => global'[c] = global[c]
    BY Zenon, <1>1 DEF DataInv, DataTypes
  <2>2. acked[q][b] <= cache[b]
    BY Zenon, <1>2 DEF DataInv, StampInv, Target
  <2>3. ~(global'[b] < acked[q][b])
    BY <2>1, <2>2
  <2>4. c # b
    BY Zenon, <1>1, <1>2, <2>3 DEF Dirty
  <2> QED BY Zenon, <1>1, <1>2, <2>1, <2>4 DEF Dirty
<1>3. \A q \in Ranks : KeepsLocks(q)
  BY Zenon, <1>1 DEF KeepsLocks
<1> QED BY Zenon, <1>1, <1>2, <1>3, SameLocks

LEMMA LockNext ==
  OpenInv /\ DataInv /\ DataInv' /\ BeegfsLockInv /\ [Next]_vars => BeegfsLockInv'
<1> SUFFICES ASSUME OpenInv, DataInv, DataInv', BeegfsLockInv, [Next]_vars
             PROVE  BeegfsLockInv'
  BY Zenon
<1>1. CASE UNCHANGED vars
  <2>1. UNCHANGED <<hints, cached, pc, blocks, global, locks, acked, lost>>
    BY Zenon, <1>1 DEF vars, opening, handle, files, history
  <2> QED BY Zenon, <2>1, SameLocks DEF KeepsLocks, Dirty
<1>2. ASSUME NEW r \in Ranks, Step(r) PROVE BeegfsLockInv'
  BY Zenon, <1>2, OpenLocks, WriteLocks, EnqueueLocks, FlushLocks DEF Step
<1>3. ASSUME NEW r \in Ranks, Call(r) PROVE BeegfsLockInv'
  BY Zenon, <1>3, WriteLocks, FlushLocks DEF Call
<1> QED BY Zenon, <1>1, <1>2, <1>3, CopyLocks DEF Next

(* With the coherent cache a process holds the lock of every block it has  *)
(* written until that version, or a later one, is in the global file, for  *)
(* any number of processes (ad_beegfs_write.c:46).                         *)
THEOREM LocksCoverDirty == Spec => []LockedWhileDirty
<1>1. ASSUME Init PROVE BeegfsLockInv
  <2>1. WriterLocked
    BY Zenon, <1>1 DEF Init, WriterLocked
  <2>2. LockedWhileDirty
    BY <1>1 DEF Init, LockedWhileDirty, Zero
  <2> QED BY Zenon, <2>1, <2>2 DEF BeegfsLockInv
<1>2. OpenInv /\ DataInv /\ DataInv' /\ BeegfsLockInv /\ [Next]_vars => BeegfsLockInv'
  BY Zenon, LockNext
<1>3. BeegfsLockInv => LockedWhileDirty
  BY Zenon DEF BeegfsLockInv
<1> QED BY <1>1, <1>2, <1>3, OpenCorrect, DataCorrect, PTL DEF Spec
=============================================================================
