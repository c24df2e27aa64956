--------------------------- MODULE CacheOpenProofs ----------------------------
(***************************************************************************)
(* Proofs about CacheOpen, for any number of processes, nodes, aggregators *)
(* and threads, any hints, modes, and failures: the processes agree on the *)
(* cache, a cache that cannot be used does not fail the open, and a file   *)
(* to be deleted is gone when a close returns.                             *)
(***************************************************************************)
EXTENDS CacheOpen, TLAPS

(***************************************************************************)
(* The inductive invariant.                                                *)
(***************************************************************************)
OpenTypes ==
  /\ at \in [Rank -> Places]
  /\ err \in [Rank -> {"ok", "io", "thread", "exists"}]
  /\ e10 \in [Rank -> BOOLEAN] /\ cacheOpen \in [Rank -> BOOLEAN]
  /\ cacheFd \in [Rank -> Nat] /\ pool \in [Rank -> Int]
  /\ path \in Nat /\ cachePath \in [Node -> Nat] /\ inodes \in Nat
  /\ posted \in [{"created", "blksize"} -> {"none", "ok", "io", "exists"}]

(* What a process has of the cache after the attempt to open it failed     *)
(* ("io"), or after it was opened and perhaps lost its threads.            *)
Attempted(p) ==
  /\ e10[p] /\ err[p] \in {"ok", "io", "thread"}
  /\ err[p] = "io" => cacheFd[p] = 0 /\ pool[p] = -1
  /\ err[p] # "io" => cacheFd[p] # 0

(* What it has once it knows whether the cache is used.                    *)
Settled(p) ==
  /\ e10[p] <=> cacheOpen[p]
  /\ cacheOpen[p] <=> cacheFd[p] # 0
  /\ ~ cacheOpen[p] => pool[p] = -1

(* The cache as the steps of open and close leave it, place by place.      *)
StageOf(p) ==
  /\ at[p] \in {"closed", "amode", "cache", "close_global", "deleted"}
       => cacheFd[p] = 0 /\ pool[p] = -1
  /\ at[p] = "cache" => e10[p] /\ err[p] = "ok"
  /\ at[p] = "pool" => pool[p] = -1 /\ err[p] # "thread"
  /\ at[p] \in {"pool", "agree", "revert"} => Attempted(p)
  /\ at[p] = "revert" => ~ cacheOpen[p]
  /\ at[p] \in {"create", "open", "bcast", "final", "in_use", "closing",
                "close_cache"} => Settled(p)

(* From the reduction to the barrier of the close.                         *)
Decided(p) == at[p] \in {"revert", "create", "open", "bcast", "final", "in_use",
                         "closing"}

CacheInv ==
  /\ OpenTypes
  /\ \A p \in Rank : StageOf(p)
  /\ \A p, q \in Rank : Decided(p) /\ Decided(q) /\ cacheOpen[p] => cacheOpen[q]

(* An error that the open will report has to do with the global file.      *)
Excused(p) == at[p] \in {"bcast", "final"} /\ err[p] # "ok" => excuse
ExcuseInv ==
  /\ posted["created"] \notin {"none", "ok"} => excuse
  /\ \A p \in Rank : Excused(p)

(* The others wait for the root in the barrier after its unlink.           *)
DeleteInv == at[Root] = "deleted" => path = 0

(* The steps of one process.                                               *)
StepOf(p) ==
  \/ Open(p) \/ OpenStep(p) \/ Close(p) \/ CloseStep(p)
  \/ (p = Root /\ CreateRoot)

LEMMA RootFacts == Root \in Rank
  BY Zenon, OpenAssumption

(***************************************************************************)
(* Types.                                                                  *)
(***************************************************************************)
LEMMA TypesInit == Init => OpenTypes
  BY DEF Init, OpenTypes, Places

LEMMA TypesNext ==
  ASSUME OpenTypes, [Next]_vars
  PROVE  OpenTypes'
<1>1. ASSUME NEW p \in Rank, Open(p) PROVE OpenTypes'
  BY Zenon, <1>1 DEF Open, Go, cacheVars, globalVars, Places, OpenTypes
<1>2. ASSUME NEW p \in Rank, OpenCache(p) PROVE OpenTypes'
  <2>1. at' \in [Rank -> Places]
    BY Zenon, <1>2 DEF OpenCache, Go, Places, OpenTypes
  <2>2. err' \in [Rank -> {"ok", "io", "thread", "exists"}]
    BY Zenon, <1>2 DEF OpenCache, OpenTypes
  <2>3. cacheFd' \in [Rank -> Nat]
    BY <1>2, OpenAssumption DEF OpenCache, OpenTypes
  <2>4. cachePath' \in [Node -> Nat] /\ inodes' \in Nat
    BY <1>2, OpenAssumption DEF OpenCache, Used, OpenTypes
  <2> QED
    BY Zenon, <1>2, <2>1, <2>2, <2>3, <2>4 DEF OpenCache, globalVars, OpenTypes
<1>3. ASSUME NEW p \in Rank, StartPool(p) PROVE OpenTypes'
  BY <1>3, OpenAssumption DEF StartPool, Go, globalVars, Places, OpenTypes
<1>4. ASSUME NEW p \in Rank, Revert(p) PROVE OpenTypes'
  <2>1. at' \in [Rank -> Places]
    BY Zenon, <1>4 DEF Revert, Go, Places, OpenTypes
  <2>2. err' \in [Rank -> {"ok", "io", "thread", "exists"}]
    BY Zenon, <1>4 DEF Revert, OpenTypes
  <2>3. e10' \in [Rank -> BOOLEAN]
    BY Zenon, <1>4 DEF Revert, OpenTypes
  <2>4. cacheFd' \in [Rank -> Nat]
    BY Zenon, <1>4 DEF Revert, OpenTypes
  <2>5. pool' \in [Rank -> Int]
    BY <1>4 DEF Revert, OpenTypes
  <2>6. cachePath' \in [Node -> Nat]
    BY Zenon, <1>4, OpenAssumption DEF Revert, OpenTypes
  <2> QED
    BY Zenon, <1>4, <2>1, <2>2, <2>3, <2>4, <2>5, <2>6 DEF Revert, globalVars, OpenTypes
<1>5. ASSUME NEW p \in Rank, CreateOther(p) PROVE OpenTypes'
  BY Zenon, <1>5 DEF CreateOther, Go, cacheVars, globalVars, Places, OpenTypes
<1>6. ASSUME NEW p \in Rank, NoCreate(p) PROVE OpenTypes'
  BY Zenon, <1>6 DEF NoCreate, Go, cacheVars, globalVars, Places, OpenTypes
<1>7. ASSUME NEW p \in Rank, DeferOpen(p) PROVE OpenTypes'
  BY Zenon, <1>7 DEF DeferOpen, Go, cacheVars, globalVars, Places, OpenTypes
<1>8. ASSUME NEW p \in Rank, OpenGlobal(p) PROVE OpenTypes'
  BY Zenon, <1>8 DEF OpenGlobal, Go, cacheVars, Places, OpenTypes
<1>9. ASSUME NEW p \in Rank, Bcast(p) PROVE OpenTypes'
  BY <1>9 DEF Bcast, Go, cacheVars, Places, OpenTypes
<1>10. ASSUME NEW p \in Rank, Close(p) PROVE OpenTypes'
  BY Zenon, <1>10 DEF Close, Go, cacheVars, globalVars, Places, OpenTypes
<1>11. ASSUME NEW p \in Rank, CloseCacheOf(p) PROVE OpenTypes'
  <2>1. at' \in [Rank -> Places]
    BY Zenon, <1>11 DEF CloseCacheOf, Go, Places, OpenTypes
  <2>2. cacheOpen' \in [Rank -> BOOLEAN]
    BY Zenon, <1>11 DEF CloseCacheOf, OpenTypes
  <2>3. cacheFd' \in [Rank -> Nat]
    BY Zenon, <1>11 DEF CloseCacheOf, OpenTypes
  <2>4. pool' \in [Rank -> Int]
    BY <1>11 DEF CloseCacheOf, OpenTypes
  <2>5. cachePath' \in [Node -> Nat]
    BY Zenon, <1>11, OpenAssumption DEF CloseCacheOf, OpenTypes
  <2> QED
    BY Zenon, <1>11, <2>1, <2>2, <2>3, <2>4, <2>5
    DEF CloseCacheOf, globalVars, OpenTypes
<1>12. ASSUME NEW p \in Rank, CloseGlobalOf(p) PROVE OpenTypes'
  BY Zenon, <1>12 DEF CloseGlobalOf, Go, cacheVars, Places, OpenTypes
<1>13. CASE SameAmode
  BY Zenon, <1>13 DEF SameAmode, FreshHandle, Places, OpenTypes
<1>14. CASE Agree
  BY Zenon, <1>14 DEF Agree, globalVars, Places, OpenTypes
<1>15. CASE CreateRoot
  BY <1>15, RootFacts DEF CreateRoot, Go, Used, cacheVars, Places, OpenTypes
<1>16. CASE Final
  BY <1>16 DEF Final, Places, OpenTypes
<1>17. CASE ClosingBarrier
  BY Zenon, <1>17 DEF ClosingBarrier, cacheVars, globalVars, Places, OpenTypes
<1>18. CASE DeletedBarrier
  BY Zenon, <1>18 DEF DeletedBarrier, cacheVars, globalVars, Places, OpenTypes
<1>19. CASE UNCHANGED vars
  BY Zenon, <1>19 DEF vars, OpenTypes
<1> QED
  BY Zenon, <1>1, <1>2, <1>3, <1>4, <1>5, <1>6, <1>7, <1>8, <1>9, <1>10,
     <1>11, <1>12, <1>13, <1>14, <1>15, <1>16, <1>17, <1>18, <1>19
  DEF Next, OpenStep, CloseStep, Collective

(***************************************************************************)
(* The cache.                                                              *)
(***************************************************************************)

(* What is known of a process depends on its own state only.               *)
LEMMA StageKept ==
  ASSUME NEW q \in Rank, StageOf(q), at'[q] = at[q], err'[q] = err[q],
         e10'[q] = e10[q], cacheFd'[q] = cacheFd[q],
         cacheOpen'[q] = cacheOpen[q], pool'[q] = pool[q]
  PROVE  StageOf(q)'
  BY Zenon DEF StageOf, Attempted, Settled

(* A step of one process leaves the others' handles alone.                 *)
LEMMA OthersStay ==
  ASSUME OpenTypes, NEW p \in Rank, StepOf(p), NEW q \in Rank, q # p
  PROVE  /\ at'[q] = at[q] /\ err'[q] = err[q] /\ e10'[q] = e10[q]
         /\ cacheFd'[q] = cacheFd[q] /\ cacheOpen'[q] = cacheOpen[q]
         /\ pool'[q] = pool[q]
<1>1. CASE Open(p)
  BY Zenon, <1>1 DEF Open, Go, cacheVars, globalVars, OpenTypes
<1>2. CASE OpenCache(p)
  BY Zenon, <1>2 DEF OpenCache, Go, globalVars, OpenTypes
<1>3. CASE StartPool(p)
  BY Zenon, <1>3 DEF StartPool, Go, globalVars, OpenTypes
<1>4. CASE Revert(p)
  BY Zenon, <1>4 DEF Revert, Go, globalVars, OpenTypes
<1>5. CASE CreateOther(p)
  BY Zenon, <1>5 DEF CreateOther, Go, cacheVars, globalVars, OpenTypes
<1>6. CASE NoCreate(p)
  BY Zenon, <1>6 DEF NoCreate, Go, cacheVars, globalVars, OpenTypes
<1>7. CASE DeferOpen(p)
  BY Zenon, <1>7 DEF DeferOpen, Go, cacheVars, globalVars, OpenTypes
<1>8. CASE OpenGlobal(p)
  BY Zenon, <1>8 DEF OpenGlobal, Go, cacheVars, OpenTypes
<1>9. CASE Bcast(p)
  BY Zenon, <1>9 DEF Bcast, Go, cacheVars, OpenTypes
<1>10. CASE Close(p)
  BY Zenon, <1>10 DEF Close, Go, cacheVars, globalVars, OpenTypes
<1>11. CASE CloseCacheOf(p)
  BY Zenon, <1>11 DEF CloseCacheOf, Go, globalVars, OpenTypes
<1>12. CASE CloseGlobalOf(p)
  BY Zenon, <1>12 DEF CloseGlobalOf, Go, cacheVars, OpenTypes
<1>13. CASE p = Root /\ CreateRoot
  BY Zenon, <1>13 DEF CreateRoot, Go, cacheVars, OpenTypes
<1> QED
  BY Zenon, <1>1, <1>2, <1>3, <1>4, <1>5, <1>6, <1>7, <1>8, <1>9, <1>10,
     <1>11, <1>12, <1>13
  DEF StepOf, OpenStep, CloseStep

(* A process goes from place to place with the cache it should have, and   *)
(* comes to a decision only together with the others.                      *)
LEMMA OwnStage ==
  ASSUME OpenTypes, NEW p \in Rank, StageOf(p), StepOf(p)
  PROVE  /\ StageOf(p)'
         /\ Decided(p)' => Decided(p) /\ cacheOpen'[p] = cacheOpen[p]
<1>1. CASE Open(p)
  BY <1>1, OpenAssumption
  DEF Open, Go, cacheVars, globalVars, OpenTypes, StageOf, Attempted, Settled, Decided
<1>2. CASE OpenCache(p)
  BY <1>2, OpenAssumption
  DEF OpenCache, Go, globalVars, OpenTypes, StageOf, Attempted, Settled, Decided
<1>3. CASE StartPool(p)
  BY <1>3, OpenAssumption
  DEF StartPool, HasPool, Go, globalVars, OpenTypes, StageOf, Attempted, Settled, Decided
<1>4. CASE Revert(p)
  BY <1>4, OpenAssumption
  DEF Revert, Go, globalVars, OpenTypes, StageOf, Attempted, Settled, Decided
<1>5. CASE CreateOther(p)
  BY <1>5, OpenAssumption
  DEF CreateOther, Go, cacheVars, globalVars, OpenTypes, StageOf, Attempted, Settled, Decided
<1>6. CASE NoCreate(p)
  BY <1>6, OpenAssumption
  DEF NoCreate, Go, cacheVars, globalVars, OpenTypes, StageOf, Attempted, Settled, Decided
<1>7. CASE DeferOpen(p)
  BY <1>7, OpenAssumption
  DEF DeferOpen, Go, cacheVars, globalVars, OpenTypes, StageOf, Attempted, Settled, Decided
<1>8. CASE OpenGlobal(p)
  BY <1>8, OpenAssumption
  DEF OpenGlobal, Go, cacheVars, OpenTypes, StageOf, Attempted, Settled, Decided
<1>9. CASE Bcast(p)
  BY <1>9, OpenAssumption
  DEF Bcast, Go, cacheVars, OpenTypes, StageOf, Attempted, Settled, Decided
<1>10. CASE Close(p)
  BY <1>10, OpenAssumption
  DEF Close, Go, cacheVars, globalVars, OpenTypes, StageOf, Attempted, Settled, Decided
<1>11. CASE CloseCacheOf(p)
  BY <1>11, OpenAssumption
  DEF CloseCacheOf, Go, globalVars, OpenTypes, StageOf, Attempted, Settled, Decided
<1>12. CASE CloseGlobalOf(p)
  BY <1>12, OpenAssumption
  DEF CloseGlobalOf, Go, cacheVars, OpenTypes, StageOf, Attempted, Settled, Decided
<1>13. CASE p = Root /\ CreateRoot
  BY <1>13, OpenAssumption
  DEF CreateRoot, Go, cacheVars, OpenTypes, StageOf, Attempted, Settled, Decided
<1> QED
  BY Zenon, <1>1, <1>2, <1>3, <1>4, <1>5, <1>6, <1>7, <1>8, <1>9, <1>10,
     <1>11, <1>12, <1>13
  DEF StepOf, OpenStep, CloseStep

(* The steps of all processes together.                                    *)
LEMMA TogetherStage ==
  ASSUME CacheInv, SameAmode \/ Agree \/ Final \/ ClosingBarrier \/ DeletedBarrier,
         NEW p \in Rank
  PROVE  StageOf(p)'
<1>1. CASE SameAmode
  BY Zenon, <1>1
  DEF SameAmode, FreshHandle, AllAt, CacheInv, OpenTypes, StageOf, Attempted, Settled
<1>2. CASE Agree
  BY Zenon, <1>2
  DEF Agree, AllAt, globalVars, CacheInv, OpenTypes, StageOf, Attempted, Settled
<1>3. CASE Final
  BY Zenon, <1>3 DEF Final, AllAt, CacheInv, OpenTypes, StageOf, Attempted, Settled
<1>4. CASE ClosingBarrier
  BY Zenon, <1>4
  DEF ClosingBarrier, AllAt, cacheVars, globalVars, CacheInv, OpenTypes, StageOf, Attempted, Settled
<1>5. CASE DeletedBarrier
  BY Zenon, <1>5
  DEF DeletedBarrier, AllAt, cacheVars, globalVars, CacheInv, OpenTypes, StageOf, Attempted, Settled
<1> QED BY Zenon, <1>1, <1>2, <1>3, <1>4, <1>5

LEMMA TogetherDecided ==
  ASSUME CacheInv, SameAmode \/ Agree \/ Final \/ ClosingBarrier \/ DeletedBarrier,
         NEW p \in Rank, NEW q \in Rank, Decided(p)', Decided(q)', cacheOpen'[p]
  PROVE  cacheOpen'[q]
<1>1. CASE SameAmode
  BY Zenon, <1>1 DEF SameAmode, FreshHandle, AllAt, CacheInv, OpenTypes, Decided
<1>2. CASE Agree
  BY Zenon, <1>2 DEF Agree, AllAt, globalVars, CacheInv, OpenTypes, Decided
<1>3. CASE Final
  BY Zenon, <1>3 DEF Final, AllAt, CacheInv, OpenTypes, Decided
<1>4. CASE ClosingBarrier
  BY Zenon, <1>4
  DEF ClosingBarrier, AllAt, cacheVars, globalVars, CacheInv, OpenTypes, Decided
<1>5. CASE DeletedBarrier
  BY Zenon, <1>5
  DEF DeletedBarrier, AllAt, cacheVars, globalVars, CacheInv, OpenTypes, Decided
<1> QED BY Zenon, <1>1, <1>2, <1>3, <1>4, <1>5

LEMMA CacheInvInit == Init => CacheInv
  BY TypesInit DEF Init, CacheInv, StageOf, Decided

LEMMA CacheInvNext ==
  ASSUME CacheInv, [Next]_vars
  PROVE  CacheInv'
<1>1. OpenTypes'
  BY Zenon, TypesNext DEF CacheInv
<1>2. ASSUME NEW p \in Rank, StepOf(p) PROVE CacheInv'
  <2>1. ASSUME NEW q \in Rank, q # p
        PROVE  /\ StageOf(q)' /\ (Decided(q)' <=> Decided(q))
               /\ cacheOpen'[q] = cacheOpen[q]
    BY Zenon, <1>2, <2>1, OthersStay, StageKept DEF CacheInv, Decided
  <2>2. /\ StageOf(p)'
        /\ Decided(p)' => Decided(p) /\ cacheOpen'[p] = cacheOpen[p]
    BY Zenon, <1>2, OwnStage DEF CacheInv
  <2>3. ASSUME NEW q \in Rank, NEW r \in Rank, Decided(q)', Decided(r)', cacheOpen'[q]
        PROVE  cacheOpen'[r]
    <3>1. /\ Decided(q) /\ cacheOpen'[q] = cacheOpen[q]
          /\ Decided(r) /\ cacheOpen'[r] = cacheOpen[r]
      BY Zenon, <2>1, <2>2, <2>3
    <3> QED BY Zenon, <2>3, <3>1 DEF CacheInv
  <2>4. \A q \in Rank : StageOf(q)'
    BY Zenon, <2>1, <2>2
  <2> QED BY Zenon, <1>1, <2>3, <2>4 DEF CacheInv
<1>3. CASE SameAmode \/ Agree \/ Final \/ ClosingBarrier \/ DeletedBarrier
  <2>1. \A p \in Rank : StageOf(p)'
    BY Zenon, <1>3, TogetherStage
  <2>2. \A p, q \in Rank : Decided(p)' /\ Decided(q)' /\ cacheOpen'[p] => cacheOpen'[q]
    BY Zenon, <1>3, TogetherDecided
  <2> QED BY Zenon, <1>1, <2>1, <2>2 DEF CacheInv
<1>4. CASE UNCHANGED vars
  BY Zenon, <1>4 DEF CacheInv, OpenTypes, StageOf, Attempted, Settled, Decided, vars
<1> QED
  BY Zenon, <1>2, <1>3, <1>4, RootFacts DEF Next, StepOf, Collective

(***************************************************************************)
(* All processes use the cache or none does, whichever of them failed to   *)
(* open its cache file or to start its threads, and one that does not use  *)
(* it has no descriptor and no threads (ad_opencoll.c:113).                *)
(***************************************************************************)
THEOREM AllOrNone == Spec => []CacheAgreement
<1>1. CacheInv => CacheAgreement
  <2> SUFFICES ASSUME CacheInv, NEW p \in Rank, InUse(p)
               PROVE  /\ \A q \in Rank : InUse(q) => cacheOpen[p] = cacheOpen[q]
                      /\ e10[p] = cacheOpen[p]
                      /\ cacheOpen[p] = (cacheFd[p] # 0)
                      /\ ~ cacheOpen[p] => pool[p] = -1
    BY Zenon DEF CacheAgreement
  <2>1. \A q \in Rank : InUse(q) => Decided(q) /\ Settled(q)
    BY DEF CacheInv, StageOf, InUse, Decided
  <2>2. \A q \in Rank : e10[q] \in BOOLEAN /\ cacheOpen[q] \in BOOLEAN
    BY Zenon DEF CacheInv, OpenTypes
  <2>3. ASSUME NEW q \in Rank, InUse(q) PROVE cacheOpen[p] = cacheOpen[q]
    <3>1. cacheOpen[p] <=> cacheOpen[q]
      BY Zenon, <2>1, <2>3 DEF CacheInv
    <3> QED BY Zenon, <2>2, <3>1
  <2>4. e10[p] = cacheOpen[p] /\ cacheOpen[p] = (cacheFd[p] # 0)
    BY Zenon, <2>1, <2>2 DEF Settled
  <2> QED BY Zenon, <2>1, <2>3, <2>4 DEF Settled
<1> QED BY <1>1, CacheInvInit, CacheInvNext, PTL DEF Spec

(***************************************************************************)
(* The errors of an open.                                                  *)
(***************************************************************************)
LEMMA ExcuseNext ==
  ASSUME OpenTypes, ExcuseInv, [Next]_vars
  PROVE  ExcuseInv'
<1>1. ASSUME NEW p \in Rank, Open(p) PROVE ExcuseInv'
  BY Zenon, <1>1 DEF Open, Go, cacheVars, globalVars, OpenTypes, ExcuseInv, Excused
<1>2. ASSUME NEW p \in Rank, OpenCache(p) PROVE ExcuseInv'
  BY Zenon, <1>2 DEF OpenCache, Go, globalVars, OpenTypes, ExcuseInv, Excused
<1>3. ASSUME NEW p \in Rank, StartPool(p) PROVE ExcuseInv'
  BY Zenon, <1>3 DEF StartPool, Go, globalVars, OpenTypes, ExcuseInv, Excused
<1>4. ASSUME NEW p \in Rank, Revert(p) PROVE ExcuseInv'
  BY Zenon, <1>4 DEF Revert, Go, globalVars, OpenTypes, ExcuseInv, Excused
<1>5. ASSUME NEW p \in Rank, CreateOther(p) PROVE ExcuseInv'
  BY Zenon, <1>5
  DEF CreateOther, Go, cacheVars, globalVars, OpenTypes, ExcuseInv, Excused
<1>6. ASSUME NEW p \in Rank, NoCreate(p) PROVE ExcuseInv'
  BY Zenon, <1>6 DEF NoCreate, Go, cacheVars, globalVars, OpenTypes, ExcuseInv, Excused
<1>7. ASSUME NEW p \in Rank, DeferOpen(p) PROVE ExcuseInv'
  BY Zenon, <1>7 DEF DeferOpen, Go, cacheVars, globalVars, OpenTypes, ExcuseInv, Excused
<1>8. ASSUME NEW p \in Rank, OpenGlobal(p) PROVE ExcuseInv'
  BY <1>8 DEF OpenGlobal, Go, cacheVars, OpenTypes, ExcuseInv, Excused
<1>9. ASSUME NEW p \in Rank, Bcast(p) PROVE ExcuseInv'
  BY Zenon, <1>9 DEF Bcast, Go, cacheVars, OpenTypes, ExcuseInv, Excused
<1>10. ASSUME NEW p \in Rank, Close(p) PROVE ExcuseInv'
  BY Zenon, <1>10 DEF Close, Go, cacheVars, globalVars, OpenTypes, ExcuseInv, Excused
<1>11. ASSUME NEW p \in Rank, CloseCacheOf(p) PROVE ExcuseInv'
  BY Zenon, <1>11 DEF CloseCacheOf, Go, globalVars, OpenTypes, ExcuseInv, Excused
<1>12. ASSUME NEW p \in Rank, CloseGlobalOf(p) PROVE ExcuseInv'
  BY Zenon, <1>12 DEF CloseGlobalOf, Go, cacheVars, OpenTypes, ExcuseInv, Excused
<1>13. CASE SameAmode
  BY Zenon, <1>13 DEF SameAmode, FreshHandle, AllAt, OpenTypes, ExcuseInv, Excused
<1>14. CASE Agree
  BY Zenon, <1>14 DEF Agree, AllAt, globalVars, OpenTypes, ExcuseInv, Excused
<1>15. CASE CreateRoot
  BY <1>15, RootFacts DEF CreateRoot, Go, cacheVars, OpenTypes, ExcuseInv, Excused
<1>16. CASE Final
  BY Zenon, <1>16 DEF Final, AllAt, OpenTypes, ExcuseInv, Excused
<1>17. CASE ClosingBarrier
  BY Zenon, <1>17
  DEF ClosingBarrier, AllAt, cacheVars, globalVars, OpenTypes, ExcuseInv, Excused
<1>18. CASE DeletedBarrier
  BY Zenon, <1>18
  DEF DeletedBarrier, AllAt, cacheVars, globalVars, OpenTypes, ExcuseInv, Excused
<1>19. CASE UNCHANGED vars
  BY Zenon, <1>19 DEF vars, ExcuseInv, Excused
<1> QED
  BY Zenon, <1>1, <1>2, <1>3, <1>4, <1>5, <1>6, <1>7, <1>8, <1>9, <1>10,
     <1>11, <1>12, <1>13, <1>14, <1>15, <1>16, <1>17, <1>18, <1>19
  DEF Next, OpenStep, CloseStep, Collective

(***************************************************************************)
(* A cache file that cannot be opened, or threads that cannot be started,  *)
(* never fail the open of the file itself (README.md:66).                  *)
(***************************************************************************)
THEOREM StandardOpen == Spec => FallbackOpens
<1>1. Init => OpenTypes /\ ExcuseInv
  BY Zenon, TypesInit DEF Init, ExcuseInv, Excused
<1>2. OpenTypes /\ ExcuseInv /\ [Next]_vars => (OpenTypes /\ ExcuseInv)'
  BY Zenon, TypesNext, ExcuseNext
<1>3. OpenTypes /\ ExcuseInv => [Final /\ ~ excuse => at'[Root] = "in_use"]_vars
  <2> SUFFICES ASSUME ExcuseInv, Final, ~ excuse PROVE at'[Root] = "in_use"
    BY Zenon
  <2>1. \A p \in Rank : err[p] = "ok"
    BY Zenon DEF Final, AllAt, ExcuseInv, Excused
  <2> QED BY Zenon, <2>1, RootFacts DEF Final
<1> QED BY <1>1, <1>2, <1>3, PTL DEF Spec, FallbackOpens

(***************************************************************************)
(* The file to be deleted.                                                 *)
(***************************************************************************)
LEMMA DeleteNext ==
  ASSUME OpenTypes, DeleteInv, [Next]_vars
  PROVE  DeleteInv'
<1>1. ASSUME NEW p \in Rank, Open(p) PROVE DeleteInv'
  BY Zenon, <1>1, RootFacts DEF Open, Go, globalVars, OpenTypes, DeleteInv
<1>2. ASSUME NEW p \in Rank, OpenCache(p) PROVE DeleteInv'
  BY Zenon, <1>2, RootFacts DEF OpenCache, Go, globalVars, OpenTypes, DeleteInv
<1>3. ASSUME NEW p \in Rank, StartPool(p) PROVE DeleteInv'
  BY Zenon, <1>3, RootFacts DEF StartPool, Go, globalVars, OpenTypes, DeleteInv
<1>4. ASSUME NEW p \in Rank, Revert(p) PROVE DeleteInv'
  BY Zenon, <1>4, RootFacts DEF Revert, Go, globalVars, OpenTypes, DeleteInv
<1>5. ASSUME NEW p \in Rank, CreateOther(p) PROVE DeleteInv'
  BY Zenon, <1>5, RootFacts DEF CreateOther, Go, globalVars, OpenTypes, DeleteInv
<1>6. ASSUME NEW p \in Rank, NoCreate(p) PROVE DeleteInv'
  BY Zenon, <1>6, RootFacts DEF NoCreate, Go, globalVars, OpenTypes, DeleteInv
<1>7. ASSUME NEW p \in Rank, DeferOpen(p) PROVE DeleteInv'
  BY Zenon, <1>7, RootFacts DEF DeferOpen, Go, globalVars, OpenTypes, DeleteInv
<1>8. ASSUME NEW p \in Rank, OpenGlobal(p) PROVE DeleteInv'
  BY Zenon, <1>8, RootFacts DEF OpenGlobal, Go, OpenTypes, DeleteInv
<1>9. ASSUME NEW p \in Rank, Bcast(p) PROVE DeleteInv'
  BY Zenon, <1>9, RootFacts DEF Bcast, Go, OpenTypes, DeleteInv
<1>10. ASSUME NEW p \in Rank, Close(p) PROVE DeleteInv'
  BY Zenon, <1>10, RootFacts DEF Close, Go, globalVars, OpenTypes, DeleteInv
<1>11. ASSUME NEW p \in Rank, CloseCacheOf(p) PROVE DeleteInv'
  BY Zenon, <1>11, RootFacts DEF CloseCacheOf, Go, globalVars, OpenTypes, DeleteInv
<1>12. ASSUME NEW p \in Rank, CloseGlobalOf(p) PROVE DeleteInv'
  BY Zenon, <1>12, RootFacts DEF CloseGlobalOf, Go, OpenTypes, DeleteInv
<1>13. CASE SameAmode
  BY Zenon, <1>13, RootFacts DEF SameAmode, AllAt, OpenTypes, DeleteInv
<1>14. CASE Agree
  BY Zenon, <1>14, RootFacts DEF Agree, AllAt, globalVars, OpenTypes, DeleteInv
<1>15. CASE CreateRoot
  BY Zenon, <1>15, RootFacts DEF CreateRoot, Go, OpenTypes, DeleteInv
<1>16. CASE Final
  BY Zenon, <1>16, RootFacts DEF Final, AllAt, OpenTypes, DeleteInv
<1>17. CASE ClosingBarrier
  BY Zenon, <1>17, RootFacts DEF ClosingBarrier, AllAt, globalVars, OpenTypes, DeleteInv
<1>18. CASE DeletedBarrier
  BY Zenon, <1>18, RootFacts DEF DeletedBarrier, AllAt, globalVars, OpenTypes, DeleteInv
<1>19. CASE UNCHANGED vars
  BY Zenon, <1>19 DEF vars, DeleteInv
<1> QED
  BY Zenon, <1>1, <1>2, <1>3, <1>4, <1>5, <1>6, <1>7, <1>8, <1>9, <1>10,
     <1>11, <1>12, <1>13, <1>14, <1>15, <1>16, <1>17, <1>18, <1>19
  DEF Next, OpenStep, CloseStep, Collective

(* Who returns from the close of a file to be deleted does so from the     *)
(* barrier.                                                                *)
LEMMA ReturnsFromBarrier ==
  ASSUME OpenTypes, [Next]_vars, NEW p \in Rank, at[p] \in {"close_global", "deleted"},
         at'[p] = "closed", "delete" \in mode[p]
  PROVE  DeletedBarrier
<1>1. ASSUME NEW q \in Rank, Open(q) PROVE FALSE
  BY Zenon, <1>1 DEF Open, Go, OpenTypes
<1>2. ASSUME NEW q \in Rank, OpenCache(q) PROVE FALSE
  BY Zenon, <1>2 DEF OpenCache, Go, OpenTypes
<1>3. ASSUME NEW q \in Rank, StartPool(q) PROVE FALSE
  BY Zenon, <1>3 DEF StartPool, Go, OpenTypes
<1>4. ASSUME NEW q \in Rank, Revert(q) PROVE FALSE
  BY Zenon, <1>4 DEF Revert, Go, OpenTypes
<1>5. ASSUME NEW q \in Rank, CreateOther(q) PROVE FALSE
  BY Zenon, <1>5 DEF CreateOther, Go, OpenTypes
<1>6. ASSUME NEW q \in Rank, NoCreate(q) PROVE FALSE
  BY Zenon, <1>6 DEF NoCreate, Go, OpenTypes
<1>7. ASSUME NEW q \in Rank, DeferOpen(q) PROVE FALSE
  BY Zenon, <1>7 DEF DeferOpen, Go, OpenTypes
<1>8. ASSUME NEW q \in Rank, OpenGlobal(q) PROVE FALSE
  BY Zenon, <1>8 DEF OpenGlobal, Go, OpenTypes
<1>9. ASSUME NEW q \in Rank, Bcast(q) PROVE FALSE
  BY Zenon, <1>9 DEF Bcast, Go, OpenTypes
<1>10. ASSUME NEW q \in Rank, Close(q) PROVE FALSE
  BY Zenon, <1>10 DEF Close, Go, OpenTypes
<1>11. ASSUME NEW q \in Rank, CloseCacheOf(q) PROVE FALSE
  BY Zenon, <1>11 DEF CloseCacheOf, Go, OpenTypes
<1>12. ASSUME NEW q \in Rank, CloseGlobalOf(q) PROVE FALSE
  BY Zenon, <1>12 DEF CloseGlobalOf, Go, OpenTypes
<1>13. CASE SameAmode
  BY Zenon, <1>13 DEF SameAmode, AllAt, OpenTypes
<1>14. CASE Agree
  BY Zenon, <1>14 DEF Agree, AllAt, OpenTypes
<1>15. CASE CreateRoot
  BY Zenon, <1>15, RootFacts DEF CreateRoot, Go, OpenTypes
<1>16. CASE Final
  BY Zenon, <1>16 DEF Final, AllAt, OpenTypes
<1>17. CASE ClosingBarrier
  BY Zenon, <1>17 DEF ClosingBarrier, AllAt, OpenTypes
<1>18. CASE UNCHANGED vars
  BY Zenon, <1>18 DEF vars
<1> QED
  BY Zenon, <1>1, <1>2, <1>3, <1>4, <1>5, <1>6, <1>7, <1>8, <1>9, <1>10,
     <1>11, <1>12, <1>13, <1>14, <1>15, <1>16, <1>17, <1>18
  DEF Next, OpenStep, CloseStep, Collective

(***************************************************************************)
(* When a close with ADIO_DELETE_ON_CLOSE returns, on whichever process,   *)
(* the root has removed the file (ad_close.c).                             *)
(***************************************************************************)
THEOREM DeletedOnReturn == Spec => DeletedAfterClose
<1>1. Init => OpenTypes /\ DeleteInv
  BY Zenon, TypesInit, RootFacts DEF Init, DeleteInv
<1>2. OpenTypes /\ DeleteInv /\ [Next]_vars => (OpenTypes /\ DeleteInv)'
  BY Zenon, TypesNext, DeleteNext
<1>3. OpenTypes /\ DeleteInv /\ [Next]_vars
        => [\A p \in Rank :
              at[p] \in {"close_global", "deleted"} /\ at'[p] = "closed" /\ "delete" \in mode[p]
                => path' = 0]_vars
  <2> SUFFICES ASSUME OpenTypes, DeleteInv, [Next]_vars, NEW p \in Rank,
                      at[p] \in {"close_global", "deleted"}, at'[p] = "closed",
                      "delete" \in mode[p]
               PROVE  path' = 0
    BY Zenon
  <2>1. DeletedBarrier
    BY Zenon, ReturnsFromBarrier
  <2> QED BY Zenon, <2>1, RootFacts DEF DeletedBarrier, AllAt, DeleteInv, globalVars
<1> QED BY <1>1, <1>2, <1>3, PTL DEF Spec, DeletedAfterClose
===============================================================================
