---------------------------- MODULE MpiWrapProofs -----------------------------
(***************************************************************************)
(* Deferring the closes is safe for an application that opens a guard file *)
(* only when it has no other file open, whatever the files, the guard      *)
(* names and the number of cycles.                                         *)
(***************************************************************************)
EXTENDS MpiWrap, SequenceTheorems, TLAPS

(* What is opened: the hints depend on the file only.                      *)
Handle == {[file |-> f, cycle |-> c, hints |-> HintsFor(f)] : f \in Files, c \in Nat}

HandleInv ==
  /\ handles \in Seq(Handle) /\ cycle \in Nat
  /\ ofiles \in Seq(1 .. Len(handles))
  /\ real \subseteq 1 .. Len(handles)

(* Outside a cycle a handle is open exactly as long as the application has *)
(* it open; in a cycle, the open handles are the listed ones, all of them  *)
(* opened in this cycle.                                                   *)
CycleInv ==
  /\ using \subseteq real
  /\ ofiles = << >> => real = using
  /\ ofiles # << >> => real = Range(ofiles) /\ \A h \in real : handles[h].cycle = cycle
  /\ finalised => ofiles = << >> /\ using = {}

WrapInv ==
  /\ HandleInv /\ CycleInv
  /\ dirty \subseteq real /\ misused = {} /\ stale \cap Guards = {}

LEMMA NoElements == \A S : << >> \in Seq(S)
OBVIOUS

LEMMA WiderSeq ==
  ASSUME NEW S, NEW T, S \subseteq T, NEW s \in Seq(S)
  PROVE  s \in Seq(T)
OBVIOUS

LEMMA WrapInit == Init => WrapInv
<1> SUFFICES ASSUME Init PROVE WrapInv
  OBVIOUS
<1>1. HandleInv
  BY NoElements DEF Init, HandleInv
<1>2. CycleInv /\ dirty \subseteq real /\ misused = {} /\ stale \cap Guards = {}
  BY DEF Init, CycleInv
<1> QED BY <1>1, <1>2 DEF WrapInv

LEMMA RangeFacts ==
  ASSUME NEW S, NEW s \in Seq(S), NEW x
  PROVE  /\ Range(s) \subseteq S /\ (s = << >> => Range(s) = {})
         /\ Range(Append(s, x)) = Range(s) \cup {x}
<1>1. /\ DOMAIN s = 1 .. Len(s) /\ Len(s) \in Nat
      /\ DOMAIN Append(s, x) = 1 .. Len(s) + 1
      /\ \A i \in 1 .. Len(s) : Append(s, x)[i] = s[i]
      /\ Append(s, x)[Len(s) + 1] = x
  OBVIOUS
<1>2. Range(s) \subseteq S /\ (s = << >> => Range(s) = {})
  BY DEF Range
<1>3. Range(Append(s, x)) \subseteq Range(s) \cup {x}
  <2> SUFFICES ASSUME NEW i \in 1 .. Len(s) + 1
               PROVE  Append(s, x)[i] \in Range(s) \cup {x}
    BY <1>1 DEF Range
  <2>1. i \in 1 .. Len(s) \/ i = Len(s) + 1
    BY <1>1
  <2> QED BY <1>1, <2>1 DEF Range
<1>4. Range(s) \cup {x} \subseteq Range(Append(s, x))
  <2>1. Len(s) + 1 \in 1 .. Len(s) + 1 /\ \A i \in 1 .. Len(s) : i \in 1 .. Len(s) + 1
    BY <1>1
  <2> QED BY <1>1, <2>1 DEF Range
<1> QED BY <1>2, <1>3, <1>4

(* The list and the real handles that MPI_File_open leaves before it opens *)
(* the file: none at all when it is a guard file.                          *)
LEMMA Closing ==
  ASSUME Disciplined, WrapInv, NEW f \in Files, NEW ok \in BOOLEAN, Open(f, ok)
  PROVE  /\ ClosedFor(f) \subseteq real
         /\ f \in Guards => using = {} /\ real \ ClosedFor(f) = {} /\ dirty' = {}
         /\ f \notin Guards => ClosedFor(f) = {}
<1>1. Range(ofiles) \subseteq real
  BY RangeFacts DEF WrapInv, HandleInv, CycleInv
<1>2. ASSUME f \in Guards PROVE using = {} /\ real \ ClosedFor(f) = {}
  BY <1>2 DEF Open, WrapInv, CycleInv, ClosedFor, IsGuard
<1>3. ASSUME f \in Guards PROVE dirty' = {}
  BY <1>2, <1>3 DEF Open, WrapInv
<1> QED BY <1>1, <1>2, <1>3 DEF ClosedFor, IsGuard

(* The open itself, successful.                                            *)
LEMMA OpenHandle ==
  ASSUME Disciplined, WrapInv, NEW f \in Files, Open(f, TRUE)
  PROVE  /\ Len(handles') = Len(handles) + 1 /\ handles' \in Seq(Handle)
         /\ cycle' \in Nat /\ (f \notin Guards => cycle' = cycle)
         /\ handles'[Len(handles) + 1].cycle = cycle'
         /\ \A h \in 1 .. Len(handles) : handles'[h] = handles[h]
<1>1. cycle' \in Nat /\ (f \notin Guards => cycle' = cycle)
  BY DEF Open, WrapInv, HandleInv, IsGuard
<1> DEFINE H == [file |-> f, cycle |-> cycle', hints |-> HintsFor(f)]
<1>2. H \in Handle /\ H.cycle = cycle'
  BY <1>1 DEF Handle
<1>3. handles' = Append(handles, H) /\ handles \in Seq(Handle)
  BY DEF Open, WrapInv, HandleInv
<1> HIDE DEF H
<1> QED BY <1>1, <1>2, <1>3

LEMMA OpenOk ==
  ASSUME Disciplined, WrapInv, NEW f \in Files, Open(f, TRUE)
  PROVE  WrapInv'
<1> DEFINE h == Len(handles) + 1
           list == IF f \in Guards THEN << >> ELSE ofiles
<1>1. /\ Len(handles') = h /\ handles' \in Seq(Handle)
      /\ cycle' \in Nat /\ (f \notin Guards => cycle' = cycle)
      /\ handles'[h].cycle = cycle'
      /\ \A g \in 1 .. Len(handles) : handles'[g] = handles[g]
  BY Zenon, OpenHandle
<1>2. /\ ClosedFor(f) \subseteq real
      /\ f \in Guards => using = {} /\ real \ ClosedFor(f) = {} /\ dirty' = {}
      /\ f \notin Guards => ClosedFor(f) = {}
  BY Zenon, Closing
<1>3. /\ real' = (real \ ClosedFor(f)) \cup {h} /\ using' = using \cup {h}
      /\ dirty' = dirty \ ClosedFor(f) /\ misused' = misused \cup (ClosedFor(f) \ real)
      /\ ofiles' = (IF f \in Guards \/ list # << >> THEN Append(list, h) ELSE list)
      /\ ~ finalised /\ finalised' = finalised
      /\ f \notin Guards \/ dirty' # {} => stale' \subseteq stale \cup {f}
      /\ f \in Guards /\ dirty' = {} => stale' = stale
  BY DEF Open, Listed, IsGuard
<1>4. Len(handles) \in Nat /\ h \in 1 .. h /\ \A g \in 1 .. Len(handles) : g \in 1 .. h
  BY DEF WrapInv, HandleInv
<1>5. list \in Seq(1 .. Len(handles)) /\ list \in Seq(1 .. h)
  <2>1. list \in Seq(1 .. Len(handles))
    BY Zenon, NoElements DEF WrapInv, HandleInv
  <2>2. 1 .. Len(handles) \subseteq 1 .. h
    BY <1>4
  <2> QED BY <2>1, <2>2, WiderSeq
<1> HIDE DEF list
<1>a. Append(list, h) \in Seq(1 .. h) /\ Append(list, h) # << >>
  BY <1>4, <1>5, AppendProperties
<1>b. Range(Append(list, h)) = Range(list) \cup {h} /\ (list = << >> => Range(list) = {})
  BY <1>5, RangeFacts
<1>6. HandleInv'
  <2>1. ofiles' \in Seq(1 .. h)
    BY Zenon, <1>3, <1>5, <1>a
  <2>2. real' \subseteq 1 .. h
    BY Zenon, <1>3, <1>4 DEF WrapInv, HandleInv
  <2> QED BY <1>1, <2>1, <2>2 DEF HandleInv
<1>7. using' \subseteq real'
  BY <1>2, <1>3 DEF WrapInv, CycleInv
<1>8. CycleInv'
  <2>1. CASE f \in Guards
    <3>1. real' = {h} /\ list = << >> /\ ofiles' = Append(list, h)
      BY <1>2, <1>3, <2>1 DEF list
    <3>2. Range(ofiles') = {h} /\ ofiles' # << >>
      BY <1>a, <1>b, <3>1
    <3> QED BY <1>1, <1>3, <1>7, <3>1, <3>2 DEF CycleInv
  <2>2. CASE f \notin Guards /\ ofiles = << >>
    BY <1>2, <1>3, <1>7, <2>2 DEF WrapInv, CycleInv, list
  <2>3. CASE f \notin Guards /\ ofiles # << >>
    <3>1. real' = real \cup {h} /\ list = ofiles /\ ofiles' = Append(list, h)
      BY <1>2, <1>3, <2>3 DEF list
    <3>2. Range(ofiles') = real' /\ ofiles' # << >>
      BY <1>a, <1>b, <2>3, <3>1 DEF WrapInv, CycleInv
    <3>3. \A g \in real' : handles'[g].cycle = cycle'
      BY Zenon, <1>1, <2>3, <3>1 DEF WrapInv, HandleInv, CycleInv
    <3> QED BY <1>3, <1>7, <3>1, <3>2, <3>3 DEF CycleInv
  <2> QED BY <2>1, <2>2, <2>3
<1>9. dirty' \subseteq real' /\ misused' = {} /\ (stale \cap Guards)' = {}
  BY <1>2, <1>3 DEF WrapInv
<1> QED BY <1>6, <1>8, <1>9 DEF WrapInv

(* An open that fails has closed the last cycle all the same.              *)
LEMMA OpenFails ==
  ASSUME Disciplined, WrapInv, NEW f \in Files, Open(f, FALSE)
  PROVE  WrapInv'
<1>1. /\ ClosedFor(f) \subseteq real
      /\ f \in Guards => using = {} /\ real \ ClosedFor(f) = {} /\ dirty' = {}
      /\ f \notin Guards => ClosedFor(f) = {}
  BY Zenon, Closing
<1>2. /\ real' = real \ ClosedFor(f) /\ using' = using /\ handles' = handles
      /\ dirty' = dirty \ ClosedFor(f) /\ misused' = misused \cup (ClosedFor(f) \ real)
      /\ ofiles' = (IF f \in Guards THEN << >> ELSE ofiles) /\ stale' = stale
      /\ cycle' = (IF f \in Guards THEN cycle + 1 ELSE cycle)
      /\ ~ finalised /\ finalised' = finalised
  BY DEF Open, Listed, IsGuard
<1>3. HandleInv'
  <2>1. ofiles' \in Seq(1 .. Len(handles))
    BY Zenon, <1>2, NoElements DEF WrapInv, HandleInv
  <2>2. handles \in Seq(Handle) /\ cycle \in Nat /\ real \subseteq 1 .. Len(handles)
    BY DEF WrapInv, HandleInv
  <2>3. cycle' \in Nat
    BY <1>2, <2>2
  <2> QED BY Zenon, <1>2, <2>1, <2>2, <2>3 DEF HandleInv
<1>4. CycleInv'
  <2>1. CASE f \in Guards
    BY <1>1, <1>2, <2>1 DEF CycleInv
  <2>2. CASE f \notin Guards
    BY <1>1, <1>2, <2>2 DEF WrapInv, CycleInv
  <2> QED BY <2>1, <2>2
<1> QED BY <1>1, <1>2, <1>3, <1>4 DEF WrapInv

LEMMA CloseStep ==
  ASSUME WrapInv, NEW h \in 1 .. Len(handles), Close(h)
  PROVE  WrapInv'
<1>0. h \in using /\ using' = using \ {h}
      /\ UNCHANGED <<ofiles, handles, cycle, stale, finalised>>
  BY DEF Close
<1>1. h \in real /\ ~ finalised
  BY <1>0 DEF WrapInv, CycleInv
<1>2. CASE ofiles = << >>
  <2>1. real' = real \ {h} /\ dirty' = dirty \ {h} /\ misused' = misused \cup ({h} \ real)
    BY <1>2 DEF Close, Deferred, ReallyClose
  <2> QED BY <1>0, <1>1, <1>2, <2>1 DEF WrapInv, HandleInv, CycleInv
<1>3. CASE ofiles # << >>
  <2>1. UNCHANGED <<real, dirty, misused>>
    BY <1>3 DEF Close, Deferred
  <2> QED BY <1>0, <1>1, <1>3, <2>1 DEF WrapInv, HandleInv, CycleInv
<1> QED BY <1>2, <1>3

LEMMA DataSteps ==
  ASSUME WrapInv, NEW h \in 1 .. Len(handles), Write(h) \/ Synchronise(h)
  PROVE  WrapInv'
<1>1. CASE Write(h)
  <2>1. h \in real
    BY <1>1 DEF Write, WrapInv, CycleInv
  <2> QED BY <1>1, <2>1 DEF Write, WrapInv, HandleInv, CycleInv
<1>2. CASE Synchronise(h)
  BY <1>2 DEF Synchronise, WrapInv, HandleInv, CycleInv
<1> QED BY <1>1, <1>2

LEMMA FinalizeStep == ASSUME WrapInv, Finalize PROVE WrapInv' /\ real' = {}
<1>1. Range(ofiles) \subseteq real /\ real \ Range(ofiles) = {} /\ using = {}
  BY Zenon, RangeFacts DEF Finalize, WrapInv, HandleInv, CycleInv
<1>2. /\ real' = real \ Range(ofiles) /\ dirty' = dirty \ Range(ofiles)
      /\ misused' = misused \cup (Range(ofiles) \ real)
      /\ ofiles' = << >> /\ UNCHANGED <<handles, using, cycle, stale>>
  BY DEF Finalize, ReallyClose, ClosedAtEnd
<1>3. HandleInv'
  BY Zenon, <1>2, NoElements DEF WrapInv, HandleInv
<1> QED BY <1>1, <1>2, <1>3 DEF WrapInv, CycleInv

LEMMA WrapNext == ASSUME Disciplined, WrapInv, [Next]_vars PROVE WrapInv'
<1>1. CASE Next
  <2>1. ASSUME NEW f \in Files, NEW ok \in BOOLEAN, Open(f, ok) PROVE WrapInv'
    BY Zenon, <2>1, OpenOk, OpenFails
  <2> QED BY <1>1, <2>1, CloseStep, DataSteps, FinalizeStep DEF Next
<1>2. CASE UNCHANGED vars
  BY <1>2 DEF vars, WrapInv, HandleInv, CycleInv
<1> QED BY <1>1, <1>2

LEMMA WrapCorrect == ASSUME Disciplined PROVE Spec => []WrapInv
<1>1. WrapInv /\ [Next]_vars => WrapInv'
  BY WrapNext
<1> QED BY WrapInit, <1>1, PTL DEF Spec

(* With a disciplined application MPIWRAP closes no handle twice, and none *)
(* that the application still has open, over any number of cycles.         *)
THEOREM DeferredCloseSafe == ASSUME Disciplined PROVE Spec => []NoMisuse
<1>1. WrapInv => NoMisuse
  BY DEF WrapInv, CycleInv, NoMisuse
<1> QED BY <1>1, WrapCorrect, PTL

(* The closes that did nothing are made up for: after MPI_Finalize no      *)
(* handle is open and no cache holds data.                                 *)
THEOREM FinalizeSyncs == ASSUME Disciplined PROVE Spec => []AllSynced
<1>1. WrapInv => AllSynced
  BY DEF WrapInv, CycleInv, AllSynced
<1> QED BY <1>1, WrapCorrect, PTL

(* The handles whose close was put off belong to the last cycle, so that   *)
(* their number does not grow with the number of cycles.                   *)
THEOREM LastCycleOnly == ASSUME Disciplined PROVE Spec => []OneCycle
<1>1. WrapInv => OneCycle
  BY DEF WrapInv, CycleInv, OneCycle
<1> QED BY <1>1, WrapCorrect, PTL

(* A guard file opened again shows what earlier cycles wrote to it.        *)
THEOREM CyclesReadBack == ASSUME Disciplined PROVE Spec => []GuardsReadBack
<1>1. WrapInv => GuardsReadBack
  BY DEF WrapInv, GuardsReadBack
<1> QED BY <1>1, WrapCorrect, PTL
===============================================================================
