------------------------------- MODULE MpiWrap --------------------------------
(***************************************************************************)
(* MPIWRAP (src/mpiwrap/mpiwrap.cpp) in one process: the wrapped open,     *)
(* close and finalize.                                                     *)
(*                                                                         *)
(* So that cached data is synchronised while the application computes, a   *)
(* close is put off: the handles of an I/O cycle stay open until the next  *)
(* file with a guard name, which starts a cycle, is opened, or until       *)
(* MPI_Finalize.  ofiles_ lists them.  Handles are numbered as they are    *)
(* opened.                                                                 *)
(***************************************************************************)
EXTENDS Integers, Sequences, Functions

CONSTANTS
    Files,       \* the files the application uses
    Guards,      \* those whose base name begins with a guard name
    Paths,       \* the paths of the configuration, in the order of the map
    DirOf,       \* the directory of a file, or "none" for a bare name
    Begins,      \* <<p, f>>: the name of f begins with p
    Names,       \* <<p, f>>: p is the name of f
    MaxHandles,  \* bound: successful opens
    MaxFailures, \* bound: opens that fail
    Disciplined  \* the application opens a guard file with no other file open

ASSUME MpiWrapAssumption ==
    /\ Guards \subseteq Files
    /\ Names \subseteq Begins

VARIABLES
    ofiles,  \* ofiles_
    handles, \* what was opened: [file, cycle, hints]
    using,   \* the handles the application has open
    real,    \* the handles that are open below MPIWRAP
    dirty,   \* the handles with data in the cache only
    cycle,   \* guard files opened so far
    misused, \* history: handles closed or written below MPIWRAP when not open
    stale,   \* history: files opened with data of an older handle missing
    fails, finalised

vars == <<ofiles, handles, using, real, dirty, cycle, misused, stale, fails, finalised>>

TypeOK ==
    /\ ofiles \in Seq(1 .. Len(handles))
    /\ handles \in Seq([file : Files, cycle : Nat, hints : Range(Paths) \cup {"none"}])
    /\ using \subseteq 1 .. Len(handles) /\ real \subseteq 1 .. Len(handles)
    /\ dirty \subseteq 1 .. Len(handles) /\ misused \subseteq 1 .. Len(handles)
    /\ stale \subseteq Files
    /\ cycle \in Nat /\ fails \in 0 .. MaxFailures /\ finalised \in BOOLEAN

Init ==
    /\ ofiles = << >> /\ handles = << >> /\ using = {} /\ real = {} /\ dirty = {}
    /\ cycle = 0 /\ misused = {} /\ stale = {} /\ fails = 0 /\ finalised = FALSE

\* The comparison of the base name with the guard names, up to their length.
IsGuard(f) == f \in Guards

\* setFileHints: the hints of the directory, else of the name, else of the first
\* path that begins it.  dirname() has cut the copy of the name that the second
\* lookup uses, unless the name has no directory.
HintsFor(f) ==
    LET named == {p \in Range(Paths) : <<p, f>> \in Names}
        first == SelectSeq(Paths, LAMBDA p : <<p, f>> \in Begins)
    IN IF DirOf[f] \in Range(Paths) THEN DirOf[f]
       ELSE IF DirOf[f] = "none" /\ named # {} THEN CHOOSE p \in named : TRUE
       ELSE IF first # << >> THEN first[1] ELSE "none"

\* The handles MPI_File_open closes before it opens f.
ClosedFor(f) == IF IsGuard(f) THEN Range(ofiles) ELSE {}

\* A handle is listed if its file is a guard file or belongs to a cycle.
Listed(f, ok, list) == ok /\ (IsGuard(f) \/ list # << >>)

\* PMPI_File_close flushes the cache.
ReallyClose(S) ==
    /\ real' = real \ S /\ dirty' = dirty \ S
    /\ misused' = misused \cup (S \ real)

\* MPI_File_open, with what PMPI_File_open answers.
Open(f, ok) ==
    LET closed == ClosedFor(f)
        list == IF IsGuard(f) THEN << >> ELSE ofiles
        h == Len(handles) + 1
    IN /\ ~finalised
       /\ IF ok THEN Len(handles) < MaxHandles ELSE fails < MaxFailures
       /\ Disciplined /\ f \in Guards => using = {}
       /\ dirty' = dirty \ closed
       /\ misused' = misused \cup (closed \ real)
       /\ real' = (real \ closed) \cup (IF ok THEN {h} ELSE {})
       /\ using' = using \cup (IF ok THEN {h} ELSE {})
       /\ cycle' = IF IsGuard(f) THEN cycle + 1 ELSE cycle
       /\ handles' = IF ok THEN Append(handles, [file |-> f, cycle |-> cycle',
                                                 hints |-> HintsFor(f)])
                     ELSE handles
       /\ ofiles' = IF Listed(f, ok, list) THEN Append(list, h) ELSE list
       /\ stale' = IF ok /\ \E g \in dirty' : handles[g].file = f
                   THEN stale \cup {f} ELSE stale
       /\ fails' = IF ok THEN fails ELSE fails + 1
       /\ UNCHANGED finalised

\* Mutant: a close is never put off.
NeverDeferred == FALSE
\* MPI_File_close does nothing while handles are listed.
Deferred == ofiles # << >>

Close(h) ==
    /\ h \in using /\ using' = using \ {h}
    /\ IF Deferred THEN UNCHANGED <<real, dirty, misused>> ELSE ReallyClose({h})
    /\ UNCHANGED <<ofiles, handles, cycle, stale, fails, finalised>>

\* MPI_File_write_all, into the cache.
Write(h) ==
    /\ h \in using
    /\ dirty' = IF h \in real THEN dirty \cup {h} ELSE dirty
    /\ misused' = misused \cup ({h} \ real)
    /\ UNCHANGED <<ofiles, handles, using, real, cycle, stale, fails, finalised>>

\* The sync threads of a handle bring its data to the global file.
Synchronise(h) ==
    /\ h \in dirty \cap real /\ dirty' = dirty \ {h}
    /\ UNCHANGED <<ofiles, handles, using, real, cycle, misused, stale, fails, finalised>>

\* Mutant: the files still open are forgotten.
ForgetAll == {}
\* MPI_Finalize closes the listed handles.
ClosedAtEnd == Range(ofiles)

\* The application must have closed its files.
Finalize ==
    /\ ~finalised /\ using = {}
    /\ ReallyClose(ClosedAtEnd) /\ ofiles' = << >> /\ finalised' = TRUE
    /\ UNCHANGED <<handles, using, cycle, stale, fails>>

Next ==
    \/ \E f \in Files, ok \in BOOLEAN : Open(f, ok)
    \/ \E h \in 1 .. Len(handles) : Close(h) \/ Write(h) \/ Synchronise(h)
    \/ Finalize

Spec == Init /\ [][Next]_vars

(***************************************************************************)
(* Properties                                                              *)
(***************************************************************************)

\* No handle is closed twice, and none is closed under an application that still
\* writes to it: what MPI_File_open and MPI_Finalize find in ofiles_ is open, and
\* has been closed by the application (mpiwrap.cpp:446, 541).
NoMisuse == misused = {} /\ using \subseteq real

\* After MPI_Finalize every handle is closed and no data is left in a cache,
\* although the application's closes did nothing (mpiwrap.cpp:363).
AllSynced == finalised => real = {} /\ dirty = {}

\* The handles whose close was put off are those of the last cycle: their number
\* does not grow with the cycles (mpiwrap.cpp:446).
OneCycle ==
    \A h \in real \ using : handles[h].cycle = cycle

\* A guard file that is opened again shows what was written to it in earlier
\* cycles: their handles are closed first (mpiwrap.cpp:441).
GuardsReadBack == stale \cap Guards = {}

\* A file with an entry of its own in the configuration gets those hints, unless
\* its directory has an entry (comment at mpiwrap.cpp:297).
NamedHints ==
    \A i \in DOMAIN handles :
        LET f == handles[i].file
        IN DirOf[f] \notin Range(Paths) /\ (\E p \in Range(Paths) : <<p, f>> \in Names)
               => <<handles[i].hints, f>> \in Names
=============================================================================
