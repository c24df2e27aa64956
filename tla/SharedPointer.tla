---------------------------- MODULE SharedPointer ----------------------------
(***************************************************************************)
(* The shared file pointer of an MPI file.                                 *)
(*                                                                         *)
(* The pointer is a number kept in a hidden file next to the real one      *)
(* (mpi-io/glue: shared_fp_fname).  Every rank opens that file by name the *)
(* first time it needs the pointer, takes a lock on it, reads the number,  *)
(* writes it back advanced, and drops the lock                             *)
(* (adio/common/ad_get_sh_fp.c, ad_set_sh_fp.c).  MPI_File_write_shared    *)
(* and read_shared do just that; write_ordered and read_ordered pass a     *)
(* token from rank to rank around it; seek_shared lets rank 0 overwrite    *)
(* the pointer and ends in a barrier; MPI_File_close ends the pointer      *)
(* file's life after a barrier.                                            *)
(*                                                                         *)
(* A rank's program is a sequence of collective calls, the same on every   *)
(* rank (prog), with independent accesses in between.  Offsets and counts  *)
(* are in etypes.  The transfer of the data itself is not in this module:  *)
(* what matters here is which region of the file a call is given.          *)
(***************************************************************************)
EXTENDS Integers, Sequences, FiniteSets

CONSTANTS
    NP,         \* ranks of the file's communicator
    Counts,     \* numbers of etypes an access may ask for
    Offsets,    \* offsets a seek may be called with
    cb_write,   \* the hints romio_cb_write and romio_cb_read
    cb_read,    \*   are not "disable"
    OrderedCalls, \* bound: the ordered calls a program may make
    MaxColl,    \* bound: collective calls of a program, the close included
    MaxShared,  \* bound: independent accesses of one rank
    MaxFaults   \* bound: failed opens, reads and writes of the pointer file

Ordered == {"write_ordered", "write_ordered_begin", "read_ordered", "read_ordered_begin"}
Writes == {"write_ordered", "write_ordered_begin"}
Begins == {"write_ordered_begin", "read_ordered_begin"}

ASSUME SharedPointerAssumption ==
    /\ NP \in Nat \ {0}
    /\ Counts \subseteq Nat
    /\ Offsets \subseteq Int /\ cb_write \in BOOLEAN /\ cb_read \in BOOLEAN
    /\ OrderedCalls \subseteq Ordered
    /\ MaxColl \in Nat \ {0} /\ MaxShared \in Nat /\ MaxFaults \in Nat

VARIABLES
    prog,    \* the collective calls, as far as some rank has got
    pos,     \* pos[p]: collective calls rank p has entered
    pc,      \* where rank p is inside its call
    call,    \* the call rank p is in
    fp,      \* shared_fp, curr_offset: the local copy of the pointer
    sfd,     \* fd->shared_fp_fd: the file rank p has open, or NULL
    split,   \* fd->split_coll_count
    name,    \* the file the pointer file's name stands for, or NULL
    val,     \* the content of the pointer file (an empty file reads as 0)
    lock,    \* the holder of the lock on the pointer file, or NULL
    token,   \* zero-byte messages on their way to rank p
    bar,     \* barriers rank p has entered
    shared,  \* independent accesses rank p has made
    faults,  \* failures so far
    claims,  \* history: the regions handed out
    gen,     \* history: how often the pointer has been set by a seek
    base,    \* history: the value the last seek gave it
    lost     \* history: a failed first read made a rank restart from 0

vars == <<prog, pos, pc, call, fp, sfd, split, name, val, lock, token, bar,
          shared, faults, claims, gen, base, lost>>

NULL == -1
Rank == 0 .. NP - 1
Last0 == NP - 1

\* The file a name may stand for: one per open that finds no file.
FileId == 1 .. NP

\* The calls whose transfer gathers the offsets of all ranks: those whose collective
\* buffering is not disabled (automatic, the default, and enable gather).
Gathering ==
    {o \in Ordered : IF o \in Writes THEN cb_write ELSE cb_read}

Collective ==
       [op : Ordered] \cup [op : {"ordered_end", "close"}]
  \cup [op : {"seek_shared"}, whence : {"SET", "CUR"}, offset : Offsets]
Idle == [op |-> "none"]

Init ==
    /\ prog = << >>
    /\ pos = [p \in Rank |-> 0]
    /\ pc = [p \in Rank |-> "idle"]
    /\ call = [p \in Rank |-> Idle]
    /\ fp = [p \in Rank |-> 0]
    /\ sfd = [p \in Rank |-> NULL]
    /\ split = [p \in Rank |-> 0]
    /\ name = NULL
    /\ val = [f \in FileId |-> 0]
    /\ lock = [f \in FileId |-> NULL]
    /\ token = [p \in Rank |-> 0]
    /\ bar = [p \in Rank |-> 0]
    /\ shared = [p \in Rank |-> 0]
    /\ faults = 0
    /\ claims = {}
    /\ gen = 0
    /\ base = 0
    /\ lost = FALSE

Goto(p, l) == pc' = [pc EXCEPT ![p] = l]

\* The call returns to the application.
Return(p) ==
    /\ Goto(p, "idle")
    /\ call' = [call EXCEPT ![p] = Idle]

\* What the calls wait for and check, each with the slip a mutant makes of it.
AllEntered(p) == \A q \in Rank : bar[q] >= bar[p]

NoWait(p) == TRUE
SeekSynced(p) == AllEntered(p)
CollGathered(p) == call[p].op \in Gathering => AllEntered(p)
CloseSynced(p) == AllEntered(p)
TokenHere(p) == p # 0 => token[p] > 0
LockFree(p) == lock[sfd[p]] = NULL

BadOffset(o) == o < 0

\* MPI_Send of the token; the last rank sends to MPI_PROC_NULL.
KeepToken(p) == token' = token
PassToken(p) ==
    token' = IF p = Last0 THEN token ELSE [token EXCEPT ![p + 1] = @ + 1]

\* ADIO_Close of the pointer file, opened with ADIO_DELETE_ON_CLOSE.
RemoveName(p) == name' = IF sfd[p] # NULL THEN NULL ELSE name

(***************************************************************************)
(* Entering a call                                                         *)
(***************************************************************************)

\* Every rank makes the same collective calls in the same order; the last one
\* within the bound is the close.
NextCollective(p, c) ==
    /\ pc[p] = "idle"
    /\ \/ pos[p] < Len(prog) /\ prog[pos[p] + 1] = c /\ prog' = prog
       \/ /\ pos[p] = Len(prog) /\ Len(prog) < MaxColl
          /\ Len(prog) = MaxColl - 1 => c.op = "close"
          /\ prog' = Append(prog, c)
    /\ pos' = [pos EXCEPT ![p] = @ + 1]

\* MPI_File_write_shared, MPI_File_read_shared: an access of no data returns at
\* once, any other claims its region through ADIO_Get_shared_fp.
SharedAccess(p) ==
    /\ pc[p] = "idle"
    /\ shared[p] < MaxShared
    /\ shared' = [shared EXCEPT ![p] = @ + 1]
    /\ \E n \in Counts :
          IF n = 0 THEN UNCHANGED <<pc, call>>
          ELSE /\ Goto(p, "get")
               /\ call' = [call EXCEPT ![p] = [op |-> "shared", incr |-> n]]
    /\ UNCHANGED <<prog, pos, fp, sfd, split, name, val, lock, token, bar,
                   faults, claims, gen, base, lost>>

\* MPI_File_write_ordered, read_ordered and their begins up to the token: a begin
\* while a split collective is active is refused, a begin that is not marks the
\* file; there is no shortcut for an access of no data.
OrderedEnter(p) ==
    /\ \E o \in OrderedCalls, n \in Counts :
          /\ NextCollective(p, [op |-> o])
          /\ IF o \in Begins /\ split[p] # 0
             THEN UNCHANGED <<pc, call, split>>
             ELSE /\ split' = [split EXCEPT ![p] =
                                 IF o \in Begins THEN 1 ELSE @]
                  /\ Goto(p, "recv")
                  /\ call' = [call EXCEPT ![p] = [op |-> o, incr |-> n]]
    /\ UNCHANGED <<fp, sfd, name, val, lock, token, bar, shared, faults,
                   claims, gen, base, lost>>

\* MPI_File_write_ordered_end, read_ordered_end: an error when no split collective
\* is active, which changes nothing.
OrderedEnd(p) ==
    /\ NextCollective(p, [op |-> "ordered_end"])
    /\ split' = [split EXCEPT ![p] = 0]
    /\ UNCHANGED <<pc, call, fp, sfd, name, val, lock, token, bar, shared,
                   faults, claims, gen, base, lost>>

\* MPI_File_seek_shared: the broadcasts of offset and whence make the others
\* wait for rank 0 (and rank 0 for nobody); then only rank 0 computes and sets
\* the pointer, and the others go on to the barrier.
SeekEnter(p) ==
    /\ \E w \in {"SET", "CUR"}, o \in Offsets :
          /\ NextCollective(p, [op |-> "seek_shared", whence |-> w, offset |-> o])
          /\ p # 0 => pos[0] > pos[p]
          /\ IF p # 0
             THEN /\ Goto(p, "barrier")
                  /\ bar' = [bar EXCEPT ![p] = @ + 1]
                  /\ call' = [call EXCEPT ![p] = [op |-> "seek_shared", incr |-> 0]]
             ELSE /\ Goto(p, IF w = "CUR" THEN "get"
                             ELSE IF BadOffset(o) THEN "failed" ELSE "set")
                  /\ call' = [call EXCEPT ![p] =
                       [op |-> "seek_shared", incr |-> 0, offset |-> o]]
                  /\ bar' = bar
    /\ UNCHANGED <<fp, sfd, split, name, val, lock, token, shared, faults,
                   claims, gen, base, lost>>

\* MPI_File_close up to its barrier.
CloseEnter(p) ==
    /\ NextCollective(p, [op |-> "close"])
    /\ Goto(p, "barrier")
    /\ bar' = [bar EXCEPT ![p] = @ + 1]
    /\ call' = [call EXCEPT ![p] = [op |-> "close", incr |-> 0]]
    /\ UNCHANGED <<fp, sfd, split, name, val, lock, token, shared, faults,
                   claims, gen, base, lost>>

(***************************************************************************)
(* ADIO_Get_shared_fp and ADIO_Set_shared_fp                               *)
(***************************************************************************)

\* The first use opens the pointer file by its name, creating it when there is
\* none (ADIO_CREATE); fcntl locks then serialise the ranks.
OpenPointer(p) ==
    /\ sfd[p] = NULL
    /\ LET f == IF name # NULL THEN name
                ELSE CHOOSE g \in FileId : \A q \in Rank : sfd[q] # g
       IN /\ sfd' = [sfd EXCEPT ![p] = f]
          /\ name' = f
          /\ val' = IF name # NULL THEN val ELSE [val EXCEPT ![f] = 0]

GetOpen(p) ==
    /\ pc[p] = "get"
    /\ OpenPointer(p)
    /\ Goto(p, "lockfirst")
    /\ UNCHANGED <<prog, pos, call, fp, split, lock, token, bar, shared, faults,
                   claims, gen, base, lost>>

\* ADIOI_WRITE_LOCK blocks until the lock is free.
GetLock(p) ==
    /\ \/ pc[p] = "get" /\ sfd[p] # NULL /\ Goto(p, "read")
       \/ pc[p] = "lockfirst" /\ Goto(p, "readfirst")
    /\ LockFree(p)
    /\ lock' = [lock EXCEPT ![sfd[p]] = p]
    /\ UNCHANGED <<prog, pos, call, fp, sfd, split, name, val, token, bar,
                   shared, faults, claims, gen, base, lost>>

\* An increment of 0 (a seek from the current position) writes nothing.
GetRead(p) ==
    /\ pc[p] \in {"read", "readfirst"}
    /\ fp' = [fp EXCEPT ![p] = val[sfd[p]]]
    /\ Goto(p, IF call[p].incr = 0 THEN "unlock" ELSE "write")
    /\ UNCHANGED <<prog, pos, call, sfd, split, name, val, lock, token, bar,
                   shared, faults, claims, gen, base, lost>>

\* A read that fails: with the file already open the call gives up, after
\* dropping the lock; on the first use it is taken for an empty file.
GetReadFails(p) ==
    /\ pc[p] \in {"read", "readfirst"}
    /\ faults < MaxFaults
    /\ faults' = faults + 1
    /\ fp' = [fp EXCEPT ![p] = 0]
    /\ IF pc[p] = "read" THEN Goto(p, "giveup") /\ lost' = lost
       ELSE /\ Goto(p, IF call[p].incr = 0 THEN "giveup" ELSE "write")
            /\ lost' = (lost \/ call[p].incr # 0)
    /\ UNCHANGED <<prog, pos, call, sfd, split, name, val, lock, token, bar,
                   shared, claims, gen, base>>

GetWrite(p) ==
    /\ pc[p] = "write"
    /\ val' = [val EXCEPT ![sfd[p]] = fp[p] + call[p].incr]
    /\ claims' = claims \cup
          {[rank |-> p, op |-> call[p].op, pos |-> pos[p], off |-> fp[p],
            len |-> call[p].incr, gen |-> gen]}
    /\ Goto(p, "unlock")
    /\ UNCHANGED <<prog, pos, call, fp, sfd, split, name, lock, token, bar,
                   shared, faults, gen, base, lost>>

\* A write of the pointer file that fails leaves the pointer as it was; the call
\* drops the lock and returns the error.
WriteFails(p) ==
    /\ pc[p] \in {"write", "setwrite"}
    /\ faults < MaxFaults
    /\ faults' = faults + 1
    /\ Goto(p, "giveup")
    /\ UNCHANGED <<prog, pos, call, fp, sfd, split, name, val, lock, token, bar,
                   shared, claims, gen, base, lost>>

\* An open of the pointer file that fails: the call returns the error, and when
\* it is a collective one the others are left waiting for this rank.
OpenFails(p) ==
    /\ pc[p] \in {"get", "set"} /\ sfd[p] = NULL
    /\ faults < MaxFaults
    /\ faults' = faults + 1
    /\ IF call[p].op = "shared" THEN Return(p) ELSE Goto(p, "failed") /\ call' = call
    /\ UNCHANGED <<prog, pos, fp, sfd, split, name, val, lock, token, bar,
                   shared, claims, gen, base, lost>>

Unlock(p) == lock' = [lock EXCEPT ![sfd[p]] = NULL]

\* The pointer has been got: an independent access transfers its data and
\* returns, an ordered one passes the token on, a seek goes on to set.
GetDone(p) ==
    /\ pc[p] = "unlock"
    /\ Unlock(p)
    /\ CASE call[p].op = "shared" ->
               Return(p)
         [] call[p].op \in Ordered ->
               Goto(p, "send") /\ call' = call
         [] OTHER ->
               LET o == call[p].offset + fp[p]
               IN /\ Goto(p, IF BadOffset(o) THEN "failed" ELSE "set")
                  /\ call' = [call EXCEPT ![p].offset = o]
    /\ UNCHANGED <<prog, pos, fp, sfd, split, name, val, token, bar, shared,
                   faults, claims, gen, base, lost>>

\* The pointer could not be got: an independent access returns the error; an
\* ordered one returns it too, and the token stays with this rank; so does a
\* seek, and the barrier stays one rank short.
GetGiveUp(p) ==
    /\ pc[p] = "giveup"
    /\ Unlock(p)
    /\ IF call[p].op = "shared"
       THEN Return(p)
       ELSE Goto(p, "failed") /\ call' = call
    /\ UNCHANGED <<prog, pos, fp, sfd, split, name, val, token, bar, shared,
                   faults, claims, gen, base, lost>>

SetOpen(p) ==
    /\ pc[p] = "set"
    /\ OpenPointer(p)
    /\ Goto(p, "set")
    /\ UNCHANGED <<prog, pos, call, fp, split, lock, token, bar, shared, faults,
                   claims, gen, base, lost>>

SetLock(p) ==
    /\ pc[p] = "set" /\ sfd[p] # NULL
    /\ LockFree(p)
    /\ lock' = [lock EXCEPT ![sfd[p]] = p]
    /\ Goto(p, "setwrite")
    /\ UNCHANGED <<prog, pos, call, fp, sfd, split, name, val, token, bar,
                   shared, faults, claims, gen, base, lost>>

SetWrite(p) ==
    /\ pc[p] = "setwrite"
    /\ val' = [val EXCEPT ![sfd[p]] = call[p].offset]
    /\ gen' = gen + 1
    /\ base' = call[p].offset
    /\ Goto(p, "setunlock")
    /\ UNCHANGED <<prog, pos, call, fp, sfd, split, name, lock, token, bar,
                   shared, faults, claims, lost>>

\* The end of ADIO_Set_shared_fp, and the seek goes on to its barrier.
SetDone(p) ==
    /\ pc[p] = "setunlock"
    /\ Unlock(p)
    /\ Goto(p, "barrier")
    /\ bar' = [bar EXCEPT ![p] = @ + 1]
    /\ UNCHANGED <<prog, pos, call, fp, sfd, split, name, val, token, shared,
                   faults, claims, gen, base, lost>>

(***************************************************************************)
(* The token, the collective transfer, the barriers, the close             *)
(***************************************************************************)

\* MPI_Recv of the token; rank 0 receives from MPI_PROC_NULL and does not wait.
TokenRecv(p) ==
    /\ pc[p] = "recv"
    /\ TokenHere(p)
    /\ token' = IF p = 0 THEN token ELSE [token EXCEPT ![p] = @ - 1]
    /\ Goto(p, "get")
    /\ UNCHANGED <<prog, pos, call, fp, sfd, split, name, val, lock, bar,
                   shared, faults, claims, gen, base, lost>>

TokenSend(p) ==
    /\ pc[p] = "send"
    /\ PassToken(p)
    /\ Goto(p, "coll")
    /\ bar' = IF call[p].op \in Gathering THEN [bar EXCEPT ![p] = @ + 1] ELSE bar
    /\ UNCHANGED <<prog, pos, call, fp, sfd, split, name, val, lock, shared,
                   faults, claims, gen, base, lost>>

\* ADIO_Read/WriteStridedColl: the Allgathers of the offsets, which nobody passes
\* before all have come, unless collective buffering is disabled; the transfer.
CollTransfer(p) ==
    /\ pc[p] = "coll"
    /\ CollGathered(p)
    /\ Return(p)
    /\ UNCHANGED <<prog, pos, fp, sfd, split, name, val, lock, token, bar,
                   shared, faults, claims, gen, base, lost>>

\* The barrier that ends MPI_File_seek_shared.
SeekBarrier(p) ==
    /\ pc[p] = "barrier" /\ call[p].op = "seek_shared"
    /\ SeekSynced(p)
    /\ Return(p)
    /\ UNCHANGED <<prog, pos, fp, sfd, split, name, val, lock, token, bar,
                   shared, faults, claims, gen, base, lost>>

\* MPI_File_close after its barrier: ADIO_Close of the pointer file closes it
\* and, it being opened with ADIO_DELETE_ON_CLOSE, removes the name.
CloseLeave(p) ==
    /\ pc[p] = "barrier" /\ call[p].op = "close"
    /\ CloseSynced(p)
    /\ sfd' = [sfd EXCEPT ![p] = NULL]
    /\ RemoveName(p)
    /\ Goto(p, "closed")
    /\ UNCHANGED <<prog, pos, call, fp, split, val, lock, token, bar, shared,
                   faults, claims, gen, base, lost>>

Step(p) ==
    \/ SharedAccess(p) \/ OrderedEnter(p) \/ OrderedEnd(p)
    \/ SeekEnter(p) \/ CloseEnter(p)
    \/ GetOpen(p) \/ GetLock(p) \/ GetRead(p) \/ GetReadFails(p)
    \/ GetWrite(p) \/ WriteFails(p) \/ OpenFails(p)
    \/ GetDone(p) \/ GetGiveUp(p)
    \/ SetOpen(p) \/ SetLock(p) \/ SetWrite(p) \/ SetDone(p)
    \/ TokenRecv(p) \/ TokenSend(p) \/ CollTransfer(p)
    \/ SeekBarrier(p) \/ CloseLeave(p)

Next == \E p \in Rank : Step(p)

\* Every rank keeps running its program until it has closed the file.
Spec == Init /\ [][Next]_vars /\ \A p \in Rank : WF_vars(Step(p))

(***************************************************************************)
(* Properties                                                              *)
(***************************************************************************)

Place == {"idle", "recv", "get", "lockfirst", "read", "readfirst", "write",
          "unlock", "giveup", "set", "setwrite", "setunlock", "send", "coll",
          "barrier", "closed", "failed"}

TypeOK ==
    /\ prog \in Seq(Collective) /\ Len(prog) <= MaxColl
    /\ \A p \in Rank : pos[p] \in 0 .. Len(prog)
    /\ pc \in [Rank -> Place]
    /\ fp \in [Rank -> Nat]
    /\ sfd \in [Rank -> FileId \cup {NULL}]
    /\ split \in [Rank -> {0, 1}]
    /\ name \in FileId \cup {NULL}
    /\ val \in [FileId -> Nat]
    /\ lock \in [FileId -> Rank \cup {NULL}]
    /\ token \in [Rank -> Int] /\ bar \in [Rank -> Nat]
    /\ shared \in [Rank -> 0 .. MaxShared] /\ faults \in 0 .. MaxFaults
    /\ gen \in Nat /\ base \in Nat /\ lost \in BOOLEAN

Region(c) == c.off .. c.off + c.len - 1
Current == {c \in claims : c.gen = gen}

\* ADIO_Get_shared_fp hands every access a region of its own: the regions given
\* out since the pointer was last set are disjoint and cover, without a gap,
\* the file from where the pointer was set to where it is now.  (Not after a
\* failed first read of the pointer file, which the code takes for an empty
\* one.)
RegionsTile ==
    (~lost /\ name # NULL) =>
      /\ \A c, d \in Current : c # d => Region(c) \cap Region(d) = {}
      /\ UNION {Region(c) : c \in Current} = base .. val[name] - 1

\* MPI_File_write_ordered, read_ordered and their begins order the regions of one
\* call by rank, whatever other accesses come in between: always if the transfer
\* gathers, else among the ranks that got theirs before the same seek (without the
\* Allgather rank 0 returns and seeks while others wait for the token).
OrderedByRank ==
    ~lost => \A c, d \in claims :
      (/\ c.op \in Ordered /\ d.op \in Ordered
       /\ c.pos = d.pos /\ c.rank < d.rank
       /\ (c.op \in Gathering /\ d.op \in Gathering) \/ c.gen = d.gen)
      => c.off + c.len <= d.off

\* The same whether or not the transfer gathers, which the code does not keep: a rank
\* that waits for the token while rank 0 sets the pointer (seek_sh.c) gets a region
\* counted from the new one.
AlwaysByRank ==
    ~lost => \A c, d \in claims :
      (c.op \in Ordered /\ d.op \in Ordered /\ c.pos = d.pos /\ c.rank < d.rank)
      => c.off + c.len <= d.off

SeeksBefore(n) == Cardinality({k \in 1 .. n : prog[k].op = "seek_shared"})

\* Once MPI_File_seek_shared has returned on a rank, that rank's accesses start
\* from the pointer the seek has set: its regions belong to that seek or a
\* later one.
SeekVisible == \A c \in claims : c.gen >= SeeksBefore(c.pos)

\* An ordered access whose transfer gathers is never given a region by the pointer
\* of a seek that comes after it in the program, even though rank 0 sets the
\* pointer without waiting for the other ranks to enter the seek.
OrderedBeforeSeek ==
    \A c \in claims : c.op \in Gathering => c.gen <= SeeksBefore(c.pos)

\* All ranks that have the pointer file open have the same file open, the one
\* its name stands for: no rank removes the name under another that is still
\* using it or about to open it.
OnePointerFile ==
    \A p \in Rank : (sfd[p] # NULL /\ call[p].op # "close") => sfd[p] = name

\* The pointer file is gone when every rank has closed the file.
PointerFileRemoved == (\A p \in Rank : pc[p] = "closed") => name = NULL

\* Every rank gets to the end of its program: no rank waits for ever for the
\* lock, the token, the collective transfer or a barrier, unless some rank
\* left an ordered access or a seek by an error.
ProgramEnds ==
    <>((\A p \in Rank : pc[p] = "closed") \/ (\E p \in Rank : pc[p] = "failed"))
=============================================================================
