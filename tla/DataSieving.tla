----------------------------- MODULE DataSieving ------------------------------
(***************************************************************************)
(* Independent strided accesses with data sieving, by several processes on *)
(* one file (ad_write_str.c, ad_read_str.c, mpi-io/write.c).               *)
(*                                                                         *)
(* A strided write reads a window of the file, puts its pieces into it and *)
(* writes the whole window back, so that the holes are written too.  Locks *)
(* keep concurrent accesses apart: on every window by itself, or in atomic *)
(* mode on the whole range at once.  A contiguous access, and one inside a *)
(* single block of the view, is one access without window.                 *)
(*                                                                         *)
(* A byte holds the process that wrote it last, 0 at the start.            *)
(***************************************************************************)
EXTENDS Integers, Sequences, FiniteSets

CONSTANTS
    Ranks,       \* the processes, numbers above 0
    MaxByte,     \* bound: the last byte of the file
    Scenarios,   \* bound: [atomic, ops: what every process does]
    BufferSizes, \* hints->ind_wr_buffer_size and ind_rd_buffer_size
    MaxFailures  \* bound: accesses that fail

Bytes == 0 .. MaxByte
Piece == [off : Nat, len : Nat \ {0}]
EndOf(q) == q.off + q.len
Span(q) == q.off .. EndOf(q) - 1

\* A request: pieces in the order of the file that do not overlap, only one of them
\* when it is contiguous.
Request(op) ==
    /\ op.kind \in {"write", "read", "contig"}
    /\ op.pieces \in Seq(Piece) /\ op.pieces # << >>
    /\ \A i \in DOMAIN op.pieces : Span(op.pieces[i]) \subseteq Bytes
    /\ \A i \in 1 .. Len(op.pieces) - 1 :
          EndOf(op.pieces[i]) <= op.pieces[i + 1].off
    /\ op.kind = "contig" => Len(op.pieces) = 1

ASSUME DataSievingAssumption ==
    /\ MaxByte \in Nat
    /\ Ranks \subseteq Nat \ {0} /\ BufferSizes \subseteq Nat \ {0}
    /\ \A s \in Scenarios : s.atomic \in BOOLEAN /\ \A r \in Ranks : Request(s.ops[r])

VARIABLES
    scen, max_bufsize,
    file,    \* byte -> process
    pc,
    win,     \* the bytes of the file a process reads (and writes back) at once
    buf,     \* writebuf
    held,    \* the bytes a process has locked with fcntl
    got,     \* what a strided read has put into the user's buffer, by byte
    failed   \* the access that failed in a process, or "none"

vars == <<scen, max_bufsize, file, pc, win, buf, held, got, failed>>

Op(r) == scen.ops[r]

\* The bytes of a request; the request from its first byte to its last one.
BytesOf(op) == UNION {Span(op.pieces[i]) : i \in DOMAIN op.pieces}
EndOffset(op) == EndOf(op.pieces[Len(op.pieces)]) - 1
RangeOf(op) == op.pieces[1].off .. EndOffset(op)
Mine(r) == BytesOf(Op(r))
Whole(r) == RangeOf(Op(r))

\* One access without window: a contiguous one, or a single block of the view.
Direct(op) == Len(op.pieces) = 1
\* ... of which only the contiguous one is locked, in atomic mode.
Unlocked(s, op) == Direct(op) /\ ~(op.kind = "contig" /\ s.atomic)

\* Where an access begins.
StartPc(s, r) ==
    IF Unlocked(s, s.ops[r]) THEN "direct" ELSE IF s.atomic THEN "lockall" ELSE "open"

NoWindow == [off |-> 0, len |-> 0]

TypeOK ==
    /\ scen \in Scenarios /\ max_bufsize \in BufferSizes
    /\ file \in [Bytes -> Ranks \cup {0}]
    /\ pc \in [Ranks -> {"direct", "lockall", "open", "read", "write", "unlock",
                         "unlockall", "done"}]
    /\ \A r \in Ranks :
          /\ win[r].off \in Nat /\ win[r].len \in Nat /\ win[r].len <= max_bufsize
          /\ Op(r).kind # "read" => Span(win[r]) \subseteq Bytes
          /\ DOMAIN buf[r] \subseteq Bytes /\ DOMAIN got[r] \subseteq Mine(r)
    /\ held \in [Ranks -> SUBSET Bytes]
    /\ failed \in [Ranks -> {"none", "read", "write"}]

Init ==
    /\ scen \in Scenarios /\ max_bufsize \in BufferSizes
    /\ file = [b \in Bytes |-> 0]
    /\ pc = [r \in Ranks |-> StartPc(scen, r)]
    /\ win = [r \in Ranks |-> NoWindow]
    /\ buf = [r \in Ranks |-> << >>] /\ got = [r \in Ranks |-> << >>]
    /\ held = [r \in Ranks |-> {}] /\ failed = [r \in Ranks |-> "none"]

(***************************************************************************)
(* Windows                                                                 *)
(***************************************************************************)

\* The pieces that reach past byte e.
Past(r, e) == {i \in DOMAIN Op(r).pieces : EndOf(Op(r).pieces[i]) > e}
First(I) == CHOOSE i \in I : \A j \in I : i <= j

Lesser(a, b) == IF a <= b THEN a ELSE b

\* Mutant: the last byte is forgotten.
ShortLen(r, from) == Lesser(max_bufsize, EndOffset(Op(r)) - from)

\* The bytes that are read: as many as the buffer takes, or as there are from byte
\* from to the end of the request.
WindowLen(r, from) == Lesser(max_bufsize, EndOffset(Op(r)) - from + 1)

\* The next window starts at the next piece, or goes on in the middle of one.  A
\* read then keeps the part of the piece it has and counts from the beginning of
\* the piece, so that it may read past the end of the request.
NextWindow(r) ==
    LET e == EndOf(win[r])
        o == Op(r).pieces[First(Past(r, e))].off
    IN IF o >= e THEN [off |-> o, len |-> WindowLen(r, o)]
       ELSE [off |-> e, len |-> WindowLen(r, IF Op(r).kind = "read" THEN o ELSE e)]

\* What follows a window.
After(r) ==
    IF failed[r] # "none" THEN "done"
    ELSE IF Past(r, EndOf(win[r])) # {} THEN "open"
    ELSE IF scen.atomic THEN "unlockall" ELSE "done"

(***************************************************************************)
(* Locks (external: fcntl F_SETLKW)                                        *)
(***************************************************************************)
Free(r, bytes) == \A q \in Ranks \ {r} : held[q] \cap bytes = {}

\* Mutants: a window is not locked; a read does not lock its range.
NoLock(r, w) == {}
WritersOnly(r) == IF Op(r).kind = "read" THEN {} ELSE Whole(r)

\* What is locked for a window, and in atomic mode for the whole access.
WindowLock(r, w) == IF scen.atomic \/ Op(r).kind = "read" THEN held[r] ELSE Span(w)
RangeLock(r) == Whole(r)

\* What is locked after ADIOI_UNLOCK.
Released(r) == {}

(***************************************************************************)
(* The steps of an access                                                  *)
(***************************************************************************)
Goto(r, p) == pc' = [pc EXCEPT ![r] = p]
Overlay(f, g) == [b \in DOMAIN f |-> IF b \in DOMAIN g THEN g[b] ELSE f[b]]
Failures == {r \in Ranks : failed[r] # "none"}
Fail(r, what) ==
    Cardinality(Failures) < MaxFailures /\ failed' = [failed EXCEPT ![r] = what]

LockAll(r) ==
    /\ pc[r] = "lockall" /\ Free(r, RangeLock(r))
    /\ held' = [held EXCEPT ![r] = RangeLock(r)]
    /\ Goto(r, IF Direct(Op(r)) THEN "direct" ELSE "open")
    /\ UNCHANGED <<scen, max_bufsize, file, win, buf, got, failed>>

\* One ADIO_WriteContig or ReadContig; mpi-io/write.c unlocks whether or not it
\* failed.
DirectAccess(r) ==
    /\ pc[r] = "direct"
    /\ \/ /\ Op(r).kind # "read"
          /\ file' = [b \in Bytes |-> IF b \in Mine(r) THEN r ELSE file[b]]
          /\ UNCHANGED <<got, failed>>
       \/ /\ Op(r).kind = "read"
          /\ got' = [got EXCEPT ![r] = [b \in Mine(r) |-> file[b]]]
          /\ UNCHANGED <<file, failed>>
       \/ /\ Fail(r, IF Op(r).kind = "read" THEN "read" ELSE "write")
          /\ UNCHANGED <<file, got>>
    /\ Goto(r, IF held[r] = {} THEN "done" ELSE "unlockall")
    /\ UNCHANGED <<scen, max_bufsize, win, buf, held>>

\* A window is chosen and, for a write in nonatomic mode, locked.
OpenWindow(r) ==
    /\ pc[r] = "open"
    /\ \E w \in {NextWindow(r)} :
          /\ Free(r, WindowLock(r, w))
          /\ win' = [win EXCEPT ![r] = w]
          /\ held' = [held EXCEPT ![r] = WindowLock(r, w)]
    /\ Goto(r, "read")
    /\ UNCHANGED <<scen, max_bufsize, file, buf, got, failed>>

\* The window is read; the pieces in it are copied into it, or out of it.
ReadWindow(r) ==
    /\ pc[r] = "read"
    /\ \/ /\ Op(r).kind = "write"
          /\ buf' = [buf EXCEPT ![r] = [b \in Span(win[r]) |->
                                           IF b \in Mine(r) THEN r ELSE file[b]]]
          /\ Goto(r, "write") /\ UNCHANGED got
       \/ /\ Op(r).kind = "read"
          /\ got' = [got EXCEPT ![r] =
                [b \in DOMAIN @ \cup (Span(win[r]) \cap Mine(r)) |->
                    IF b \in DOMAIN @ THEN @[b] ELSE file[b]]]
          /\ Goto(r, After(r)) /\ UNCHANGED buf
    /\ UNCHANGED <<scen, max_bufsize, file, win, held, failed>>

\* A read that fails returns at once, with its lock.
ReadFails(r) ==
    /\ pc[r] = "read" /\ Fail(r, "read") /\ Goto(r, "done")
    /\ UNCHANGED <<scen, max_bufsize, file, win, buf, held, got>>

WriteWindow(r) ==
    /\ pc[r] = "write"
    /\ file' = Overlay(file, buf[r])
    /\ Goto(r, IF scen.atomic THEN After(r) ELSE "unlock")
    /\ UNCHANGED <<scen, max_bufsize, win, buf, held, got, failed>>

\* A write that fails, after a part of the window: in nonatomic mode the window is
\* unlocked before the error is looked at.
WriteFails(r) ==
    /\ pc[r] = "write" /\ Fail(r, "write")
    /\ \E n \in 0 .. win[r].len - 1 :
          file' = Overlay(file, [b \in Span([win[r] EXCEPT !.len = n]) |-> buf[r][b]])
    /\ Goto(r, IF scen.atomic THEN "done" ELSE "unlock")
    /\ UNCHANGED <<scen, max_bufsize, win, buf, held, got>>

Unlock(r) ==
    /\ pc[r] \in {"unlock", "unlockall"}
    /\ held' = [held EXCEPT ![r] = Released(r)]
    /\ Goto(r, IF pc[r] = "unlock" THEN After(r) ELSE "done")
    /\ UNCHANGED <<scen, max_bufsize, file, win, buf, got, failed>>

Step(r) ==
    \/ LockAll(r) \/ DirectAccess(r) \/ OpenWindow(r) \/ ReadWindow(r)
    \/ ReadFails(r) \/ WriteWindow(r) \/ WriteFails(r) \/ Unlock(r)

Next == \E r \in Ranks : Step(r)

\* A process that can go on does; a lock that is free is granted in the end.
Spec == Init /\ [][Next]_vars /\ \A r \in Ranks : WF_vars(Step(r))

(***************************************************************************)
(* Properties                                                              *)
(***************************************************************************)
Returned(r) == pc[r] = "done" /\ failed[r] = "none"
Writers(b) == {r \in Ranks : Op(r).kind # "read" /\ b \in Mine(r)}

\* No access that goes without a lock lies in the range of one that locks: in
\* atomic mode none at all, in nonatomic mode no write in the range of a write.
\* (Where one does, updates are lost: DataSieving_block.cfg.)
Apart(s) ==
    \A r, q \in Ranks :
        (/\ r # q /\ Unlocked(s, s.ops[r]) /\ ~Unlocked(s, s.ops[q])
         /\ s.atomic \/ (s.ops[r].kind # "read" /\ s.ops[q].kind # "read"))
        => BytesOf(s.ops[r]) \cap RangeOf(s.ops[q]) = {}

\* What a returned write has written, and nobody else writes, is in the file and
\* stays there while others write their windows over it (ad_write_str.c:28 locks
\* before it reads).
ReturnedKept ==
    \A r \in Ranks : Returned(r) =>
        \A b \in Mine(r) : Writers(b) = {r} => file[b] = r

\* In atomic mode accesses are serial: of two overlapping writes one lies wholly
\* over the other, and a read sees all of a write or nothing (ad_write_str.c:343,
\* ad_read_str.c:271).
Serial ==
    scen.atomic /\ Failures = {} =>
        \A r, q \in Ranks : r # q /\ Returned(r) /\ Returned(q) =>
            LET both == {b \in Mine(r) \cap Mine(q) :
                            Writers(b) = {r, q} \/ Writers(b) = {q}}
            IN IF Op(r).kind = "read"
               THEN \/ \A b \in both : got[r][b] = q
                    \/ \A b \in both : got[r][b] # q
               ELSE Op(q).kind # "read" =>
                    \/ \A b \in both : file[b] = r
                    \/ \A b \in both : file[b] = q

\* An access leaves no lock behind, a failed write in nonatomic mode included; the
\* exits that do are those after a failed read of a window, and in atomic mode
\* after a failed write of one (ad_write_str.c:18, 31, 46, 60).
LocksReleased ==
    \A r \in Ranks : pc[r] = "done" /\ held[r] # {} =>
        failed[r] = "read" \/ (failed[r] = "write" /\ scen.atomic)

\* Every access returns, unless one failed and left its lock behind: no two
\* processes wait for each other, since nobody asks for a lock while holding one.
AllReturn == <>((\A r \in Ranks : pc[r] = "done") \/ Failures # {})
=============================================================================
