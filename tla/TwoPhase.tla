------------------------------ MODULE TwoPhase -------------------------------
(***************************************************************************)
(* Two-phase collective reads and writes (adio/common/ad_write_coll.c,     *)
(* ad_read_coll.c) of an MPI file, with or without the write cache.        *)
(*                                                                         *)
(* All ranks make the same collective calls.  They gather their first and  *)
(* last offsets, divide the range into one file domain per aggregator,     *)
(* tell the aggregators which pieces lie in their domains, and then move   *)
(* the data in rounds of at most cb_buffer_size bytes: in a write an       *)
(* aggregator collects the pieces of a round in its buffer, fills the      *)
(* holes between them by reading the file first, and writes the buffer.    *)
(*                                                                         *)
(* log is the sequence of MPI collectives each rank has entered; a rank    *)
(* leaves one when all ranks have entered the same one.  A byte is its     *)
(* origin: <<c, p, k>> is the k-th byte of rank p's buffer in call c.      *)
(***************************************************************************)
EXTENDS FileDomains, TLC

CONSTANTS
    NP,         \* ranks of the communicator
    FileSize,   \* bound: bytes of the file that are looked at
    Eof,        \* length of the file at the start
    Setups,     \* bound: the hints the file may be opened with and the sequences
                \*   of collective calls, each with its kind and the ranks'
                \*   requests; the pieces of one rank's write do not overlap
    IndepBytes, \* bound: bytes independent writes go to
    MaxIndep,   \* bound: independent writes between the calls
    MaxFaults   \* bound: failing reads and writes of the file

ASSUME TwoPhaseAssumption ==
    /\ NP \in Nat \ {0} /\ FileSize \in Nat \ {0} /\ Eof \in 0 .. FileSize
    /\ IndepBytes \subseteq 0 .. FileSize - 1
    /\ MaxIndep \in Nat /\ MaxFaults \in Nat
    /\ \A s \in Setups : s.hints.cb_buffer_size > 0 /\ s.hints.ranklist # << >>

VARIABLES
    hints,   \* fd->hints: ranklist, cb_buffer_size, striping_unit,
             \*   min_fdomain_size, cb (automatic or enable), cached
    calls,   \* the collective calls of the program
    ncall,   \* ncall[p]: calls rank p has entered
    pc,      \* where rank p is
    log,     \* MPI collectives rank p has entered
    dom,     \* fd_start, fd_end, fd_size, min_st_offset
    my_req,  \* what rank p asks of every rank
    loc,     \* st_loc, end_loc and ntimes of the aggregator
    times,   \* max_ntimes: the rounds every rank takes part in
    m,       \* the round
    off,     \* the file offset of the aggregator's round
    todo,    \* others_req beyond curr_offlen_ptr, cut by partial_recv
    taken,   \* the pieces of others_req this round moves, and
    ptrs,    \*   mem_ptrs: the file bytes they stand for, in message order
    size,    \* what rank p has put in the Alltoall of every round
    idx,     \* buf_idx: next byte of the user's buffer to or from each rank
    sent,    \* messages rank p has sent, per round and destination
    iobuf,   \* fd->io_buf: write_buf or read_buf, by file offset
    rest,    \* pieces an independent access has still to move
    buf,     \* the user's buffer of a read
    err,     \* *error_code # MPI_SUCCESS at the last return
    failed,  \* the ranks and calls in which a file access failed
    file,    \* the global file
    cache,   \* data written to the cache and not yet in the global file
    keep,    \* history: content when the current call was agreed on, and the
             \*   independent writes since
    cur,     \* history: the last call all ranks have entered
    indep, faults

vars == <<hints, calls, ncall, pc, log, dom, my_req, loc, times, m, off, todo,
          taken, ptrs, size, idx, sent, iobuf, rest, buf, err, failed, file, cache,
          keep, cur, indep, faults>>

\* The outcome of the planning of a call.
plan == <<dom, my_req, loc, times>>

\* What a step of one rank inside a call may leave alone.
world == <<hints, failed, file, cache, keep, cur, indep, faults>>

Rank == 0 .. NP - 1
Byte == 0 .. FileSize - 1

None == <<-1, 0, 0>>   \* beyond the end of the file
Zero == <<-2, 0, 0>>   \* never written, before the end of the file
Junk == <<-3, 0, 0>>   \* whatever the buffer held before
Old(b) == <<0, 0, b>>
Data(c, p, k) == <<c, p, k>>
Alone(p) == <<-4, p, 0>>

NoPieces == [q \in Rank |-> << >>]
EmptyBuf == [b \in Byte |-> Junk]

\* A call, with what the ranks gather in it; contig: the ranks without data have a
\* contiguous file view.
Call(k, r, contig) ==
    [kind |-> k, req |-> r, st_offsets |-> [p \in Rank |-> StartOffset(r[p])],
     end_offsets |-> [p \in Rank |-> EndOffset(r[p], contig)]]

Init ==
    /\ \E s \in Setups :
          /\ hints = s.hints
          /\ calls = [i \in DOMAIN s.calls |->
                        Call(s.calls[i].kind, s.calls[i].req, s.calls[i].contig)]
    /\ ncall = [p \in Rank |-> 0]
    /\ pc = [p \in Rank |-> "idle"]
    /\ log = [p \in Rank |-> << >>]
    /\ dom = [p \in Rank |-> << >>]
    /\ my_req = [p \in Rank |-> NoPieces]
    /\ loc = [p \in Rank |-> [st |-> -1, en |-> -1, ntimes |-> 0]]
    /\ times = [p \in Rank |-> 0]
    /\ m = [p \in Rank |-> 0]
    /\ off = [p \in Rank |-> 0]
    /\ todo = [p \in Rank |-> NoPieces]
    /\ taken = [p \in Rank |-> NoPieces]
    /\ ptrs = [p \in Rank |-> NoPieces]
    /\ size = [p \in Rank |-> << >>]
    /\ idx = [p \in Rank |-> [q \in Rank |-> 0]]
    /\ sent = [p \in Rank |-> << >>]
    /\ iobuf = [p \in Rank |-> EmptyBuf]
    /\ rest = [p \in Rank |-> << >>]
    /\ buf = [p \in Rank |-> << >>]
    /\ err = [p \in Rank |-> FALSE]
    /\ failed = {}
    /\ file = [b \in Byte |-> IF b < Eof THEN Old(b) ELSE None]
    /\ cache = [b \in Byte |-> None]
    /\ keep = file
    /\ cur = 0
    /\ indep = 0
    /\ faults = 0

Goto(p, l) == pc' = [pc EXCEPT ![p] = l]
EnterColl(p, k) == log' = [log EXCEPT ![p] = Append(@, k)]

\* Everybody has entered the collective rank p is in.
Together(p) ==
    LET n == Len(log[p])
    IN \A q \in Rank : Len(log[q]) >= n /\ log[q][n] = log[p][n]

(***************************************************************************)
(* The plan of a call, a function of the gathered offsets                  *)
(***************************************************************************)
Req(p, c) == calls[c].req[p]
N == Len(hints.ranklist)
St(c) == calls[c].st_offsets
En(c) == calls[c].end_offsets

\* ADIOI_GEN_WriteStridedColl's rudimentary test for interleaved accesses.
Interleaved(c) ==
    \E p \in Rank \ {0} : St(c)[p] < En(c)[p - 1] /\ St(c)[p] <= En(c)[p]

Aggregated(c) == hints.cb = "enable" \/ Interleaved(c)

\* The number of the aggregator rank q is; -1: none.
AggNumber(q) == Max({-1} \cup {i - 1 : i \in {j \in 1 .. N : hints.ranklist[j] = q}})

AllPieces(s) == UNION {Range(s[q]) : q \in Rank}

\* st_loc, end_loc and ntimes for the pieces asked of an aggregator.
Extent(s) ==
    LET all == AllPieces(s)
        st == Min({r.off : r \in all})
        en == Max({EndOf(r) - 1 : r \in all})
    IN IF all = {} THEN [st |-> -1, en |-> -1, ntimes |-> 0]
       ELSE [st |-> st, en |-> en,
             ntimes |-> (en - st + hints.cb_buffer_size) \div hints.cb_buffer_size]

\* The result of the Allreduce of ntimes.
AllTimes(p) == Max({loc[q].ntimes : q \in Rank})

RoundSize(p) == Min({hints.cb_buffer_size, loc[p].en + 1 - off[p]})

RECURSIVE Take(_, _)
\* The pieces a round moves: those before lim, the last one cut at lim; nothing
\* after a cut piece, even if it starts before lim.
Take(s, lim) ==
    IF s = << >> \/ s[1].off >= lim THEN << >>
    ELSE IF EndOf(s[1]) > lim THEN <<[off |-> s[1].off, len |-> lim - s[1].off]>>
    ELSE <<s[1]>> \o Take(Tail(s), lim)

RECURSIVE Leave(_, _)
\* What the next round starts from.
Leave(s, lim) ==
    IF s = << >> \/ s[1].off >= lim THEN s
    ELSE IF EndOf(s[1]) > lim THEN <<[off |-> lim, len |-> EndOf(s[1]) - lim]>> \o Tail(s)
    ELSE Leave(Tail(s), lim)

RECURSIVE Covered(_, _)
\* The end of the run of bytes that starts before s and s continues.
Covered(s, e) ==
    IF s = << >> \/ s[1].off > e THEN e
    ELSE Covered(Tail(s), Max({e, EndOf(s[1])}))

RECURSIVE GapFree(_, _)
GapFree(s, e) == s = << >> \/ (s[1].off <= e /\ GapFree(Tail(s), Max({e, EndOf(s[1])})))

\* The hole test of ADIOI_W_Exchange_data on the merged pieces of a round that
\* writes n bytes from o: a hole at the front, in the middle or at the end.
Hole(s, o, n) ==
    LET t == SortSeq(s, LAMBDA a, b : a.off < b.off)
    IN s # << >> /\ \/ t[1].off # o
                    \/ ~GapFree(Tail(t), EndOf(t[1]))
                    \/ Covered(Tail(t), EndOf(t[1])) # o + n

(***************************************************************************)
(* Access to the file                                                      *)
(***************************************************************************)
View(b) == IF cache[b] # None THEN cache[b] ELSE file[b]

\* The file f after pwrite of the bytes d: a gap up to them reads as zeros.
Put(f, d) ==
    [b \in Byte |->
        IF b \in DOMAIN d THEN d[b]
        ELSE IF f[b] = None /\ \E e \in DOMAIN d : b < e THEN Zero
        ELSE f[b]]

\* ADIO_WriteContig goes to the cache file when there is one, else to the
\* global file.
WriteContig(d) ==
    IF hints.cached
    THEN /\ cache' = [b \in Byte |-> IF b \in DOMAIN d THEN d[b] ELSE cache[b]]
         /\ file' = file
    ELSE file' = Put(file, d) /\ cache' = cache

\* ADIO_ReadContig reads the global file; beyond its end the buffer keeps what
\* it held.
ReadContig(o, n, b0) ==
    [b \in Byte |-> IF b \in o .. o + n - 1 /\ file[b] # None THEN file[b] ELSE b0[b]]

\* The synchronisation thread copies the cache to the global file.
Flush ==
    /\ hints.cached
    /\ \E b \in Byte : cache[b] # None
    /\ LET dirty == {b \in Byte : cache[b] # None}
       IN file' = Put(file, [b \in dirty |-> cache[b]])
    /\ cache' = [b \in Byte |-> None]
    /\ UNCHANGED <<hints, calls, ncall, plan, pc, log, m, off, todo, taken, ptrs,
                   size, idx,
                   sent, iobuf, rest, buf, err, failed, keep, cur, indep, faults>>

Requested(c) == UNION {Range(Places(Req(p, c))) : p \in Rank}

\* An independent write between two collective calls, of a byte the collective
\* call before it does not touch.
IndependentWrite(p) ==
    /\ pc[p] = "idle"
    /\ indep < MaxIndep
    /\ \E b \in IndepBytes :
          /\ cur > 0 => b \notin Requested(cur)
          /\ WriteContig(b :> Alone(p))
          /\ keep' = [e \in Byte |-> IF cur > 0 /\ e \in Requested(cur) THEN keep[e]
                                   ELSE Put(keep, b :> Alone(p))[e]]
    /\ indep' = indep + 1
    /\ UNCHANGED <<hints, calls, ncall, plan, pc, log, m, off, todo, taken, ptrs,
                   size, idx,
                   sent, iobuf, rest, buf, err, failed, cur, faults>>

(***************************************************************************)
(* The calls                                                               *)
(***************************************************************************)

\* A rank enters the next collective call and the gathering of the offsets.
Enter(p) ==
    /\ pc[p] = "idle"
    /\ ncall[p] < Len(calls)
    /\ ncall' = [ncall EXCEPT ![p] = @ + 1]
    /\ EnterColl(p, "gather")
    /\ Goto(p, "gather")
    /\ err' = [err EXCEPT ![p] = FALSE]
    /\ UNCHANGED <<calls, plan, m, off, todo, taken, ptrs, size, idx, sent, iobuf,
                   rest, buf, world>>

\* The offsets are known: accesses that do not interleave are made without
\* aggregation, the others are cut at the domains and announced to the
\* aggregators (ADIOI_Calc_file_domains, Calc_my_req, Calc_others_req).
Plan(p) ==
    LET c == ncall[p]
    IN /\ pc[p] = "gather"
       /\ Together(p)
       /\ buf' = [buf EXCEPT ![p] = [k \in 1 .. SumLen(Req(p, c)) |-> Junk]]
       /\ IF Aggregated(c)
          THEN /\ EnterColl(p, "counts") /\ Goto(p, "counts")
               /\ dom' = [dom EXCEPT ![p] = CalcFileDomains(St(c), En(c), N,
                                hints.min_fdomain_size, hints.striping_unit)]
               /\ \E pieces \in {Pieces(Req(p, c), dom'[p])} :
                     /\ my_req' = [my_req EXCEPT ![p] =
                                     [q \in Rank |-> MyReq(pieces, AggNumber(q))]]
                     /\ idx' = [idx EXCEPT ![p] =
                                  [q \in Rank |-> BufIdx(pieces, AggNumber(q))]]
               /\ rest' = rest
          ELSE /\ log' = log /\ Goto(p, "alone")
               /\ rest' = [rest EXCEPT ![p] = Req(p, c)]
               /\ UNCHANGED <<dom, my_req, idx>>
       /\ size' = [size EXCEPT ![p] = << >>]
       /\ sent' = [sent EXCEPT ![p] = << >>]
       /\ cur' = c
       /\ keep' = IF cur = c THEN keep ELSE [b \in Byte |-> View(b)]
       /\ UNCHANGED <<hints, calls, ncall, loc, times, m, off, todo, taken, ptrs,
                      iobuf, err,
                      failed, file, cache, indep, faults>>

\* Without aggregation a rank moves its own pieces, one after the other, and
\* returns: the independent access with data sieving disabled (DataSieving has
\* the other one).
AloneStep(p) ==
    /\ pc[p] = "alone"
    /\ IF rest[p] = << >>
       THEN Goto(p, "idle") /\ UNCHANGED <<file, cache, buf, rest>>
       ELSE LET c == ncall[p]
                r == rest[p][1]
                k == SumLen(Req(p, c)) - SumLen(rest[p])
            IN /\ rest' = [rest EXCEPT ![p] = Tail(@)]
               /\ pc' = pc
               /\ IF calls[c].kind = "write"
                  THEN /\ WriteContig([b \in r.off .. EndOf(r) - 1 |->
                                          Data(c, p, k + b - r.off)])
                       /\ buf' = buf
                  ELSE /\ buf' = [buf EXCEPT ![p] = [j \in DOMAIN @ |->
                                    IF j \in k + 1 .. k + r.len
                                    THEN ReadContig(r.off, r.len, EmptyBuf)
                                             [r.off + j - k - 1]
                                    ELSE @[j]]]
                       /\ UNCHANGED <<file, cache>>
    /\ UNCHANGED <<hints, calls, ncall, plan, log, m, off, todo, taken, ptrs, size,
                   idx, sent,
                   iobuf, err, failed, keep, cur, indep, faults>>

\* An access without aggregation fails: the rank returns the error.
AloneFails(p) ==
    /\ pc[p] = "alone" /\ rest[p] # << >>
    /\ faults < MaxFaults
    /\ faults' = faults + 1
    /\ failed' = failed \cup {<<p, ncall[p]>>}
    /\ err' = [err EXCEPT ![p] = TRUE]
    /\ rest' = [rest EXCEPT ![p] = << >>]
    /\ Goto(p, "idle")
    /\ UNCHANGED <<hints, calls, ncall, plan, log, m, off, todo, taken, ptrs, size,
                   idx,
                   sent, iobuf, buf, file, cache, keep, cur, indep>>

\* The announcements have arrived (Calc_others_req): the aggregator knows what
\* is asked of it and how many rounds it needs, and enters the Allreduce.
Others(p) ==
    /\ pc[p] = "counts"
    /\ Together(p)
    /\ todo' = [todo EXCEPT ![p] = [q \in Rank |-> my_req[q][p]]]
    /\ loc' = [loc EXCEPT ![p] = Extent(todo'[p])]
    /\ off' = [off EXCEPT ![p] = loc'[p].st]
    /\ m' = [m EXCEPT ![p] = 0]
    /\ EnterColl(p, "ntimes") /\ Goto(p, "ntimes")
    /\ UNCHANGED <<calls, ncall, dom, my_req, times, taken, ptrs, size, idx, sent,
                   iobuf, rest, buf, err,
                   world>>

Start(p) ==
    /\ pc[p] = "ntimes"
    /\ Together(p)
    /\ times' = [times EXCEPT ![p] = AllTimes(p)]
    /\ Goto(p, "loop")
    /\ UNCHANGED <<calls, ncall, log, dom, my_req, loc, m, off, todo, taken, ptrs,
                   size, idx, sent,
                   iobuf, rest, buf, err, world>>

\* Another round of ADIOI_Exch_and_write, this rank's or another's.
MoreRounds(p) == m[p] < times[p]

\* The head of a round of ADIOI_Exch_and_write: which pieces the buffer will
\* hold, and the Alltoall of their sizes; after its own rounds a rank takes part
\* in the others' with nothing to receive.
WriteRound(p) ==
    LET c == ncall[p]
        lim == off[p] + RoundSize(p)
    IN /\ pc[p] = "loop" /\ calls[c].kind = "write"
       /\ MoreRounds(p)
       /\ IF m[p] < loc[p].ntimes
          THEN /\ taken' = [taken EXCEPT ![p] = [q \in Rank |-> Take(todo[p][q], lim)]]
               /\ todo' = [todo EXCEPT ![p] = [q \in Rank |-> Leave(todo[p][q], lim)]]
          ELSE taken' = [taken EXCEPT ![p] = NoPieces] /\ todo' = todo
       /\ ptrs' = [ptrs EXCEPT ![p] = [q \in Rank |-> Places(taken'[p][q])]]
       /\ size' = [size EXCEPT ![p] = Append(@, [q \in Rank |-> Len(ptrs'[p][q])])]
       /\ EnterColl(p, "sizes") /\ Goto(p, "exchange")
       /\ UNCHANGED <<calls, ncall, plan, m, off, idx, sent, iobuf, rest, buf, err,
                      world>>

\* The bytes a rank sends in this round: the next ones of its buffer.
FirstBytes(p, q, n) ==
    [k \in 1 .. n |-> Data(ncall[p], p, k - 1)]
NextBytes(p, q, n) ==
    [k \in 1 .. n |-> Data(ncall[p], p, idx[p][q] + k - 1)]

Advance(p, n) == idx' = [idx EXCEPT ![p] = [q \in Rank |-> @[q] + n[q]]]

\* ADIOI_W_Exchange_data up to the sends: when the pieces leave a hole the
\* buffer is filled from the file first.
WriteExchange(p) ==
    LET c == ncall[p]
        r == m[p] + 1
        n == RoundSize(p)
        all == FlattenSeq([i \in 1 .. NP |-> taken[p][i - 1]])
        need == [q \in Rank |-> size[q][r][p]]
    IN /\ pc[p] = "exchange"
       /\ Together(p)
       /\ iobuf' = [iobuf EXCEPT ![p] =
             IF Hole(all, off[p], n) THEN ReadContig(off[p], n, EmptyBuf) ELSE EmptyBuf]
       /\ sent' = [sent EXCEPT ![p] =
             Append(@, [q \in Rank |-> NextBytes(p, q, need[q])])]
       /\ Advance(p, need)
       /\ Goto(p, "collect")
       /\ UNCHANGED <<calls, ncall, plan, log, m, off, todo, taken, ptrs, size,
                      rest, buf, err,
                      world>>

\* What a message brings for byte b of the file.
Brings(msg, pl, b) == msg[CHOOSE k \in DOMAIN pl : pl[k] = b]

\* The message of the round, which carries it in its tag, has come.
ArrivedNext(p, q) == Len(sent[q]) > m[p] + 1
Arrived(p, q) == Len(sent[q]) > m[p]

Senders(p) == {q \in Rank : taken[p][q] # << >>}

\* The buffer of a round, its messages received in some order.
Filled(p, order) ==
    [b \in off[p] .. off[p] + RoundSize(p) - 1 |->
        LET from == {i \in DOMAIN order : b \in Range(ptrs[p][order[i]])}
            q == order[Max(from)]
        IN IF from = {} THEN iobuf[p][b]
           ELSE Brings(sent[q][m[p] + 1][p], ptrs[p][q], b)]

\* The messages of a round have come, in any order; the buffer is written.
WriteBuffer(p) ==
    LET mine == m[p] < loc[p].ntimes
    IN /\ pc[p] = "collect"
       /\ \A q \in Senders(p) : Arrived(p, q)
       /\ IF Senders(p) = {} THEN UNCHANGED <<file, cache>>
          ELSE \E order \in SetToSeqs(Senders(p)) : WriteContig(Filled(p, order))
       /\ off' = [off EXCEPT ![p] = IF mine THEN @ + RoundSize(p) ELSE @]
       /\ m' = [m EXCEPT ![p] = @ + 1]
       /\ Goto(p, "loop")
       /\ UNCHANGED <<hints, calls, ncall, plan, log, todo, taken, ptrs, size, idx,
                      sent, iobuf, rest, buf, err, failed, keep, cur, indep, faults>>

\* A failed access to the file: the rank leaves the rounds at once, for the
\* exchange of error codes.
LeaveRounds(p) ==
    /\ faults < MaxFaults
    /\ faults' = faults + 1
    /\ failed' = failed \cup {<<p, ncall[p]>>}
    /\ EnterColl(p, "errors") /\ Goto(p, "errors")
    /\ UNCHANGED <<hints, calls, ncall, plan, m, off, todo, taken, ptrs, size, idx,
                   sent, iobuf, rest, buf, err, keep, cur, indep>>

\* The read of the read-modify-write fails; the rank's messages are not sent.
HoleReadFails(p) ==
    /\ pc[p] = "exchange" /\ Together(p)
    /\ Hole(FlattenSeq([i \in 1 .. NP |-> taken[p][i - 1]]), off[p], RoundSize(p))
    /\ LeaveRounds(p)
    /\ UNCHANGED <<file, cache>>

\* The write fails, after some of the buffer.
WriteFails(p) ==
    /\ pc[p] = "collect" /\ Senders(p) # {}
    /\ \A q \in Senders(p) : Arrived(p, q)
    /\ LeaveRounds(p)
    /\ \E order \in SetToSeqs(Senders(p)), n \in 0 .. RoundSize(p) - 1 :
          WriteContig([b \in off[p] .. off[p] + n - 1 |-> Filled(p, order)[b]])

WriteLoopDone(p) ==
    /\ pc[p] = "loop" /\ calls[ncall[p]].kind = "write"
    /\ ~MoreRounds(p)
    /\ EnterColl(p, "errors") /\ Goto(p, "errors")
    /\ UNCHANGED <<calls, ncall, plan, m, off, todo, taken, ptrs, size, idx, sent,
                   iobuf,
                   rest, buf, err, world>>

\* The collective that ends a write: with one aggregator a broadcast from it,
\* else an Allreduce.
NoSync(p) == TRUE
ErrorSync(p) ==
    IF N > 1 THEN Together(p)
    ELSE LET n == Len(log[p])
             root == hints.ranklist[1]
         IN Len(log[root]) >= n /\ log[root][n] = log[p][n]

\* Every rank returns the error any rank had.
ErrorsOf(p) ==
    \E q \in Rank : /\ <<q, ncall[p]>> \in failed
                    /\ N > 1 \/ q = p \/ q = hints.ranklist[1]

WriteReturn(p) ==
    /\ pc[p] = "errors"
    /\ ErrorSync(p)
    /\ err' = [err EXCEPT ![p] = ErrorsOf(p)]
    /\ Goto(p, "idle")
    /\ UNCHANGED <<calls, ncall, plan, log, m, off, todo, taken, ptrs, size, idx,
                   sent, iobuf,
                   rest, buf, world>>

(***************************************************************************)
(* The rounds of a read                                                    *)
(***************************************************************************)

\* The head of a round of ADIOI_Read_and_exch: the aggregator reads the bytes of
\* the round behind those it has retained, and enters the Alltoall of the sizes
\* it will send.
ReadRound(p) ==
    LET c == ncall[p]
        lim == off[p] + RoundSize(p)
    IN /\ pc[p] = "loop" /\ calls[c].kind = "read"
       /\ m[p] < times[p]
       /\ IF m[p] < loc[p].ntimes
          THEN /\ taken' = [taken EXCEPT ![p] = [q \in Rank |-> Take(todo[p][q], lim)]]
               /\ todo' = [todo EXCEPT ![p] = [q \in Rank |-> Leave(todo[p][q], lim)]]
               /\ iobuf' = [iobuf EXCEPT ![p] =
                     IF AllPieces(taken'[p]) = {} THEN @
                     ELSE ReadContig(off[p], RoundSize(p), @)]
          ELSE taken' = [taken EXCEPT ![p] = NoPieces] /\ UNCHANGED <<todo, iobuf>>
       /\ ptrs' = [ptrs EXCEPT ![p] = [q \in Rank |-> Places(taken'[p][q])]]
       /\ size' = [size EXCEPT ![p] = Append(@, [q \in Rank |-> Len(ptrs'[p][q])])]
       /\ EnterColl(p, "sizes") /\ Goto(p, "serve")
       /\ UNCHANGED <<calls, ncall, plan, m, off, idx, sent, rest, buf, err, world>>

\* The read fails: the rank returns at once, out of the other ranks' sight.
ReadFails(p) ==
    LET c == ncall[p]
        lim == off[p] + RoundSize(p)
    IN /\ pc[p] = "loop" /\ calls[c].kind = "read"
       /\ m[p] < loc[p].ntimes
       /\ \E q \in Rank : Take(todo[p][q], lim) # << >>
       /\ faults < MaxFaults
       /\ faults' = faults + 1
       /\ err' = [err EXCEPT ![p] = TRUE]
       /\ failed' = failed \cup {<<p, c>>}
       /\ Goto(p, "idle")
       /\ UNCHANGED <<hints, calls, ncall, plan, log, m, off, todo, taken, ptrs,
                      size, idx, sent,
                      iobuf, rest, buf, file, cache, keep, cur, indep>>

\* ADIOI_R_Exchange_data up to the sends, straight from the buffer.
ReadServe(p) ==
    /\ pc[p] = "serve"
    /\ Together(p)
    /\ sent' = [sent EXCEPT ![p] = Append(@, [q \in Rank |->
            [k \in DOMAIN ptrs[p][q] |-> iobuf[p][ptrs[p][q][k]]]])]
    /\ Goto(p, "receive")
    /\ UNCHANGED <<calls, ncall, plan, log, m, off, todo, taken, ptrs, size, idx,
                   iobuf, rest,
                   buf, err, world>>

\* for_next_iter: what a piece behind one that was cut needs of this round's
\* bytes.
RetainNothing(p, lim) == 0
ForNextIter(p, lim) ==
    Max({0} \cup {lim - todo[p][q][2].off : q \in {r \in Rank : Len(todo[p][r]) > 1}})

\* The data of a round goes to the user's buffer at buf_idx; the aggregator
\* retains what the next round needs.
ReadReceive(p) ==
    LET c == ncall[p]
        r == m[p] + 1
        n == RoundSize(p)
        mine == r <= loc[p].ntimes
        need == [q \in Rank |-> size[q][r][p]]
        from(j) == {q \in Rank : j \in idx[p][q] + 1 .. idx[p][q] + need[q]}
    IN /\ pc[p] = "receive"
       /\ \A q \in Rank : need[q] > 0 => Arrived(p, q)
       /\ buf' = [buf EXCEPT ![p] = [j \in DOMAIN @ |->
             IF from(j) = {} THEN @[j]
             ELSE LET q == CHOOSE q \in from(j) : TRUE
                  IN sent[q][r][p][j - idx[p][q]]]]
       /\ Advance(p, need)
       /\ iobuf' = [iobuf EXCEPT ![p] = [b \in Byte |->
             IF mine /\ b \in off[p] + n - ForNextIter(p, off[p] + n) .. off[p] + n - 1
             THEN @[b] ELSE Junk]]
       /\ off' = [off EXCEPT ![p] = IF mine THEN @ + n ELSE @]
       /\ m' = [m EXCEPT ![p] = r]
       /\ Goto(p, "loop")
       /\ UNCHANGED <<calls, ncall, plan, log, todo, taken, ptrs, size, sent, rest,
                      err, world>>

ReadReturn(p) ==
    /\ pc[p] = "loop" /\ calls[ncall[p]].kind = "read"
    /\ m[p] = times[p]
    /\ Goto(p, "idle")
    /\ UNCHANGED <<calls, ncall, plan, log, m, off, todo, taken, ptrs, size, idx,
                   sent, iobuf,
                   rest, buf, err, world>>

-----------------------------------------------------------------------------
Step(p) ==
    \/ Plan(p) \/ AloneStep(p) \/ Others(p) \/ Start(p)
    \/ WriteRound(p) \/ WriteExchange(p) \/ WriteBuffer(p)
    \/ WriteLoopDone(p) \/ WriteReturn(p)
    \/ ReadRound(p) \/ ReadServe(p) \/ ReadReceive(p) \/ ReadReturn(p)

Next ==
    \/ \E p \in Rank : \/ Enter(p) \/ Step(p) \/ IndependentWrite(p)
                       \/ AloneFails(p) \/ HoleReadFails(p) \/ WriteFails(p)
                       \/ ReadFails(p)
    \/ Flush

Spec == Init /\ [][Next]_vars

\* As long as some rank can go on, some rank does; the sync threads need not
\* run, independent writes and failures need not happen.
FairSpec == Spec /\ WF_vars(\E p \in Rank : Enter(p) \/ Step(p))

-----------------------------------------------------------------------------
(***************************************************************************)
(* Properties                                                              *)
(***************************************************************************)

\* Values have their types, and a round stays inside what is asked of the
\* aggregator.
TypeOK ==
    /\ hints \in {s.hints : s \in Setups}
    /\ ncall \in [Rank -> 0 .. Len(calls)]
    /\ pc \in [Rank -> {"idle", "gather", "alone", "counts", "ntimes", "loop",
                        "exchange", "collect", "errors", "serve", "receive"}]
    /\ \A p \in Rank : off[p] \in -1 .. loc[p].en + 1
    /\ \A p \in Rank : m[p] <= FileSize /\ Len(size[p]) - Len(sent[p]) \in {0, 1}
    /\ err \in [Rank -> BOOLEAN]
    /\ DOMAIN file = Byte /\ DOMAIN cache = Byte /\ cur \in 0 .. Len(calls)

\* The values the ranks that ask for byte b in call c write there.
Written(c, b) ==
    UNION {LET pl == Places(Req(q, c))
           IN {Data(c, q, k - 1) : k \in {j \in DOMAIN pl : pl[j] = b}} : q \in Rank}

\* When a collective write has returned without an error on some rank, the data
\* of every rank is in the file (only its own when the ranks wrote separately),
\* whatever rounds, holes and overlaps there were: no rank leaves
\* ADIOI_GEN_WriteStridedColl before the last buffer has been written.
ReturnedMeansWritten ==
    \A p \in Rank :
        LET c == ncall[p]
        IN pc[p] = "idle" /\ c > 0 /\ ~err[p] =>
           (calls[c].kind = "write" =>
              \A q \in IF Aggregated(c) THEN Rank ELSE {p} :
                 \A b \in Range(Places(Req(q, c))) : View(b) \in Written(c, b))

AllKept ==
    cur > 0 => \A b \in Byte \ Requested(cur) : keep[b] # None => View(b) = keep[b]

\* Bytes between the pieces of a collective write keep what they held, and what
\* an independent write puts there afterwards, although the aggregators write
\* them too (the read-modify-write of ADIOI_W_Exchange_data).
UnwrittenKept == ~hints.cached => AllKept

\* The same when the data goes to the cache: a hole keeps what an earlier call
\* wrote there.
CachedUnwrittenKept == AllKept

\* A collective read returns what the file held, byte for byte, also where
\* pieces are cut at the end of a round and retained for the next
\* (ADIOI_Read_and_exch); beyond the end of the file it returns nothing.
ReadsFile ==
    \A p \in Rank :
        LET c == ncall[p]
        IN pc[p] = "idle" /\ c > 0 /\ ~err[p] /\ ~hints.cached =>
           (calls[c].kind = "read" =>
              \A pl \in {Places(Req(p, c))} : \A k \in DOMAIN pl :
                 IF keep[pl[k]] = None THEN buf[p][k] \in {Junk, Zero}
                 ELSE buf[p][k] = keep[pl[k]])

\* An aggregator writes inside its own file domain only (ad_write_coll.c: "each
\* process may directly access only its own file domain").
OwnDomain ==
    [][\A p \in Rank : pc[p] = "collect" /\ pc'[p] = "loop" =>
          LET d == dom[p]
          IN \A b \in Byte : file'[b] # file[b] =>
                \E i \in 1 .. N : /\ hints.ranklist[i] = p
                                  /\ b \in d.fd_start[i - 1] .. d.fd_end[i - 1]]_vars

\* As long as no access fails, all ranks make the same collective calls in the
\* same order, also those with fewer rounds or no data.
SameCollectives ==
    faults = 0 =>
        \A p, q \in Rank :
            LET n == Len(log[p])
            IN n > 0 /\ n <= Len(log[q]) => log[q][n] = log[p][n]

\* Every collective call returns, unless an access failed.
AllReturn ==
    \A p \in Rank : pc[p] # "idle" ~> pc[p] = "idle" \/ faults > 0

\* "if something went wrong, all processes report error": a call in which an
\* access failed returns too.
FailuresReturn ==
    \A p \in Rank : pc[p] # "idle" ~> pc[p] = "idle"
=============================================================================
