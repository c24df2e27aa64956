---------------------------- MODULE P2PAggregation ----------------------------
(***************************************************************************)
(* The collective access for contiguous data in rank order                 *)
(* (adio/common/p2p_aggregation.c, called by the GPFS driver): processes   *)
(* and aggregators exchange one buffer per aggregator and round with       *)
(* point-to-point messages, while an I/O thread of the aggregator          *)
(* (ad_threaded_io.c) writes the other half of its buffer, or reads it     *)
(* ahead.                                                                  *)
(*                                                                         *)
(* Two processes exchange all their messages on one tag: between each pair *)
(* the k-th message sent meets the k-th receive posted.  The datum of a    *)
(* byte is its offset in the file.                                         *)
(***************************************************************************)
EXTENDS FileDomains, Functions

CONSTANTS
    NRanks,
    Setups  \* the calls considered: [kind, lens, aggs, buf, min, unit, threaded,
            \* eager, faults]: lens[r] bytes of each rank, in rank order and
            \* without gaps; aggs the ranklist; buf is coll_bufsize; eager: sends
            \* complete before they are received; faults that may occur

Rank == 0 .. NRanks - 1
Garbage == -1

ASSUME SetupAssumption ==
    \A s \in Setups :
        /\ s.kind \in {"write", "read"} /\ s.lens \in [Rank -> Nat]
        /\ s.aggs \in Seq(Rank) /\ IsInjective(s.aggs) /\ s.aggs # << >>
        /\ s.buf \in Nat \ {0} /\ s.min \in Nat /\ s.unit \in Nat
        /\ s.threaded \in BOOLEAN /\ s.eager \in BOOLEAN
        /\ s.faults \subseteq {"io", "create"}

VARIABLES
    setup,   \* the call
    dom,     \* its file domains
    offs,    \* st_offsets, end_offsets and numberOfRounds: [st, en, rounds]
    pc, round,
    rem,     \* remainingDataOffset and -Amount of each aggregator, per process
    got,     \* dataSizeGottenThisRoundPerProc, dataSizeSentThisRoundPerProc
    todo,    \* aggregators a process has yet to send to in this round
    ask,     \* amountOfDataReqestedByTargetAgg
    cur, use, \* currentWriteBuf or currentReadBuf, and what write_buf, read_buf is
    iobuf,   \* the two halves of fd->io_buf
    user,    \* the user's buffers (of a read)
    file,
    thread,  \* the I/O thread: [on, buf, off, n, at, err]
    chan,    \* messages on their way, by sender and receiver
    posted,  \* receives posted, by receiver and sender
    bar,     \* barriers entered
    err,     \* *error_code
    failed,  \* the fault that has occurred, if one has: {<<what, process>>}
    misuse   \* an assertion failed, a message met the wrong receive, or a read
             \* was given a negative length

call == <<setup, dom, offs>>
counts == <<rem, got, todo, ask>>
buffers == <<cur, use, iobuf, user, file>>
net == <<chan, posted>>
vars == <<call, pc, round, counts, buffers, thread, net, bar, err, failed, misuse>>

write == setup.kind = "write"
-----------------------------------------------------------------------------
(***************************************************************************)
(* Who exchanges what with whom.                                           *)
(***************************************************************************)
Before(s, r) == MapThenSumSet(LAMBDA q : s.lens[q], 0 .. r - 1)
St(s) == [r \in Rank |-> Before(s, r)]
En(s) == [r \in Rank |-> Before(s, r + 1) - 1]
Domains(s) == CalcFileDomains(St(s), En(s), Len(s.aggs), s.min, s.unit)

st(r) == offs.st[r]
en(r) == offs.en[r]
Agg == DOMAIN dom.fd_start
AggRank(a) == setup.aggs[a + 1]
AggsOf(r) == {a \in Agg : AggRank(a) = r}
MyAgg(r) == CHOOSE a \in AggsOf(r) : TRUE   \* myAggRank

Inside(x, a) == dom.fd_start[a] <= x /\ x <= dom.fd_end[a]
Touches(r, a) == Inside(st(r), a) \/ Inside(en(r), a)

\* iAmUsedAgg, and the processes that feed it or are fed by it
Used(a) == dom.fd_end[a] > dom.fd_start[a]
IsUsedAgg(r) == \E a \in AggsOf(r) : Used(a)
Peers(r) == {q \in Rank : \E a \in AggsOf(r) : Used(a) /\ Touches(q, a)}

\* The part of q's data in the domain of aggregator a: [off, amt].
Part(q, a) ==
    LET lo == IF Inside(st(q), a) THEN st(q) ELSE dom.fd_start[a]
        hi == IF Inside(en(q), a) THEN en(q) ELSE dom.fd_end[a]
    IN [off |-> lo, amt |-> hi - lo + 1]

Rounds(s) == (En(s)[NRanks - 1] - St(s)[0]) \div (s.buf * Len(s.aggs)) + 1
UseIOBuffer == setup.threaded /\ offs.rounds > 1

\* What the aggregator works on in round k.
Lo(a, k) == dom.fd_start[a] + k * setup.buf
Hi(a, k) == IF dom.fd_end[a] - Lo(a, k) < setup.buf THEN dom.fd_end[a]
            ELSE Lo(a, k) + setup.buf - 1

\* What a process has for aggregator a in round k, and where in its buffer it is.
Share(r, a, k) ==
    LET lo == Lo(a, k)
        hi == Hi(a, k)
        in(x) == lo <= x /\ x <= hi
    IN IF in(st(r)) THEN [at |-> 0, len |-> Min({en(r), hi}) - st(r) + 1]
       ELSE IF in(en(r)) THEN [at |-> lo - st(r), len |-> en(r) - lo + 1]
       ELSE IF st(r) <= lo /\ en(r) >= hi THEN [at |-> lo - st(r), len |-> hi - lo + 1]
       ELSE [at |-> 0, len |-> 0]
AggsNow(r) == {a \in Agg : Touches(r, a) /\ Share(r, a, round[r]).len > 0}

\* Mutant: the last byte of the round is left out.
WantedLess(w, lo, hi) ==
    IF lo <= w.off /\ w.off <= hi THEN Min({w.amt, hi - w.off}) ELSE 0
\* What an aggregator exchanges with a process of whose data w remains, in the
\* round that goes from lo to hi.
Wanted(w, lo, hi) ==
    LET in(x) == lo <= x /\ x <= hi
    IN IF in(w.off) THEN IF w.off + w.amt <= hi THEN w.amt ELSE hi - w.off + 1
       ELSE IF in(w.off + w.amt) THEN w.off - lo + 1
       ELSE 0

\* dataSize...ThisRoundPerProc of aggregator process r
Sizes(r) ==
    [q \in Rank |-> IF q \notin Peers(r) THEN 0
                    ELSE Wanted(rem[r][q], Lo(MyAgg(r), round[r]), Hi(MyAgg(r), round[r]))]

\* Mutant: everything is received at the start of the buffer.
PlaceStart(sizes, q) == 0
\* currentWBOffset
Place(sizes, q) == MapThenSumSet(LAMBDA p : sizes[p], 0 .. q - 1)
Total(sizes) == MapThenSumSet(LAMBDA p : sizes[p], Rank)

Advance(r, sizes) ==
    rem' = [rem EXCEPT ![r] = [q \in Rank |->
        IF sizes[q] > 0 THEN [off |-> @[q].off + sizes[q], amt |-> @[q].amt - sizes[q]]
        ELSE @[q]]]
-----------------------------------------------------------------------------
(***************************************************************************)
(* Messages.  A data message carries its bytes, or, when the send is not   *)
(* eager, stands for a place in the sender's buffer until it is received.  *)
(***************************************************************************)
Size(n) == <<[kind |-> "size", len |-> n, buf |-> 0, at |-> 0, bytes |-> << >>]>>
Data(n, buf, at, bytes) ==
    <<[kind |-> "data", len |-> n, buf |-> buf, at |-> at, bytes |-> bytes]>>
Recv(kind, n, buf, at) == <<[kind |-> kind, len |-> n, buf |-> buf, at |-> at]>>

Slice(f, at, n) == [i \in 1 .. n |-> f[at + i - 1]]
UserData(r, sh) == Data(sh.len, 0, sh.at, [i \in 1 .. sh.len |-> st(r) + sh.at + i - 1])
BufData(r, at, n) ==
    Data(n, use[r], at, IF setup.eager THEN Slice(iobuf[r][use[r]], at, n) ELSE << >>)

\* Does a process exchange data in this round with the aggregator that is process
\* q, and which?
Meets(r, q) == \E a \in AggsNow(r) : AggRank(a) = q
ShareWith(r, q) == Share(r, MyAgg(q), round[r])

Waiting(r, kind) == \E q \in Rank : \E p \in Range(posted[r][q]) : p.kind = kind
Unsent(r, kind) ==
    ~setup.eager /\ \E q \in Rank : \E m \in Range(chan[r][q]) : m.kind = kind

Stored(f, at, bytes) ==
    [i \in DOMAIN f |-> IF i - at + 1 \in DOMAIN bytes THEN bytes[i - at + 1] ELSE f[i]]

\* MPI: the next message from s to d meets the next receive.
Deliver(s, d) ==
    /\ chan[s][d] # << >> /\ posted[d][s] # << >>
    /\ LET m == Head(chan[s][d])
           p == Head(posted[d][s])
           bytes == IF m.kind = "data" /\ m.bytes = << >> THEN Slice(iobuf[s][m.buf], m.at, m.len)
                    ELSE m.bytes
           data == p.kind = "data" /\ m.kind = "data"
           fits == write => p.at + p.len <= setup.buf
       IN /\ misuse' = (misuse \/ m.kind # p.kind \/ (data /\ ~(m.len = p.len /\ fits)))
          /\ ask' = IF p.kind = "size" THEN [ask EXCEPT ![d][s] = m.len] ELSE ask
          /\ iobuf' = IF data /\ write
                      THEN [iobuf EXCEPT ![d][p.buf] = Stored(@, p.at, bytes)] ELSE iobuf
          /\ user' = IF data /\ ~write
                     THEN [user EXCEPT ![d] = Stored(@, p.at, bytes)] ELSE user
    /\ chan' = [chan EXCEPT ![s][d] = Tail(@)]
    /\ posted' = [posted EXCEPT ![d][s] = Tail(@)]
    /\ UNCHANGED <<call, pc, round, rem, got, todo, cur, use, file, thread, bar, err,
                   failed>>
-----------------------------------------------------------------------------
(***************************************************************************)
(* The I/O thread and the calls both directions share.                     *)
(***************************************************************************)
NoThread == [on |-> "none", buf |-> 0, off |-> 0, n |-> 0, at |-> 0, err |-> "none"]

\* The transfer of one byte between a half of the buffer and the file.
Transfer(r, buf, off, at) ==
    IF write THEN file' = [file EXCEPT ![off + at] = iobuf[r][buf][at]] /\ UNCHANGED iobuf
    ELSE iobuf' = [iobuf EXCEPT ![r][buf][at] = file[off + at]] /\ UNCHANGED file

\* ADIOI_IO_Thread_Func, byte by byte; it may fail at any of them.
ThreadStep(r) ==
    LET t == thread[r]
    IN /\ t.on = "running"
       /\ \/ /\ t.at < t.n /\ Transfer(r, t.buf, t.off, t.at)
             /\ thread' = [thread EXCEPT ![r].at = @ + 1]
             /\ UNCHANGED failed
          \/ /\ t.at >= t.n
             /\ thread' = [thread EXCEPT ![r].on = "done"]
             /\ UNCHANGED <<file, iobuf, failed>>
          \/ /\ t.at < t.n /\ "io" \in setup.faults /\ failed = {}
             /\ failed' = {<<"thread", r>>}
             /\ thread' = [thread EXCEPT ![r].on = "done", ![r].err = "io"]
             /\ UNCHANGED <<file, iobuf>>
    /\ UNCHANGED <<call, pc, round, counts, cur, use, user, net, bar, err, misuse>>

Joinable(r) == thread[r].on # "running"

\* Mutant: the halves are not exchanged.
SwapNever(b) == b
\* The pointer shuffling.
Swap(b) == 1 - b

\* pthread_create, for n bytes at off of half buf; when it fails nobody does it.
Start(r, buf, off, n) ==
    \/ /\ thread' = [thread EXCEPT ![r] = [NoThread EXCEPT !.on = "running", !.buf = buf,
                                                         !.off = off, !.n = n]]
       /\ UNCHANGED failed
    \/ /\ "create" \in setup.faults /\ failed = {}
       /\ failed' = {<<"create", r>>} /\ thread' = [thread EXCEPT ![r] = NoThread]

\* *error_code after pthread_join
ThreadRet(r) == IF thread[r].on = "none" THEN err[r] ELSE thread[r].err

\* The thread of the round before is joined, if there is one: the call goes on, ...
Joined(r) ==
    /\ Joinable(r) /\ (thread[r].on = "done" => ThreadRet(r) = "none")
    /\ err' = [err EXCEPT ![r] = ThreadRet(r)]
\* ... or returns at once, when the thread reports an error.
ReturnError(r) ==
    /\ thread[r].on = "done" /\ ThreadRet(r) # "none"
    /\ err' = [err EXCEPT ![r] = ThreadRet(r)]
    /\ thread' = [thread EXCEPT ![r] = NoThread]
    /\ pc' = [pc EXCEPT ![r] = "returned"]

FinalJoin(r) == Joinable(r)

\* After the rounds: join the thread, enter the last barrier.
Final(r) ==
    /\ pc[r] = "final" /\ FinalJoin(r)
    /\ err' = [err EXCEPT ![r] = ThreadRet(r)]
    /\ thread' = IF Joinable(r) THEN [thread EXCEPT ![r] = NoThread] ELSE thread
    /\ bar' = [bar EXCEPT ![r] = @ + 1]
    /\ pc' = [pc EXCEPT ![r] = "barrier"]
    /\ UNCHANGED <<call, round, counts, buffers, net, failed, misuse>>

AfterRound(r) == IF round[r] + 1 < offs.rounds THEN "round" ELSE "final"

\* MPI_Barrier: of a round of a read, or the last one.
LeaveBarrier(r) ==
    /\ pc[r] \in {"sync", "barrier"} /\ \A q \in Rank : bar[q] >= bar[r]
    /\ IF pc[r] = "barrier"
       THEN pc' = [pc EXCEPT ![r] = "returned"] /\ UNCHANGED round
       ELSE pc' = [pc EXCEPT ![r] = AfterRound(r)] /\ round' = [round EXCEPT ![r] = @ + 1]
    /\ UNCHANGED <<call, counts, buffers, thread, net, bar, err, failed, misuse>>
-----------------------------------------------------------------------------
(***************************************************************************)
(* ADIOI_P2PContigWriteAggregation.                                        *)
(***************************************************************************)

\* Mutant: aggregators ask from the third round on.
AsksLate(k) == k > 1
\* In which rounds the aggregators ask for the data.
Asks(k) == k > 0

\* A round begins.  From the second one on a process first waits to be asked; in the
\* first one the data is sent and the receives are posted at once.
WriteRound(r) ==
    /\ write /\ pc[r] = "round"
    /\ LET k == round[r]
           sizes == Sizes(r)
       IN /\ got' = [got EXCEPT ![r] = sizes]
          /\ chan' = [chan EXCEPT ![r] = [q \in Rank |-> @[q]
                 \o (IF Asks(k) /\ sizes[q] > 0 THEN Size(sizes[q]) ELSE << >>)
                 \o (IF k = 0 /\ Meets(r, q) THEN UserData(r, ShareWith(r, q)) ELSE << >>)]]
          /\ posted' = [posted EXCEPT ![r] = [q \in Rank |-> @[q]
                 \o (IF k > 0 /\ Meets(r, q) THEN Recv("size", 1, 0, 0) ELSE << >>)
                 \o (IF k = 0 /\ sizes[q] > 0
                     THEN Recv("data", sizes[q], use[r], Place(sizes, q)) ELSE << >>)]]
          /\ todo' = [todo EXCEPT ![r] = IF k > 0 THEN AggsNow(r) ELSE {}]
          /\ pc' = [pc EXCEPT ![r] = IF k > 0 THEN "send" ELSE "recv"]
    /\ UNCHANGED <<call, round, rem, ask, buffers, thread, bar, err, failed, misuse>>

\* MPI_Waitany on the sizes the aggregators ask for: the data of one is sent.
SendData(r, a) ==
    /\ pc[r] = "send" /\ a \in todo[r]
    /\ LET q == AggRank(a)
           sh == Share(r, a, round[r])
       IN /\ \A p \in Range(posted[r][q]) : p.kind # "size"
          /\ misuse' = (misuse \/ ask[r][q] # sh.len)
          /\ chan' = [chan EXCEPT ![r][q] = @ \o UserData(r, sh)]
    /\ todo' = [todo EXCEPT ![r] = @ \ {a}]
    /\ UNCHANGED <<call, pc, round, rem, got, ask, buffers, thread, posted, bar, err,
                   failed>>

\* All is sent; the aggregator posts its receives.
PostReceives(r) ==
    /\ pc[r] = "send" /\ todo[r] = {}
    /\ posted' = [posted EXCEPT ![r] = [q \in Rank |-> @[q] \o
           IF got[r][q] > 0 THEN Recv("data", got[r][q], use[r], Place(got[r], q)) ELSE << >>]]
    /\ pc' = [pc EXCEPT ![r] = "recv"]
    /\ UNCHANGED <<call, round, counts, buffers, thread, chan, bar, err, failed, misuse>>

\* The data is there, and the requests for it have been received.
Received(r) ==
    /\ pc[r] = "recv" /\ ~Waiting(r, "data") /\ ~Unsent(r, "size")
    /\ Advance(r, got[r])
    /\ pc' = [pc EXCEPT ![r] = "write"]
    /\ UNCHANGED <<call, round, got, todo, ask, buffers, thread, net, bar, err, failed,
                   misuse>>

\* currentRoundFDStart
Offset(r) == Lo(MyAgg(r), round[r])

\* Nothing to write; or a WriteContig by the process itself; or the thread of the
\* round before is joined, the halves are exchanged and a thread is started.
Write(r) ==
    /\ pc[r] = "write"
    /\ LET n == Total(got[r])
       IN \/ /\ n = 0 /\ pc' = [pc EXCEPT ![r] = "sent"]
             /\ UNCHANGED <<file, cur, use, thread, err, failed>>
          \/ /\ n > 0 /\ ~UseIOBuffer
             /\ \/ /\ file' = Stored(file, Offset(r), Slice(iobuf[r][use[r]], 0, n))
                   /\ err' = [err EXCEPT ![r] = "none"] /\ UNCHANGED failed
                \/ /\ "io" \in setup.faults /\ failed = {}
                   /\ err' = [err EXCEPT ![r] = "io"] /\ failed' = {<<"io", r>>} /\ UNCHANGED file
             /\ pc' = [pc EXCEPT ![r] = "sent"]
             /\ UNCHANGED <<cur, use, thread>>
          \/ /\ n > 0 /\ UseIOBuffer /\ ReturnError(r)
             /\ UNCHANGED <<file, cur, use, failed>>
          \/ /\ n > 0 /\ UseIOBuffer /\ Joined(r)
             /\ Start(r, cur[r], Offset(r), n)
             /\ cur' = [cur EXCEPT ![r] = Swap(@)]
             /\ use' = [use EXCEPT ![r] = Swap(cur[r])]
             /\ pc' = [pc EXCEPT ![r] = "sent"]
             /\ UNCHANGED file
    /\ UNCHANGED <<call, round, counts, iobuf, user, net, bar, misuse>>

\* The sends of the round are complete.
WriteRoundEnd(r) ==
    /\ pc[r] = "sent" /\ ~Unsent(r, "data")
    /\ pc' = [pc EXCEPT ![r] = AfterRound(r)]
    /\ round' = [round EXCEPT ![r] = @ + 1]
    /\ UNCHANGED <<call, counts, buffers, thread, net, bar, err, failed, misuse>>
-----------------------------------------------------------------------------
(***************************************************************************)
(* ADIOI_P2PContigReadAggregation.                                         *)
(***************************************************************************)
\* amountDataToReadThisRound, of round k
Amount(r, k) == Hi(MyAgg(r), k) - Lo(MyAgg(r), k) + 1

\* A round begins.  The aggregator reads the first one, and without threads all of
\* them, itself.
ReadRound(r) ==
    /\ ~write /\ pc[r] = "round"
    /\ LET n == Amount(r, round[r])
       IN IF IsUsedAgg(r) /\ (~UseIOBuffer \/ round[r] = 0)
          THEN /\ \/ /\ iobuf' = [iobuf EXCEPT ![r][use[r]] =
                                     Stored(@, 0, Slice(file, Lo(MyAgg(r), round[r]), n))]
                     /\ err' = [err EXCEPT ![r] = "none"] /\ UNCHANGED failed
                  \/ /\ "io" \in setup.faults /\ failed = {}
                     /\ err' = [err EXCEPT ![r] = "io"] /\ failed' = {<<"io", r>>} /\ UNCHANGED iobuf
               /\ cur' = [cur EXCEPT ![r] = 1]
               /\ misuse' = (misuse \/ n < 0)
          ELSE UNCHANGED <<iobuf, cur, err, failed, misuse>>
    /\ pc' = [pc EXCEPT ![r] = IF IsUsedAgg(r) /\ UseIOBuffer THEN "ahead" ELSE "exchange"]
    /\ UNCHANGED <<call, round, counts, use, user, file, thread, net, bar>>

\* The thread that read this round is joined; one is started for the next round, or
\* in the last round only the buffer it filled is taken.
ReadAhead(r) ==
    /\ pc[r] = "ahead"
    /\ LET next == round[r] + 1
           n == Amount(r, next)
       IN \/ /\ ReturnError(r)
             /\ UNCHANGED <<cur, use, failed, misuse>>
          \/ /\ next < offs.rounds /\ Joined(r)
             /\ Start(r, cur[r], Lo(MyAgg(r), next), n)
             /\ misuse' = (misuse \/ n < 0)
             /\ cur' = [cur EXCEPT ![r] = Swap(@)]
             /\ use' = [use EXCEPT ![r] = Swap(cur[r])]
             /\ pc' = [pc EXCEPT ![r] = "exchange"]
          \/ /\ next = offs.rounds /\ Joined(r)
             /\ thread' = [thread EXCEPT ![r] = NoThread]
             /\ use' = [use EXCEPT ![r] = Swap(cur[r])]
             /\ pc' = [pc EXCEPT ![r] = "exchange"]
             /\ UNCHANGED <<cur, failed, misuse>>
    /\ UNCHANGED <<call, round, counts, iobuf, user, file, net, bar>>

\* Receives are posted for what the aggregators have for this process, and the
\* aggregator sends what it has read.
Exchange(r) ==
    /\ pc[r] = "exchange"
    /\ LET sizes == Sizes(r)
       IN /\ got' = [got EXCEPT ![r] = sizes]
          /\ posted' = [posted EXCEPT ![r] = [q \in Rank |-> @[q] \o
                 IF Meets(r, q)
                 THEN Recv("data", ShareWith(r, q).len, 0, ShareWith(r, q).at) ELSE << >>]]
          /\ chan' = [chan EXCEPT ![r] = [q \in Rank |-> @[q] \o
                 IF sizes[q] > 0 THEN BufData(r, Place(sizes, q), sizes[q]) ELSE << >>]]
          /\ Advance(r, sizes)
    /\ pc' = [pc EXCEPT ![r] = "wait"]
    /\ UNCHANGED <<call, round, todo, ask, buffers, thread, bar, err, failed, misuse>>

\* The receives and the sends are complete: the barrier of the round.
Exchanged(r) ==
    /\ pc[r] = "wait" /\ ~Waiting(r, "data") /\ ~Unsent(r, "data")
    /\ bar' = [bar EXCEPT ![r] = @ + 1]
    /\ pc' = [pc EXCEPT ![r] = "sync"]
    /\ UNCHANGED <<call, round, counts, buffers, thread, net, err, failed, misuse>>
-----------------------------------------------------------------------------
InitOf(s) ==
    /\ setup = s /\ dom = Domains(s)
    /\ offs = [st |-> St(s), en |-> En(s), rounds |-> Rounds(s)]
    /\ pc = [r \in Rank |-> "round"] /\ round = [r \in Rank |-> 0]
    /\ rem = [r \in Rank |-> [q \in Rank |->
                IF q \in Peers(r) THEN Part(q, MyAgg(r)) ELSE [off |-> 0, amt |-> 0]]]
    /\ got = [r \in Rank |-> [q \in Rank |-> 0]] /\ ask = got
    /\ todo = [r \in Rank |-> {}]
    /\ cur = [r \in Rank |-> 0] /\ use = cur
    /\ iobuf = [r \in Rank |-> [b \in 0 .. 1 |-> [i \in 0 .. s.buf - 1 |-> Garbage]]]
    /\ user = [r \in Rank |-> [i \in 0 .. s.lens[r] - 1 |-> Garbage]]
    /\ file = [o \in 0 .. Before(s, NRanks) - 1 |-> IF s.kind = "write" THEN Garbage ELSE o]
    /\ thread = [r \in Rank |-> NoThread]
    /\ chan = [r \in Rank |-> [q \in Rank |-> << >>]] /\ posted = chan
    /\ bar = [r \in Rank |-> 0] /\ err = [r \in Rank |-> "none"]
    /\ failed = {} /\ misuse = FALSE
Init == \E s \in Setups : InitOf(s)

RankStep(r) ==
    \/ WriteRound(r) \/ PostReceives(r) \/ Received(r) \/ Write(r) \/ WriteRoundEnd(r)
    \/ \E a \in Agg : SendData(r, a)
    \/ ReadRound(r) \/ ReadAhead(r) \/ Exchange(r) \/ Exchanged(r)
    \/ Final(r) \/ LeaveBarrier(r)

AllReturned == \A r \in Rank : pc[r] = "returned"
\* An aggregator has returned from within the rounds: the others never will.
GaveUp == UseIOBuffer /\ \E r \in Rank : pc[r] = "returned" /\ err[r] = "io"

Next ==
    \/ \E r \in Rank : RankStep(r) \/ ThreadStep(r)
    \/ \E s, d \in Rank : Deliver(s, d)

\* Processes, threads and MPI make progress.
Fairness ==
    /\ \A r \in Rank : WF_vars(RankStep(r)) /\ WF_vars(ThreadStep(r))
    /\ \A s, d \in Rank : WF_vars(Deliver(s, d))
Spec == Init /\ [][Next]_vars /\ Fairness
-----------------------------------------------------------------------------
Steps == {"round", "send", "recv", "write", "sent", "ahead", "exchange", "wait", "sync",
            "final", "barrier", "returned"}

TypeOK ==
    /\ pc \in [Rank -> Steps]
    /\ \A r \in Rank :
        /\ round[r] \in 0 .. offs.rounds /\ bar[r] \in 0 .. offs.rounds + 1
        /\ todo[r] \subseteq Agg /\ cur[r] \in 0 .. 1 /\ use[r] \in 0 .. 1
        /\ got[r] \in [Rank -> 0 .. setup.buf] /\ ask[r] \in [Rank -> 0 .. setup.buf]
        /\ thread[r].on \in {"none", "running", "done"} /\ thread[r].buf \in 0 .. 1
        /\ err[r] \in {"none", "io"}
    /\ misuse \in BOOLEAN

\* Process and aggregator compute, each on its own and for every round, how much they
\* exchange: no message meets a receive of another kind or length although all share
\* one tag, the size asked for is the size sent (the assertion in
\* p2p_aggregation.c:305), what is received fits into the buffer, and no read has a
\* negative length (p2p_aggregation.c:659).
NoMisuse == ~misuse

\* While the I/O thread works on one half of the buffer, no receive is posted into it
\* and no send out of it is outstanding (p2p_aggregation.c:407, 706).
BuffersApart ==
    \A r \in Rank : thread[r].on = "running" =>
        \A q \in Rank :
            /\ write => \A p \in Range(posted[r][q]) :
                            p.kind = "data" => p.buf # thread[r].buf
            /\ ~(write \/ setup.eager) => \A m \in Range(chan[r][q]) : m.buf # thread[r].buf

\* The thread uses a structure on the stack of the call: it is over when the call
\* returns, with an error or without (p2p_aggregation.c:447).
NoThreadLeft == \A r \in Rank : pc[r] = "returned" => thread[r].on = "none"

\* A process that returns from a write finds the data of all processes in the file,
\* and one that returns from a read has its own, if nothing failed.
DataRight ==
    \A r \in Rank : pc[r] = "returned" /\ failed = {} =>
        IF write THEN \A o \in DOMAIN file : file[o] = o
        ELSE \A i \in DOMAIN user[r] : user[r][i] = st(r) + i

\* An error of the I/O thread reaches the caller, from whichever round it is
\* (p2p_aggregation.c:398, 448).
ThreadErrorReported ==
    \A r \in Rank : pc[r] = "returned" /\ <<"thread", r>> \in failed => err[r] = "io"

\* Everybody returns, with slow threads, sends that complete late, failing
\* pthread_create and errors of the process's own writes; only after an error of the
\* I/O thread, when one aggregator leaves the rounds, the others may wait for it.
CallReturns == <>(AllReturned \/ GaveUp)
=============================================================================
