----------------------------- MODULE FileDomains ------------------------------
(***************************************************************************)
(* How a collective access is divided among the aggregators                *)
(* (adio/common/ad_aggregate.c): the file domains, the aggregator a byte   *)
(* belongs to, and the pieces every rank asks of every aggregator.         *)
(*                                                                         *)
(* A request is a sequence of pieces [off, len] in the order of the user's *)
(* buffer; offsets do not decrease along it.  Aggregators are numbered     *)
(* from 0, as in the arrays fd_start and fd_end.                           *)
(***************************************************************************)
EXTENDS Integers, Sequences, FiniteSetsExt, SequencesExt

EndOf(r) == r.off + r.len

\* start_offset and end_offset of ADIOI_Calc_my_off_len: the first byte and the
\* last one.  A request of no data ends before it starts in a contiguous file view,
\* and at 0 in any other: the loop that would set end_offset is not entered.
StartOffset(req) == req[1].off
EndOffset(req, contig) ==
    LET last == req[Len(req)]
    IN IF last.len = 0 /\ ~contig THEN 0 ELSE EndOf(last) - 1

\* The file-lock boundary nearest to e.
Align(e, unit) ==
    LET rem_front == e % unit
        rem_back == unit - rem_front
    IN IF rem_front < rem_back THEN e - rem_front ELSE e + rem_back

\* ADIOI_Calc_file_domains for the gathered offsets st and en, n aggregators,
\* the least domain size and the striping unit (0: not set).
CalcFileDomains(st, en, n, min_fd_size, striping_unit) ==
    LET lo == Min({st[p] : p \in DOMAIN st})
        hi == Max({en[p] : p \in DOMAIN en})
        size == Max({(hi - lo + 1 + n - 1) \div n, min_fd_size})
        end(i) == IF striping_unit = 0 THEN lo + size * (i + 1) - 1
                  ELSE IF i = n - 1 THEN hi
                  ELSE Align(lo + size * (i + 1), striping_unit) - 1
        start(i) == IF i = 0 THEN lo ELSE end(i - 1) + 1
    IN [fd_size |-> size, min_st_offset |-> lo, unit |-> striping_unit,
        fd_start |-> [i \in 0 .. n - 1 |-> IF start(i) > hi THEN -1 ELSE start(i)],
        fd_end |-> [i \in 0 .. n - 1 |-> IF start(i) > hi THEN -1
                                         ELSE Min({end(i), hi})]]

\* ADIOI_Calc_aggregator: the number of the aggregator that owns the byte.
CalcAggregator(off, d) ==
    IF d.unit > 0 THEN Min({i \in DOMAIN d.fd_end : off <= d.fd_end[i]})
    ELSE (off - d.min_st_offset + d.fd_size) \div d.fd_size - 1

\* ... and how much of a piece is in that aggregator's domain.
AvailLen(off, len, d) == Min({len, d.fd_end[CalcAggregator(off, d)] + 1 - off})

\* One piece cut at the ends of the domains; idx is its place in the buffer.
Split(off, len, idx, d) ==
    LET cut[n \in 0 .. len] ==   \* the first n bytes are done
            IF n = len THEN << >>
            ELSE LET r == [agg |-> CalcAggregator(off + n, d), off |-> off + n,
                           len |-> AvailLen(off + n, len - n, d), idx |-> idx + n]
                 IN <<r>> \o cut[n + r.len]
    IN cut[0]

SumLen(req) == FoldLeft(LAMBDA acc, r : acc + r.len, 0, req)

\* ADIOI_Calc_my_req: the whole request cut at the ends of the domains.
Pieces(req, d) ==
    FlattenSeq([i \in DOMAIN req |->
        Split(req[i].off, req[i].len, SumLen(SubSeq(req, 1, i - 1)), d)])

\* my_req[a]: the pieces in aggregator a's domain.
MyReq(pieces, a) ==
    LET s == SelectSeq(pieces, LAMBDA r : r.agg = a)
    IN [i \in DOMAIN s |-> [off |-> s[i].off, len |-> s[i].len]]

\* buf_idx[a]: where in the user's buffer the data for aggregator a begins.
BufIdx(pieces, a) ==
    LET s == SelectSeq(pieces, LAMBDA r : r.agg = a)
    IN IF s = << >> THEN -1 ELSE s[1].idx

\* The bytes of the file a sequence of pieces stands for, in buffer order.
Places(req) ==
    FlattenSeq([i \in DOMAIN req |-> [k \in 1 .. req[i].len |-> req[i].off + k - 1]])
=============================================================================
