--------------------------- MODULE MCP2PAggregation ---------------------------
(* Calls for P2PAggregation: three ranks, two or three aggregators.          *)
EXTENDS P2PAggregation, TLC

Call(kind, lens, aggs, buf, threaded, eager, faults) ==
    [kind |-> kind, lens |-> lens, aggs |-> aggs, buf |-> buf, min |-> 0, unit |-> 0,
     threaded |-> threaded, eager |-> eager, faults |-> faults]

\* What the algorithm relies on: everybody has data and touches no more than two
\* domains, no domain is one byte, the rounds suffice, and a read has no round that
\* begins beyond the end of a domain.
Regular(s) ==
    LET d == Domains(s)
        used == {a \in DOMAIN d.fd_start : d.fd_start[a] >= 0}
        last == (Rounds(s) - 1) * s.buf
        len(a) == d.fd_end[a] - d.fd_start[a] + 1
    IN /\ \A r \in Rank : s.lens[r] > 0
       /\ \A a \in used : len(a) > 1 /\ len(a) <= Rounds(s) * s.buf
       /\ s.kind = "read" => \A a \in used : len(a) >= last
       /\ \A r \in Rank, a \in used :
             ~(St(s)[r] < d.fd_start[a] /\ d.fd_end[a] < En(s)[r])

Lens(a, b, c) == (0 :> a) @@ (1 :> b) @@ (2 :> c)
Kinds == {"write", "read"}

\* Two rounds, all ways to divide the data; three rounds, with both halves of the
\* buffer used again; three aggregators; and faults.
Plain ==
    {Call(k, l, <<2, 0>>, 2, t, e, {}) : k \in Kinds, l \in [Rank -> 1 .. 3],
                                         t \in BOOLEAN, e \in BOOLEAN}
Long ==
    {Call(k, Lens(4, 1, 5), <<0, 1>>, 2, t, FALSE, {}) : k \in Kinds, t \in BOOLEAN}
Three ==
    {Call(k, Lens(1, 3, 2), <<0, 1, 2>>, 1, TRUE, e, {}) : k \in Kinds, e \in BOOLEAN}
Faulty ==
    {Call(k, Lens(3, 3, 3), <<0, 1>>, 2, t, TRUE, {"io"}) : k \in Kinds, t \in BOOLEAN}
    \cup {Call(k, Lens(3, 3, 3), <<0, 1>>, 2, TRUE, TRUE, {"create"}) : k \in Kinds}
MCSetups ==
    {s \in Plain : Regular(s) /\ Before(s, NRanks) = 5}
    \cup {s \in Long \cup Three \cup Faulty : Regular(s)}

\* Calls outside of Regular, one condition each.
SpanSetups == {Call("write", Lens(1, 7, 1), <<0, 1, 2>>, 3, FALSE, TRUE, {})}
ByteSetups == {Call("write", Lens(1, 1, 1), <<0, 1>>, 2, FALSE, FALSE, {})}
EmptySetups == {Call("write", Lens(2, 0, 2), <<0, 1>>, 2, FALSE, TRUE, {})}
RoundsSetups == {[Call("write", Lens(2, 2, 2), <<0, 1>>, 2, FALSE, TRUE, {}) EXCEPT !.min = 6]}
ShortSetups == {Call("read", Lens(4, 4, 2), <<0, 1, 2>>, 1, TRUE, TRUE, {})}
=============================================================================
