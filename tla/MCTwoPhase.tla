----------------------------- MODULE MCTwoPhase ------------------------------
(***************************************************************************)
(* Hints and requests for model checking TwoPhase.                         *)
(***************************************************************************)
EXTENDS TwoPhase

P(o, l) == [off |-> o, len |-> l]
Req3(a, b, c) == (0 :> a) @@ (1 :> b) @@ (2 :> c)

Hint(r, s, u, f, cb, ca) ==
    [ranklist |-> r, cb_buffer_size |-> s, striping_unit |-> u,
     min_fdomain_size |-> f, cb |-> cb, cached |-> ca]

\* Two aggregators with several rounds; one aggregator (the broadcast at the
\* end); domains aligned to stripes, in an order that is not the ranks'.
MCHints ==
    {Hint(<<0, 2>>, 2, 0, 0, "enable", FALSE),
     Hint(<<1>>, 3, 0, 0, "automatic", FALSE),
     Hint(<<2, 0>>, 3, 4, 2, "automatic", FALSE)}

CachedHints == {Hint(<<0, 2>>, 2, 0, 0, "enable", TRUE)}

\* With holes and a rank without data; blocks in the order of the ranks, which
\* are not interleaved; strided, with ranks that access the same bytes; pieces of
\* one rank that overlap, in one file domain and across two.
Holes == Req3(<<P(1, 1), P(5, 1)>>, <<P(0, 0)>>, <<P(3, 1)>>)
Blocks == Req3(<<P(0, 2)>>, <<P(2, 2)>>, <<P(5, 1)>>)
Strided == Req3(<<P(0, 1), P(3, 1)>>, <<P(1, 4)>>, <<P(2, 1), P(5, 1)>>)
Overlap == Req3(<<P(0, 3), P(1, 3), P(2, 1)>>, <<P(1, 2)>>, <<P(5, 2)>>)
Across == Req3(<<P(2, 3), P(3, 3)>>, <<P(0, 1)>>, <<P(6, 1)>>)

R(r) == [kind |-> "read", req |-> r, contig |-> TRUE]
W(r) == [kind |-> "write", req |-> r, contig |-> TRUE]
\* The rank without data has a file view with holes.
Spread(c) == [c EXCEPT !.contig = FALSE]

MCPrograms ==
    {<<W(Holes), R(Strided)>>, <<W(Strided), Spread(W(Holes))>>,
     <<W(Blocks), Spread(R(Holes))>>, <<R(Overlap), W(Holes)>>,
     <<Spread(W(Holes)), R(Overlap)>>, <<R(Blocks), W(Blocks)>>,
     <<Spread(W(Holes)), W(Strided)>>}

Under(hs, ps) == {[hints |-> h, calls |-> g] : h \in hs, g \in ps}

MCSetups == Under(MCHints, MCPrograms) \cup Under(CachedHints, {<<W(Blocks), R(Holes)>>})
AcrossSetups == Under(MCHints, {<<R(Across)>>})
FailureSetups == Under(MCHints, {<<W(Holes)>>})
CachedSetups == Under(CachedHints, {<<W(Strided), W(Holes)>>})
=============================================================================
