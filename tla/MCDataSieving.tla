---------------------------- MODULE MCDataSieving -----------------------------
EXTENDS DataSieving

P(o, n) == [off |-> o, len |-> n]
W(q) == [kind |-> "write", pieces |-> q]
R(q) == [kind |-> "read", pieces |-> q]
K(o, n) == [kind |-> "contig", pieces |-> <<P(o, n)>>]

Comb(o) == <<P(o, 1), P(o + 2, 1), P(o + 4, 1)>>
Wide(o) == <<P(o, 2), P(o + 3, 3)>>

\* Interleaved combs, overlapping writes and reads; in atomic mode contiguous
\* writes too, in nonatomic mode only where no window lies over them.
MCScenarios ==
    {[atomic |-> a, ops |-> <<x, y, z>>] :
        a \in BOOLEAN, x \in {W(Comb(0)), W(Wide(1))},
        y \in {W(Comb(1)), W(Comb(2)), R(Comb(0))}, z \in {W(Wide(0)), R(Wide(1))}}
    \cup {[atomic |-> TRUE, ops |-> <<x, y, K(1, 2)>>] :
        x \in {W(Comb(0)), R(Comb(0))}, y \in {W(Wide(0)), R(Wide(0))}}
    \cup {[atomic |-> FALSE, ops |-> <<W(Comb(0)), z, R(<<P(2, 2)>>)>>] :
        z \in {K(5, 2), W(<<P(6, 1)>>)}}

ASSUME ScenariosApart == \A s \in MCScenarios : Apart(s)

\* One block of the view, or a contiguous write, in the hole of another's window.
OneBlock == {[atomic |-> TRUE, ops |-> <<W(Comb(0)), W(<<P(1, 1)>>), R(Comb(0))>>]}
InHole == {[atomic |-> FALSE, ops |-> <<W(Comb(0)), K(1, 1), R(Comb(0))>>]}
=============================================================================
