----------------------------- MODULE MCFileView ------------------------------
EXTENDS FileView

Bk(i, n) == [idx |-> i, len |-> n]
V(c, d, e, bs, x) == [contig |-> c, disp |-> d, esize |-> e, blocks |-> bs, extent |-> x]
B(c, bs, x) == [contig |-> c, blocks |-> bs, extent |-> x]

\* Contiguous ones, two blocks with holes, markers around and between blocks,
\* a whole block that is not known to be contiguous, adjacent blocks.
MCViews ==
    {V(TRUE, 0, 1, <<Bk(0, 1)>>, 1),
     V(TRUE, 1, 2, <<Bk(0, 2)>>, 2),
     V(FALSE, 1, 2, <<Bk(0, 2), Bk(3, 4)>>, 8),
     V(FALSE, 0, 1, <<Bk(0, 0), Bk(2, 2), Bk(6, 0)>>, 6),
     V(FALSE, 2, 1, <<Bk(1, 1), Bk(3, 0), Bk(4, 2)>>, 7),
     V(FALSE, 0, 3, <<Bk(0, 3)>>, 3),
     V(FALSE, 1, 1, <<Bk(1, 1), Bk(2, 2)>>, 4)}

MCBuffers ==
    {B(TRUE, <<Bk(0, 1)>>, 1), B(TRUE, <<Bk(0, 3)>>, 3),
     B(FALSE, <<Bk(0, 1), Bk(3, 0), Bk(2, 1)>>, 4)}

MCOffsets == -1 .. 3
=============================================================================
