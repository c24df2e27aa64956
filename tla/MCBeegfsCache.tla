---------------------------- MODULE MCBeegfsCache -----------------------------
EXTENDS BeegfsCache

\* Writes of one block, and of both.
MCExtents == {{0}, {0, 1}}
\* An open that creates the file, two with MPI_MODE_EXCL, one of a missing file.
MCOpens == {[mode |-> x[1], coherent |-> x[2], old |-> x[3]] :
                x \in {<<"create", TRUE, FALSE>>, <<"excl", FALSE, FALSE>>,
                                <<"excl", FALSE, TRUE>>, <<"plain", TRUE, FALSE>>}}
MCFaults == {{"create", "real"}, {"open"}, {"short", "pwrite"}, {"range"}, {"wait"}}
=============================================================================
