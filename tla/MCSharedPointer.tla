--------------------------- MODULE MCSharedPointer ---------------------------
(* Values for the constants of SharedPointer that a .cfg cannot write.      *)
EXTENDS SharedPointer

\* A seek back, which from the start of the file is an error, and one forward.
MCOffsets == {-1, 1}
=============================================================================
