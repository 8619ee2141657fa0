------------------------------- MODULE MCPaging -------------------------------
(* Lists of pages for TLC.                                                   *)
EXTENDS Paging, TLC

CONSTANTS p1, p2

\* None to three pages, the last one to come first.
UpToThree == {<< >>, <<p1>>, <<p2, p1>>, <<p1, p2, p1>>}
Three     == {<<p1, p2, p1>>}

ThreadSymmetry == Permutations(Threads)
=============================================================================
