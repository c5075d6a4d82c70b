----------------------------- MODULE MCAesLanes -----------------------------
(***************************************************************************)
(* Small instances of AesLanes.                                            *)
(***************************************************************************)
EXTENDS AesLanes

\* A block, a length that is not whole, and the longest for words up to 79.
SomeLens == {16, 40, 78}

=============================================================================
