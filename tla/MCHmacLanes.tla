---------------------------- MODULE MCHmacLanes ----------------------------
(***************************************************************************)
(* A small instance of HmacLanes.  No symmetry: it has liveness to check.  *)
(***************************************************************************)
EXTENDS HmacLanes

\* Less than a block, with one extra block; two blocks and more, with two.
SomeLens == {20, 188}

=============================================================================
