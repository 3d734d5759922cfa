--------------------------- MODULE MCStateManager --------------------------
(* The loop's thread and a worker of the host program; two paths, and two  *)
(* watchers of one of them.                                                *)
EXTENDS StateManager

CONSTANTS main, other, w1, w2

A == <<"a">>

BothThreads == {main, other}
TwoPaths == {A, <<"b">>}
BothWatchOne == w1 :> A @@ w2 :> A
NoSub == [s \in {} |-> A]
=============================================================================
