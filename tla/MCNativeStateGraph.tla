------------------------- MODULE MCNativeStateGraph -------------------------
(* The loop's thread and another one, both of which flush; two paths, one    *)
(* above the other; one subscription, to the subtree of the upper path or to *)
(* the lower path alone.                                                     *)
EXTENDS NativeStateGraph

CONSTANTS main, other, s1

A == <<"a">>
AB == <<"a", "b">>

BothPaths == {A, AB}
BothThreads == {main, other}
OnA == s1 :> A
OnAB == s1 :> AB
Subtree == s1 :> "subtree"
Exact == s1 :> "exact"
=============================================================================
