-------------------------- MODULE MCRenderTreeSync --------------------------
(* A container that may be hidden and two leaves, in every arrangement.    *)
EXTENDS RenderTreeSync

Twins == Permutations(Leaves)
=============================================================================
