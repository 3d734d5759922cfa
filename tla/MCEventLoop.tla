----------------------------- MODULE MCEventLoop ----------------------------
(* Small instances of EventLoop: two posting threads, one that leaves work  *)
(* without a Wake, one that stops, an input and the closing of the window.  *)
EXTENDS EventLoop, TLC

CONSTANTS p1, p2, f1, s1, i1

PostersAreAlike == Permutations({p1, p2})
=============================================================================
