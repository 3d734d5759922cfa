--------------------------- MODULE MCSharedObject ---------------------------
(* One property with two values, one or two host threads and the main        *)
(* thread.                                                                   *)
EXTENDS SharedObject

CONSTANTS x, a, b, w1, w2, main, script
=============================================================================
