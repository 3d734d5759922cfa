--------------------------- MODULE MCFetchBindings --------------------------
(* Two requests, two tasks of other clients, two workers, two callers (one of  *)
(* them the main thread).  The system may stop once every task has an end.     *)
EXTENDS FetchBindings
=============================================================================
