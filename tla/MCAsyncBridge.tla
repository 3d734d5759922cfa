---------------------------- MODULE MCAsyncBridge ---------------------------
(* Two workers, a few calls, one main thread; the cfg names the pool's owner. *)
EXTENDS AsyncBridge
=============================================================================
