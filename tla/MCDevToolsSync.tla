--------------------------- MODULE MCDevToolsSync ---------------------------
(* Three requests to the server, one of which may take a snapshot and flush  *)
(* the queue from inside its task.                                           *)
EXTENDS DevToolsSync

CONSTANTS c1, c2, c3
=============================================================================
