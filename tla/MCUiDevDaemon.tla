--------------------------- MODULE MCUiDevDaemon ----------------------------
(* Two clients and the watcher.  A request and a build of the watcher ask  *)
(* the runtime one command at most.                                        *)
EXTENDS UiDevDaemon

AllIds == 1 .. (MaxCalls + MaxEdits)
=============================================================================
