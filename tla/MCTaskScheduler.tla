-------------------------- MODULE MCTaskScheduler --------------------------
(***************************************************************************)
(* Two timers or frames with delays of up to one tick, two observers,      *)
(* three calls of the scripts in a pass.                                   *)
(***************************************************************************)
EXTENDS TaskScheduler

CONSTANTS t1, t2, o1, o2

MCIds == {t1, t2}
MCObservers == {o1, o2}
=============================================================================
