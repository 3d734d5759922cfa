-------------------------- MODULE MCHostBridgeEvents ------------------------
(* Small instances of HostBridgeEvents.                                    *)
EXTENDS HostBridgeEvents, TLC

CONSTANTS l1, l2, l3

ListenersAreAlike == Permutations({l1, l2, l3})
=============================================================================
