--------------------------- MODULE PromiseContract --------------------------
(***************************************************************************)
(* What `await backend.name(args)` promises to JavaScript.  A call hands   *)
(* out a pending promise; the host callback runs for it at most once; the  *)
(* promise settles once, never changes afterwards, and is fulfilled only   *)
(* with a result the callback really returned.  Once the bridge is gone    *)
(* nothing settles any more, so it may go only when nothing is pending.    *)
(***************************************************************************)
CONSTANT Promises

VARIABLES promise, returned, gone

ContractInit ==
  /\ promise = [p \in Promises |-> "none"]
  /\ returned = [p \in Promises |-> "none"]
  /\ gone = FALSE

Issue(p) ==
  /\ ~gone /\ promise[p] = "none"
  /\ promise' = [promise EXCEPT ![p] = "pending"]
  /\ UNCHANGED <<returned, gone>>

HostReturn(p) ==
  /\ promise[p] # "none" /\ returned[p] = "none"
  /\ \E r \in {"ok", "fail"} : returned' = [returned EXCEPT ![p] = r]
  /\ UNCHANGED <<promise, gone>>

Fulfil(p) ==
  /\ ~gone /\ promise[p] = "pending" /\ returned[p] = "ok"
  /\ promise' = [promise EXCEPT ![p] = "fulfilled"]
  /\ UNCHANGED <<returned, gone>>

\* A failed call, a closed pool and the end of the bridge all reject.
Reject(p) ==
  /\ ~gone /\ promise[p] = "pending"
  /\ promise' = [promise EXCEPT ![p] = "rejected"]
  /\ UNCHANGED <<returned, gone>>

Vanish ==
  /\ \A p \in Promises : promise[p] # "pending"
  /\ gone' = TRUE
  /\ UNCHANGED <<promise, returned>>

ContractNext ==
  \/ \E p \in Promises : Issue(p) \/ HostReturn(p) \/ Fulfil(p) \/ Reject(p)
  \/ Vanish

ContractSpec == ContractInit /\ [][ContractNext]_<<promise, returned, gone>>
=============================================================================
