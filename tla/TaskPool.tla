------------------------------ MODULE TaskPool ------------------------------
(***************************************************************************)
(* What a background task runner promises its callers: accepted tasks wait *)
(* in a line and start in its order while the pool is open; once it closes *)
(* nothing starts, the tasks still in line are dropped, and closing ends   *)
(* only when no task waits or runs.                                        *)
(***************************************************************************)
EXTENDS Sequences

CONSTANT Tasks

VARIABLES line, open, returned, fate

PoolInit ==
  /\ line = <<>>
  /\ open = TRUE
  /\ returned = FALSE
  /\ fate = [t \in Tasks |-> "new"]

Accept(t) ==
  /\ open /\ fate[t] = "new"
  /\ line' = Append(line, t)
  /\ fate' = [fate EXCEPT ![t] = "queued"]
  /\ UNCHANGED <<open, returned>>

Refuse(t) ==
  /\ ~open /\ fate[t] = "new"
  /\ fate' = [fate EXCEPT ![t] = "rejected"]
  /\ UNCHANGED <<line, open, returned>>

Start ==
  /\ open /\ line # <<>>
  /\ fate' = [fate EXCEPT ![Head(line)] = "running"]
  /\ line' = Tail(line)
  /\ UNCHANGED <<open, returned>>

Finish(t) ==
  /\ fate[t] = "running"
  /\ fate' = [fate EXCEPT ![t] = "done"]
  /\ UNCHANGED <<line, open, returned>>

Close ==
  /\ open
  /\ open' = FALSE
  /\ UNCHANGED <<line, returned, fate>>

Drop ==
  /\ ~open /\ line # <<>>
  /\ fate' = [fate EXCEPT ![Head(line)] = "dropped"]
  /\ line' = Tail(line)
  /\ UNCHANGED <<open, returned>>

Return ==
  /\ ~open /\ \A t \in Tasks : fate[t] \notin {"queued", "running"}
  /\ returned' = TRUE
  /\ UNCHANGED <<line, open, fate>>

PoolNext ==
  \/ \E t \in Tasks : Accept(t) \/ Refuse(t) \/ Finish(t)
  \/ Start \/ Drop \/ Close \/ Return

PoolSpec == PoolInit /\ [][PoolNext]_<<line, open, returned, fate>>
=============================================================================
