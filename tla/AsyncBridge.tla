----------------------------- MODULE AsyncBridge ----------------------------
(***************************************************************************)
(* Asynchronous host calls of core/bridge/host_bridge.cpp: jsBackendCall   *)
(* creates a promise on the main thread and posts the host callback to the *)
(* worker pool; a worker runs it and pushes a completion; the main thread  *)
(* settles completions in flushAsyncResults and rejects what is left in    *)
(* cancelPendingPromises.                                                  *)
(*                                                                         *)
(* The constructor takes a shared pool or makes one (host_bridge.cpp:20),  *)
(* and poolOwner says who shuts it down: "window", mblink_destroy, in its  *)
(* order (unbind, cancel, pool shutdown, bridge destructor); "other", any  *)
(* other holder of the shared_ptr (the bridge itself as its last member is *)
(* destroyed, or whoever passed the pool), at any time: what the rejected  *)
(* Post of host_bridge.cpp:305 is for.                                     *)
(*                                                                         *)
(* The pool is BackgroundTaskRunner with the promise ids as its tasks and  *)
(* the main thread as its only caller.                                     *)
(***************************************************************************)
EXTENDS BackgroundTaskRunner

CONSTANT PoolOwners   \* who may shut the pool down

ASSUME PoolOwnersAreKnown == PoolOwners \subseteq {"window", "other"}
ASSUME MainIsOnlyCaller == Callers = {Owner}

VARIABLES
  poolOwner,     \* who shuts the pool down, the host's choice
  asyncBound,    \* is the name in asyncFunctions_
  pending,       \* the ids in pendingPromises_
  completions,   \* asyncQueueState_->completions: records [id, success]
  alive,         \* asyncQueueState_->alive
  mpc,           \* where the main thread stands in a bridge operation
  hand,          \* its local batch: completions being settled
  doomed,        \* its local copy of the promises cancel will reject
  calling,       \* the id of the call being posted, or NoTask
  cancelled,     \* mblink_destroy's cancelPendingPromises has run
  wstage,        \* wstage[w]: where worker w stands inside the posted closure
  promise,       \* promise[p]: the JavaScript promise
  returned       \* returned[p]: history, what the host callback gave

bridgeVars == <<asyncBound, pending, completions, alive, mpc, hand, doomed,
                calling, cancelled, wstage, promise, returned>>
steps == <<runnerVars, bridgeVars>>
vars == <<poolOwner, steps>>

Results == {"ok", "fail"}
Completion == [id : Tasks, success : BOOLEAN]

BridgeTypeOK ==
  /\ RunnerTypeOK
  /\ asyncBound \in BOOLEAN
  /\ pending \subseteq Tasks
  /\ completions \in Seq(Completion)
  /\ alive \in BOOLEAN
  /\ mpc \in {"script", "post", "settle", "clear", "reject", "gone"}
  /\ hand \in Seq(Completion)
  /\ doomed \subseteq Tasks
  /\ calling \in Tasks \cup {NoTask}
  /\ cancelled \in BOOLEAN
  /\ wstage \in [Workers -> {"callback", "check", "push"}]
  /\ promise \in [Tasks -> {"none", "pending", "fulfilled", "rejected"}]
  /\ returned \in [Tasks -> Results \cup {"none"}]

Init ==
  /\ poolOwner \in PoolOwners
  /\ RunnerInit
  /\ asyncBound = FALSE
  /\ pending = {}
  /\ completions = <<>>
  /\ alive = TRUE
  /\ mpc = "script"
  /\ hand = <<>>
  /\ doomed = {}
  /\ calling = NoTask
  /\ cancelled = FALSE
  /\ wstage = [w \in Workers |-> "callback"]
  /\ promise = [p \in Tasks |-> "none"]
  /\ returned = [p \in Tasks |-> "none"]

\* The main thread runs script or loop code and is inside no other operation.
MainFree == mpc = "script" /\ CanCall(Owner)

-----------------------------------------------------------------------------
(* bindAsync, unbind: main thread, until the teardown starts. *)

BindAsync ==
  /\ MainFree /\ ~cancelled
  /\ ~asyncBound
  /\ asyncBound' = TRUE
  /\ UNCHANGED <<runnerVars, pending, completions, alive, mpc, hand, doomed,
                 calling, cancelled, wstage, promise, returned>>

Unbind ==
  /\ MainFree
  /\ asyncBound
  /\ asyncBound' = FALSE
  /\ UNCHANGED <<runnerVars, pending, completions, alive, mpc, hand, doomed,
                 calling, cancelled, wstage, promise, returned>>

-----------------------------------------------------------------------------
(* jsBackendCall, the asynchronous branch *)

IssuePromise(p) ==
  /\ MainFree
  /\ asyncBound /\ promise[p] = "none"
  /\ promise' = [promise EXCEPT ![p] = "pending"]
  /\ pending' = pending \cup {p}
  /\ calling' = p
  /\ mpc' = "post"
  /\ UNCHANGED <<runnerVars, asyncBound, completions, alive, hand, doomed,
                 cancelled, wstage, returned>>

PostCall ==
  /\ mpc = "post"
  /\ PostAccepted(Owner, calling)
  /\ calling' = NoTask
  /\ mpc' = "script"
  /\ UNCHANGED <<asyncBound, pending, completions, alive, hand, doomed,
                 cancelled, wstage, promise, returned>>

\* Post returned false: take the promise back out and reject it here.
PostCallRejected ==
  /\ mpc = "post"
  /\ PostRejected(Owner, calling)
  /\ pending' = pending \ {calling}
  /\ promise' = IF calling \in pending
                THEN [promise EXCEPT ![calling] = "rejected"] ELSE promise
  /\ calling' = NoTask
  /\ mpc' = "script"
  /\ UNCHANGED <<asyncBound, completions, alive, hand, doomed,
                 cancelled, wstage, returned>>

-----------------------------------------------------------------------------
(* runAsyncCallback, on a worker *)

Running(w) == wpc[w] = "run"

\* The callback returns a value, an {"error": ...} payload, or throws.
HostCallback(w) ==
  /\ Running(w) /\ wstage[w] = "callback"
  /\ \E r \in Results : returned' = [returned EXCEPT ![current[w]] = r]
  /\ wstage' = [wstage EXCEPT ![w] = "check"]
  /\ UNCHANGED <<runnerVars, asyncBound, pending, completions, alive, mpc, hand,
                 doomed, calling, cancelled, promise>>

\* The first alive check is outside the lock.
CheckAlive(w) ==
  /\ Running(w) /\ wstage[w] = "check"
  /\ alive
  /\ wstage' = [wstage EXCEPT ![w] = "push"]
  /\ UNCHANGED <<runnerVars, asyncBound, pending, completions, alive, mpc, hand,
                 doomed, calling, cancelled, promise, returned>>

GiveUp(w) ==
  /\ wstage[w] \in {"check", "push"}
  /\ ~alive
  /\ FinishTask(w)
  /\ wstage' = [wstage EXCEPT ![w] = "callback"]
  /\ UNCHANGED <<asyncBound, pending, completions, alive, mpc, hand,
                 doomed, calling, cancelled, promise, returned>>

\* Under the queue's lock, after the second alive check.
PushCompletion(w) ==
  /\ wstage[w] = "push"
  /\ alive
  /\ completions' = Append(completions,
       [id |-> current[w], success |-> returned[current[w]] = "ok"])
  /\ FinishTask(w)
  /\ wstage' = [wstage EXCEPT ![w] = "callback"]
  /\ UNCHANGED <<asyncBound, pending, alive, mpc, hand,
                 doomed, calling, cancelled, promise, returned>>

-----------------------------------------------------------------------------
(* flushAsyncResults, from the loop's update callback *)

FlushSwap ==
  /\ MainFree /\ ~cancelled
  /\ completions # <<>>
  /\ hand' = completions
  /\ completions' = <<>>
  /\ mpc' = "settle"
  /\ UNCHANGED <<runnerVars, asyncBound, pending, alive, doomed, calling,
                 cancelled, wstage, promise, returned>>

\* Mutant: a failed call is erased but its promise is not rejected.
SettleNext_SkipFailed ==
  /\ mpc = "settle" /\ hand # <<>>
  /\ LET c == Head(hand) IN
       /\ pending' = pending \ {c.id}
       /\ promise' = IF c.id \in pending /\ c.success
            THEN [promise EXCEPT ![c.id] = "fulfilled"] ELSE promise
  /\ hand' = Tail(hand)
  /\ mpc' = IF Tail(hand) = <<>> THEN "script" ELSE "settle"
  /\ UNCHANGED <<runnerVars, asyncBound, completions, alive, doomed, calling,
                 cancelled, wstage, returned>>

\* Mutant: resolve is called whatever the completion says.
SettleNext_AlwaysResolve ==
  /\ mpc = "settle" /\ hand # <<>>
  /\ LET c == Head(hand) IN
       /\ pending' = pending \ {c.id}
       /\ promise' = IF c.id \in pending
            THEN [promise EXCEPT ![c.id] = "fulfilled"] ELSE promise
  /\ hand' = Tail(hand)
  /\ mpc' = IF Tail(hand) = <<>> THEN "script" ELSE "settle"
  /\ UNCHANGED <<runnerVars, asyncBound, completions, alive, doomed, calling,
                 cancelled, wstage, returned>>

\* One completion: an id that is no longer pending is skipped.
SettleNext ==
  /\ mpc = "settle"
  /\ hand # <<>>
  /\ LET c == Head(hand) IN
       /\ pending' = pending \ {c.id}
       /\ promise' = IF c.id \in pending
            THEN [promise EXCEPT ![c.id] = IF c.success THEN "fulfilled" ELSE "rejected"]
            ELSE promise
  /\ hand' = Tail(hand)
  /\ mpc' = IF Tail(hand) = <<>> THEN "script" ELSE "settle"
  /\ UNCHANGED <<runnerVars, asyncBound, completions, alive, doomed, calling,
                 cancelled, wstage, returned>>

-----------------------------------------------------------------------------
(* cancelPendingPromises, from mblink_destroy and from ~HostBridge *)

TakePending ==
  /\ doomed' = pending
  /\ pending' = {}
  /\ mpc' = "clear"

\* mblink_destroy: every name is unbound first.
DestroyCancel ==
  /\ poolOwner = "window"
  /\ MainFree /\ ~cancelled
  /\ TakePending
  /\ asyncBound' = FALSE
  /\ cancelled' = TRUE
  /\ UNCHANGED <<runnerVars, completions, alive, hand, calling, wstage,
                 promise, returned>>

ClearCompletions ==
  /\ mpc = "clear"
  /\ completions' = <<>>
  /\ mpc' = "reject"
  /\ UNCHANGED <<runnerVars, asyncBound, pending, alive, hand, doomed, calling,
                 cancelled, wstage, promise, returned>>

RejectOne(p) ==
  /\ mpc = "reject"
  /\ p \in doomed
  /\ promise' = [promise EXCEPT ![p] = "rejected"]
  /\ doomed' = doomed \ {p}
  /\ UNCHANGED <<runnerVars, asyncBound, pending, completions, alive, mpc, hand,
                 calling, cancelled, wstage, returned>>

\* Back to script, or gone when the destructor made the call.
CancelDone ==
  /\ mpc = "reject"
  /\ doomed = {}
  /\ mpc' = IF alive THEN "script" ELSE "gone"
  /\ UNCHANGED <<runnerVars, asyncBound, pending, completions, alive, hand,
                 doomed, calling, cancelled, wstage, promise, returned>>

\* backgroundTaskRunner->Shutdown(), or the destructor of the pool.
ShutdownPool ==
  /\ mpc \in {"script", "gone"}
  /\ poolOwner = "window" => cancelled
  /\ ShutdownBegin
  /\ UNCHANGED bridgeVars

\* ~HostBridge: alive = false, then cancelPendingPromises.  Script can no
\* longer run: the window resets the bridge after Shutdown has returned.
DestroyBridge ==
  /\ MainFree /\ alive
  /\ poolOwner = "window" => cpc[Owner] = "closed"
  /\ alive' = FALSE
  /\ asyncBound' = FALSE
  /\ TakePending
  /\ UNCHANGED <<runnerVars, completions, hand, calling, cancelled,
                 wstage, promise, returned>>

-----------------------------------------------------------------------------
PoolStep ==
  /\ \/ NotifyOne(Owner)
     \/ ShutdownStep
     \/ \E w \in Workers : WorkerStep(w) \/ SpuriousWake(w)
  /\ UNCHANGED bridgeVars

ClosureStep(w) == HostCallback(w) \/ CheckAlive(w) \/ GiveUp(w) \/ PushCompletion(w)

\* What the main thread finishes once it has begun.
MainStep ==
  \/ PostCall \/ PostCallRejected
  \/ SettleNext
  \/ ClearCompletions \/ CancelDone
  \/ \E p \in Tasks : RejectOne(p)

Step ==
  \/ BindAsync \/ Unbind
  \/ \E p \in Tasks : IssuePromise(p)
  \/ FlushSwap
  \/ MainStep
  \/ DestroyCancel \/ ShutdownPool \/ DestroyBridge
  \/ \E w \in Workers : ClosureStep(w)
  \/ PoolStep

Next == Step /\ UNCHANGED poolOwner

\* Threads are scheduled, host callbacks return, and the loop flushes again
\* and again; nothing forces script to call or the window to be destroyed, but
\* a teardown that has begun goes on.
Fairness ==
  /\ WF_steps(MainStep) /\ WF_steps(FlushSwap)
  /\ WF_steps(cancelled /\ ShutdownPool) /\ WF_steps(cancelled /\ DestroyBridge)
  /\ WF_steps(NotifyOne(Owner) /\ UNCHANGED bridgeVars)
  /\ WF_steps(ShutdownStep /\ UNCHANGED bridgeVars)
  /\ \A w \in Workers : /\ WF_steps(WorkerStep(w) /\ UNCHANGED bridgeVars)
                        /\ WF_steps(ClosureStep(w))

Spec == Init /\ [][Next]_vars /\ Fairness

-----------------------------------------------------------------------------
(* Properties *)

InHand == {hand[i].id : i \in 1..Len(hand)}
Queued == {completions[i].id : i \in 1..Len(completions)}

\* A promise JavaScript still waits for is always one the bridge can still
\* settle: it is in pendingPromises_ or in cancel's local copy (host_bridge.cpp
\* 306-316, 632-642, 673-680), and the other way round.
NoOrphanPromise == {p \in Tasks : promise[p] = "pending"} = pending \cup doomed

\* An unsettled call that cancel has not taken still has somebody who will
\* report it: the poster, the pool, a worker, the completion queue or the
\* batch in hand, as long as the pool accepts work.
PendingIsReported ==
  ~shuttingDown => \A p \in pending :
    \/ p = calling
    \/ outcome[p] \in {"queued", "running"}
    \/ p \in Queued \cup InHand

\* One call is reported at most once: no id is twice in the completion queue,
\* nor in the queue and the batch in hand.
OneCompletionPerCall ==
  /\ \A i, j \in 1..Len(completions) : completions[i].id = completions[j].id => i = j
  /\ \A i, j \in 1..Len(hand) : hand[i].id = hand[j].id => i = j
  /\ Queued \cap InHand = {}

\* After ~HostBridge no completion is left behind or arrives late: the second
\* alive check under the lock (lines 294-297) against lines 32 and 683-684.
NothingAfterGone == mpc = "gone" => completions = <<>> /\ pending = {}

\* Every promise handed to script settles, if nobody else takes the pool away, and
\* a teardown that has begun ends with the bridge gone and the pool joined.
CallsAndTeardownEnd ==
  /\ \A p \in Tasks : poolOwner = "window" /\ promise[p] = "pending"
                       ~> promise[p] \in {"fulfilled", "rejected"}
  /\ cancelled ~> mpc = "gone" /\ cpc[Owner] = "closed"

\* The bridge implements the contract of `await backend.name(args)`.
Contract == INSTANCE PromiseContract WITH
  Promises <- Tasks,
  gone <- mpc = "gone"

CallContract == Contract!ContractSpec
=============================================================================
