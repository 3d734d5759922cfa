---------------------------- MODULE FetchBindings ---------------------------
(***************************************************************************)
(* fetch() of core/network/fetch_bindings.cpp over the worker pool.  The   *)
(* script half keeps the resolvers of a request under its id and looks for *)
(* a response every 10 ms, one at a time; the native half posts the        *)
(* request, and a worker, the dropped task's callback or the refused post  *)
(* publishes the response to a queue that script polls.                    *)
(*                                                                         *)
(* Unlike the host bridge, which other clients of the pool are in the way  *)
(* of, nothing is pushed to script: as long as it waits for anything it    *)
(* keeps a timer running.  That timers fire is TimersFire of TaskScheduler.*)
(*                                                                         *)
(* mblink_destroy ends it in three steps: __fetchCleanup in script, then   *)
(* BeginShutdown, then, when it is the owner, the pool's Shutdown.         *)
(***************************************************************************)
EXTENDS BackgroundTaskRunner

CONSTANTS
  Requests,    \* the tasks that are requests; the others are of other clients
  PoolOwners   \* who may shut the pool down

ASSUME RequestsAreTasks == Requests \subseteq Tasks
ASSUME PoolOwnersAreKnown == PoolOwners \subseteq {"window", "other"}

VARIABLES
  poolOwner,      \* who shuts the pool down, the host's choice
  promise,        \* promise[p]: the promise that fetch returned
  pendingFetches, \* the ids whose resolvers script keeps
  fetchPolling,   \* is a timer set that will look for a response
  fetchCleanupRequested,
  responses,      \* pending_state_->responses: records [id, ok]
  alive,          \* pending_state_->alive
  mpc,            \* where the main thread stands in a fetch or in BeginShutdown
  calling,        \* the request it is making
  wstage,         \* wstage[w]: where worker w stands inside a request's task
  returned        \* returned[p]: history, what loading p gave

fetchVars == <<promise, pendingFetches, fetchPolling, fetchCleanupRequested,
               responses, alive, mpc, calling, wstage, returned>>
steps == <<runnerVars, fetchVars>>
vars == <<poolOwner, steps>>

Response == [id : Requests, ok : BOOLEAN]

FetchTypeOK ==
  /\ promise \in [Requests -> {"none", "pending", "fulfilled", "rejected"}]
  /\ pendingFetches \subseteq Requests
  /\ fetchPolling \in BOOLEAN /\ fetchCleanupRequested \in BOOLEAN
  /\ responses \in Seq(Response)
  /\ alive \in BOOLEAN
  /\ mpc \in {"script", "request", "register", "cleanup", "swap", "gone"}
  /\ calling \in Requests \cup {NoTask}
  /\ wstage \in [Workers -> {"load", "check", "push"}]
  /\ returned \in [Requests -> {"none", "ok", "fail"}]

Init ==
  /\ poolOwner \in PoolOwners
  /\ RunnerInit
  /\ promise = [p \in Requests |-> "none"]
  /\ pendingFetches = {}
  /\ fetchPolling = FALSE /\ fetchCleanupRequested = FALSE
  /\ responses = <<>> /\ alive = TRUE
  /\ mpc = "script" /\ calling = NoTask
  /\ wstage = [w \in Workers |-> "load"]
  /\ returned = [p \in Requests |-> "none"]

\* Script runs, or the loop, and is inside no fetch.
MainFree == mpc = "script" /\ CanCall(Owner)

Settle(p, how) == promise' = [promise EXCEPT ![p] = how]

\* PublishPendingResponse on the main thread, which alone changes alive.
Publish(p, ok) ==
  responses' = IF alive THEN Append(responses, [id |-> p, ok |-> ok]) ELSE responses

-----------------------------------------------------------------------------
(* fetch *)

NewFetch(p) ==
  /\ MainFree
  /\ promise[p] = "none"
  /\ Settle(p, "pending")
  /\ calling' = p
  /\ mpc' = "request"
  /\ UNCHANGED <<runnerVars, pendingFetches, fetchPolling, fetchCleanupRequested,
                 responses, alive, wstage, returned>>

FetchAfterCleanup ==
  /\ mpc = "request"
  /\ fetchCleanupRequested
  /\ Settle(calling, "rejected")
  /\ calling' = NoTask
  /\ mpc' = "script"
  /\ UNCHANGED <<runnerVars, pendingFetches, fetchPolling, fetchCleanupRequested,
                 responses, alive, wstage, returned>>

PostFetch ==
  /\ mpc = "request"
  /\ ~fetchCleanupRequested
  /\ PostAccepted(Owner, calling)
  /\ mpc' = "register"
  /\ UNCHANGED <<promise, pendingFetches, fetchPolling, fetchCleanupRequested,
                 responses, alive, calling, wstage, returned>>

PostFetchRefused ==
  /\ mpc = "request"
  /\ ~fetchCleanupRequested
  /\ PostRejected(Owner, calling)
  /\ Publish(calling, FALSE)
  /\ mpc' = "register"
  /\ UNCHANGED <<promise, pendingFetches, fetchPolling, fetchCleanupRequested,
                 alive, calling, wstage, returned>>

\* The id comes back and script keeps the resolvers, after a worker may already
\* have published the response.
Register ==
  /\ mpc = "register" /\ CanCall(Owner)
  /\ pendingFetches' = pendingFetches \cup {calling}
  /\ fetchPolling' = TRUE
  /\ calling' = NoTask
  /\ mpc' = "script"
  /\ UNCHANGED <<runnerVars, promise, fetchCleanupRequested, responses, alive,
                 wstage, returned>>

-----------------------------------------------------------------------------
(* The posted task, on a worker *)

Loading(w) == wpc[w] = "run" /\ current[w] \in Requests

\* The request is answered or has failed: either way there is a response.
Load(w) ==
  /\ Loading(w) /\ wstage[w] = "load"
  /\ \E r \in {"ok", "fail"} : returned' = [returned EXCEPT ![current[w]] = r]
  /\ wstage' = [wstage EXCEPT ![w] = "check"]
  /\ UNCHANGED <<runnerVars, promise, pendingFetches, fetchPolling,
                 fetchCleanupRequested, responses, alive, mpc, calling>>

\* The first alive check is outside the lock.
CheckAlive(w) ==
  /\ wstage[w] = "check"
  /\ alive
  /\ wstage' = [wstage EXCEPT ![w] = "push"]
  /\ UNCHANGED <<runnerVars, promise, pendingFetches, fetchPolling,
                 fetchCleanupRequested, responses, alive, mpc, calling, returned>>

GiveUp(w) ==
  /\ wstage[w] \in {"check", "push"}
  /\ ~alive
  /\ FinishTask(w)
  /\ wstage' = [wstage EXCEPT ![w] = "load"]
  /\ UNCHANGED <<promise, pendingFetches, fetchPolling, fetchCleanupRequested,
                 responses, alive, mpc, calling, returned>>

\* Under the queue's lock, after the second alive check.
PushResponse(w) ==
  /\ wstage[w] = "push"
  /\ alive
  /\ Publish(current[w], returned[current[w]] = "ok")
  /\ FinishTask(w)
  /\ wstage' = [wstage EXCEPT ![w] = "load"]
  /\ UNCHANGED <<promise, pendingFetches, fetchPolling, fetchCleanupRequested,
                 alive, mpc, calling, returned>>

-----------------------------------------------------------------------------
(* checkPendingResponses: a poll that finds nothing sets the timer again. *)

\* Mutant: fetchPolling is not reset, so the timer is never set again.
Poll_OnlyOnce ==
  /\ MainFree
  /\ fetchPolling /\ ~fetchCleanupRequested
  /\ responses # <<>>
  /\ LET r == Head(responses) IN
       /\ pendingFetches' = pendingFetches \ {r.id}
       /\ IF r.id \in pendingFetches
          THEN Settle(r.id, IF r.ok THEN "fulfilled" ELSE "rejected")
          ELSE UNCHANGED promise
  /\ responses' = Tail(responses)
  /\ fetchPolling' = FALSE
  /\ UNCHANGED <<runnerVars, fetchCleanupRequested, alive, mpc, calling, wstage, returned>>

Poll ==
  /\ MainFree
  /\ fetchPolling /\ ~fetchCleanupRequested
  /\ responses # <<>>
  /\ LET r == Head(responses) IN
       /\ pendingFetches' = pendingFetches \ {r.id}
       /\ IF r.id \in pendingFetches
          THEN Settle(r.id, IF r.ok THEN "fulfilled" ELSE "rejected")
          ELSE UNCHANGED promise
  /\ responses' = Tail(responses)
  /\ fetchPolling' = (pendingFetches' # {})
  /\ UNCHANGED <<runnerVars, fetchCleanupRequested, alive, mpc, calling, wstage, returned>>

-----------------------------------------------------------------------------
(* mblink_destroy *)

\* Mutant: the resolvers are dropped without a call.
FetchCleanup_ClearOnly ==
  /\ MainFree /\ ~fetchCleanupRequested
  /\ fetchCleanupRequested' = TRUE
  /\ fetchPolling' = FALSE
  /\ pendingFetches' = {}
  /\ mpc' = "cleanup"
  /\ UNCHANGED <<runnerVars, promise, responses, alive, calling, wstage, returned>>

\* __fetchCleanup, which __mblinkShutdown calls first.
FetchCleanup ==
  /\ MainFree /\ ~fetchCleanupRequested
  /\ fetchCleanupRequested' = TRUE
  /\ fetchPolling' = FALSE
  /\ mpc' = "cleanup"
  /\ UNCHANGED <<runnerVars, promise, pendingFetches, responses, alive, calling,
                 wstage, returned>>

RejectOne(p) ==
  /\ mpc = "cleanup"
  /\ p \in pendingFetches
  /\ Settle(p, "rejected")
  /\ pendingFetches' = pendingFetches \ {p}
  /\ UNCHANGED <<runnerVars, fetchPolling, fetchCleanupRequested, responses, alive,
                 mpc, calling, wstage, returned>>

CleanupDone ==
  /\ mpc = "cleanup"
  /\ pendingFetches = {}
  /\ mpc' = "script"
  /\ UNCHANGED <<runnerVars, promise, pendingFetches, fetchPolling,
                 fetchCleanupRequested, responses, alive, calling, wstage, returned>>

\* BeginShutdown clears alive first and empties the queue under its lock.
BeginShutdown ==
  /\ MainFree /\ fetchCleanupRequested /\ alive
  /\ alive' = FALSE
  /\ mpc' = "swap"
  /\ UNCHANGED <<runnerVars, promise, pendingFetches, fetchPolling,
                 fetchCleanupRequested, responses, calling, wstage, returned>>

SwapResponses ==
  /\ mpc = "swap"
  /\ responses' = <<>>
  /\ mpc' = "script"
  /\ UNCHANGED <<runnerVars, promise, pendingFetches, fetchPolling,
                 fetchCleanupRequested, alive, calling, wstage, returned>>

ShutdownPool ==
  /\ mpc \in {"script", "gone"}
  /\ poolOwner = "window" => mpc = "script" /\ ~alive
  /\ ShutdownBegin
  /\ UNCHANGED fetchVars

\* The on_drop of a request publishes an error.
DropTask ==
  /\ ShutdownDrop
  /\ IF Head(dropped) \in Requests THEN Publish(Head(dropped), FALSE)
     ELSE UNCHANGED responses
  /\ UNCHANGED <<promise, pendingFetches, fetchPolling, fetchCleanupRequested,
                 alive, mpc, calling, wstage, returned>>

\* The runtime is freed, then the bindings; the workers keep the queue alive.
Destroy ==
  /\ MainFree /\ ~alive
  /\ poolOwner = "window" => cpc[Owner] = "closed"
  /\ mpc' = "gone"
  /\ UNCHANGED <<runnerVars, promise, pendingFetches, fetchPolling,
                 fetchCleanupRequested, responses, alive, calling, wstage, returned>>

-----------------------------------------------------------------------------
(* The pool, and its other clients *)

OtherPost(c, t) ==
  /\ c = Owner => mpc = "script"
  /\ PostAccepted(c, t) \/ PostRejected(c, t)
  /\ UNCHANGED fetchVars

OtherFinish(w) ==
  /\ current[w] \notin Requests
  /\ FinishTask(w)
  /\ UNCHANGED fetchVars

PoolStep ==
  /\ \/ \E c \in Callers : NotifyOne(c)
     \/ ShutdownNotifyAll \/ ShutdownJoin
     \/ \E w \in Workers : WorkerStep(w) \/ SpuriousWake(w)
  /\ UNCHANGED fetchVars

TaskStep(w) == Load(w) \/ CheckAlive(w) \/ GiveUp(w) \/ PushResponse(w) \/ OtherFinish(w)

\* What the main thread finishes once it has begun.
MainStep ==
  \/ FetchAfterCleanup \/ PostFetch \/ PostFetchRefused \/ Register
  \/ (\E p \in Requests : RejectOne(p)) \/ CleanupDone \/ SwapResponses

Step ==
  \/ \E p \in Requests : NewFetch(p)
  \/ MainStep
  \/ Poll
  \/ FetchCleanup \/ BeginShutdown \/ ShutdownPool \/ DropTask \/ Destroy
  \/ \E w \in Workers : TaskStep(w)
  \/ \E c \in Callers, t \in Tasks \ Requests : OtherPost(c, t)
  \/ PoolStep

Next == Step /\ UNCHANGED poolOwner

\* Threads are scheduled, requests end, the loop turns and its timers fire; nothing
\* forces script to fetch or the window to be destroyed.
Fairness ==
  /\ WF_steps(MainStep) /\ WF_steps(Poll) /\ WF_steps(DropTask)
  /\ \A c \in Callers : WF_steps(NotifyOne(c) /\ UNCHANGED fetchVars)
  /\ WF_steps((ShutdownNotifyAll \/ ShutdownJoin) /\ UNCHANGED fetchVars)
  /\ \A w \in Workers : /\ WF_steps(WorkerStep(w) /\ UNCHANGED fetchVars)
                        /\ WF_steps(TaskStep(w))

Spec == Init /\ [][Next]_vars /\ Fairness

-----------------------------------------------------------------------------
(* Properties *)

Answered == {responses[i].id : i \in 1..Len(responses)}

\* A request that script waits for will be answered, and script will look: it is
\* in the pool, or its response is in the queue, and the timer is set, also when
\* somebody else shuts the pool down (fetch_bindings.cpp 586-591, 645-657).
FetchIsAnswered ==
  ~fetchCleanupRequested =>
    \A p \in pendingFetches :
      fetchPolling /\ (outcome[p] \in {"queued", "running"} \/ p \in Answered)

\* Once BeginShutdown has emptied the queue nothing is published any more,
\* whenever workers come back (lines 639-642, 648-656).
NothingPublishedLate == ~alive /\ mpc # "swap" => responses = <<>>

\* Every fetch settles, whoever shuts the pool down (lines 479-522, 581-591).
EveryFetchSettles ==
  \A p \in Requests : promise[p] = "pending" ~> promise[p] \in {"fulfilled", "rejected"}

\* fetch keeps the contract of `await backend.name(args)`: it settles once, is
\* fulfilled only by what was loaded, and nothing is pending when it is gone.
Contract == INSTANCE PromiseContract WITH
  Promises <- Requests,
  gone <- mpc = "gone"

FetchContract == Contract!ContractSpec
=============================================================================
