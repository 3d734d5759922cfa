------------------------- MODULE AsyncBridge_proofs -------------------------
(***************************************************************************)
(* Proofs about asynchronous host calls, for any number of workers and     *)
(* calls and either owner of the pool.  Every step of the bridge is a step *)
(* of the pool or leaves it alone, so the pool's invariant carries over;   *)
(* the rest of BridgeInv says which promises each stage of                 *)
(* cancelPendingPromises still holds and what a completion in a queue      *)
(* means.                                                                  *)
(***************************************************************************)
EXTENDS AsyncBridge, BackgroundTaskRunner_proofs

\* Where the unsettled promises are while cancelPendingPromises runs.
CancelStage ==
  /\ mpc = "post" => calling \in Tasks /\ promise[calling] # "none"
  /\ mpc \notin {"clear", "reject"} => doomed = {}
  /\ mpc \in {"clear", "reject", "gone"} => pending = {}

\* A call that no worker has begun has no result, nor has one whose callback
\* is still running; only issued calls reach the pool.
CallHistory ==
  /\ \A p \in Tasks : promise[p] = "none" => outcome[p] = "new"
  /\ \A p \in Tasks : outcome[p] \in {"new", "queued"} => returned[p] = "none"
  /\ \A w \in Workers : wpc[w] = "run" /\ wstage[w] = "callback"
                          => returned[current[w]] = "none"

Truthful(s) == \A i \in 1..Len(s) : s[i].success => returned[s[i].id] = "ok"

\* A completion that says success is for a call that succeeded.
CompletionsTrue == Truthful(completions) /\ Truthful(hand)

BridgeInv ==
  /\ BridgeTypeOK
  /\ RunnerInv
  /\ CancelStage
  /\ NoOrphanPromise
  /\ CallHistory
  /\ CompletionsTrue

-----------------------------------------------------------------------------
LEMMA InitBridgeInv == Init => BridgeInv
<1> SUFFICES ASSUME Init PROVE BridgeInv
  OBVIOUS
<1> USE DEF Init
<1>1. RunnerInv /\ RunnerTypeOK
  BY InitRunnerInv DEF RunnerInv
<1>2. BridgeTypeOK
  BY <1>1, EmptySeq DEF BridgeTypeOK, Results
<1>3. CancelStage /\ NoOrphanPromise
  BY DEF CancelStage, NoOrphanPromise
<1>4. CallHistory
  BY DEF CallHistory, RunnerInit
<1>5. CompletionsTrue
  BY DEF CompletionsTrue, Truthful
<1> QED
  BY <1>1, <1>2, <1>3, <1>4, <1>5 DEF BridgeInv

\* Who shuts the pool down matters to the guards only.
LEMMA NextIsStep == [Next]_vars => [Step]_steps
  BY DEF Next, vars

\* The bridge drives the pool through its own operations only.
LEMMA BridgeStepIsRunnerStep ==
  ASSUME BridgeInv, [Step]_steps
  PROVE  [RunnerNext]_runnerVars
<1> USE OwnerIsCaller DEF RunnerNext
<1>1. CASE PostCall \/ PostCallRejected
  BY <1>1 DEF PostCall, PostCallRejected, BridgeInv, CancelStage
<1>2. CASE ShutdownPool
  BY <1>2 DEF ShutdownPool
<1>3. CASE PoolStep
  BY <1>3 DEF PoolStep
<1>4. CASE \E w \in Workers : ClosureStep(w)
  BY <1>4 DEF ClosureStep, HostCallback, CheckAlive, GiveUp, PushCompletion
<1>5. CASE \/ BindAsync \/ Unbind \/ FlushSwap \/ DestroyCancel \/ DestroyBridge
           \/ SettleNext \/ ClearCompletions \/ CancelDone
           \/ \E p \in Tasks : IssuePromise(p) \/ RejectOne(p)
  BY <1>5 DEF BindAsync, Unbind, FlushSwap, DestroyCancel, DestroyBridge, SettleNext,
              ClearCompletions, CancelDone, IssuePromise, RejectOne
<1>6. CASE UNCHANGED steps
  BY <1>6 DEF steps
<1> QED
  BY <1>1, <1>2, <1>3, <1>4, <1>5, <1>6 DEF Step, MainStep

LEMMA RunnerInvKept == BridgeInv /\ [Step]_steps => RunnerInv'
  BY BridgeStepIsRunnerStep, RunnerStepInv DEF BridgeInv

\* Truthful survives push_back, pop_front and a new result of another call.
LEMMA TruthfulAppend ==
  ASSUME NEW s \in Seq(Completion), NEW c \in Completion,
         Truthful(s), c.success => returned[c.id] = "ok"
  PROVE  Truthful(Append(s, c))
  BY AppendProperties, LenProperties DEF Truthful

LEMMA TruthfulTail ==
  ASSUME NEW s \in Seq(Completion), s # <<>>, Truthful(s)
  PROVE  /\ Truthful(Tail(s))
         /\ Head(s).success => returned[Head(s).id] = "ok"
<1>1. /\ Len(Tail(s)) = Len(s) - 1 /\ Head(s) = s[1]
      /\ \A i \in 1..Len(Tail(s)) : Tail(s)[i] = s[i + 1]
      /\ Len(s) \in Nat /\ Len(s) >= 1
  BY HeadTailProperties, EmptySeq, LenProperties
<1> QED
  BY <1>1 DEF Truthful

-----------------------------------------------------------------------------
(* BridgeInv without the pool's part is preserved: one lemma per action.   *)
(* The pool's part is RunnerInvKept.                                       *)

Settling == CancelStage /\ NoOrphanPromise

\* Steps of the pool that touch no variable of the bridge.
LEMMA PoolStepInv ==
  ASSUME BridgeInv, RunnerInv', PoolStep \/ ShutdownPool
  PROVE  BridgeInv'
<1> USE DEF BridgeInv, PoolStep, ShutdownPool
<1>0. UNCHANGED bridgeVars
  OBVIOUS
<1>1. BridgeTypeOK'
  BY <1>0 DEF RunnerInv, BridgeTypeOK, bridgeVars
<1>2. Settling'
  BY <1>0 DEF Settling, CancelStage, NoOrphanPromise, bridgeVars
<1>3. CallHistory'
  <2> USE <1>0 DEF bridgeVars, CallHistory, RunnerInv
  <2>1. CASE NotifyOne(Owner) \/ ShutdownNotifyAll
    BY <2>1 DEF NotifyOne, ShutdownNotifyAll, RunnerTypeOK
  <2>2. CASE ShutdownJoin \/ ShutdownBegin
    BY <2>2 DEF ShutdownJoin, ShutdownBegin
  <2>3. CASE ShutdownDrop
    <3>1. Head(dropped) \in Tasks /\ outcome[Head(dropped)] = "queued"
      BY <2>3, TailElems DEF ShutdownDrop, RunnerTypeOK, LineOK, TaskInOnePlace,
                             Doomed, Elems
    <3> QED
      BY <2>3, <3>1 DEF ShutdownDrop, RunnerTypeOK
  <2>4. ASSUME NEW w \in Workers, WorkerTake(w) PROVE CallHistory'
    <3>1. Head(queue) \in Tasks /\ outcome[Head(queue)] = "queued"
      BY <2>4, TailElems DEF WorkerTake, RunnerTypeOK, LineOK, TaskInOnePlace,
                             Waiting, Elems
    <3> QED
      BY <2>4, <3>1 DEF WorkerTake, RunnerTypeOK
  <2>5. ASSUME NEW w \in Workers, WorkerExit(w) \/ WorkerBlock(w) \/ SpuriousWake(w)
        PROVE  CallHistory'
    BY <2>5 DEF WorkerExit, WorkerBlock, SpuriousWake, RunnerTypeOK
  <2> QED
    BY <2>1, <2>2, <2>3, <2>4, <2>5 DEF ShutdownStep, WorkerStep
<1>4. CompletionsTrue'
  BY <1>0 DEF CompletionsTrue, Truthful, bridgeVars
<1> QED
  BY <1>1, <1>2, <1>3, <1>4 DEF Settling

\* bindAsync, unbind and the first alive check move no promise.
LEMMA NoPromiseMovesInv ==
  ASSUME BridgeInv, RunnerInv',
         BindAsync \/ Unbind \/ \E w \in Workers : CheckAlive(w)
  PROVE  BridgeInv'
<1> USE DEF BridgeInv, BindAsync, Unbind, CheckAlive
<1>1. BridgeTypeOK'
  BY DEF RunnerInv, BridgeTypeOK
<1>2. Settling'
  BY DEF Settling, CancelStage, NoOrphanPromise
<1>3. CallHistory'
  BY DEF CallHistory, runnerVars, BridgeTypeOK
<1>4. CompletionsTrue'
  BY DEF CompletionsTrue, Truthful
<1> QED
  BY <1>1, <1>2, <1>3, <1>4 DEF Settling

LEMMA IssuePromiseInv ==
  ASSUME BridgeInv, RunnerInv', NEW p \in Tasks, IssuePromise(p)
  PROVE  BridgeInv'
<1> USE DEF BridgeInv, IssuePromise, MainFree
<1>1. BridgeTypeOK'
  BY DEF RunnerInv, BridgeTypeOK
<1>2. Settling'
  BY DEF Settling, CancelStage, NoOrphanPromise, BridgeTypeOK
<1>3. CallHistory'
  BY DEF CallHistory, runnerVars, BridgeTypeOK
<1>4. CompletionsTrue'
  BY DEF CompletionsTrue, Truthful
<1> QED
  BY <1>1, <1>2, <1>3, <1>4 DEF Settling

LEMMA PostCallInv ==
  ASSUME BridgeInv, RunnerInv', PostCall \/ PostCallRejected
  PROVE  BridgeInv'
<1> USE DEF BridgeInv, PostCall, PostCallRejected, PostAccepted, PostRejected
<1>0. mpc = "post" /\ calling \in Tasks /\ promise[calling] # "none"
  BY DEF CancelStage
<1>1. BridgeTypeOK'
  BY <1>0 DEF RunnerInv, BridgeTypeOK
<1>2. Settling'
  BY <1>0 DEF Settling, CancelStage, NoOrphanPromise, BridgeTypeOK
<1>3. CallHistory'
  BY <1>0 DEF CallHistory, BridgeTypeOK, RunnerTypeOK
<1>4. CompletionsTrue'
  BY DEF CompletionsTrue, Truthful
<1> QED
  BY <1>1, <1>2, <1>3, <1>4 DEF Settling

\* The new result belongs to a call nobody else is running and no completion
\* names as a success.
LEMMA HostCallbackInv ==
  ASSUME BridgeInv, RunnerInv', NEW w \in Workers, HostCallback(w)
  PROVE  BridgeInv'
<1> USE DEF BridgeInv, HostCallback, Running
<1>0. /\ current[w] \in Tasks /\ outcome[current[w]] = "running"
      /\ returned[current[w]] = "none"
      /\ \A v \in Workers : current[v] = current[w] => v = w
  BY DEF RunnerInv, RunnerTypeOK, HoldsWhileRunning, TaskInOnePlace, CallHistory
<1>1. BridgeTypeOK'
  BY <1>0 DEF RunnerInv, BridgeTypeOK
<1>2. Settling'
  BY DEF Settling, CancelStage, NoOrphanPromise
<1>3. CallHistory'
  BY <1>0 DEF CallHistory, runnerVars, BridgeTypeOK
<1>4. CompletionsTrue'
  BY <1>0 DEF CompletionsTrue, Truthful, BridgeTypeOK
<1> QED
  BY <1>1, <1>2, <1>3, <1>4 DEF Settling

LEMMA ClosureEndsInv ==
  ASSUME BridgeInv, RunnerInv', NEW w \in Workers, GiveUp(w) \/ PushCompletion(w)
  PROVE  BridgeInv'
<1> USE DEF BridgeInv, GiveUp, PushCompletion, FinishTask
<1> DEFINE c == [id |-> current[w], success |-> returned[current[w]] = "ok"]
<1>0. /\ current[w] \in Tasks /\ outcome[current[w]] = "running"
      /\ c \in Completion
  BY DEF RunnerInv, RunnerTypeOK, HoldsWhileRunning, TaskInOnePlace, Completion
<1>1. BridgeTypeOK'
  <2>1. RunnerTypeOK'
    BY DEF RunnerInv
  <2>2. completions' \in Seq(Completion)
    <3>1. Append(completions, c) \in Seq(Completion)
      BY <1>0, AppendProperties DEF BridgeTypeOK
    <3> QED
      BY <3>1 DEF BridgeTypeOK
  <2>3. wstage' \in [Workers -> {"callback", "check", "push"}]
    BY DEF BridgeTypeOK
  <2> QED
    BY <2>1, <2>2, <2>3 DEF BridgeTypeOK
<1>2. Settling'
  BY DEF Settling, CancelStage, NoOrphanPromise
<1>3. CallHistory'
  <2>1. /\ promise' = promise /\ returned' = returned /\ current' = [current EXCEPT ![w] = NoTask]
        /\ wpc' = [wpc EXCEPT ![w] = "check"]
        /\ wstage' = [wstage EXCEPT ![w] = "callback"]
        /\ outcome' = [outcome EXCEPT ![current[w]] = "done"]
    OBVIOUS
  <2>2. \A p \in Tasks : outcome'[p] = IF p = current[w] THEN "done" ELSE outcome[p]
    BY <1>0, <2>1 DEF RunnerInv, RunnerTypeOK
  <2>3. \A v \in Workers : wpc'[v] = "run" /\ wstage'[v] = "callback" =>
          wpc[v] = "run" /\ wstage[v] = "callback" /\ current'[v] = current[v]
    BY <2>1 DEF BridgeTypeOK, RunnerTypeOK
  <2>4. promise[current[w]] # "none"
    BY <1>0 DEF CallHistory
  <2> QED
    BY <2>1, <2>2, <2>3, <2>4 DEF CallHistory
<1>4. CompletionsTrue'
  <2>1. Truthful(Append(completions, c))
    BY <1>0, TruthfulAppend DEF CompletionsTrue, BridgeTypeOK
  <2> QED
    BY <2>1 DEF CompletionsTrue, Truthful
<1> QED
  BY <1>1, <1>2, <1>3, <1>4 DEF Settling

LEMMA FlushSwapInv ==
  ASSUME BridgeInv, RunnerInv', FlushSwap
  PROVE  BridgeInv'
<1> USE DEF BridgeInv, FlushSwap, MainFree
<1>1. BridgeTypeOK'
  BY EmptySeq DEF RunnerInv, BridgeTypeOK
<1>2. Settling'
  BY DEF Settling, CancelStage, NoOrphanPromise
<1>3. CallHistory'
  BY DEF CallHistory, runnerVars
<1>4. CompletionsTrue'
  BY DEF CompletionsTrue, Truthful
<1> QED
  BY <1>1, <1>2, <1>3, <1>4 DEF Settling

LEMMA SettleNextInv ==
  ASSUME BridgeInv, RunnerInv', SettleNext
  PROVE  BridgeInv'
<1> USE DEF BridgeInv, SettleNext
<1>0. Head(hand).id \in Tasks /\ Tail(hand) \in Seq(Completion)
  <2>1. hand \in Seq(Completion) /\ hand # <<>>
    BY DEF BridgeTypeOK
  <2>2. Head(hand) \in Completion /\ Tail(hand) \in Seq(Completion)
    BY <2>1, HeadTailProperties
  <2> QED
    BY <2>2 DEF Completion
<1>1. BridgeTypeOK'
  <2>1. RunnerTypeOK'
    BY DEF RunnerInv
  <2>2. promise' \in [Tasks -> {"none", "pending", "fulfilled", "rejected"}]
    BY <1>0 DEF BridgeTypeOK
  <2> QED
    BY <1>0, <2>1, <2>2 DEF BridgeTypeOK
<1>2. Settling'
  BY <1>0 DEF Settling, CancelStage, NoOrphanPromise, BridgeTypeOK
<1>3. CallHistory'
  <2>1. \A p \in Tasks : promise'[p] = "none" => promise[p] = "none"
    BY <1>0 DEF BridgeTypeOK
  <2> QED
    BY <2>1 DEF CallHistory, runnerVars
<1>4. CompletionsTrue'
  <2>1. Truthful(Tail(hand))
    BY TruthfulTail DEF CompletionsTrue, BridgeTypeOK
  <2> QED
    BY <2>1 DEF CompletionsTrue, Truthful
<1> QED
  BY <1>1, <1>2, <1>3, <1>4 DEF Settling

\* cancelPendingPromises: the pending promises are collected, and rejected
\* one by one once the completions are thrown away.
LEMMA CancelInv ==
  ASSUME BridgeInv, RunnerInv',
         \/ DestroyCancel \/ DestroyBridge \/ ClearCompletions \/ CancelDone
         \/ \E p \in Tasks : RejectOne(p)
  PROVE  BridgeInv'
<1> USE DEF BridgeInv, DestroyCancel, DestroyBridge, ClearCompletions, CancelDone,
            RejectOne, MainFree, TakePending
<1>1. BridgeTypeOK'
  BY EmptySeq DEF RunnerInv, BridgeTypeOK
<1>2. Settling'
  BY DEF Settling, CancelStage, NoOrphanPromise, BridgeTypeOK
<1>3. CallHistory'
  BY DEF CallHistory, runnerVars, BridgeTypeOK, NoOrphanPromise
<1>4. CompletionsTrue'
  BY DEF CompletionsTrue, Truthful
<1> QED
  BY <1>1, <1>2, <1>3, <1>4 DEF Settling

LEMMA BridgeStepInv == BridgeInv /\ [Step]_steps => BridgeInv'
<1> SUFFICES ASSUME BridgeInv, [Step]_steps PROVE BridgeInv'
  OBVIOUS
<1>0. RunnerInv'
  BY RunnerInvKept
<1>1. CASE PoolStep \/ ShutdownPool
  BY <1>0, <1>1, PoolStepInv
<1>2. CASE BindAsync \/ Unbind
  BY <1>0, <1>2, NoPromiseMovesInv
<1>3. CASE \E p \in Tasks : IssuePromise(p)
  BY <1>0, <1>3, IssuePromiseInv
<1>4. CASE MainStep
  BY <1>0, <1>4, PostCallInv, SettleNextInv, CancelInv DEF MainStep
<1>5. CASE FlushSwap
  BY <1>0, <1>5, FlushSwapInv
<1>6. CASE DestroyCancel \/ DestroyBridge
  BY <1>0, <1>6, CancelInv
<1>7. CASE \E w \in Workers : ClosureStep(w)
  BY <1>0, <1>7, HostCallbackInv, NoPromiseMovesInv, ClosureEndsInv DEF ClosureStep
<1>8. CASE UNCHANGED steps
  BY <1>0, <1>8 DEF steps, bridgeVars, runnerVars, BridgeInv, BridgeTypeOK, RunnerInv,
     CancelStage, NoOrphanPromise, CallHistory, CompletionsTrue, Truthful
<1> QED
  BY <1>1, <1>2, <1>3, <1>4, <1>5, <1>6, <1>7, <1>8 DEF Step

THEOREM BridgeInvariant == Spec => []BridgeInv
  BY InitBridgeInv, NextIsStep, BridgeStepInv, PTL DEF Spec

\* Every variable keeps its type, the completions' ids included.
THEOREM BridgeTypeCorrect == Spec => []BridgeTypeOK
<1>1. BridgeInv => BridgeTypeOK
  BY DEF BridgeInv
<1> QED
  BY <1>1, BridgeInvariant, PTL

\* A promise script waits for is exactly one the bridge still holds
\* (host_bridge.cpp 306-316, 632-642, 673-680).
THEOREM PromisesAreNeverOrphaned == Spec => []NoOrphanPromise
<1>1. BridgeInv => NoOrphanPromise
  BY DEF BridgeInv
<1> QED
  BY <1>1, BridgeInvariant, PTL

-----------------------------------------------------------------------------
(* The bridge implements PromiseContract. *)

LEMMA StepMeetsContract ==
  ASSUME BridgeInv, [Step]_steps
  PROVE  [Contract!ContractNext]_<<promise, returned, mpc = "gone">>
<1> USE DEF Contract!ContractNext
<1>0. BridgeTypeOK /\ CancelStage /\ NoOrphanPromise
  BY DEF BridgeInv
<1>1. ASSUME NEW p \in Tasks, IssuePromise(p) PROVE Contract!Issue(p)
  BY <1>1 DEF IssuePromise, MainFree, Contract!Issue
<1>2. ASSUME PostCallRejected
      PROVE  \/ Contract!Reject(calling) /\ calling \in Tasks
             \/ UNCHANGED <<promise, returned, mpc = "gone">>
  BY <1>0, <1>2 DEF PostCallRejected, CancelStage, NoOrphanPromise, BridgeTypeOK,
                    Contract!Reject
<1>3. ASSUME NEW w \in Workers, HostCallback(w)
      PROVE  Contract!HostReturn(current[w]) /\ current[w] \in Tasks
  <2>1. /\ current[w] \in Tasks /\ outcome[current[w]] = "running"
        /\ returned[current[w]] = "none"
    BY <1>3 DEF HostCallback, Running, BridgeInv, RunnerInv, RunnerTypeOK,
                HoldsWhileRunning, TaskInOnePlace, CallHistory
  <2>2. promise[current[w]] # "none"
    BY <2>1 DEF BridgeInv, CallHistory
  <2> QED
    BY <1>3, <2>1, <2>2 DEF HostCallback, Contract!HostReturn, Results
<1>4. ASSUME SettleNext
      PROVE  \/ /\ Contract!Fulfil(Head(hand).id) \/ Contract!Reject(Head(hand).id)
                /\ Head(hand).id \in Tasks
             \/ UNCHANGED <<promise, returned, mpc = "gone">>
  <2> DEFINE c == Head(hand)
  <2>1. hand \in Seq(Completion) /\ hand # <<>>
    BY <1>0, <1>4 DEF SettleNext, BridgeTypeOK
  <2>2. c.id \in Tasks /\ (c.success => returned[c.id] = "ok")
    <3>1. Head(hand) \in Completion
      BY <2>1, HeadTailProperties
    <3>2. c.success => returned[c.id] = "ok"
      BY <2>1, TruthfulTail DEF BridgeInv, CompletionsTrue
    <3> QED
      BY <3>1, <3>2 DEF Completion
  <2>3. mpc # "gone" /\ mpc' # "gone" /\ returned' = returned
    BY <1>4 DEF SettleNext
  <2>4. CASE c.id \notin pending
    BY <1>4, <2>3, <2>4 DEF SettleNext
  <2>5. CASE c.id \in pending
    <3>1. promise[c.id] = "pending"
      BY <1>0, <2>2, <2>5 DEF NoOrphanPromise
    <3>2. promise' = [promise EXCEPT ![c.id] = IF c.success THEN "fulfilled" ELSE "rejected"]
      BY <1>4, <2>5 DEF SettleNext
    <3> QED
      BY <2>2, <2>3, <3>1, <3>2 DEF Contract!Fulfil, Contract!Reject
  <2> QED
    BY <2>4, <2>5
<1>5. ASSUME NEW p \in Tasks, RejectOne(p) PROVE Contract!Reject(p)
  BY <1>0, <1>5 DEF RejectOne, NoOrphanPromise, Contract!Reject
<1>6. ASSUME CancelDone
      PROVE  Contract!Vanish \/ UNCHANGED <<promise, returned, mpc = "gone">>
  BY <1>0, <1>6 DEF CancelDone, CancelStage, NoOrphanPromise, Contract!Vanish
<1>7. ASSUME \/ BindAsync \/ Unbind \/ PostCall \/ FlushSwap \/ DestroyCancel
             \/ DestroyBridge \/ ClearCompletions \/ ShutdownPool \/ PoolStep
             \/ \E w \in Workers : CheckAlive(w) \/ GiveUp(w) \/ PushCompletion(w)
             \/ UNCHANGED steps
      PROVE  UNCHANGED <<promise, returned, mpc = "gone">>
  BY <1>7 DEF BindAsync, Unbind, PostCall, FlushSwap, DestroyCancel, DestroyBridge,
       MainFree, TakePending, ClearCompletions, ShutdownPool, PoolStep, CheckAlive,
       GiveUp, PushCompletion, steps, bridgeVars
<1> QED
  BY <1>1, <1>2, <1>3, <1>4, <1>5, <1>6, <1>7 DEF Step, MainStep, ClosureStep

\* `await backend.name(args)` keeps its promise for any number of calls and
\* workers and either owner of the pool: at most one settlement, no value that
\* the callback did not return, nothing pending when the bridge is gone.
THEOREM BridgeImplementsContract == Spec => CallContract
<1>1. Init => Contract!ContractInit
  BY DEF Init, Contract!ContractInit
<1> QED
  BY <1>1, NextIsStep, StepMeetsContract, BridgeInvariant, PTL
     DEF Spec, CallContract, Contract!ContractSpec

-----------------------------------------------------------------------------
(* How a call is reported: never forgotten, never twice, never to a bridge *)
(* that is gone.                                                           *)

IsDone(s) == \A i \in 1..Len(s) : outcome[s[i].id] = "done"

\* A completion is that of a call whose closure has ended, which is why a
\* closure that is still running cannot be in a queue; the batch in hand is
\* empty outside of flushAsyncResults, and only a post has a call in its hands.
ReportStage ==
  /\ IsDone(completions) /\ IsDone(hand)
  /\ mpc # "settle" => hand = <<>>
  /\ calling # NoTask => mpc = "post"

\* How far the destructor has come.
GoneStage ==
  /\ mpc = "gone" => ~alive
  /\ ~alive => mpc \in {"clear", "reject", "gone"}
  /\ ~alive /\ mpc \in {"reject", "gone"} => completions = <<>>

\* OneCompletionPerCall with indices for the sets.
ReportedApart ==
  /\ \A i, j \in 1..Len(completions) : completions[i].id = completions[j].id => i = j
  /\ \A i, j \in 1..Len(hand) : hand[i].id = hand[j].id => i = j
  /\ \A i \in 1..Len(completions), j \in 1..Len(hand) : completions[i].id # hand[j].id

ReportInv ==
  /\ ReportStage
  /\ GoneStage
  /\ ReportedApart
  /\ PendingIsReported

LEMMA InitReportInv == Init => ReportInv
  BY DEF Init, ReportInv, ReportStage, IsDone, GoneStage, ReportedApart,
         PendingIsReported

\* Only a closure that ends makes a call "done", and none is undone.
LEMMA DoneStays ==
  ASSUME BridgeInv, [RunnerNext]_runnerVars, NEW p \in Tasks, outcome[p] = "done"
  PROVE  outcome'[p] = "done"
<1> USE DEF BridgeInv, RunnerInv, RunnerTypeOK
<1>1. CASE \E c \in Callers, t \in Tasks : PostAccepted(c, t) \/ PostRejected(c, t)
  BY <1>1 DEF PostAccepted, PostRejected
<1>2. CASE \E c \in Callers : NotifyOne(c)
  BY <1>2 DEF NotifyOne
<1>3. CASE ShutdownBegin \/ ShutdownNotifyAll \/ ShutdownJoin
  BY <1>3 DEF ShutdownBegin, ShutdownNotifyAll, ShutdownJoin
<1>4. CASE ShutdownDrop
  BY <1>4, TailElems DEF ShutdownDrop, LineOK, TaskInOnePlace, Doomed, Elems
<1>5. ASSUME NEW w \in Workers, WorkerTake(w) PROVE outcome'[p] = "done"
  BY <1>5, TailElems DEF WorkerTake, LineOK, TaskInOnePlace, Waiting, Elems
<1>6. ASSUME NEW w \in Workers, WorkerExit(w) \/ WorkerBlock(w) \/ SpuriousWake(w)
      PROVE  outcome'[p] = "done"
  BY <1>6 DEF WorkerExit, WorkerBlock, SpuriousWake
<1>7. ASSUME NEW w \in Workers, FinishTask(w) PROVE outcome'[p] = "done"
  BY <1>7 DEF FinishTask
<1>8. CASE UNCHANGED runnerVars
  BY <1>8 DEF runnerVars
<1> QED
  BY <1>1, <1>2, <1>3, <1>4, <1>5, <1>6, <1>7, <1>8 DEF RunnerNext, ShutdownStep, WorkerStep

\* While the pool accepts work, a step that is not the end of a closure keeps
\* the waiting and the running calls waiting or running.
LEMMA CarriedOn ==
  ASSUME BridgeInv, NEW p \in Tasks, outcome[p] \in {"queued", "running"}, ~shuttingDown',
         \/ \E c \in Callers, t \in Tasks : PostAccepted(c, t) \/ PostRejected(c, t)
         \/ \E c \in Callers : NotifyOne(c)
         \/ ShutdownBegin \/ ShutdownStep
         \/ \E w \in Workers : WorkerStep(w) \/ SpuriousWake(w)
         \/ UNCHANGED runnerVars
  PROVE  outcome'[p] \in {"queued", "running"}
<1> USE DEF BridgeInv, RunnerInv, RunnerTypeOK
<1>1. CASE \E c \in Callers, t \in Tasks : PostAccepted(c, t) \/ PostRejected(c, t)
  BY <1>1 DEF PostAccepted, PostRejected
<1>2. CASE \E c \in Callers : NotifyOne(c)
  BY <1>2 DEF NotifyOne
<1>3. CASE ShutdownBegin \/ ShutdownStep
  BY <1>3, OwnerIsCaller DEF ShutdownBegin, ShutdownStep, ShutdownDrop, ShutdownNotifyAll,
                             ShutdownJoin, ShutdownStage
<1>4. ASSUME NEW w \in Workers, WorkerStep(w) \/ SpuriousWake(w)
      PROVE  outcome'[p] \in {"queued", "running"}
  BY <1>4 DEF WorkerStep, WorkerTake, WorkerExit, WorkerBlock, SpuriousWake
<1>5. CASE UNCHANGED runnerVars
  BY <1>5 DEF runnerVars
<1> QED
  BY <1>1, <1>2, <1>3, <1>4, <1>5

LEMMA IsDoneStays ==
  ASSUME BridgeInv, [RunnerNext]_runnerVars, NEW s \in Seq(Completion), IsDone(s)
  PROVE  \A i \in 1..Len(s) : outcome'[s[i].id] = "done"
<1> SUFFICES ASSUME NEW i \in 1..Len(s) PROVE outcome'[s[i].id] = "done"
  OBVIOUS
<1>1. s[i] \in Completion
  BY ElementOfSeq
<1>2. s[i].id \in Tasks
  BY <1>1 DEF Completion
<1> QED
  BY <1>2, DoneStays DEF IsDone

\* A step of the pool, or of a closure before its end, reports nothing.
LEMMA NothingReported ==
  ASSUME BridgeInv, ReportInv, [RunnerNext]_runnerVars,
         UNCHANGED <<pending, completions, alive, mpc, hand, calling>>,
         \A p \in Tasks : outcome[p] \in {"queued", "running"} /\ ~shuttingDown' =>
           outcome'[p] \in {"queued", "running"},
         shuttingDown => shuttingDown'
  PROVE  ReportInv'
<1>1. completions \in Seq(Completion) /\ hand \in Seq(Completion) /\ pending \subseteq Tasks
  BY DEF BridgeInv, BridgeTypeOK
<1>2. /\ \A i \in 1..Len(completions) : outcome'[completions[i].id] = "done"
      /\ \A i \in 1..Len(hand) : outcome'[hand[i].id] = "done"
  BY <1>1, IsDoneStays DEF ReportInv, ReportStage
<1>3. ReportStage'
  BY <1>2 DEF ReportInv, ReportStage, IsDone
<1>4. GoneStage' /\ ReportedApart'
  BY DEF ReportInv, GoneStage, ReportedApart
<1>5. PendingIsReported'
  <2>1. Queued' = Queued /\ InHand' = InHand
    BY DEF Queued, InHand
  <2> QED
    BY <1>1, <2>1 DEF ReportInv, PendingIsReported
<1> QED
  BY <1>3, <1>4, <1>5 DEF ReportInv

\* The end of a closure takes its call from the worker to the queue, unless
\* the bridge is gone and waits for nothing.
LEMMA ClosureEndReports ==
  ASSUME BridgeInv, BridgeInv', ReportInv, NEW w \in Workers, GiveUp(w) \/ PushCompletion(w)
  PROVE  ReportInv'
<1> DEFINE t == current[w]
           c == [id |-> t, success |-> returned[t] = "ok"]
<1>0. /\ t \in Tasks /\ outcome[t] = "running"
      /\ completions \in Seq(Completion) /\ hand \in Seq(Completion) /\ pending \subseteq Tasks
      /\ \A p \in Tasks : outcome'[p] = IF p = t THEN "done" ELSE outcome[p]
      /\ UNCHANGED <<pending, alive, mpc, hand, calling, shuttingDown>>
  BY DEF GiveUp, PushCompletion, FinishTask, BridgeInv, BridgeTypeOK, RunnerInv, RunnerTypeOK,
         HoldsWhileRunning, TaskInOnePlace
<1>1. /\ \A i \in 1..Len(completions) : /\ completions[i].id \in Tasks
                                        /\ outcome[completions[i].id] = "done"
      /\ \A i \in 1..Len(hand) : hand[i].id \in Tasks /\ outcome[hand[i].id] = "done"
  <2>1. ASSUME NEW s \in Seq(Completion), NEW i \in 1..Len(s) PROVE s[i].id \in Tasks
    <3>1. s[i] \in Completion
      BY <2>1, ElementOfSeq
    <3> QED
      BY <3>1 DEF Completion
  <2> QED
    BY <1>0, <2>1 DEF ReportInv, ReportStage, IsDone
<1>2. CASE GiveUp(w)
  <2>1. completions' = completions /\ pending = {}
    BY <1>2 DEF GiveUp, ReportInv, GoneStage, BridgeInv, CancelStage
  <2>2. ReportStage' /\ GoneStage' /\ ReportedApart'
    BY <1>0, <1>1, <2>1 DEF ReportInv, ReportStage, IsDone, GoneStage, ReportedApart
  <2>3. PendingIsReported'
    BY <1>0, <2>1 DEF PendingIsReported
  <2> QED
    BY <2>2, <2>3 DEF ReportInv
<1>3. CASE PushCompletion(w)
  <2>1. alive /\ completions' = Append(completions, c) /\ c \in Completion
    BY <1>0, <1>3 DEF PushCompletion, Completion
  <2>2. /\ Len(completions') = Len(completions) + 1 /\ Len(completions) \in Nat
        /\ \A i \in 1..Len(completions) : completions'[i] = completions[i]
        /\ completions'[Len(completions) + 1] = c /\ c.id = t
    BY <1>0, <2>1, AppendProperties, LenProperties
  <2>3. ReportStage'
    BY <1>0, <1>1, <2>2 DEF ReportInv, ReportStage, IsDone
  <2>4. GoneStage'
    BY <1>0, <2>1 DEF ReportInv, GoneStage
  <2>5. ReportedApart'
    <3>1. /\ \A i \in 1..Len(completions) : completions[i].id # t
          /\ \A i \in 1..Len(hand) : hand[i].id # t
      BY <1>0, <1>1
    <3>2. /\ \A i \in 1..Len(completions') :
               /\ i # Len(completions) + 1 => i \in 1..Len(completions)
               /\ completions'[i].id = IF i = Len(completions) + 1 THEN t ELSE completions[i].id
      BY <2>2
    <3> QED
      BY <1>0, <2>2, <3>1, <3>2 DEF ReportInv, ReportedApart
  <2>6. PendingIsReported'
    <3>1. Queued \cup {t} \subseteq Queued'
      BY <2>2 DEF Queued
    <3> QED
      BY <1>0, <3>1 DEF ReportInv, PendingIsReported, InHand
  <2> QED
    BY <2>3, <2>4, <2>5, <2>6 DEF ReportInv
<1> QED
  BY <1>2, <1>3

\* A call is issued, and posted or refused.
LEMMA CallReports ==
  ASSUME BridgeInv, BridgeInv', ReportInv, [RunnerNext]_runnerVars,
         (\E p \in Tasks : IssuePromise(p)) \/ PostCall \/ PostCallRejected
  PROVE  ReportInv'
<1>0. /\ UNCHANGED <<completions, hand, alive, shuttingDown>> /\ ~(mpc = "settle")
      /\ completions \in Seq(Completion) /\ hand \in Seq(Completion) /\ pending \subseteq Tasks
  BY DEF IssuePromise, PostCall, PostCallRejected, PostAccepted, PostRejected, MainFree,
         runnerVars, BridgeInv, BridgeTypeOK
<1>1. /\ \A i \in 1..Len(completions) : outcome'[completions[i].id] = "done"
      /\ \A i \in 1..Len(hand) : outcome'[hand[i].id] = "done"
  BY <1>0, IsDoneStays DEF ReportInv, ReportStage
<1>2. ReportStage'
  <2>1. hand' = <<>>
    BY <1>0 DEF ReportInv, ReportStage
  <2>2. calling' # NoTask => mpc' = "post"
    BY DEF IssuePromise, PostCall, PostCallRejected
  <2> QED
    BY <1>0, <1>1, <2>1, <2>2 DEF ReportStage, IsDone
<1>3. GoneStage'
  BY <1>0 DEF IssuePromise, PostCall, PostCallRejected, MainFree, ReportInv, GoneStage
<1>4. ReportedApart'
  <2>1. hand = <<>> /\ hand' = <<>>
    BY <1>0 DEF ReportInv, ReportStage
  <2> QED
    BY <1>0, <2>1 DEF ReportInv, ReportedApart
<1>5. PendingIsReported'
  <2>1. ASSUME NEW p \in Tasks, IssuePromise(p) PROVE PendingIsReported'
    <3>1. calling = NoTask
      BY <2>1 DEF IssuePromise, MainFree, ReportInv, ReportStage
    <3>2. calling \notin pending
      BY <1>0, <3>1, NoTaskIsNoTask
    <3> QED
      BY <1>0, <2>1, <3>2 DEF IssuePromise, runnerVars, ReportInv, PendingIsReported,
                              Queued, InHand
  <2>2. CASE PostCall
    BY <1>0, <2>2 DEF PostCall, PostAccepted, ReportInv, PendingIsReported, Queued, InHand,
                      BridgeInv, RunnerInv, RunnerTypeOK, CancelStage
  <2>3. CASE PostCallRejected
    BY <2>3 DEF PostCallRejected, PostRejected, PendingIsReported
  <2> QED
    BY <2>1, <2>2, <2>3
<1> QED
  BY <1>2, <1>3, <1>4, <1>5 DEF ReportInv

LEMMA FlushSwapReports ==
  ASSUME BridgeInv, ReportInv, FlushSwap
  PROVE  ReportInv'
<1>1. /\ mpc = "script" /\ hand = <<>> /\ hand' = completions /\ completions' = <<>>
      /\ UNCHANGED <<runnerVars, pending, alive, calling>> /\ mpc' = "settle"
  BY DEF FlushSwap, MainFree, ReportInv, ReportStage
<1>2. calling = NoTask /\ alive
  BY <1>1 DEF ReportInv, ReportStage, GoneStage
<1>3. ReportStage' /\ GoneStage'
  BY <1>1, <1>2 DEF ReportInv, ReportStage, IsDone, GoneStage, runnerVars
<1>4. Queued' = {} /\ InHand' = Queued /\ InHand = {}
  BY <1>1 DEF Queued, InHand
<1>5. ReportedApart'
  BY <1>1 DEF ReportInv, ReportedApart
<1>6. PendingIsReported'
  BY <1>1, <1>4 DEF ReportInv, PendingIsReported, runnerVars
<1> QED
  BY <1>3, <1>5, <1>6 DEF ReportInv

LEMMA SettleNextReports ==
  ASSUME BridgeInv, ReportInv, SettleNext
  PROVE  ReportInv'
<1>1. /\ mpc = "settle" /\ hand # <<>> /\ hand' = Tail(hand)
      /\ mpc' = IF Tail(hand) = <<>> THEN "script" ELSE "settle"
      /\ pending' = pending \ {Head(hand).id}
      /\ UNCHANGED <<runnerVars, completions, alive, calling>>
  BY DEF SettleNext
<1>2. hand \in Seq(Completion)
  BY DEF BridgeInv, BridgeTypeOK
<1>3. /\ Len(hand') = Len(hand) - 1 /\ Head(hand) = hand[1]
      /\ \A i \in 1..Len(hand') : hand'[i] = hand[i + 1]
      /\ Len(hand) \in Nat /\ Len(hand) >= 1
  BY <1>1, <1>2, HeadTailProperties, EmptySeq, LenProperties
<1>4. calling = NoTask /\ alive
  BY <1>1 DEF ReportInv, ReportStage, GoneStage
<1>5. ReportStage' /\ GoneStage'
  BY <1>1, <1>3, <1>4 DEF ReportInv, ReportStage, IsDone, GoneStage, runnerVars
<1>6. Queued' = Queued /\ InHand' \subseteq InHand /\ InHand \subseteq InHand' \cup {Head(hand).id}
  <2>1. Queued' = Queued
    BY <1>1 DEF Queued
  <2>2. InHand' \subseteq InHand
    BY <1>3 DEF InHand
  <2>3. ASSUME NEW i \in 1..Len(hand), i # 1 PROVE hand[i].id \in InHand'
    <3>1. i - 1 \in 1..Len(hand') /\ hand[i] = hand'[i - 1]
      BY <1>3, <2>3
    <3> QED
      BY <3>1 DEF InHand
  <2> QED
    BY <1>3, <2>1, <2>2, <2>3 DEF InHand
<1>7. ReportedApart'
  BY <1>1, <1>3 DEF ReportInv, ReportedApart
<1>8. PendingIsReported'
  BY <1>1, <1>6 DEF ReportInv, PendingIsReported, runnerVars
<1> QED
  BY <1>5, <1>7, <1>8 DEF ReportInv

LEMMA CancelReports ==
  ASSUME BridgeInv, BridgeInv', ReportInv,
         \/ DestroyCancel \/ DestroyBridge \/ ClearCompletions \/ CancelDone
         \/ \E p \in Tasks : RejectOne(p)
  PROVE  ReportInv'
<1> USE DEF DestroyCancel, DestroyBridge, ClearCompletions, CancelDone, RejectOne, MainFree,
            TakePending
<1>1. /\ pending' = {} /\ UNCHANGED <<runnerVars, hand, calling>> /\ mpc # "settle"
      /\ mpc # "post" /\ (completions' = completions \/ completions' = <<>>)
  BY DEF BridgeInv, CancelStage
<1>2. hand = <<>> /\ calling = NoTask
  BY <1>1 DEF ReportInv, ReportStage
<1>3. ReportStage'
  BY <1>1, <1>2 DEF ReportInv, ReportStage, IsDone, runnerVars
<1>4. GoneStage'
  BY DEF ReportInv, GoneStage
<1>5. ReportedApart' /\ PendingIsReported'
  BY <1>1, <1>2 DEF ReportInv, ReportedApart, PendingIsReported
<1> QED
  BY <1>3, <1>4, <1>5 DEF ReportInv

LEMMA StepReports ==
  ASSUME BridgeInv, BridgeInv', ReportInv, [Step]_steps
  PROVE  ReportInv'
<1>0. [RunnerNext]_runnerVars
  BY BridgeStepIsRunnerStep
<1>1. CASE PoolStep \/ ShutdownPool
  <2>1. UNCHANGED <<pending, completions, alive, mpc, hand, calling>>
    BY <1>1 DEF PoolStep, ShutdownPool, bridgeVars
  <2>2. \A p \in Tasks : outcome[p] \in {"queued", "running"} /\ ~shuttingDown' =>
          outcome'[p] \in {"queued", "running"}
    BY <1>1, CarriedOn, OwnerIsCaller DEF PoolStep, ShutdownPool
  <2>3. shuttingDown => shuttingDown'
    BY <1>1 DEF PoolStep, ShutdownPool, NotifyOne, ShutdownStep, ShutdownDrop,
        ShutdownNotifyAll, ShutdownJoin, ShutdownBegin, WorkerStep, WorkerTake, WorkerExit,
        WorkerBlock, SpuriousWake
  <2> QED
    BY <1>0, <2>1, <2>2, <2>3, NothingReported
<1>2. CASE \/ BindAsync \/ Unbind \/ UNCHANGED steps
           \/ \E w \in Workers : HostCallback(w) \/ CheckAlive(w)
  <2>1. UNCHANGED <<runnerVars, pending, completions, alive, mpc, hand, calling>>
    BY <1>2 DEF BindAsync, Unbind, HostCallback, CheckAlive, steps, bridgeVars
  <2>2. UNCHANGED <<outcome, shuttingDown>>
    BY <2>1 DEF runnerVars
  <2> QED
    BY <1>0, <2>1, <2>2, NothingReported
<1>3. CASE (\E p \in Tasks : IssuePromise(p)) \/ PostCall \/ PostCallRejected
  BY <1>0, <1>3, CallReports
<1>4. CASE FlushSwap
  BY <1>4, FlushSwapReports
<1>5. CASE SettleNext
  BY <1>5, SettleNextReports
<1>6. CASE \/ DestroyCancel \/ DestroyBridge \/ ClearCompletions \/ CancelDone
           \/ \E p \in Tasks : RejectOne(p)
  BY <1>6, CancelReports
<1>7. CASE \E w \in Workers : GiveUp(w) \/ PushCompletion(w)
  BY <1>7, ClosureEndReports
<1> QED
  BY <1>1, <1>2, <1>3, <1>4, <1>5, <1>6, <1>7 DEF Step, MainStep, ClosureStep

THEOREM ReportInvariant == Spec => []ReportInv
  BY InitReportInv, NextIsStep, StepReports, BridgeInvariant, PTL DEF Spec

\* While the pool accepts work, no unsettled call is forgotten: somebody will
\* report it (host_bridge.cpp 270-333).
THEOREM NoCallIsForgotten == Spec => []PendingIsReported
<1>1. ReportInv => PendingIsReported
  BY DEF ReportInv
<1> QED
  BY <1>1, ReportInvariant, PTL

\* No call is reported twice, neither in the queue nor in the batch in hand.
THEOREM ReportedOnce == Spec => []OneCompletionPerCall
<1>1. ReportInv => OneCompletionPerCall
  BY DEF ReportInv, ReportedApart, OneCompletionPerCall, Queued, InHand
<1> QED
  BY <1>1, ReportInvariant, PTL

\* A bridge that is gone holds no completion and no promise, whenever workers
\* come back from the callbacks they were in (lines 32, 294-297, 683-684).
THEOREM NothingIsLate == Spec => []NothingAfterGone
<1>1. BridgeInv /\ ReportInv => NothingAfterGone
  BY DEF BridgeInv, CancelStage, ReportInv, GoneStage, NothingAfterGone
<1> QED
  BY <1>1, BridgeInvariant, ReportInvariant, PTL
=============================================================================
