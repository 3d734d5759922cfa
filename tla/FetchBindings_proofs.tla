------------------------ MODULE FetchBindings_proofs ------------------------
(***************************************************************************)
(* Proofs about fetch, for any number of workers, requests, other clients  *)
(* of the pool and either owner of it.  Every step is a step of the pool   *)
(* or leaves it alone, so the pool's invariant carries over.  The rest of  *)
(* FetchInv follows a request from the promise to the response: who holds  *)
(* the resolvers, what the pool may do with a request it was never given,  *)
(* and where the answer is.                                                *)
(***************************************************************************)
EXTENDS FetchBindings, BackgroundTaskRunner_proofs

\* How far a fetch, __fetchCleanup and BeginShutdown have come.
MainStage ==
  /\ mpc \in {"request", "register"} <=> calling # NoTask
  /\ mpc = "request" => outcome[calling] = "new"
  /\ mpc = "register" => ~fetchCleanupRequested
  /\ mpc = "cleanup" \/ ~alive => fetchCleanupRequested
  /\ mpc \in {"swap", "gone"} => ~alive
  /\ fetchCleanupRequested /\ mpc # "cleanup" => pendingFetches = {}

\* A promise is pending exactly while script, or fetch itself, has its resolvers.
KeptIsPending ==
  \A p \in Requests : promise[p] = "pending" <=> p \in pendingFetches \cup {calling}

\* Only requests that were made reach the pool, and only a load that has ended
\* has given something.
FetchHistory ==
  /\ \A p \in Requests : promise[p] = "none" => outcome[p] = "new"
  /\ \A p \in Requests : outcome[p] \in {"new", "queued"} => returned[p] = "none"
  /\ \A w \in Workers : Loading(w) /\ wstage[w] = "load" => returned[current[w]] = "none"

\* A worker between loading and publishing runs a request.
WorkerStage == \A w \in Workers : wstage[w] # "load" => Loading(w)

\* A response without an error is of a request that was loaded.
ResponsesTrue ==
  \A i \in 1..Len(responses) : responses[i].ok => returned[responses[i].id] = "ok"

\* FetchIsAnswered, also for the request whose id is about to be registered.
AnswersAreComing ==
  ~fetchCleanupRequested =>
    /\ pendingFetches # {} => fetchPolling
    /\ \A p \in Requests :
         p \in pendingFetches \/ (mpc = "register" /\ p = calling) =>
           outcome[p] \in {"queued", "running"} \/ p \in Answered

FetchInv ==
  /\ FetchTypeOK
  /\ RunnerInv
  /\ MainStage
  /\ KeptIsPending
  /\ FetchHistory
  /\ WorkerStage
  /\ ResponsesTrue
  /\ AnswersAreComing
  /\ NothingPublishedLate

-----------------------------------------------------------------------------
LEMMA InitFetchInv == Init => FetchInv
<1> SUFFICES ASSUME Init PROVE FetchInv
  OBVIOUS
<1> USE DEF Init
<1>1. RunnerInv
  BY InitRunnerInv
<1>2. FetchTypeOK
  BY EmptySeq DEF FetchTypeOK
<1>3. MainStage /\ KeptIsPending /\ WorkerStage
  BY NoTaskIsNoTask, RequestsAreTasks DEF MainStage, KeptIsPending, WorkerStage
<1>4. FetchHistory
  BY RequestsAreTasks DEF FetchHistory, RunnerInit, Loading
<1>5. ResponsesTrue /\ AnswersAreComing /\ NothingPublishedLate
  BY DEF ResponsesTrue, AnswersAreComing, NothingPublishedLate
<1> QED
  BY <1>1, <1>2, <1>3, <1>4, <1>5 DEF FetchInv

\* Who shuts the pool down matters to the guards only.
LEMMA NextIsStep == [Next]_vars => [Step]_steps
  BY DEF Next, vars

\* fetch drives the pool through the pool's own operations.
LEMMA FetchStepIsRunnerStep ==
  ASSUME FetchInv, [Step]_steps
  PROVE  [RunnerNext]_runnerVars
<1> USE OwnerIsCaller, RequestsAreTasks DEF RunnerNext
<1>1. CASE PostFetch \/ PostFetchRefused
  <2>1. calling \in Tasks
    BY <1>1 DEF PostFetch, PostFetchRefused, FetchInv, FetchTypeOK, MainStage
  <2> QED
    BY <1>1, <2>1 DEF PostFetch, PostFetchRefused
<1>2. CASE ShutdownPool \/ DropTask
  BY <1>2 DEF ShutdownPool, DropTask, ShutdownStep
<1>3. CASE PoolStep
  BY <1>3 DEF PoolStep, ShutdownStep
<1>4. CASE \E w \in Workers : TaskStep(w)
  BY <1>4 DEF TaskStep, Load, CheckAlive, GiveUp, PushResponse, OtherFinish
<1>5. CASE \E c \in Callers, t \in Tasks \ Requests : OtherPost(c, t)
  BY <1>5 DEF OtherPost
<1>6. CASE \/ FetchAfterCleanup \/ Register \/ CleanupDone \/ SwapResponses \/ Poll
           \/ FetchCleanup \/ BeginShutdown \/ Destroy
           \/ \E p \in Requests : NewFetch(p) \/ RejectOne(p)
  BY <1>6 DEF FetchAfterCleanup, Register, CleanupDone, SwapResponses, Poll, FetchCleanup,
              BeginShutdown, Destroy, NewFetch, RejectOne
<1>7. CASE UNCHANGED steps
  BY <1>7 DEF steps
<1> QED
  BY <1>1, <1>2, <1>3, <1>4, <1>5, <1>6, <1>7 DEF Step, MainStep

LEMMA RunnerInvKept == FetchInv /\ [Step]_steps => RunnerInv'
  BY FetchStepIsRunnerStep, RunnerStepInv DEF FetchInv

\* What publishing does to the queue.
LEMMA PublishAdds ==
  ASSUME FetchInv, NEW p \in Requests, NEW ok \in BOOLEAN, ok => returned[p] = "ok",
         Publish(p, ok), returned' = returned
  PROVE  /\ responses' \in Seq(Response) /\ ResponsesTrue'
         /\ Answered \subseteq Answered'
         /\ alive => p \in Answered'
         /\ ~alive => responses' = responses
<1> DEFINE r == [id |-> p, ok |-> ok]
<1>0. responses \in Seq(Response) /\ ResponsesTrue /\ r \in Response
  BY DEF FetchInv, FetchTypeOK, Response
<1>1. CASE ~alive
  BY <1>0, <1>1 DEF Publish, ResponsesTrue, Answered
<1>2. CASE alive
  <2>1. responses' = Append(responses, r)
    BY <1>2 DEF Publish
  <2>2. /\ responses' \in Seq(Response)
        /\ Len(responses') = Len(responses) + 1 /\ Len(responses) \in Nat
        /\ \A i \in 1..Len(responses) : responses'[i] = responses[i]
        /\ responses'[Len(responses) + 1] = r
    BY <1>0, <2>1, AppendProperties, LenProperties
  <2>3. ResponsesTrue'
    BY <1>0, <2>2 DEF ResponsesTrue
  <2>4. Answered \subseteq Answered' /\ p \in Answered'
    BY <2>2 DEF Answered
  <2> QED
    BY <1>2, <2>2, <2>3, <2>4
<1> QED
  BY <1>1, <1>2

-----------------------------------------------------------------------------
(* One lemma per group of actions that disturb the same parts of FetchInv. *)

\* What a step of the pool, or of its other clients, may do to requests.
PoolMoves ==
  /\ \A p \in Requests :
       /\ outcome[p] = "new" <=> outcome'[p] = "new"
       /\ outcome'[p] = "queued" => outcome[p] = "queued"
       /\ outcome[p] \in {"queued", "running"} => outcome'[p] \in {"queued", "running"}
  /\ \A w \in Workers :
       /\ Loading(w) => Loading(w)' /\ current'[w] = current[w]
       /\ Loading(w)' /\ ~Loading(w) => outcome[current'[w]] = "queued"

LEMMA PoolOnlyMoves ==
  ASSUME FetchInv,
         \/ PoolStep \/ ShutdownPool
         \/ \E c \in Callers, t \in Tasks \ Requests : OtherPost(c, t)
         \/ \E w \in Workers : OtherFinish(w)
  PROVE  PoolMoves
<1> USE RequestsAreTasks DEF FetchInv, RunnerInv, RunnerTypeOK, PoolMoves, Loading
<1>1. ASSUME NEW c \in Callers, NotifyOne(c) PROVE PoolMoves
  BY <1>1 DEF NotifyOne
<1>2. CASE ShutdownNotifyAll \/ ShutdownJoin \/ ShutdownPool
  BY <1>2 DEF ShutdownNotifyAll, ShutdownJoin, ShutdownPool, ShutdownBegin
<1>3. ASSUME NEW w \in Workers, WorkerExit(w) \/ WorkerBlock(w) \/ SpuriousWake(w)
      PROVE  PoolMoves
  BY <1>3 DEF WorkerExit, WorkerBlock, SpuriousWake
<1>4. ASSUME NEW w \in Workers, WorkerTake(w) PROVE PoolMoves
  <2>1. Head(queue) \in Tasks /\ outcome[Head(queue)] = "queued"
    BY <1>4, TailElems DEF WorkerTake, LineOK, TaskInOnePlace, Waiting, Elems
  <2> QED
    BY <1>4, <2>1 DEF WorkerTake
<1>5. ASSUME NEW c \in Callers, NEW t \in Tasks \ Requests, OtherPost(c, t) PROVE PoolMoves
  BY <1>5 DEF OtherPost, PostAccepted, PostRejected
<1>6. ASSUME NEW w \in Workers, OtherFinish(w) PROVE PoolMoves
  BY <1>6, NoTaskIsNoTask DEF OtherFinish, FinishTask
<1> QED
  BY <1>1, <1>2, <1>3, <1>4, <1>5, <1>6 DEF PoolStep, WorkerStep

\* Steps of the pool that touch no variable of fetch.
LEMMA PoolMovesInv ==
  ASSUME FetchInv, RunnerInv', PoolMoves, UNCHANGED fetchVars
  PROVE  FetchInv'
<1> USE DEF fetchVars
<1>1. FetchTypeOK' /\ NothingPublishedLate'
  BY DEF FetchInv, FetchTypeOK, NothingPublishedLate
<1>2. MainStage' /\ KeptIsPending'
  BY NoTaskIsNoTask DEF FetchInv, FetchTypeOK, MainStage, KeptIsPending, PoolMoves
<1>3. FetchHistory'
  <2>1. \A w \in Workers : Loading(w)' => current'[w] \in Requests
    BY DEF Loading
  <2> QED
    BY <2>1 DEF FetchInv, FetchHistory, PoolMoves
<1>4. WorkerStage'
  BY DEF FetchInv, WorkerStage, PoolMoves
<1>5. ResponsesTrue' /\ AnswersAreComing'
  BY DEF FetchInv, ResponsesTrue, AnswersAreComing, Answered, PoolMoves
<1> QED
  BY <1>1, <1>2, <1>3, <1>4, <1>5 DEF FetchInv

\* Script's own steps leave the pool and the queue alone.
LEMMA ScriptStepInv ==
  ASSUME FetchInv, RunnerInv',
         \/ FetchAfterCleanup \/ Register \/ CleanupDone \/ FetchCleanup \/ BeginShutdown
         \/ Destroy \/ \E p \in Requests : NewFetch(p) \/ RejectOne(p)
  PROVE  FetchInv'
<1> USE NoTaskIsNoTask, RequestsAreTasks
    DEF FetchAfterCleanup, Register, CleanupDone, FetchCleanup, BeginShutdown, Destroy,
        NewFetch, RejectOne, MainFree, Settle
<1>0. /\ UNCHANGED <<runnerVars, responses, wstage, returned>>
      /\ UNCHANGED <<outcome, wpc, current>>
  BY DEF runnerVars
<1>1. FetchTypeOK'
  BY <1>0 DEF FetchInv, FetchTypeOK, MainStage
<1>2. MainStage'
  BY <1>0 DEF FetchInv, FetchTypeOK, MainStage, FetchHistory
<1>3. KeptIsPending'
  BY DEF FetchInv, FetchTypeOK, KeptIsPending, MainStage
<1>4. FetchHistory'
  BY <1>0 DEF FetchInv, FetchTypeOK, FetchHistory, Loading, MainStage, KeptIsPending
<1>5. WorkerStage' /\ ResponsesTrue'
  BY <1>0 DEF FetchInv, WorkerStage, ResponsesTrue, Loading
<1>6. AnswersAreComing'
  BY <1>0 DEF FetchInv, FetchTypeOK, AnswersAreComing, Answered, MainStage
<1>7. NothingPublishedLate'
  BY <1>0 DEF FetchInv, NothingPublishedLate, MainStage
<1> QED
  BY <1>1, <1>2, <1>3, <1>4, <1>5, <1>6, <1>7 DEF FetchInv

LEMMA PostFetchInv ==
  ASSUME FetchInv, RunnerInv', PostFetch \/ PostFetchRefused
  PROVE  FetchInv'
<1> USE NoTaskIsNoTask, RequestsAreTasks
<1>0. /\ mpc = "request" /\ mpc' = "register" /\ ~fetchCleanupRequested
      /\ calling \in Requests /\ outcome[calling] = "new" /\ alive
      /\ promise[calling] = "pending"
      /\ UNCHANGED <<promise, pendingFetches, fetchPolling, fetchCleanupRequested, alive,
                     calling, wstage, returned, wpc, current>>
      /\ \A p \in Requests : p # calling => outcome'[p] = outcome[p]
  BY DEF PostFetch, PostFetchRefused, PostAccepted, PostRejected, FetchInv, FetchTypeOK,
         MainStage, KeptIsPending, RunnerInv, RunnerTypeOK
<1>1. /\ responses' \in Seq(Response) /\ ResponsesTrue' /\ Answered \subseteq Answered'
      /\ outcome'[calling] = "queued" \/ (outcome'[calling] = "rejected" /\ calling \in Answered')
  <2>1. CASE PostFetch
    BY <1>0, <2>1 DEF PostFetch, PostAccepted, FetchInv, FetchTypeOK, ResponsesTrue,
                      Answered, RunnerInv, RunnerTypeOK
  <2>2. CASE PostFetchRefused
    <3>1. Publish(calling, FALSE) /\ outcome'[calling] = "rejected"
      BY <1>0, <2>2 DEF PostFetchRefused, PostRejected, FetchInv, RunnerInv, RunnerTypeOK
    <3> QED
      BY <1>0, <3>1, PublishAdds
  <2> QED
    BY <2>1, <2>2
<1>2. FetchTypeOK'
  BY <1>0, <1>1 DEF FetchInv, FetchTypeOK
<1>3. MainStage' /\ KeptIsPending'
  BY <1>0 DEF FetchInv, MainStage, KeptIsPending
<1>4. FetchHistory'
  <2>1. \A w \in Workers : Loading(w)' <=> Loading(w)
    BY <1>0 DEF Loading
  <2>2. returned[calling] = "none"
    BY <1>0 DEF FetchInv, FetchHistory
  <2> QED
    BY <1>0, <2>1, <2>2 DEF FetchInv, FetchHistory
<1>5. WorkerStage'
  BY <1>0 DEF FetchInv, WorkerStage, Loading
<1>6. AnswersAreComing'
  BY <1>0, <1>1 DEF FetchInv, AnswersAreComing
<1>7. NothingPublishedLate'
  BY <1>0 DEF NothingPublishedLate
<1> QED
  BY <1>1, <1>2, <1>3, <1>4, <1>5, <1>6, <1>7 DEF FetchInv

\* A worker loads, and looks whether anybody is still there.
LEMMA LoadInv ==
  ASSUME FetchInv, RunnerInv', NEW w \in Workers, Load(w) \/ CheckAlive(w)
  PROVE  FetchInv'
<1> USE RequestsAreTasks
<1>0. /\ UNCHANGED <<promise, pendingFetches, fetchPolling, fetchCleanupRequested,
                     responses, alive, mpc, calling, outcome, wpc, current>>
      /\ Loading(w) /\ current[w] \in Requests /\ outcome[current[w]] = "running"
      /\ \A v \in Workers : current[v] = current[w] => v = w
      /\ \A v \in Workers : Loading(v)' <=> Loading(v)
  BY DEF Load, CheckAlive, runnerVars, FetchInv, RunnerInv, RunnerTypeOK, TaskInOnePlace,
         HoldsWhileRunning, WorkerStage, Loading
<1>1. /\ wstage' \in [Workers -> {"load", "check", "push"}]
      /\ wstage'[w] # "load"
      /\ \A v \in Workers : v # w => wstage'[v] = wstage[v]
  BY DEF Load, CheckAlive, FetchInv, FetchTypeOK
<1>2. /\ returned' \in [Requests -> {"none", "ok", "fail"}]
      /\ \A p \in Requests : p # current[w] \/ returned[p] = "ok" => returned'[p] = returned[p]
  BY <1>0 DEF Load, CheckAlive, FetchInv, FetchTypeOK, FetchHistory
<1>3. FetchTypeOK'
  BY <1>0, <1>1, <1>2 DEF FetchInv, FetchTypeOK
<1>4. MainStage' /\ KeptIsPending' /\ AnswersAreComing' /\ NothingPublishedLate'
  BY <1>0 DEF FetchInv, MainStage, KeptIsPending, AnswersAreComing, Answered,
              NothingPublishedLate
<1>5. FetchHistory'
  <2>1. \A v \in Workers : Loading(v) => current[v] \in Requests
    BY DEF Loading
  <2> QED
    BY <1>0, <1>1, <1>2, <2>1 DEF FetchInv, FetchHistory
<1>6. WorkerStage'
  BY <1>0, <1>1 DEF FetchInv, WorkerStage
<1>7. ResponsesTrue'
  <2>1. \A i \in 1..Len(responses) : responses[i].id \in Requests
    <3>1. \A i \in 1..Len(responses) : responses[i] \in Response
      BY ElementOfSeq DEF FetchInv, FetchTypeOK
    <3> QED
      BY <3>1 DEF Response
  <2> QED
    BY <1>0, <1>2, <2>1 DEF FetchInv, ResponsesTrue
<1> QED
  BY <1>3, <1>4, <1>5, <1>6, <1>7 DEF FetchInv

\* A worker publishes, or gives up when BeginShutdown came first.
LEMMA TaskEndsInv ==
  ASSUME FetchInv, RunnerInv', NEW w \in Workers, GiveUp(w) \/ PushResponse(w)
  PROVE  FetchInv'
<1> USE RequestsAreTasks
<1> DEFINE t == current[w]
<1>0. /\ Loading(w) /\ t \in Requests /\ outcome[t] = "running"
      /\ UNCHANGED <<promise, pendingFetches, fetchPolling, fetchCleanupRequested, alive,
                     mpc, calling, returned>>
      /\ \A p \in Tasks : outcome'[p] = IF p = t THEN "done" ELSE outcome[p]
      /\ current' = [current EXCEPT ![w] = NoTask]
      /\ wpc' = [wpc EXCEPT ![w] = "check"] /\ wstage' = [wstage EXCEPT ![w] = "load"]
  BY DEF GiveUp, PushResponse, FinishTask, FetchInv, RunnerInv, RunnerTypeOK,
         TaskInOnePlace, HoldsWhileRunning, WorkerStage, Loading
<1>1. /\ responses' \in Seq(Response) /\ ResponsesTrue' /\ Answered \subseteq Answered'
      /\ alive => t \in Answered'
      /\ ~alive => responses' = responses
  <2>1. CASE GiveUp(w)
    BY <1>0, <2>1 DEF GiveUp, FetchInv, FetchTypeOK, ResponsesTrue, Answered
  <2>2. CASE PushResponse(w)
    BY <1>0, <2>2, PublishAdds DEF PushResponse
  <2> QED
    BY <2>1, <2>2
<1>2. FetchTypeOK'
  BY <1>0, <1>1 DEF FetchInv, FetchTypeOK
<1>3. MainStage' /\ KeptIsPending'
  <2>1. mpc = "request" => calling # t
    BY <1>0 DEF FetchInv, MainStage
  <2> QED
    BY <1>0, <2>1 DEF FetchInv, FetchTypeOK, MainStage, KeptIsPending
<1>4. \A v \in Workers : Loading(v)' <=> Loading(v) /\ v # w
  BY <1>0, NoTaskIsNoTask DEF Loading, FetchInv, RunnerInv, RunnerTypeOK
<1>5. \A v \in Workers : v # w => current'[v] = current[v] /\ wstage'[v] = wstage[v]
  BY <1>0 DEF FetchInv, FetchTypeOK, RunnerInv, RunnerTypeOK
<1>6. FetchHistory'
  <2>1. promise[t] # "none"
    BY <1>0 DEF FetchInv, FetchHistory
  <2> QED
    BY <1>0, <1>4, <1>5, <2>1 DEF FetchInv, FetchHistory
<1>7. WorkerStage'
  BY <1>0, <1>4, <1>5 DEF FetchInv, FetchTypeOK, WorkerStage
<1>8. AnswersAreComing'
  BY <1>0, <1>1 DEF FetchInv, AnswersAreComing, MainStage
<1>9. NothingPublishedLate'
  BY <1>0, <1>1 DEF FetchInv, NothingPublishedLate
<1> QED
  BY <1>1, <1>2, <1>3, <1>6, <1>7, <1>8, <1>9 DEF FetchInv

\* The pool drops a task; a request's on_drop answers it.
LEMMA DropTaskInv ==
  ASSUME FetchInv, RunnerInv', DropTask
  PROVE  FetchInv'
<1> USE RequestsAreTasks
<1> DEFINE t == Head(dropped)
<1>0. /\ t \in Tasks /\ outcome[t] = "queued"
      /\ UNCHANGED <<promise, pendingFetches, fetchPolling, fetchCleanupRequested, alive,
                     mpc, calling, wstage, returned, wpc, current>>
      /\ \A p \in Tasks : outcome'[p] = IF p = t THEN "dropped" ELSE outcome[p]
  BY TailElems DEF DropTask, ShutdownDrop, FetchInv, RunnerInv, RunnerTypeOK, LineOK,
                   TaskInOnePlace, Doomed, Elems
<1>1. /\ responses' \in Seq(Response) /\ ResponsesTrue' /\ Answered \subseteq Answered'
      /\ alive /\ t \in Requests => t \in Answered'
      /\ ~alive => responses' = responses
  <2>1. CASE t \in Requests
    BY <1>0, <2>1, PublishAdds DEF DropTask
  <2>2. CASE t \notin Requests
    BY <1>0, <2>2 DEF DropTask, FetchInv, FetchTypeOK, ResponsesTrue, Answered
  <2> QED
    BY <2>1, <2>2
<1>2. FetchTypeOK'
  BY <1>0, <1>1 DEF FetchInv, FetchTypeOK
<1>3. MainStage' /\ KeptIsPending'
  <2>1. mpc = "request" => calling \in Tasks /\ calling # t
    BY <1>0 DEF FetchInv, FetchTypeOK, MainStage
  <2> QED
    BY <1>0, <2>1 DEF FetchInv, MainStage, KeptIsPending
<1>4. FetchHistory' /\ WorkerStage'
  <2>1. \A w \in Workers : Loading(w)' <=> Loading(w)
    BY <1>0 DEF Loading
  <2>2. t \in Requests => promise[t] # "none"
    BY <1>0 DEF FetchInv, FetchHistory
  <2> QED
    BY <1>0, <2>1, <2>2 DEF FetchInv, FetchHistory, WorkerStage
<1>5. AnswersAreComing'
  BY <1>0, <1>1 DEF FetchInv, AnswersAreComing, MainStage
<1>6. NothingPublishedLate'
  BY <1>0, <1>1 DEF FetchInv, NothingPublishedLate
<1> QED
  BY <1>1, <1>2, <1>3, <1>4, <1>5, <1>6 DEF FetchInv

\* Script takes the first response, or the queue is emptied for good.
LEMMA PollInv ==
  ASSUME FetchInv, RunnerInv', Poll \/ SwapResponses
  PROVE  FetchInv'
<1> USE NoTaskIsNoTask, RequestsAreTasks
<1>0. /\ UNCHANGED <<fetchCleanupRequested, alive, calling, wstage, returned>>
      /\ UNCHANGED <<outcome, wpc, current>>
      /\ responses \in Seq(Response)
      /\ \A w \in Workers : Loading(w)' <=> Loading(w)
  BY DEF Poll, SwapResponses, runnerVars, FetchInv, FetchTypeOK, Loading
<1>1. WorkerStage'
  BY <1>0 DEF FetchInv, WorkerStage
<1>2. CASE SwapResponses
  <2>1. /\ responses' = <<>> /\ mpc = "swap" /\ mpc' = "script" /\ ~alive
        /\ fetchCleanupRequested
        /\ UNCHANGED <<promise, pendingFetches, fetchPolling>>
    BY <1>2 DEF SwapResponses, FetchInv, MainStage
  <2>2. FetchTypeOK' /\ ResponsesTrue'
    BY <1>0, <2>1, EmptySeq DEF FetchInv, FetchTypeOK, ResponsesTrue
  <2>3. MainStage' /\ KeptIsPending' /\ FetchHistory'
    BY <1>0, <2>1 DEF FetchInv, MainStage, KeptIsPending, FetchHistory
  <2>4. AnswersAreComing' /\ NothingPublishedLate'
    BY <1>0, <2>1 DEF AnswersAreComing, NothingPublishedLate
  <2> QED
    BY <1>1, <2>2, <2>3, <2>4 DEF FetchInv
<1>3. CASE Poll
  <2> DEFINE r == Head(responses)
  <2>1. /\ mpc = "script" /\ mpc' = mpc /\ ~fetchCleanupRequested /\ responses # <<>>
        /\ pendingFetches' = pendingFetches \ {r.id}
        /\ responses' = Tail(responses) /\ fetchPolling' = (pendingFetches' # {})
        /\ r.id \in pendingFetches =>
             promise' = [promise EXCEPT ![r.id] = IF r.ok THEN "fulfilled" ELSE "rejected"]
        /\ r.id \notin pendingFetches => promise' = promise
    BY <1>3 DEF Poll, MainFree, Settle
  <2>2. /\ r \in Response /\ Tail(responses) \in Seq(Response)
        /\ r = responses[1] /\ Len(responses) \in Nat /\ Len(responses) >= 1
        /\ Len(responses') = Len(responses) - 1
        /\ \A i \in 1..Len(responses') : responses'[i] = responses[i + 1]
    BY <1>0, <2>1, HeadTailProperties, EmptySeq, LenProperties
  <2>3. r.id \in Requests /\ r.ok \in BOOLEAN
    BY <2>2 DEF Response
  <2>4. FetchTypeOK'
    BY <1>0, <2>1, <2>2, <2>3 DEF FetchInv, FetchTypeOK
  <2>5. calling = NoTask
    BY <2>1 DEF FetchInv, MainStage
  <2>6. MainStage' /\ KeptIsPending' /\ FetchHistory'
    BY <1>0, <2>1, <2>3, <2>5 DEF FetchInv, FetchTypeOK, MainStage, KeptIsPending, FetchHistory
  <2>7. ResponsesTrue'
    BY <1>0, <2>2 DEF FetchInv, ResponsesTrue
  <2>8. Answered \subseteq Answered' \cup {r.id}
    <3>1. ASSUME NEW i \in 1..Len(responses), i # 1 PROVE responses[i].id \in Answered'
      <4>1. i - 1 \in 1..Len(responses') /\ responses[i] = responses'[i - 1]
        BY <2>2, <3>1
      <4> QED
        BY <4>1 DEF Answered
    <3> QED
      BY <2>2, <3>1 DEF Answered
  <2>9. AnswersAreComing' /\ NothingPublishedLate'
    BY <1>0, <2>1, <2>8 DEF FetchInv, AnswersAreComing, NothingPublishedLate, MainStage
  <2> QED
    BY <1>1, <2>4, <2>6, <2>7, <2>9 DEF FetchInv
<1> QED
  BY <1>2, <1>3

LEMMA FetchStepInv == FetchInv /\ [Step]_steps => FetchInv'
<1> SUFFICES ASSUME FetchInv, [Step]_steps PROVE FetchInv'
  OBVIOUS
<1>0. RunnerInv'
  BY RunnerInvKept
<1>1. CASE \/ PoolStep \/ ShutdownPool
           \/ \E c \in Callers, t \in Tasks \ Requests : OtherPost(c, t)
           \/ \E w \in Workers : OtherFinish(w)
  <2>1. UNCHANGED fetchVars
    BY <1>1 DEF PoolStep, ShutdownPool, OtherPost, OtherFinish
  <2> QED
    BY <1>0, <1>1, <2>1, PoolOnlyMoves, PoolMovesInv
<1>2. CASE \/ FetchAfterCleanup \/ Register \/ CleanupDone \/ FetchCleanup \/ BeginShutdown
           \/ Destroy \/ \E p \in Requests : NewFetch(p) \/ RejectOne(p)
  BY <1>0, <1>2, ScriptStepInv
<1>3. CASE PostFetch \/ PostFetchRefused
  BY <1>0, <1>3, PostFetchInv
<1>4. CASE \E w \in Workers : Load(w) \/ CheckAlive(w)
  BY <1>0, <1>4, LoadInv
<1>5. CASE \E w \in Workers : GiveUp(w) \/ PushResponse(w)
  BY <1>0, <1>5, TaskEndsInv
<1>6. CASE DropTask
  BY <1>0, <1>6, DropTaskInv
<1>7. CASE Poll \/ SwapResponses
  BY <1>0, <1>7, PollInv
<1>8. CASE UNCHANGED steps
  BY <1>0, <1>8 DEF steps, fetchVars, runnerVars, FetchInv, FetchTypeOK, MainStage,
     KeptIsPending, FetchHistory, WorkerStage, Loading, ResponsesTrue, AnswersAreComing,
     Answered, NothingPublishedLate
<1> QED
  BY <1>1, <1>2, <1>3, <1>4, <1>5, <1>6, <1>7, <1>8 DEF Step, MainStep, TaskStep

THEOREM FetchInvariant == Spec => []FetchInv
  BY InitFetchInv, NextIsStep, FetchStepInv, PTL DEF Spec

\* A fetch that script waits for will be answered and script will look, also when
\* somebody else shuts the pool down (fetch_bindings.cpp 586-591, 645-657).
THEOREM AnswersAreOnTheirWay == Spec => []FetchIsAnswered
<1>1. FetchInv => FetchIsAnswered
  BY DEF FetchInv, FetchTypeOK, AnswersAreComing, FetchIsAnswered
<1> QED
  BY <1>1, FetchInvariant, PTL

\* Nothing is published once BeginShutdown has emptied the queue (lines 639-656).
THEOREM NoResponseIsLate == Spec => []NothingPublishedLate
<1>1. FetchInv => NothingPublishedLate
  BY DEF FetchInv
<1> QED
  BY <1>1, FetchInvariant, PTL

-----------------------------------------------------------------------------
(* fetch implements PromiseContract. *)

LEMMA StepMeetsContract ==
  ASSUME FetchInv, [Step]_steps
  PROVE  [Contract!ContractNext]_<<promise, returned, mpc = "gone">>
<1> USE NoTaskIsNoTask, RequestsAreTasks DEF Contract!ContractNext
<1>0. FetchTypeOK /\ MainStage /\ KeptIsPending /\ FetchHistory
  BY DEF FetchInv
<1>1. ASSUME NEW p \in Requests, NewFetch(p) PROVE Contract!Issue(p)
  BY <1>1 DEF NewFetch, MainFree, Settle, Contract!Issue
<1>2. ASSUME FetchAfterCleanup PROVE Contract!Reject(calling) /\ calling \in Requests
  BY <1>0, <1>2 DEF FetchAfterCleanup, Settle, FetchTypeOK, MainStage, KeptIsPending,
                    Contract!Reject
<1>3. ASSUME NEW p \in Requests, RejectOne(p) PROVE Contract!Reject(p)
  BY <1>0, <1>3 DEF RejectOne, Settle, KeptIsPending, Contract!Reject
<1>4. ASSUME NEW w \in Workers, Load(w)
      PROVE  Contract!HostReturn(current[w]) /\ current[w] \in Requests
  <2>1. /\ current[w] \in Requests /\ outcome[current[w]] = "running"
        /\ returned[current[w]] = "none"
    BY <1>0, <1>4 DEF Load, Loading, FetchHistory, FetchInv, RunnerInv, RunnerTypeOK,
                      TaskInOnePlace
  <2>2. promise[current[w]] # "none"
    BY <1>0, <2>1 DEF FetchHistory
  <2> QED
    BY <1>4, <2>1, <2>2 DEF Load, Contract!HostReturn
<1>5. ASSUME Poll
      PROVE  \/ /\ Contract!Fulfil(Head(responses).id) \/ Contract!Reject(Head(responses).id)
                /\ Head(responses).id \in Requests
             \/ UNCHANGED <<promise, returned, mpc = "gone">>
  <2> DEFINE r == Head(responses)
  <2>1. responses \in Seq(Response) /\ responses # <<>>
    BY <1>0, <1>5 DEF Poll, FetchTypeOK
  <2>2. r \in Response /\ r = responses[1] /\ 1 \in 1..Len(responses)
    BY <2>1, HeadTailProperties, EmptySeq, LenProperties
  <2>3. r.id \in Requests /\ (r.ok => returned[r.id] = "ok")
    BY <2>2 DEF Response, FetchInv, ResponsesTrue
  <2>4. mpc = "script" /\ mpc' = mpc /\ returned' = returned
    BY <1>5 DEF Poll, MainFree
  <2>5. CASE r.id \notin pendingFetches
    BY <1>5, <2>4, <2>5 DEF Poll
  <2>6. CASE r.id \in pendingFetches
    <3>1. promise[r.id] = "pending"
      BY <1>0, <2>3, <2>6 DEF KeptIsPending
    <3>2. promise' = [promise EXCEPT ![r.id] = IF r.ok THEN "fulfilled" ELSE "rejected"]
      BY <1>5, <2>6 DEF Poll, Settle
    <3> QED
      BY <2>3, <2>4, <3>1, <3>2 DEF Contract!Fulfil, Contract!Reject
  <2> QED
    BY <2>5, <2>6
<1>6. ASSUME Destroy PROVE Contract!Vanish
  BY <1>0, <1>6 DEF Destroy, MainFree, MainStage, KeptIsPending, Contract!Vanish
<1>7. ASSUME \/ PostFetch \/ PostFetchRefused \/ Register \/ CleanupDone \/ SwapResponses
             \/ FetchCleanup \/ BeginShutdown \/ DropTask \/ ShutdownPool \/ PoolStep
             \/ \E c \in Callers, t \in Tasks \ Requests : OtherPost(c, t)
             \/ \E w \in Workers : \/ CheckAlive(w) \/ GiveUp(w) \/ PushResponse(w)
                                   \/ OtherFinish(w)
             \/ UNCHANGED steps
      PROVE  UNCHANGED <<promise, returned, mpc = "gone">>
  BY <1>7 DEF PostFetch, PostFetchRefused, Register, CleanupDone, SwapResponses, MainFree,
       FetchCleanup, BeginShutdown, DropTask, ShutdownPool, PoolStep, OtherPost, CheckAlive,
       GiveUp, PushResponse, OtherFinish, steps, fetchVars
<1> QED
  BY <1>1, <1>2, <1>3, <1>4, <1>5, <1>6, <1>7 DEF Step, MainStep, TaskStep

\* A fetch settles at most once, is fulfilled only by what was loaded, and none is
\* pending when the runtime is freed, for any number of requests and workers.
THEOREM FetchKeepsTheContract == Spec => FetchContract
<1>1. Init => Contract!ContractInit
  BY DEF Init, Contract!ContractInit
<1> QED
  BY <1>1, NextIsStep, StepMeetsContract, FetchInvariant, PTL
     DEF Spec, FetchContract, Contract!ContractSpec
=============================================================================
