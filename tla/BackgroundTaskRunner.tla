------------------------ MODULE BackgroundTaskRunner ------------------------
(***************************************************************************)
(* The worker pool of core/utils/background_task_runner.cpp: a deque of    *)
(* tasks guarded by one mutex, a condition variable, and worker threads.   *)
(* A critical section is one action.  What the code does after unlocking   *)
(* (notify_one, the on_drop callbacks, notify_all, the joins) is a step of *)
(* its own, so that the other threads run in between.                      *)
(*                                                                         *)
(* Shutdown sets shutting_down and swaps state_->workers out in the same   *)
(* critical section, so "the workers vector is empty" is shuttingDown.     *)
(***************************************************************************)
EXTENDS Naturals, Sequences, FiniteSets

CONSTANTS
  Workers,   \* the worker threads
  Callers,   \* the threads that call Post
  Owner,     \* the caller that also calls Shutdown (mblink_destroy's thread)
  Tasks,     \* task identities, each posted at most once
  NoTask     \* the value of current[w] when w runs nothing

ASSUME OwnerIsCaller == Owner \in Callers
ASSUME NoTaskIsNoTask == NoTask \notin Tasks
ASSUME SomeWorker == Workers # {} /\ IsFiniteSet(Workers)

VARIABLES
  queue,         \* state_->tasks
  shuttingDown,  \* state_->shutting_down
  wpc,           \* wpc[w]: where worker w stands in WorkerLoop
  current,       \* current[w]: the task w moved out of the queue
  cpc,           \* cpc[c]: where caller c stands in Post or Shutdown
  dropped,       \* Shutdown's local deque of tasks that will not run
  outcome        \* outcome[t]: history, what became of task t

runnerVars == <<queue, shuttingDown, wpc, current, cpc, dropped, outcome>>

Outcomes == {"new", "queued", "running", "done", "dropped", "rejected"}

RunnerTypeOK ==
  /\ queue \in Seq(Tasks)
  /\ shuttingDown \in BOOLEAN
  /\ wpc \in [Workers -> {"check", "blocked", "run", "exited"}]
  /\ current \in [Workers -> Tasks \cup {NoTask}]
  /\ cpc \in [Callers -> {"idle", "notify", "drop", "notifyAll", "join", "closed"}]
  /\ dropped \in Seq(Tasks)
  /\ outcome \in [Tasks -> Outcomes]

RunnerInit ==
  /\ queue = <<>>
  /\ shuttingDown = FALSE
  /\ wpc = [w \in Workers |-> "check"]
  /\ current = [w \in Workers |-> NoTask]
  /\ cpc = [c \in Callers |-> "idle"]
  /\ dropped = <<>>
  /\ outcome = [t \in Tasks |-> "new"]

-----------------------------------------------------------------------------
(* Post *)

CanCall(c) == cpc[c] \in {"idle", "closed"}

\* Mutant: no notify_one after the push.
PostAccepted_NoNotify(c, t) ==
  /\ CanCall(c) /\ outcome[t] = "new" /\ ~shuttingDown
  /\ queue' = Append(queue, t)
  /\ outcome' = [outcome EXCEPT ![t] = "queued"]
  /\ UNCHANGED <<shuttingDown, wpc, current, cpc, dropped>>

PostAccepted(c, t) ==
  /\ CanCall(c) /\ outcome[t] = "new"
  /\ ~shuttingDown
  /\ queue' = Append(queue, t)
  /\ outcome' = [outcome EXCEPT ![t] = "queued"]
  /\ cpc' = [cpc EXCEPT ![c] = "notify"]
  /\ UNCHANGED <<shuttingDown, wpc, current, dropped>>

PostRejected(c, t) ==
  /\ CanCall(c) /\ outcome[t] = "new"
  /\ shuttingDown
  /\ outcome' = [outcome EXCEPT ![t] = "rejected"]
  /\ UNCHANGED <<queue, shuttingDown, wpc, current, cpc, dropped>>

\* notify_one: one blocked worker, if there is one, goes back to its predicate.
NotifyOne(c) ==
  /\ cpc[c] = "notify"
  /\ \/ \E w \in Workers : /\ wpc[w] = "blocked"
                           /\ wpc' = [wpc EXCEPT ![w] = "check"]
     \/ /\ \A w \in Workers : wpc[w] # "blocked"
        /\ UNCHANGED wpc
  /\ cpc' = [cpc EXCEPT ![c] = "idle"]
  /\ UNCHANGED <<queue, shuttingDown, current, dropped, outcome>>

-----------------------------------------------------------------------------
(* Shutdown: a second call finds shutting_down set and returns at once. *)

\* Mutant: the waiting tasks are left to the workers.
ShutdownBegin_Drain ==
  /\ cpc[Owner] = "idle" /\ ~shuttingDown
  /\ shuttingDown' = TRUE
  /\ cpc' = [cpc EXCEPT ![Owner] = "drop"]
  /\ UNCHANGED <<queue, wpc, current, dropped, outcome>>

ShutdownBegin ==
  /\ cpc[Owner] = "idle"
  /\ ~shuttingDown
  /\ shuttingDown' = TRUE
  /\ dropped' = queue
  /\ queue' = <<>>
  /\ cpc' = [cpc EXCEPT ![Owner] = "drop"]
  /\ UNCHANGED <<wpc, current, outcome>>

ShutdownDrop ==
  /\ cpc[Owner] = "drop"
  /\ dropped # <<>>
  /\ outcome' = [outcome EXCEPT ![Head(dropped)] = "dropped"]
  /\ dropped' = Tail(dropped)
  /\ UNCHANGED <<queue, shuttingDown, wpc, current, cpc>>

\* Mutant: notify_one instead of notify_all.
ShutdownNotifyAll_One ==
  /\ cpc[Owner] = "drop" /\ dropped = <<>>
  /\ \/ \E w \in Workers : wpc[w] = "blocked" /\ wpc' = [wpc EXCEPT ![w] = "check"]
     \/ (\A w \in Workers : wpc[w] # "blocked") /\ UNCHANGED wpc
  /\ cpc' = [cpc EXCEPT ![Owner] = "join"]
  /\ UNCHANGED <<queue, shuttingDown, current, dropped, outcome>>

ShutdownNotifyAll ==
  /\ cpc[Owner] = "drop"
  /\ dropped = <<>>
  /\ wpc' = [w \in Workers |-> IF wpc[w] = "blocked" THEN "check" ELSE wpc[w]]
  /\ cpc' = [cpc EXCEPT ![Owner] = "join"]
  /\ UNCHANGED <<queue, shuttingDown, current, dropped, outcome>>

ShutdownJoin ==
  /\ cpc[Owner] = "join"
  /\ \A w \in Workers : wpc[w] = "exited"
  /\ cpc' = [cpc EXCEPT ![Owner] = "closed"]
  /\ UNCHANGED <<queue, shuttingDown, wpc, current, dropped, outcome>>

-----------------------------------------------------------------------------
(* WorkerLoop: cv.wait evaluates its predicate under the mutex. *)

WorkerExit(w) ==
  /\ wpc[w] = "check"
  /\ shuttingDown /\ queue = <<>>
  /\ wpc' = [wpc EXCEPT ![w] = "exited"]
  /\ UNCHANGED <<queue, shuttingDown, current, cpc, dropped, outcome>>

WorkerTake(w) ==
  /\ wpc[w] = "check"
  /\ queue # <<>>
  /\ current' = [current EXCEPT ![w] = Head(queue)]
  /\ queue' = Tail(queue)
  /\ outcome' = [outcome EXCEPT ![Head(queue)] = "running"]
  /\ wpc' = [wpc EXCEPT ![w] = "run"]
  /\ UNCHANGED <<shuttingDown, cpc, dropped>>

WorkerBlock(w) ==
  /\ wpc[w] = "check"
  /\ ~shuttingDown /\ queue = <<>>
  /\ wpc' = [wpc EXCEPT ![w] = "blocked"]
  /\ UNCHANGED <<queue, shuttingDown, current, cpc, dropped, outcome>>

\* A condition variable may wake without a notification.
SpuriousWake(w) ==
  /\ wpc[w] = "blocked"
  /\ wpc' = [wpc EXCEPT ![w] = "check"]
  /\ UNCHANGED <<queue, shuttingDown, current, cpc, dropped, outcome>>

\* queued.task() returns and the loop starts over.
FinishTask(w) ==
  /\ wpc[w] = "run"
  /\ outcome' = [outcome EXCEPT ![current[w]] = "done"]
  /\ current' = [current EXCEPT ![w] = NoTask]
  /\ wpc' = [wpc EXCEPT ![w] = "check"]
  /\ UNCHANGED <<queue, shuttingDown, cpc, dropped>>

-----------------------------------------------------------------------------
WorkerStep(w) == WorkerExit(w) \/ WorkerTake(w) \/ WorkerBlock(w)

ShutdownStep == ShutdownDrop \/ ShutdownNotifyAll \/ ShutdownJoin

RunnerNext ==
  \/ \E c \in Callers, t \in Tasks : PostAccepted(c, t) \/ PostRejected(c, t)
  \/ \E c \in Callers : NotifyOne(c)
  \/ ShutdownBegin
  \/ ShutdownStep
  \/ \E w \in Workers : WorkerStep(w) \/ FinishTask(w) \/ SpuriousWake(w)

\* Threads are scheduled and tasks return; nothing forces a caller to post or
\* to shut down, and no spurious wake-up is ever owed.
RunnerFairness ==
  /\ \A w \in Workers : WF_runnerVars(WorkerStep(w)) /\ WF_runnerVars(FinishTask(w))
  /\ \A c \in Callers : WF_runnerVars(NotifyOne(c))
  /\ WF_runnerVars(ShutdownStep)

RunnerSpec == RunnerInit /\ [][RunnerNext]_runnerVars /\ RunnerFairness

-----------------------------------------------------------------------------
(* Properties *)

Waiting == {queue[i] : i \in 1..Len(queue)}
Doomed == {dropped[i] : i \in 1..Len(dropped)}

\* Post returned true, so the task is in exactly one place: the deque, one
\* worker's hands, or Shutdown's local list (lines 60, 77, 122).
TaskInOnePlace ==
  /\ \A t \in Tasks :
       /\ outcome[t] = "queued" <=> t \in Waiting \cup Doomed
       /\ outcome[t] = "running" <=> \E w \in Workers : current[w] = t
  /\ Waiting \cap Doomed = {}
  /\ \A v, w \in Workers : current[v] = current[w] /\ current[v] # NoTask => v = w

\* When Shutdown has returned, no thread of the pool runs a task and none can
\* start (lines 89-93): what the destructor of the resources relies on.
QuietAfterShutdown ==
  cpc[Owner] = "closed" =>
    \A t \in Tasks : outcome[t] \notin {"queued", "running"}

\* A worker sleeps on the condition variable only while nothing is owed to it:
\* every queued task has an awake worker or a caller about to notify.
NoLostNotify ==
  (queue # <<>> /\ \A w \in Workers : wpc[w] = "blocked") =>
    \E c \in Callers : cpc[c] = "notify"

\* The pool keeps the promise of TaskPool: tasks start in the order they were
\* accepted and none starts once Shutdown has begun.
Pool == INSTANCE TaskPool WITH
  line <- queue \o dropped,
  open <- ~shuttingDown,
  returned <- cpc[Owner] = "closed",
  fate <- outcome

PoolContract == Pool!PoolSpec
=============================================================================
