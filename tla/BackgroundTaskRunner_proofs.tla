-------------------- MODULE BackgroundTaskRunner_proofs ---------------------
(***************************************************************************)
(* Proofs about the worker pool, for any number of workers, callers and    *)
(* tasks.  RunnerInv is the inductive invariant: TaskInOnePlace alone is   *)
(* not preserved, because removing the head of the deque removes the task  *)
(* from it only when no task is in it twice, and QuietAfterShutdown needs  *)
(* to know how far Shutdown has come.                                      *)
(***************************************************************************)
EXTENDS BackgroundTaskRunner, SequenceTheorems, TLAPS

Elems(s) == {s[i] : i \in 1..Len(s)}

Distinct(s) == \A i, j \in 1..Len(s) : s[i] = s[j] => i = j

\* The deque and Shutdown's list hold no task twice, and are never both in use.
LineOK ==
  /\ Distinct(queue) /\ Distinct(dropped)
  /\ shuttingDown => queue = <<>>
  /\ ~shuttingDown => dropped = <<>>

\* A worker holds a task exactly while it runs one.
HoldsWhileRunning == \A w \in Workers : wpc[w] = "run" <=> current[w] # NoTask

\* How far Shutdown has come.
ShutdownStage ==
  /\ cpc[Owner] \in {"drop", "join", "closed"} => shuttingDown
  /\ cpc[Owner] \in {"join", "closed"} => dropped = <<>>
  /\ cpc[Owner] = "closed" => \A w \in Workers : wpc[w] = "exited"

RunnerInv ==
  /\ RunnerTypeOK
  /\ TaskInOnePlace
  /\ LineOK
  /\ HoldsWhileRunning
  /\ ShutdownStage

-----------------------------------------------------------------------------
(* What the deque operations do to the set of elements. *)

\* push_back adds one element and keeps the others.
LEMMA AppendElems ==
  ASSUME NEW S, NEW s \in Seq(S), NEW e \in S
  PROVE  /\ Append(s, e) \in Seq(S)
         /\ Elems(Append(s, e)) = Elems(s) \cup {e}
         /\ Distinct(s) /\ e \notin Elems(s) => Distinct(Append(s, e))
<1>1. /\ Append(s, e) \in Seq(S)
      /\ Len(Append(s, e)) = Len(s) + 1
      /\ \A i \in 1..Len(s) : Append(s, e)[i] = s[i]
      /\ Append(s, e)[Len(s) + 1] = e
  BY AppendProperties
<1>2. Len(s) \in Nat
  BY LenProperties
<1>3. Elems(Append(s, e)) = Elems(s) \cup {e}
  BY <1>1, <1>2 DEF Elems
<1>4. ASSUME Distinct(s), e \notin Elems(s) PROVE Distinct(Append(s, e))
  BY <1>1, <1>2, <1>4 DEF Elems, Distinct
<1> QED
  BY <1>1, <1>3, <1>4

\* pop_front removes the first element, which is nowhere else.
LEMMA TailElems ==
  ASSUME NEW S, NEW s \in Seq(S), s # <<>>, Distinct(s)
  PROVE  /\ Head(s) \in S
         /\ Head(s) \in Elems(s)
         /\ Tail(s) \in Seq(S)
         /\ Elems(Tail(s)) = Elems(s) \ {Head(s)}
         /\ Distinct(Tail(s))
<1>1. /\ Head(s) \in S /\ Tail(s) \in Seq(S)
      /\ Len(Tail(s)) = Len(s) - 1
      /\ \A i \in 1..Len(Tail(s)) : Tail(s)[i] = s[i + 1]
      /\ Head(s) = s[1]
  BY HeadTailProperties
<1>2. Len(s) \in Nat /\ Len(s) >= 1
  BY EmptySeq, LenProperties
<1>3. Head(s) \in Elems(s)
  BY <1>1, <1>2 DEF Elems
<1>4. ASSUME NEW x \in Elems(Tail(s)) PROVE x \in Elems(s) \ {Head(s)}
  BY <1>1, <1>2 DEF Elems, Distinct
<1>5. ASSUME NEW x \in Elems(s) \ {Head(s)} PROVE x \in Elems(Tail(s))
  <2>1. PICK i \in 1..Len(s) : x = s[i] /\ i # 1
    BY <1>1 DEF Elems
  <2>2. i - 1 \in 1..Len(Tail(s)) /\ (i - 1) + 1 = i
    BY <1>1, <1>2, <2>1
  <2>3. Tail(s)[i - 1] = x
    BY <1>1, <2>1, <2>2
  <2> QED
    BY <2>2, <2>3 DEF Elems
<1>6. Distinct(Tail(s))
  BY <1>1, <1>2 DEF Distinct
<1> QED
  BY <1>1, <1>3, <1>4, <1>5, <1>6

LEMMA EmptyElems == Elems(<<>>) = {} /\ Distinct(<<>>)
  BY DEF Elems, Distinct

-----------------------------------------------------------------------------
(* One lemma per action, each preserving the whole of RunnerInv. *)

LEMMA InitRunnerInv == RunnerInit => RunnerInv
<1> SUFFICES ASSUME RunnerInit PROVE RunnerInv
  OBVIOUS
<1> USE OwnerIsCaller, NoTaskIsNoTask DEF RunnerInit
<1>1. RunnerTypeOK
  BY EmptySeq DEF RunnerTypeOK, Outcomes
<1>2. TaskInOnePlace
  <2>1. Waiting = {} /\ Doomed = {}
    BY EmptyElems DEF Waiting, Doomed, Elems
  <2> QED
    BY <2>1 DEF TaskInOnePlace
<1>3. LineOK
  BY EmptyElems DEF LineOK
<1>4. HoldsWhileRunning /\ ShutdownStage
  BY DEF HoldsWhileRunning, ShutdownStage
<1> QED
  BY <1>1, <1>2, <1>3, <1>4 DEF RunnerInv

LEMMA PostAcceptedInv ==
  ASSUME RunnerInv, NEW c \in Callers, NEW t \in Tasks, PostAccepted(c, t)
  PROVE  RunnerInv'
<1> USE DEF RunnerInv, PostAccepted, CanCall
<1>1. t \notin Elems(queue)
  BY DEF TaskInOnePlace, Waiting, Elems
<1>2. /\ queue' \in Seq(Tasks) /\ Distinct(queue')
      /\ Elems(queue') = Elems(queue) \cup {t}
  BY <1>1, AppendElems DEF RunnerTypeOK, LineOK
<1>3. RunnerTypeOK'
  BY <1>2 DEF RunnerTypeOK, Outcomes
<1>4. dropped = <<>> /\ Elems(dropped) = {}
  BY EmptyElems DEF LineOK
<1>5. TaskInOnePlace'
  <2>1. ASSUME NEW u \in Tasks
        PROVE  outcome'[u] = IF u = t THEN "queued" ELSE outcome[u]
    BY DEF RunnerTypeOK
  <2>2. /\ \A u \in Tasks : outcome[u] = "queued" <=> u \in Elems(queue)
        /\ \A u \in Tasks : outcome[u] = "running" <=> \E w \in Workers : current[w] = u
        /\ \A v, w \in Workers : current[v] = current[w] /\ current[v] # NoTask => v = w
    BY <1>4 DEF TaskInOnePlace, Waiting, Doomed, Elems
  <2>3. /\ Waiting' = Elems(queue) \cup {t}
        /\ Doomed' = {}
    BY <1>2, <1>4 DEF Waiting, Doomed, Elems
  <2> QED
    BY <2>1, <2>2, <2>3 DEF TaskInOnePlace
<1>6. LineOK'
  BY <1>2 DEF LineOK
<1>7. HoldsWhileRunning' /\ ShutdownStage'
  BY OwnerIsCaller DEF HoldsWhileRunning, ShutdownStage, RunnerTypeOK
<1> QED
  BY <1>3, <1>5, <1>6, <1>7

\* A rejected Post, the notifications and a worker falling asleep or leaving
\* move no task.
LEMMA TasksStayInv ==
  ASSUME RunnerInv, UNCHANGED <<queue, dropped, current, shuttingDown>>,
         RunnerTypeOK', HoldsWhileRunning', ShutdownStage',
         \A t \in Tasks : outcome'[t] # outcome[t] =>
            outcome[t] = "new" /\ outcome'[t] = "rejected"
  PROVE  RunnerInv'
<1>1. TaskInOnePlace'
  <2>1. Waiting' = Waiting /\ Doomed' = Doomed
    BY DEF Waiting, Doomed
  <2>2. \A t \in Tasks : (outcome'[t] = "queued" <=> outcome[t] = "queued")
                       /\ (outcome'[t] = "running" <=> outcome[t] = "running")
    OBVIOUS
  <2>3. current' = current
    OBVIOUS
  <2> QED
    BY <2>1, <2>2, <2>3 DEF TaskInOnePlace, RunnerInv
<1>2. LineOK'
  BY DEF LineOK, RunnerInv
<1> QED
  BY <1>1, <1>2 DEF RunnerInv

LEMMA PostRejectedInv ==
  ASSUME RunnerInv, NEW c \in Callers, NEW t \in Tasks, PostRejected(c, t)
  PROVE  RunnerInv'
<1> USE DEF RunnerInv, PostRejected
<1>1. RunnerTypeOK'
  BY DEF RunnerTypeOK, Outcomes
<1>2. HoldsWhileRunning' /\ ShutdownStage'
  BY DEF HoldsWhileRunning, ShutdownStage
<1>3. \A u \in Tasks : outcome'[u] # outcome[u] =>
            outcome[u] = "new" /\ outcome'[u] = "rejected"
  BY DEF RunnerTypeOK
<1> QED
  BY <1>1, <1>2, <1>3, TasksStayInv

LEMMA NotifyOneInv ==
  ASSUME RunnerInv, NEW c \in Callers, NotifyOne(c)
  PROVE  RunnerInv'
<1> USE DEF RunnerInv, NotifyOne
<1>1. RunnerTypeOK'
  BY DEF RunnerTypeOK
<1>2. HoldsWhileRunning' /\ ShutdownStage'
  BY OwnerIsCaller DEF HoldsWhileRunning, ShutdownStage, RunnerTypeOK
<1> QED
  BY <1>1, <1>2, TasksStayInv

LEMMA ShutdownBeginInv ==
  ASSUME RunnerInv, ShutdownBegin
  PROVE  RunnerInv'
<1> USE DEF RunnerInv, ShutdownBegin
<1>1. RunnerTypeOK'
  BY EmptySeq DEF RunnerTypeOK
<1>2. TaskInOnePlace'
  <2>1. Waiting' = {} /\ Doomed' = Waiting /\ Doomed = {}
    BY EmptyElems DEF Waiting, Doomed, Elems, LineOK
  <2>2. outcome' = outcome /\ current' = current
    OBVIOUS
  <2> QED
    BY <2>1, <2>2 DEF TaskInOnePlace
<1>3. LineOK'
  BY EmptyElems DEF LineOK
<1>4. HoldsWhileRunning' /\ ShutdownStage'
  BY OwnerIsCaller DEF HoldsWhileRunning, ShutdownStage, RunnerTypeOK
<1> QED
  BY <1>1, <1>2, <1>3, <1>4

LEMMA ShutdownDropInv ==
  ASSUME RunnerInv, ShutdownDrop
  PROVE  RunnerInv'
<1> USE DEF RunnerInv, ShutdownDrop
<1> DEFINE t == Head(dropped)
<1>1. /\ t \in Tasks /\ t \in Elems(dropped)
      /\ dropped' \in Seq(Tasks) /\ Distinct(dropped')
      /\ Elems(dropped') = Elems(dropped) \ {t}
  BY TailElems DEF RunnerTypeOK, LineOK
<1>2. RunnerTypeOK'
  BY <1>1 DEF RunnerTypeOK, Outcomes
<1>3. LineOK'
  BY <1>1, EmptyElems DEF LineOK
<1>4. TaskInOnePlace'
  <2>1. /\ outcome[t] = "queued"
        /\ \A w \in Workers : current[w] # t
    BY <1>1 DEF TaskInOnePlace, Waiting, Doomed, Elems
  <2>2. /\ Waiting' = Waiting
        /\ Doomed' = Doomed \ {t}
        /\ t \in Doomed /\ Doomed' \subseteq Doomed
    BY <1>1 DEF Waiting, Doomed, Elems
  <2>3. \A u \in Tasks : outcome'[u] = IF u = t THEN "dropped" ELSE outcome[u]
    BY <1>1 DEF RunnerTypeOK
  <2>4. t \notin Waiting /\ current' = current
    BY <2>2 DEF TaskInOnePlace
  <2> QED
    BY <2>1, <2>2, <2>3, <2>4 DEF TaskInOnePlace
<1>5. HoldsWhileRunning' /\ ShutdownStage'
  BY DEF HoldsWhileRunning, ShutdownStage
<1> QED
  BY <1>2, <1>3, <1>4, <1>5

LEMMA ShutdownNotifyAllInv ==
  ASSUME RunnerInv, ShutdownNotifyAll
  PROVE  RunnerInv'
<1> USE DEF RunnerInv, ShutdownNotifyAll
<1>1. RunnerTypeOK'
  BY DEF RunnerTypeOK
<1>2. HoldsWhileRunning' /\ ShutdownStage'
  BY OwnerIsCaller DEF HoldsWhileRunning, ShutdownStage, RunnerTypeOK
<1> QED
  BY <1>1, <1>2, TasksStayInv

LEMMA ShutdownJoinInv ==
  ASSUME RunnerInv, ShutdownJoin
  PROVE  RunnerInv'
<1> USE DEF RunnerInv, ShutdownJoin
<1>1. RunnerTypeOK'
  BY DEF RunnerTypeOK
<1>2. HoldsWhileRunning' /\ ShutdownStage'
  BY OwnerIsCaller DEF HoldsWhileRunning, ShutdownStage, RunnerTypeOK
<1> QED
  BY <1>1, <1>2, TasksStayInv

\* A worker that exits, falls asleep or wakes by itself holds nothing.
LEMMA IdleWorkerInv ==
  ASSUME RunnerInv, NEW w \in Workers,
         WorkerExit(w) \/ WorkerBlock(w) \/ SpuriousWake(w)
  PROVE  RunnerInv'
<1> USE DEF RunnerInv, WorkerExit, WorkerBlock, SpuriousWake
<1>1. RunnerTypeOK'
  BY DEF RunnerTypeOK
<1>2. HoldsWhileRunning' /\ ShutdownStage'
  BY DEF HoldsWhileRunning, ShutdownStage, RunnerTypeOK
<1> QED
  BY <1>1, <1>2, TasksStayInv

LEMMA WorkerTakeInv ==
  ASSUME RunnerInv, NEW w \in Workers, WorkerTake(w)
  PROVE  RunnerInv'
<1> USE DEF RunnerInv, WorkerTake
<1> DEFINE t == Head(queue)
<1>1. /\ t \in Tasks /\ t \in Elems(queue)
      /\ queue' \in Seq(Tasks) /\ Distinct(queue')
      /\ Elems(queue') = Elems(queue) \ {t}
  BY TailElems DEF RunnerTypeOK, LineOK
<1>2. RunnerTypeOK'
  BY <1>1 DEF RunnerTypeOK, Outcomes
<1>3. LineOK'
  BY <1>1 DEF LineOK
<1>4. TaskInOnePlace'
  <2>1. /\ outcome[t] = "queued" /\ current[w] = NoTask
        /\ \A v \in Workers : current[v] # t
    BY <1>1 DEF TaskInOnePlace, Waiting, Elems, HoldsWhileRunning
  <2>2. Waiting' = Waiting \ {t} /\ Doomed' = Doomed /\ Doomed = {}
    BY <1>1, EmptyElems DEF Waiting, Doomed, Elems, LineOK
  <2>3. /\ \A u \in Tasks : outcome'[u] = IF u = t THEN "running" ELSE outcome[u]
        /\ \A v \in Workers : current'[v] = IF v = w THEN t ELSE current[v]
    BY <1>1 DEF RunnerTypeOK
  <2>4. \A u \in Tasks : outcome'[u] = "queued" <=> u \in Waiting' \cup Doomed'
    BY <2>1, <2>2, <2>3 DEF TaskInOnePlace
  <2>5. \A u \in Tasks : outcome'[u] = "running" <=> \E v \in Workers : current'[v] = u
    BY <2>1, <2>3, NoTaskIsNoTask DEF TaskInOnePlace
  <2>6. \A v, x \in Workers : current'[v] = current'[x] /\ current'[v] # NoTask => v = x
    BY <2>1, <2>3 DEF TaskInOnePlace
  <2> QED
    BY <2>2, <2>4, <2>5, <2>6 DEF TaskInOnePlace
<1>5. HoldsWhileRunning' /\ ShutdownStage'
  BY <1>1, NoTaskIsNoTask DEF HoldsWhileRunning, ShutdownStage, RunnerTypeOK
<1> QED
  BY <1>2, <1>3, <1>4, <1>5

LEMMA FinishTaskInv ==
  ASSUME RunnerInv, NEW w \in Workers, FinishTask(w)
  PROVE  RunnerInv'
<1> USE DEF RunnerInv, FinishTask
<1> DEFINE t == current[w]
<1>1. t \in Tasks /\ t # NoTask
  BY DEF HoldsWhileRunning, RunnerTypeOK
<1>2. RunnerTypeOK'
  BY <1>1 DEF RunnerTypeOK, Outcomes
<1>3. TaskInOnePlace'
  <2>1. outcome[t] = "running"
    BY <1>1 DEF TaskInOnePlace
  <2>2. Waiting' = Waiting /\ Doomed' = Doomed
    BY DEF Waiting, Doomed
  <2>3. /\ \A u \in Tasks : outcome'[u] = IF u = t THEN "done" ELSE outcome[u]
        /\ \A v \in Workers : current'[v] = IF v = w THEN NoTask ELSE current[v]
    BY <1>1 DEF RunnerTypeOK
  <2>4. \A u \in Tasks : outcome'[u] = "queued" <=> u \in Waiting' \cup Doomed'
    BY <2>1, <2>2, <2>3 DEF TaskInOnePlace
  <2>5. \A u \in Tasks : outcome'[u] = "running" <=> \E v \in Workers : current'[v] = u
    BY <1>1, <2>3, NoTaskIsNoTask DEF TaskInOnePlace
  <2>6. \A v, x \in Workers : current'[v] = current'[x] /\ current'[v] # NoTask => v = x
    BY <2>3 DEF TaskInOnePlace
  <2>7. Waiting' \cap Doomed' = {}
    BY <2>2 DEF TaskInOnePlace
  <2> QED
    BY <2>4, <2>5, <2>6, <2>7 DEF TaskInOnePlace
<1>4. LineOK'
  BY DEF LineOK
<1>5. HoldsWhileRunning' /\ ShutdownStage'
  BY DEF HoldsWhileRunning, ShutdownStage, RunnerTypeOK
<1> QED
  BY <1>2, <1>3, <1>4, <1>5

-----------------------------------------------------------------------------
LEMMA RunnerStepInv == RunnerInv /\ [RunnerNext]_runnerVars => RunnerInv'
<1> SUFFICES ASSUME RunnerInv, [RunnerNext]_runnerVars PROVE RunnerInv'
  OBVIOUS
<1>1. CASE \E c \in Callers, t \in Tasks : PostAccepted(c, t) \/ PostRejected(c, t)
  BY <1>1, PostAcceptedInv, PostRejectedInv
<1>2. CASE \E c \in Callers : NotifyOne(c)
  BY <1>2, NotifyOneInv
<1>3. CASE ShutdownBegin
  BY <1>3, ShutdownBeginInv
<1>4. CASE ShutdownStep
  BY <1>4, ShutdownDropInv, ShutdownNotifyAllInv, ShutdownJoinInv DEF ShutdownStep
<1>5. CASE \E w \in Workers : WorkerStep(w) \/ FinishTask(w) \/ SpuriousWake(w)
  BY <1>5, IdleWorkerInv, WorkerTakeInv, FinishTaskInv DEF WorkerStep
<1>6. CASE UNCHANGED runnerVars
  BY <1>6 DEF runnerVars, RunnerInv, RunnerTypeOK, TaskInOnePlace, Waiting, Doomed,
              LineOK, HoldsWhileRunning, ShutdownStage
<1> QED
  BY <1>1, <1>2, <1>3, <1>4, <1>5, <1>6 DEF RunnerNext

\* The invariant holds in every reachable state of the pool.
THEOREM RunnerInvariant == RunnerSpec => []RunnerInv
  BY InitRunnerInv, RunnerStepInv, PTL DEF RunnerSpec

\* Every accepted task is in exactly one place, for any number of workers,
\* callers and tasks (background_task_runner.cpp lines 60, 77, 122).
THEOREM EveryTaskInOnePlace == RunnerSpec => []TaskInOnePlace
<1>1. RunnerInv => TaskInOnePlace
  BY DEF RunnerInv
<1> QED
  BY <1>1, RunnerInvariant, PTL

\* Shutdown has returned: the workers have exited, so none holds a task, and
\* the deque and Shutdown's list are empty.
LEMMA RunnerInvGivesQuiet == RunnerInv => QuietAfterShutdown
<1> SUFFICES ASSUME RunnerInv, cpc[Owner] = "closed", NEW t \in Tasks
             PROVE  outcome[t] \notin {"queued", "running"}
  BY DEF QuietAfterShutdown
<1> USE DEF RunnerInv
<1>1. /\ queue = <<>> /\ dropped = <<>>
      /\ \A w \in Workers : current[w] = NoTask
  BY DEF ShutdownStage, LineOK, HoldsWhileRunning
<1>2. Waiting = {} /\ Doomed = {}
  BY <1>1, EmptyElems DEF Waiting, Doomed, Elems
<1> QED
  BY <1>1, <1>2, NoTaskIsNoTask DEF TaskInOnePlace

\* Once Shutdown has returned no task waits or runs (lines 89-93).
THEOREM ShutdownLeavesQuiet == RunnerSpec => []QuietAfterShutdown
  BY RunnerInvGivesQuiet, RunnerInvariant, PTL

\* No worker sleeps through a task: while the deque is not empty some worker
\* is awake or some caller is about to notify (lines 60-66, 108-112).
THEOREM NotifyIsNeverLost == RunnerSpec => []NoLostNotify
<1>1. RunnerInit => NoLostNotify
  BY DEF RunnerInit, NoLostNotify
<1>2. ASSUME RunnerTypeOK, NoLostNotify, [RunnerNext]_runnerVars PROVE NoLostNotify'
  <2> USE <1>2, SomeWorker DEF NoLostNotify, RunnerTypeOK
  <2>1. CASE \E c \in Callers, t \in Tasks : PostAccepted(c, t) \/ PostRejected(c, t)
    BY <2>1 DEF PostAccepted, PostRejected
  <2>2. ASSUME NEW c \in Callers, NotifyOne(c) PROVE NoLostNotify'
    BY <2>2 DEF NotifyOne
  <2>3. CASE ShutdownBegin
    BY <2>3 DEF ShutdownBegin
  <2>4. CASE ShutdownDrop \/ ShutdownJoin
    BY <2>4, OwnerIsCaller DEF ShutdownDrop, ShutdownJoin
  <2>5. CASE ShutdownNotifyAll
    BY <2>5, OwnerIsCaller DEF ShutdownNotifyAll
  <2>6. ASSUME NEW w \in Workers,
               WorkerStep(w) \/ FinishTask(w) \/ SpuriousWake(w)
        PROVE  NoLostNotify'
    BY <2>6 DEF WorkerStep, WorkerExit, WorkerTake, WorkerBlock, FinishTask, SpuriousWake
  <2>7. CASE UNCHANGED runnerVars
    BY <2>7 DEF runnerVars
  <2> QED
    BY <1>2, <2>1, <2>2, <2>3, <2>4, <2>5, <2>6, <2>7 DEF RunnerNext, ShutdownStep
<1>3. RunnerInv => RunnerTypeOK
  BY DEF RunnerInv
<1> QED
  BY <1>1, <1>2, <1>3, RunnerInvariant, PTL DEF RunnerSpec

-----------------------------------------------------------------------------
(* The pool implements TaskPool. *)

\* The abstract line is the deque while the pool is open, Shutdown's list after.
LineIs ==
  /\ ~shuttingDown => queue \o dropped = queue
  /\ shuttingDown => queue \o dropped = dropped

LEMMA LineIsOneOfTwo == RunnerInv => LineIs
  BY ConcatEmptySeq, EmptySeq DEF LineIs, RunnerInv, RunnerTypeOK, LineOK

\* Tasks start in the order Post accepted them, none starts once Shutdown has
\* begun, the rest is dropped, and Shutdown returns only when nothing waits or
\* runs: every step of the pool is a step of TaskPool or a stutter.
THEOREM RunnerImplementsPool == RunnerSpec => PoolContract
<1>1. RunnerInit => Pool!PoolInit
  <2> SUFFICES ASSUME RunnerInit PROVE Pool!PoolInit
    OBVIOUS
  <2>1. queue \o dropped = <<>>
    BY InitRunnerInv, LineIsOneOfTwo DEF RunnerInit, LineIs
  <2> QED
    BY <2>1, OwnerIsCaller DEF RunnerInit, Pool!PoolInit
<1>2. ASSUME RunnerInv, RunnerInv', [RunnerNext]_runnerVars
      PROVE  [Pool!PoolNext]_<<queue \o dropped, ~shuttingDown, cpc[Owner] = "closed", outcome>>
  <2> USE <1>2, OwnerIsCaller DEF RunnerInv, RunnerTypeOK, CanCall,
           Pool!PoolNext
  <2> DEFINE line == queue \o dropped
  <2>a. LineIs /\ LineIs'
    BY <1>2, LineIsOneOfTwo, PTL
  <2>0. /\ ~shuttingDown => line = queue
        /\ shuttingDown => line = dropped
        /\ ~shuttingDown' => line' = queue'
        /\ shuttingDown' => line' = dropped'
    BY <2>a DEF LineIs
  <2> HIDE DEF line
  <2>1. ASSUME NEW c \in Callers, NEW t \in Tasks, PostAccepted(c, t)
        PROVE  Pool!Accept(t)
    BY <2>0, <2>1 DEF PostAccepted, Pool!Accept, line, ShutdownStage
  <2>2. ASSUME NEW c \in Callers, NEW t \in Tasks, PostRejected(c, t)
        PROVE  Pool!Refuse(t)
    BY <2>2 DEF PostRejected, Pool!Refuse
  <2>3. ASSUME NEW c \in Callers, NotifyOne(c)
        PROVE  UNCHANGED <<line, shuttingDown, cpc[Owner] = "closed", outcome>>
    BY <2>3 DEF NotifyOne, line
  <2>4. CASE ShutdownBegin
    BY <2>0, <2>4 DEF ShutdownBegin, Pool!Close, line
  <2>5. CASE ShutdownDrop
    BY <2>0, <2>5 DEF ShutdownDrop, Pool!Drop, line, ShutdownStage
  <2>6. CASE ShutdownNotifyAll
    BY <2>6 DEF ShutdownNotifyAll, line
  <2>7. CASE ShutdownJoin
    <3>1. cpc'[Owner] = "closed" /\ shuttingDown
      BY <2>7 DEF ShutdownJoin, ShutdownStage
    <3>2. QuietAfterShutdown'
      BY RunnerInvGivesQuiet, PTL
    <3> QED
      BY <2>7, <3>1, <3>2 DEF ShutdownJoin, Pool!Return, QuietAfterShutdown
  <2>8. ASSUME NEW w \in Workers, WorkerExit(w) \/ WorkerBlock(w) \/ SpuriousWake(w)
        PROVE  UNCHANGED <<line, shuttingDown, cpc, outcome>>
    BY <2>8 DEF WorkerExit, WorkerBlock, SpuriousWake, line
  <2>9. ASSUME NEW w \in Workers, WorkerTake(w)
        PROVE  Pool!Start
    BY <2>0, <2>9 DEF WorkerTake, Pool!Start, line, LineOK
  <2>10. ASSUME NEW w \in Workers, FinishTask(w)
         PROVE  Pool!Finish(current[w]) /\ current[w] \in Tasks
    BY <2>10 DEF FinishTask, Pool!Finish, TaskInOnePlace, HoldsWhileRunning, line
  <2>11. CASE UNCHANGED runnerVars
    BY <2>11 DEF runnerVars, line
  <2> QED
    BY <2>1, <2>2, <2>3, <2>4, <2>5, <2>6, <2>7, <2>8, <2>9, <2>10, <2>11
       DEF RunnerNext, ShutdownStep, WorkerStep, line
<1> QED
  BY <1>1, <1>2, RunnerInvariant, PTL DEF RunnerSpec, PoolContract, Pool!PoolSpec
=============================================================================
