---------------------------- MODULE TaskScheduler ---------------------------
(***************************************************************************)
(* The timers, animation frames and mutation observers of a page, and the  *)
(* order in which a pass of the event loop runs them:                      *)
(* core/event/loop/task_scheduler.cpp, the timer functions of              *)
(* core/quickjs/window_bindings.cpp, core/dom/observers/                   *)
(* mutation_observer.cpp and EventLoop::RunOnce.                           *)
(*                                                                         *)
(* A script's callback is a property of the global object under a name of  *)
(* its own; the scheduler's closure calls it by that name.  Clearing a     *)
(* timer marks what is still in the scheduler and releases the name, which *)
(* also silences what the scheduler has already taken out.  Everything     *)
(* here runs on the main thread; what interleaves is what the page's       *)
(* scripts do in each other's callbacks.                                   *)
(*                                                                         *)
(* Ids are never used again.  How overdue a timer is, and so the order     *)
(* among overdue ones, is left out.                                        *)
(***************************************************************************)
EXTENDS Naturals, Sequences, FiniteSets

CONSTANTS
  Ids,       \* bound: what next_task_id_ can still give out
  NoId,
  Observers, \* mutation observers; the document's Selection is one that
             \* nobody disconnects
  NoObserver,
  MaxDelay,  \* bound: the longest delay, in ticks
  MaxCalls   \* bound: what the scripts do in one pass

ASSUME NamesAreApart == NoId \notin Ids /\ NoObserver \notin Observers
ASSUME TimerBounds == MaxDelay \in Nat /\ MaxCalls \in Nat

VARIABLES
  kind,      \* what each id was given to
  every,     \* Task::interval
  due,       \* ticks until execute_time, 0 once it is reached
  tasks,     \* tasks_, a heap: the ids in it
  frames,    \* animation_frame_tasks_
  cancelled, \* ids whose task is marked
  ready,     \* the tasks due when ProcessTasks read the clock
  requeue,   \* requeue_tasks
  batch,     \* tasks_to_execute of ProcessAnimationFrames
  running,   \* the id whose callback runs
  callbacks, \* ids in timer_callbacks_ whose global still holds the callback
  watching,  \* observers with targets
  records,   \* observers with pending_records_
  scheduled, \* observers with is_scheduled_
  micro,     \* microtasks_: the observers to flush
  flushing,  \* the observer whose callback runs
  at,        \* where the pass is
  calls,     \* what the scripts have done in this pass
  down       \* shutting_down_

timerVars == <<kind, every, due, tasks, frames, cancelled, callbacks>>
passVars == <<ready, requeue, batch, running>>
observerVars == <<watching, records, scheduled, micro>>
vars == <<timerVars, passVars, observerVars, flushing, at, calls, down>>

Kinds == {"none", "timeout", "interval", "frame"}
Elements(s) == {s[k] : k \in DOMAIN s}

-----------------------------------------------------------------------------
Init ==
  /\ kind = [i \in Ids |-> "none"]
  /\ every = [i \in Ids |-> 0]
  /\ due = [i \in Ids |-> 0]
  /\ tasks = {} /\ frames = <<>> /\ cancelled = {} /\ callbacks = {}
  /\ ready = {} /\ requeue = {} /\ batch = <<>> /\ running = NoId
  /\ watching = {} /\ records = {} /\ scheduled = {} /\ micro = <<>>
  /\ flushing = NoObserver
  /\ at = "idle" /\ calls = 0 /\ down = FALSE

\* A script of the page runs: the listener of an event, a promise job or the
\* update callback, a timer's or a frame's callback, an observer's, or the
\* listener of an animation's end.
ScriptRuns ==
  \/ running # NoId
  \/ flushing # NoObserver
  \/ at \in {"events", "update", "jobs", "animate"}

Acts ==
  /\ ScriptRuns /\ calls < MaxCalls
  /\ calls' = calls + 1
  /\ UNCHANGED <<passVars, flushing, at, down>>

-----------------------------------------------------------------------------
(* What a script can do.                                                   *)

\* SetTimeout, SetInterval: the new task is due after the clock that the pass
\* under way has read.
SetTimer(i, k, d) ==
  /\ Acts
  /\ kind[i] = "none"
  /\ kind' = [kind EXCEPT ![i] = k]
  /\ every' = [every EXCEPT ![i] = IF k = "interval" THEN d ELSE 0]
  /\ due' = [due EXCEPT ![i] = d]
  /\ tasks' = tasks \cup {i}
  /\ callbacks' = callbacks \cup {i}
  /\ UNCHANGED <<frames, cancelled, observerVars>>

RequestAnimationFrame(i) ==
  /\ Acts
  /\ kind[i] = "none"
  /\ kind' = [kind EXCEPT ![i] = "frame"]
  /\ frames' = Append(frames, i)
  /\ callbacks' = callbacks \cup {i}
  /\ UNCHANGED <<every, due, tasks, cancelled, observerVars>>

ReleaseTimerCallback(i) == callbacks' = callbacks \ {i}

\* Mutant: what was popped on the way to the task is not pushed back.
ClearTask_Drops(i) ==
  /\ cancelled' = cancelled \cup ({i} \cap (tasks \cup Elements(frames)))
  /\ tasks' = IF i \in tasks THEN {j \in tasks : due[j] >= due[i]} ELSE tasks

\* ClearTask marks a task that is in a queue; one that ProcessTasks or
\* ProcessAnimationFrames has taken out it does not find.
ClearTask(i) ==
  /\ cancelled' = cancelled \cup ({i} \cap (tasks \cup Elements(frames)))
  /\ UNCHANGED tasks

\* clearTimeout, clearInterval, cancelAnimationFrame.
Clear(i) ==
  /\ Acts
  /\ kind[i] # "none"
  /\ ClearTask(i)
  /\ ReleaseTimerCallback(i)
  /\ UNCHANGED <<kind, every, due, frames, observerVars>>

Observe(o) ==
  /\ Acts
  /\ watching' = watching \cup {o}
  /\ UNCHANGED <<timerVars, records, scheduled, micro>>

\* QueueRecord, ScheduleCallback, PostMicrotask.
Mutate(o) ==
  /\ Acts
  /\ o \in watching
  /\ records' = records \cup {o}
  /\ scheduled' = scheduled \cup {o}
  /\ micro' = IF o \in scheduled THEN micro ELSE Append(micro, o)
  /\ UNCHANGED <<timerVars, watching>>

TakeRecords(o) ==
  /\ Acts
  /\ records' = records \ {o}
  /\ scheduled' = scheduled \ {o}
  /\ UNCHANGED <<timerVars, watching, micro>>

Disconnect(o) ==
  /\ Acts
  /\ watching' = watching \ {o}
  /\ records' = records \ {o}
  /\ scheduled' = scheduled \ {o}
  /\ UNCHANGED <<timerVars, micro>>

Script ==
  \E i \in Ids, o \in Observers :
    \/ \E k \in {"timeout", "interval"}, d \in 0..MaxDelay : SetTimer(i, k, d)
    \/ RequestAnimationFrame(i)
    \/ Clear(i)
    \/ Observe(o) \/ Mutate(o) \/ TakeRecords(o) \/ Disconnect(o)

-----------------------------------------------------------------------------
(* A pass: RunOnce from the events to the animations.                      *)

\* What the idle wait does not sleep over: a timer that is due, a frame, a
\* microtask.
HasWork ==
  \/ \E i \in tasks : due[i] = 0
  \/ ~(Elements(frames) \subseteq cancelled)
  \/ micro # <<>>

\* Input starts a pass too, whether or not there is work.
BeginPass ==
  /\ at = "idle" /\ ~down
  /\ at' = "events"
  /\ UNCHANGED <<timerVars, passVars, observerVars, flushing, calls, down>>

\* ProcessTasks reads the clock.
ReadClock ==
  /\ at = "events"
  /\ ready' = {i \in tasks : due[i] = 0}
  /\ at' = "tasks"
  /\ UNCHANGED <<timerVars, requeue, batch, running, observerVars, flushing, calls, down>>

\* The top is taken out; a cancelled task is skipped.
SkipTask(i) ==
  /\ at = "tasks" /\ running = NoId
  /\ i \in ready \cap cancelled
  /\ ready' = ready \ {i} /\ tasks' = tasks \ {i}
  /\ UNCHANGED <<kind, every, due, frames, cancelled, callbacks,
                 requeue, batch, running, observerVars, flushing, at, calls, down>>

RunTask(i) ==
  /\ at = "tasks" /\ running = NoId
  /\ i \in (ready \ cancelled) \cap callbacks
  /\ ready' = ready \ {i} /\ tasks' = tasks \ {i}
  /\ running' = i
  /\ UNCHANGED <<kind, every, due, frames, cancelled, callbacks,
                 requeue, batch, observerVars, flushing, at, calls, down>>

\* An interval is queued again when the pass is over, one of no length is not.
\* It is due its interval after the clock that the pass has read.
Requeue(i) ==
  IF every[i] > 0
    THEN /\ requeue' = requeue \cup {i}
         /\ \E d \in 0..every[i] : due' = [due EXCEPT ![i] = d]
    ELSE UNCHANGED <<requeue, due>>

\* What was cleared while ProcessTasks held it has no mark and no name: it is
\* called in vain, and an interval is queued again.
RunInVain(i) ==
  /\ at = "tasks" /\ running = NoId
  /\ i \in (ready \ cancelled) \ callbacks
  /\ ready' = ready \ {i} /\ tasks' = tasks \ {i}
  /\ Requeue(i)
  /\ UNCHANGED <<kind, every, frames, cancelled, callbacks,
                 batch, running, observerVars, flushing, at, calls, down>>

\* Mutant: the name of a timeout is not released after the call.
Release_Frames(i) ==
  callbacks' = IF kind[i] = "frame" THEN callbacks \ {i} ELSE callbacks

\* ReleaseTimerCallbackByName after the callback of a timeout or a frame.
Release(i) ==
  callbacks' = IF kind[i] = "interval" THEN callbacks ELSE callbacks \ {i}

TaskReturns ==
  /\ at = "tasks" /\ running # NoId
  /\ running' = NoId
  /\ Release(running)
  /\ Requeue(running)
  /\ UNCHANGED <<kind, every, tasks, frames, cancelled, ready, batch,
                 observerVars, flushing, at, calls, down>>

EndTasks ==
  /\ at = "tasks" /\ running = NoId /\ ready = {}
  /\ tasks' = tasks \cup requeue
  /\ requeue' = {}
  /\ at' = "micro1"
  /\ UNCHANGED <<kind, every, due, frames, cancelled, callbacks, ready, batch, running,
                 observerVars, flushing, calls, down>>

\* Mutant: is_scheduled_ stays set when there are records to deliver.
FlushRecords_Stuck(o) ==
  /\ scheduled' = IF o \in records THEN scheduled ELSE scheduled \ {o}
  /\ records' = records \ {o}
  /\ flushing' = IF o \in records THEN o ELSE NoObserver

FlushRecords(o) ==
  /\ scheduled' = scheduled \ {o}
  /\ records' = records \ {o}
  /\ flushing' = IF o \in records THEN o ELSE NoObserver

\* ProcessMicrotasks: until none is left, those posted meanwhile included.
RunMicrotask ==
  /\ at \in {"micro1", "micro2"} /\ flushing = NoObserver /\ micro # <<>>
  /\ FlushRecords(Head(micro))
  /\ micro' = Tail(micro)
  /\ UNCHANGED <<timerVars, passVars, watching, at, calls, down>>

ObserverReturns ==
  /\ flushing # NoObserver
  /\ flushing' = NoObserver
  /\ UNCHANGED <<timerVars, passVars, observerVars, at, calls, down>>

EndMicrotasks ==
  /\ at \in {"micro1", "micro2"} /\ flushing = NoObserver /\ micro = <<>>
  /\ at' = IF at = "micro1" THEN "update" ELSE "animate"
  /\ UNCHANGED <<timerVars, passVars, observerVars, flushing, calls, down>>

\* ProcessAnimationFrames moves the list out: what a frame asks for waits for
\* the next pass.
TakeFrames ==
  /\ at = "update"
  /\ batch' = frames /\ frames' = <<>>
  /\ at' = "frames"
  /\ UNCHANGED <<kind, every, due, tasks, cancelled, callbacks, ready, requeue, running,
                 observerVars, flushing, calls, down>>

\* A cancelled frame is skipped; one whose name was released is called in vain.
RunFrame ==
  /\ at = "frames" /\ running = NoId /\ batch # <<>>
  /\ batch' = Tail(batch)
  /\ running' = IF Head(batch) \in callbacks \ cancelled THEN Head(batch) ELSE NoId
  /\ UNCHANGED <<timerVars, ready, requeue, observerVars, flushing, at, calls, down>>

FrameReturns ==
  /\ at = "frames" /\ running # NoId
  /\ running' = NoId
  /\ Release(running)
  /\ UNCHANGED <<kind, every, due, tasks, frames, cancelled, ready, requeue, batch,
                 observerVars, flushing, at, calls, down>>

\* The promise jobs of the frames run before the observers hear of them.
EndFrames ==
  /\ \/ at = "frames" /\ running = NoId /\ batch = <<>> /\ at' = "jobs"
     \/ at = "jobs" /\ at' = "micro2"
  /\ UNCHANGED <<timerVars, passVars, observerVars, flushing, calls, down>>

EndPass ==
  /\ at = "animate"
  /\ at' = "idle" /\ calls' = 0
  /\ UNCHANGED <<timerVars, passVars, observerVars, flushing, down>>

PassStep ==
  \/ ReadClock \/ TaskReturns \/ EndTasks
  \/ \E i \in Ids : SkipTask(i) \/ RunTask(i) \/ RunInVain(i)
  \/ RunMicrotask \/ ObserverReturns \/ EndMicrotasks
  \/ TakeFrames \/ RunFrame \/ FrameReturns \/ EndFrames
  \/ EndPass

-----------------------------------------------------------------------------
(* Time, and the end of the page.                                          *)

Tick ==
  /\ due' = [i \in Ids |-> IF due[i] = 0 THEN 0 ELSE due[i] - 1]
  /\ UNCHANGED <<kind, every, tasks, frames, cancelled, callbacks, passVars,
                 observerVars, flushing, at, calls, down>>

\* TaskScheduler::Shutdown and WindowBindings::Cleanup, between two passes.
Shutdown ==
  /\ at = "idle" /\ ~down
  /\ down' = TRUE
  /\ tasks' = {} /\ frames' = <<>> /\ callbacks' = {}
  /\ UNCHANGED <<kind, every, due, cancelled, passVars, observerVars,
                 flushing, at, calls>>

Next == Script \/ BeginPass \/ PassStep \/ Tick \/ Shutdown

\* Time goes on, the loop's caller comes back while there is work, and a pass
\* ends.  Nothing is assumed of the scripts.
Fairness ==
  /\ WF_vars(Tick)
  /\ WF_vars(HasWork /\ BeginPass)
  /\ WF_vars(PassStep)

Spec == Init /\ [][Next]_vars /\ Fairness

-----------------------------------------------------------------------------
(* Properties.                                                             *)

TypeOK ==
  /\ kind \in [Ids -> Kinds]
  /\ every \in [Ids -> 0..MaxDelay]
  /\ due \in [Ids -> 0..MaxDelay]
  /\ tasks \subseteq Ids /\ ready \subseteq tasks /\ requeue \subseteq Ids
  /\ frames \in Seq(Ids) /\ batch \in Seq(Ids)
  /\ cancelled \subseteq Ids /\ callbacks \subseteq Ids
  /\ running \in Ids \cup {NoId}
  /\ watching \subseteq Observers /\ records \subseteq Observers
  /\ scheduled \subseteq Observers /\ micro \in Seq(Observers)
  /\ flushing \in Observers \cup {NoObserver}
  /\ at \in {"idle", "events", "tasks", "micro1", "update", "frames", "jobs",
            "micro2", "animate"}
  /\ calls \in 0..MaxCalls /\ down \in BOOLEAN

Queued == (tasks \cup Elements(frames)) \ cancelled
Out == requeue \cup Elements(batch) \cup {running}

\* setInterval(f, 0) after its only call.
Spent(i) == kind[i] = "interval" /\ every[i] = 0 /\ i \notin tasks

\* The two books of a timer agree: a callback the page keeps is one that the
\* scheduler will call, and a timeout or frame that is queued unmarked has its
\* callback (an interval may be queued without, task_scheduler.cpp:81, and one
\* of no length leaves its callback behind).
CallbacksMatchTimers ==
  /\ \A i \in callbacks : i \in Queued \cup Out \/ Spent(i)
  /\ \A i \in Queued : i \in callbacks \/ kind[i] = "interval"

\* What a page changes before its frames are over, its observers have heard of
\* when the animations are advanced and the frame is drawn, whatever they
\* change, take or disconnect in each other's callbacks.
ObserversKeepUp == [][at' = "animate" /\ at # "animate" => records' = {}]_vars

\* A timer or frame that is set and not cleared is called, whatever other
\* callbacks set and clear.
TimersFire ==
  \A i \in Ids : i \in callbacks /\ ~Spent(i) ~> running = i \/ i \notin callbacks
=============================================================================
