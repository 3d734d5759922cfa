-------------------------- MODULE MainThread_proofs --------------------------
(***************************************************************************)
(* Proofs about what the main thread owes the other threads.               *)
(*                                                                         *)
(* EventLoop, for any number of threads, inputs and posts: the loop has    *)
(* its type; under mblink_run, with an SDL queue that does not fill up, no *)
(* posted function is slept on and no input is lost.                       *)
(*                                                                         *)
(* SharedObject, for any number of properties, values, threads and posts:  *)
(* SharedInv says which put the main thread will run last for a property,  *)
(* so that the page's copy becomes the host's.  The components share no    *)
(* variable; the second half of this module is about SharedObject only.    *)
(***************************************************************************)
EXTENDS EventLoop, SharedObject, SequenceTheorems, FiniteSetTheorems, TLAPS

\* SDL's queue has room for the few events of a program driven by mblink_run.
RunsUnfilled == "run" \notin MayFill

\* The main thread is in a pass and has not yet flushed the queue.
BeforeFlush == at \in {"events", "clear", "tasks", "update", "flush"}

\* While wake_pending_ is set, a wake event is on its way.
PendingHasEvent == mode = "run" /\ wakePending => WakeOnItsWay

\* A function in the queue is about to be flushed, or something will bring the
\* main thread into a pass: an event, or a thread that is still in its Wake.
QueuedIsCovered ==
  mode = "run" /\ queued # {} =>
    \/ BeforeFlush
    \/ sdl # <<>>
    \/ held # NoEvent
    \/ \E t \in Threads : pc[t] # "idle"

LoopInv == LoopTypeOK /\ PendingHasEvent /\ QueuedIsCovered

-----------------------------------------------------------------------------
LEMMA InitType == Init => LoopTypeOK
<1> SUFFICES ASSUME Init PROVE LoopTypeOK
  OBVIOUS
<1> USE LoopBounds DEF Init
<1>1. sdl \in Seq(Events)
  OBVIOUS
<1>2. posts \in [Threads -> 0..MaxPosts] /\ dueLeft \in 0..MaxDue
  OBVIOUS
<1>3. pc \in [Threads -> {"idle", "wake", "push"}]
  OBVIOUS
<1> QED BY <1>1, <1>2, <1>3 DEF LoopTypeOK, Places

LEMMA BoundHolds ==
  ASSUME NEW t \in Threads
  PROVE  Bound(t) \in Nat /\ Bound(t) <= MaxPosts
BY LoopBounds DEF Bound

LEMMA ThreadsType ==
  ASSUME LoopTypeOK, UNCHANGED mode,
         \/ TimerDue
         \/ \E i \in Inputs : InputArrives(i)
         \/ \E t \in Posters : Post(t)
         \/ \E t \in Finishers : Finish(t)
         \/ \E t \in Stoppers : Stop(t)
         \/ \E t \in Threads : Wakes(t)
  PROVE  LoopTypeOK'
<1> USE EventsAreApart, LoopBounds DEF LoopTypeOK, workVars, threadVars, inputVars, dueVars
<1>1. CASE TimerDue
  BY <1>1 DEF TimerDue
<1>2. ASSUME NEW i \in Inputs, InputArrives(i) PROVE LoopTypeOK'
  BY <1>2 DEF InputArrives, Events
<1>3. ASSUME NEW t \in Posters, Post(t) PROVE LoopTypeOK'
  <2>1. t \in Threads
    BY DEF Threads
  <2>2. posts' \in [Threads -> 0..MaxPosts] /\ posts'[t] \in 1..MaxPosts
    BY <1>3, <2>1, BoundHolds DEF Post
  <2>3. queued' \subseteq Items
    BY <1>3, <2>1, <2>2 DEF Post, Items
  <2> QED BY <1>3, <2>1, <2>2, <2>3 DEF Post
<1>4. ASSUME NEW t \in Finishers, Finish(t) PROVE LoopTypeOK'
  <2>1. t \in Threads
    BY DEF Threads
  <2>2. posts' \in [Threads -> 0..MaxPosts] /\ posts'[t] \in 1..MaxPosts
    BY <1>4, <2>1, BoundHolds DEF Finish
  <2>3. silent' \subseteq Items
    BY <1>4, <2>1, <2>2 DEF Finish, Items
  <2> QED BY <1>4, <2>2, <2>3 DEF Finish
<1>5. ASSUME NEW t \in Stoppers, Stop(t) PROVE LoopTypeOK'
  <2>1. t \in Threads
    BY DEF Threads
  <2>2. posts' \in [Threads -> 0..MaxPosts]
    BY <1>5, <2>1, BoundHolds DEF Stop
  <2> QED BY <1>5, <2>1, <2>2 DEF Stop
<1>6. ASSUME NEW t \in Threads, Wakes(t) PROVE LoopTypeOK'
  <2>1. CASE WakeTries(t)
    BY <2>1 DEF WakeTries
  <2>2. CASE WakePushes(t)
    BY <2>2 DEF WakePushes, Events
  <2>3. CASE WakeFails(t)
    BY <2>3 DEF WakeFails
  <2> QED BY <1>6, <2>1, <2>2, <2>3 DEF Wakes
<1> QED BY <1>1, <1>2, <1>3, <1>4, <1>5, <1>6

LEMMA MainType ==
  ASSUME LoopTypeOK, UNCHANGED mode, Main \/ Over \/ UNCHANGED steps
  PROVE  LoopTypeOK'
<1> USE EventsAreApart, LoopBounds
    DEF LoopTypeOK, Places, Goes, workVars, threadVars, inputVars, dueVars
<1>1. CASE Call
  BY <1>1 DEF Call
<1>2. CASE LoopTest
  BY <1>2 DEF LoopTest
<1>3. CASE FrontIdle
  BY <1>3 DEF FrontIdle
<1>4. CASE WaitTakes
  <2>1. Head(sdl) \in Events /\ Tail(sdl) \in Seq(Events)
    BY <1>4 DEF WaitTakes
  <2> QED BY <1>4, <2>1 DEF WaitTakes, Events
<1>5. CASE WaitPutsBack
  <2>1. held \in Events
    BY <1>5 DEF WaitPutsBack, Events
  <2> QED BY <1>5, <2>1 DEF WaitPutsBack, AfterWait
<1>6. CASE WaitTimesOut
  BY <1>6 DEF WaitTimesOut, AfterWait
<1>7. CASE Awake
  BY <1>7 DEF Awake
<1>8. CASE TakeWake
  BY <1>8 DEF TakeWake
<1>9. CASE ClearWake
  BY <1>9 DEF ClearWake
<1>10. CASE TakeInput
  <2>1. Head(sdl) \in Inputs /\ Tail(sdl) \in Seq(Events)
    BY <1>10 DEF TakeInput, Events
  <2> QED BY <1>10, <2>1 DEF TakeInput
<1>11. CASE EventsDone
  BY <1>11 DEF EventsDone
<1>12. CASE RunTasks
  BY <1>12 DEF RunTasks
<1>13. CASE FlushSilent
  BY <1>13 DEF FlushSilent
<1>14. CASE FlushQueue
  BY <1>14 DEF FlushQueue
<1>15. CASE QuitCheck
  BY <1>15 DEF QuitCheck
<1>16. CASE TailIdle
  BY <1>16 DEF TailIdle
<1>17. CASE Over \/ UNCHANGED steps
  BY <1>17 DEF Over, steps
<1> QED
  BY <1>1, <1>2, <1>3, <1>4, <1>5, <1>6, <1>7, <1>8, <1>9, <1>10, <1>11, <1>12,
     <1>13, <1>14, <1>15, <1>16, <1>17 DEF Main

LEMMA NextType == LoopTypeOK /\ [Next]_vars => LoopTypeOK'
BY ThreadsType, MainType DEF Next, Step, vars

\* Every variable of the loop keeps its type, and the waiter holds an event
\* exactly between taking it and putting it back, in every mode.
THEOREM LoopIsTyped == Spec => []LoopTypeOK
BY InitType, NextType, PTL DEF Spec

-----------------------------------------------------------------------------
(* wake_pending_ is never left set without an event that will clear it.    *)

LEMMA PendingKept ==
  ASSUME RunsUnfilled, mode = "run", UNCHANGED mode,
         LoopTypeOK, PendingHasEvent, Step \/ UNCHANGED steps
  PROVE  PendingHasEvent'
<1> USE DEF LoopTypeOK, PendingHasEvent, WakeOnItsWay, Pushing, InSdl,
            workVars, threadVars, inputVars, dueVars
<1>1. ~Full /\ ~FlushesFirst
  BY DEF RunsUnfilled, Full, FlushesFirst
<1>2. ASSUME NEW t \in Threads, WakeTries(t) PROVE PendingHasEvent'
  BY <1>2 DEF WakeTries
<1>3. ASSUME NEW t \in Threads, WakePushes(t) PROVE PendingHasEvent'
  <2>1. Len(sdl') \in DOMAIN sdl' /\ sdl'[Len(sdl')] = WakeEvent
    BY <1>3 DEF WakePushes, Events
  <2> QED BY <2>1
<1>4. ASSUME NEW i \in Inputs, InputArrives(i) PROVE PendingHasEvent'
  <2>1. \A k \in DOMAIN sdl : k \in DOMAIN sdl' /\ sdl'[k] = sdl[k]
    BY <1>4 DEF InputArrives, Events
  <2>2. UNCHANGED <<wakePending, held, at, pc>>
    BY <1>4 DEF InputArrives
  <2> QED BY <2>1, <2>2
<1>5. CASE WaitTakes
  <2>1. \A k \in DOMAIN sdl : sdl[k] = held' \/ (k - 1 \in DOMAIN sdl' /\ sdl'[k - 1] = sdl[k])
    BY <1>5 DEF WaitTakes
  <2>2. UNCHANGED <<wakePending, pc>> /\ at # "clear" /\ held # WakeEvent
    BY <1>5, EventsAreApart DEF WaitTakes
  <2> QED BY <2>1, <2>2
<1>6. CASE WaitPutsBack
  <2>1. held \in Events
    BY <1>6 DEF WaitPutsBack, Events
  <2>2. /\ \A k \in DOMAIN sdl : k \in DOMAIN sdl' /\ sdl'[k] = sdl[k]
        /\ Len(sdl') \in DOMAIN sdl' /\ sdl'[Len(sdl')] = held
    BY <1>1, <1>6, <2>1 DEF WaitPutsBack
  <2>3. UNCHANGED <<wakePending, pc>> /\ at # "clear"
    BY <1>6 DEF WaitPutsBack
  <2> QED BY <2>2, <2>3
<1>7. CASE TakeWake
  BY <1>7 DEF TakeWake
<1>8. CASE ClearWake
  BY <1>8 DEF ClearWake
<1>9. CASE TakeInput
  <2>1. \A k \in DOMAIN sdl :
          sdl[k] # WakeEvent \/ (k - 1 \in DOMAIN sdl' /\ sdl'[k - 1] = sdl[k])
    BY <1>9 DEF TakeInput
  <2>2. UNCHANGED <<wakePending, held, pc, at>>
    BY <1>9 DEF TakeInput
  <2> QED BY <2>1, <2>2
<1>10. ASSUME NEW t \in Posters, Post(t) PROVE PendingHasEvent'
  <2>1. UNCHANGED <<wakePending, held, sdl, at>>
    BY <1>10 DEF Post
  <2>2. Pushing \subseteq Pushing'
    BY <1>10 DEF Post
  <2> QED BY <2>1, <2>2
<1>11. ASSUME NEW t \in Stoppers, Stop(t) PROVE PendingHasEvent'
  <2>1. UNCHANGED <<wakePending, held, sdl, at>>
    BY <1>11 DEF Stop
  <2>2. Pushing \subseteq Pushing'
    BY <1>11 DEF Stop
  <2> QED BY <2>1, <2>2
<1>12. ASSUME NEW t \in Threads, WakeFails(t) PROVE PendingHasEvent'
  BY <1>1, <1>12 DEF WakeFails
\* The other steps leave the flag and the events alone, and none is at "clear".
<1>13. ASSUME UNCHANGED <<wakePending, held, sdl, pc>>, at # "clear" \/ UNCHANGED at
       PROVE PendingHasEvent'
  BY <1>13
<1>14. CASE Call \/ LoopTest \/ FrontIdle \/ WaitTimesOut \/ Awake
  BY <1>13, <1>14 DEF Call, LoopTest, FrontIdle, WaitTimesOut, Awake, Goes
<1>15. CASE EventsDone \/ RunTasks \/ FlushSilent \/ FlushQueue \/ QuitCheck \/ TailIdle
  BY <1>13, <1>15 DEF EventsDone, RunTasks, FlushSilent, FlushQueue, QuitCheck, TailIdle, Goes
<1>16. CASE Over \/ TimerDue \/ UNCHANGED steps
  BY <1>13, <1>16 DEF Over, TimerDue, steps
<1>17. ASSUME NEW t \in Finishers, Finish(t) PROVE PendingHasEvent'
  BY <1>13, <1>17 DEF Finish
<1> QED
  BY <1>2, <1>3, <1>4, <1>5, <1>6, <1>7, <1>8, <1>9, <1>10, <1>11, <1>12, <1>14,
     <1>15, <1>16, <1>17 DEF Step, Main, Wakes

-----------------------------------------------------------------------------
(* A function in the queue is covered.                                     *)

LEMMA CoverKept ==
  ASSUME RunsUnfilled, mode = "run", UNCHANGED mode,
         LoopTypeOK, PendingHasEvent, QueuedIsCovered, Step \/ UNCHANGED steps
  PROVE  QueuedIsCovered'
<1> USE DEF LoopTypeOK, QueuedIsCovered, BeforeFlush,
            workVars, threadVars, inputVars, dueVars
<1>1. ~Full /\ ~FlushesFirst
  BY DEF RunsUnfilled, Full, FlushesFirst
<1>2. ASSUME NEW t \in Posters, Post(t) PROVE QueuedIsCovered'
  <2>1. t \in Threads /\ pc'[t] = "wake"
    BY <1>2 DEF Post, Threads
  <2> QED BY <2>1
<1>3. ASSUME NEW t \in Stoppers, Stop(t) PROVE QueuedIsCovered'
  <2>1. t \in Threads /\ pc'[t] = "wake"
    BY <1>3 DEF Stop, Threads
  <2> QED BY <2>1
<1>4. ASSUME NEW t \in Threads, WakeTries(t) PROVE QueuedIsCovered'
  <2>1. CASE wakePending
    <3>1. WakeOnItsWay
      BY <2>1 DEF PendingHasEvent
    <3>2. CASE Pushing # {}
      <4>1. PICK u \in Threads : pc[u] = "push"
        BY <3>2 DEF Pushing
      <4>2. pc'[u] # "idle"
        BY <1>4, <4>1 DEF WakeTries
      <4> QED BY <4>2
    <3>3. CASE InSdl # {} \/ held = WakeEvent \/ at = "clear"
      <4>1. sdl # <<>> \/ held # NoEvent \/ at = "clear"
        BY <3>3, EventsAreApart DEF InSdl
      <4> QED BY <1>4, <4>1 DEF WakeTries
    <3> QED BY <3>1, <3>2, <3>3 DEF WakeOnItsWay
  <2>2. CASE ~wakePending
    <3>1. pc'[t] = "push"
      BY <1>4, <2>2 DEF WakeTries
    <3> QED BY <3>1
  <2> QED BY <2>1, <2>2
<1>5. ASSUME NEW t \in Threads, WakePushes(t) PROVE QueuedIsCovered'
  BY <1>5 DEF WakePushes, Events
<1>6. ASSUME NEW t \in Threads, WakeFails(t) PROVE QueuedIsCovered'
  BY <1>1, <1>6 DEF WakeFails
<1>7. ASSUME NEW i \in Inputs, InputArrives(i) PROVE QueuedIsCovered'
  BY <1>7 DEF InputArrives, Events
<1>8. CASE WaitTakes
  <2>1. held' # NoEvent
    BY <1>8, EventsAreApart DEF WaitTakes, Events
  <2> QED BY <2>1
<1>9. CASE WaitPutsBack
  BY <1>1, <1>9 DEF WaitPutsBack, Events
<1>10. CASE TakeWake \/ ClearWake \/ TakeInput \/ EventsDone \/ RunTasks \/ FlushSilent
  BY <1>1, <1>10 DEF TakeWake, ClearWake, TakeInput, EventsDone, RunTasks, FlushSilent, Goes
<1>11. CASE FlushQueue
  BY <1>11 DEF FlushQueue
\* The other steps leave what covers alone, and none starts before the flush.
<1>12. ASSUME UNCHANGED <<queued, sdl, held, pc>>, ~BeforeFlush \/ UNCHANGED at
       PROVE QueuedIsCovered'
  BY <1>12
<1>13. CASE Call \/ LoopTest \/ FrontIdle \/ WaitTimesOut
  BY <1>12, <1>13 DEF Call, LoopTest, FrontIdle, WaitTimesOut, Goes
<1>14. CASE Awake \/ QuitCheck \/ TailIdle
  BY <1>12, <1>14 DEF Awake, QuitCheck, TailIdle, Goes
<1>15. CASE Over \/ TimerDue \/ UNCHANGED steps
  BY <1>12, <1>15 DEF Over, TimerDue, steps
<1>16. ASSUME NEW t \in Finishers, Finish(t) PROVE QueuedIsCovered'
  BY <1>12, <1>16 DEF Finish
<1> QED
  BY <1>2, <1>3, <1>4, <1>5, <1>6, <1>7, <1>8, <1>9, <1>10, <1>11, <1>13, <1>14,
     <1>15, <1>16 DEF Step, Main, Wakes

LEMMA InitCovered == Init => PendingHasEvent /\ QueuedIsCovered
BY DEF Init, PendingHasEvent, QueuedIsCovered

\* The lost-wakeup theorem: mblink_run never sleeps on an empty SDL queue with
\* a posted function waiting once every post has returned from its Wake.
THEOREM NoPostIsSleptOn ==
  ASSUME RunsUnfilled
  PROVE  Spec => []RunNeverSleepsWithWork
<1>1. Init => LoopInv
  BY InitType, InitCovered DEF LoopInv
<1>2. ASSUME LoopInv, [Next]_vars PROVE LoopInv'
  <2>1. LoopTypeOK' /\ UNCHANGED mode /\ (Step \/ UNCHANGED steps)
    BY <1>2, NextType DEF LoopInv, Next, vars
  <2>2. CASE mode = "run"
    BY <1>2, <2>1, <2>2, RunsUnfilled, PendingKept, CoverKept DEF LoopInv
  <2>3. CASE mode # "run"
    BY <2>1, <2>3 DEF LoopInv, PendingHasEvent, QueuedIsCovered
  <2> QED BY <2>2, <2>3
<1>3. LoopInv => RunNeverSleepsWithWork
  BY DEF LoopInv, RunNeverSleepsWithWork, NoSleepWithWork, LoopTypeOK,
         QueuedIsCovered, BeforeFlush
<1> QED BY <1>1, <1>2, <1>3, PTL DEF Spec

-----------------------------------------------------------------------------
(* Inputs.                                                                 *)

Present(i) == (\E k \in DOMAIN sdl : sdl[k] = i) \/ held = i

LEMMA InputStep ==
  ASSUME mode \notin MayFill, LoopTypeOK, Step, NEW i \in Inputs, Present(i)
  PROVE  Present(i)' \/ i \in handled'
<1> USE DEF LoopTypeOK, Present, workVars, threadVars, inputVars, dueVars
<1>1. ~Full /\ i # WakeEvent /\ i # NoEvent
  BY EventsAreApart DEF Full
<1>2. ASSUME held' = held,
             \A k \in DOMAIN sdl : k \in DOMAIN sdl' /\ sdl'[k] = sdl[k]
      PROVE  Present(i)'
  BY <1>2
<1>3. ASSUME NEW e \in Events, UNCHANGED held, sdl' = Append(sdl, e)
      PROVE  Present(i)'
  BY <1>2, <1>3
<1>4. ASSUME NEW t \in Threads, WakePushes(t) PROVE Present(i)'
  BY <1>3, <1>4 DEF WakePushes, Events
<1>5. ASSUME NEW j \in Inputs, InputArrives(j) PROVE Present(i)'
  BY <1>3, <1>5 DEF InputArrives, Events
<1>6. CASE WaitTakes
  <2>1. \A k \in DOMAIN sdl : sdl[k] = held' \/ (k - 1 \in DOMAIN sdl' /\ sdl'[k - 1] = sdl[k])
    BY <1>6 DEF WaitTakes
  <2>2. held = NoEvent
    BY <1>6 DEF WaitTakes
  <2> QED BY <1>1, <2>1, <2>2
<1>7. CASE WaitPutsBack
  <2>1. held \in Events
    BY <1>7 DEF WaitPutsBack, Events
  <2>2. /\ \A k \in DOMAIN sdl : k \in DOMAIN sdl' /\ sdl'[k] = sdl[k]
        /\ Len(sdl') \in DOMAIN sdl' /\ sdl'[Len(sdl')] = held
    BY <1>1, <1>7, <2>1 DEF WaitPutsBack
  <2> QED BY <2>2
<1>8. CASE TakeWake \/ TakeInput
  <2>1. \A k \in DOMAIN sdl :
          sdl[k] = Head(sdl) \/ (k - 1 \in DOMAIN sdl' /\ sdl'[k - 1] = sdl[k])
    BY <1>8 DEF TakeWake, TakeInput
  <2>2. held' = held /\ (Head(sdl) = WakeEvent \/ Head(sdl) \in handled')
    BY <1>8 DEF TakeWake, TakeInput
  <2> QED BY <1>1, <2>1, <2>2
<1>9. ASSUME NEW t \in Threads, WakeTries(t) \/ WakeFails(t) PROVE Present(i)'
  BY <1>2, <1>9 DEF WakeTries, WakeFails
<1>10. CASE (\E t \in Posters : Post(t)) \/ (\E t \in Finishers : Finish(t))
            \/ (\E t \in Stoppers : Stop(t))
  BY <1>2, <1>10 DEF Post, Finish, Stop
<1>11. CASE Call \/ LoopTest \/ FrontIdle \/ WaitTimesOut \/ Awake \/ ClearWake
  BY <1>2, <1>11 DEF Call, LoopTest, FrontIdle, WaitTimesOut, Awake, ClearWake, Goes
<1>12. CASE EventsDone \/ RunTasks \/ FlushSilent \/ FlushQueue \/ QuitCheck \/ TailIdle
  BY <1>2, <1>12 DEF EventsDone, RunTasks, FlushSilent, FlushQueue, QuitCheck, TailIdle, Goes
<1>13. CASE Over \/ TimerDue \/ UNCHANGED steps
  BY <1>2, <1>13 DEF Over, TimerDue, steps
<1> QED
  BY <1>4, <1>5, <1>6, <1>7, <1>8, <1>9, <1>10, <1>11, <1>12, <1>13 DEF Step, Main, Wakes

\* In a mode in which SDL's queue does not fill up, no step of the loop or of
\* any thread loses an input that has arrived.
THEOREM NoInputIsLost == Spec => InputIsNotLost
<1>1. LoopTypeOK /\ [Next]_vars =>
        [mode \notin MayFill =>
           \A i \in Inputs :
             (\E k \in DOMAIN sdl : sdl[k] = i) \/ held = i
             => (\/ \E k \in DOMAIN sdl' : sdl'[k] = i
                 \/ held' = i \/ i \in handled')]_steps
  BY InputStep DEF Present, Next, vars
<1> QED BY <1>1, LoopIsTyped, PTL DEF Spec, InputIsNotLost
-----------------------------------------------------------------------------
(* wake_pending_ lets one wake event at a time be on its way.              *)

\* Wherever a wake event is on its way it is alone, and the flag is set: the
\* exchange that won is undone by the store after the event, or by the failed
\* push, and by nothing else.
WakeIsAlone ==
  /\ \A t, u \in Threads : pc[t] = "push" /\ pc[u] = "push" => t = u
  /\ \A j, k \in DOMAIN sdl : sdl[j] = WakeEvent /\ sdl[k] = WakeEvent => j = k
  /\ \A t \in Threads : pc[t] = "push" =>
       /\ \A k \in DOMAIN sdl : sdl[k] # WakeEvent
       /\ held # WakeEvent /\ at # "clear"
  /\ \A k \in DOMAIN sdl : sdl[k] = WakeEvent => held # WakeEvent /\ at # "clear"

FlagCovers ==
  /\ \A t \in Threads : pc[t] = "push" => wakePending
  /\ \A k \in DOMAIN sdl : sdl[k] = WakeEvent => wakePending
  /\ held = WakeEvent \/ at = "clear" => wakePending

WakeInv == WakeIsAlone /\ FlagCovers

LEMMA InitWakeInv == Init => WakeInv
BY EventsAreApart DEF Init, WakeInv, WakeIsAlone, FlagCovers

LEMMA WakeKept ==
  ASSUME LoopTypeOK, WakeInv, Step \/ UNCHANGED steps
  PROVE  WakeInv'
<1> USE EventsAreApart DEF LoopTypeOK, WakeInv, WakeIsAlone, FlagCovers,
            workVars, threadVars, inputVars, dueVars
<1>1. ASSUME NEW t \in Threads, WakeTries(t) PROVE WakeInv'
  BY <1>1 DEF WakeTries
<1>2. ASSUME NEW t \in Threads, WakePushes(t) PROVE WakeInv'
  <2>1. /\ DOMAIN sdl' = 1..(Len(sdl) + 1) /\ DOMAIN sdl = 1..Len(sdl) /\ Len(sdl) \in Nat
        /\ sdl'[Len(sdl) + 1] = WakeEvent
        /\ \A k \in DOMAIN sdl : sdl'[k] = sdl[k]
    BY <1>2 DEF WakePushes, Events
  <2>2. pc[t] = "push" /\ \A u \in Threads : pc'[u] # "push"
    BY <1>2 DEF WakePushes
  <2>3. UNCHANGED <<wakePending, held, at>>
    BY <1>2 DEF WakePushes
  <2> QED BY <2>1, <2>2, <2>3
<1>3. ASSUME NEW t \in Threads, WakeFails(t) PROVE WakeInv'
  BY <1>3 DEF WakeFails
<1>4. ASSUME NEW i \in Inputs, InputArrives(i) PROVE WakeInv'
  <2>1. /\ DOMAIN sdl' = 1..(Len(sdl) + 1) /\ DOMAIN sdl = 1..Len(sdl) /\ Len(sdl) \in Nat
        /\ sdl'[Len(sdl) + 1] # WakeEvent
        /\ \A k \in DOMAIN sdl : sdl'[k] = sdl[k]
    BY <1>4 DEF InputArrives, Events
  <2>2. UNCHANGED <<wakePending, held, at, pc>>
    BY <1>4 DEF InputArrives
  <2> QED BY <2>1, <2>2
\* What an idle wait or ProcessEvents does to the head of the queue.
<1>5. ASSUME sdl # <<>>, sdl' = Tail(sdl)
      PROVE  /\ \A k \in DOMAIN sdl' : k + 1 \in DOMAIN sdl /\ sdl'[k] = sdl[k + 1]
             /\ 1 \in DOMAIN sdl /\ Head(sdl) = sdl[1]
             /\ \A j, k \in DOMAIN sdl' : j + 1 = k + 1 => j = k
             /\ \A k \in DOMAIN sdl' : k + 1 # 1
  BY <1>5
<1>6. CASE WaitTakes
  <2>1. UNCHANGED <<wakePending, pc>> /\ held = NoEvent /\ at = "wait" /\ at' = "repush"
    BY <1>6 DEF WaitTakes
  <2>2. held' = Head(sdl) /\ sdl # <<>> /\ sdl' = Tail(sdl)
    BY <1>6 DEF WaitTakes
  <2> QED BY <1>5, <2>1, <2>2
<1>7. CASE WaitPutsBack
  <2>1. /\ UNCHANGED <<wakePending, pc>> /\ held' = NoEvent
        /\ at = "repush" /\ at' # "clear"
    BY <1>7 DEF WaitPutsBack, AfterWait
  <2>2. CASE sdl' = sdl
    BY <2>1, <2>2
  <2>3. CASE sdl' = Append(sdl, held)
    <3>1. /\ DOMAIN sdl' = 1..(Len(sdl) + 1) /\ DOMAIN sdl = 1..Len(sdl) /\ Len(sdl) \in Nat
          /\ sdl'[Len(sdl) + 1] = held
          /\ \A k \in DOMAIN sdl : sdl'[k] = sdl[k]
      BY <2>1, <2>3
    <3> QED BY <2>1, <3>1
  <2> QED BY <1>7, <2>2, <2>3 DEF WaitPutsBack
<1>8. CASE TakeWake
  <2>1. UNCHANGED <<wakePending, pc, held>> /\ at' = "clear" /\ held = NoEvent
    BY <1>8 DEF TakeWake
  <2>2. Head(sdl) = WakeEvent /\ sdl # <<>> /\ sdl' = Tail(sdl)
    BY <1>8 DEF TakeWake
  <2> QED BY <1>5, <2>1, <2>2
<1>9. CASE TakeInput
  <2>1. UNCHANGED <<wakePending, pc, held, at>> /\ sdl # <<>> /\ sdl' = Tail(sdl)
    BY <1>9 DEF TakeInput
  <2> QED BY <1>5, <2>1
<1>10. CASE ClearWake
  BY <1>10 DEF ClearWake
<1>11. CASE (\E t \in Posters : Post(t)) \/ (\E t \in Stoppers : Stop(t))
  BY <1>11 DEF Post, Stop
\* The other steps leave the flag and the events alone, and none goes to "clear".
<1>12. ASSUME UNCHANGED <<wakePending, held, sdl, pc>>, at' # "clear" \/ UNCHANGED at
       PROVE WakeInv'
  BY <1>12
<1>13. CASE Call \/ LoopTest \/ FrontIdle \/ WaitTimesOut \/ Awake
  BY <1>12, <1>13 DEF Call, LoopTest, FrontIdle, WaitTimesOut, Awake, AfterWait, Goes
<1>14. CASE EventsDone \/ RunTasks \/ FlushSilent \/ FlushQueue \/ QuitCheck \/ TailIdle
  BY <1>12, <1>14 DEF EventsDone, RunTasks, FlushSilent, FlushQueue, QuitCheck, TailIdle, Goes
<1>15. CASE Over \/ TimerDue \/ (\E t \in Finishers : Finish(t)) \/ UNCHANGED steps
  BY <1>12, <1>15 DEF Over, TimerDue, Finish, steps
<1> QED
  BY <1>1, <1>2, <1>3, <1>4, <1>6, <1>7, <1>8, <1>9, <1>10, <1>11, <1>13, <1>14,
     <1>15 DEF Step, Main, Wakes

LEMMA AtMostOne ==
  ASSUME NEW S, \A a, b \in S : a = b
  PROVE  Cardinality(S) \in {0, 1} /\ (Cardinality(S) = 1 => S # {})
<1>1. CASE S = {}
  BY <1>1, FS_EmptySet
<1>2. CASE S # {}
  <2>1. PICK a \in S : S = {a}
    BY <1>2
  <2> QED BY <2>1, FS_Singleton
<1> QED BY <1>1, <1>2

LEMMA WakeInvGivesOne == LoopTypeOK /\ WakeInv => OneWake
<1> SUFFICES ASSUME LoopTypeOK, WakeInv PROVE OneWake
  OBVIOUS
<1> USE DEF WakeInv, WakeIsAlone, Pushing, InSdl
<1>1. \A t, u \in Pushing : t = u
  OBVIOUS
<1>2. \A j, k \in InSdl : j = k
  OBVIOUS
<1>3. Pushing = {} \/ InSdl = {}
  OBVIOUS
<1>4. Cardinality(Pushing) + Cardinality(InSdl) <= 1
  <2> HIDE DEF Pushing, InSdl
  <2>1. CASE Pushing = {}
    BY <1>2, <2>1, AtMostOne, FS_EmptySet
  <2>2. CASE InSdl = {}
    BY <1>1, <2>2, AtMostOne, FS_EmptySet
  <2> QED BY <1>3, <2>1, <2>2
<1> QED BY <1>4 DEF OneWake

\* In every mode, with a full queue too, one wake event at most is in flight:
\* a burst of posts cannot flood SDL.
THEOREM OneWakeAtATime == Spec => []OneWake
<1>1. WakeInv /\ LoopTypeOK /\ [Next]_vars => WakeInv'
  BY WakeKept DEF Next, vars
<1> QED BY <1>1, InitWakeInv, WakeInvGivesOne, LoopIsTyped, PTL DEF Spec

-----------------------------------------------------------------------------
(* Shared objects. *)

\* One side writes: the page and the main thread, or one other thread.  With
\* two writing threads, or a queued task that flushes, the sides may differ.
OneSideWrites ==
  \A ws \in Writing : ws \subseteq {MainThread, Script} \/ \E w \in Workers : ws \subseteq {w}

\* The queue of the main thread: a flush in progress, and what it has left.
Flushes == [fn : Fns \cup {NoFn}, rest : Seq(Fns)]
Batch == IF frames = <<>> THEN <<>> ELSE frames[1].rest

SharedTypes ==
  /\ writers \in Writing
  /\ queue \in Seq(Ops) /\ frames \in Seq(Flushes) /\ Len(frames) <= 1
  /\ data \in [Keys -> Values] /\ js \in [Keys -> Values]
  /\ storing \in [Natives -> Puts \cup {NoOp}]
  /\ scripting \in Puts \cup {NoOp}
  /\ alive \in BOOLEAN

IsPutOf(f, k) == f \in Puts /\ f.key = k
NoPut(fs, k) == \A i \in DOMAIN fs : ~IsPutOf(fs[i], k)

\* The newest put of k in a line of functions stores v.
LastPut(fs, k, v) ==
  \E i \in DOMAIN fs :
    /\ IsPutOf(fs[i], k) /\ fs[i].val = v
    /\ \A j \in DOMAIN fs : j > i => ~IsPutOf(fs[j], k)

\* What the main thread will have done for k when it has run what is posted.
WillAgree(k) ==
  \/ LastPut(queue, k, data[k])
  \/ NoPut(queue, k) /\ LastPut(Batch, k, data[k])
  \/ NoPut(queue, k) /\ NoPut(Batch, k) /\ data[k] = js[k]

\* The main thread and the page write: nothing of theirs is ever posted.
MainSide ==
  /\ writers \subseteq {MainThread, Script}
  /\ \A t \in Workers : storing[t] = NoOp
  /\ storing[MainThread] = NoOp \/ scripting = NoOp
  /\ storing[MainThread] # NoOp => storing[MainThread].val = data[storing[MainThread].key]
  /\ scripting # NoOp => scripting.val = js[scripting.key]
  /\ \A k \in Keys :
       /\ NoPut(queue, k) /\ NoPut(Batch, k)
       /\ \/ data[k] = js[k]
          \/ storing[MainThread] # NoOp /\ storing[MainThread].key = k
          \/ scripting # NoOp /\ scripting.key = k

\* One other thread writes: the newest of its puts stores what data_ has.
WorkerSide(w) ==
  /\ writers \subseteq {w}
  /\ scripting = NoOp
  /\ \A t \in Natives \ {w} : storing[t] = NoOp
  /\ storing[w] # NoOp => storing[w].val = data[storing[w].key]
  /\ \A k \in Keys : WillAgree(k) \/ (storing[w] # NoOp /\ storing[w].key = k)

Sides == MainSide \/ \E w \in Workers : WorkerSide(w)
SharedInv == SharedTypes /\ (alive => Sides)

-----------------------------------------------------------------------------
(* Puts in a line of functions *)

LEMMA AppendPuts ==
  ASSUME NEW fs \in Seq(Ops), NEW f \in Ops, NEW k \in Keys
  PROVE  /\ ~IsPutOf(f, k) /\ NoPut(fs, k) => NoPut(Append(fs, f), k)
         /\ ~IsPutOf(f, k) => \A v : LastPut(fs, k, v) => LastPut(Append(fs, f), k, v)
         /\ IsPutOf(f, k) => LastPut(Append(fs, f), k, f.val)
<1>1. PICK gs \in Seq(Ops) : gs = Append(fs, f)
  BY AppendProperties
<1>2. PICK last \in Nat : last = Len(fs) + 1
  BY LenProperties
<1>3. /\ DOMAIN fs = 1..Len(fs) /\ Len(fs) \in Nat /\ DOMAIN gs = 1..last
      /\ gs[last] = f /\ \A i \in DOMAIN fs : gs[i] = fs[i]
  BY <1>1, <1>2, AppendProperties, LenProperties
<1>4. \A i \in DOMAIN gs : i = last \/ i \in DOMAIN fs
  BY <1>2, <1>3
<1>5. last \in DOMAIN gs /\ DOMAIN fs \subseteq DOMAIN gs /\ \A i \in DOMAIN gs : ~(i > last)
  BY <1>2, <1>3
<1>6. ~IsPutOf(f, k) /\ NoPut(fs, k) => NoPut(gs, k)
  BY <1>3, <1>4 DEF NoPut
<1>7. ~IsPutOf(f, k) => \A v : LastPut(fs, k, v) => LastPut(gs, k, v)
  BY <1>3, <1>4, <1>5 DEF LastPut
<1>8. IsPutOf(f, k) => LastPut(gs, k, f.val)
  BY <1>3, <1>5 DEF LastPut
<1> QED
  BY <1>1, <1>6, <1>7, <1>8

LEMMA TailPuts ==
  ASSUME NEW fs \in Seq(Ops), fs # <<>>, NEW k \in Keys, NEW v
  PROVE  /\ Tail(fs) \in Seq(Ops) /\ Head(fs) \in Ops
         /\ NoPut(fs, k) => NoPut(Tail(fs), k) /\ ~IsPutOf(Head(fs), k)
         /\ LastPut(fs, k, v) =>
              \/ LastPut(Tail(fs), k, v)
              \/ IsPutOf(Head(fs), k) /\ Head(fs).val = v /\ NoPut(Tail(fs), k)
<1>1. PICK gs \in Seq(Ops) : gs = Tail(fs)
  BY HeadTailProperties
<1>2. PICK n \in Nat \ {0} : n = Len(fs)
  BY LenProperties, EmptySeq
<1>3. /\ DOMAIN fs = 1..n /\ DOMAIN gs = 1..(n - 1)
      /\ Head(fs) = fs[1] /\ \A i \in 1..(n - 1) : gs[i] = fs[i + 1]
  <2>1. /\ Len(gs) = n - 1 /\ Head(fs) = fs[1] /\ \A i \in 1..(n - 1) : gs[i] = fs[i + 1]
    BY <1>1, <1>2, HeadTailProperties
  <2> QED
    BY <1>2, <2>1, LenProperties
<1>4. 1 \in DOMAIN fs /\ \A i \in DOMAIN gs : i + 1 \in DOMAIN fs /\ gs[i] = fs[i + 1] /\ i + 1 > 1
  BY <1>3
<1>5. Head(fs) \in Ops
  BY HeadTailProperties
<1>6. NoPut(fs, k) => NoPut(gs, k) /\ ~IsPutOf(Head(fs), k)
  BY <1>3, <1>4 DEF NoPut
<1>7. ASSUME LastPut(fs, k, v)
      PROVE  \/ LastPut(gs, k, v)
             \/ IsPutOf(Head(fs), k) /\ Head(fs).val = v /\ NoPut(gs, k)
  <2>1. PICK i \in DOMAIN fs : /\ IsPutOf(fs[i], k) /\ fs[i].val = v
                               /\ \A j \in DOMAIN fs : j > i => ~IsPutOf(fs[j], k)
    BY <1>7 DEF LastPut
  <2>2. CASE i = 1
    BY <1>3, <1>4, <2>1, <2>2 DEF NoPut
  <2>3. CASE i # 1
    <3>1. PICK h \in DOMAIN gs : h + 1 = i /\ h \in Nat
      <4>1. i - 1 \in DOMAIN gs /\ (i - 1) + 1 = i /\ i - 1 \in Nat
        BY <1>3, <2>3
      <4> QED
        BY <4>1
    <3>2. gs[h] = fs[i]
      BY <1>4, <3>1
    <3>3. \A j \in DOMAIN gs : j > h => j + 1 > i
      BY <1>3, <3>1
    <3>4. \A j \in DOMAIN gs : j > h => ~IsPutOf(gs[j], k)
      BY <1>4, <2>1, <3>3
    <3> QED
      BY <2>1, <3>2, <3>4 DEF LastPut
  <2> QED
    BY <2>2, <2>3
<1> QED
  BY <1>1, <1>5, <1>6, <1>7

LEMMA LastPutIsPut == \A fs, k, v : LastPut(fs, k, v) => ~NoPut(fs, k)
BY DEF LastPut, NoPut

\* The functions that are no puts.
LEMMA CallsAreNoPuts ==
  \A op \in {"begin", "end", "task"} :
    [op |-> op] \in Ops /\ \A k : ~IsPutOf([op |-> op], k)
<1>1. \A op \in {"begin", "end", "task"} : [op |-> op] \in Ops
  BY DEF Ops
<1>2. \A f \in Puts : f.op = "put"
  BY DEF Puts
<1> QED
  BY <1>1, <1>2 DEF IsPutOf

-----------------------------------------------------------------------------
(* What the steps of the queue do, when flushes do not nest *)

LEMMA BatchFacts ==
  ASSUME SharedTypes
  PROVE  /\ Batch \in Seq(Ops)
         /\ Flushing => /\ Len(frames) = 1 /\ 1 \in DOMAIN frames
                        /\ Top = frames[1] /\ Top \in Flushes
                        /\ Batch = Top.rest /\ Front(frames) = <<>>
<1>1. frames \in Seq(Flushes) /\ Len(frames) \in Nat /\ DOMAIN frames = 1..Len(frames)
      /\ Len(frames) <= 1 /\ Seq(Fns) = Seq(Ops)
  BY LenProperties, FnsAreOps DEF SharedTypes
<1>2. CASE frames = <<>>
  BY <1>2, EmptySeq DEF Batch, Flushing
<1>3. CASE frames # <<>>
  <2>1. Len(frames) # 0
    BY <1>1, <1>3, EmptySeq
  <2>2. Len(frames) = 1 /\ 1 \in DOMAIN frames
    <3>1. PICK n \in Nat : n = Len(frames)
      BY <1>1
    <3>2. n = 1
      BY <1>1, <2>1, <3>1
    <3> QED
      BY <1>1, <3>1, <3>2
  <2>3. frames[1] \in Flushes
    BY <1>1, <2>2, ElementOfSeq
  <2>4. Top = frames[1]
    BY <2>2 DEF Top, Last
  <2>5. Front(frames) = <<>>
    <3>1. Front(frames) = SubSeq(frames, 1, 0)
      BY <2>2 DEF Front
    <3>2. SubSeq(frames, 1, 0) \in Seq(Flushes) /\ Len(SubSeq(frames, 1, 0)) = 0
      BY <1>1, <2>2, SubSeqProperties
    <3> QED
      BY <3>1, <3>2, EmptySeq
  <2> QED
    BY <1>1, <1>3, <2>2, <2>3, <2>4, <2>5 DEF Batch, Flushes
<1> QED
  BY <1>2, <1>3

\* A flush alone in progress.
LEMMA OneFrame ==
  ASSUME NEW top \in Flushes, frames' = Append(<<>>, top)
  PROVE  frames' \in Seq(Flushes) /\ Len(frames') <= 1 /\ Batch' = top.rest
<1>1. <<>> \in Seq(Flushes) /\ Len(<<>>) = 0
  BY EmptySeq
<1>2. /\ frames' \in Seq(Flushes) /\ Len(frames') = 1 /\ frames'[1] = top
  BY <1>1, AppendProperties
<1>3. frames' # <<>>
  BY <1>2, EmptySeq
<1> QED
  BY <1>2, <1>3 DEF Batch

LEMMA PostStep ==
  ASSUME SharedTypes, NEW f \in Ops, PostFn(f)
  PROVE  /\ queue' = Append(queue, f) /\ queue' \in Seq(Ops)
         /\ frames' = frames /\ Batch' = Batch
BY AppendProperties DEF PostFn, SharedTypes, Batch

LEMMA TakeStep ==
  ASSUME SharedTypes, MaxNesting <= 1, FlushTakes
  PROVE  /\ frames' \in Seq(Flushes) /\ Len(frames') <= 1
         /\ Batch = <<>> /\ Batch' = queue /\ queue' = <<>>
<1>1. frames = <<>>
  <2>1. PICK n \in Nat : n = Len(frames)
    BY LenProperties DEF SharedTypes
  <2>2. n < MaxNesting
    BY <2>1 DEF FlushTakes
  <2>3. n = 0
    BY <2>2, QueueBounds
  <2> QED
    BY <2>1, <2>3, EmptySeq DEF SharedTypes
<1>2. PICK top \in Flushes : top = [fn |-> NoFn, rest |-> queue] /\ top.rest = queue
  <2>1. [fn |-> NoFn, rest |-> queue] \in Flushes
    BY FnsAreOps DEF SharedTypes, Flushes
  <2> QED
    BY <2>1
<1>3. frames' = Append(<<>>, top) /\ queue' = <<>>
  BY <1>1, <1>2 DEF FlushTakes
<1> QED
  BY <1>1, <1>2, <1>3, OneFrame DEF Batch

LEMMA RunStep ==
  ASSUME SharedTypes, NEW f \in Ops, Runs(f) \/ Starts(f)
  PROVE  /\ frames' \in Seq(Flushes) /\ Len(frames') <= 1 /\ queue' = queue
         /\ Batch # <<>> /\ f = Head(Batch) /\ Batch' = Tail(Batch)
<1>1. Flushing /\ Top.rest # <<>> /\ f = Head(Top.rest) /\ queue' = queue
  BY DEF Runs, Starts
<1>2. Top \in Flushes /\ Batch = Top.rest /\ Front(frames) = <<>> /\ Top.rest \in Seq(Fns)
  BY <1>1, BatchFacts DEF Flushes
<1>3. Tail(Top.rest) \in Seq(Fns)
  BY <1>1, <1>2, HeadTailProperties
<1>4. \E top \in Flushes : frames' = Append(<<>>, top) /\ top.rest = Tail(Top.rest)
  <2>1. CASE Starts(f)
    <3>1. [fn |-> f, rest |-> Tail(Top.rest)] \in Flushes
      BY <1>3, FnsAreOps DEF Flushes
    <3> QED
      BY <1>2, <2>1, <3>1 DEF Starts
  <2>2. CASE Runs(f)
    <3>1. PICK top \in Flushes : top = [Top EXCEPT !.rest = Tail(@)] /\ top.rest = Tail(Top.rest)
      <4>1. PICK rest \in Seq(Fns) : rest = Tail(Top.rest)
        BY <1>3
      <4>2. [Top EXCEPT !.rest = rest] \in Flushes /\ [Top EXCEPT !.rest = rest].rest = rest
        BY <1>2 DEF Flushes
      <4> QED
        BY <4>1, <4>2
    <3> QED
      BY <1>2, <2>2, <3>1 DEF Runs
  <2> QED
    BY <2>1, <2>2
<1> QED
  BY <1>1, <1>2, <1>4, OneFrame

LEMMA ReturnStep ==
  ASSUME SharedTypes, FlushEnds \/ \E f \in Ops : Returns(f)
  PROVE  frames' \in Seq(Flushes) /\ Len(frames') <= 1 /\ queue' = queue /\ Batch' = Batch
<1>1. CASE FlushEnds
  <2>1. Flushing /\ Top.rest = <<>> /\ frames' = Front(frames) /\ queue' = queue
    BY <1>1 DEF FlushEnds
  <2> QED
    BY <2>1, BatchFacts, EmptySeq DEF Batch
<1>2. ASSUME NEW f \in Ops, Returns(f)
      PROVE  frames' \in Seq(Flushes) /\ Len(frames') <= 1 /\ queue' = queue /\ Batch' = Batch
  <2>1. Flushing /\ frames' = Append(Front(frames), [Top EXCEPT !.fn = NoFn]) /\ queue' = queue
    BY <1>2 DEF Returns
  <2>2. PICK top \in Flushes : top = [Top EXCEPT !.fn = NoFn] /\ top.rest = Top.rest
    BY <2>1, BatchFacts DEF Flushes
  <2> QED
    BY <2>1, <2>2, BatchFacts, OneFrame
<1> QED
  BY <1>1, <1>2

-----------------------------------------------------------------------------
(* The steps of the system *)

\* What the page, the batches and the end of the object do.
Aside ==
  \/ \E op \in {"begin", "end"} : BatchCall(op)
  \/ FlushNotify \/ Render \/ Destroy
  \/ UNCHANGED sharedVars

\* What moves functions that are no puts, or takes the queue.
Moves ==
  \/ PostTask \/ \E w \in Workers, op \in {"begin", "end"} : PostBatchCall(w, op)
  \/ MainFlushes \/ MainFlushEnds \/ TaskStarts \/ TaskReturns
  \/ \E op \in {"begin", "end"} : RunBatchCall(op)

LEMMA SharedCases ==
  ASSUME [SharedNext]_sharedVars
  PROVE  /\ writers' = writers
         /\ \/ Aside \/ Moves
            \/ \E t \in Natives, k \in Keys, v \in Values : Store(t, k, v)
            \/ \E k \in Keys, v \in Values : ScriptPut(k, v)
            \/ \E w \in Workers : PostPut(w)
            \/ ApplyOwnPut \/ ScriptStores \/ \E p \in Puts : RunPut(p)
BY DEF SharedNext, SharedStep, MainStep, RunFn, Aside, Moves, sharedVars

LEMMA AsideRests ==
  ASSUME Aside
  PROVE  UNCHANGED <<queue, frames, data, js, storing, scripting>> /\ (alive' = alive \/ ~alive')
BY DEF Aside, BatchCall, BatchBegin, BatchEnd, FlushNotify, Render, Destroy, sharedVars,
       sharedSteps, mtqVars, sides, calls

LEMMA MovesRest ==
  ASSUME Moves
  PROVE  UNCHANGED <<data, js, storing, scripting, alive>>
BY DEF Moves, PostTask, PostBatchCall, MainFlushes, MainFlushEnds, TaskStarts, TaskReturns,
       RunBatchCall, sides, calls

\* The lines after a move: nothing of a key is lost, and its order is kept.
LEMMA MovesKeepPuts ==
  ASSUME SharedTypes, MaxNesting <= 1, Moves
  PROVE  /\ queue' \in Seq(Ops) /\ frames' \in Seq(Flushes) /\ Len(frames') <= 1
         /\ \A k \in Keys :
              /\ NoPut(queue, k) /\ NoPut(Batch, k) => NoPut(queue', k) /\ NoPut(Batch', k)
              /\ WillAgree(k) => WillAgree(k)'
<1>0. UNCHANGED <<data, js>> /\ queue \in Seq(Ops) /\ Batch \in Seq(Ops)
      /\ frames \in Seq(Flushes) /\ Len(frames) <= 1
  BY MovesRest, BatchFacts DEF SharedTypes
<1>1. CASE \E op \in {"begin", "end", "task"} : PostFn([op |-> op])
  <2>1. PICK f \in Ops : PostFn(f) /\ \A k : ~IsPutOf(f, k)
    BY <1>1, CallsAreNoPuts
  <2>2. queue' = Append(queue, f) /\ queue' \in Seq(Ops) /\ frames' = frames /\ Batch' = Batch
    BY <2>1, PostStep
  <2>3. ASSUME NEW k \in Keys
        PROVE  /\ NoPut(queue, k) => NoPut(queue', k)
               /\ \A v : LastPut(queue, k, v) => LastPut(queue', k, v)
    BY <1>0, <2>1, <2>2, AppendPuts
  <2> QED
    BY <1>0, <2>2, <2>3 DEF WillAgree
<1>2. CASE FlushTakes
  <2>1. /\ frames' \in Seq(Flushes) /\ Len(frames') <= 1
        /\ Batch = <<>> /\ Batch' = queue /\ queue' = <<>>
    BY <1>2, TakeStep
  <2>2. \A k : NoPut(<<>>, k) /\ \A v : ~LastPut(<<>>, k, v)
    BY DEF NoPut, LastPut
  <2> QED
    BY <1>0, <2>1, <2>2, EmptySeq DEF WillAgree
<1>3. CASE \E op \in {"begin", "end", "task"} : Runs([op |-> op]) \/ Starts([op |-> op])
  <2>1. PICK f \in Ops : (Runs(f) \/ Starts(f)) /\ \A k : ~IsPutOf(f, k)
    BY <1>3, CallsAreNoPuts
  <2>2. /\ frames' \in Seq(Flushes) /\ Len(frames') <= 1 /\ queue' = queue
        /\ Batch # <<>> /\ f = Head(Batch) /\ Batch' = Tail(Batch)
    BY <2>1, RunStep
  <2>3. ASSUME NEW k \in Keys
        PROVE  /\ NoPut(Batch, k) => NoPut(Batch', k)
               /\ \A v : LastPut(Batch, k, v) => LastPut(Batch', k, v)
    BY <1>0, <2>1, <2>2, TailPuts
  <2> QED
    BY <1>0, <2>2, <2>3 DEF WillAgree
<1>4. CASE FlushEnds \/ Returns([op |-> "task"])
  <2>1. frames' \in Seq(Flushes) /\ Len(frames') <= 1 /\ queue' = queue /\ Batch' = Batch
    BY <1>4, ReturnStep, CallsAreNoPuts
  <2> QED
    BY <1>0, <2>1 DEF WillAgree
<1> QED
  BY <1>1, <1>2, <1>3, <1>4
     DEF Moves, PostTask, PostBatchCall, MainFlushes, MainFlushEnds, TaskStarts, TaskReturns,
         RunBatchCall

LEMMA PutIsPut ==
  ASSUME NEW k \in Keys, NEW v \in Values
  PROVE  Put(k, v) \in Puts /\ Put(k, v).key = k /\ Put(k, v).val = v /\ Put(k, v) # NoOp
BY NoOpIsNoOp DEF Put, Puts, Ops

LEMMA PutFields ==
  ASSUME NEW p \in Puts
  PROVE  p \in Ops /\ p.key \in Keys /\ p.val \in Values /\ \A k : IsPutOf(p, k) <=> k = p.key
BY DEF Puts, Ops, IsPutOf

LEMMA SharedTypesKept ==
  ASSUME SharedTypes, MaxNesting <= 1, [SharedNext]_sharedVars
  PROVE  SharedTypes'
<1>0. writers' \in Writing
  BY SharedCases DEF SharedTypes
<1>1. CASE Aside
  <2>1. alive' \in BOOLEAN
    BY <1>1 DEF SharedTypes, Aside, BatchCall, FlushNotify, Render, Destroy, sharedVars, sharedSteps
  <2> QED
    BY <1>0, <1>1, <2>1, AsideRests DEF SharedTypes
<1>2. CASE Moves
  BY <1>0, <1>2, MovesRest, MovesKeepPuts DEF SharedTypes
<1>3. ASSUME NEW t \in Natives, NEW k \in Keys, NEW v \in Values, Store(t, k, v)
      PROVE  SharedTypes'
  BY <1>0, <1>3, PutIsPut DEF SharedTypes, Store, mtqVars
<1>4. ASSUME NEW k \in Keys, NEW v \in Values, ScriptPut(k, v) PROVE SharedTypes'
  BY <1>0, <1>4, PutIsPut DEF SharedTypes, ScriptPut, mtqVars
<1>5. ASSUME NEW w \in Workers, PostPut(w) PROVE SharedTypes'
  <2>1. storing[w] \in Ops
    BY <1>5, PutFields DEF SharedTypes, PostPut, Natives
  <2>2. queue' \in Seq(Ops) /\ frames' = frames
    BY <1>5, <2>1, PostStep DEF PostPut
  <2> QED
    BY <1>0, <1>5, <2>2 DEF SharedTypes, PostPut, sides
<1>6. CASE ApplyOwnPut
  <2>1. MainThread \in Natives
    BY DEF Natives
  <2>2. PICK p \in Puts : p = storing[MainThread]
    BY <1>6, <2>1 DEF SharedTypes, ApplyOwnPut
  <2>3. js' \in [Keys -> Values] /\ data' = data
    BY <1>6, <2>2, PutFields DEF SharedTypes, ApplyOwnPut, ApplyToJS
  <2> QED
    BY <1>0, <1>6, <2>3 DEF SharedTypes, ApplyOwnPut, mtqVars
<1>7. CASE ScriptStores
  <2>1. scripting \in Puts
    BY <1>7 DEF SharedTypes, ScriptStores
  <2>2. data' \in [Keys -> Values]
    BY <1>7, <2>1, PutFields DEF SharedTypes, ScriptStores
  <2> QED
    BY <1>0, <1>7, <2>2 DEF SharedTypes, ScriptStores, mtqVars
<1>8. ASSUME NEW p \in Puts, RunPut(p) PROVE SharedTypes'
  <2>1. frames' \in Seq(Flushes) /\ Len(frames') <= 1 /\ queue' = queue
    BY <1>8, PutFields, RunStep DEF RunPut
  <2>2. data' = data /\ js' \in [Keys -> Values]
    BY <1>8, PutFields DEF SharedTypes, RunPut, ApplyToJS, sides
  <2> QED
    BY <1>0, <1>8, <2>1, <2>2 DEF SharedTypes, RunPut, calls
<1> QED
  BY <1>1, <1>2, <1>3, <1>4, <1>5, <1>6, <1>7, <1>8, SharedCases

-----------------------------------------------------------------------------
(* The sides *)

LEMMA WritersApart ==
  /\ MainThread \in Natives /\ Workers \subseteq Natives /\ MainThread \notin Workers
  /\ Script \notin Natives
BY MainIsNoWorker, WritersAreKnown DEF Natives

LEMMA RestingSides ==
  ASSUME Sides, UNCHANGED <<writers, data, js, storing, scripting>>,
         \A k \in Keys :
           /\ NoPut(queue, k) /\ NoPut(Batch, k) => NoPut(queue', k) /\ NoPut(Batch', k)
           /\ WillAgree(k) => WillAgree(k)'
  PROVE  Sides'
<1>1. CASE MainSide
  <2>1. MainSide'
    BY <1>1 DEF MainSide
  <2> QED
    BY <2>1 DEF Sides
<1>2. ASSUME NEW w \in Workers, WorkerSide(w) PROVE Sides'
  <2>1. WorkerSide(w)'
    BY <1>2 DEF WorkerSide
  <2> QED
    BY <2>1 DEF Sides
<1> QED
  BY <1>1, <1>2 DEF Sides

LEMMA StoreSides ==
  ASSUME SharedTypes, Sides, UNCHANGED writers,
         NEW t \in Natives, NEW k \in Keys, NEW v \in Values, Store(t, k, v)
  PROVE  Sides'
<1>0. PICK p \in Puts : p = Put(k, v) /\ p.key = k /\ p.val = v /\ p # NoOp
  BY PutIsPut
<1>1. /\ storing'[t] = p /\ \A u \in Natives : u # t => storing'[u] = storing[u]
      /\ data'[k] = v /\ \A j \in Keys : j # k => data'[j] = data[j]
      /\ UNCHANGED <<queue, frames, js, scripting>>
      /\ t \in writers /\ storing[t] = NoOp
      /\ t = MainThread => storing[MainThread] = NoOp /\ scripting = NoOp
  BY <1>0 DEF SharedTypes, Store, MainIsFree, mtqVars
<1>2. Batch' = Batch
  BY <1>1 DEF Batch
<1>3. CASE MainSide
  <2>1. t = MainThread
    BY <1>1, <1>3, WritersApart DEF MainSide
  <2>2. MainSide'
    <3>1. ASSUME NEW j \in Keys
          PROVE  /\ NoPut(queue', j) /\ NoPut(Batch', j)
                 /\ data'[j] = js'[j] \/ p.key = j
      BY <1>0, <1>1, <1>2, <1>3, <2>1 DEF MainSide
    <3>2. \A u \in Workers : storing'[u] = NoOp
      BY <1>1, <1>3, <2>1, WritersApart DEF MainSide
    <3> QED
      BY <1>0, <1>1, <1>3, <2>1, <3>1, <3>2 DEF MainSide
  <2> QED
    BY <2>2 DEF Sides
<1>4. ASSUME NEW w \in Workers, WorkerSide(w) PROVE Sides'
  <2>1. t = w
    BY <1>1, <1>4 DEF WorkerSide
  <2>2. ASSUME NEW j \in Keys, j # k PROVE WillAgree(j)'
    <3>1. WillAgree(j)
      BY <1>1, <1>4, <2>1 DEF WorkerSide
    <3> QED
      BY <1>1, <1>2, <2>2, <3>1 DEF WillAgree
  <2>3. WorkerSide(w)'
    BY <1>0, <1>1, <1>4, <2>1, <2>2 DEF WorkerSide
  <2> QED
    BY <2>3 DEF Sides
<1> QED
  BY <1>3, <1>4 DEF Sides

LEMMA PostPutSides ==
  ASSUME SharedTypes, Sides, UNCHANGED writers, NEW w \in Workers, PostPut(w)
  PROVE  Sides'
<1>0. w \in Natives /\ storing[w] # NoOp
  BY WritersApart DEF PostPut
<1>1. PICK p \in Puts : p = storing[w]
  BY <1>0 DEF SharedTypes
<1>2. /\ storing'[w] = NoOp /\ \A u \in Natives : u # w => storing'[u] = storing[u]
      /\ UNCHANGED <<data, js, scripting>>
  BY <1>0 DEF SharedTypes, PostPut, sides
<1>3. queue' = Append(queue, p) /\ Batch' = Batch /\ p \in Ops /\ queue \in Seq(Ops)
  <2>1. PostFn(p) /\ p \in Ops
    BY <1>1, PutFields DEF PostPut
  <2> QED
    BY <2>1, PostStep DEF SharedTypes
<1>4. PICK x \in Workers : WorkerSide(x)
  BY <1>0 DEF Sides, MainSide
<1>5. x = w
  BY <1>0, <1>4 DEF WorkerSide
<1>6. p.val = data[p.key] /\ p.key \in Keys
  BY <1>0, <1>1, <1>4, <1>5, PutFields DEF WorkerSide
<1>7. ASSUME NEW k \in Keys PROVE WillAgree(k)'
  <2>1. CASE k = p.key
    <3>1. IsPutOf(p, k)
      BY <2>1, PutFields
    <3>2. LastPut(queue', k, data'[k])
      BY <1>2, <1>3, <1>6, <2>1, <3>1, AppendPuts
    <3> QED
      BY <3>2 DEF WillAgree
  <2>2. CASE k # p.key
    <3>1. WillAgree(k)
      BY <1>0, <1>1, <1>4, <1>5, <2>2 DEF WorkerSide
    <3>2. ~IsPutOf(p, k)
      BY <2>2, PutFields
    <3>3. /\ NoPut(queue, k) => NoPut(queue', k)
          /\ \A v : LastPut(queue, k, v) => LastPut(queue', k, v)
      BY <1>3, <3>2, AppendPuts
    <3> QED
      BY <1>2, <1>3, <3>1, <3>3 DEF WillAgree
  <2> QED
    BY <2>1, <2>2
<1>8. WorkerSide(w)'
  BY <1>2, <1>4, <1>5, <1>7 DEF WorkerSide
<1> QED
  BY <1>8 DEF Sides

LEMMA RunPutSides ==
  ASSUME SharedTypes, Sides, alive, UNCHANGED writers, NEW p \in Puts, RunPut(p)
  PROVE  Sides'
<1>1. /\ queue' = queue /\ Batch # <<>> /\ p = Head(Batch) /\ Batch' = Tail(Batch)
      /\ Batch \in Seq(Ops) /\ p.key \in Keys
  BY PutFields, RunStep, BatchFacts DEF RunPut
<1>2. /\ js'[p.key] = p.val /\ \A k \in Keys : k # p.key => js'[k] = js[k]
      /\ UNCHANGED <<data, storing, scripting>>
  BY <1>1 DEF SharedTypes, RunPut, ApplyToJS, calls
<1>3. IsPutOf(Head(Batch), p.key)
  BY <1>1, PutFields
<1>4. ~NoPut(Batch, p.key)
  BY <1>1, <1>3, TailPuts
<1>5. PICK w \in Workers : WorkerSide(w)
  BY <1>1, <1>4 DEF Sides, MainSide
<1>6. ASSUME NEW k \in Keys, WillAgree(k) PROVE WillAgree(k)'
  <2>1. CASE LastPut(queue, k, data[k])
    BY <1>1, <1>2, <2>1 DEF WillAgree
  <2>2. CASE NoPut(queue, k) /\ LastPut(Batch, k, data[k])
    <3>1. \/ LastPut(Batch', k, data[k])
          \/ IsPutOf(p, k) /\ p.val = data[k] /\ NoPut(Batch', k)
      BY <1>1, <2>2, TailPuts
    <3>2. IsPutOf(p, k) => k = p.key
      BY PutFields
    <3> QED
      BY <1>1, <1>2, <2>2, <3>1, <3>2 DEF WillAgree
  <2>3. CASE NoPut(queue, k) /\ NoPut(Batch, k) /\ data[k] = js[k]
    <3>1. k # p.key /\ NoPut(Batch', k)
      BY <1>1, <1>4, <2>3, TailPuts
    <3> QED
      BY <1>1, <1>2, <2>3, <3>1 DEF WillAgree
  <2> QED
    BY <1>6, <2>1, <2>2, <2>3 DEF WillAgree
<1>7. WorkerSide(w)'
  BY <1>2, <1>5, <1>6 DEF WorkerSide
<1> QED
  BY <1>7 DEF Sides

\* What the main thread and the page's scripts do to the two sides.
LEMMA MainThreadSides ==
  ASSUME SharedTypes, Sides, UNCHANGED writers,
         \/ ApplyOwnPut \/ ScriptStores
         \/ \E k \in Keys, v \in Values : ScriptPut(k, v)
  PROVE  Sides'
<1>0. UNCHANGED <<queue, frames>> /\ Batch' = Batch
  BY DEF ApplyOwnPut, ScriptStores, ScriptPut, mtqVars, Batch
<1>1. MainSide
  <2>1. storing[MainThread] # NoOp \/ scripting # NoOp \/ Script \in writers
    BY DEF ApplyOwnPut, ScriptStores, ScriptPut
  <2>2. ASSUME NEW w \in Workers, WorkerSide(w) PROVE FALSE
    BY <2>1, <2>2, WritersApart DEF WorkerSide
  <2> QED
    BY <2>2 DEF Sides
<1>2. CASE ApplyOwnPut
  <2>1. PICK p \in Puts : p = storing[MainThread] /\ storing[MainThread] # NoOp
    BY <1>2, WritersApart DEF SharedTypes, ApplyOwnPut
  <2>2. /\ js'[p.key] = p.val /\ \A k \in Keys : k # p.key => js'[k] = js[k]
        /\ UNCHANGED <<data, scripting>>
    BY <1>2, <2>1, PutFields DEF SharedTypes, ApplyOwnPut, ApplyToJS
  <2>3. /\ storing'[MainThread] = NoOp
        /\ \A u \in Natives : u # MainThread => storing'[u] = storing[u]
    BY <1>2, WritersApart DEF SharedTypes, ApplyOwnPut
  <2>4. scripting = NoOp /\ p.val = data[p.key]
    BY <1>1, <2>1 DEF MainSide
  <2>5. \A k \in Keys : data'[k] = js'[k]
    BY <1>1, <2>1, <2>2, <2>4 DEF MainSide
  <2>6. \A u \in Workers : storing'[u] = NoOp
    BY <1>1, <2>3, WritersApart DEF MainSide
  <2>7. MainSide'
    BY <1>0, <1>1, <2>2, <2>3, <2>4, <2>5, <2>6 DEF MainSide
  <2> QED
    BY <2>7 DEF Sides
<1>3. CASE ScriptStores
  <2>1. PICK p \in Puts : p = scripting /\ scripting # NoOp /\ p.key \in Keys
    BY <1>3, PutFields DEF SharedTypes, ScriptStores
  <2>2. /\ data'[p.key] = p.val /\ \A k \in Keys : k # p.key => data'[k] = data[k]
        /\ scripting' = NoOp /\ UNCHANGED <<js, storing>>
    BY <1>3, <2>1 DEF SharedTypes, ScriptStores
  <2>3. storing[MainThread] = NoOp /\ p.val = js[p.key]
    BY <1>1, <2>1 DEF MainSide
  <2>4. \A k \in Keys : data'[k] = js'[k]
    BY <1>1, <2>1, <2>2, <2>3 DEF MainSide
  <2>5. MainSide'
    BY <1>0, <1>1, <2>2, <2>3, <2>4 DEF MainSide
  <2> QED
    BY <2>5 DEF Sides
<1>4. ASSUME NEW k \in Keys, NEW v \in Values, ScriptPut(k, v) PROVE Sides'
  <2>1. PICK p \in Puts : p = Put(k, v) /\ p.key = k /\ p.val = v /\ p # NoOp
    BY PutIsPut
  <2>2. /\ js'[k] = v /\ \A j \in Keys : j # k => js'[j] = js[j]
        /\ scripting' = p /\ UNCHANGED <<data, storing>>
        /\ storing[MainThread] = NoOp /\ scripting = NoOp
    BY <1>4, <2>1 DEF SharedTypes, ScriptPut, MainIsFree
  <2>3. \A j \in Keys : data'[j] = js'[j] \/ p.key = j
    BY <1>1, <2>1, <2>2 DEF MainSide
  <2>4. MainSide'
    BY <1>0, <1>1, <2>1, <2>2, <2>3 DEF MainSide
  <2> QED
    BY <2>4 DEF Sides
<1> QED
  BY <1>2, <1>3, <1>4

LEMMA SidesKept ==
  ASSUME SharedTypes, MaxNesting <= 1, alive => Sides, [SharedNext]_sharedVars
  PROVE  alive' => Sides'
<1>0. writers' = writers
  BY SharedCases
<1>1. alive' => alive
  BY SharedCases, AsideRests, MovesRest
     DEF SharedTypes, Store, ScriptPut, PostPut, ApplyOwnPut, ScriptStores, RunPut
<1> SUFFICES ASSUME alive', alive, Sides PROVE Sides'
  BY <1>1
<1>2. CASE Aside
  <2>1. UNCHANGED <<queue, frames, data, js, storing, scripting>>
    BY <1>2, AsideRests
  <2>2. Batch' = Batch /\ \A k \in Keys : WillAgree(k) => WillAgree(k)'
    BY <2>1 DEF Batch, WillAgree
  <2> QED
    BY <1>0, <2>1, <2>2, RestingSides
<1>3. CASE Moves
  <2>1. UNCHANGED <<data, js, storing, scripting>>
    BY <1>3, MovesRest
  <2>2. \A k \in Keys :
          /\ NoPut(queue, k) /\ NoPut(Batch, k) => NoPut(queue', k) /\ NoPut(Batch', k)
          /\ WillAgree(k) => WillAgree(k)'
    BY <1>3, MovesKeepPuts
  <2> QED
    BY <1>0, <2>1, <2>2, RestingSides
<1> QED
  BY <1>0, <1>2, <1>3, SharedCases, StoreSides, PostPutSides, RunPutSides, MainThreadSides

LEMMA SharedInitInv == ASSUME OneSideWrites PROVE SharedInit => SharedInv
<1> SUFFICES ASSUME SharedInit PROVE SharedInv
  OBVIOUS
<1>1. queue = <<>> /\ frames = <<>> /\ Batch = <<>>
  BY DEF SharedInit, QueueInit, Batch
<1>2. SharedTypes
  BY <1>1, EmptySeq DEF SharedInit, SharedTypes, Values
<1>3. \A k \in Keys : NoPut(queue, k) /\ NoPut(Batch, k) /\ data[k] = js[k]
  BY <1>1 DEF SharedInit, NoPut
<1>4. scripting = NoOp /\ \A t \in Natives : storing[t] = NoOp
  BY DEF SharedInit
<1>5. CASE writers \subseteq {MainThread, Script}
  BY <1>2, <1>3, <1>4, <1>5, WritersApart DEF SharedInv, Sides, MainSide
<1>6. ASSUME NEW w \in Workers, writers \subseteq {w} PROVE SharedInv
  <2>1. WorkerSide(w)
    BY <1>3, <1>4, <1>6, WritersApart DEF WorkerSide, WillAgree
  <2> QED
    BY <1>2, <2>1 DEF SharedInv, Sides
<1> QED
  BY <1>2, <1>5, <1>6 DEF OneSideWrites, SharedTypes

THEOREM SharedInvariant == ASSUME OneSideWrites, MaxNesting <= 1 PROVE SharedSpec => []SharedInv
<1>1. SharedInit => SharedInv
  BY SharedInitInv
<1>2. SharedInv /\ [SharedNext]_sharedVars => SharedInv'
  BY SharedTypesKept, SidesKept DEF SharedInv
<1> QED
  BY <1>1, <1>2, PTL DEF SharedSpec

\* When one side writes and flushes do not nest, the host's copy of a shared
\* object and the page's agree on every property of which no put is on its way
\* (safeSetProperty, safeDeleteProperty, wrapSharedObject).
THEOREM SidesComeToAgree ==
  ASSUME OneSideWrites, MaxNesting <= 1 PROVE SharedSpec => []SidesAgree
<1>1. SharedInv => SidesAgree
  <2> SUFFICES ASSUME SharedInv, alive, NEW k \in Keys
               PROVE  data[k] = js[k] \/ InFlight(k)
    BY DEF SidesAgree
  <2>1. SharedTypes
    BY DEF SharedInv
  <2>2. CASE MainSide
    BY <2>2, WritersApart DEF MainSide, InFlight
  <2>3. ASSUME NEW w \in Workers, WorkerSide(w) PROVE data[k] = js[k] \/ InFlight(k)
    <3>1. LastPut(queue, k, data[k]) => InFlight(k)
      BY DEF LastPut, IsPutOf, InFlight, Waiting, ToSet
    <3>2. LastPut(Batch, k, data[k]) => InFlight(k)
      <4>1. CASE frames = <<>>
        BY <4>1 DEF LastPut, Batch
      <4>2. CASE frames # <<>>
        <5>1. 1 \in DOMAIN frames /\ Batch = frames[1].rest
          BY <2>1, <4>2, BatchFacts DEF Flushing, Batch
        <5> QED
          BY <5>1 DEF LastPut, IsPutOf, InFlight, Waiting, ToSet
      <4> QED
        BY <4>1, <4>2
    <3>3. storing[w] # NoOp /\ storing[w].key = k => InFlight(k)
      BY WritersApart DEF InFlight
    <3> QED
      BY <2>3, <3>1, <3>2, <3>3 DEF WorkerSide, WillAgree
  <2> QED
    BY <2>2, <2>3 DEF SharedInv, Sides
<1>2. SharedSpec => []SharedInv
  BY SharedInvariant
<1> QED
  BY <1>1, <1>2, PTL

=============================================================================
