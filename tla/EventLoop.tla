------------------------------ MODULE EventLoop -----------------------------
(***************************************************************************)
(* core/event/loop/event_loop.cpp driven by mblink_run, mblink_wait_events *)
(* or mblink_poll_events (core/api/mblink.cpp): how the main thread comes  *)
(* to notice work that other threads leave for it.                         *)
(*                                                                         *)
(* A posted function is followed by Wake, which puts one event of its own  *)
(* type into SDL's queue unless one is already on its way.  A finished     *)
(* asynchronous call, a queued HostBridge event or a state change made by  *)
(* another thread is left without a Wake.  Stop sets should_quit_ and      *)
(* wakes.  SDL's queue is modelled from the calls made on it; what the     *)
(* handlers of input, timers and frames do is left out.                    *)
(***************************************************************************)
EXTENDS Naturals, Sequences, FiniteSets

CONSTANTS
  Modes,      \* the calls that may drive the loop: some of "run", "wait", "poll"
  Posters,    \* threads that post to the MainThreadQueue
  Finishers,  \* threads that leave work without a Wake
  Stoppers,   \* threads that call mblink_stop
  Inputs,     \* what the user does
  CloseInput, \* the input that makes every window ShouldClose
  WakeEvent,  \* wake_event_type_
  NoEvent,
  MayFill,    \* the modes in which SDL's queue may be full ...
  SdlMax,     \* ... with this many events (65535 in SDL)
  MaxPosts,   \* bound: what each poster posts (the other threads act once)
  MaxDue      \* bound: timers that come due and frames that are asked for

Threads == Posters \cup Finishers \cup Stoppers

ASSUME ModesAreKnown == Modes \subseteq {"run", "wait", "poll"} /\ MayFill \subseteq Modes
ASSUME ThreadsAreApart ==
  /\ Posters \cap Finishers = {}
  /\ Stoppers \cap (Posters \cup Finishers) = {}
ASSUME EventsAreApart ==
  /\ WakeEvent \notin Inputs /\ NoEvent \notin Inputs \cup {WakeEvent}
ASSUME LoopBounds ==
  SdlMax \in Nat \ {0} /\ MaxPosts \in Nat \ {0} /\ MaxDue \in Nat

VARIABLES
  mode,        \* the call that drives the loop, the host program's choice
  sdl,         \* SDL's event queue
  wakePending, \* wake_pending_
  quit,        \* should_quit_
  closing,     \* every window ShouldClose
  due,         \* "now": a timer is due, "frame": an animation frame is asked for
  dueLeft,
  at,          \* where the main thread is
  idled,       \* did_front_idle_wait
  held,        \* what SDL_WaitEventTimeout took out of the queue
  queued,      \* functions in the MainThreadQueue
  silent,      \* work left without a Wake
  ran,         \* work that has been done
  posts,       \* how much each thread has left
  pc,          \* where each thread is in its Wake
  stopped,     \* mblink_stop has been called
  handled      \* inputs that were dispatched

workVars == <<queued, silent, ran>>
threadVars == <<posts, pc, stopped>>
inputVars == <<closing, handled>>
dueVars == <<due, dueLeft>>
steps == <<sdl, wakePending, quit, at, idled, held,
           workVars, threadVars, inputVars, dueVars>>
vars == <<mode, steps>>

Events == Inputs \cup {WakeEvent}
Bound(t) == IF t \in Posters THEN MaxPosts ELSE 1
Items == Threads \X (1..MaxPosts)
Places == {"call", "test", "front", "wait", "repush", "awake", "events", "clear",
           "tasks", "update", "flush", "finish", "tail", "over"}

AllowIdle == mode # "poll"

\* Mutant: mblink_run flushes before the pass too.
FlushesFirst_Always == TRUE

\* mblink_wait_events and mblink_poll_events flush before the pass; mblink_run
\* flushes inside it, from the update callback.
FlushesFirst == mode # "run"

\* IdleWorkState::hasImmediateWork
Immediate == sdl # <<>> \/ due = "now" \/ closing

Full == mode \in MayFill /\ Len(sdl) >= SdlMax

Init ==
  /\ mode \in Modes
  /\ sdl = <<>> /\ wakePending = FALSE /\ held = NoEvent
  /\ quit = FALSE /\ closing = FALSE /\ handled = {}
  /\ due = "none" /\ dueLeft = MaxDue
  /\ at = "call" /\ idled = FALSE
  /\ queued = {} /\ silent = {} /\ ran = {}
  /\ posts = [t \in Threads |-> 0]
  /\ pc = [t \in Threads |-> "idle"]
  /\ stopped = FALSE

-----------------------------------------------------------------------------
(* The other threads.                                                      *)

\* MainThreadQueue::post, up to the wake call.
Post(t) ==
  /\ pc[t] = "idle" /\ posts[t] < Bound(t)
  /\ posts' = [posts EXCEPT ![t] = @ + 1]
  /\ queued' = queued \cup {<<t, posts'[t]>>}
  /\ pc' = [pc EXCEPT ![t] = "wake"]
  /\ UNCHANGED <<sdl, wakePending, quit, at, idled, held, silent, ran, stopped,
                 inputVars, dueVars>>

\* A worker completes a call, an event is emitted, a state is set: no Wake.
Finish(t) ==
  /\ posts[t] < Bound(t)
  /\ posts' = [posts EXCEPT ![t] = @ + 1]
  /\ silent' = silent \cup {<<t, posts'[t]>>}
  /\ UNCHANGED <<sdl, wakePending, quit, at, idled, held, queued, ran, stopped, pc,
                 inputVars, dueVars>>

\* mblink_stop: EventLoop::Stop up to its Wake.
Stop(t) ==
  /\ pc[t] = "idle" /\ posts[t] < Bound(t)
  /\ posts' = [posts EXCEPT ![t] = @ + 1]
  /\ quit' = TRUE
  /\ stopped' = TRUE
  /\ pc' = [pc EXCEPT ![t] = "wake"]
  /\ UNCHANGED <<sdl, wakePending, at, idled, held, workVars, inputVars, dueVars>>

\* Wake: compare_exchange_strong.
WakeTries(t) ==
  /\ pc[t] = "wake"
  /\ wakePending' = TRUE
  /\ pc' = [pc EXCEPT ![t] = IF wakePending THEN "idle" ELSE "push"]
  /\ UNCHANGED <<sdl, quit, at, idled, held, workVars, posts, stopped, inputVars, dueVars>>

WakePushes(t) ==
  /\ pc[t] = "push" /\ ~Full
  /\ sdl' = Append(sdl, WakeEvent)
  /\ pc' = [pc EXCEPT ![t] = "idle"]
  /\ UNCHANGED <<wakePending, quit, at, idled, held, workVars, posts, stopped,
                 inputVars, dueVars>>

WakeFails(t) ==
  /\ pc[t] = "push" /\ Full
  /\ wakePending' = FALSE
  /\ pc' = [pc EXCEPT ![t] = "idle"]
  /\ UNCHANGED <<sdl, quit, at, idled, held, workVars, posts, stopped, inputVars, dueVars>>

\* SDL adds what the user did, each input once.
InputArrives(i) ==
  /\ i \notin handled /\ i # held /\ \A k \in DOMAIN sdl : sdl[k] # i
  /\ ~Full
  /\ sdl' = Append(sdl, i)
  /\ UNCHANGED <<wakePending, quit, at, idled, held, workVars, threadVars,
                 inputVars, dueVars>>

\* Time passes: a timer is due.
TimerDue ==
  /\ due = "none" /\ dueLeft > 0
  /\ due' = "now" /\ dueLeft' = dueLeft - 1
  /\ UNCHANGED <<sdl, wakePending, quit, at, idled, held, workVars, threadVars, inputVars>>

-----------------------------------------------------------------------------
(* The main thread.                                                        *)

\* A step from one place to another that leaves everything else alone.
Goes(from, to) ==
  /\ at = from
  /\ at' = to
  /\ UNCHANGED <<sdl, wakePending, quit, idled, held, workVars, threadVars,
                 inputVars, dueVars>>

\* Run clears should_quit_ before its loop; wait and poll flush first.
Call ==
  /\ at = "call"
  /\ at' = IF FlushesFirst THEN "update" ELSE "test"
  /\ quit' = (FlushesFirst /\ quit)
  /\ UNCHANGED <<sdl, wakePending, idled, held, workVars, threadVars, inputVars, dueVars>>

\* The condition of Run's loop; the caller's look at ShouldQuit in the other modes.
LoopTest ==
  /\ at = "test"
  /\ at' = IF quit THEN "over" ELSE IF FlushesFirst THEN "call" ELSE "front"
  /\ UNCHANGED <<sdl, wakePending, quit, idled, held, workVars, threadVars,
                 inputVars, dueVars>>

\* RunOnceInternal, the wait at its front.
FrontIdle ==
  /\ at = "front"
  /\ idled' = (AllowIdle /\ ~quit /\ ~Immediate)
  /\ at' = IF idled' THEN "wait" ELSE "events"
  /\ UNCHANGED <<sdl, wakePending, quit, held, workVars, threadVars, inputVars, dueVars>>

AfterWait == IF idled THEN "awake" ELSE "test"

\* WaitForIdleWork: an event comes ...
WaitTakes ==
  /\ at = "wait" /\ sdl # <<>>
  /\ held' = Head(sdl)
  /\ sdl' = Tail(sdl)
  /\ at' = "repush"
  /\ UNCHANGED <<wakePending, quit, idled, workVars, threadVars, inputVars, dueVars>>

\* Mutant: the event the wait took is not put back.
WaitPutsBack_Forget ==
  /\ at = "repush"
  /\ held' = NoEvent
  /\ at' = AfterWait
  /\ UNCHANGED <<sdl, wakePending, quit, idled, workVars, threadVars, inputVars, dueVars>>

\* ... and is put back, behind whatever has come since; or the delay is over.
WaitPutsBack ==
  /\ at = "repush"
  /\ sdl' = IF Full THEN sdl ELSE Append(sdl, held)
  /\ held' = NoEvent
  /\ at' = AfterWait
  /\ UNCHANGED <<wakePending, quit, idled, workVars, threadVars, inputVars, dueVars>>

WaitTimesOut == sdl = <<>> /\ Goes("wait", AfterWait)

\* The work is collected again; with none, RunOnce returns before the update.
Awake == Goes("awake", IF Immediate \/ due = "frame" THEN "events" ELSE "test")

\* ProcessEvents: the head of SDL's queue is the wake event ...
TakeWake ==
  /\ at = "events" /\ sdl # <<>> /\ Head(sdl) = WakeEvent
  /\ sdl' = Tail(sdl)
  /\ at' = "clear"
  /\ UNCHANGED <<wakePending, quit, idled, held, workVars, threadVars, inputVars, dueVars>>

\* Mutant: the flag stays set.
ClearWake_Skip == Goes("clear", "events")

ClearWake ==
  /\ at = "clear"
  /\ wakePending' = FALSE
  /\ at' = "events"
  /\ UNCHANGED <<sdl, quit, idled, held, workVars, threadVars, inputVars, dueVars>>

\* ... or an input, which is dispatched.
TakeInput ==
  /\ at = "events" /\ sdl # <<>> /\ Head(sdl) # WakeEvent
  /\ sdl' = Tail(sdl)
  /\ handled' = handled \cup {Head(sdl)}
  /\ closing' = (closing \/ Head(sdl) = CloseInput)
  /\ UNCHANGED <<at, wakePending, quit, idled, held, workVars, threadVars, dueVars>>

EventsDone == sdl = <<>> /\ Goes("events", "tasks")

\* ProcessTasks, the timers and the frames; a script may ask for a frame.
RunTasks ==
  /\ at = "tasks"
  /\ at' = IF FlushesFirst THEN "finish" ELSE "update"
  /\ \/ due' = "none" /\ UNCHANGED dueLeft
     \/ dueLeft > 0 /\ due' = "frame" /\ dueLeft' = dueLeft - 1
  /\ UNCHANGED <<sdl, wakePending, quit, idled, held, workVars, threadVars, inputVars>>

\* processQueue, flushEvents and flushAsyncResults.
FlushSilent ==
  /\ at = "update"
  /\ ran' = ran \cup silent
  /\ silent' = {}
  /\ at' = "flush"
  /\ UNCHANGED <<sdl, wakePending, quit, idled, held, queued, threadVars, inputVars, dueVars>>

\* mainThreadQueue.flush
FlushQueue ==
  /\ at = "flush"
  /\ ran' = ran \cup queued
  /\ queued' = {}
  /\ at' = IF FlushesFirst THEN "front" ELSE "finish"
  /\ UNCHANGED <<sdl, wakePending, quit, idled, held, silent, threadVars, inputVars, dueVars>>

\* The check whether every window should close.
QuitCheck ==
  /\ at = "finish"
  /\ quit' = (quit \/ closing)
  /\ at' = "tail"
  /\ UNCHANGED <<sdl, wakePending, idled, held, workVars, threadVars, inputVars, dueVars>>

\* The wait at the end of a pass that had none at its front.
TailIdle == Goes("tail", IF AllowIdle /\ ~idled /\ ~Immediate THEN "wait" ELSE "test")

\* The host program does not call again.
Over == at = "over" /\ UNCHANGED steps

Main ==
  \/ Call \/ LoopTest \/ FrontIdle \/ WaitTakes \/ WaitPutsBack \/ WaitTimesOut
  \/ Awake \/ TakeWake \/ ClearWake \/ TakeInput \/ EventsDone \/ RunTasks
  \/ FlushSilent \/ FlushQueue \/ QuitCheck \/ TailIdle

Wakes(t) == WakeTries(t) \/ WakePushes(t) \/ WakeFails(t)

Step ==
  \/ Main \/ Over \/ TimerDue
  \/ \E i \in Inputs : InputArrives(i)
  \/ \E t \in Posters : Post(t)
  \/ \E t \in Finishers : Finish(t)
  \/ \E t \in Stoppers : Stop(t)
  \/ \E t \in Threads : Wakes(t)

Next == Step /\ UNCHANGED mode

Spec == Init /\ [][Next]_vars

\* The operating system runs every thread, and a wait ends after 250 ms at most.
FairSpec == Spec /\ WF_steps(Main) /\ \A t \in Threads : WF_steps(Wakes(t))

-----------------------------------------------------------------------------
(* Properties.                                                             *)

\* The state has its type, and the waiter holds an event only between taking
\* it out of SDL's queue and putting it back (WaitForIdleWork).
LoopTypeOK ==
  /\ mode \in Modes
  /\ sdl \in Seq(Events)
  /\ wakePending \in BOOLEAN /\ quit \in BOOLEAN /\ closing \in BOOLEAN
  /\ due \in {"none", "now", "frame"} /\ dueLeft \in 0..MaxDue
  /\ at \in Places /\ idled \in BOOLEAN
  /\ held \in Events \cup {NoEvent}
  /\ (held = NoEvent) <=> (at # "repush")
  /\ queued \subseteq Items /\ silent \subseteq Items /\ ran \subseteq Items
  /\ posts \in [Threads -> 0..MaxPosts]
  /\ pc \in [Threads -> {"idle", "wake", "push"}]
  /\ stopped \in BOOLEAN
  /\ handled \subseteq Inputs

\* A wake event is on its way from the exchange that won to the store that
\* clears the flag.
Pushing == {t \in Threads : pc[t] = "push"}
InSdl == {k \in DOMAIN sdl : sdl[k] = WakeEvent}
WakeOnItsWay ==
  Pushing # {} \/ InSdl # {} \/ held = WakeEvent \/ at = "clear"

\* wake_pending_ coalesces Wakes (Wake, ProcessEvents): there is never more
\* than one wake event in flight, so that a burst of posts cannot flood SDL.
OneWake ==
  /\ Cardinality(Pushing) + Cardinality(InSdl) <= 1
  /\ Pushing # {} \/ InSdl # {} => held # WakeEvent /\ at # "clear"

\* A thread that posted and returned from Wake never leaves the main thread
\* asleep on an empty SDL queue with its function waiting (Wake, ProcessEvents,
\* the update callback).  Under mblink_wait_events it may, for one wait of at
\* most 250 ms: the flush comes before the pass that takes the wake event.
NoSleepWithWork ==
  at = "wait" /\ queued # {} => sdl # <<>> \/ \E t \in Threads : pc[t] # "idle"

\* It is so under mblink_run, which flushes after it has cleared wake_pending_.
RunNeverSleepsWithWork == mode = "run" => NoSleepWithWork

\* The event that an idle wait takes out of SDL's queue is put back
\* (WaitForIdleWork): no input that arrived is lost, as long as SDL has room.
InputIsNotLost ==
  [][mode \notin MayFill =>
       \A i \in Inputs :
         (\E k \in DOMAIN sdl : sdl[k] = i) \/ held = i
         => (\/ \E k \in DOMAIN sdl' : sdl'[k] = i
             \/ held' = i \/ i \in handled')]_steps

\* A posted function is run unless the loop ends (MainThreadQueue::post).
PostedRuns ==
  \A i \in Posters \X (1..MaxPosts) : i \in queued ~> i \in ran \/ at = "over"

\* What a thread leaves without a Wake is taken up unless the loop ends.
SilentRuns ==
  \A i \in Finishers \X (1..MaxPosts) : i \in silent ~> i \in ran \/ at = "over"

\* A loop that runs ends once Stop was called, all windows close or the input
\* that closes them has arrived, which the idle wait may take out of SDL's queue
\* and put back, as long as SDL has room (Run, Stop, WaitForIdleWork).
CloseIsComing ==
  \/ quit \/ closing
  \/ mode \notin MayFill /\ (held = CloseInput \/ \E k \in DOMAIN sdl : sdl[k] = CloseInput)

QuitEnds == CloseIsComing /\ at # "call" ~> at = "over"

\* The loop ends once mblink_stop was called, whenever that was.
StopEnds == stopped ~> at = "over"

=============================================================================
