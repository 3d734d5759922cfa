---------------------------- MODULE UiDevDaemon -----------------------------
(***************************************************************************)
(* The ui-dev daemon of a project: tools/mblink_ui_dev/daemon_server.cpp.  *)
(*                                                                         *)
(* Each request has a thread, the watcher has one, and all share the books *)
(* on the runtime process under g_daemon_mutex.  A reload must not hold    *)
(* the mutex while it talks to the runtime, so it works on a copy of the   *)
(* books and merges the copy when it is done; an open starts the runtime   *)
(* with the mutex held.  Commands to the runtime take turns by             *)
(* g_runtime_command_mutex.                                                *)
(***************************************************************************)
EXTENDS EsmLoader, FiniteSets

CONSTANTS
  Clients,   \* threads that serve requests
  Watcher,   \* the thread of WatchLoop
  MaxCalls,  \* requests that are made
  MaxEdits   \* times the sources change

ASSUME WatcherIsNoClient == Watcher \notin Clients /\ None \notin Clients \cup {Watcher}
ASSUME BoundsOnWork == MaxCalls \in Nat /\ MaxEdits \in Nat

VARIABLES
  books,       \* the DaemonState: runtime_pid, runtime_status, runtime_stop_reason
  lock,        \* the thread that keeps g_daemon_mutex over several steps
  cmdLock,     \* the holder of g_runtime_command_mutex
  stopping,    \* g_daemon_stopping
  shouldExit,  \* should_exit
  gone,        \* the daemon's process has ended
  thread,      \* of each thread: where it is, the request it serves, its copy of the
               \* books, and the id of its command
  watch,       \* g_watch: enabled, initialized, pending, snapshot, stop_requested
  edits,       \* the version of the sources
  tried,       \* the last version that was given to the builder
  calls,       \* requests made so far
  asked,       \* commands written so far
  overlapped,  \* history: two threads replaced the runtime at a time, or a client did
               \* while the daemon was stopping
  lateWatch,   \* history: watching was asked for while the daemon was stopping
  closed       \* history: what became of the user's closing of the runtime

watchVars == <<watch, edits, tried>>
exitVars == <<stopping, shouldExit, gone>>
histVars == <<overlapped, lateWatch, closed>>
locks == <<lock, cmdLock>>
vars == <<loaderVars, thread, watchVars, exitVars, histVars, books, locks, calls, asked>>

Threads == Clients \cup {Watcher}

-----------------------------------------------------------------------------

Stopped(reason) == [pid |-> 0, status |-> "stopped", reason |-> reason]
Started(p) == [pid |-> p, status |-> "running", reason |-> "other"]

\* A thread between two requests, or between two rounds of WatchLoop.
AtRest(t) == [at |-> IF t = Watcher THEN "poll" ELSE "idle",
              work |-> IF t = Watcher THEN "reload" ELSE "none",
              copy |-> Stopped("other"), id |-> None]

Goes(t, where) == thread' = [thread EXCEPT ![t].at = where]
GoesWith(t, where, b) == thread' = [thread EXCEPT ![t].at = where, ![t].copy = b]
Rests(t) == thread' = [thread EXCEPT ![t] = AtRest(t)]
LockIsFree == lock = None

\* RefreshRuntimeStateUnlocked: the lifecycle file first, then the process.
Refresh(b) ==
  LET told == IF lifecycle = None THEN b
              ELSE [b EXCEPT !.status = lifecycle.status, !.reason = lifecycle.reason]
  IN IF IsProcessRunning(b.pid) THEN [told EXCEPT !.status = "running"]
     ELSE [told EXCEPT !.pid = 0, !.status = IF @ = "running" THEN "stopped" ELSE @]

RuntimeWasUserClosed(b) == b.status = "stopped" /\ b.reason = "user_closed"

\* t is between its look at the books and what it makes of them, and may
\* replace the runtime.
Replacing(t) ==
  /\ thread[t].work \in {"open", "reload"}
  /\ thread[t].at \in {"refresh", "ask", "await", "record", "kill", "spawn", "settle", "merge"}

\* Another thread replaces the runtime already, or the daemon is stopping.
Overlaps(t) == stopping \/ \E u \in Threads \ {t} : Replacing(u)

-----------------------------------------------------------------------------
\* Requests

\* A client's request is taken up, and its thread goes on from there.
Request(t, w, where, b) ==
  /\ t \in Clients /\ thread[t].at = "idle" /\ calls < MaxCalls
  /\ calls' = calls + 1
  /\ thread' = [thread EXCEPT ![t].at = where, ![t].work = w, ![t].copy = b]

\* The same project is open with the same configuration, and its runtime runs.
OpenReuses(t) ==
  /\ t \in Clients /\ thread[t].at = "idle" /\ calls < MaxCalls
  /\ LockIsFree /\ IsProcessRunning(books.pid)
  /\ calls' = calls + 1
  /\ books' = [books EXCEPT !.status = "running", !.reason = "other"]
  /\ closed' = "no"
  /\ UNCHANGED <<loaderVars, thread, watchVars, exitVars, asked, locks, overlapped, lateWatch>>

\* An open that has to start the runtime keeps the mutex until it has.
OpenStarts(t) ==
  /\ LockIsFree /\ lock' = t
  /\ books' = Refresh(books)
  /\ Request(t, "open", "kill", books')
  /\ watch' = [watch EXCEPT !.enabled = FALSE, !.initialized = FALSE, !.pending = FALSE]
  /\ overlapped' = (overlapped \/ Overlaps(t))
  /\ closed' = "no"
  /\ UNCHANGED <<loaderVars, edits, tried, exitVars, asked, cmdLock, lateWatch>>

Reload(t) ==
  /\ LockIsFree
  /\ books' = Refresh(books)
  /\ Request(t, "reload", "refresh", books')
  /\ overlapped' = (overlapped \/ Overlaps(t))
  /\ UNCHANGED <<loaderVars, watchVars, exitVars, asked, locks, lateWatch, closed>>

\* eval, click, inspect and the other commands to the page.
Eval(t) ==
  /\ LockIsFree /\ IsProcessRunning(books.pid)
  /\ books' = Refresh(books)
  /\ Request(t, "eval", "ask", books')
  /\ UNCHANGED <<loaderVars, watchVars, exitVars, histVars, asked, locks>>

\* build --watch reads the sources and then has them watched.  A worker that
\* has not been joined is left as it is: EnsureWatchThreadStarted.
BuildWatch(t) ==
  /\ t \in Clients /\ thread[t].at = "idle" /\ calls < MaxCalls
  /\ LockIsFree
  /\ calls' = calls + 1
  /\ books' = Refresh(books)
  /\ tried' = edits
  /\ LET joinable == thread[Watcher].at # "off" IN
       /\ watch' = [enabled |-> TRUE, initialized |-> FALSE, pending |-> FALSE,
                    snapshot |-> 0, stop |-> joinable /\ watch.stop]
       /\ IF joinable THEN UNCHANGED thread ELSE Rests(Watcher)
  /\ lateWatch' = (lateWatch \/ stopping)
  /\ UNCHANGED <<loaderVars, edits, exitVars, asked, locks, overlapped, closed>>

\* stop sets the flag before it waits for the mutex.
Stop(t) ==
  /\ Request(t, "stop", "mark", thread[t].copy)
  /\ stopping' = TRUE
  /\ overlapped' = (overlapped \/ \E u \in Clients : Replacing(u))
  /\ closed' = "no"
  /\ UNCHANGED <<loaderVars, watchVars, shouldExit, gone, asked, books, locks, lateWatch>>

\* status, info and the requests about files refresh the books and no more.
Status ==
  /\ LockIsFree
  /\ books' = Refresh(books)
  /\ UNCHANGED <<loaderVars, thread, watchVars, exitVars, histVars, locks, calls, asked>>

-----------------------------------------------------------------------------
\* ReloadRuntimeBundleOrRestart, on the thread's copy of the books

apartFromThread == <<watchVars, exitVars, histVars, books, lock, calls>>

\* Mutant: a runtime the user closed is started again.
Looks_Restarts(t) ==
  /\ thread[t].at = "refresh"
  /\ LET seen == Refresh(thread[t].copy) IN
       GoesWith(t, IF IsProcessRunning(seen.pid) THEN "ask" ELSE "kill", seen)
  /\ UNCHANGED <<loaderVars, apartFromThread, cmdLock, asked>>

Looks(t) ==
  /\ thread[t].at = "refresh"
  /\ LET seen == Refresh(thread[t].copy) IN
       GoesWith(t, CASE IsProcessRunning(seen.pid) -> "ask"
                     [] RuntimeWasUserClosed(seen) -> "merge"
                     [] OTHER -> "kill", seen)
  /\ UNCHANGED <<loaderVars, apartFromThread, cmdLock, asked>>

\* RequestRuntimeCommand: its turn has come, and it replaces both files.
Asks(t) ==
  /\ thread[t].at = "ask" /\ ~stopping /\ cmdLock = None
  /\ cmdLock' = t
  /\ asked' = asked + 1
  /\ command' = asked' /\ response' = None
  /\ thread' = [thread EXCEPT ![t].at = "await", ![t].id = asked']
  /\ UNCHANGED <<proc, taken, lifecycle, runs, apartFromThread>>

\* What a thread does when the runtime has not done what it was asked.
Fails(t) ==
  IF thread[t].work = "reload"
  THEN Goes(t, IF RuntimeWasUserClosed(thread[t].copy) THEN "merge" ELSE "kill")
  ELSE Rests(t)

IsRefused(t) ==
  /\ thread[t].at = "ask" /\ stopping
  /\ Fails(t)
  /\ UNCHANGED <<loaderVars, apartFromThread, cmdLock, asked>>

\* The response with its id is there.
IsAnswered(t) ==
  /\ thread[t].at = "await"
  /\ response # None /\ response.id = thread[t].id
  /\ cmdLock' = None
  /\ IF response.ok /\ thread[t].work = "reload" THEN Goes(t, "record") ELSE Fails(t)
  /\ UNCHANGED <<loaderVars, apartFromThread, asked>>

\* The daemon is stopping, the process is gone, or the eight seconds are over.
GivesUp(t) ==
  /\ thread[t].at = "await"
  /\ cmdLock' = None
  /\ Fails(t)
  /\ UNCHANGED <<loaderVars, apartFromThread, asked>>

\* The page was reloaded in place: WriteRuntimeLifecycleUnlocked.
Records(t) ==
  /\ thread[t].at = "record"
  /\ lifecycle' = Up
  /\ GoesWith(t, "merge", Started(thread[t].copy.pid))
  /\ UNCHANGED <<proc, taken, command, response, runs, apartFromThread, cmdLock, asked>>

-----------------------------------------------------------------------------
\* StartRuntime

\* Mutant: the old runtime is not stopped first.
KillsOld_LetsLive(t) ==
  /\ thread[t].at = "kill"
  /\ Goes(t, "spawn")
  /\ UNCHANGED <<loaderVars, apartFromThread, cmdLock, asked>>

KillsOld(t) ==
  /\ thread[t].at = "kill"
  /\ StopProcess(thread[t].copy.pid)
  /\ Goes(t, "spawn")
  /\ UNCHANGED <<lifecycle, command, response, runs, apartFromThread, cmdLock, asked>>

\* The build failed, the entry is missing or the process cannot be created.
CannotStart(t) ==
  /\ thread[t].at = "spawn"
  /\ GoesWith(t, "settle", Stopped("other"))
  /\ UNCHANGED <<loaderVars, apartFromThread, cmdLock, asked>>

\* The files of the last runtime are removed, and a process is created.
Spawns(t) ==
  /\ thread[t].at = "spawn"
  /\ \E p \in Pids :
       /\ proc[p] = "unborn" /\ \A q \in Pids : q < p => proc[q] # "unborn"
       /\ proc' = [proc EXCEPT ![p] = "booting"]
       /\ GoesWith(t, "settle", Started(p))
  /\ RemoveRuntimeArtifacts
  /\ closed' = "no"
  /\ UNCHANGED <<taken, runs, watchVars, exitVars, overlapped, lateWatch, books, locks, calls,
                 asked>>

\* Half a second later: is the process still there?
Settled(b) ==
  IF IsProcessRunning(b.pid) THEN Started(b.pid)
  ELSE IF b.pid = 0 THEN b ELSE Refresh([b EXCEPT !.pid = 0])

\* A reload goes on to merge; an open has the mutex and is done.
Settles(t) ==
  /\ thread[t].at = "settle"
  /\ LET b == Settled(thread[t].copy) IN
       IF thread[t].work = "open"
       THEN books' = b /\ lock' = None /\ Rests(t)
       ELSE GoesWith(t, "merge", b) /\ UNCHANGED <<books, lock>>
  /\ UNCHANGED <<loaderVars, watchVars, exitVars, histVars, cmdLock, calls, asked>>

\* MergeRuntimeFields, whatever the books say by now.
Merges(t) ==
  /\ thread[t].at = "merge" /\ LockIsFree
  /\ books' = thread[t].copy
  /\ Rests(t)
  /\ UNCHANGED <<loaderVars, watchVars, exitVars, histVars, locks, calls, asked>>

-----------------------------------------------------------------------------
\* WatchLoop

Watching == watch.enabled /\ watch.initialized /\ ~watch.stop
Polls == thread[Watcher].at = "poll" /\ ~watch.stop /\ watch.enabled /\ LockIsFree

apartFromWatch == <<loaderVars, edits, exitVars, histVars, locks, calls, asked>>

\* The first look at the sources after watching was asked for.
WatchCaptures ==
  /\ Polls /\ ~watch.initialized
  /\ watch' = [watch EXCEPT !.initialized = TRUE, !.snapshot = edits]
  /\ books' = Refresh(books)
  /\ UNCHANGED <<apartFromWatch, thread, tried>>

\* Mutant: the change is recorded, and nothing is left to be done about it.
WatchSeesChange_Forgets ==
  /\ Polls /\ watch.initialized /\ watch.snapshot # edits
  /\ watch' = [watch EXCEPT !.snapshot = edits]
  /\ books' = Refresh(books)
  /\ UNCHANGED <<apartFromWatch, thread, tried>>

WatchSeesChange ==
  /\ Polls /\ watch.initialized /\ watch.snapshot # edits
  /\ watch' = [watch EXCEPT !.snapshot = edits, !.pending = TRUE]
  /\ books' = Refresh(books)
  /\ UNCHANGED <<apartFromWatch, thread, tried>>

\* Nothing has changed for as long as the debounce lasts.
WatchBuilds ==
  /\ Polls /\ watch.initialized /\ watch.snapshot = edits /\ watch.pending
  /\ watch' = [watch EXCEPT !.pending = FALSE]
  /\ books' = Refresh(books)
  /\ Goes(Watcher, "build")
  /\ tried' = edits
  /\ UNCHANGED apartFromWatch

\* The build, made without the mutex, has ended; a good one is put to use
\* unless the books say that the user closed the runtime.
BuildEnds ==
  /\ thread[Watcher].at = "build" /\ LockIsFree
  /\ books' = Refresh(books)
  /\ \/ /\ ~RuntimeWasUserClosed(books')
        /\ GoesWith(Watcher, "refresh", books')
        /\ overlapped' = (overlapped \/ \E c \in Clients : Replacing(c))
     \/ Rests(Watcher) /\ UNCHANGED overlapped
  /\ UNCHANGED <<loaderVars, watchVars, exitVars, lateWatch, closed, locks, calls, asked>>

WatchEnds ==
  /\ thread[Watcher].at = "poll" /\ watch.stop
  /\ Goes(Watcher, "ended")
  /\ UNCHANGED <<loaderVars, apartFromThread, cmdLock, asked>>

\* The sources change; a change that nobody watches for is of no consequence.
Edit ==
  /\ watch.enabled /\ edits < MaxEdits
  /\ edits' = edits + 1
  /\ UNCHANGED <<loaderVars, thread, watch, tried, exitVars, histVars, books, locks, calls, asked>>

-----------------------------------------------------------------------------
\* Stopping

apartFromStop == <<loaderVars, edits, tried, exitVars, histVars, locks, calls, asked>>

\* Mutant: the mutex is kept while the watcher is waited for.
Marks_KeepsMutex(t) ==
  /\ thread[t].at = "mark" /\ LockIsFree /\ lock' = t
  /\ books' = [books EXCEPT !.status = "stopping"]
  /\ watch' = [watch EXCEPT !.stop = TRUE]
  /\ Goes(t, "join")
  /\ UNCHANGED <<loaderVars, edits, tried, exitVars, histVars, cmdLock, calls, asked>>

Marks(t) ==
  /\ thread[t].at = "mark" /\ LockIsFree
  /\ books' = [books EXCEPT !.status = "stopping"]
  /\ watch' = [watch EXCEPT !.stop = TRUE]
  /\ Goes(t, "join")
  /\ UNCHANGED apartFromStop

\* StopWatchThread: the watcher has ended; then the mutex, and the reset.
WatcherIsOver == thread[Watcher].at \in {"off", "ended"}

\* Mutant: stop does not wait for the watcher.
Joins_NoWait(t) ==
  /\ thread[t].at = "join" /\ LockIsFree
  /\ watch' = [watch EXCEPT !.enabled = FALSE, !.initialized = FALSE, !.pending = FALSE]
  /\ Goes(t, "end")
  /\ UNCHANGED <<apartFromStop, books>>

Joins(t) ==
  /\ thread[t].at = "join" /\ WatcherIsOver /\ LockIsFree
  /\ watch' = [watch EXCEPT !.enabled = FALSE, !.initialized = FALSE, !.pending = FALSE]
  /\ thread' = [thread EXCEPT ![t].at = "end", ![Watcher].at = "off"]
  /\ UNCHANGED <<apartFromStop, books>>

StopEnds(t) ==
  /\ thread[t].at = "end" /\ LockIsFree
  /\ shouldExit' = TRUE
  /\ StopProcess(books.pid)
  /\ books' = Stopped(books.reason)
  /\ RemoveRuntimeArtifacts
  /\ Rests(t)
  /\ UNCHANGED <<runs, watchVars, stopping, gone, histVars, locks, calls, asked>>

\* RunDaemonServer leaves its loop, joins the watcher once more, and returns:
\* the other threads end wherever they are.
ServerLeaves ==
  /\ shouldExit /\ ~watch.stop
  /\ watch' = [watch EXCEPT !.stop = TRUE]
  /\ UNCHANGED <<apartFromStop, thread, books>>

ServerEnds ==
  /\ shouldExit /\ watch.stop /\ WatcherIsOver /\ LockIsFree
  /\ gone' = TRUE
  /\ UNCHANGED <<loaderVars, thread, watchVars, stopping, shouldExit, histVars, books, locks,
                 calls, asked>>

-----------------------------------------------------------------------------
\* The runtime and its user

daemonVars == <<thread, watchVars, exitVars, books, locks, calls, asked>>

RuntimeStep(p) ==
  /\ Boots(p) \/ TakesCommand(p) \/ WritesResponse(p) \/ RemovesCommand(p) \/ Crashes(p)
  /\ UNCHANGED <<daemonVars, histVars>>

\* Is a reload at work, another runtime up, or the daemon stopping, which
\* removes the record?  Then the close is in a race.
InARace(p) ==
  stopping \/ Alive # {p} \/ \E t \in Threads : Replacing(t) /\ thread[t].work = "reload"

UserClosesRuntime(p) ==
  /\ UserCloses(p)
  /\ closed' = IF InARace(p) THEN "racing" ELSE "closing"
  /\ UNCHANGED <<daemonVars, overlapped, lateWatch>>

RuntimeExits(p) ==
  /\ Exits(p)
  /\ closed' = IF closed # "closing" THEN closed
               ELSE IF InARace(p) THEN "racing" ELSE "settled"
  /\ UNCHANGED <<daemonVars, overlapped, lateWatch>>

-----------------------------------------------------------------------------

Init ==
  /\ LoaderInit
  /\ books = Stopped("other") /\ lock = None /\ cmdLock = None
  /\ stopping = FALSE /\ shouldExit = FALSE /\ gone = FALSE
  /\ thread = [t \in Threads |-> IF t = Watcher THEN [AtRest(t) EXCEPT !.at = "off"]
                                 ELSE AtRest(t)]
  /\ watch = [enabled |-> FALSE, initialized |-> FALSE, pending |-> FALSE, snapshot |-> 0,
              stop |-> FALSE]
  /\ edits = 0 /\ tried = 0 /\ calls = 0 /\ asked = 0
  /\ overlapped = FALSE /\ lateWatch = FALSE /\ closed = "no"

Call(t) ==
  \/ OpenReuses(t) \/ OpenStarts(t) \/ Reload(t) \/ Eval(t) \/ BuildWatch(t) \/ Stop(t)

ThreadStep(t) ==
  \/ Looks(t) \/ Asks(t) \/ IsRefused(t) \/ IsAnswered(t) \/ GivesUp(t) \/ Records(t)
  \/ KillsOld(t) \/ CannotStart(t) \/ Spawns(t) \/ Settles(t) \/ Merges(t)
  \/ Marks(t) \/ Joins(t) \/ StopEnds(t)

WatchStep == WatchCaptures \/ WatchSeesChange \/ WatchBuilds \/ BuildEnds \/ WatchEnds
ServerStep == ServerLeaves \/ ServerEnds

\* What happens once the daemon has ended is left out.
Next ==
  /\ ~gone
  /\ \/ \E t \in Threads : Call(t) \/ ThreadStep(t)
     \/ Status \/ WatchStep \/ ServerStep
     \/ Edit
     \/ \E p \in Pids : RuntimeStep(p) \/ UserClosesRuntime(p) \/ RuntimeExits(p)

\* The threads of the daemon are scheduled; nothing is asked of the runtime,
\* of the user or of the clients.
Fairness ==
  /\ \A t \in Threads : WF_vars(~gone /\ ThreadStep(t))
  /\ WF_vars(~gone /\ WatchStep)
  /\ WF_vars(~gone /\ ServerStep)

Spec == Init /\ [][Next]_vars /\ Fairness

-----------------------------------------------------------------------------
\* Properties

\* As long as no two threads replace the runtime at a time, no runtime gets
\* lost: there is one at most, and it is in the books or in the copy of the
\* thread that replaces it.
OneRuntimeIsKnown ==
  ~overlapped =>
    \A p \in Alive :
      \/ books.pid = p
      \/ \E t \in Threads : Replacing(t) /\ thread[t].copy.pid = p

\* A daemon that was stopped has left no runtime behind, even if the watcher
\* was in the middle of starting one.
StopLeavesNothing == gone /\ ~overlapped /\ ~lateWatch => Alive = {}

\* A command is run once at most: not again by the runtime that is started
\* because the command took the last one down, nor after a late answer.
CommandRunsOnce == ~overlapped => \A i \in Ids : runs[i] <= 1

\* "If the user closes the runtime window manually, treat the project as
\* stopped": no reload, asked for or made by the watcher, starts it again.
SettledCloseIsKept ==
  [][closed = "settled" => \A p \in Pids :
       proc[p] = "unborn" /\ proc'[p] # "unborn" =>
         \E t \in Threads : thread[t].work = "open" /\ thread[t].at = "spawn"]_vars

\* The same of a close that a reload is in a race with.
CloseIsKept ==
  [][closed # "no" => \A p \in Pids :
       proc[p] = "unborn" /\ proc'[p] # "unborn" =>
         \E t \in Threads : thread[t].work = "open" /\ thread[t].at = "spawn"]_vars

\* A request is answered, or the daemon ends, which drops it.
EveryRequestEnds ==
  \A t \in Clients : thread[t].at # "idle" ~> thread[t].at = "idle" \/ gone \/ lateWatch

\* A change the watcher can see is built, unless watching is called off.
SeenEditIsBuilt == (Watching /\ watch.snapshot # edits) ~> (tried = edits \/ ~Watching)
=============================================================================
