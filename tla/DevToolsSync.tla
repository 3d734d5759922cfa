---------------------------- MODULE DevToolsSync ----------------------------
(***************************************************************************)
(* RunDevToolsOnMainThreadSync (core/api/mblink.cpp) between the HTTP MCP  *)
(* server's thread and the main thread: the server's thread posts a        *)
(* closure that points into its own stack, and polls until the closure has *)
(* run or the wait is called off.  The wait is called off by the server's  *)
(* Stop, which joins the thread, and by shutdownRequested, which           *)
(* mblink_stop sets from any thread and the window's close handler sets,   *)
(* also when a script run by the task itself closes the window.            *)
(***************************************************************************)
EXTENDS MainThreadQueue

CONSTANTS
  Stoppers,    \* the threads that may stop the server: subset of {"main", "other"}
  ShutdownBy   \* who may set shutdownRequested: subset of {"thread", "task"}

ASSUME StoppersAreKnown == Stoppers \subseteq {"main", "other"}
ASSUME ShutdownIsKnown == ShutdownBy \subseteq {"thread", "task"}

Calls == Fns
NoCall == NoFn

VARIABLES
  stopper,    \* the thread that stops the server, the program's choice
  http,       \* where the server's thread stands
  call,       \* the call it waits for
  running,    \* running_
  stop,       \* where StopServer stands, in the thread that runs it
  cancelled,  \* *devtoolsSyncCancelled
  shutdown,   \* *shutdownRequested
  cancel,     \* cancel[c]: pending->cancel
  done,       \* done[c]: *done
  stage,      \* stage[c]: "new", "posted", "running", "skipped" or "ran"
  result      \* result[c]: what the waiting thread got

flags == <<cancelled, shutdown>>
server == <<running, stop>>
syncSteps == <<mtqVars, http, call, flags, server, cancel, done, stage, result>>
syncVars == <<stopper, syncSteps>>

SyncTypeOK ==
  /\ stopper \in Stoppers
  /\ QueueTypeOK
  /\ http \in {"off", "serving", "handling", "waiting", "notDone", "exited"}
  /\ call \in Calls \cup {NoCall}
  /\ running \in BOOLEAN /\ cancelled \in BOOLEAN /\ shutdown \in BOOLEAN
  /\ stop \in {"none", "stopping", "join", "joined"}
  /\ cancel \in [Calls -> BOOLEAN] /\ done \in [Calls -> BOOLEAN]
  /\ stage \in [Calls -> {"new", "posted", "running", "skipped", "ran"}]
  /\ result \in [Calls -> {"none", "ok", "invalid_handle"}]
  /\ http \in {"waiting", "notDone"} <=> call # NoCall
  /\ \A c \in Calls : stage[c] = "posted" <=> c \in Waiting

SyncInit ==
  /\ stopper \in Stoppers
  /\ QueueInit
  /\ http = "off" /\ call = NoCall
  /\ running = FALSE /\ stop = "none"
  /\ cancelled = FALSE /\ shutdown = FALSE
  /\ cancel = [c \in Calls |-> FALSE]
  /\ done = [c \in Calls |-> FALSE]
  /\ stage = [c \in Calls |-> "new"]
  /\ result = [c \in Calls |-> "none"]

\* The main thread is in its loop: not in a task, not in StopServer.
MainIsFree == ~Flushing /\ (stopper = "main" => stop = "none")

-----------------------------------------------------------------------------
(* The server: Start, StopServer, its thread *)

StartServer ==
  /\ MainIsFree /\ stop = "none"
  /\ ~running /\ http = "off"
  /\ cancelled' = FALSE
  /\ running' = TRUE
  /\ http' = "serving"
  /\ UNCHANGED <<mtqVars, call, shutdown, stop, cancel, done, stage, result>>

\* Under the server's mutex; the sockets are closed after it.
StopBegins ==
  /\ stop = "none" /\ running
  /\ stopper = "main" => MainIsFree
  /\ running' = FALSE
  /\ stop' = "stopping"
  /\ UNCHANGED <<mtqVars, http, call, flags, cancel, done, stage, result>>

CallOff ==
  /\ stop = "stopping"
  /\ cancelled' = TRUE
  /\ stop' = "join"
  /\ UNCHANGED <<mtqVars, http, call, running, shutdown, cancel, done, stage, result>>

Join ==
  /\ stop = "join" /\ http = "exited"
  /\ stop' = "joined"
  /\ UNCHANGED <<mtqVars, http, call, running, flags, cancel, done, stage, result>>

ServerStopped ==
  /\ stop = "joined"
  /\ cancelled' = FALSE
  /\ stop' = "none"
  /\ http' = "off"
  /\ UNCHANGED <<mtqVars, call, running, shutdown, cancel, done, stage, result>>

\* The thread goes on with a request it has accepted when the server is stopped.
Accept ==
  /\ http = "serving" /\ running
  /\ http' = "handling"
  /\ UNCHANGED <<mtqVars, call, flags, server, cancel, done, stage, result>>

\* The client was cut off: there is no request.
Disconnected ==
  /\ http = "handling"
  /\ http' = "serving"
  /\ UNCHANGED <<mtqVars, call, flags, server, cancel, done, stage, result>>

\* A request is answered with an error when the host is shutting down, and is
\* otherwise posted to the main thread.
RequestComes(c) ==
  /\ http = "handling"
  /\ stage[c] = "new" /\ result[c] = "none"
  /\ \/ /\ shutdown
        /\ result' = [result EXCEPT ![c] = "invalid_handle"]
        /\ http' = "serving"
        /\ UNCHANGED <<mtqVars, call, stage>>
     \/ /\ ~shutdown
        /\ PostFn(c)
        /\ stage' = [stage EXCEPT ![c] = "posted"]
        /\ http' = "waiting"
        /\ call' = c
        /\ UNCHANGED result
  /\ UNCHANGED <<flags, server, cancel, done>>

ServeLoopEnds ==
  /\ http = "serving" /\ ~running
  /\ http' = "exited"
  /\ UNCHANGED <<mtqVars, call, flags, server, cancel, done, stage, result>>

SeesDone ==
  /\ http = "waiting"
  /\ \/ /\ done[call]
        /\ result' = [result EXCEPT ![call] = "ok"]
        /\ http' = "serving"
        /\ call' = NoCall
     \/ /\ ~done[call]
        /\ http' = "notDone"
        /\ UNCHANGED <<result, call>>
  /\ UNCHANGED <<mtqVars, flags, server, cancel, done, stage>>

\* Mutant: a shutdown does not call the wait off.
KeepsWaiting_Blind ==
  /\ http = "notDone"
  /\ ~cancelled
  /\ http' = "waiting"
  /\ UNCHANGED <<mtqVars, call, flags, server, cancel, done, stage, result>>

KeepsWaiting ==
  /\ http = "notDone"
  /\ ~cancelled /\ ~shutdown
  /\ http' = "waiting"
  /\ UNCHANGED <<mtqVars, call, flags, server, cancel, done, stage, result>>

\* Mutant: the closure is not told.
WaitGivesUp_KeepTask ==
  /\ http = "notDone"
  /\ cancelled \/ shutdown
  /\ result' = [result EXCEPT ![call] = "invalid_handle"]
  /\ http' = "serving"
  /\ call' = NoCall
  /\ UNCHANGED <<mtqVars, flags, server, cancel, done, stage>>

\* The thread leaves the frame the closure points into.
WaitGivesUp ==
  /\ http = "notDone"
  /\ cancelled \/ shutdown
  /\ cancel' = [cancel EXCEPT ![call] = TRUE]
  /\ result' = [result EXCEPT ![call] = "invalid_handle"]
  /\ http' = "serving"
  /\ call' = NoCall
  /\ UNCHANGED <<mtqVars, flags, server, done, stage>>

-----------------------------------------------------------------------------
(* The main thread: the closure *)

MainFlushes ==
  /\ stopper = "main" => stop = "none"
  /\ Flushing => Top.fn # NoFn /\ stage[Top.fn] = "running"
  /\ FlushTakes
  /\ UNCHANGED <<http, call, flags, server, cancel, done, stage, result>>

MainFlushEnds ==
  /\ FlushEnds
  /\ UNCHANGED <<http, call, flags, server, cancel, done, stage, result>>

\* The closure decides once whether the task still runs.
ClosureStarts(c) ==
  /\ Starts(c)
  /\ stage' = [stage EXCEPT ![c] = IF cancel[c] \/ cancelled THEN "skipped" ELSE "running"]
  /\ UNCHANGED <<http, call, flags, server, cancel, done, result>>

\* A script the task evaluates closes the window.
TaskCloses(c) ==
  /\ "task" \in ShutdownBy
  /\ Flushing /\ Top.fn = c /\ stage[c] = "running"
  /\ shutdown' = TRUE
  /\ UNCHANGED <<mtqVars, http, call, cancelled, server, cancel, done, stage, result>>

TaskReturns(c) ==
  /\ Flushing /\ Top.fn = c /\ stage[c] = "running"
  /\ stage' = [stage EXCEPT ![c] = "ran"]
  /\ UNCHANGED <<mtqVars, http, call, flags, server, cancel, done, result>>

ClosureEnds(c) ==
  /\ stage[c] \in {"ran", "skipped"}
  /\ Returns(c)
  /\ done' = [done EXCEPT ![c] = TRUE]
  /\ UNCHANGED <<http, call, flags, server, cancel, stage, result>>

\* mblink_stop, from any thread.
ShutdownAsked ==
  /\ "thread" \in ShutdownBy
  /\ shutdown' = TRUE
  /\ UNCHANGED <<mtqVars, http, call, cancelled, server, cancel, done, stage, result>>

-----------------------------------------------------------------------------
StopServer == StopBegins \/ CallOff \/ Join \/ ServerStopped

HttpStep == Accept \/ Disconnected \/ (\E c \in Calls : RequestComes(c)) \/ ServeLoopEnds \/ SeesDone \/ KeepsWaiting \/ WaitGivesUp

ClosureStep == \E c \in Calls : ClosureStarts(c) \/ TaskReturns(c) \/ ClosureEnds(c)

MainStep == MainFlushes \/ MainFlushEnds \/ ClosureStep

SyncStep == StartServer \/ StopServer \/ HttpStep \/ MainStep \/ (\E c \in Calls : TaskCloses(c)) \/ ShutdownAsked

SyncNext == SyncStep /\ UNCHANGED stopper

\* Threads are scheduled, tasks return (strong fairness: one that takes snapshots
\* does not take them for ever), a client that sends nothing times out, and the
\* main thread's loop flushes again and again until it is told to quit.  Nobody
\* is obliged to send a request or to stop the server.
SyncFairness ==
  /\ WF_syncSteps(SeesDone \/ KeepsWaiting \/ WaitGivesUp)
  /\ WF_syncSteps(ServeLoopEnds) /\ WF_syncSteps(Disconnected)
  /\ WF_syncSteps(ClosureStep) /\ WF_syncSteps(MainFlushEnds)
  /\ \A c \in Calls : SF_syncSteps(TaskReturns(c))
  /\ WF_syncSteps(~Flushing /\ ~shutdown /\ MainFlushes)
  /\ WF_syncSteps(CallOff \/ Join \/ ServerStopped)

SyncSpec == SyncInit /\ [][SyncNext]_syncVars /\ SyncFairness

-----------------------------------------------------------------------------
(* Properties *)

\* A task runs while the thread that asked for it still waits, for it works in
\* that thread's stack frame (mblink.cpp 464-500, devtools_entry.cpp 894-927).
TaskRunsInItsCall ==
  \A c \in Calls : stage[c] = "running" => call = c

\* So it is as long as only the main thread, which runs the tasks, stops the
\* server, and nobody has asked the host to shut down; and then, shut down or
\* not, the caller who is told MBLINK_OK has had its task run (mblink.cpp
\* 480-503).
TaskRunsUnlessCalledOff ==
  stopper = "main" =>
    /\ ~shutdown => TaskRunsInItsCall
    /\ \A c \in Calls : result[c] = "ok" => stage[c] = "ran"

\* No request waits for ever: the task runs, or the wait is called off, also
\* when the main thread has left its loop (mblink.cpp 484-502).
RequestIsAnswered == \A c \in Calls : [](call = c => <>(call # c))

=============================================================================
