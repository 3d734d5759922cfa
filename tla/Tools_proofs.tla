---------------------------- MODULE Tools_proofs ----------------------------
(***************************************************************************)
(* Proofs about the two sides of the developer's tools.                    *)
(*                                                                         *)
(* The ui-dev daemon, for any number of clients, requests, edits and       *)
(* processes.  DaemonInv says which thread may replace the runtime and     *)
(* what it knows of it, what stop has waited for, which command the file   *)
(* can still hold, and what is left of a runtime whose user has closed it. *)
(*                                                                         *)
(* The calls of the runtime's MCP server to the main thread, for any       *)
(* number of requests.  SyncInv says where a closure waits, that its stack *)
(* frame is there while it runs, and why a call that was given up is       *)
(* skipped.  The components share no variable; the second half of this     *)
(* module is about DevToolsSync only.                                      *)
(***************************************************************************)
EXTENDS UiDevDaemon, DevToolsSync, SequenceTheorems, TLAPS

Books == [pid : Nat, status : {"running", "stopped", "stopping"},
          reason : {"other", "user_closed"}]
Reloads == {"refresh", "ask", "await", "record", "kill", "spawn", "settle", "merge"}
Places == Reloads \cup {"idle", "mark", "join", "end", "off", "poll", "build", "ended"}
Works == {"none", "eval", "open", "stop", "reload"}
ThreadState == [at : Places, work : Works, copy : Books, id : Nat \cup {None}]
Procs == {"unborn", "booting", "idle", "busy", "answered", "closing", "dead"}

DaemonTypeOK ==
  /\ proc \in [Pids -> Procs]
  /\ lifecycle \in {None, Up, UserClosed}
  /\ asked \in Nat
  /\ command \in Nat \cup {None}
  /\ runs \in [Ids -> Nat]
  /\ stopping \in BOOLEAN /\ shouldExit \in BOOLEAN /\ gone \in BOOLEAN
  /\ overlapped \in BOOLEAN /\ lateWatch \in BOOLEAN
  /\ books \in Books
  /\ thread \in [Threads -> ThreadState]

\* Where a thread can stand in what it was asked to do.
ThreadsInStage ==
  /\ \A c \in Clients :
       \/ thread[c].work = "none" /\ thread[c].at = "idle"
       \/ thread[c].work = "eval" /\ thread[c].at \in {"ask", "await"}
       \/ thread[c].work = "open" /\ thread[c].at \in {"kill", "spawn", "settle"}
       \/ thread[c].work = "stop" /\ thread[c].at \in {"mark", "join", "end"}
       \/ thread[c].work = "reload" /\ thread[c].at \in Reloads
  /\ thread[Watcher].work = "reload"
  /\ thread[Watcher].at \in Reloads \cup {"off", "poll", "build", "ended"}

\* stop sets its flag first, and goes on only when the watcher is over; nothing
\* but a late build --watch brings the watcher back.
StopIsOrdered ==
  /\ \A t \in Threads : thread[t].at \in {"mark", "join", "end"} => stopping
  /\ shouldExit => stopping
  /\ gone => shouldExit
  /\ ~lateWatch => /\ shouldExit => thread[Watcher].at = "off"
                   /\ \A t \in Threads : thread[t].at = "end" => thread[Watcher].at = "off"

\* What overlapped has not seen: two that replace the runtime, or a client that
\* does while the daemon is stopping.
OneReplaces ==
  ~overlapped =>
    /\ \A t, u \in Threads : Replacing(t) /\ Replacing(u) => t = u
    /\ stopping => \A c \in Clients : ~Replacing(c)

\* The only runtime there can be is the one in the copy of the thread that
\* replaces it, and in the books when nobody does.
RuntimeIsKnown ==
  ~overlapped =>
    /\ \A t \in Threads : Replacing(t) =>
         /\ Alive \subseteq {thread[t].copy.pid}
         /\ thread[t].at = "spawn" => Alive = {}
    /\ (\A t \in Threads : ~Replacing(t)) => Alive \subseteq {books.pid}

NothingIsLeft == shouldExit /\ ~overlapped /\ ~lateWatch => Alive = {}

\* A command that has been run is gone before a runtime looks for one again.
CommandIsFresh ==
  /\ command # None => command <= asked
  /\ \A i \in Ids : i > asked => runs[i] = 0
  /\ ~overlapped => \A p \in Pids : proc[p] \in {"booting", "idle"} =>
                      \A i \in Ids : command = i => runs[i] = 0
  /\ CommandRunsOnce

\* A close that no reload is in a race with: the record of it stays until the
\* process is gone, and no reload gets past its first look after that.
CloseStaysSettled ==
  /\ closed = "closing" =>
       /\ ~stopping /\ lifecycle = UserClosed
       /\ \A p \in Alive : proc[p] = "closing"
       /\ \A t \in Threads : thread[t].work = "reload" =>
            /\ thread[t].at # "record"
            /\ thread[t].at = "await" => response = None \/ response.id # thread[t].id
  /\ closed = "settled" =>
       /\ ~stopping /\ lifecycle = UserClosed
       /\ Alive = {}
       /\ \A t \in Threads : thread[t].work = "reload" =>
            thread[t].at \notin {"ask", "await", "record", "kill", "spawn", "settle"}

DaemonInv ==
  /\ DaemonTypeOK
  /\ ThreadsInStage
  /\ StopIsOrdered
  /\ OneReplaces
  /\ RuntimeIsKnown
  /\ NothingIsLeft
  /\ CommandIsFresh
  /\ CloseStaysSettled

-----------------------------------------------------------------------------
(* Types *)

LEMMA PidFacts == Pids \subseteq Nat /\ 0 \notin Pids /\ 0 \notin Alive /\ Alive \subseteq Pids
  BY BoundOnStarts DEF Pids, Alive

LEMMA RefreshFacts ==
  ASSUME DaemonTypeOK, NEW b \in Books
  PROVE  /\ Refresh(b) \in Books
         /\ IsProcessRunning(b.pid) => Refresh(b).pid = b.pid /\ Refresh(b).status = "running"
         /\ ~IsProcessRunning(b.pid) => Refresh(b).pid = 0
         /\ lifecycle = UserClosed /\ ~IsProcessRunning(b.pid) => RuntimeWasUserClosed(Refresh(b))
<1> DEFINE told == IF lifecycle = None THEN b
                   ELSE [b EXCEPT !.status = lifecycle.status, !.reason = lifecycle.reason]
<1>1. told \in Books /\ told.pid = b.pid
  <2>1. CASE lifecycle = None
    BY <2>1
  <2>2. CASE lifecycle # None
    <3>1. /\ lifecycle.status \in {"running", "stopped"}
          /\ lifecycle.reason \in {"other", "user_closed"}
      BY <2>2 DEF DaemonTypeOK, Up, UserClosed
    <3> QED
      BY <2>2, <3>1 DEF Books
  <2> QED
    BY <2>1, <2>2
<1>2. lifecycle = UserClosed => told.status = "stopped" /\ told.reason = "user_closed"
  BY NoneIsNoLifecycle DEF UserClosed, Books
<1>3. Refresh(b) = IF IsProcessRunning(b.pid) THEN [told EXCEPT !.status = "running"]
                   ELSE [told EXCEPT !.pid = 0,
                                     !.status = IF @ = "running" THEN "stopped" ELSE @]
  BY DEF Refresh
<1> HIDE DEF told
<1>4. CASE IsProcessRunning(b.pid)
  BY <1>1, <1>3, <1>4 DEF Books
<1>5. CASE ~IsProcessRunning(b.pid)
  <2> DEFINE st == IF told.status = "running" THEN "stopped" ELSE told.status
  <2>1. Refresh(b) = [told EXCEPT !.pid = 0, !.status = st]
    BY <1>3, <1>5
  <2>2. st \in {"running", "stopped", "stopping"} /\ (told.status = "stopped" => st = "stopped")
    BY <1>1 DEF Books
  <2> HIDE DEF st
  <2>3. Refresh(b) = [pid |-> 0, status |-> st, reason |-> told.reason]
    BY <1>1, <2>1 DEF Books
  <2>4. /\ Refresh(b) \in Books /\ Refresh(b).pid = 0 /\ Refresh(b).status = st
        /\ Refresh(b).reason = told.reason
    BY <1>1, <2>2, <2>3 DEF Books
  <2> QED
    BY <1>2, <1>5, <2>2, <2>4 DEF RuntimeWasUserClosed
<1> QED
  BY <1>4, <1>5

LEMMA BookTypes ==
  /\ \A reason \in {"other", "user_closed"} : Stopped(reason) \in Books /\ Stopped(reason).pid = 0
  /\ \A p \in Nat : Started(p) \in Books /\ Started(p).pid = p
  BY DEF Stopped, Started, Books

\* A thread goes from one place to another.
LEMMA GoesFacts ==
  ASSUME DaemonTypeOK, NEW t \in Threads, NEW a \in Places, NEW b \in Books,
         Goes(t, a) \/ GoesWith(t, a, b)
  PROVE  /\ thread' \in [Threads -> ThreadState]
         /\ thread'[t].at = a /\ thread'[t].work = thread[t].work /\ thread'[t].id = thread[t].id
         /\ Goes(t, a) => thread'[t].copy = thread[t].copy
         /\ GoesWith(t, a, b) => thread'[t].copy = b
         /\ \A u \in Threads \ {t} : thread'[u] = thread[u]
  BY DEF DaemonTypeOK, ThreadState, Goes, GoesWith

LEMMA RestsFacts ==
  ASSUME DaemonTypeOK, NEW t \in Threads, Rests(t)
  PROVE  /\ thread' \in [Threads -> ThreadState]
         /\ thread'[t].at = (IF t = Watcher THEN "poll" ELSE "idle")
         /\ thread'[t].work = (IF t = Watcher THEN "reload" ELSE "none")
         /\ \A u \in Threads \ {t} : thread'[u] = thread[u]
  BY BookTypes DEF DaemonTypeOK, ThreadState, Places, Works, Rests, AtRest

LEMMA RequestFacts ==
  ASSUME DaemonTypeOK, NEW t \in Threads, NEW w \in Works, NEW a \in Places, NEW b \in Books,
         Request(t, w, a, b)
  PROVE  /\ t \in Clients /\ t # Watcher /\ thread[t].at = "idle"
         /\ thread' \in [Threads -> ThreadState]
         /\ thread'[t].at = a /\ thread'[t].work = w /\ thread'[t].copy = b
         /\ thread'[t].id = thread[t].id
         /\ \A u \in Threads \ {t} : thread'[u] = thread[u]
  BY WatcherIsNoClient DEF DaemonTypeOK, ThreadState, Request

LEMMA DaemonInitInv == Init => DaemonInv
<1> SUFFICES ASSUME Init PROVE DaemonInv
  OBVIOUS
<1> USE DEF Init, LoaderInit
<1>1. \A t \in Threads : AtRest(t) \in ThreadState /\ [AtRest(t) EXCEPT !.at = "off"] \in ThreadState
  BY BookTypes DEF AtRest, ThreadState, Places, Works
<1>2. DaemonTypeOK
  BY <1>1, BookTypes DEF DaemonTypeOK, Procs
<1>3. /\ \A c \in Clients : thread[c].at = "idle" /\ thread[c].work = "none"
      /\ thread[Watcher].at = "off" /\ thread[Watcher].work = "reload"
  BY <1>1, WatcherIsNoClient DEF Threads, AtRest, ThreadState
<1>4. Alive = {} /\ \A t \in Threads : ~Replacing(t)
  BY <1>3 DEF Alive, IsProcessRunning, Replacing, Threads
<1>5. ThreadsInStage /\ StopIsOrdered /\ OneReplaces /\ RuntimeIsKnown /\ NothingIsLeft
  BY <1>3, <1>4 DEF ThreadsInStage, StopIsOrdered, OneReplaces, RuntimeIsKnown, NothingIsLeft,
                    Threads
<1>6. CommandIsFresh /\ CloseStaysSettled
  BY IdsAreNumbers DEF CommandIsFresh, CommandRunsOnce, CloseStaysSettled
<1> QED
  BY <1>2, <1>5, <1>6 DEF DaemonInv

-----------------------------------------------------------------------------
(* The runtime and its user *)

\* A process that is up does something, or goes.
LEMMA ProcFacts ==
  ASSUME DaemonTypeOK, NEW p \in Pids, NEW x \in Procs \ {"unborn"}, IsProcessRunning(p),
         proc' = [proc EXCEPT ![p] = x]
  PROVE  /\ proc' \in [Pids -> Procs]
         /\ Alive' = IF x = "dead" THEN Alive \ {p} ELSE Alive
         /\ p \in Alive
         /\ proc'[p] = x /\ \A q \in Pids \ {p} : proc'[q] = proc[q]
  BY DEF DaemonTypeOK, Alive, IsProcessRunning, Procs

\* What only the daemon's threads decide, when no thread moves.
LEMMA ThreadsRest ==
  ASSUME DaemonInv, UNCHANGED <<daemonVars, overlapped, lateWatch>>, Alive' \subseteq Alive
  PROVE  ThreadsInStage' /\ StopIsOrdered' /\ OneReplaces' /\ RuntimeIsKnown' /\ NothingIsLeft'
<1> USE DEF daemonVars, exitVars
<1>1. \A t \in Threads : Replacing(t)' <=> Replacing(t)
  BY DEF Replacing
<1>2. ThreadsInStage' /\ StopIsOrdered'
  BY DEF DaemonInv, ThreadsInStage, StopIsOrdered
<1>3. OneReplaces' /\ RuntimeIsKnown' /\ NothingIsLeft'
  BY <1>1, WatcherIsNoClient
     DEF DaemonInv, OneReplaces, RuntimeIsKnown, NothingIsLeft, Threads
<1> QED
  BY <1>2, <1>3

\* At most one process is up while no two threads replace the runtime.
LEMMA OneAlive ==
  ASSUME DaemonInv, ~overlapped, NEW p \in Alive, NEW q \in Alive
  PROVE  p = q
  BY DEF DaemonInv, RuntimeIsKnown

LEMMA RuntimeStepInv ==
  ASSUME DaemonInv, NEW p \in Pids, RuntimeStep(p) PROVE DaemonInv'
<1>0. /\ UNCHANGED <<daemonVars, histVars>> /\ DaemonTypeOK
      /\ asked' = asked /\ thread' = thread /\ stopping' = stopping
      /\ overlapped' = overlapped /\ closed' = closed
  BY DEF RuntimeStep, daemonVars, exitVars, histVars, DaemonInv
<1>1. \E x \in Procs \ {"unborn"} :
        /\ proc' = [proc EXCEPT ![p] = x] /\ IsProcessRunning(p)
        /\ \/ x = "idle" /\ proc[p] = "booting" /\ lifecycle' = Up
              /\ UNCHANGED <<command, response, runs>>
           \/ x = "busy" /\ proc[p] = "idle" /\ command # None
              /\ runs' = [runs EXCEPT ![command] = @ + 1]
              /\ UNCHANGED <<lifecycle, command, response>>
           \/ x = "answered" /\ proc[p] = "busy" /\ UNCHANGED <<lifecycle, command, runs>>
           \/ x = "idle" /\ proc[p] = "answered" /\ command' = None
              /\ UNCHANGED <<lifecycle, response, runs>>
           \/ x = "dead" /\ UNCHANGED <<lifecycle, command, response, runs>>
  BY DEF RuntimeStep, Boots, TakesCommand, WritesResponse, RemovesCommand, Crashes,
         Working, IsProcessRunning, Procs
<1>2. /\ proc' \in [Pids -> Procs] /\ Alive' \subseteq Alive /\ p \in Alive
      /\ \A q \in Pids \ {p} : proc'[q] = proc[q]
  BY <1>0, <1>1, ProcFacts
<1>3. ThreadsInStage' /\ StopIsOrdered' /\ OneReplaces' /\ RuntimeIsKnown' /\ NothingIsLeft'
  BY <1>0, <1>2, ThreadsRest DEF histVars
<1>4. DaemonTypeOK'
  BY <1>0, <1>1, <1>2 DEF DaemonTypeOK, daemonVars, exitVars, histVars
<1>5. CommandIsFresh'
  <2>1. CASE runs' = runs /\ (command' = command \/ command' = None)
    <3>1. \A q \in Pids : proc'[q] \in {"booting", "idle"} =>
            proc[q] \in {"booting", "idle"} \/ command' = None
      BY <1>1, <1>2, <2>1 DEF DaemonTypeOK
    <3> QED
      BY <1>0, <2>1, <3>1, IdsAreNumbers DEF DaemonInv, CommandIsFresh, CommandRunsOnce
  <2>2. CASE /\ proc[p] = "idle" /\ proc'[p] = "busy" /\ command' = command /\ command # None
             /\ runs' = [runs EXCEPT ![command] = @ + 1]
    <3>1. \A i \in Ids : /\ runs[i] \in Nat
                         /\ runs'[i] = IF i = command THEN runs[i] + 1 ELSE runs[i]
      BY <1>0, <2>2 DEF DaemonTypeOK
    <3>2. \A i \in Ids : i > asked' => runs'[i] = 0
      BY <1>0, <2>2, <3>1, IdsAreNumbers DEF DaemonInv, CommandIsFresh, DaemonTypeOK
    <3>3. ~overlapped => \A q \in Pids : proc'[q] \notin {"booting", "idle"}
      <4> SUFFICES ASSUME ~overlapped, NEW q \in Pids, proc'[q] \in {"booting", "idle"}
                   PROVE  FALSE
        OBVIOUS
      <4>1. q # p /\ q \in Alive
        BY <1>2, <2>2 DEF Alive, IsProcessRunning
      <4> QED
        BY <1>2, <4>1, OneAlive
    <3>4. CommandRunsOnce'
      BY <1>0, <2>2, <3>1 DEF DaemonInv, CommandIsFresh, CommandRunsOnce
    <3> QED
      BY <1>0, <2>2, <3>2, <3>3, <3>4 DEF DaemonInv, CommandIsFresh
  <2> QED
    BY <1>0, <1>1, <2>1, <2>2 DEF DaemonTypeOK
<1>6. CloseStaysSettled'
  <2>1. CASE closed = "closing"
    <3>1. proc[p] = "closing"
      BY <1>2, <2>1 DEF DaemonInv, CloseStaysSettled
    <3>2. proc'[p] = "dead" /\ UNCHANGED <<lifecycle, response>>
      BY <1>1, <1>2, <3>1 DEF DaemonInv, DaemonTypeOK
    <3>3. \A q \in Alive' : proc'[q] = "closing"
      BY <1>2, <2>1, <3>2 DEF DaemonInv, CloseStaysSettled, Alive, IsProcessRunning
    <3> QED
      BY <1>0, <2>1, <3>2, <3>3 DEF DaemonInv, CloseStaysSettled
  <2>2. closed # "settled"
    BY <1>2 DEF DaemonInv, CloseStaysSettled
  <2> QED
    BY <1>0, <2>1, <2>2 DEF CloseStaysSettled
<1> QED
  BY <1>3, <1>4, <1>5, <1>6 DEF DaemonInv

LEMMA UserStepInv ==
  ASSUME DaemonInv, NEW p \in Pids, UserClosesRuntime(p) \/ RuntimeExits(p) PROVE DaemonInv'
<1>0. /\ UNCHANGED <<daemonVars, overlapped, lateWatch>> /\ DaemonTypeOK
      /\ asked' = asked /\ thread' = thread /\ stopping' = stopping
      /\ UNCHANGED <<command, response, runs>>
  BY DEF UserClosesRuntime, RuntimeExits, UserCloses, Exits, daemonVars, exitVars, DaemonInv
<1>1. \/ /\ UserClosesRuntime(p) /\ ~RuntimeExits(p)
         /\ proc[p] = "idle" /\ proc' = [proc EXCEPT ![p] = "closing"]
         /\ lifecycle' = UserClosed
      \/ /\ RuntimeExits(p) /\ ~UserClosesRuntime(p)
         /\ proc[p] = "closing" /\ proc' = [proc EXCEPT ![p] = "dead"]
         /\ lifecycle' = lifecycle
  BY DEF UserClosesRuntime, RuntimeExits, UserCloses, Exits
<1>2. /\ proc' \in [Pids -> Procs] /\ Alive' \subseteq Alive /\ p \in Alive
      /\ \A q \in Pids \ {p} : proc'[q] = proc[q]
      /\ proc'[p] \notin {"booting", "idle"}
      /\ proc'[p] = IF UserClosesRuntime(p) THEN "closing" ELSE "dead"
      /\ RuntimeExits(p) => p \notin Alive'
  BY <1>0, <1>1, ProcFacts DEF Procs, IsProcessRunning, DaemonTypeOK
<1>3. ThreadsInStage' /\ StopIsOrdered' /\ OneReplaces' /\ RuntimeIsKnown' /\ NothingIsLeft'
  BY <1>0, <1>2, ThreadsRest
<1>4. DaemonTypeOK'
  BY <1>0, <1>1, <1>2 DEF DaemonTypeOK, daemonVars, exitVars
<1>5. CommandIsFresh'
  BY <1>0, <1>2 DEF DaemonInv, CommandIsFresh, CommandRunsOnce
<1>6. CloseStaysSettled'
  <2>0. ~InARace(p) => /\ ~stopping /\ Alive = {p}
                       /\ \A t \in Threads : thread[t].work = "reload" => ~Replacing(t)
    BY DEF InARace
  <2>1. \A t \in Threads : thread[t].work = "reload" /\ ~Replacing(t) => thread[t].at \notin Reloads
    BY DEF Replacing, Reloads
  <2>2. CASE UserClosesRuntime(p)
    <3>1. lifecycle' = UserClosed /\ proc'[p] = "closing"
      BY <1>1, <1>2, <2>2
    <3>2. closed' = "racing" \/ (closed' = "closing" /\ ~InARace(p))
      BY <2>2 DEF UserClosesRuntime
    <3> QED
      BY <1>0, <1>2, <2>0, <2>1, <3>1, <3>2 DEF CloseStaysSettled, Reloads
  <2>3. CASE RuntimeExits(p)
    <3>1. lifecycle' = lifecycle
      BY <1>1, <2>3, <1>2
    <3>2. \/ closed' = closed /\ closed # "closing"
          \/ closed' = "racing"
          \/ closed = "closing" /\ closed' = "settled" /\ ~InARace(p)
      BY <2>3 DEF RuntimeExits
    <3>3. closed # "settled"
      BY <1>2 DEF DaemonInv, CloseStaysSettled
    <3> QED
      BY <1>0, <1>2, <2>0, <2>1, <2>3, <3>1, <3>2, <3>3
         DEF DaemonInv, CloseStaysSettled, Reloads
  <2> QED
    BY <2>2, <2>3, <1>1
<1> QED
  BY <1>3, <1>4, <1>5, <1>6 DEF DaemonInv

-----------------------------------------------------------------------------
(* The threads of the daemon *)

LEMMA LoaderRests ==
  ASSUME DaemonInv, UNCHANGED <<loaderVars, asked>>, overlapped => overlapped',
         overlapped' \in BOOLEAN
  PROVE  Alive' = Alive /\ CommandIsFresh'
<1> USE DEF loaderVars
<1>1. Alive' = Alive
  BY DEF Alive, IsProcessRunning
<1>2. CommandIsFresh'
  BY DEF DaemonInv, DaemonTypeOK, CommandIsFresh, CommandRunsOnce
<1> QED
  BY <1>1, <1>2

\* Refreshing the books forgets no runtime that is up.
LEMMA RefreshKeeps ==
  ASSUME DaemonTypeOK, NEW b \in Books, Alive \subseteq {b.pid}
  PROVE  Alive \subseteq {Refresh(b).pid}
  BY RefreshFacts, PidFacts DEF Alive

\* Only the books, the watch or the end of the daemon.
LEMMA QuietInv ==
  ASSUME DaemonInv,
         \/ Status \/ Edit \/ WatchCaptures \/ WatchSeesChange \/ ServerLeaves \/ ServerEnds
         \/ \E t \in Threads : OpenReuses(t)
         \/ UNCHANGED vars
  PROVE  DaemonInv'
<1>0. /\ UNCHANGED <<loaderVars, thread, asked, stopping, shouldExit, overlapped, lateWatch>>
      /\ closed' = closed \/ closed' = "no"
      /\ gone' = gone \/ (gone' = TRUE /\ shouldExit)
      /\ DaemonTypeOK
  BY DEF Status, Edit, WatchCaptures, WatchSeesChange, ServerLeaves, ServerEnds, OpenReuses,
         apartFromWatch, apartFromStop, exitVars, histVars, vars, DaemonInv
<1>1. \/ books' = books \/ books' = Refresh(books)
      \/ books' = [books EXCEPT !.status = "running", !.reason = "other"]
  BY DEF Status, Edit, WatchCaptures, WatchSeesChange, ServerLeaves, ServerEnds, OpenReuses,
         apartFromWatch, apartFromStop, exitVars, histVars, vars
<1>2. books' \in Books /\ (Alive \subseteq {books.pid} => Alive \subseteq {books'.pid})
  <2>1. books \in Books
    BY <1>0 DEF DaemonTypeOK
  <2>2. CASE books' = [books EXCEPT !.status = "running", !.reason = "other"]
    <3>1. books' = [pid |-> books.pid, status |-> "running", reason |-> "other"]
      BY <2>1, <2>2 DEF Books
    <3> QED
      BY <2>1, <3>1 DEF Books
  <2> QED
    BY <1>0, <1>1, <2>1, <2>2, RefreshFacts, RefreshKeeps
<1>3. Alive' = Alive /\ CommandIsFresh'
  BY <1>0, LoaderRests DEF DaemonTypeOK
<1>4. \A t \in Threads : Replacing(t)' <=> Replacing(t)
  BY <1>0 DEF Replacing
<1>5. DaemonTypeOK'
  BY <1>0, <1>2 DEF DaemonTypeOK, loaderVars
<1>6. ThreadsInStage' /\ StopIsOrdered'
  BY <1>0 DEF DaemonInv, ThreadsInStage, StopIsOrdered
<1>7. OneReplaces' /\ RuntimeIsKnown' /\ NothingIsLeft'
  BY <1>0, <1>2, <1>3, <1>4, WatcherIsNoClient
     DEF DaemonInv, OneReplaces, RuntimeIsKnown, NothingIsLeft, Threads
<1>8. CloseStaysSettled'
  BY <1>0, <1>3 DEF DaemonInv, CloseStaysSettled, loaderVars
<1> QED
  BY <1>3, <1>5, <1>6, <1>7, <1>8 DEF DaemonInv

\* A thread that stays at its work, with no file touched and no process.
LEMMA AtWorkInv ==
  ASSUME DaemonInv, NEW t \in Threads,
         Looks(t) \/ IsRefused(t) \/ IsAnswered(t) \/ GivesUp(t) \/ CannotStart(t)
  PROVE  DaemonInv'
<1> USE DEF Reloads
<1>0. /\ UNCHANGED <<loaderVars, asked, books, stopping, shouldExit, gone, overlapped, lateWatch,
                     closed>>
      /\ DaemonTypeOK /\ thread[t] \in ThreadState
  BY DEF Looks, IsRefused, IsAnswered, GivesUp, CannotStart, apartFromThread, exitVars, histVars,
         DaemonInv, DaemonTypeOK
<1>1. Alive' = Alive /\ CommandIsFresh'
  BY <1>0, LoaderRests DEF DaemonTypeOK
<1>2. /\ thread[t].at \in {"refresh", "ask", "await", "spawn"}
      /\ thread[t].work \in {"eval", "open", "reload"}
      /\ thread[t].at \in {"refresh"} => thread[t].work = "reload"
      /\ thread[t].at \in {"ask", "await"} => thread[t].work \in {"eval", "reload"}
      /\ thread[t].at = "spawn" => thread[t].work \in {"open", "reload"}
      /\ thread[t].work = "eval" => t # Watcher
  BY DEF Looks, IsRefused, IsAnswered, GivesUp, CannotStart, DaemonInv, ThreadsInStage, Threads
<1>3. /\ thread' \in [Threads -> ThreadState]
      /\ \A u \in Threads \ {t} : thread'[u] = thread[u]
      /\ \/ /\ thread[t].work # "eval" /\ thread'[t].work = thread[t].work
            /\ thread'[t].at \in {"ask", "merge", "kill", "record", "settle"}
            /\ thread'[t].at = "settle" <=> thread[t].at = "spawn"
            /\ thread[t].at # "spawn" =>
                 \/ thread'[t].copy = thread[t].copy
                 \/ thread'[t].copy = Refresh(thread[t].copy)
            /\ thread'[t].at = "record" =>
                 thread[t].at = "await" /\ response # None /\ response.id = thread[t].id
            /\ lifecycle = UserClosed /\ Alive = {} =>
                 thread[t].at # "refresh" \/ thread'[t].at = "merge"
         \/ /\ thread[t].work = "eval" /\ thread'[t].work = "none"
            /\ thread'[t].at = "idle"
  <2>0. thread[t].copy \in Books
    BY <1>0 DEF ThreadState
  <2>1. CASE Looks(t)
    <3> DEFINE seen == Refresh(thread[t].copy)
    <3> DEFINE a == CASE IsProcessRunning(seen.pid) -> "ask"
                      [] RuntimeWasUserClosed(seen) -> "merge"
                      [] OTHER -> "kill"
    <3>1. thread[t].at = "refresh" /\ GoesWith(t, a, seen)
      BY <2>1 DEF Looks
    <3>2. a \in {"ask", "merge", "kill"} /\ a \in Places
      BY DEF Places
    <3>3. seen \in Books
      BY <1>0, <2>0, RefreshFacts
    <3>4. lifecycle = UserClosed /\ Alive = {} => a = "merge"
      <4>1. Alive = {} => ~IsProcessRunning(seen.pid) /\ ~IsProcessRunning(thread[t].copy.pid)
        BY PidFacts DEF Alive, IsProcessRunning
      <4> QED
        BY <1>0, <2>0, <4>1, RefreshFacts
    <3> HIDE DEF seen, a
    <3>5. /\ thread' \in [Threads -> ThreadState] /\ thread'[t].at = a /\ thread'[t].copy = seen
          /\ thread'[t].work = thread[t].work /\ \A u \in Threads \ {t} : thread'[u] = thread[u]
      BY <1>0, <3>1, <3>2, <3>3, GoesFacts
    <3> QED
      BY <1>2, <3>1, <3>2, <3>4, <3>5 DEF seen
  <2>2. CASE CannotStart(t)
    <3>1. "settle" \in Places /\ Stopped("other") \in Books
      BY BookTypes DEF Places
    <3>2. thread[t].at = "spawn" /\ GoesWith(t, "settle", Stopped("other"))
      BY <2>2 DEF CannotStart
    <3> QED
      BY <1>0, <1>2, <3>1, <3>2, GoesFacts
  <2>3. CASE Fails(t) /\ thread[t].at \in {"ask", "await"}
    <3>1. CASE thread[t].work = "reload"
      <4>1. "merge" \in Places /\ "kill" \in Places
        BY DEF Places
      <4>2. Goes(t, "merge") \/ Goes(t, "kill")
        BY <2>3, <3>1 DEF Fails
      <4>3. /\ thread' \in [Threads -> ThreadState] /\ thread'[t].at \in {"merge", "kill"}
            /\ thread'[t].work = thread[t].work /\ thread'[t].copy = thread[t].copy
            /\ \A u \in Threads \ {t} : thread'[u] = thread[u]
        BY <1>0, <2>0, <4>1, <4>2, GoesFacts
      <4> QED
        BY <2>3, <3>1, <4>3
    <3>2. CASE thread[t].work = "eval"
      <4>1. Rests(t)
        BY <2>3, <3>2 DEF Fails
      <4> QED
        BY <1>0, <1>2, <3>2, <4>1, RestsFacts
    <3> QED
      BY <1>2, <2>3, <3>1, <3>2
  <2>4. CASE /\ thread[t].at = "await" /\ thread[t].work = "reload" /\ Goes(t, "record")
             /\ response # None /\ response.id = thread[t].id
    <3>1. "record" \in Places
      BY DEF Places
    <3> QED
      BY <1>0, <2>0, <2>4, <3>1, GoesFacts
  <2> QED
    BY <2>1, <2>2, <2>3, <2>4 DEF IsRefused, IsAnswered, GivesUp
<1>4. DaemonTypeOK'
  BY <1>0, <1>3 DEF DaemonTypeOK, loaderVars
<1>5. ThreadsInStage'
  BY <1>2, <1>3 DEF DaemonInv, ThreadsInStage, Threads
<1>6. StopIsOrdered'
  BY <1>0, <1>2, <1>3 DEF DaemonInv, StopIsOrdered, Threads
<1>7. \A u \in Threads : Replacing(u)' <=> Replacing(u)
  BY <1>2, <1>3 DEF Replacing
<1>8. OneReplaces'
  BY <1>0, <1>7, WatcherIsNoClient DEF DaemonInv, OneReplaces, Threads
<1>9. RuntimeIsKnown' /\ NothingIsLeft'
  <2>1. ~overlapped /\ Replacing(t) => Alive \subseteq {thread'[t].copy.pid}
    <3>1. CASE thread[t].at = "spawn"
      BY <3>1 DEF DaemonInv, RuntimeIsKnown
    <3>2. CASE thread[t].at # "spawn"
      BY <1>0, <1>3, <3>2, RefreshKeeps DEF DaemonInv, RuntimeIsKnown, ThreadState, Replacing
    <3> QED
      BY <3>1, <3>2
  <2> QED
    BY <1>0, <1>1, <1>3, <1>7, <2>1 DEF DaemonInv, RuntimeIsKnown, NothingIsLeft, Replacing
<1>10. CloseStaysSettled'
  BY <1>0, <1>1, <1>2, <1>3 DEF DaemonInv, CloseStaysSettled, loaderVars
<1> QED
  BY <1>1, <1>4, <1>5, <1>6, <1>8, <1>9, <1>10 DEF DaemonInv

\* A request to open or to reload: from now on its thread may replace the runtime.
LEMMA ReplaceRequestInv ==
  ASSUME DaemonInv, NEW t \in Threads, OpenStarts(t) \/ Reload(t) PROVE DaemonInv'
<1> USE DEF Reloads
<1>0. /\ UNCHANGED <<loaderVars, asked, stopping, shouldExit, gone, lateWatch>>
      /\ DaemonTypeOK /\ books' = Refresh(books) /\ books' \in Books
      /\ overlapped' = (overlapped \/ Overlaps(t)) /\ overlapped' \in BOOLEAN
  BY RefreshFacts DEF OpenStarts, Reload, exitVars, DaemonInv, DaemonTypeOK
<1>1. Alive' = Alive /\ CommandIsFresh'
  BY <1>0, LoaderRests
<1>2. \E w \in {"open", "reload"}, a \in {"kill", "refresh"} :
        /\ Request(t, w, a, books')
        /\ w = "open" => a = "kill" /\ closed' = "no"
        /\ w = "reload" => a = "refresh" /\ closed' = closed
  BY DEF OpenStarts, Reload
<1>3. /\ t \in Clients /\ t # Watcher /\ thread[t].at = "idle"
      /\ thread' \in [Threads -> ThreadState] /\ thread'[t].copy = books'
      /\ \A u \in Threads \ {t} : thread'[u] = thread[u]
      /\ \/ thread'[t].work = "open" /\ thread'[t].at = "kill" /\ closed' = "no"
         \/ thread'[t].work = "reload" /\ thread'[t].at = "refresh" /\ closed' = closed
  <2>1. \A w \in {"open", "reload"}, a \in {"kill", "refresh"} : w \in Works /\ a \in Places
    BY DEF Works, Places
  <2> QED
    BY <1>0, <1>2, <2>1, RequestFacts
<1>4. DaemonTypeOK'
  BY <1>0, <1>3 DEF DaemonTypeOK, loaderVars
<1>5. ThreadsInStage'
  BY <1>3 DEF DaemonInv, ThreadsInStage, Threads
<1>6. StopIsOrdered'
  BY <1>0, <1>3 DEF DaemonInv, StopIsOrdered, Threads
<1>7. /\ ~Replacing(t) /\ Replacing(t)'
      /\ \A u \in Threads \ {t} : Replacing(u)' <=> Replacing(u)
  BY <1>3 DEF Replacing
<1>8. ~overlapped' => ~stopping /\ ~overlapped /\ \A u \in Threads : ~Replacing(u)
  BY <1>0, <1>7 DEF Overlaps
<1>9. OneReplaces'
  BY <1>0, <1>7, <1>8 DEF OneReplaces
<1>10. RuntimeIsKnown'
  <2>1. ~overlapped' => Alive \subseteq {books'.pid}
    BY <1>0, <1>8, RefreshKeeps DEF DaemonInv, RuntimeIsKnown, DaemonTypeOK
  <2> QED
    BY <1>1, <1>3, <1>7, <1>8, <2>1 DEF RuntimeIsKnown
<1>11. NothingIsLeft'
  BY <1>0, <1>1, <1>8 DEF DaemonInv, NothingIsLeft
<1>12. CloseStaysSettled'
  BY <1>0, <1>1, <1>3 DEF DaemonInv, CloseStaysSettled, loaderVars
<1> QED
  BY <1>1, <1>4, <1>5, <1>6, <1>9, <1>10, <1>11, <1>12 DEF DaemonInv

\* A request for a command to the page, and one to stop.
LEMMA OtherRequestInv ==
  ASSUME DaemonInv, NEW t \in Threads, Eval(t) \/ Stop(t) PROVE DaemonInv'
<1> USE DEF Reloads
<1>0. /\ UNCHANGED <<loaderVars, asked, shouldExit, gone, lateWatch>>
      /\ DaemonTypeOK /\ (books' = Refresh(books) \/ books' = books) /\ books' \in Books
      /\ \/ UNCHANGED <<stopping, overlapped, closed>>
         \/ /\ stopping' = TRUE /\ closed' = "no"
            /\ overlapped' = (overlapped \/ \E u \in Clients : Replacing(u))
      /\ overlapped' \in BOOLEAN /\ stopping' \in BOOLEAN /\ (overlapped => overlapped')
  BY RefreshFacts DEF Eval, Stop, exitVars, histVars, DaemonInv, DaemonTypeOK
<1>1. Alive' = Alive /\ CommandIsFresh'
  BY <1>0, LoaderRests
<1>2. /\ t \in Clients /\ t # Watcher /\ thread[t].at = "idle"
      /\ thread' \in [Threads -> ThreadState]
      /\ \A u \in Threads \ {t} : thread'[u] = thread[u]
      /\ \/ thread'[t].work = "eval" /\ thread'[t].at = "ask"
         \/ thread'[t].work = "stop" /\ thread'[t].at = "mark" /\ stopping'
  <2>1. CASE Eval(t)
    <3>1. "eval" \in Works /\ "ask" \in Places /\ Request(t, "eval", "ask", books')
      BY <2>1 DEF Eval, Works, Places
    <3> QED
      BY <1>0, <3>1, RequestFacts
  <2>2. CASE Stop(t)
    <3>1. /\ "stop" \in Works /\ "mark" \in Places /\ Request(t, "stop", "mark", thread[t].copy)
          /\ thread[t].copy \in Books /\ stopping'
      BY <1>0, <2>2 DEF Stop, Works, Places, DaemonTypeOK, ThreadState
    <3> QED
      BY <1>0, <3>1, RequestFacts
  <2> QED
    BY <2>1, <2>2
<1>3. DaemonTypeOK'
  BY <1>0, <1>2 DEF DaemonTypeOK, loaderVars
<1>4. ThreadsInStage'
  BY <1>2 DEF DaemonInv, ThreadsInStage, Threads
<1>5. StopIsOrdered'
  BY <1>0, <1>2 DEF DaemonInv, StopIsOrdered, Threads
<1>6. \A u \in Threads : Replacing(u)' <=> Replacing(u)
  BY <1>2 DEF Replacing
<1>7. OneReplaces'
  BY <1>0, <1>6, WatcherIsNoClient DEF DaemonInv, OneReplaces, Threads
<1>8. RuntimeIsKnown'
  <2>1. Alive \subseteq {books.pid} => Alive \subseteq {books'.pid}
    BY <1>0, RefreshKeeps DEF DaemonTypeOK
  <2>2. \A u \in Threads : Replacing(u) => thread'[u] = thread[u]
    BY <1>2 DEF Replacing
  <2> QED
    BY <1>0, <1>1, <1>6, <2>1, <2>2 DEF DaemonInv, RuntimeIsKnown
<1>9. NothingIsLeft'
  BY <1>0, <1>1 DEF DaemonInv, NothingIsLeft
<1>10. CloseStaysSettled'
  BY <1>0, <1>1, <1>2 DEF DaemonInv, CloseStaysSettled, loaderVars
<1> QED
  BY <1>1, <1>3, <1>4, <1>5, <1>7, <1>8, <1>9, <1>10 DEF DaemonInv

\* A late build --watch brings the watcher back, and lateWatch tells.
LEMMA BuildWatchInv ==
  ASSUME DaemonInv, NEW t \in Threads, BuildWatch(t) PROVE DaemonInv'
<1> USE DEF Reloads
<1>0. /\ UNCHANGED <<loaderVars, asked, stopping, shouldExit, gone, overlapped, closed>>
      /\ DaemonTypeOK /\ books' = Refresh(books) /\ books' \in Books
      /\ lateWatch' = (lateWatch \/ stopping) /\ lateWatch' \in BOOLEAN
  BY RefreshFacts DEF BuildWatch, exitVars, DaemonInv, DaemonTypeOK
<1>1. Alive' = Alive /\ CommandIsFresh'
  BY <1>0, LoaderRests DEF DaemonTypeOK
<1>2. /\ thread' \in [Threads -> ThreadState]
      /\ \A u \in Threads \ {Watcher} : thread'[u] = thread[u]
      /\ \/ thread'[Watcher] = thread[Watcher]
         \/ /\ thread[Watcher].at = "off" /\ thread'[Watcher].at = "poll"
            /\ thread'[Watcher].work = "reload"
  <2>1. Watcher \in Threads
    BY DEF Threads
  <2>2. thread' = thread \/ (thread[Watcher].at = "off" /\ Rests(Watcher))
    BY DEF BuildWatch
  <2> QED
    BY <1>0, <2>1, <2>2, RestsFacts DEF DaemonTypeOK
<1>3. DaemonTypeOK'
  BY <1>0, <1>2 DEF DaemonTypeOK, loaderVars
<1>4. ThreadsInStage'
  BY <1>2, WatcherIsNoClient DEF DaemonInv, ThreadsInStage, Threads
<1>5. StopIsOrdered'
  BY <1>0, <1>2 DEF DaemonInv, StopIsOrdered, DaemonTypeOK
<1>6. \A u \in Threads : /\ Replacing(u)' <=> Replacing(u)
                         /\ Replacing(u) => thread'[u] = thread[u]
  BY <1>2 DEF Replacing
<1>7. OneReplaces'
  BY <1>0, <1>6, WatcherIsNoClient DEF DaemonInv, OneReplaces, Threads
<1>8. RuntimeIsKnown'
  <2>1. Alive \subseteq {books.pid} => Alive \subseteq {books'.pid}
    BY <1>0, RefreshKeeps DEF DaemonTypeOK
  <2> QED
    BY <1>0, <1>1, <1>6, <2>1 DEF DaemonInv, RuntimeIsKnown
<1>9. NothingIsLeft'
  BY <1>0, <1>1 DEF DaemonInv, NothingIsLeft
<1>10. CloseStaysSettled'
  BY <1>0, <1>1, <1>2 DEF DaemonInv, CloseStaysSettled, loaderVars
<1> QED
  BY <1>1, <1>3, <1>4, <1>5, <1>7, <1>8, <1>9, <1>10 DEF DaemonInv

LEMMA SettledFacts ==
  ASSUME DaemonTypeOK, NEW b \in Books
  PROVE  Settled(b) \in Books /\ (Alive \subseteq {b.pid} => Alive \subseteq {Settled(b).pid})
<1>1. CASE IsProcessRunning(b.pid)
  <2>1. b.pid \in Nat
    BY DEF Books
  <2> QED
    BY <1>1, <2>1, BookTypes DEF Settled
<1>2. CASE ~IsProcessRunning(b.pid)
  <2>1. [b EXCEPT !.pid = 0] \in Books
    BY DEF Books
  <2>2. Alive \subseteq {b.pid} => Alive = {}
    BY <1>2 DEF Alive
  <2> QED
    BY <1>2, <2>1, <2>2, RefreshFacts DEF Settled
<1> QED
  BY <1>1, <1>2

\* What was made of the runtime goes into the books.
LEMMA FinishInv ==
  ASSUME DaemonInv, NEW t \in Threads, Settles(t) \/ Merges(t) PROVE DaemonInv'
<1> USE DEF Reloads
<1>0. /\ UNCHANGED <<loaderVars, asked, stopping, shouldExit, gone, overlapped, lateWatch, closed>>
      /\ DaemonTypeOK /\ thread[t] \in ThreadState /\ thread[t].copy \in Books
  BY DEF Settles, Merges, exitVars, histVars, DaemonInv, DaemonTypeOK, ThreadState
<1>1. Alive' = Alive /\ CommandIsFresh'
  BY <1>0, LoaderRests DEF DaemonTypeOK
<1>2. /\ thread[t].work \in {"open", "reload"} /\ thread[t].at \in {"settle", "merge"}
      /\ thread[t].work = "open" => t # Watcher
      /\ thread[t].at = "merge" => thread[t].work = "reload"
  BY WatcherIsNoClient DEF Settles, Merges, DaemonInv, ThreadsInStage, Threads
<1>3. /\ thread' \in [Threads -> ThreadState] /\ books' \in Books
      /\ \A u \in Threads \ {t} : thread'[u] = thread[u]
      /\ \/ /\ thread'[t].at = (IF t = Watcher THEN "poll" ELSE "idle")
            /\ thread'[t].work = (IF t = Watcher THEN "reload" ELSE "none")
            /\ Alive \subseteq {thread[t].copy.pid} => Alive \subseteq {books'.pid}
         \/ /\ thread'[t].at = "merge" /\ thread'[t].work = thread[t].work
            /\ thread[t].work = "reload"
            /\ Alive \subseteq {thread[t].copy.pid} => Alive \subseteq {thread'[t].copy.pid}
  <2>1. CASE Merges(t)
    BY <1>0, <2>1, RestsFacts DEF Merges
  <2>2. CASE Settles(t) /\ thread[t].work = "open"
    <3>1. books' = Settled(thread[t].copy) /\ Rests(t)
      BY <2>2 DEF Settles
    <3> QED
      BY <1>0, <3>1, RestsFacts, SettledFacts
  <2>3. CASE Settles(t) /\ thread[t].work = "reload"
    <3>1. books' = books /\ GoesWith(t, "merge", Settled(thread[t].copy))
      BY <2>3 DEF Settles
    <3>2. "merge" \in Places /\ Settled(thread[t].copy) \in Books /\ books \in Books
      BY <1>0, SettledFacts DEF Places, DaemonTypeOK
    <3> QED
      BY <1>0, <2>3, <3>1, <3>2, GoesFacts, SettledFacts
  <2> QED
    BY <1>2, <2>1, <2>2, <2>3
<1>4. DaemonTypeOK'
  BY <1>0, <1>3 DEF DaemonTypeOK, loaderVars
<1>5. ThreadsInStage'
  BY <1>2, <1>3, WatcherIsNoClient DEF DaemonInv, ThreadsInStage, Threads
<1>6. StopIsOrdered'
  BY <1>0, <1>2, <1>3 DEF DaemonInv, StopIsOrdered, Threads
<1>7. Replacing(t) /\ \A u \in Threads \ {t} : Replacing(u)' <=> Replacing(u)
  BY <1>2, <1>3 DEF Replacing
<1>8. OneReplaces'
  BY <1>0, <1>7, WatcherIsNoClient DEF DaemonInv, OneReplaces, Threads
<1>9. RuntimeIsKnown'
  <2>1. ~overlapped => /\ Alive \subseteq {thread[t].copy.pid}
                       /\ \A u \in Threads \ {t} : ~Replacing(u)
    BY <1>7 DEF DaemonInv, RuntimeIsKnown, OneReplaces
  <2>2. Replacing(t)' => thread'[t].at = "merge"
    BY <1>3 DEF Replacing
  <2>3. ~Replacing(t)' => thread'[t].at # "merge"
    BY <1>3 DEF Replacing
  <2> QED
    BY <1>0, <1>1, <1>3, <1>7, <2>1, <2>2, <2>3 DEF RuntimeIsKnown
<1>10. NothingIsLeft'
  BY <1>0, <1>1 DEF DaemonInv, NothingIsLeft
<1>11. CloseStaysSettled'
  BY <1>0, <1>1, <1>2, <1>3 DEF DaemonInv, CloseStaysSettled, loaderVars
<1> QED
  BY <1>1, <1>4, <1>5, <1>6, <1>8, <1>9, <1>10, <1>11 DEF DaemonInv

LEMMA AskFacts ==
  ASSUME DaemonTypeOK, NEW t \in Threads, NEW a \in Places, NEW i \in Nat,
         thread' = [thread EXCEPT ![t].at = a, ![t].id = i]
  PROVE  /\ thread' \in [Threads -> ThreadState]
         /\ thread'[t].at = a /\ thread'[t].work = thread[t].work
         /\ thread'[t].copy = thread[t].copy
         /\ \A u \in Threads \ {t} : thread'[u] = thread[u]
  BY DEF DaemonTypeOK, ThreadState

\* A command gets an id that none had before.
LEMMA AsksInv ==
  ASSUME DaemonInv, NEW t \in Threads, Asks(t) PROVE DaemonInv'
<1> USE DEF Reloads
<1>0. /\ UNCHANGED <<proc, lifecycle, runs, books, stopping, shouldExit, gone, overlapped,
                     lateWatch, closed>>
      /\ asked' = asked + 1 /\ command' = asked + 1 /\ response' = None
      /\ DaemonTypeOK /\ asked \in Nat /\ thread[t].at = "ask"
  BY DEF Asks, apartFromThread, exitVars, histVars, DaemonInv, DaemonTypeOK
<1>1. Alive' = Alive
  BY <1>0 DEF Alive, IsProcessRunning
<1>2. /\ thread' \in [Threads -> ThreadState]
      /\ thread'[t].at = "await" /\ thread'[t].work = thread[t].work
      /\ thread'[t].copy = thread[t].copy
      /\ \A u \in Threads \ {t} : thread'[u] = thread[u]
  <2>1. asked' \in Nat /\ "await" \in Places
    BY <1>0 DEF Places
  <2> QED
    BY <1>0, <2>1, AskFacts DEF Asks
<1>3. DaemonTypeOK'
  <2>1. asked' \in Nat /\ command' \in Nat \cup {None}
    BY <1>0
  <2>2. proc' \in [Pids -> Procs] /\ lifecycle' \in {None, Up, UserClosed} /\ runs' \in [Ids -> Nat]
    BY <1>0 DEF DaemonTypeOK
  <2>3. /\ stopping' \in BOOLEAN /\ shouldExit' \in BOOLEAN /\ gone' \in BOOLEAN
        /\ overlapped' \in BOOLEAN /\ lateWatch' \in BOOLEAN /\ books' \in Books
    BY <1>0 DEF DaemonTypeOK
  <2> QED
    BY <1>2, <2>1, <2>2, <2>3 DEF DaemonTypeOK
<1>4. CommandIsFresh'
  <2>1. \A i \in Ids : i > asked' => i > asked
    BY <1>0, IdsAreNumbers
  <2>2. \A i \in Ids : command' = i => runs[i] = 0
    BY <1>0, IdsAreNumbers DEF DaemonInv, CommandIsFresh
  <2>3. command' <= asked'
    BY <1>0
  <2> QED
    BY <1>0, <2>1, <2>2, <2>3 DEF DaemonInv, CommandIsFresh, CommandRunsOnce
<1>5. ThreadsInStage' /\ StopIsOrdered'
  BY <1>0, <1>2 DEF DaemonInv, ThreadsInStage, StopIsOrdered, Threads
<1>6. \A u \in Threads : Replacing(u)' <=> Replacing(u)
  BY <1>0, <1>2 DEF Replacing
<1>7. OneReplaces' /\ RuntimeIsKnown' /\ NothingIsLeft'
  BY <1>0, <1>1, <1>2, <1>6, WatcherIsNoClient
     DEF DaemonInv, OneReplaces, RuntimeIsKnown, NothingIsLeft, Threads
<1>8. CloseStaysSettled'
  BY <1>0, <1>1, <1>2 DEF DaemonInv, CloseStaysSettled
<1> QED
  BY <1>3, <1>4, <1>5, <1>7, <1>8 DEF DaemonInv

\* The lifecycle is never recorded again over a close that is not in a race.
LEMMA RecordsInv ==
  ASSUME DaemonInv, NEW t \in Threads, Records(t) PROVE DaemonInv'
<1> USE DEF Reloads
<1>0. /\ UNCHANGED <<proc, command, response, runs, asked, books, stopping, shouldExit, gone,
                     overlapped, lateWatch, closed>>
      /\ lifecycle' = Up
      /\ DaemonTypeOK /\ thread[t].at = "record" /\ thread[t].work = "reload"
      /\ thread[t].copy.pid \in Nat
  BY DEF Records, apartFromThread, exitVars, histVars, DaemonInv, DaemonTypeOK, ThreadsInStage,
         Threads, ThreadState, Books
<1>1. Alive' = Alive
  BY <1>0 DEF Alive, IsProcessRunning
<1>2. /\ thread' \in [Threads -> ThreadState]
      /\ thread'[t].at = "merge" /\ thread'[t].work = thread[t].work
      /\ thread'[t].copy.pid = thread[t].copy.pid
      /\ \A u \in Threads \ {t} : thread'[u] = thread[u]
  <2>1. /\ "merge" \in Places /\ Started(thread[t].copy.pid) \in Books
        /\ Started(thread[t].copy.pid).pid = thread[t].copy.pid
        /\ GoesWith(t, "merge", Started(thread[t].copy.pid))
    BY <1>0, BookTypes DEF Places, Records
  <2> QED
    BY <1>0, <2>1, GoesFacts
<1>3. DaemonTypeOK'
  BY <1>0, <1>2 DEF DaemonTypeOK
<1>4. CommandIsFresh'
  BY <1>0 DEF DaemonInv, CommandIsFresh, CommandRunsOnce
<1>5. ThreadsInStage' /\ StopIsOrdered'
  BY <1>0, <1>2 DEF DaemonInv, ThreadsInStage, StopIsOrdered, Threads
<1>6. \A u \in Threads : Replacing(u)' <=> Replacing(u)
  BY <1>0, <1>2 DEF Replacing
<1>7. OneReplaces' /\ RuntimeIsKnown' /\ NothingIsLeft'
  BY <1>0, <1>1, <1>2, <1>6, WatcherIsNoClient
     DEF DaemonInv, OneReplaces, RuntimeIsKnown, NothingIsLeft, Threads
<1>8. closed # "closing" /\ closed # "settled"
  BY <1>0 DEF DaemonInv, CloseStaysSettled
<1> QED
  BY <1>0, <1>3, <1>4, <1>5, <1>7, <1>8 DEF DaemonInv, CloseStaysSettled

LEMMA KillFacts ==
  ASSUME DaemonTypeOK, NEW p, StopProcess(p)
  PROVE  /\ proc' \in [Pids -> Procs] /\ Alive' = Alive \ {p}
         /\ \A q \in Pids : proc'[q] = proc[q] \/ proc'[q] = "dead"
  BY DEF DaemonTypeOK, StopProcess, Procs, Alive, IsProcessRunning

\* The old runtime is stopped before there is another.
LEMMA KillsOldInv ==
  ASSUME DaemonInv, NEW t \in Threads, KillsOld(t) PROVE DaemonInv'
<1> USE DEF Reloads
<1>0. /\ UNCHANGED <<lifecycle, command, response, runs, asked, books, stopping, shouldExit, gone,
                     overlapped, lateWatch, closed>>
      /\ DaemonTypeOK /\ thread[t].at = "kill" /\ thread[t].work \in {"open", "reload"}
      /\ thread[t].copy \in Books
  BY DEF KillsOld, apartFromThread, exitVars, histVars, DaemonInv, DaemonTypeOK, ThreadsInStage,
         Threads, ThreadState
<1>1. /\ proc' \in [Pids -> Procs] /\ Alive' = Alive \ {thread[t].copy.pid}
      /\ \A q \in Pids : proc'[q] = proc[q] \/ proc'[q] = "dead"
  BY <1>0, KillFacts DEF KillsOld
<1>2. /\ thread' \in [Threads -> ThreadState]
      /\ thread'[t].at = "spawn" /\ thread'[t].work = thread[t].work
      /\ \A u \in Threads \ {t} : thread'[u] = thread[u]
  <2>1. "spawn" \in Places /\ Goes(t, "spawn")
    BY DEF Places, KillsOld
  <2> QED
    BY <1>0, <2>1, GoesFacts
<1>3. DaemonTypeOK'
  BY <1>0, <1>1, <1>2 DEF DaemonTypeOK
<1>4. CommandIsFresh'
  BY <1>0, <1>1 DEF DaemonInv, CommandIsFresh, CommandRunsOnce
<1>5. ThreadsInStage' /\ StopIsOrdered'
  BY <1>0, <1>2 DEF DaemonInv, ThreadsInStage, StopIsOrdered, Threads
<1>6. Replacing(t) /\ \A u \in Threads : Replacing(u)' <=> Replacing(u)
  BY <1>0, <1>2 DEF Replacing
<1>7. OneReplaces' /\ NothingIsLeft'
  BY <1>0, <1>1, <1>6, WatcherIsNoClient DEF DaemonInv, OneReplaces, NothingIsLeft, Threads
<1>8. RuntimeIsKnown'
  <2>1. ~overlapped => Alive' = {}
    BY <1>1, <1>6 DEF DaemonInv, RuntimeIsKnown
  <2> QED
    BY <1>0, <1>6, <2>1 DEF RuntimeIsKnown
<1>9. CloseStaysSettled'
  <2>1. \A q \in Alive' : q \in Alive /\ proc'[q] = proc[q]
    BY <1>1 DEF Alive, IsProcessRunning
  <2> QED
    BY <1>0, <1>2, <2>1 DEF DaemonInv, CloseStaysSettled
<1> QED
  BY <1>3, <1>4, <1>5, <1>7, <1>8, <1>9 DEF DaemonInv

\* The new runtime is the only one, and finds no command of the old one.
LEMMA SpawnsInv ==
  ASSUME DaemonInv, NEW t \in Threads, Spawns(t) PROVE DaemonInv'
<1> USE DEF Reloads
<1>0. /\ UNCHANGED <<runs, asked, books, stopping, shouldExit, gone, overlapped, lateWatch>>
      /\ lifecycle' = None /\ command' = None /\ response' = None /\ closed' = "no"
      /\ DaemonTypeOK /\ thread[t].at = "spawn" /\ thread[t].work \in {"open", "reload"}
  BY DEF Spawns, RemoveRuntimeArtifacts, exitVars, DaemonInv, ThreadsInStage, Threads
<1>1. PICK p \in Pids : /\ proc' = [proc EXCEPT ![p] = "booting"]
                        /\ GoesWith(t, "settle", Started(p))
  BY DEF Spawns
<1>2. proc' \in [Pids -> Procs] /\ Alive' = Alive \cup {p}
  BY <1>0, <1>1 DEF DaemonTypeOK, Procs, Alive, IsProcessRunning
<1>3. /\ thread' \in [Threads -> ThreadState]
      /\ thread'[t].at = "settle" /\ thread'[t].work = thread[t].work
      /\ thread'[t].copy.pid = p
      /\ \A u \in Threads \ {t} : thread'[u] = thread[u]
  <2>1. "settle" \in Places /\ Started(p) \in Books /\ Started(p).pid = p
    BY PidFacts, BookTypes DEF Places
  <2> QED
    BY <1>0, <1>1, <2>1, GoesFacts
<1>4. DaemonTypeOK'
  BY <1>0, <1>2, <1>3 DEF DaemonTypeOK
<1>5. CommandIsFresh'
  BY <1>0, IdsAreNumbers DEF DaemonInv, CommandIsFresh, CommandRunsOnce
<1>6. ThreadsInStage' /\ StopIsOrdered'
  BY <1>0, <1>3 DEF DaemonInv, ThreadsInStage, StopIsOrdered, Threads
<1>7. Replacing(t) /\ \A u \in Threads : Replacing(u)' <=> Replacing(u)
  BY <1>0, <1>3 DEF Replacing
<1>8. OneReplaces'
  BY <1>0, <1>7, WatcherIsNoClient DEF DaemonInv, OneReplaces, Threads
<1>9. RuntimeIsKnown'
  <2>1. ~overlapped => Alive' = {p} /\ \A u \in Threads : Replacing(u) => u = t
    BY <1>0, <1>2, <1>7 DEF DaemonInv, RuntimeIsKnown, OneReplaces
  <2> QED
    BY <1>0, <1>3, <1>7, <2>1 DEF RuntimeIsKnown
<1>10. NothingIsLeft'
  <2>1. ~(shouldExit /\ ~overlapped /\ ~lateWatch)
    BY <1>0, <1>7 DEF DaemonInv, StopIsOrdered, OneReplaces, Threads
  <2> QED
    BY <1>0, <2>1 DEF NothingIsLeft
<1>11. CloseStaysSettled'
  BY <1>0 DEF CloseStaysSettled
<1> QED
  BY <1>4, <1>5, <1>6, <1>8, <1>9, <1>10, <1>11 DEF DaemonInv

\* stop takes down the runtime that is in the books: there is no other.
LEMMA StopEndsInv ==
  ASSUME DaemonInv, NEW t \in Threads, StopEnds(t) PROVE DaemonInv'
<1> USE DEF Reloads
<1>0. /\ UNCHANGED <<runs, asked, stopping, gone, overlapped, lateWatch, closed>>
      /\ lifecycle' = None /\ command' = None /\ response' = None
      /\ shouldExit' = TRUE /\ books' = Stopped(books.reason)
      /\ DaemonTypeOK /\ thread[t].at = "end" /\ t \in Clients /\ t # Watcher /\ stopping
  BY WatcherIsNoClient
     DEF StopEnds, RemoveRuntimeArtifacts, histVars, DaemonInv, ThreadsInStage, StopIsOrdered,
         Threads
<1>1. /\ proc' \in [Pids -> Procs] /\ Alive' = Alive \ {books.pid}
      /\ \A q \in Pids : proc'[q] = proc[q] \/ proc'[q] = "dead"
  BY <1>0, KillFacts DEF StopEnds
<1>2. books' \in Books
  BY <1>0, BookTypes DEF DaemonTypeOK, Books
<1>3. /\ thread' \in [Threads -> ThreadState]
      /\ thread'[t].at = "idle" /\ thread'[t].work = "none"
      /\ \A u \in Threads \ {t} : thread'[u] = thread[u]
  BY <1>0, RestsFacts DEF StopEnds
<1>4. DaemonTypeOK'
  BY <1>0, <1>1, <1>2, <1>3 DEF DaemonTypeOK
<1>5. CommandIsFresh'
  BY <1>0, <1>1, IdsAreNumbers DEF DaemonInv, CommandIsFresh, CommandRunsOnce
<1>6. ThreadsInStage'
  BY <1>0, <1>3 DEF DaemonInv, ThreadsInStage, Threads
<1>7. StopIsOrdered'
  BY <1>0, <1>3 DEF DaemonInv, StopIsOrdered, Threads
<1>8. \A u \in Threads : /\ Replacing(u)' <=> Replacing(u)
                         /\ Replacing(u) => thread'[u] = thread[u]
  BY <1>0, <1>3 DEF Replacing
<1>9. OneReplaces'
  BY <1>0, <1>8, WatcherIsNoClient DEF DaemonInv, OneReplaces, Threads
<1>10. RuntimeIsKnown'
  <2>1. ~overlapped /\ (\A u \in Threads : ~Replacing(u)) => Alive' = {}
    BY <1>1 DEF DaemonInv, RuntimeIsKnown
  <2> QED
    BY <1>0, <1>1, <1>8, <2>1 DEF DaemonInv, RuntimeIsKnown
<1>11. NothingIsLeft'
  <2>1. ~overlapped /\ ~lateWatch => \A u \in Threads : ~Replacing(u)
    BY <1>0 DEF DaemonInv, StopIsOrdered, OneReplaces, Replacing, Threads
  <2> QED
    BY <1>0, <1>1, <2>1 DEF DaemonInv, RuntimeIsKnown, NothingIsLeft
<1>12. CloseStaysSettled'
  BY <1>0 DEF DaemonInv, CloseStaysSettled
<1> QED
  BY <1>4, <1>5, <1>6, <1>7, <1>9, <1>10, <1>11, <1>12 DEF DaemonInv

-----------------------------------------------------------------------------
(* The watcher, and the way to the end *)

\* A thread that does not replace the runtime, and does not start to.
LEMMA ApartInv ==
  ASSUME DaemonInv, NEW t \in Threads, Marks(t) \/ Joins(t) \/ WatchBuilds \/ WatchEnds
  PROVE  DaemonInv'
<1> USE DEF Reloads
<1>0. /\ UNCHANGED <<loaderVars, asked, stopping, shouldExit, gone, overlapped, lateWatch, closed>>
      /\ DaemonTypeOK /\ books \in Books /\ Watcher \in Threads
  BY DEF Marks, Joins, WatchBuilds, WatchEnds, apartFromStop, apartFromWatch, apartFromThread,
         exitVars, histVars, DaemonInv, DaemonTypeOK, Threads
<1>1. Alive' = Alive /\ CommandIsFresh'
  BY <1>0, LoaderRests DEF DaemonTypeOK
<1>2. books' \in Books /\ (Alive \subseteq {books.pid} => Alive \subseteq {books'.pid})
  <2>1. CASE books' = [books EXCEPT !.status = "stopping"]
    BY <1>0, <2>1 DEF Books
  <2>2. CASE books' = Refresh(books) \/ books' = books
    BY <1>0, <2>2, RefreshFacts, RefreshKeeps
  <2> QED
    BY <2>1, <2>2 DEF Marks, Joins, WatchBuilds, WatchEnds, apartFromThread
<1>3. /\ thread' \in [Threads -> ThreadState]
      /\ \A u \in Threads : thread'[u].work = thread[u].work
      /\ \/ /\ t # Watcher /\ thread[t].at = "mark" /\ thread'[t].at = "join"
            /\ \A u \in Threads \ {t} : thread'[u] = thread[u]
         \/ /\ t # Watcher /\ thread[t].at = "join" /\ thread'[t].at = "end"
            /\ thread[Watcher].at \in {"off", "ended"} /\ thread'[Watcher].at = "off"
            /\ \A u \in Threads \ {t, Watcher} : thread'[u] = thread[u]
         \/ /\ thread[Watcher].at = "poll" /\ thread'[Watcher].at \in {"build", "ended"}
            /\ \A u \in Threads \ {Watcher} : thread'[u] = thread[u]
  <2>1. CASE Marks(t)
    <3>1. "join" \in Places /\ Goes(t, "join") /\ thread[t].at = "mark" /\ t # Watcher
      BY <2>1 DEF Places, Marks, DaemonInv, ThreadsInStage
    <3> QED
      BY <1>0, <3>1, GoesFacts
  <2>2. CASE Joins(t)
    <3>1. t # Watcher
      BY <2>2 DEF Joins, DaemonInv, ThreadsInStage
    <3> QED
      BY <1>0, <2>2, <3>1 DEF Joins, WatcherIsOver, DaemonTypeOK, ThreadState, Places
  <2>3. CASE WatchBuilds \/ WatchEnds
    <3>1. /\ "build" \in Places /\ "ended" \in Places
          /\ thread[Watcher].at = "poll" /\ (Goes(Watcher, "build") \/ Goes(Watcher, "ended"))
      BY <2>3 DEF Places, WatchBuilds, WatchEnds, Polls
    <3>2. /\ thread' \in [Threads -> ThreadState] /\ thread'[Watcher].at \in {"build", "ended"}
          /\ thread'[Watcher].work = thread[Watcher].work
          /\ \A u \in Threads \ {Watcher} : thread'[u] = thread[u]
      BY <1>0, <3>1, GoesFacts
    <3> QED
      BY <3>1, <3>2
  <2> QED
    BY <2>1, <2>2, <2>3
<1>4. DaemonTypeOK'
  BY <1>0, <1>2, <1>3 DEF DaemonTypeOK, loaderVars
<1>5. ThreadsInStage'
  BY <1>3, WatcherIsNoClient DEF DaemonInv, ThreadsInStage, Threads
<1>6. StopIsOrdered'
  BY <1>0, <1>3 DEF DaemonInv, StopIsOrdered
<1>7. \A u \in Threads : /\ Replacing(u)' <=> Replacing(u)
                         /\ Replacing(u) => thread'[u] = thread[u]
  BY <1>3 DEF Replacing
<1>8. OneReplaces'
  BY <1>0, <1>7, WatcherIsNoClient DEF DaemonInv, OneReplaces, Threads
<1>9. RuntimeIsKnown' /\ NothingIsLeft'
  BY <1>0, <1>1, <1>2, <1>7 DEF DaemonInv, RuntimeIsKnown, NothingIsLeft
<1>10. CloseStaysSettled'
  BY <1>0, <1>1, <1>3 DEF DaemonInv, CloseStaysSettled, loaderVars
<1> QED
  BY <1>1, <1>4, <1>5, <1>6, <1>8, <1>9, <1>10 DEF DaemonInv

\* The watcher starts to replace the runtime, or leaves it.
LEMMA BuildEndsInv ==
  ASSUME DaemonInv, BuildEnds PROVE DaemonInv'
<1> USE DEF Reloads
<1>0. /\ UNCHANGED <<loaderVars, asked, stopping, shouldExit, gone, lateWatch, closed>>
      /\ DaemonTypeOK /\ books' = Refresh(books) /\ books' \in Books /\ Watcher \in Threads
      /\ thread[Watcher].at = "build" /\ thread[Watcher].work = "reload"
  BY RefreshFacts DEF BuildEnds, exitVars, DaemonInv, DaemonTypeOK, ThreadsInStage, Threads
<1>1. /\ thread' \in [Threads -> ThreadState] /\ thread'[Watcher].work = "reload"
      /\ \A u \in Threads \ {Watcher} : thread'[u] = thread[u]
      /\ \/ /\ thread'[Watcher].at = "refresh" /\ thread'[Watcher].copy = books'
            /\ overlapped' = (overlapped \/ \E c \in Clients : Replacing(c))
         \/ thread'[Watcher].at = "poll" /\ overlapped' = overlapped
  <2>1. CASE Rests(Watcher) /\ UNCHANGED overlapped
    BY <1>0, <2>1, RestsFacts
  <2>2. CASE /\ GoesWith(Watcher, "refresh", books')
             /\ overlapped' = (overlapped \/ \E c \in Clients : Replacing(c))
    <3>1. "refresh" \in Places
      BY DEF Places
    <3> QED
      BY <1>0, <2>2, <3>1, GoesFacts
  <2> QED
    BY <2>1, <2>2 DEF BuildEnds
<1>2. overlapped' \in BOOLEAN /\ (overlapped => overlapped')
  <2>1. overlapped \in BOOLEAN
    BY <1>0 DEF DaemonTypeOK
  <2> DEFINE clientReplaces == \E c \in Clients : Replacing(c)
  <2>2. overlapped' = overlapped \/ overlapped' = (overlapped \/ clientReplaces)
    BY <1>1
  <2> HIDE DEF clientReplaces
  <2> QED
    BY <2>1, <2>2
<1>3. Alive' = Alive /\ CommandIsFresh'
  BY <1>0, <1>2, LoaderRests
<1>4. DaemonTypeOK'
  BY <1>0, <1>1, <1>2 DEF DaemonTypeOK, loaderVars
<1>5. ThreadsInStage'
  BY <1>1, WatcherIsNoClient DEF DaemonInv, ThreadsInStage, Threads
<1>6. StopIsOrdered'
  BY <1>0, <1>1 DEF DaemonInv, StopIsOrdered
<1>7. /\ ~Replacing(Watcher) /\ (Replacing(Watcher)' => thread'[Watcher].copy = books')
      /\ \A u \in Threads \ {Watcher} : Replacing(u)' <=> Replacing(u)
      /\ thread'[Watcher].at # "spawn"
  BY <1>0, <1>1 DEF Replacing
<1>8. ~overlapped' /\ Replacing(Watcher)' => \A c \in Clients : ~Replacing(c)
  BY <1>1 DEF Replacing
<1>9. OneReplaces'
  BY <1>0, <1>2, <1>7, <1>8, WatcherIsNoClient DEF DaemonInv, OneReplaces, Threads
<1>10. RuntimeIsKnown'
  <2>1. Alive \subseteq {books.pid} => Alive \subseteq {books'.pid}
    BY <1>0, RefreshKeeps DEF DaemonTypeOK
  <2>2. ~overlapped' /\ Replacing(Watcher)' => Alive \subseteq {books'.pid}
    BY <1>2, <1>7, <1>8, <2>1 DEF DaemonInv, RuntimeIsKnown, Threads
  <2> QED
    BY <1>0, <1>1, <1>2, <1>3, <1>7, <2>1, <2>2 DEF DaemonInv, RuntimeIsKnown
<1>11. NothingIsLeft'
  BY <1>0, <1>2, <1>3 DEF DaemonInv, NothingIsLeft
<1>12. CloseStaysSettled'
  BY <1>0, <1>1, <1>3 DEF DaemonInv, CloseStaysSettled, loaderVars
<1> QED
  BY <1>3, <1>4, <1>5, <1>6, <1>9, <1>10, <1>11, <1>12 DEF DaemonInv

-----------------------------------------------------------------------------
(* The theorems *)

LEMMA DaemonStepInv == DaemonInv /\ [Next]_vars => DaemonInv'
<1> SUFFICES ASSUME DaemonInv, [Next]_vars PROVE DaemonInv'
  OBVIOUS
<1>1. CASE UNCHANGED vars
  BY <1>1, QuietInv
<1>2. CASE \E t \in Threads : Call(t)
  BY <1>2, QuietInv, ReplaceRequestInv, OtherRequestInv, BuildWatchInv DEF Call
<1>3. CASE \E t \in Threads : ThreadStep(t)
  BY <1>3, AtWorkInv, AsksInv, RecordsInv, KillsOldInv, SpawnsInv, FinishInv, ApartInv, StopEndsInv
     DEF ThreadStep
<1>4. CASE Status \/ WatchStep \/ ServerStep \/ Edit
  BY <1>4, QuietInv, ApartInv, BuildEndsInv DEF WatchStep, ServerStep, Threads
<1>5. CASE \E p \in Pids : RuntimeStep(p) \/ UserClosesRuntime(p) \/ RuntimeExits(p)
  BY <1>5, RuntimeStepInv, UserStepInv
<1> QED
  BY <1>1, <1>2, <1>3, <1>4, <1>5 DEF Next

\* Who may replace the runtime, what it knows of it, what stop has waited for
\* and what the runtime's files still say, in every state of the daemon
\* (daemon_server.cpp).
THEOREM DaemonInvariant == Spec => []DaemonInv
<1>1. Init => DaemonInv
  BY DaemonInitInv
<1>2. DaemonInv /\ [Next]_vars => DaemonInv'
  BY DaemonStepInv
<1> QED
  BY <1>1, <1>2, PTL DEF Spec

\* A reload works on a copy of the books with the mutex free, and merges the
\* copy later (ReloadRuntimeBundleOrRestart, MergeRuntimeFields).  As long as
\* no two threads do so at a time, no runtime is lost on the way: each that is
\* up is in the books, or in the copy of the thread that replaces it.
THEOREM NoRuntimeIsLost == Spec => []OneRuntimeIsKnown
<1>1. DaemonInv => OneRuntimeIsKnown
  BY DEF DaemonInv, RuntimeIsKnown, OneRuntimeIsKnown, Alive
<1> QED
  BY <1>1, DaemonInvariant, PTL

\* stop waits for the watcher and then takes down the runtime in the books
\* (StopWatchThread, StopRuntime): the daemon that has ended leaves none behind,
\* whatever the watcher was doing when stop came.
THEOREM StoppedDaemonLeavesNothing == Spec => []StopLeavesNothing
<1>1. DaemonInv => StopLeavesNothing
  BY DEF DaemonInv, StopIsOrdered, NothingIsLeft, StopLeavesNothing
<1> QED
  BY <1>1, DaemonInvariant, PTL

\* A command stays in its file while it is run; a runtime that it takes down is
\* replaced by one that does not find it again (RemoveRuntimeArtifacts).
THEOREM CommandsRunOnce == Spec => []CommandRunsOnce
<1>1. DaemonInv => CommandRunsOnce
  BY DEF DaemonInv, CommandIsFresh
<1> QED
  BY <1>1, DaemonInvariant, PTL

LEMMA SpawnNeedsOpen ==
  ASSUME DaemonInv, [Next]_vars, closed = "settled",
         NEW p \in Pids, proc[p] = "unborn", proc'[p] # "unborn"
  PROVE  \E t \in Threads : thread[t].work = "open" /\ thread[t].at = "spawn"
<1>0. DaemonTypeOK
  BY DEF DaemonInv
<1>1. \E t \in Threads : Spawns(t)
  <2>1. proc' # proc
    OBVIOUS
  <2>2. ASSUME NEW q \in Pids, RuntimeStep(q) \/ UserClosesRuntime(q) \/ RuntimeExits(q)
        PROVE  FALSE
    <3>1. q # p /\ \A r \in Pids \ {q} : proc'[r] = proc[r]
      BY <1>0, <2>2 DEF RuntimeStep, UserClosesRuntime, RuntimeExits, Boots, TakesCommand,
         WritesResponse, RemovesCommand, Crashes, Working, UserCloses, Exits, DaemonTypeOK
    <3> QED
      BY <3>1
  <2>3. ASSUME NEW t \in Threads, KillsOld(t) \/ StopEnds(t) PROVE FALSE
    <3>1. proc'[p] = proc[p]
      BY <2>3 DEF KillsOld, StopEnds, StopProcess, IsProcessRunning
    <3> QED
      BY <3>1
  <2>4. ~(Status \/ WatchStep \/ ServerStep \/ Edit \/ UNCHANGED vars)
    BY <2>1 DEF Status, WatchStep, WatchCaptures, WatchSeesChange, WatchBuilds, BuildEnds,
       WatchEnds, ServerStep, ServerLeaves, ServerEnds, Edit, apartFromWatch, apartFromThread,
       apartFromStop, loaderVars, vars
  <2>5. \A t \in Threads : ~Call(t)
    BY <2>1 DEF Call, OpenReuses, OpenStarts, Reload, Eval, BuildWatch, Stop, loaderVars
  <2>6. \A t \in Threads : ThreadStep(t) => KillsOld(t) \/ StopEnds(t) \/ Spawns(t)
    BY <2>1 DEF ThreadStep, Looks, Asks, IsRefused, IsAnswered, GivesUp, Records, CannotStart,
       Settles, Merges, Marks, Joins, apartFromStop, loaderVars
  <2> QED
    BY <2>2, <2>3, <2>4, <2>5, <2>6 DEF Next
<1>2. PICK t \in Threads : Spawns(t)
  BY <1>1
<1>3. thread[t].at = "spawn" /\ thread[t].work \in {"open", "reload"}
  BY <1>2 DEF Spawns, DaemonInv, ThreadsInStage, Threads
<1>4. thread[t].work # "reload"
  BY <1>3 DEF DaemonInv, CloseStaysSettled
<1> QED
  BY <1>3, <1>4

\* A runtime whose user has closed it, when no reload was at work, is not
\* started again by one: Refresh finds the record of the close, and
\* RuntimeWasUserClosed ends the reload at its first look.
THEOREM CloseOutlivesReloads == Spec => SettledCloseIsKept
<1>1. DaemonInv /\ [Next]_vars =>
        [closed = "settled" => \A p \in Pids :
           proc[p] = "unborn" /\ proc'[p] # "unborn" =>
             \E t \in Threads : thread[t].work = "open" /\ thread[t].at = "spawn"]_vars
  BY SpawnNeedsOpen
<1> QED
  BY <1>1, DaemonInvariant, PTL DEF Spec, SettledCloseIsKept

-----------------------------------------------------------------------------
(* The calls of the MCP server to the main thread. *)

\* The queue of the main thread: a flush in progress, and where a posted
\* function can wait, in the queue or in what is left of a flush's batch.
Flushes == [fn : Fns \cup {NoFn}, rest : Seq(Fns)]
Line(f) == IF f = 0 THEN queue ELSE frames[f].rest
Lines == 0..Len(frames)

SyncTypes ==
  /\ stopper \in Stoppers
  /\ queue \in Seq(Fns) /\ frames \in Seq(Flushes)
  /\ call \in Calls \cup {NoCall} /\ (http \in {"waiting", "notDone"} <=> call # NoCall)
  /\ cancelled \in BOOLEAN /\ shutdown \in BOOLEAN
  /\ cancel \in [Calls -> BOOLEAN] /\ done \in [Calls -> BOOLEAN]
  /\ stage \in [Calls -> {"new", "posted", "running", "skipped", "ran"}]
  /\ result \in [Calls -> {"none", "ok", "invalid_handle"}]
  /\ stop = "joined" => http = "exited"

\* A closure waits at one place, and has not begun.
WaitsOnce ==
  /\ \A f, g \in Lines : \A i \in DOMAIN Line(f), j \in DOMAIN Line(g) :
       Line(f)[i] = Line(g)[j] => f = g /\ i = j
  /\ \A f \in Lines : \A i \in DOMAIN Line(f) : stage[Line(f)[i]] = "posted"

\* A task runs in a flush.
RunsInAFlush ==
  \A c \in Calls : stage[c] = "running" => \E f \in DOMAIN frames : frames[f].fn = c

\* What has begun is not new, what is done has ended, and a wait that was given
\* up is over.
CallHistory ==
  \A c \in Calls :
    /\ cancel[c] \/ call = c => stage[c] # "new"
    /\ cancel[c] => call # c
    /\ done[c] => stage[c] \in {"ran", "skipped"}

\* StopServer, on the main thread, does not run beside a flush; so no task runs
\* while the waits are called off.
MainStops ==
  stopper = "main" =>
    /\ stop # "none" => frames = <<>>
    /\ cancelled => stop \in {"join", "joined"}

\* A call goes on until it is done or given up, and what is skipped was given up.
CallsGoOn ==
  stopper = "main" =>
    \A c \in Calls :
      /\ stage[c] \in {"posted", "running"} \/ (stage[c] = "ran" /\ ~done[c])
           => cancel[c] \/ call = c
      /\ stage[c] = "skipped" => cancel[c]
      /\ stage[c] = "running" /\ ~shutdown => ~cancel[c]
      /\ result[c] = "ok" => stage[c] = "ran"

SyncInv == SyncTypes /\ WaitsOnce /\ RunsInAFlush /\ CallHistory /\ MainStops /\ CallsGoOn

-----------------------------------------------------------------------------
(* What the steps of the queue do to the lines. *)

LEMMA LineFacts ==
  ASSUME SyncTypes
  PROVE  /\ Len(frames) \in Nat /\ DOMAIN frames = 1..Len(frames)
         /\ \A f \in DOMAIN frames : frames[f] \in Flushes
         /\ \A f \in Lines : /\ Line(f) \in Seq(Fns) /\ Len(Line(f)) \in Nat
                             /\ DOMAIN Line(f) = 1..Len(Line(f))
                             /\ \A i \in DOMAIN Line(f) : Line(f)[i] \in Fns
<1>1. Len(frames) \in Nat /\ DOMAIN frames = 1..Len(frames)
  BY LenProperties DEF SyncTypes
<1>2. \A f \in DOMAIN frames : frames[f] \in Flushes
  BY <1>1, ElementOfSeq DEF SyncTypes
<1>3. \A f \in Lines : Line(f) \in Seq(Fns)
  <2>1. Line(0) \in Seq(Fns)
    BY DEF Line, SyncTypes
  <2>2. \A f \in Lines : f # 0 => f \in DOMAIN frames
    BY <1>1 DEF Lines
  <2>3. \A f \in Lines : f # 0 => Line(f) \in Seq(Fns)
    BY <1>2, <2>2 DEF Line, Flushes
  <2> QED
    BY <2>1, <2>3
<1> QED
  BY <1>1, <1>2, <1>3, LenProperties, ElementOfSeq

LEMMA TopFacts ==
  ASSUME SyncTypes, Flushing
  PROVE  /\ Len(frames) \in DOMAIN frames /\ Top = frames[Len(frames)] /\ Top \in Flushes
         /\ Len(frames) \in Lines /\ Line(Len(frames)) = Top.rest
<1>1. Len(frames) # 0
  BY EmptySeq DEF SyncTypes, Flushing
<1> QED
  BY <1>1, LineFacts DEF Top, Last, Lines, Line

\* The innermost flush is replaced.
LEMMA NewTop ==
  ASSUME SyncTypes, Flushing, NEW top \in Flushes, frames' = Append(Front(frames), top)
  PROVE  /\ frames' \in Seq(Flushes) /\ Len(frames') = Len(frames)
         /\ frames'[Len(frames)] = top
         /\ \A f \in DOMAIN frames : f # Len(frames) => frames'[f] = frames[f]
<1>1. Len(frames) \in Nat \ {0} /\ DOMAIN frames = 1..Len(frames) /\ frames \in Seq(Flushes)
  BY LineFacts, TopFacts DEF SyncTypes
<1>2. /\ Front(frames) \in Seq(Flushes) /\ Len(Front(frames)) = Len(frames) - 1
      /\ \A f \in 1..(Len(frames) - 1) : Front(frames)[f] = frames[f]
  BY <1>1, SubSeqProperties DEF Front
<1>3. /\ frames' \in Seq(Flushes) /\ Len(frames') = (Len(frames) - 1) + 1
      /\ frames'[(Len(frames) - 1) + 1] = top
      /\ \A f \in 1..(Len(frames) - 1) : frames'[f] = Front(frames)[f]
  BY <1>2, AppendProperties
<1>4. (Len(frames) - 1) + 1 = Len(frames)
  BY <1>1
<1>5. \A f \in DOMAIN frames : f # Len(frames) => f \in 1..(Len(frames) - 1)
  BY <1>1
<1> QED
  BY <1>2, <1>3, <1>4, <1>5

LEMMA StartsFacts ==
  ASSUME SyncTypes, NEW c \in Calls, Starts(c), NEW n, n = Len(frames)
  PROVE  /\ frames' \in Seq(Flushes) /\ Len(frames') = n /\ queue' = queue
         /\ n \in DOMAIN frames
         /\ frames[n].fn = NoFn /\ frames'[n].fn = c
         /\ Line(n)[1] = c /\ 1 \in DOMAIN Line(n)
         /\ DOMAIN Line(n)' = 1..(Len(Line(n)) - 1)
         /\ \A i \in DOMAIN Line(n)' : Line(n)'[i] = Line(n)[i + 1]
         /\ \A f \in DOMAIN frames : f # n => frames'[f] = frames[f]
<1> DEFINE top == [fn |-> c, rest |-> Tail(Top.rest)]
<1>1. /\ Flushing /\ Top.fn = NoFn /\ Top.rest # <<>> /\ c = Head(Top.rest)
      /\ frames' = Append(Front(frames), top) /\ queue' = queue
  BY DEF Starts
<1>2. /\ n \in DOMAIN frames /\ Top = frames[n] /\ Line(n) = Top.rest /\ Top.rest \in Seq(Fns)
      /\ n \in Lines /\ n # 0
  BY <1>1, TopFacts, LineFacts DEF Flushes
<1>3. /\ Tail(Top.rest) \in Seq(Fns) /\ Len(Tail(Top.rest)) = Len(Top.rest) - 1
      /\ \A i \in 1..(Len(Top.rest) - 1) : Tail(Top.rest)[i] = Top.rest[i + 1]
      /\ Head(Top.rest) = Top.rest[1]
      /\ Len(Top.rest) \in Nat /\ Len(Top.rest) # 0
  BY <1>1, <1>2, HeadTailProperties, LenProperties, EmptySeq
<1>4. top \in Flushes
  BY <1>3 DEF Flushes, Calls
<1> HIDE DEF top
<1>5. /\ frames' \in Seq(Flushes) /\ Len(frames') = n /\ frames'[n] = top
      /\ \A f \in DOMAIN frames : f # n => frames'[f] = frames[f]
  BY <1>1, <1>4, NewTop
<1>6. Line(n)' = Tail(Top.rest) /\ top.fn = c
  <2>1. top.rest = Tail(Top.rest) /\ top.fn = c
    BY DEF top
  <2>2. Line(n)' = frames'[n].rest
    BY <1>2, <1>5 DEF Line
  <2> QED
    BY <1>5, <2>1, <2>2
<1>7. DOMAIN Tail(Top.rest) = 1..(Len(Top.rest) - 1)
  BY <1>3, LenProperties
<1>8. 1 \in DOMAIN Line(n)
  BY <1>2, <1>3, LenProperties
<1> QED
  BY <1>1, <1>2, <1>3, <1>5, <1>6, <1>7, <1>8

LEMMA ReturnsFacts ==
  ASSUME SyncTypes, NEW c \in Calls, Returns(c)
  PROVE  /\ frames' \in Seq(Flushes) /\ Len(frames') = Len(frames) /\ queue' = queue
         /\ Len(frames) \in DOMAIN frames /\ frames[Len(frames)].fn = c
         /\ \A f \in DOMAIN frames : /\ frames'[f].rest = frames[f].rest
                                     /\ f # Len(frames) => frames'[f] = frames[f]
<1>1. /\ Flushing /\ Top.fn = c
      /\ frames' = Append(Front(frames), [Top EXCEPT !.fn = NoFn]) /\ queue' = queue
  BY DEF Returns
<1>2. PICK top \in Flushes : top = [Top EXCEPT !.fn = NoFn] /\ top.rest = Top.rest
  BY <1>1, TopFacts DEF Flushes
<1>3. /\ frames' \in Seq(Flushes) /\ Len(frames') = Len(frames)
      /\ frames'[Len(frames)] = top
      /\ \A f \in DOMAIN frames : f # Len(frames) => frames'[f] = frames[f]
  BY <1>1, <1>2, NewTop
<1> QED
  BY <1>1, <1>2, <1>3, TopFacts

LEMMA FlushEndsFacts ==
  ASSUME SyncTypes, FlushEnds
  PROVE  /\ frames' \in Seq(Flushes) /\ Len(frames') = Len(frames) - 1 /\ queue' = queue
         /\ Len(frames) \in DOMAIN frames /\ frames[Len(frames)].fn = NoFn
         /\ DOMAIN frames' = 1..(Len(frames) - 1)
         /\ \A f \in 1..(Len(frames) - 1) : frames'[f] = frames[f]
<1>1. Flushing /\ Top.fn = NoFn /\ frames' = Front(frames) /\ queue' = queue
  BY DEF FlushEnds
<1>2. Len(frames) \in Nat \ {0} /\ DOMAIN frames = 1..Len(frames) /\ frames \in Seq(Flushes)
      /\ Top = frames[Len(frames)]
  BY <1>1, LineFacts, TopFacts DEF SyncTypes
<1>3. /\ Front(frames) \in Seq(Flushes) /\ Len(Front(frames)) = Len(frames) - 1
      /\ \A f \in 1..(Len(frames) - 1) : Front(frames)[f] = frames[f]
  BY <1>2, SubSeqProperties DEF Front
<1> QED
  BY <1>1, <1>2, <1>3, LenProperties

LEMMA FlushTakesFacts ==
  ASSUME SyncTypes, FlushTakes
  PROVE  /\ frames' \in Seq(Flushes) /\ Len(frames') = Len(frames) + 1 /\ queue' = <<>>
         /\ frames'[Len(frames) + 1] = [fn |-> NoFn, rest |-> queue]
         /\ \A f \in DOMAIN frames : frames'[f] = frames[f]
<1>1. [fn |-> NoFn, rest |-> queue] \in Flushes /\ frames \in Seq(Flushes)
  BY DEF SyncTypes, Flushes
<1> QED
  BY <1>1, AppendProperties, LineFacts DEF FlushTakes

LEMMA PostFacts ==
  ASSUME SyncTypes, NEW c \in Calls, PostFn(c)
  PROVE  /\ queue' \in Seq(Fns) /\ frames' = frames
         /\ DOMAIN queue' = 1..(Len(queue) + 1)
         /\ queue'[Len(queue) + 1] = c
         /\ \A i \in DOMAIN queue : queue'[i] = queue[i]
<1>1. queue \in Seq(Fns) /\ c \in Fns
  BY DEF SyncTypes, Calls
<1> QED
  BY <1>1, AppendProperties, LenProperties DEF PostFn

-----------------------------------------------------------------------------
(* Types *)

\* The steps that leave the queue alone.
OtherStep ==
  \/ StartServer \/ StopServer \/ Accept \/ Disconnected \/ ServeLoopEnds
  \/ SeesDone \/ KeepsWaiting \/ WaitGivesUp \/ ShutdownAsked
  \/ \E c \in Calls : TaskCloses(c) \/ TaskReturns(c)

LEMMA OtherStepsRest == ASSUME OtherStep PROVE UNCHANGED <<queue, frames>>
BY DEF OtherStep, StartServer, StopServer, StopBegins, CallOff, Join, ServerStopped, Accept,
       Disconnected, ServeLoopEnds, SeesDone, KeepsWaiting, WaitGivesUp, ShutdownAsked,
       TaskCloses, TaskReturns, mtqVars

\* A step of the system is one that leaves the queue alone, or one of these.
LEMMA SyncCases ==
  ASSUME [SyncNext]_syncVars
  PROVE  /\ stopper' = stopper
         /\ \/ OtherStep \/ UNCHANGED syncVars
            \/ \E c \in Calls : RequestComes(c) \/ ClosureStarts(c) \/ ClosureEnds(c)
            \/ MainFlushes \/ MainFlushEnds
BY DEF SyncNext, SyncStep, HttpStep, MainStep, ClosureStep, OtherStep, syncVars

LEMMA SyncTypesKept ==
  ASSUME SyncTypes, [SyncNext]_syncVars
  PROVE  SyncTypes'
<1>1. stopper' = stopper /\ NoCall \notin Calls
  BY SyncCases, NoFnIsNoFn DEF Calls, NoCall
<1>2. CASE OtherStep
  <2>1. queue' = queue /\ frames' = frames
    BY <1>2, OtherStepsRest
  <2>2. CASE StartServer \/ StopServer
    BY <1>1, <2>1, <2>2 DEF SyncTypes, StartServer, StopServer, StopBegins, CallOff, Join,
                            ServerStopped, flags
  <2>3. CASE Accept \/ Disconnected \/ ServeLoopEnds \/ KeepsWaiting \/ ShutdownAsked
    BY <1>1, <2>1, <2>3 DEF SyncTypes, Accept, Disconnected, ServeLoopEnds, KeepsWaiting,
                            ShutdownAsked, flags, server
  <2>4. CASE SeesDone \/ WaitGivesUp
    BY <1>1, <2>1, <2>4 DEF SyncTypes, SeesDone, WaitGivesUp, flags, server
  <2>5. ASSUME NEW c \in Calls, TaskCloses(c) \/ TaskReturns(c) PROVE SyncTypes'
    BY <1>1, <2>1, <2>5 DEF SyncTypes, TaskCloses, TaskReturns, flags, server
  <2> QED
    BY <1>2, <2>2, <2>3, <2>4, <2>5 DEF OtherStep
<1>3. CASE UNCHANGED syncVars
  BY <1>3 DEF SyncTypes, syncVars, syncSteps, mtqVars, flags, server
<1>4. ASSUME NEW c \in Calls, RequestComes(c) PROVE SyncTypes'
  <2>1. queue' \in Seq(Fns) /\ frames' \in Seq(Flushes)
    <3>1. UNCHANGED mtqVars \/ PostFn(c)
      BY <1>4 DEF RequestComes
    <3> QED
      BY <3>1, PostFacts DEF SyncTypes, mtqVars
  <2> QED
    BY <1>1, <1>4, <2>1 DEF SyncTypes, RequestComes, flags, server
<1>5. ASSUME NEW c \in Calls, ClosureStarts(c) \/ ClosureEnds(c) PROVE SyncTypes'
  <2>1. queue' \in Seq(Fns) /\ frames' \in Seq(Flushes)
    <3>1. Starts(c) \/ Returns(c)
      BY <1>5 DEF ClosureStarts, ClosureEnds
    <3> QED
      BY <3>1, StartsFacts, ReturnsFacts DEF SyncTypes
  <2> QED
    BY <1>1, <1>5, <2>1 DEF SyncTypes, ClosureStarts, ClosureEnds, flags, server
<1>6. CASE MainFlushes \/ MainFlushEnds
  <2>1. queue' \in Seq(Fns) /\ frames' \in Seq(Flushes)
    <3>1. FlushTakes \/ FlushEnds
      BY <1>6 DEF MainFlushes, MainFlushEnds
    <3> QED
      BY <3>1, FlushTakesFacts, FlushEndsFacts, EmptySeq DEF SyncTypes
  <2> QED
    BY <1>1, <1>6, <2>1 DEF SyncTypes, MainFlushes, MainFlushEnds, flags, server
<1> QED
  BY <1>2, <1>3, <1>4, <1>5, <1>6, SyncCases

-----------------------------------------------------------------------------
(* A closure waits at one place. *)

LEMMA OtherStages ==
  ASSUME SyncTypes, OtherStep \/ UNCHANGED syncVars
  PROVE  /\ \A c \in Calls : stage[c] # "running" => stage'[c] = stage[c]
         /\ \A c \in Calls : stage'[c] = stage[c] \/ stage'[c] = "ran"
<1>1. \/ stage' = stage
      \/ \E c \in Calls : stage[c] = "running" /\ stage' = [stage EXCEPT ![c] = "ran"]
  BY DEF OtherStep, StartServer, StopServer, StopBegins, CallOff, Join, ServerStopped, Accept,
         Disconnected, ServeLoopEnds, SeesDone, KeepsWaiting, WaitGivesUp, ShutdownAsked,
         TaskCloses, TaskReturns, syncVars, syncSteps
<1> QED
  BY <1>1 DEF SyncTypes

LEMMA WaitsOnceKept ==
  ASSUME SyncTypes, WaitsOnce, [SyncNext]_syncVars
  PROVE  WaitsOnce'
<1>0. /\ \A f \in Lines : \A i \in DOMAIN Line(f) : Line(f)[i] \in Calls
      /\ Lines = {0} \cup DOMAIN frames /\ 0 \notin DOMAIN frames
  BY LineFacts DEF Calls, Lines
<1>1. CASE OtherStep \/ UNCHANGED syncVars
  <2>1. queue' = queue /\ frames' = frames
    BY <1>1, OtherStepsRest DEF syncVars, syncSteps, mtqVars
  <2>2. Lines' = Lines /\ \A f \in Lines : Line(f)' = Line(f)
    BY <2>1 DEF Lines, Line
  <2>3. \A c \in Calls : stage[c] = "posted" => stage'[c] = "posted"
    BY <1>1, OtherStages
  <2>4. ASSUME NEW f \in Lines', NEW i \in DOMAIN Line(f)' PROVE stage'[Line(f)'[i]] = "posted"
    <3>1. f \in Lines /\ i \in DOMAIN Line(f) /\ Line(f)'[i] = Line(f)[i]
      BY <2>2
    <3> QED
      BY <1>0, <2>3, <3>1 DEF WaitsOnce
  <2> QED
    BY <2>2, <2>4 DEF WaitsOnce
<1>2. ASSUME NEW c \in Calls, RequestComes(c) PROVE WaitsOnce'
  <2>1. CASE UNCHANGED <<mtqVars, stage>>
    <3>1. Lines' = Lines /\ \A f : Line(f)' = Line(f)
      BY <2>1 DEF Lines, Line, mtqVars
    <3> QED
      BY <2>1, <3>1 DEF WaitsOnce
  <2>2. CASE PostFn(c) /\ stage' = [stage EXCEPT ![c] = "posted"]
    <3>1. stage[c] = "new"
      BY <1>2 DEF RequestComes
    <3>2. \A f \in Lines : \A i \in DOMAIN Line(f) : Line(f)[i] # c
      BY <3>1 DEF WaitsOnce
    <3>3. /\ stage'[c] = "posted"
          /\ \A d \in Calls : stage[d] = "posted" => stage'[d] = "posted"
      BY <2>2 DEF SyncTypes
    <3>4. Lines' = Lines /\ \A f \in Lines : f # 0 => Line(f)' = Line(f)
      BY <2>2, PostFacts DEF Lines, Line
    <3> DEFINE last == Len(queue) + 1
    <3>5. /\ Line(0) = queue /\ Line(0)' = queue' /\ 0 \in Lines
          /\ DOMAIN Line(0) = 1..Len(queue) /\ Len(queue) \in Nat
          /\ DOMAIN Line(0)' = 1..last /\ Line(0)'[last] = c
          /\ \A i \in DOMAIN Line(0) : Line(0)'[i] = Line(0)[i]
      <4>1. 0 \in Lines /\ Line(0) = queue /\ Line(0)' = queue'
        BY <1>0 DEF Line
      <4> QED
        BY <2>2, <4>1, LineFacts, PostFacts
    <3>6. ASSUME NEW f \in Lines', NEW i \in DOMAIN Line(f)'
          PROVE  \/ f = 0 /\ i = last /\ Line(f)'[i] = c
                 \/ f \in Lines /\ i \in DOMAIN Line(f) /\ Line(f)'[i] = Line(f)[i]
      <4>1. CASE f # 0
        BY <3>4, <4>1
      <4>2. CASE f = 0
        <5>1. i = last \/ i \in DOMAIN Line(0)
          BY <3>5, <4>2
        <5> QED
          BY <3>5, <4>2, <5>1
      <4> QED
        BY <4>1, <4>2
    <3> QED
      BY <1>0, <3>2, <3>3, <3>6 DEF WaitsOnce
  <2> QED
    BY <1>2, <2>1, <2>2 DEF RequestComes
<1>3. ASSUME NEW c \in Calls, ClosureStarts(c) PROVE WaitsOnce'
  <2>0. PICK n : n = Len(frames)
    OBVIOUS
  <2>1. /\ n \in DOMAIN frames /\ Len(frames') = n /\ queue' = queue
        /\ Line(n)[1] = c /\ 1 \in DOMAIN Line(n)
        /\ DOMAIN Line(n)' = 1..(Len(Line(n)) - 1)
        /\ \A i \in DOMAIN Line(n)' : Line(n)'[i] = Line(n)[i + 1]
        /\ \A f \in DOMAIN frames : f # n => frames'[f] = frames[f]
    <3>1. Starts(c)
      BY <1>3 DEF ClosureStarts
    <3> QED
      BY <2>0, <3>1, StartsFacts
  <2>2. Lines' = Lines /\ \A f \in Lines : f # n => Line(f)' = Line(f)
    BY <1>0, <2>0, <2>1 DEF Lines, Line
  <2>3. DOMAIN Line(n) = 1..Len(Line(n)) /\ Len(Line(n)) \in Nat /\ n \in Lines
    BY <1>0, <2>1, LineFacts
  <2>4. \A i \in DOMAIN Line(n)' : i + 1 \in DOMAIN Line(n) /\ i + 1 # 1
    BY <2>1, <2>3
  <2>5. \A d \in Calls : stage[d] = "posted" /\ d # c => stage'[d] = "posted"
    BY <1>3 DEF ClosureStarts, SyncTypes
  <2> DEFINE from(f, i) == IF f = n THEN i + 1 ELSE i
  <2>6. ASSUME NEW f \in Lines', NEW i \in DOMAIN Line(f)'
        PROVE  /\ f \in Lines /\ from(f, i) \in DOMAIN Line(f)
               /\ Line(f)'[i] = Line(f)[from(f, i)]
               /\ Line(f)'[i] # c
               /\ i \in Nat
    <3>1. /\ f \in Lines /\ from(f, i) \in DOMAIN Line(f)
          /\ Line(f)'[i] = Line(f)[from(f, i)]
      BY <2>1, <2>2, <2>4
    <3>2. f = n => from(f, i) # 1
      BY <2>4
    <3>3. Line(f)[from(f, i)] # c
      BY <2>1, <2>3, <3>1, <3>2 DEF WaitsOnce
    <3>4. i \in Nat
      <4>1. CASE f = n
        BY <2>1, <4>1
      <4>2. CASE f # n
        BY <3>1, <4>2, LineFacts
      <4> QED
        BY <4>1, <4>2
    <3> QED
      BY <3>1, <3>3, <3>4
  <2>7. ASSUME NEW f \in Lines', NEW g \in Lines', NEW i \in DOMAIN Line(f)',
               NEW j \in DOMAIN Line(g)', Line(f)'[i] = Line(g)'[j]
        PROVE  f = g /\ i = j
    <3>1. f = g /\ from(f, i) = from(g, j)
      BY <2>6, <2>7 DEF WaitsOnce
    <3>2. i \in Nat /\ j \in Nat
      BY <2>6
    <3> QED
      BY <3>1, <3>2
  <2>8. ASSUME NEW f \in Lines', NEW i \in DOMAIN Line(f)' PROVE stage'[Line(f)'[i]] = "posted"
    <3>1. PICK j \in DOMAIN Line(f) : f \in Lines /\ Line(f)'[i] = Line(f)[j] /\ Line(f)[j] # c
      BY <2>6
    <3> QED
      BY <1>0, <2>5, <3>1 DEF WaitsOnce
  <2> QED
    BY <2>7, <2>8 DEF WaitsOnce
<1>4. ASSUME NEW c \in Calls, ClosureEnds(c) PROVE WaitsOnce'
  <2>1. /\ Len(frames') = Len(frames) /\ queue' = queue /\ stage' = stage
        /\ \A f \in DOMAIN frames : frames'[f].rest = frames[f].rest
    BY <1>4, ReturnsFacts DEF ClosureEnds
  <2>2. Lines' = Lines /\ \A f \in Lines : Line(f)' = Line(f)
    BY <1>0, <2>1 DEF Lines, Line
  <2> QED
    BY <2>1, <2>2 DEF WaitsOnce
<1>5. CASE MainFlushes
  <2>0. PICK n : n = Len(frames) + 1
    OBVIOUS
  <2>1. /\ Len(frames') = n /\ queue' = <<>> /\ frames'[n] = [fn |-> NoFn, rest |-> queue]
        /\ \A f \in DOMAIN frames : frames'[f] = frames[f]
    <3>1. FlushTakes
      BY <1>5 DEF MainFlushes
    <3> QED
      BY <2>0, <3>1, FlushTakesFacts
  <2>2. /\ Lines' = Lines \cup {n} /\ n \notin Lines /\ 0 \in Lines
        /\ Line(n)' = Line(0) /\ DOMAIN Line(0)' = {}
        /\ \A f \in Lines : f # 0 => Line(f)' = Line(f)
    <3>1. Len(frames) \in Nat
      BY LineFacts
    <3>2. Lines' = Lines \cup {n} /\ n \notin Lines /\ 0 \in Lines /\ n # 0
      BY <2>0, <2>1, <3>1 DEF Lines
    <3> QED
      BY <1>0, <2>1, <3>2 DEF Line
  <2>3. stage' = stage
    BY <1>5 DEF MainFlushes
  <2> DEFINE from(f) == IF f = n THEN 0 ELSE f
  <2>4. ASSUME NEW f \in Lines', NEW i \in DOMAIN Line(f)'
        PROVE  f # 0 /\ from(f) \in Lines /\ Line(f)' = Line(from(f))
    BY <2>2
  <2> QED
    BY <2>3, <2>4 DEF WaitsOnce
<1>6. CASE MainFlushEnds
  <2>1. /\ queue' = queue /\ stage' = stage /\ DOMAIN frames' = 1..(Len(frames) - 1)
        /\ Len(frames') = Len(frames) - 1 /\ Len(frames) \in DOMAIN frames
        /\ \A f \in 1..(Len(frames) - 1) : frames'[f] = frames[f]
    BY <1>6, FlushEndsFacts DEF MainFlushEnds
  <2>2. Lines' \subseteq Lines /\ \A f \in Lines' : Line(f)' = Line(f)
    BY <2>1, LineFacts DEF Lines, Line
  <2> QED
    BY <2>1, <2>2 DEF WaitsOnce
<1> QED
  BY <1>1, <1>2, <1>3, <1>4, <1>5, <1>6, SyncCases

-----------------------------------------------------------------------------
(* How far a call has come *)

LEMMA RunsKept ==
  ASSUME SyncTypes, RunsInAFlush, [SyncNext]_syncVars
  PROVE  RunsInAFlush'
<1>0. DOMAIN frames = 1..Len(frames) /\ Len(frames) \in Nat
  BY LineFacts
<1>1. CASE OtherStep \/ UNCHANGED syncVars
  <2>1. frames' = frames
    BY <1>1, OtherStepsRest DEF syncVars, syncSteps, mtqVars
  <2>2. \A c \in Calls : stage'[c] = "running" => stage[c] = "running"
    BY <1>1, OtherStages
  <2> QED
    BY <2>1, <2>2 DEF RunsInAFlush
<1>2. ASSUME NEW c \in Calls, RequestComes(c) PROVE RunsInAFlush'
  <2>1. frames' = frames
    BY <1>2 DEF RequestComes, PostFn, mtqVars
  <2>2. \A d \in Calls : stage'[d] = "running" => stage[d] = "running"
    BY <1>2 DEF RequestComes, SyncTypes
  <2> QED
    BY <2>1, <2>2 DEF RunsInAFlush
<1>3. ASSUME NEW c \in Calls, ClosureStarts(c) PROVE RunsInAFlush'
  <2>0. PICK n : n = Len(frames)
    OBVIOUS
  <2>1. /\ frames' \in Seq(Flushes) /\ Len(frames') = Len(frames)
        /\ n \in DOMAIN frames /\ frames[n].fn = NoFn /\ frames'[n].fn = c
        /\ \A f \in DOMAIN frames : f # n => frames'[f] = frames[f]
    BY <1>3, <2>0, StartsFacts DEF ClosureStarts
  <2>2. DOMAIN frames' = DOMAIN frames
    BY <1>0, <2>1, LenProperties
  <2>3. \A d \in Calls : d # c => stage'[d] = stage[d]
    BY <1>3 DEF ClosureStarts, SyncTypes
  <2>4. NoFn \notin Calls
    BY NoFnIsNoFn DEF Calls
  <2> QED
    BY <2>1, <2>2, <2>3, <2>4 DEF RunsInAFlush
<1>4. ASSUME NEW c \in Calls, ClosureEnds(c) PROVE RunsInAFlush'
  <2>0. PICK n : n = Len(frames)
    OBVIOUS
  <2>1. /\ frames' \in Seq(Flushes) /\ Len(frames') = Len(frames)
        /\ n \in DOMAIN frames /\ frames[n].fn = c
        /\ \A f \in DOMAIN frames : f # n => frames'[f] = frames[f]
    BY <1>4, <2>0, ReturnsFacts DEF ClosureEnds
  <2>2. DOMAIN frames' = DOMAIN frames
    BY <1>0, <2>1, LenProperties
  <2>3. stage' = stage /\ stage[c] # "running"
    BY <1>4 DEF ClosureEnds
  <2> QED
    BY <2>1, <2>2, <2>3 DEF RunsInAFlush
<1>5. CASE MainFlushes
  <2>1. /\ frames' \in Seq(Flushes) /\ Len(frames') = Len(frames) + 1
        /\ \A f \in DOMAIN frames : frames'[f] = frames[f]
    BY <1>5, FlushTakesFacts DEF MainFlushes
  <2>2. DOMAIN frames' = 1..(Len(frames) + 1)
    BY <2>1, LenProperties
  <2>3. DOMAIN frames \subseteq DOMAIN frames'
    BY <1>0, <2>2
  <2>4. stage' = stage
    BY <1>5 DEF MainFlushes
  <2> QED
    BY <2>1, <2>3, <2>4 DEF RunsInAFlush
<1>6. CASE MainFlushEnds
  <2>0. PICK n : n = Len(frames)
    OBVIOUS
  <2>1. /\ n \in DOMAIN frames /\ frames[n].fn = NoFn /\ DOMAIN frames' = 1..(n - 1)
        /\ \A f \in 1..(n - 1) : frames'[f] = frames[f]
    BY <1>6, <2>0, FlushEndsFacts DEF MainFlushEnds
  <2>2. \A f \in DOMAIN frames : f # n => f \in 1..(n - 1)
    BY <1>0, <2>0
  <2>3. stage' = stage /\ NoFn \notin Calls
    BY <1>6, NoFnIsNoFn DEF MainFlushEnds, Calls
  <2> QED
    BY <2>1, <2>2, <2>3 DEF RunsInAFlush
<1> QED
  BY <1>1, <1>2, <1>3, <1>4, <1>5, <1>6, SyncCases

\* The closure that starts was posted.
LEMMA StartsPosted ==
  ASSUME SyncTypes, WaitsOnce, NEW c \in Calls, ClosureStarts(c)
  PROVE  stage[c] = "posted" /\ frames # <<>>
<1>0. PICK n : n = Len(frames)
  OBVIOUS
<1>1. /\ n \in DOMAIN frames /\ Line(n)[1] = c /\ 1 \in DOMAIN Line(n)
  BY <1>0, StartsFacts DEF ClosureStarts
<1>2. n \in Lines
  BY <1>1, LineFacts DEF Lines
<1> QED
  BY <1>1, <1>2 DEF WaitsOnce, ClosureStarts, Starts, Flushing

\* The steps by what they do to the calls.
CallsRest == UNCHANGED <<call, cancel, done, stage, result>>

LEMMA QuietSteps ==
  ASSUME \/ StartServer \/ StopServer \/ Accept \/ Disconnected \/ ServeLoopEnds
         \/ KeepsWaiting \/ ShutdownAsked \/ MainFlushes \/ MainFlushEnds
         \/ UNCHANGED syncVars \/ \E c \in Calls : TaskCloses(c)
  PROVE  CallsRest
BY DEF StartServer, StopServer, StopBegins, CallOff, Join, ServerStopped, Accept, Disconnected,
       ServeLoopEnds, KeepsWaiting, ShutdownAsked, TaskCloses, MainFlushes, MainFlushEnds,
       syncVars, syncSteps, CallsRest

LEMMA HistoryKept ==
  ASSUME SyncTypes, WaitsOnce, CallHistory, [SyncNext]_syncVars
  PROVE  CallHistory'
<1>0. NoCall \notin Calls
  BY NoFnIsNoFn DEF Calls, NoCall
<1>1. CASE CallsRest
  BY <1>1 DEF CallHistory, CallsRest
<1>2. ASSUME NEW c \in Calls, RequestComes(c) PROVE CallHistory'
  BY <1>0, <1>2 DEF CallHistory, RequestComes, SyncTypes
<1>3. CASE SeesDone
  BY <1>0, <1>3 DEF CallHistory, SeesDone, SyncTypes
<1>4. CASE WaitGivesUp
  BY <1>0, <1>4 DEF CallHistory, WaitGivesUp, SyncTypes
<1>5. ASSUME NEW c \in Calls, ClosureStarts(c) PROVE CallHistory'
  <2>1. stage[c] = "posted"
    BY <1>5, StartsPosted
  <2> QED
    BY <1>5, <2>1 DEF CallHistory, ClosureStarts, SyncTypes
<1>6. ASSUME NEW c \in Calls, TaskReturns(c) PROVE CallHistory'
  BY <1>6 DEF CallHistory, TaskReturns, SyncTypes
<1>7. ASSUME NEW c \in Calls, ClosureEnds(c) PROVE CallHistory'
  BY <1>7 DEF CallHistory, ClosureEnds, SyncTypes
<1> QED
  BY <1>1, <1>2, <1>3, <1>4, <1>5, <1>6, <1>7, SyncCases, QuietSteps DEF OtherStep

LEMMA MainStopsKept ==
  ASSUME SyncTypes, MainStops, [SyncNext]_syncVars
  PROVE  MainStops'
<1>0. stopper' = stopper
  BY SyncCases
<1> SUFFICES ASSUME stopper = "main"
             PROVE  /\ stop' # "none" => frames' = <<>>
                    /\ cancelled' => stop' \in {"join", "joined"}
  BY <1>0 DEF MainStops
<1>1. CASE StartServer \/ StopServer
  <2>1. frames' = frames
    BY <1>1, OtherStepsRest DEF OtherStep
  <2> QED
    BY <1>1, <2>1 DEF MainStops, StartServer, StopServer, StopBegins, CallOff, Join,
                      ServerStopped, MainIsFree, Flushing, flags
<1>2. CASE OtherStep /\ UNCHANGED <<stop, cancelled>>
  BY <1>2, OtherStepsRest DEF MainStops
<1>3. CASE UNCHANGED syncVars
  BY <1>3 DEF MainStops, syncVars, syncSteps, mtqVars, flags, server
<1>4. ASSUME NEW c \in Calls, RequestComes(c) \/ ClosureStarts(c) \/ ClosureEnds(c)
      PROVE  /\ stop' # "none" => frames' = <<>>
             /\ cancelled' => stop' \in {"join", "joined"}
  <2>1. UNCHANGED <<stop, cancelled>> /\ (frames # <<>> \/ frames' = frames)
    BY <1>4 DEF RequestComes, ClosureStarts, ClosureEnds, PostFn, Starts, Returns, Flushing,
                mtqVars, server, flags
  <2> QED
    BY <2>1 DEF MainStops
<1>5. CASE MainFlushes \/ MainFlushEnds
  <2>1. UNCHANGED <<stop, cancelled>> /\ (frames # <<>> \/ stop = "none")
    BY <1>5 DEF MainFlushes, MainFlushEnds, FlushEnds, Flushing, server, flags
  <2> QED
    BY <2>1 DEF MainStops
<1>6. OtherStep => StartServer \/ StopServer \/ UNCHANGED <<stop, cancelled>>
  BY DEF OtherStep, Accept, Disconnected, ServeLoopEnds, SeesDone, KeepsWaiting, WaitGivesUp,
         ShutdownAsked, TaskCloses, TaskReturns, server, flags
<1> QED
  BY <1>1, <1>2, <1>3, <1>4, <1>5, <1>6, SyncCases

LEMMA CallsGoOnKept ==
  ASSUME SyncInv, [SyncNext]_syncVars
  PROVE  CallsGoOn'
<1>0. stopper' = stopper /\ NoCall \notin Calls
  BY SyncCases, NoFnIsNoFn DEF Calls, NoCall
<1> SUFFICES ASSUME stopper = "main"
             PROVE  \A c \in Calls :
                      /\ stage'[c] \in {"posted", "running"} \/ (stage'[c] = "ran" /\ ~done'[c])
                           => cancel'[c] \/ call' = c
                      /\ stage'[c] = "skipped" => cancel'[c]
                      /\ stage'[c] = "running" /\ ~shutdown' => ~cancel'[c]
                      /\ result'[c] = "ok" => stage'[c] = "ran"
  BY <1>0 DEF CallsGoOn
<1> DEFINE GoesOn(c) ==
      /\ stage[c] \in {"posted", "running"} \/ (stage[c] = "ran" /\ ~done[c])
           => cancel[c] \/ call = c
      /\ stage[c] = "skipped" => cancel[c]
      /\ stage[c] = "running" /\ ~shutdown => ~cancel[c]
      /\ result[c] = "ok" => stage[c] = "ran"
<1>1. \A c \in Calls : GoesOn(c)
  BY DEF SyncInv, CallsGoOn
<1>2. shutdown => shutdown'
  BY SyncCases DEF OtherStep, StartServer, StopServer, StopBegins, CallOff, Join, ServerStopped,
         Accept, Disconnected, ServeLoopEnds, SeesDone, KeepsWaiting, WaitGivesUp, ShutdownAsked,
         TaskCloses, TaskReturns, RequestComes, ClosureStarts, ClosureEnds, MainFlushes,
         MainFlushEnds, syncVars, syncSteps, flags
<1>3. SyncTypes /\ CallHistory
  BY DEF SyncInv
<1>4. CASE CallsRest
  BY <1>1, <1>2, <1>4 DEF CallsRest
<1>5. ASSUME NEW c \in Calls, RequestComes(c) PROVE \A d \in Calls : GoesOn(d)'
  <2>1. call = NoCall /\ stage[c] = "new" /\ UNCHANGED <<cancel, done>>
    BY <1>3, <1>5 DEF RequestComes, SyncTypes
  <2>2. ~cancel[c]
    BY <1>3, <2>1 DEF CallHistory
  <2>3. \A d \in Calls : d # c => stage'[d] = stage[d] /\ result'[d] = result[d]
    BY <1>3, <1>5 DEF RequestComes, SyncTypes
  <2>4. \/ stage'[c] = "new" /\ result'[c] = "invalid_handle"
        \/ stage'[c] = "posted" /\ call' = c /\ result'[c] = "none"
    BY <1>3, <1>5 DEF RequestComes, SyncTypes
  <2>5. GoesOn(c)'
    BY <2>4
  <2>6. ASSUME NEW d \in Calls, d # c PROVE GoesOn(d)'
    <3>1. GoesOn(d) /\ call # d
      BY <1>0, <1>1, <2>1
    <3> QED
      BY <1>2, <2>1, <2>3, <2>6, <3>1
  <2> QED
    BY <2>5, <2>6
<1>6. CASE SeesDone
  <2>1. call \in Calls /\ UNCHANGED <<cancel, done, stage>>
    BY <1>3, <1>6 DEF SeesDone, SyncTypes
  <2>2. CASE done[call]
    <3>1. /\ call' = NoCall /\ result'[call] = "ok"
          /\ \A d \in Calls : d # call => result'[d] = result[d]
      BY <1>3, <1>6, <2>1, <2>2 DEF SeesDone, SyncTypes
    <3>2. stage[call] = "ran"
      BY <1>1, <1>3, <2>1, <2>2 DEF CallHistory
    <3> QED
      BY <1>1, <1>2, <2>1, <2>2, <3>1, <3>2
  <2>3. CASE ~done[call]
    BY <1>1, <1>2, <1>6, <2>1, <2>3 DEF SeesDone
  <2> QED
    BY <2>2, <2>3
<1>7. CASE WaitGivesUp
  <2>1. /\ call \in Calls /\ call' = NoCall /\ UNCHANGED <<done, stage>>
        /\ cancel'[call] = TRUE /\ result'[call] = "invalid_handle"
        /\ \A d \in Calls : d # call => cancel'[d] = cancel[d] /\ result'[d] = result[d]
        /\ shutdown' = shutdown
    BY <1>3, <1>7 DEF WaitGivesUp, SyncTypes, flags
  <2>2. ~shutdown => stage[call] # "running"
    <3>1. ~shutdown => frames = <<>>
      BY <1>7 DEF SyncInv, MainStops, WaitGivesUp
    <3>2. frames = <<>> => DOMAIN frames = {}
      OBVIOUS
    <3> QED
      BY <2>1, <3>1, <3>2 DEF SyncInv, RunsInAFlush
  <2> QED
    BY <1>1, <2>1, <2>2
<1>8. ASSUME NEW c \in Calls, ClosureStarts(c) PROVE \A d \in Calls : GoesOn(d)'
  <2>1. stage[c] = "posted" /\ frames # <<>>
    BY <1>8, StartsPosted DEF SyncInv
  <2>2. ~cancelled
    BY <2>1 DEF SyncInv, MainStops
  <2>3. /\ stage'[c] = (IF cancel[c] THEN "skipped" ELSE "running")
        /\ \A d \in Calls : d # c => stage'[d] = stage[d]
        /\ UNCHANGED <<call, cancel, done, result>>
    BY <1>3, <1>8, <2>2 DEF ClosureStarts, SyncTypes
  <2> QED
    BY <1>1, <1>2, <2>1, <2>3
<1>9. ASSUME NEW c \in Calls, TaskReturns(c) PROVE \A d \in Calls : GoesOn(d)'
  <2>1. /\ stage[c] = "running" /\ stage'[c] = "ran"
        /\ \A d \in Calls : d # c => stage'[d] = stage[d]
        /\ UNCHANGED <<call, cancel, done, result>>
    BY <1>3, <1>9 DEF TaskReturns, SyncTypes
  <2> QED
    BY <1>1, <1>2, <2>1
<1>10. ASSUME NEW c \in Calls, ClosureEnds(c) PROVE \A d \in Calls : GoesOn(d)'
  <2>1. /\ done'[c] /\ UNCHANGED <<call, cancel, stage, result>>
        /\ \A d \in Calls : d # c => done'[d] = done[d]
    BY <1>3, <1>10 DEF ClosureEnds, SyncTypes
  <2> QED
    BY <1>1, <1>2, <2>1
<1> QED
  BY <1>4, <1>5, <1>6, <1>7, <1>8, <1>9, <1>10, SyncCases, QuietSteps DEF OtherStep

LEMMA SyncInitInv == SyncInit => SyncInv
<1> SUFFICES ASSUME SyncInit PROVE SyncInv
  OBVIOUS
<1>1. queue = <<>> /\ frames = <<>> /\ \A c \in Calls : stage[c] = "new"
  BY DEF SyncInit, QueueInit
<1>2. SyncTypes
  BY EmptySeq, NoFnIsNoFn DEF SyncInit, QueueInit, SyncTypes, Calls, NoCall
<1>3. WaitsOnce
  <2>1. Lines = {0} /\ Line(0) = <<>>
    BY <1>1 DEF Lines, Line
  <2> QED
    BY <2>1 DEF WaitsOnce
<1>4. RunsInAFlush /\ CallHistory /\ MainStops /\ CallsGoOn
  BY <1>1, NoFnIsNoFn DEF SyncInit, RunsInAFlush, CallHistory, MainStops, CallsGoOn, Calls, NoCall
<1> QED
  BY <1>2, <1>3, <1>4 DEF SyncInv

THEOREM SyncInvariant == SyncSpec => []SyncInv
<1>1. SyncInv /\ [SyncNext]_syncVars => SyncInv'
  BY SyncTypesKept, WaitsOnceKept, RunsKept, HistoryKept, MainStopsKept, CallsGoOnKept
     DEF SyncInv
<1> QED
  BY <1>1, SyncInitInv, PTL DEF SyncSpec

\* While only the main thread stops the server: a task runs while the thread
\* that asked for it waits, unless the host is shutting down, and a caller who
\* is told MBLINK_OK has had its task run (RunDevToolsOnMainThreadSync).
THEOREM TasksRunInTheirCalls == SyncSpec => []TaskRunsUnlessCalledOff
<1>1. SyncInv => TaskRunsUnlessCalledOff
  BY DEF SyncInv, CallsGoOn, TaskRunsUnlessCalledOff, TaskRunsInItsCall
<1> QED
  BY <1>1, SyncInvariant, PTL

=============================================================================
