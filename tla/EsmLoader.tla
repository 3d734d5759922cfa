----------------------------- MODULE EsmLoader ------------------------------
(***************************************************************************)
(* The runtime processes of one project under the ui-dev daemon, and the   *)
(* files they share with it: tools/esm_loader/main_c_api.cpp.              *)
(*                                                                         *)
(* Every runtime of a project is given the same command, response and      *)
(* lifecycle files, so two runtimes that are alive at once both serve the  *)
(* command file.  What a command does to the page is left out; that it is  *)
(* run, answered and removed in three steps is not.                        *)
(***************************************************************************)
EXTENDS Naturals

CONSTANTS
  MaxStarts,  \* processes that can be started
  Ids,        \* ids of commands
  None

ASSUME BoundOnStarts == MaxStarts \in Nat
ASSUME IdsAreNumbers == Ids \subseteq Nat \ {0} /\ None \notin Ids

VARIABLES
  proc,       \* what each process is doing
  taken,      \* the command each process is running
  lifecycle,  \* the lifecycle file
  command,    \* the id in the command file
  response,   \* the response file
  runs        \* history: how often each command was run

loaderVars == <<proc, taken, lifecycle, command, response, runs>>

Pids == 1 .. MaxStarts
IsProcessRunning(p) == p \in Pids /\ proc[p] \notin {"unborn", "dead"}
Alive == {p \in Pids : IsProcessRunning(p)}
Working(p) == proc[p] \in {"booting", "idle", "busy", "answered"}

\* What the lifecycle file says of a runtime that is up, and of one whose
\* window the user closed.
Up == [status |-> "running", reason |-> "other"]
UserClosed == [status |-> "stopped", reason |-> "user_closed"]

ASSUME NoneIsNoLifecycle == None # Up /\ None # UserClosed

LoaderInit ==
  /\ proc = [p \in Pids |-> "unborn"]
  /\ taken = [p \in Pids |-> None]
  /\ lifecycle = None /\ command = None /\ response = None
  /\ runs = [i \in Ids |-> 0]

\* The loader has loaded the page: it writes its lifecycle and polls.
Boots(p) ==
  /\ proc[p] = "booting"
  /\ proc' = [proc EXCEPT ![p] = "idle"]
  /\ lifecycle' = Up
  /\ UNCHANGED <<taken, command, response, runs>>

\* handleCommandFile reads the command file and starts to run the command.
TakesCommand(p) ==
  /\ proc[p] = "idle" /\ command # None
  /\ proc' = [proc EXCEPT ![p] = "busy"]
  /\ taken' = [taken EXCEPT ![p] = command]
  /\ runs' = [runs EXCEPT ![command] = @ + 1]
  /\ UNCHANGED <<lifecycle, command, response>>

WritesResponse(p) ==
  /\ proc[p] = "busy"
  /\ proc' = [proc EXCEPT ![p] = "answered"]
  /\ \E ok \in BOOLEAN : response' = [id |-> taken[p], ok |-> ok]
  /\ taken' = [taken EXCEPT ![p] = None]
  /\ UNCHANGED <<lifecycle, command, runs>>

\* It removes the command file, whichever command is in it by now.
RemovesCommand(p) ==
  /\ proc[p] = "answered"
  /\ proc' = [proc EXCEPT ![p] = "idle"]
  /\ command' = None
  /\ UNCHANGED <<taken, lifecycle, response, runs>>

\* The user closes the window: the event loop stops, the lifecycle is written
\* a last time, and the process goes some time later.
UserCloses(p) ==
  /\ proc[p] = "idle"
  /\ proc' = [proc EXCEPT ![p] = "closing"]
  /\ lifecycle' = UserClosed
  /\ UNCHANGED <<taken, command, response, runs>>

Exits(p) ==
  /\ proc[p] = "closing"
  /\ proc' = [proc EXCEPT ![p] = "dead"]
  /\ UNCHANGED <<taken, lifecycle, command, response, runs>>

\* The process ends without a word: a load that fails, a crash.
Crashes(p) ==
  /\ Working(p)
  /\ proc' = [proc EXCEPT ![p] = "dead"]
  /\ taken' = [taken EXCEPT ![p] = None]
  /\ UNCHANGED <<lifecycle, command, response, runs>>

\* StopProcess, by the daemon; it waits until the process is gone.
StopProcess(p) ==
  /\ proc' = [q \in Pids |-> IF q = p /\ IsProcessRunning(p) THEN "dead" ELSE proc[q]]
  /\ taken' = [q \in Pids |-> IF q = p THEN None ELSE taken[q]]

\* Mutant: the command that took the last runtime down stays.
RemoveRuntimeArtifacts_KeepsCommand ==
  lifecycle' = None /\ response' = None /\ UNCHANGED command

\* RemoveRuntimeArtifacts, by the daemon: the files of the last runtime.
RemoveRuntimeArtifacts == lifecycle' = None /\ command' = None /\ response' = None
=============================================================================
