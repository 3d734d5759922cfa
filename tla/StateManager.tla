----------------------------- MODULE StateManager ---------------------------
(***************************************************************************)
(* core/bridge/state_manager.cpp over the state graph: flush and endBatch  *)
(* take the paths the graph has just flushed and notify the watchers of    *)
(* each, reading the value first and then calling the watchers one by one  *)
(* with watchersMutex_ held.                                               *)
(*                                                                         *)
(* A watcher callback is script or host code.  CallbackMay says what it    *)
(* does besides mutating: "flush" is host.state.set, which processes the   *)
(* queue before it returns; "unwatch" is host.state.unwatch.  The only     *)
(* graph subscriber of the code, NativeDataBindingRuntime, makes no        *)
(* request from its callback, so here requests come from outside the       *)
(* graph's delivery only.                                                  *)
(***************************************************************************)
EXTENDS NativeStateGraph

CONSTANTS
  Watchers,     \* watcher ids, each made at most once
  WatchedPath,  \* WatchedPath[w]: the name w watches
  CallbackMay,  \* what a watcher callback does besides mutating
  NoThread      \* nobody holds watchersMutex_

ASSUME WatchersAreTyped == WatchedPath \in [Watchers -> Paths]
ASSUME CallbackMayIsKnown == CallbackMay \subseteq {"flush", "unwatch"}
ASSUME NoThreadIsNoThread == NoThread \notin Threads

VARIABLES
  watch,     \* watch[w]: "new", "on" or "off"
  watchLock, \* who holds watchersMutex_
  npc,       \* npc[t]: where thread t stands in mutateTopLevel or in notifying
  todo,      \* todo[t]: consumed paths still to be notified
  value,     \* value[t]: the path t works on, and the revision it read
  left,      \* left[t]: the watchers still to be looked at under the lock
  outer,     \* outer[t]: the frame a watcher callback flushes from
  heard,     \* history: heard[w], the revision w was last given
  watchSince \* history: watchSince[w], the path's revision when w was made

watchVars == <<watch, watchLock, npc, todo, value, left, outer, heard, watchSince>>
vars == <<graphVars, watchVars>>

NoFrame == [todo |-> {}, value |-> NoEntry, left |-> {}, nested |-> FALSE]

StateTypeOK ==
  /\ GraphTypeOK
  /\ watch \in [Watchers -> {"new", "on", "off"}]
  /\ watchLock \in Threads \cup {NoThread}
  /\ npc \in [Threads -> {"none", "mutate", "read", "lock", "call", "callback", "relock"}]
  /\ todo \in [Threads -> SUBSET Paths]
  /\ value \in [Threads -> Entry \cup {NoEntry}]
  /\ left \in [Threads -> SUBSET Watchers]
  /\ outer \in [Threads -> [todo : SUBSET Paths, value : Entry \cup {NoEntry},
                            left : SUBSET Watchers, nested : BOOLEAN]]
  /\ heard \in [Watchers -> 0..MaxRevision]
  /\ watchSince \in [Watchers -> 0..MaxRevision]

Init ==
  /\ GraphInit
  /\ watch = [w \in Watchers |-> "new"]
  /\ watchLock = NoThread
  /\ npc = [t \in Threads |-> "none"]
  /\ todo = [t \in Threads |-> {}]
  /\ value = [t \in Threads |-> NoEntry]
  /\ left = [t \in Threads |-> {}]
  /\ outer = [t \in Threads |-> NoFrame]
  /\ heard = [w \in Watchers |-> 0]
  /\ watchSince = [w \in Watchers |-> 0]

\* Outside any call of the manager; a nested call belongs to a callback.
Outside(t) == npc[t] = "none" /\ ~outer[t].nested

-----------------------------------------------------------------------------
(* watch, unwatch, clearWatchers *)

Watch(t, w) ==
  /\ Outside(t) /\ fpc[t] = "idle"
  /\ watchLock = NoThread
  /\ watch[w] = "new"
  /\ watch' = [watch EXCEPT ![w] = "on"]
  /\ watchSince' = [watchSince EXCEPT ![w] = revision[WatchedPath[w]]]
  /\ UNCHANGED <<graphVars, watchLock, npc, todo, value, left, outer, heard>>

Unwatch(t, w) ==
  /\ Outside(t) /\ fpc[t] = "idle"
  /\ watchLock = NoThread
  /\ watch[w] = "on"
  /\ watch' = [watch EXCEPT ![w] = "off"]
  /\ UNCHANGED <<graphVars, watchLock, npc, todo, value, left, outer, heard, watchSince>>

\* mblink_destroy, before it frees the callbacks.
ClearWatchers ==
  /\ Outside(MainThread) /\ fpc[MainThread] = "idle"
  /\ watchLock = NoThread
  /\ \E w \in Watchers : watch[w] = "on"
  /\ watch' = [w \in Watchers |-> IF watch[w] = "on" THEN "off" ELSE watch[w]]
  /\ UNCHANGED <<graphVars, watchLock, npc, todo, value, left, outer, heard, watchSince>>

-----------------------------------------------------------------------------
(* mutateTopLevel: increment, multiply, toggle and the array and object edits
   get the value and set the changed one, each under the graph's mutex alone. *)

MutateRead(t, p) ==
  /\ Outside(t) /\ fpc[t] = "idle"
  /\ p \in exists
  /\ value' = [value EXCEPT ![t] = [path |-> p, revision |-> revision[p]]]
  /\ npc' = [npc EXCEPT ![t] = "mutate"]
  /\ UNCHANGED <<graphVars, watch, watchLock, todo, left, outer, heard, watchSince>>

\* The mutator refuses a value of another type; it may leave an equal one.
MutateWrite(t) ==
  /\ npc[t] = "mutate"
  /\ SetPath(t, value[t].path) \/ UNCHANGED graphVars
  /\ value' = [value EXCEPT ![t] = NoEntry]
  /\ npc' = [npc EXCEPT ![t] = "none"]
  /\ UNCHANGED <<watch, watchLock, todo, left, outer, heard, watchSince>>

-----------------------------------------------------------------------------
(* flush, endBatch: consume, then notify path by path *)

\* Mutant: the flushed paths are dropped when a batch ends.
TakeFlushed_Forget(t) ==
  /\ npc[t] = "none"
  /\ Consume(t)
  /\ UNCHANGED watchVars

TakeFlushed(t) ==
  /\ npc[t] = "none"
  /\ Consume(t)
  /\ todo' = [todo EXCEPT ![t] = lastFlushed]
  /\ npc' = [npc EXCEPT ![t] = "read"]
  /\ UNCHANGED <<watch, watchLock, value, left, outer, heard, watchSince>>

\* notifyWatcher reads the value before it takes the lock.
ReadValue(t) ==
  /\ npc[t] = "read"
  /\ \E p \in todo[t] :
       /\ value' = [value EXCEPT ![t] = [path |-> p, revision |-> revision[p]]]
       /\ todo' = [todo EXCEPT ![t] = @ \ {p}]
  /\ npc' = [npc EXCEPT ![t] = "lock"]
  /\ UNCHANGED <<graphVars, watch, watchLock, left, outer, heard, watchSince>>

\* Mutant: the watchers are copied and called without the lock.
LockWatchers_Copy(t) ==
  /\ npc[t] = "lock"
  /\ watchLock = NoThread
  /\ left' = [left EXCEPT ![t] =
       {w \in Watchers : watch[w] = "on" /\ WatchedPath[w] = value[t].path}]
  /\ npc' = [npc EXCEPT ![t] = "call"]
  /\ UNCHANGED <<graphVars, watch, watchLock, todo, value, outer, heard, watchSince>>

\* Never enabled when the thread itself holds the lock.
LockWatchers(t) ==
  /\ npc[t] = "lock"
  /\ watchLock = NoThread
  /\ watchLock' = t
  /\ left' = [left EXCEPT ![t] =
       {w \in Watchers : watch[w] = "on" /\ WatchedPath[w] = value[t].path}]
  /\ npc' = [npc EXCEPT ![t] = "call"]
  /\ UNCHANGED <<graphVars, watch, todo, value, outer, heard, watchSince>>

CallWatcher(t) ==
  /\ npc[t] = "call"
  /\ \E w \in left[t] :
       /\ heard' = [heard EXCEPT ![w] = value[t].revision]
       /\ left' = [left EXCEPT ![t] = @ \ {w}]
  /\ npc' = [npc EXCEPT ![t] = "callback"]
  /\ UNCHANGED <<graphVars, watch, watchLock, todo, value, outer, watchSince>>

WatcherReturns(t) ==
  /\ npc[t] = "callback" /\ fpc[t] = "idle"
  /\ npc' = [npc EXCEPT ![t] = "call"]
  /\ UNCHANGED <<graphVars, watch, watchLock, todo, value, left, outer, heard, watchSince>>

PathDone(t) ==
  /\ npc[t] = "call" /\ left[t] = {}
  /\ watchLock' = NoThread
  /\ value' = [value EXCEPT ![t] = NoEntry]
  /\ npc' = [npc EXCEPT ![t] = "read"]
  /\ UNCHANGED <<graphVars, watch, todo, left, outer, heard, watchSince>>

\* flush returns, to its caller or into the callback that called it.
AllNotified(t) ==
  /\ npc[t] = "read" /\ todo[t] = {}
  /\ \/ /\ ~outer[t].nested
        /\ npc' = [npc EXCEPT ![t] = "none"]
        /\ UNCHANGED <<todo, value, left, outer>>
     \/ /\ outer[t].nested
        /\ npc' = [npc EXCEPT ![t] = "callback"]
        /\ todo' = [todo EXCEPT ![t] = outer[t].todo]
        /\ value' = [value EXCEPT ![t] = outer[t].value]
        /\ left' = [left EXCEPT ![t] = outer[t].left]
        /\ outer' = [outer EXCEPT ![t] = NoFrame]
  /\ UNCHANGED <<graphVars, watch, watchLock, heard, watchSince>>

-----------------------------------------------------------------------------
(* What a watcher callback does; it runs with watchersMutex_ held. *)

CallbackSets(t, p) ==
  /\ npc[t] = "callback" /\ fpc[t] = "idle"
  /\ SetPath(t, p)
  /\ UNCHANGED watchVars

\* host.state.set: the value is written, then the queue is processed.
CallbackFlushes(t) ==
  /\ "flush" \in CallbackMay
  /\ npc[t] = "callback" /\ ~outer[t].nested
  /\ ClearFlushed(t)
  /\ outer' = [outer EXCEPT ![t] = [todo |-> todo[t], value |-> value[t],
                                    left |-> left[t], nested |-> TRUE]]
  /\ npc' = [npc EXCEPT ![t] = "none"]
  /\ todo' = [todo EXCEPT ![t] = {}]
  /\ value' = [value EXCEPT ![t] = NoEntry]
  /\ left' = [left EXCEPT ![t] = {}]
  /\ UNCHANGED <<watch, watchLock, heard, watchSince>>

\* host.state.unwatch: the thread waits for the mutex it holds.
CallbackUnwatches(t) ==
  /\ "unwatch" \in CallbackMay
  /\ npc[t] = "callback" /\ fpc[t] = "idle"
  /\ npc' = [npc EXCEPT ![t] = "relock"]
  /\ UNCHANGED <<graphVars, watch, watchLock, todo, value, left, outer, heard, watchSince>>

-----------------------------------------------------------------------------
NotifyStep(t) ==
  \/ TakeFlushed(t) \/ ReadValue(t) \/ LockWatchers(t) \/ CallWatcher(t)
  \/ WatcherReturns(t) \/ PathDone(t) \/ AllNotified(t)

CallbackStep(t) ==
  (\E p \in Paths : CallbackSets(t, p)) \/ CallbackFlushes(t) \/ CallbackUnwatches(t)

GraphRequest(t) == Outside(t) /\ fpc[t] = "idle" /\ Request(t) /\ UNCHANGED watchVars
GraphFlush(t) == Outside(t) /\ ClearFlushed(t) /\ UNCHANGED watchVars
GraphStep(t) == FlushStep(t) /\ UNCHANGED watchVars

Next ==
  \/ ClearWatchers
  \/ \E t \in Threads :
    \/ GraphRequest(t) \/ GraphFlush(t) \/ GraphStep(t)
    \/ \E w \in Watchers : Watch(t, w) \/ Unwatch(t, w)
    \/ (\E p \in Paths : MutateRead(t, p)) \/ MutateWrite(t)
    \/ NotifyStep(t) \/ CallbackStep(t)

\* Threads are scheduled, the mutex is fair, the loop flushes again and again, and
\* a callback ends, however often it flushes.
Fairness ==
  /\ SF_vars(GraphFlush(MainThread))
  /\ \A t \in Threads :
       /\ WF_vars(GraphStep(t))
       /\ WF_vars(NotifyStep(t))
       /\ SF_vars(LockWatchers(t))
       /\ SF_vars(WatcherReturns(t))
       /\ WF_vars(MutateWrite(t))
       /\ WF_vars(fpc[t] = "clear" /\ GraphFlush(t))

Spec == Init /\ [][Next]_vars /\ Fairness

-----------------------------------------------------------------------------
(* Properties *)

Behind(w) ==
  LET r == queuedRevision[WatchedPath[w]] IN
    watch[w] = "on" /\ r > watchSince[w] /\ r > heard[w]

\* A change a watcher was not told of is on its way: pending, deferred, flushed
\* by a thread that will notify, or about to be read (state_manager.cpp 293-307).
WatcherIsTold ==
  overflow = "none" =>
    \A w \in Watchers : Behind(w) =>
      LET p == WatchedPath[w] IN
      \/ p \in pending \cup deferred \cup lastFlushed
      \/ \E t \in Threads :
           \/ p \in todo[t] \cup outer[t].todo
           \/ value[t].path = p /\ (npc[t] = "lock" \/ w \in left[t])
           \/ outer[t].value.path = p /\ w \in outer[t].left

\* A read-modify-write of a value is atomic, as the API says of the numeric ones
\* (api/mblink.h:387): nobody wrote the value between its read and its write.
MutationIsAtomic ==
  [][\A t \in Threads :
       npc[t] = "mutate" /\ npc'[t] = "none" /\ globalRevision' # globalRevision =>
         revision[value[t].path] = value[t].revision]_vars

\* A watcher is never given an older value after a newer one.
WatcherNeverGoesBack == [][\A w \in Watchers : heard'[w] >= heard[w]]_vars

\* Once unwatch has returned the callback, which may have been freed, is not
\* called: the loop over watchers_ keeps the mutex (lines 242-247, 344-352).
NoCallAfterUnwatch ==
  \A t \in Threads : \A w \in left[t] \cup outer[t].left : watch[w] = "on"

\* No thread waits for watchersMutex_ while it holds it.
NoSelfDeadlock ==
  \A t \in Threads : npc[t] \in {"lock", "relock"} => watchLock # t

\* The loop tells every watcher in the end, unless a batch stays open, flush has
\* thrown, or a watcher that flushes or unwatches has hung its thread.
WatchersHear ==
  []<>(\/ batchDepth > 0 \/ overflow # "none" \/ ~NoSelfDeadlock
       \/ \A w \in Watchers : ~Behind(w))
=============================================================================
