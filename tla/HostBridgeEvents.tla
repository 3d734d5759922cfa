--------------------------- MODULE HostBridgeEvents -------------------------
(***************************************************************************)
(* The event half of core/bridge/host_bridge.cpp: host.on, host.off, emit, *)
(* flushEvents, and the automatic watcher that turns changes of a state    *)
(* into events of the same name.                                           *)
(*                                                                         *)
(* emit queues from any thread; flushEvents takes the queue on the main    *)
(* thread and calls the listeners by walking listeners_.  A callback may   *)
(* call host.on, host.off and host.state.set, and the last of these        *)
(* flushes again: a frame per flush in progress, the innermost last.       *)
(* Events are numbered in the order in which they were queued.             *)
(***************************************************************************)
EXTENDS Naturals, Sequences, SequencesExt, FiniteSets

CONSTANTS
  Names,       \* names of events and of states
  Listeners,   \* what host.on registers, each at most once
  NoListener,  \* the frame is between two calls
  Defined,     \* the states that exist from the start
  Callbacks,   \* the sets of calls that callbacks may make: of "on", "off", "set"
  MaxEvents,   \* bound: events queued in a run
  MaxNesting   \* bound: flushes in progress

ASSUME NoListenerIsNone == NoListener \notin Listeners
ASSUME DefinedAreNames == Defined \subseteq Names
ASSUME CallbacksAreKnown == \A may \in Callbacks : may \subseteq {"on", "off", "set"}
ASSUME EventBounds == MaxEvents \in Nat /\ MaxNesting \in Nat \ {0}

VARIABLES
  callbackMay,\* what a callback does, the program's choice
  listeners,  \* listeners_
  used,       \* listeners that were registered at some time
  states,     \* states that StateManager has
  watchers,   \* autoWatchers_: the listenerCount of each name that has a watcher
  eventQueue, \* eventQueue_
  emitted,    \* events queued so far
  frames,     \* flushes in progress
  broken,     \* an iterator into listeners_ was used after it became invalid
  entitled,   \* listeners that were registered for a state that existed
  calledWith, \* the events each listener was called with, in that order
  discounted  \* history: names whose watcher was told of the removal of a listener it never counted

eventSteps == <<listeners, used, states, watchers, eventQueue, emitted, frames, broken,
               entitled, calledWith, discounted>>
eventVars == <<callbackMay, eventSteps>>

Registered == {listeners[k].id : k \in DOMAIN listeners}
For(n) == {l \in Registered : \E k \in DOMAIN listeners :
                                listeners[k].id = l /\ listeners[k].name = n}
Top == Last(frames)
InCallback == frames # <<>> /\ Top.calling # NoListener

\* JavaScript runs: between flushes, or in a callback that does this.
Script(what) ==
  ~broken /\ (frames = <<>> \/ (InCallback /\ what \in callbackMay))

\* A flush of the events evs, before its first event: rest.
Frame(evs) ==
  [rest |-> evs, pos |-> 1, end |-> Len(listeners), calling |-> NoListener,
   owed |-> IF evs = <<>> THEN {} ELSE For(Head(evs).name)]

EventsInit ==
  /\ callbackMay \in Callbacks
  /\ listeners = <<>> /\ used = {}
  /\ states = Defined
  /\ watchers = [n \in {} |-> 0]
  /\ eventQueue = <<>> /\ emitted = 0
  /\ frames = <<>> /\ broken = FALSE
  /\ entitled = {}
  /\ calledWith = [l \in Listeners |-> <<>>]
  /\ discounted = {}

-----------------------------------------------------------------------------
WithWatcher(n) ==
  [m \in DOMAIN watchers \cup {n} |->
     IF m # n THEN watchers[m] ELSE IF n \in DOMAIN watchers THEN watchers[n] + 1 ELSE 1]

\* host.on.  Growing the vector moves it, or there is room: both can happen.
On(l, n) ==
  /\ Script("on") /\ l \notin used
  /\ used' = used \cup {l}
  /\ listeners' = Append(listeners, [id |-> l, name |-> n])
  /\ IF n \in states
       THEN watchers' = WithWatcher(n) /\ entitled' = entitled \cup {l}
       ELSE UNCHANGED <<watchers, entitled>>
  /\ broken' \in {FALSE, frames # <<>>}
  /\ UNCHANGED <<states, eventQueue, emitted, frames, calledWith, discounted>>

\* Mutant: the watcher goes with the first listener that leaves.
WithoutListener_First(n) == [m \in DOMAIN watchers \ {n} |-> watchers[m]]

\* The watcher of n loses a listener, and goes with the last one it counted.
WithoutListener(n) ==
  IF n \notin DOMAIN watchers THEN watchers
  ELSE IF watchers[n] > 1 THEN [watchers EXCEPT ![n] = @ - 1]
  ELSE [m \in DOMAIN watchers \ {n} |-> watchers[m]]

\* host.off.  What follows in the vector moves up.  The watcher is told of every
\* listener that leaves, also of one that came before the state existed.
Off(k) ==
  /\ Script("off") /\ k \in DOMAIN listeners
  /\ listeners' = RemoveAt(listeners, k)
  /\ watchers' = WithoutListener(listeners[k].name)
  /\ frames' = [i \in DOMAIN frames |->
                  [frames[i] EXCEPT !.owed = @ \ {listeners[k].id}]]
  /\ discounted' = IF listeners[k].id \in entitled THEN discounted
                   ELSE discounted \cup {listeners[k].name}
  /\ UNCHANGED <<used, states, eventQueue, emitted, broken, entitled, calledWith>>

Event(n) == [num |-> emitted + 1, name |-> n]

\* emit, from any thread.
Emit(n) ==
  /\ ~broken /\ emitted < MaxEvents
  /\ eventQueue' = Append(eventQueue, Event(n))
  /\ emitted' = emitted + 1
  /\ UNCHANGED <<listeners, used, states, watchers, frames, broken, entitled,
                 calledWith, discounted>>

\* The host sets a state or deletes one, from any thread: the watcher stays, and
\* what it emits is an Emit.
HostChanges(n) ==
  /\ ~broken
  /\ states' \in {states \cup {n}, states \ {n}}
  /\ UNCHANGED <<listeners, used, watchers, eventQueue, emitted, frames, broken, entitled,
                 calledWith, discounted>>

\* Mutant: a copy of the queue is dispatched and the queue is kept.
Take_Copy(evs) ==
  /\ frames' = Append(frames, Frame(evs))
  /\ eventQueue' = evs

\* The swap at the start of flushEvents, which returns when there is nothing.
Take(evs) ==
  /\ frames' = IF evs = <<>> THEN frames ELSE Append(frames, Frame(evs))
  /\ eventQueue' = <<>>

\* host.state.set: the change is applied, the automatic watcher of the state
\* emits, and the events are flushed before the call returns.
StateSet(n) ==
  /\ Script("set") /\ Len(frames) < MaxNesting
  /\ states' = states \cup {n}
  /\ IF n \in DOMAIN watchers
       THEN /\ emitted < MaxEvents
            /\ emitted' = emitted + 1
            /\ Take(Append(eventQueue, Event(n)))
       ELSE UNCHANGED emitted /\ Take(eventQueue)
  /\ UNCHANGED <<listeners, used, watchers, broken, entitled, calledWith, discounted>>

\* flushEvents from the update callback.
FlushEvents ==
  /\ ~broken /\ frames = <<>> /\ eventQueue # <<>>
  /\ Take(eventQueue)
  /\ UNCHANGED <<listeners, used, states, watchers, emitted, broken, entitled, calledWith,
                 discounted>>

-----------------------------------------------------------------------------
(* The loops of flushEvents: over the events, and for each over listeners_ *)
(* with the end that it had when the event's turn came.                    *)

InTop == ~broken /\ frames # <<>> /\ Top.calling = NoListener /\ Top.rest # <<>>
Retop(f) == frames' = [frames EXCEPT ![Len(frames)] = f]
Rest == <<listeners, used, states, watchers, eventQueue, emitted, entitled,
          discounted>>

CallListener ==
  /\ InTop /\ Top.pos <= Top.end /\ Top.pos <= Len(listeners)
  /\ LET l == listeners[Top.pos] IN
       /\ l.name = Head(Top.rest).name
       /\ Retop([Top EXCEPT !.calling = l.id, !.owed = @ \ {l.id}])
       /\ calledWith' = [calledWith EXCEPT ![l.id] = Append(@, Head(Top.rest).num)]
  /\ UNCHANGED <<Rest, broken>>

PassOver ==
  /\ InTop /\ Top.pos <= Top.end /\ Top.pos <= Len(listeners)
  /\ listeners[Top.pos].name # Head(Top.rest).name
  /\ Retop([Top EXCEPT !.pos = @ + 1])
  /\ UNCHANGED <<Rest, broken, calledWith>>

\* The loop reaches a slot that off has destroyed: what is left of the name
\* may differ from the event's, or a freed callback is called.
ReadPastEnd ==
  /\ InTop /\ Top.pos <= Top.end /\ Top.pos > Len(listeners)
  /\ \/ Retop([Top EXCEPT !.pos = @ + 1]) /\ UNCHANGED broken
     \/ broken' = TRUE /\ UNCHANGED frames
  /\ UNCHANGED <<Rest, calledWith>>

\* The callback returns, with a value or an exception.
ListenerReturns ==
  /\ ~broken /\ InCallback
  /\ Retop([Top EXCEPT !.calling = NoListener, !.pos = @ + 1])
  /\ UNCHANGED <<Rest, broken, calledWith>>

NextEvent ==
  /\ InTop /\ Top.pos > Top.end
  /\ Retop(Frame(Tail(Top.rest)))
  /\ UNCHANGED <<Rest, broken, calledWith>>

FlushEnds ==
  /\ ~broken /\ frames # <<>> /\ Top.rest = <<>>
  /\ frames' = Front(frames)
  /\ UNCHANGED <<Rest, broken, calledWith>>

EventsStep ==
  \/ \E l \in Listeners, n \in Names : On(l, n)
  \/ \E k \in DOMAIN listeners : Off(k)
  \/ \E n \in Names : Emit(n) \/ HostChanges(n) \/ StateSet(n)
  \/ FlushEvents \/ CallListener \/ PassOver \/ ReadPastEnd
  \/ ListenerReturns \/ NextEvent \/ FlushEnds

EventsNext == EventsStep /\ UNCHANGED callbackMay

EventsSpec == EventsInit /\ [][EventsNext]_eventVars

-----------------------------------------------------------------------------
(* Properties.                                                             *)

\* Events and frames are well formed, and the events that wait are in the
\* order in which they were queued (emit).
EventsTypeOK ==
  /\ callbackMay \in Callbacks
  /\ Registered \subseteq used /\ used \subseteq Listeners
  /\ Cardinality(Registered) = Len(listeners)
  /\ DOMAIN watchers \subseteq Names /\ \A n \in DOMAIN watchers : watchers[n] > 0
  /\ emitted \in 0..MaxEvents /\ Len(frames) <= MaxNesting
  /\ \A i \in DOMAIN frames : frames[i].calling \in Listeners \cup {NoListener}
  /\ \A j, k \in DOMAIN eventQueue : j < k => eventQueue[j].num < eventQueue[k].num

\* A listener hears events in the order in which they were queued, each at
\* most once (flushEvents, jsStateSet).
InQueueOrder ==
  \A l \in Listeners : \A j, k \in DOMAIN calledWith[l] : j < k => calledWith[l][j] < calledWith[l][k]

\* So it is when no callback sets a state.
InOrderUnlessSet == "set" \notin callbackMay => InQueueOrder

\* When the turn of an event is over, every listener of its name that was
\* there when the turn began and has not been removed has been called
\* (flushEvents).
NobodyIsSkipped ==
  frames # <<>> /\ ~broken /\ Top.rest # <<>> /\ Top.pos > Top.end => Top.owed = {}

\* A listener that was registered for an existing state keeps the state's
\* watcher alive until host.off removes the listener (on, off), also when the
\* state is deleted and set again.
EveryListenerIsWatched ==
  \A k \in DOMAIN listeners :
    listeners[k].id \in entitled => listeners[k].name \in DOMAIN watchers

\* So it is as long as the name lost no listener that its watcher never counted.
WatchedWhileListened ==
  \A k \in DOMAIN listeners :
    listeners[k].id \in entitled /\ listeners[k].name \notin discounted
      => listeners[k].name \in DOMAIN watchers

=============================================================================
