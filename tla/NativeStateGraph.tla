-------------------------- MODULE NativeStateGraph --------------------------
(***************************************************************************)
(* The observable state tree of core/bridge/native_state_graph.cpp: paths  *)
(* with revisions, subscriptions to one path or a subtree, batches, and    *)
(* flush, which delivers mutations in rounds.  One mutex guards the state; *)
(* a critical section is one action.  Callbacks run outside the mutex, so  *)
(* while a thread delivers, the other threads, and the callback itself,    *)
(* mutate, subscribe, open batches and flush.                              *)
(*                                                                         *)
(* A path is its sequence of segments.  A value is known by the revision   *)
(* that wrote it; writing an equal value returns early and is a stutter.   *)
(* Sets stand for the batch and for lastFlushedPaths_: the code goes       *)
(* through them in path order and a callback cannot tell.                  *)
(***************************************************************************)
EXTENDS Naturals, Sequences, FiniteSets, SequencesExt

CONSTANTS
  Threads,      \* the threads that use the graph
  Flushers,     \* those that call flush or endBatch
  MainThread,   \* the one whose loop flushes again and again
  Paths,        \* the paths in use, closed under prefixes
  Subs,         \* subscriptions, each made at most once
  PathOf,       \* PathOf[s]: the path s is for
  ModeOf,       \* ModeOf[s]: "exact" or "subtree"
  FlushLimit,   \* kMaxReentrantFlushRounds
  MaxRevision,  \* bound: mutations in a behaviour
  MaxDepth      \* bound: nesting of batches

ASSUME ThreadsAreKnown == MainThread \in Flushers /\ Flushers \subseteq Threads
ASSUME PathsArePaths == \A p \in Paths : p \in Seq(STRING) /\ p # <<>>
ASSUME SubsAreTyped == PathOf \in [Subs -> Paths] /\ ModeOf \in [Subs -> {"exact", "subtree"}]
ASSUME BoundsAreNatural == FlushLimit \in Nat /\ MaxRevision \in Nat /\ MaxDepth \in Nat

VARIABLES
  exists,           \* the paths that have a value in root_
  globalRevision,   \* globalRevision_
  revision,         \* revisions_
  pending,          \* pendingMutationPaths_
  deferred,         \* deferredMutationPaths_
  lastFlushed,      \* lastFlushedPaths_
  batchDepth,       \* batchDepth_
  isFlushing,       \* isFlushing_
  reentrant,        \* reentrantMutationCount_
  sub,              \* sub[s]: "new", "active" or "off"
  fpc,              \* fpc[t]: where thread t stands in flush
  batch,            \* batch[t]: what is left of flush's currentBatch
  now,              \* now[t]: the entry of it being delivered
  calls,            \* calls[t]: the collected subscriptions not called yet
  rounds,           \* rounds[t]: flush's local counter
  queuedRevision,   \* history: the last revision of a path that was queued
  seen,             \* history: seen[s][p], the last revision s was told of p
  since,            \* history: since[s], globalRevision when s was made
  batchStart,       \* history: globalRevision when the open batch began
  overflow          \* history: how the re-entrancy limit was hit

data == <<exists, globalRevision, revision, queuedRevision>>
flushVars == <<fpc, batch, now, calls, rounds, isFlushing>>
graphVars == <<data, flushVars, pending, deferred, lastFlushed, batchDepth,
               reentrant, sub, seen, since, batchStart, overflow>>

Entry == [path : Paths, revision : 0..MaxRevision]
NoEntry == [path |-> <<>>, revision |-> 0]

Above(p) == {q \in Paths : IsPrefix(q, p)}
Below(p) == {q \in Paths : IsPrefix(p, q)}

\* isSubtreeHit: a subtree subscription hears of its path and of all below it.
Hears(s, p) == IF ModeOf[s] = "exact" THEN PathOf[s] = p ELSE IsPrefix(PathOf[s], p)

GraphTypeOK ==
  /\ exists \subseteq Paths
  /\ globalRevision \in 0..MaxRevision
  /\ revision \in [Paths -> 0..MaxRevision]
  /\ pending \subseteq Paths /\ deferred \subseteq Paths /\ lastFlushed \subseteq Paths
  /\ batchDepth \in 0..MaxDepth
  /\ isFlushing \in BOOLEAN
  /\ reentrant \in 0..MaxRevision
  /\ sub \in [Subs -> {"new", "active", "off"}]
  /\ fpc \in [Threads -> {"idle", "clear", "round", "deliver", "call", "callback", "done"}]
  /\ batch \in [Threads -> SUBSET Entry]
  /\ now \in [Threads -> Entry \cup {NoEntry}]
  /\ calls \in [Threads -> SUBSET Subs]
  /\ rounds \in [Threads -> 0..FlushLimit]
  /\ queuedRevision \in [Paths -> 0..MaxRevision]
  /\ seen \in [Subs -> [Paths -> 0..MaxRevision]]
  /\ since \in [Subs -> 0..MaxRevision]
  /\ batchStart \in 0..MaxRevision
  /\ overflow \in {"none", "rounds", "mutations"}

GraphInit ==
  /\ exists = {}
  /\ globalRevision = 0
  /\ revision = [p \in Paths |-> 0]
  /\ pending = {} /\ deferred = {} /\ lastFlushed = {}
  /\ batchDepth = 0
  /\ isFlushing = FALSE
  /\ reentrant = 0
  /\ sub = [s \in Subs |-> "new"]
  /\ fpc = [t \in Threads |-> "idle"]
  /\ batch = [t \in Threads |-> {}]
  /\ now = [t \in Threads |-> NoEntry]
  /\ calls = [t \in Threads |-> {}]
  /\ rounds = [t \in Threads |-> 0]
  /\ queuedRevision = [p \in Paths |-> 0]
  /\ seen = [s \in Subs |-> [p \in Paths |-> 0]]
  /\ since = [s \in Subs |-> 0]
  /\ batchStart = 0
  /\ overflow = "none"

\* A thread calls into the graph when it is in no call of it, or from the
\* callback it is running.
CanAct(t) == fpc[t] \in {"idle", "callback"}

-----------------------------------------------------------------------------
(* initialize, set, deletePath *)

\* initialize writes without queueing a mutation.
Initialize(t, p) ==
  /\ CanAct(t) /\ globalRevision < MaxRevision
  /\ p \notin exists
  /\ exists' = exists \cup Above(p)
  /\ globalRevision' = globalRevision + 1
  /\ revision' = [revision EXCEPT ![p] = globalRevision + 1]
  /\ UNCHANGED <<queuedRevision, flushVars, pending, deferred, lastFlushed, batchDepth,
                 reentrant, sub, seen, since, batchStart, overflow>>

\* queueMutationLocked: deferred while a flush runs, whoever mutates.
QueueMutation(p) ==
  \/ /\ isFlushing
     /\ deferred' = deferred \cup {p}
     /\ reentrant' = reentrant + 1
     /\ UNCHANGED pending
  \/ /\ ~isFlushing
     /\ pending' = pending \cup {p}
     /\ UNCHANGED <<deferred, reentrant>>

Mutate(p) ==
  /\ globalRevision < MaxRevision
  /\ globalRevision' = globalRevision + 1
  /\ revision' = [revision EXCEPT ![p] = globalRevision + 1]
  /\ queuedRevision' = [queuedRevision EXCEPT ![p] = globalRevision + 1]
  /\ QueueMutation(p)
  /\ UNCHANGED <<flushVars, lastFlushed, batchDepth, sub, seen, since, batchStart, overflow>>

SetPath(t, p) ==
  /\ CanAct(t)
  /\ exists' = exists \cup Above(p)
  /\ Mutate(p)

DeletePath(t, p) ==
  /\ CanAct(t)
  /\ p \in exists
  /\ exists' = exists \ Below(p)
  /\ Mutate(p)

-----------------------------------------------------------------------------
(* subscribe, unsubscribe *)

Subscribe(t, s) ==
  /\ CanAct(t)
  /\ sub[s] = "new"
  /\ sub' = [sub EXCEPT ![s] = "active"]
  /\ since' = [since EXCEPT ![s] = globalRevision]
  /\ UNCHANGED <<data, flushVars, pending, deferred, lastFlushed, batchDepth,
                 reentrant, seen, batchStart, overflow>>

Unsubscribe(t, s) ==
  /\ CanAct(t)
  /\ sub[s] = "active"
  /\ sub' = [sub EXCEPT ![s] = "off"]
  /\ UNCHANGED <<data, flushVars, pending, deferred, lastFlushed, batchDepth,
                 reentrant, seen, since, batchStart, overflow>>

-----------------------------------------------------------------------------
(* beginBatch, endBatch *)

BeginBatch(t) ==
  /\ CanAct(t) /\ batchDepth < MaxDepth
  /\ batchDepth' = batchDepth + 1
  /\ batchStart' = IF batchDepth = 0 THEN globalRevision ELSE batchStart
  /\ UNCHANGED <<data, flushVars, pending, deferred, lastFlushed, reentrant,
                 sub, seen, since, overflow>>

\* The outermost end flushes; called inside a callback that flush returns at
\* once, so nothing but lastFlushed can change (NestedFlush).
EndBatch(t) ==
  /\ t \in Flushers
  /\ fpc[t] = "idle"
  /\ batchDepth' = IF batchDepth = 0 THEN 0 ELSE batchDepth - 1
  /\ fpc' = [fpc EXCEPT ![t] = IF batchDepth = 1 THEN "clear" ELSE "done"]
  /\ UNCHANGED <<data, batch, now, calls, rounds, isFlushing, pending, deferred,
                 lastFlushed, reentrant, sub, seen, since, batchStart, overflow>>

EndBatchInCallback(t) ==
  /\ fpc[t] = "callback" /\ batchDepth > 0
  /\ batchDepth' = batchDepth - 1
  /\ lastFlushed' = IF batchDepth = 1 THEN {} ELSE lastFlushed
  /\ UNCHANGED <<data, flushVars, pending, deferred, reentrant, sub, seen,
                 since, batchStart, overflow>>

-----------------------------------------------------------------------------
(* flush *)

\* A critical section of its own, before the first round.
ClearFlushed(t) ==
  /\ \/ fpc[t] = "clear"
     \/ fpc[t] = "idle" /\ t \in Flushers
  /\ lastFlushed' = {}
  /\ rounds' = [rounds EXCEPT ![t] = 0]
  /\ fpc' = [fpc EXCEPT ![t] = "round"]
  /\ UNCHANGED <<data, batch, now, calls, isFlushing, pending, deferred,
                 batchDepth, reentrant, sub, seen, since, batchStart, overflow>>

\* flush called by a callback: isFlushing_ is set, so it clears and returns.
NestedFlush(t) ==
  /\ fpc[t] = "callback" /\ isFlushing
  /\ lastFlushed' = {}
  /\ UNCHANGED <<data, flushVars, pending, deferred, batchDepth, reentrant,
                 sub, seen, since, batchStart, overflow>>

FlushReturns(t) ==
  /\ fpc[t] = "round"
  /\ batchDepth > 0 \/ isFlushing \/ pending = {}
  /\ fpc' = [fpc EXCEPT ![t] = "done"]
  /\ UNCHANGED <<data, batch, now, calls, rounds, isFlushing, pending, deferred,
                 lastFlushed, batchDepth, reentrant, sub, seen, since, batchStart,
                 overflow>>

\* Mutant: an open batch does not hold the flush back.
TakeRound_InBatch(t) ==
  /\ fpc[t] = "round" /\ ~isFlushing /\ pending # {}
  /\ isFlushing' = TRUE
  /\ reentrant' = 0
  /\ batch' = [batch EXCEPT ![t] = {[path |-> p, revision |-> revision[p]] : p \in pending}]
  /\ lastFlushed' = lastFlushed \cup pending
  /\ pending' = {}
  /\ fpc' = [fpc EXCEPT ![t] = "deliver"]
  /\ UNCHANGED <<data, now, calls, rounds, deferred, batchDepth, sub, seen,
                 since, batchStart, overflow>>

\* Mutant: the pending paths stay pending.
TakeRound_KeepPending(t) ==
  /\ fpc[t] = "round" /\ batchDepth = 0 /\ ~isFlushing /\ pending # {}
  /\ isFlushing' = TRUE
  /\ reentrant' = 0
  /\ batch' = [batch EXCEPT ![t] = {[path |-> p, revision |-> revision[p]] : p \in pending}]
  /\ lastFlushed' = lastFlushed \cup pending
  /\ fpc' = [fpc EXCEPT ![t] = "deliver"]
  /\ UNCHANGED <<data, now, calls, rounds, pending, deferred, batchDepth, sub, seen,
                 since, batchStart, overflow>>

\* A round: the pending paths, each with the revision it has now.
TakeRound(t) ==
  /\ fpc[t] = "round"
  /\ batchDepth = 0 /\ ~isFlushing /\ pending # {}
  /\ isFlushing' = TRUE
  /\ reentrant' = 0
  /\ batch' = [batch EXCEPT ![t] = {[path |-> p, revision |-> revision[p]] : p \in pending}]
  /\ lastFlushed' = lastFlushed \cup pending
  /\ pending' = {}
  /\ fpc' = [fpc EXCEPT ![t] = "deliver"]
  /\ UNCHANGED <<data, now, calls, rounds, deferred, batchDepth, sub, seen,
                 since, batchStart, overflow>>

\* collectSubscriptionsLocked, under the mutex.
Collect(t) ==
  /\ fpc[t] = "deliver"
  /\ \E e \in batch[t] :
       LET hit == {s \in Subs : sub[s] = "active" /\ Hears(s, e.path)} IN
       /\ batch' = [batch EXCEPT ![t] = @ \ {e}]
       /\ calls' = [calls EXCEPT ![t] = hit]
       /\ now' = [now EXCEPT ![t] = IF hit = {} THEN NoEntry ELSE e]
       /\ fpc' = [fpc EXCEPT ![t] = IF hit = {} THEN "deliver" ELSE "call"]
  /\ UNCHANGED <<data, rounds, isFlushing, pending, deferred, lastFlushed, batchDepth,
                 reentrant, sub, seen, since, batchStart, overflow>>

\* A callback starts, outside the mutex; the subscription may be off by now.
CallOne(t) ==
  /\ fpc[t] = "call"
  /\ \E s \in calls[t] :
       /\ calls' = [calls EXCEPT ![t] = @ \ {s}]
       /\ seen' = [seen EXCEPT ![s][now[t].path] = now[t].revision]
  /\ fpc' = [fpc EXCEPT ![t] = "callback"]
  /\ UNCHANGED <<data, batch, now, rounds, isFlushing, pending, deferred, lastFlushed,
                 batchDepth, reentrant, sub, since, batchStart, overflow>>

CallbackReturns(t) ==
  /\ fpc[t] = "callback"
  /\ fpc' = [fpc EXCEPT ![t] = IF calls[t] = {} THEN "deliver" ELSE "call"]
  /\ now' = [now EXCEPT ![t] = IF calls[t] = {} THEN NoEntry ELSE @]
  /\ UNCHANGED <<data, batch, calls, rounds, isFlushing, pending, deferred,
                 lastFlushed, batchDepth, reentrant, sub, seen, since, batchStart,
                 overflow>>

RoundOver(t) == fpc[t] = "deliver" /\ batch[t] = {}

\* Mutant: isFlushing_ is left set.
LastRound_KeepFlag(t) ==
  /\ RoundOver(t) /\ deferred = {}
  /\ fpc' = [fpc EXCEPT ![t] = "done"]
  /\ UNCHANGED <<data, batch, now, calls, rounds, isFlushing, pending, deferred,
                 lastFlushed, batchDepth, reentrant, sub, seen, since, batchStart, overflow>>

LastRound(t) ==
  /\ RoundOver(t)
  /\ deferred = {}
  /\ isFlushing' = FALSE
  /\ fpc' = [fpc EXCEPT ![t] = "done"]
  /\ UNCHANGED <<data, batch, now, calls, rounds, pending, deferred, lastFlushed,
                 batchDepth, reentrant, sub, seen, since, batchStart, overflow>>

OverLimit(t) == rounds[t] + 1 > FlushLimit \/ reentrant > FlushLimit

\* Mutant: the deferred paths are forgotten.
NextRound_DropDeferred(t) ==
  /\ RoundOver(t)
  /\ deferred # {} /\ ~OverLimit(t)
  /\ isFlushing' = FALSE
  /\ deferred' = {}
  /\ rounds' = [rounds EXCEPT ![t] = @ + 1]
  /\ fpc' = [fpc EXCEPT ![t] = "round"]
  /\ UNCHANGED <<data, batch, now, calls, pending, lastFlushed, batchDepth, reentrant,
                 sub, seen, since, batchStart, overflow>>

\* What was deferred makes the next round.
NextRound(t) ==
  /\ RoundOver(t)
  /\ deferred # {} /\ ~OverLimit(t)
  /\ isFlushing' = FALSE
  /\ pending' = pending \cup deferred
  /\ deferred' = {}
  /\ rounds' = [rounds EXCEPT ![t] = @ + 1]
  /\ fpc' = [fpc EXCEPT ![t] = "round"]
  /\ UNCHANGED <<data, batch, now, calls, lastFlushed, batchDepth, reentrant,
                 sub, seen, since, batchStart, overflow>>

\* flush throws: what was pending is dropped and the caller sees no paths.
LimitExceeded(t) ==
  /\ RoundOver(t)
  /\ deferred # {} /\ OverLimit(t)
  /\ isFlushing' = FALSE
  /\ pending' = {} /\ deferred' = {}
  /\ rounds' = [rounds EXCEPT ![t] = 0]
  /\ overflow' = IF reentrant > FlushLimit THEN "mutations" ELSE "rounds"
  /\ fpc' = [fpc EXCEPT ![t] = "idle"]
  /\ UNCHANGED <<data, batch, now, calls, lastFlushed, batchDepth, reentrant,
                 sub, seen, since, batchStart>>

\* consumeFlushedPaths, which StateManager calls when flush returns.
Consume(t) ==
  /\ fpc[t] = "done"
  /\ lastFlushed' = {}
  /\ rounds' = [rounds EXCEPT ![t] = 0]
  /\ fpc' = [fpc EXCEPT ![t] = "idle"]
  /\ UNCHANGED <<data, batch, now, calls, isFlushing, pending, deferred, batchDepth,
                 reentrant, sub, seen, since, batchStart, overflow>>

-----------------------------------------------------------------------------
\* What a caller or a callback may ask of the graph.
Request(t) ==
  \/ \E p \in Paths : Initialize(t, p) \/ SetPath(t, p) \/ DeletePath(t, p)
  \/ \E s \in Subs : Subscribe(t, s) \/ Unsubscribe(t, s)
  \/ BeginBatch(t) \/ EndBatch(t) \/ EndBatchInCallback(t) \/ NestedFlush(t)

\* flush up to the point where its caller takes the flushed paths.
FlushStep(t) ==
  \/ FlushReturns(t) \/ TakeRound(t)
  \/ Collect(t) \/ CallOne(t) \/ CallbackReturns(t)
  \/ LastRound(t) \/ NextRound(t) \/ LimitExceeded(t)

GraphNext == \E t \in Threads : Request(t) \/ ClearFlushed(t) \/ FlushStep(t) \/ Consume(t)

\* Threads are scheduled, callbacks return, and whatever else the main thread
\* does in an iteration of its loop, the update callback then flushes (strong
\* fairness).  Nobody is obliged to mutate or to end a batch.
GraphFairness ==
  /\ SF_graphVars(ClearFlushed(MainThread))
  /\ \A t \in Threads : WF_graphVars(FlushStep(t)) /\ WF_graphVars(Consume(t))
  /\ \A t \in Threads : WF_graphVars(fpc[t] = "clear" /\ ClearFlushed(t))

GraphSpec == GraphInit /\ [][GraphNext]_graphVars /\ GraphFairness

-----------------------------------------------------------------------------
(* Properties *)

InDelivery == UNION {batch[t] \cup {now[t]} : t \in Threads} \ {NoEntry}

Owed(s, p) ==
  /\ sub[s] = "active" /\ Hears(s, p)
  /\ queuedRevision[p] > since[s] /\ queuedRevision[p] > seen[s][p]

\* No change is lost: a mutation a live subscription was not told of is still
\* pending, deferred, or in the round being delivered (lines 165-169, 190-195,
\* 390-397), unless the limit made flush give up.
ChangeIsTracked ==
  overflow = "none" =>
    \A s \in Subs, p \in Paths : Owed(s, p) =>
      \/ p \in pending \cup deferred
      \/ \E t \in Threads :
           \/ \E e \in batch[t] : e.path = p
           \/ now[t].path = p /\ s \in calls[t]

\* A subscription is never called for a revision it was already told of, nor
\* for an older one, whichever threads flush and whatever callbacks do.
NoStaleCall ==
  \A t \in Threads : \A s \in calls[t] : seen[s][now[t].path] < now[t].revision

\* What is written inside a batch is delivered after it: while a batch is open
\* nothing newer than its start is in delivery (lines 154, 165-169).
BatchHidesMutations ==
  batchDepth > 0 => \A e \in InDelivery : e.revision <= batchStart

\* The limit is for re-entrant mutations, as its message says (line 201): while
\* nobody has subscribed no callback runs, so flush never throws.
LimitNeedsCallback == (\A s \in Subs : sub[s] = "new") => overflow = "none"

\* The loop delivers everything in the end, unless a batch stays open or the
\* limit was hit.
ChangesArrive ==
  []<>(\/ batchDepth > 0 \/ overflow # "none"
       \/ \A s \in Subs, p \in Paths : ~Owed(s, p))
=============================================================================
