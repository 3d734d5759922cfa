-------------------------- MODULE StateEvents_proofs --------------------------
(***************************************************************************)
(* Proofs about the states the two sides share and the events about them.  *)
(*                                                                         *)
(* The state graph and the manager above it, for any threads, paths,       *)
(* subscriptions, watchers and limits.  GraphInv is inductive for the      *)
(* graph alone.  Every step of the manager is a step of the graph or       *)
(* leaves it alone, so GraphInv carries over; ManagerInv adds who holds    *)
(* watchersMutex_ and what a flushing thread still has to notify.          *)
(*                                                                         *)
(* The events, for any names, listeners and callbacks, and without the     *)
(* bounds: EventsInv is inductive.  The two components share no variable;  *)
(* the second half of this module is about HostBridgeEvents only.          *)
(***************************************************************************)
EXTENDS StateManager, HostBridgeEvents, SequenceTheorems, FiniteSetTheorems, TLAPS

Busy(t) == fpc[t] \in {"deliver", "call", "callback"}
Queued == pending \cup deferred

\* One thread at a time delivers, while isFlushing_ is set.
OneDelivers ==
  /\ \A t \in Threads : Busy(t) => isFlushing
  /\ \A t, u \in Threads : Busy(t) /\ Busy(u) => t = u
  /\ \A t \in Threads : ~Busy(t) => batch[t] = {}
  /\ \A t \in Threads :
       fpc[t] \notin {"call", "callback"} => calls[t] = {} /\ now[t] = NoEntry
  /\ \A t \in Threads : fpc[t] \in {"call", "callback"} => now[t] \in Entry
  /\ ~isFlushing => deferred = {}

\* No history is ahead of the revisions, and nothing delivered is.
RevisionsAreOrdered ==
  /\ reentrant <= globalRevision
  /\ batchStart <= globalRevision
  /\ \A p \in Paths : queuedRevision[p] <= revision[p] /\ revision[p] <= globalRevision
  /\ \A s \in Subs, p \in Paths : seen[s][p] <= globalRevision
  /\ \A t \in Threads : \A e \in batch[t] : e.revision <= globalRevision
  /\ \A t \in Threads : now[t].revision <= globalRevision

\* A path is in a round at most once.
RoundIsDistinct ==
  \A t \in Threads : \A e \in batch[t] :
    /\ e.path # now[t].path
    /\ \A f \in batch[t] : e.path = f.path => e = f

\* An entry is the last queued change of its path, or its path is queued again
\* for a newer one.
EntryIsCurrent(e) ==
  /\ queuedRevision[e.path] <= e.revision \/ e.path \in Queued
  /\ e.path \in Queued => e.revision < revision[e.path]

DeliveryIsCurrent ==
  \A t \in Threads :
    /\ \A e \in batch[t] : EntryIsCurrent(e)
    /\ now[t] # NoEntry => EntryIsCurrent(now[t])

\* Nobody has been told of what is queued, nor of what waits in a batch.
NothingToldTwice ==
  /\ \A s \in Subs, p \in Queued : seen[s][p] < revision[p]
  /\ \A s \in Subs, t \in Threads : \A e \in batch[t] : seen[s][e.path] < e.revision
  /\ NoStaleCall

BatchClosed ==
  batchDepth > 0 =>
    \A t \in Threads :
      /\ \A e \in batch[t] : e.revision <= batchStart
      /\ now[t].revision <= batchStart

GraphInv ==
  /\ GraphTypeOK
  /\ OneDelivers
  /\ RevisionsAreOrdered
  /\ RoundIsDistinct
  /\ DeliveryIsCurrent
  /\ NothingToldTwice
  /\ BatchClosed
  /\ ChangeIsTracked

-----------------------------------------------------------------------------
(* The graph *)

LEMMA EntryFacts ==
  /\ NoEntry \notin Entry
  /\ NoEntry.path \notin Paths
  /\ NoEntry.revision = 0
  /\ \A e \in Entry : e.path \in Paths /\ e.revision \in 0..MaxRevision
  BY PathsArePaths DEF Entry, NoEntry

LEMMA GraphInitInv == GraphInit => GraphInv
<1> SUFFICES ASSUME GraphInit PROVE GraphInv
  OBVIOUS
<1> USE BoundsAreNatural DEF GraphInit
<1>1. GraphTypeOK
  <2>1. /\ globalRevision \in 0..MaxRevision /\ reentrant \in 0..MaxRevision
        /\ batchDepth \in 0..MaxDepth /\ batchStart \in 0..MaxRevision
    OBVIOUS
  <2>2. /\ revision \in [Paths -> 0..MaxRevision]
        /\ queuedRevision \in [Paths -> 0..MaxRevision]
    OBVIOUS
  <2>3. /\ seen \in [Subs -> [Paths -> 0..MaxRevision]]
        /\ since \in [Subs -> 0..MaxRevision]
    OBVIOUS
  <2>4. rounds \in [Threads -> 0..FlushLimit]
    OBVIOUS
  <2> QED
    BY <2>1, <2>2, <2>3, <2>4 DEF GraphTypeOK
<1>2. OneDelivers /\ RoundIsDistinct /\ DeliveryIsCurrent
  BY DEF OneDelivers, Busy, RoundIsDistinct, DeliveryIsCurrent
<1>3. RevisionsAreOrdered /\ BatchClosed
  BY DEF RevisionsAreOrdered, BatchClosed, NoEntry
<1>4. NothingToldTwice /\ ChangeIsTracked
  BY DEF NothingToldTwice, NoStaleCall, Queued, ChangeIsTracked, Owed
<1> QED
  BY <1>1, <1>2, <1>3, <1>4 DEF GraphInv

\* What initialize, set and deletePath have in common: a path gets the next
\* revision, and may be queued.
LEMMA WriteInv ==
  ASSUME GraphInv, NEW p \in Paths,
         exists' \subseteq Paths,
         globalRevision < MaxRevision,
         globalRevision' = globalRevision + 1,
         revision' = [revision EXCEPT ![p] = globalRevision + 1],
         \/ /\ UNCHANGED <<queuedRevision, pending, deferred, reentrant>>
         \/ /\ queuedRevision' = [queuedRevision EXCEPT ![p] = globalRevision + 1]
            /\ QueueMutation(p),
         UNCHANGED <<flushVars, lastFlushed, batchDepth, sub, seen, since, batchStart, overflow>>
  PROVE  GraphInv'
<1> USE BoundsAreNatural DEF flushVars
<1>1. GraphTypeOK'
  <2>0. globalRevision \in 0..MaxRevision /\ globalRevision + 1 \in 0..MaxRevision
    BY DEF GraphInv, GraphTypeOK
  <2>1. revision' \in [Paths -> 0..MaxRevision]
    BY <2>0 DEF GraphInv, GraphTypeOK
  <2>2. queuedRevision' \in [Paths -> 0..MaxRevision]
    BY <2>0 DEF GraphInv, GraphTypeOK
  <2>3. pending' \subseteq Paths /\ deferred' \subseteq Paths
    BY DEF GraphInv, GraphTypeOK, QueueMutation
  <2>4. reentrant' \in 0..MaxRevision
    BY <2>0 DEF GraphInv, GraphTypeOK, RevisionsAreOrdered, QueueMutation
  <2> QED
    BY <2>0, <2>1, <2>2, <2>3, <2>4 DEF GraphInv, GraphTypeOK
<1>2. OneDelivers'
  BY DEF GraphInv, OneDelivers, Busy, QueueMutation
<1>3. RevisionsAreOrdered'
  <2>0. globalRevision \in Nat /\ reentrant \in Nat /\ batchStart \in Nat
    BY DEF GraphInv, GraphTypeOK
  <2>1. reentrant' <= globalRevision' /\ batchStart' <= globalRevision'
    BY <2>0 DEF GraphInv, RevisionsAreOrdered, QueueMutation
  <2>2. ASSUME NEW q \in Paths
        PROVE  queuedRevision'[q] <= revision'[q] /\ revision'[q] <= globalRevision'
    BY <2>0 DEF GraphInv, GraphTypeOK, RevisionsAreOrdered
  <2>3. \A s \in Subs, q \in Paths : seen'[s][q] <= globalRevision'
    BY <2>0 DEF GraphInv, GraphTypeOK, RevisionsAreOrdered
  <2>4. ASSUME NEW t \in Threads
        PROVE  /\ \A e \in batch'[t] : e.revision <= globalRevision'
               /\ now'[t].revision <= globalRevision'
    BY <2>0, EntryFacts DEF GraphInv, GraphTypeOK, RevisionsAreOrdered
  <2> QED
    BY <2>1, <2>2, <2>3, <2>4 DEF RevisionsAreOrdered
<1>4. RoundIsDistinct'
  BY DEF GraphInv, RoundIsDistinct
<1>5. DeliveryIsCurrent'
  <2>1. ASSUME NEW e \in Entry, e.revision <= globalRevision, EntryIsCurrent(e)
        PROVE  EntryIsCurrent(e)'
    BY <2>1, EntryFacts DEF GraphInv, GraphTypeOK, EntryIsCurrent, Queued, QueueMutation
  <2> QED
    BY <2>1 DEF GraphInv, GraphTypeOK, RevisionsAreOrdered, DeliveryIsCurrent
<1>6. NothingToldTwice'
  BY DEF GraphInv, GraphTypeOK, RevisionsAreOrdered, NothingToldTwice, NoStaleCall, Queued,
         QueueMutation
<1>7. BatchClosed'
  BY DEF GraphInv, BatchClosed
<1>8. ChangeIsTracked'
  BY DEF GraphInv, GraphTypeOK, ChangeIsTracked, Owed, QueueMutation
<1> QED
  BY <1>1, <1>2, <1>3, <1>4, <1>5, <1>6, <1>7, <1>8 DEF GraphInv

LEMMA WritesInv ==
  ASSUME GraphInv, NEW t \in Threads, NEW p \in Paths,
         Initialize(t, p) \/ SetPath(t, p) \/ DeletePath(t, p)
  PROVE  GraphInv'
<1>1. exists' \subseteq Paths
  BY DEF GraphInv, GraphTypeOK, Initialize, SetPath, DeletePath, Above
<1> QED
  BY <1>1, WriteInv DEF Initialize, SetPath, DeletePath, Mutate

\* What touches neither a value, nor a round, nor what a subscription was told.
LEMMA QuietInv ==
  ASSUME GraphInv, NEW t \in Threads,
         \/ \E s \in Subs : Subscribe(t, s) \/ Unsubscribe(t, s)
         \/ BeginBatch(t) \/ EndBatch(t) \/ EndBatchInCallback(t) \/ NestedFlush(t)
         \/ ClearFlushed(t) \/ FlushReturns(t) \/ Consume(t)
  PROVE  GraphInv'
<1> USE BoundsAreNatural
        DEF data, flushVars, Subscribe, Unsubscribe, BeginBatch, EndBatch,
            EndBatchInCallback, NestedFlush, ClearFlushed, FlushReturns, Consume
<1>1. GraphTypeOK'
  <2>1. sub' \in [Subs -> {"new", "active", "off"}]
    BY DEF GraphInv, GraphTypeOK
  <2>2. since' \in [Subs -> 0..MaxRevision] /\ batchStart' \in 0..MaxRevision
    BY DEF GraphInv, GraphTypeOK
  <2>3. batchDepth' \in 0..MaxDepth
    BY DEF GraphInv, GraphTypeOK
  <2>4. rounds' \in [Threads -> 0..FlushLimit]
    BY DEF GraphInv, GraphTypeOK
  <2>5. fpc' \in [Threads -> {"idle", "clear", "round", "deliver", "call", "callback", "done"}]
    BY DEF GraphInv, GraphTypeOK
  <2>6. lastFlushed' \subseteq Paths
    BY DEF GraphInv, GraphTypeOK
  <2> QED
    BY <2>1, <2>2, <2>3, <2>4, <2>5, <2>6 DEF GraphInv, GraphTypeOK
<1>2. /\ UNCHANGED <<data, batch, now, calls, isFlushing, pending, deferred, reentrant, seen,
                     overflow>>
      /\ \A u \in Threads : /\ fpc[u] \in {"deliver", "call", "callback"} <=>
                                 fpc'[u] \in {"deliver", "call", "callback"}
                            /\ fpc[u] \in {"call", "callback"} <=> fpc'[u] \in {"call", "callback"}
  BY DEF GraphInv, GraphTypeOK
<1>3. OneDelivers'
  BY <1>2 DEF GraphInv, OneDelivers, Busy
<1>4. RevisionsAreOrdered'
  BY DEF GraphInv, GraphTypeOK, RevisionsAreOrdered
<1>5. RoundIsDistinct' /\ DeliveryIsCurrent'
  BY <1>2 DEF GraphInv, RoundIsDistinct, DeliveryIsCurrent, EntryIsCurrent, Queued
<1>6. NothingToldTwice'
  BY <1>2 DEF GraphInv, NothingToldTwice, NoStaleCall, Queued
<1>7. BatchClosed'
  BY DEF GraphInv, GraphTypeOK, BatchClosed, RevisionsAreOrdered
<1>8. ChangeIsTracked'
  <2>1. ASSUME NEW s \in Subs, NEW p \in Paths, Owed(s, p)'
        PROVE  Owed(s, p)
    <3>1. CASE Subscribe(t, s)
      BY <2>1, <3>1 DEF GraphInv, GraphTypeOK, RevisionsAreOrdered, Owed
    <3>2. CASE ~Subscribe(t, s)
      BY <2>1, <3>2 DEF GraphInv, GraphTypeOK, Owed
    <3> QED
      BY <3>1, <3>2
  <2> QED
    BY <1>2, <2>1 DEF GraphInv, ChangeIsTracked
<1> QED
  BY <1>1, <1>3, <1>4, <1>5, <1>6, <1>7, <1>8 DEF GraphInv

\* Nothing is in delivery while isFlushing_ is not set.
LEMMA NothingInDelivery ==
  ASSUME GraphInv, ~isFlushing, NEW t \in Threads
  PROVE  ~Busy(t) /\ batch[t] = {} /\ calls[t] = {} /\ now[t] = NoEntry
  BY DEF GraphInv, OneDelivers, Busy

LEMMA TakeRoundInv == ASSUME GraphInv, NEW t \in Threads, TakeRound(t) PROVE GraphInv'
<1> DEFINE round == {[path |-> p, revision |-> revision[p]] : p \in pending}
<1> USE BoundsAreNatural DEF data
<1>0. /\ ~isFlushing /\ isFlushing' = TRUE /\ batchDepth = 0 /\ batchDepth' = 0
      /\ deferred = {} /\ deferred' = {} /\ pending' = {} /\ reentrant' = 0
      /\ batch' = [batch EXCEPT ![t] = round] /\ fpc' = [fpc EXCEPT ![t] = "deliver"]
      /\ UNCHANGED <<data, now, calls, rounds, sub, seen, since, batchStart, overflow>>
  BY DEF TakeRound, GraphInv, OneDelivers
<1>1. /\ pending \subseteq Paths
      /\ \A p \in Paths : revision[p] \in 0..MaxRevision
      /\ round \subseteq Entry
  BY DEF GraphInv, GraphTypeOK, Entry
<1>2. /\ batch'[t] = round
      /\ \A u \in Threads \ {t} : batch'[u] = {} /\ fpc'[u] = fpc[u] /\ ~Busy(u)
      /\ \A u \in Threads : now'[u] = NoEntry /\ calls'[u] = {}
      /\ fpc'[t] = "deliver"
  BY <1>0, NothingInDelivery DEF GraphInv, GraphTypeOK
<1>3. GraphTypeOK'
  <2>1. batch' \in [Threads -> SUBSET Entry]
    BY <1>0, <1>1 DEF GraphInv, GraphTypeOK
  <2>2. fpc' \in [Threads -> {"idle", "clear", "round", "deliver", "call", "callback", "done"}]
    BY <1>0 DEF GraphInv, GraphTypeOK
  <2>3. lastFlushed' \subseteq Paths
    BY DEF GraphInv, GraphTypeOK, TakeRound
  <2> QED
    BY <1>0, <2>1, <2>2, <2>3 DEF GraphInv, GraphTypeOK
<1>4. OneDelivers'
  BY <1>0, <1>2 DEF OneDelivers, Busy
<1>5. \A e \in round : e.path \in pending /\ e.path \in Paths /\ e.revision = revision[e.path]
  BY <1>1
<1>6. RevisionsAreOrdered'
  <2>1. \A u \in Threads : \A e \in batch'[u] : e.revision <= globalRevision'
    BY <1>0, <1>2, <1>5 DEF GraphInv, RevisionsAreOrdered
  <2>2. \A u \in Threads : now'[u].revision <= globalRevision'
    BY <1>0 DEF GraphInv, RevisionsAreOrdered
  <2> QED
    BY <1>0, <2>1, <2>2 DEF GraphInv, GraphTypeOK, RevisionsAreOrdered
<1>7. RoundIsDistinct'
  BY <1>1, <1>2, <1>5, EntryFacts DEF RoundIsDistinct
<1>8. DeliveryIsCurrent'
  BY <1>0, <1>2, <1>5 DEF DeliveryIsCurrent, EntryIsCurrent, Queued, GraphInv, RevisionsAreOrdered
<1>9. NothingToldTwice'
  BY <1>0, <1>2, <1>5 DEF NothingToldTwice, NoStaleCall, Queued, GraphInv
<1>10. BatchClosed'
  BY <1>0 DEF BatchClosed
<1>11. ChangeIsTracked'
  <2> SUFFICES ASSUME overflow = "none", NEW s \in Subs, NEW p \in Paths, Owed(s, p)
               PROVE  \E e \in batch'[t] : e.path = p
    BY <1>0 DEF ChangeIsTracked, Owed
  <2>1. p \in pending
    BY <1>0, NothingInDelivery DEF GraphInv, ChangeIsTracked, NoEntry
  <2> DEFINE e == [path |-> p, revision |-> revision[p]]
  <2>2. e \in round /\ e.path = p
    BY <2>1
  <2> HIDE DEF e, round
  <2> QED
    BY <1>2, <2>2
<1> QED
  BY <1>3, <1>4, <1>6, <1>7, <1>8, <1>9, <1>10, <1>11 DEF GraphInv

LEMMA CollectInv == ASSUME GraphInv, NEW t \in Threads, Collect(t) PROVE GraphInv'
<1> USE BoundsAreNatural DEF data
<1>1. PICK e \in batch[t] :
        LET hit == {s \in Subs : sub[s] = "active" /\ Hears(s, e.path)} IN
        /\ batch' = [batch EXCEPT ![t] = @ \ {e}]
        /\ calls' = [calls EXCEPT ![t] = hit]
        /\ now' = [now EXCEPT ![t] = IF hit = {} THEN NoEntry ELSE e]
        /\ fpc' = [fpc EXCEPT ![t] = IF hit = {} THEN "deliver" ELSE "call"]
  BY DEF Collect
<1> DEFINE hit == {s \in Subs : sub[s] = "active" /\ Hears(s, e.path)}
<1>0. /\ fpc[t] = "deliver" /\ now[t] = NoEntry
      /\ UNCHANGED <<data, rounds, isFlushing, pending, deferred, lastFlushed, batchDepth,
                     reentrant, sub, seen, since, batchStart, overflow>>
  BY DEF Collect, GraphInv, OneDelivers
<1>2. /\ batch'[t] = batch[t] \ {e} /\ calls'[t] = hit
      /\ now'[t] = IF hit = {} THEN NoEntry ELSE e
      /\ fpc'[t] = IF hit = {} THEN "deliver" ELSE "call"
      /\ \A u \in Threads \ {t} : /\ batch'[u] = batch[u] /\ calls'[u] = calls[u]
                                  /\ now'[u] = now[u] /\ fpc'[u] = fpc[u]
  BY <1>1 DEF GraphInv, GraphTypeOK
<1>3. e \in Entry
  BY DEF GraphInv, GraphTypeOK
<1> HIDE DEF hit
<1>4. hit \subseteq Subs
  BY DEF hit
<1>5. GraphTypeOK'
  <2>1. batch' \in [Threads -> SUBSET Entry]
    BY <1>1 DEF GraphInv, GraphTypeOK
  <2>2. fpc' \in [Threads -> {"idle", "clear", "round", "deliver", "call", "callback", "done"}]
    BY <1>1 DEF GraphInv, GraphTypeOK
  <2>3. now' \in [Threads -> Entry \cup {NoEntry}]
    BY <1>1, <1>3 DEF GraphInv, GraphTypeOK
  <2>4. calls' \in [Threads -> SUBSET Subs]
    BY <1>1, <1>4 DEF GraphInv, GraphTypeOK, hit
  <2> QED
    BY <1>0, <2>1, <2>2, <2>3, <2>4 DEF GraphInv, GraphTypeOK
<1>6. OneDelivers'
  BY <1>0, <1>2, <1>3 DEF GraphInv, OneDelivers, Busy
<1>7. RevisionsAreOrdered'
  <2>1. \A u \in Threads : \A f \in batch'[u] : f.revision <= globalRevision'
    BY <1>0, <1>2 DEF GraphInv, RevisionsAreOrdered
  <2>2. \A u \in Threads : now'[u].revision <= globalRevision'
    BY <1>0, <1>2 DEF GraphInv, RevisionsAreOrdered
  <2> QED
    BY <1>0, <2>1, <2>2 DEF GraphInv, RevisionsAreOrdered
<1>8. RoundIsDistinct'
  BY <1>0, <1>2 DEF GraphInv, GraphTypeOK, RoundIsDistinct
<1>9. DeliveryIsCurrent'
  BY <1>0, <1>2, <1>3 DEF GraphInv, DeliveryIsCurrent, EntryIsCurrent, Queued
<1>10. NothingToldTwice'
  BY <1>0, <1>2, <1>4 DEF GraphInv, NothingToldTwice, NoStaleCall, Queued
<1>11. BatchClosed'
  BY <1>0, <1>2 DEF GraphInv, BatchClosed
<1>12. ChangeIsTracked'
  <2> SUFFICES ASSUME overflow = "none", NEW s \in Subs, NEW p \in Paths, Owed(s, p)
               PROVE  \/ p \in pending \cup deferred
                      \/ \E u \in Threads : \/ \E f \in batch'[u] : f.path = p
                                            \/ now'[u].path = p /\ s \in calls'[u]
    BY <1>0 DEF ChangeIsTracked, Owed
  <2>1. CASE e.path = p
    <3>1. s \in hit
      BY <2>1 DEF hit, Owed
    <3> QED
      BY <1>2, <2>1, <3>1
  <2>2. CASE \E f \in batch[t] : f # e /\ f.path = p
    BY <1>2, <2>2
  <2>3. CASE \E u \in Threads \ {t} : \/ \E f \in batch[u] : f.path = p
                                      \/ now[u].path = p /\ s \in calls[u]
    BY <1>2, <2>3
  <2>4. calls[t] = {}
    BY <1>0 DEF GraphInv, OneDelivers
  <2> QED
    BY <2>1, <2>2, <2>3, <2>4 DEF GraphInv, ChangeIsTracked
<1> QED
  BY <1>5, <1>6, <1>7, <1>8, <1>9, <1>10, <1>11, <1>12 DEF GraphInv

LEMMA CallOneInv == ASSUME GraphInv, NEW t \in Threads, CallOne(t) PROVE GraphInv'
<1> USE BoundsAreNatural DEF data
<1>1. PICK s \in calls[t] :
        /\ calls' = [calls EXCEPT ![t] = @ \ {s}]
        /\ seen' = [seen EXCEPT ![s][now[t].path] = now[t].revision]
  BY DEF CallOne
<1>0. /\ fpc[t] = "call" /\ fpc' = [fpc EXCEPT ![t] = "callback"]
      /\ UNCHANGED <<data, batch, now, rounds, isFlushing, pending, deferred, lastFlushed,
                     batchDepth, reentrant, sub, since, batchStart, overflow>>
  BY DEF CallOne
<1>2. /\ now[t] \in Entry /\ now[t] # NoEntry
      /\ now[t].path \in Paths /\ now[t].revision \in 0..MaxRevision /\ s \in Subs
  BY <1>0, EntryFacts DEF GraphInv, GraphTypeOK, OneDelivers
<1>3. /\ \A q \in Subs, p \in Paths :
           seen'[q][p] = IF q = s /\ p = now[t].path THEN now[t].revision ELSE seen[q][p]
      /\ calls'[t] = calls[t] \ {s}
      /\ \A u \in Threads \ {t} : calls'[u] = calls[u] /\ fpc'[u] = fpc[u]
      /\ fpc'[t] = "callback"
  BY <1>0, <1>1, <1>2 DEF GraphInv, GraphTypeOK
<1>4. \A u \in Threads \ {t} : batch[u] = {} /\ calls[u] = {} /\ now[u] = NoEntry
  BY <1>0 DEF GraphInv, OneDelivers, Busy
<1>5. GraphTypeOK'
  <2>1. seen' \in [Subs -> [Paths -> 0..MaxRevision]]
    BY <1>1, <1>2 DEF GraphInv, GraphTypeOK
  <2>2. fpc' \in [Threads -> {"idle", "clear", "round", "deliver", "call", "callback", "done"}]
    BY <1>0 DEF GraphInv, GraphTypeOK
  <2>3. calls' \in [Threads -> SUBSET Subs]
    BY <1>1 DEF GraphInv, GraphTypeOK
  <2> QED
    BY <1>0, <2>1, <2>2, <2>3 DEF GraphInv, GraphTypeOK
<1>6. OneDelivers'
  BY <1>0, <1>2, <1>3 DEF GraphInv, OneDelivers, Busy
<1>7. RevisionsAreOrdered'
  BY <1>0, <1>3 DEF GraphInv, RevisionsAreOrdered
<1>8. RoundIsDistinct' /\ DeliveryIsCurrent' /\ BatchClosed'
  BY <1>0 DEF GraphInv, RoundIsDistinct, DeliveryIsCurrent, EntryIsCurrent, Queued, BatchClosed
<1>9. NothingToldTwice'
  <2>1. ASSUME NEW q \in Subs, NEW p \in Queued PROVE seen'[q][p] < revision[p]
    BY <1>2, <1>3 DEF GraphInv, GraphTypeOK, NothingToldTwice, DeliveryIsCurrent, EntryIsCurrent,
                      Queued
  <2>2. ASSUME NEW q \in Subs, NEW u \in Threads, NEW e \in batch[u]
        PROVE  seen'[q][e.path] < e.revision
    <3>1. u = t /\ e.path # now[t].path /\ e.path \in Paths
      BY <1>4, EntryFacts DEF GraphInv, GraphTypeOK, RoundIsDistinct
    <3> QED
      BY <1>3, <3>1 DEF GraphInv, NothingToldTwice
  <2>3. ASSUME NEW u \in Threads, NEW q \in calls'[u]
        PROVE  seen'[q][now[u].path] < now[u].revision
    <3>1. u = t /\ q \in calls[t] /\ q # s /\ q \in Subs
      BY <1>3, <1>4 DEF GraphInv, GraphTypeOK
    <3> QED
      BY <1>2, <1>3, <3>1 DEF GraphInv, NothingToldTwice, NoStaleCall
  <2> QED
    BY <1>0, <2>1, <2>2, <2>3 DEF NothingToldTwice, NoStaleCall, Queued
<1>10. ChangeIsTracked'
  <2> SUFFICES ASSUME overflow = "none", NEW q \in Subs, NEW p \in Paths, Owed(q, p)'
               PROVE  \/ p \in pending \cup deferred
                      \/ \E u \in Threads : \/ \E f \in batch[u] : f.path = p
                                            \/ now[u].path = p /\ q \in calls'[u]
    BY <1>0 DEF ChangeIsTracked
  <2>1. CASE q = s /\ p = now[t].path
    <3>1. queuedRevision[p] > now[t].revision
      BY <1>0, <1>3, <2>1 DEF Owed
    <3> QED
      BY <1>2, <2>1, <3>1 DEF GraphInv, GraphTypeOK, DeliveryIsCurrent, EntryIsCurrent, Queued
  <2>2. CASE ~(q = s /\ p = now[t].path)
    <3>1. Owed(q, p)
      BY <1>0, <1>3, <2>2 DEF Owed
    <3> QED
      BY <1>3, <2>2, <3>1 DEF GraphInv, ChangeIsTracked
  <2> QED
    BY <2>1, <2>2
<1> QED
  BY <1>5, <1>6, <1>7, <1>8, <1>9, <1>10 DEF GraphInv

LEMMA CallbackReturnsInv == ASSUME GraphInv, NEW t \in Threads, CallbackReturns(t) PROVE GraphInv'
<1> USE BoundsAreNatural DEF data
<1>0. /\ fpc[t] = "callback"
      /\ UNCHANGED <<data, batch, calls, rounds, isFlushing, pending, deferred, lastFlushed,
                     batchDepth, reentrant, sub, seen, since, batchStart, overflow>>
      /\ fpc' = [fpc EXCEPT ![t] = IF calls[t] = {} THEN "deliver" ELSE "call"]
      /\ now' = [now EXCEPT ![t] = IF calls[t] = {} THEN NoEntry ELSE now[t]]
  BY DEF CallbackReturns
<1>1. /\ now'[t] = IF calls[t] = {} THEN NoEntry ELSE now[t]
      /\ fpc'[t] = IF calls[t] = {} THEN "deliver" ELSE "call"
      /\ \A u \in Threads \ {t} : now'[u] = now[u] /\ fpc'[u] = fpc[u]
      /\ \A u \in Threads : now'[u] = now[u] \/ (now'[u] = NoEntry /\ calls[u] = {})
  BY <1>0 DEF GraphInv, GraphTypeOK
<1>2. GraphTypeOK'
  <2>1. fpc' \in [Threads -> {"idle", "clear", "round", "deliver", "call", "callback", "done"}]
    BY <1>0 DEF GraphInv, GraphTypeOK
  <2>2. now' \in [Threads -> Entry \cup {NoEntry}]
    BY <1>0 DEF GraphInv, GraphTypeOK
  <2> QED
    BY <1>0, <2>1, <2>2 DEF GraphInv, GraphTypeOK
<1>3. OneDelivers'
  BY <1>0, <1>1 DEF GraphInv, OneDelivers, Busy
<1>4. RevisionsAreOrdered'
  BY <1>0, <1>1, EntryFacts DEF GraphInv, GraphTypeOK, RevisionsAreOrdered
<1>5. RoundIsDistinct'
  BY <1>0, <1>1, EntryFacts DEF GraphInv, GraphTypeOK, RoundIsDistinct
<1>6. DeliveryIsCurrent'
  BY <1>0, <1>1 DEF GraphInv, DeliveryIsCurrent, EntryIsCurrent, Queued
<1>7. NothingToldTwice' /\ ChangeIsTracked'
  BY <1>0, <1>1 DEF GraphInv, NothingToldTwice, NoStaleCall, Queued, ChangeIsTracked, Owed
<1>8. BatchClosed'
  BY <1>0, <1>1, EntryFacts DEF GraphInv, GraphTypeOK, BatchClosed
<1> QED
  BY <1>2, <1>3, <1>4, <1>5, <1>6, <1>7, <1>8 DEF GraphInv

\* A round is over: what was deferred is pending now, was nothing, or is dropped.
LEMMA RoundEndsInv ==
  ASSUME GraphInv, NEW t \in Threads, LastRound(t) \/ NextRound(t) \/ LimitExceeded(t)
  PROVE  GraphInv'
<1> USE BoundsAreNatural DEF data, RoundOver
<1>0. /\ fpc[t] = "deliver" /\ isFlushing' = FALSE /\ deferred' = {}
      /\ \E to \in {"idle", "round", "done"} : fpc' = [fpc EXCEPT ![t] = to]
      /\ Queued' = Queued \/ (pending' = {} /\ overflow' # "none")
      /\ overflow' = overflow \/ overflow' # "none"
      /\ Queued' \subseteq Queued
      /\ UNCHANGED <<data, batch, now, calls, lastFlushed, batchDepth, reentrant, sub, seen,
                     since, batchStart>>
  BY DEF LastRound, NextRound, LimitExceeded, Queued
<1>1. \A u \in Threads : batch[u] = {} /\ calls[u] = {} /\ now[u] = NoEntry
  BY <1>0 DEF GraphInv, OneDelivers, Busy, LastRound, NextRound, LimitExceeded
<1>2. GraphTypeOK'
  <2>1. fpc' \in [Threads -> {"idle", "clear", "round", "deliver", "call", "callback", "done"}]
    BY <1>0 DEF GraphInv, GraphTypeOK
  <2>2. rounds' \in [Threads -> 0..FlushLimit]
    BY DEF GraphInv, GraphTypeOK, LastRound, NextRound, LimitExceeded, OverLimit
  <2>3. pending' \subseteq Paths
    BY DEF GraphInv, GraphTypeOK, LastRound, NextRound, LimitExceeded
  <2>4. overflow' \in {"none", "rounds", "mutations"}
    BY DEF GraphInv, GraphTypeOK, LastRound, NextRound, LimitExceeded
  <2> QED
    BY <1>0, <2>1, <2>2, <2>3, <2>4 DEF GraphInv, GraphTypeOK
<1>3. OneDelivers'
  BY <1>0, <1>1 DEF GraphInv, GraphTypeOK, OneDelivers, Busy
<1>4. RevisionsAreOrdered' /\ RoundIsDistinct' /\ DeliveryIsCurrent' /\ BatchClosed'
  BY <1>0, <1>1 DEF GraphInv, RevisionsAreOrdered, RoundIsDistinct, DeliveryIsCurrent,
                    BatchClosed
<1>5. NothingToldTwice'
  BY <1>0, <1>1 DEF GraphInv, NothingToldTwice, NoStaleCall
<1>6. ChangeIsTracked'
  BY <1>0, <1>1 DEF GraphInv, ChangeIsTracked, Owed, Queued
<1> QED
  BY <1>2, <1>3, <1>4, <1>5, <1>6 DEF GraphInv

LEMMA GraphStepInv == ASSUME GraphInv, [GraphNext]_graphVars PROVE GraphInv'
<1>1. CASE GraphNext
  <2>1. PICK t \in Threads : Request(t) \/ ClearFlushed(t) \/ FlushStep(t) \/ Consume(t)
    BY <1>1 DEF GraphNext
  <2> QED
    BY <2>1, WritesInv, QuietInv, TakeRoundInv, CollectInv, CallOneInv, CallbackReturnsInv,
       RoundEndsInv DEF Request, FlushStep
<1>2. CASE UNCHANGED graphVars
  BY <1>2 DEF graphVars, data, flushVars, GraphInv, GraphTypeOK, OneDelivers, Busy,
              RevisionsAreOrdered, RoundIsDistinct, DeliveryIsCurrent, EntryIsCurrent, Queued,
              NothingToldTwice, NoStaleCall, BatchClosed, ChangeIsTracked, Owed
<1> QED
  BY <1>1, <1>2

\* The types of what is queued, deferred or delivered, and whose round it is, for
\* any threads, paths, subscriptions and mutations (NativeStateGraph::flush).
THEOREM GraphInvariant == GraphSpec => []GraphInv
<1>1. GraphInit => GraphInv
  BY GraphInitInv
<1>2. GraphInv /\ [GraphNext]_graphVars => GraphInv'
  BY GraphStepInv
<1> QED
  BY <1>1, <1>2, PTL DEF GraphSpec

\* No mutation is lost between the threads that mutate, subscribe, batch and
\* flush, unless the re-entrancy limit made flush give up.
THEOREM NoChangeIsLost == GraphSpec => []ChangeIsTracked
<1>1. GraphInv => ChangeIsTracked
  BY DEF GraphInv
<1> QED
  BY <1>1, GraphInvariant, PTL

\* A subscription is told of the revisions of a path in ascending order, each
\* at most once.
THEOREM CallsAreFresh == GraphSpec => []NoStaleCall
<1>1. GraphInv => NoStaleCall
  BY DEF GraphInv, NothingToldTwice
<1> QED
  BY <1>1, GraphInvariant, PTL

\* Nothing written inside an open batch is in delivery.
THEOREM BatchIsClosed == GraphSpec => []BatchHidesMutations
<1>1. GraphInv => BatchHidesMutations
  BY DEF GraphInv, BatchClosed, BatchHidesMutations, InDelivery
<1> QED
  BY <1>1, GraphInvariant, PTL

-----------------------------------------------------------------------------
(* The manager *)

InCall(t) == npc[t] \in {"call", "callback", "relock"}
HasValue(t) == npc[t] \in {"mutate", "lock", "call", "callback", "relock"}

\* watchersMutex_ is held from the lock to the end of the loop over the
\* watchers, and through a flush that one of them calls.
LockIsHeld ==
  /\ \A t \in Threads : InCall(t) \/ outer[t].nested => watchLock = t
  /\ \A t \in Threads : ~InCall(t) => left[t] = {}
  /\ \A t \in Threads : ~outer[t].nested => outer[t] = NoFrame
  /\ \A t \in Threads : outer[t].nested => npc[t] \in {"none", "read", "lock"}

ValueIsEntry ==
  \A t \in Threads : /\ HasValue(t) => value[t] \in Entry
                     /\ outer[t].nested => outer[t].value \in Entry

ManagerInv ==
  /\ StateTypeOK
  /\ GraphInv
  /\ LockIsHeld
  /\ ValueIsEntry
  /\ NoCallAfterUnwatch

LEMMA ManagerInitInv == Init => ManagerInv
<1> SUFFICES ASSUME Init PROVE ManagerInv
  OBVIOUS
<1>1. GraphInv
  BY GraphInitInv DEF Init
<1>2. StateTypeOK
  <2>1. NoFrame \in [todo : SUBSET Paths, value : Entry \cup {NoEntry},
                     left : SUBSET Watchers, nested : BOOLEAN]
    BY DEF NoFrame
  <2>2. heard \in [Watchers -> 0..MaxRevision] /\ watchSince \in [Watchers -> 0..MaxRevision]
    BY BoundsAreNatural DEF Init
  <2> QED
    BY <1>1, <2>1, <2>2 DEF Init, StateTypeOK, GraphInv
<1>3. LockIsHeld /\ ValueIsEntry /\ NoCallAfterUnwatch
  BY DEF Init, LockIsHeld, InCall, ValueIsEntry, HasValue, NoCallAfterUnwatch, NoFrame
<1> QED
  BY <1>1, <1>2, <1>3 DEF ManagerInv

\* The manager drives the graph through the graph's own operations.
LEMMA StepsAreGraphSteps == ASSUME ManagerInv, [Next]_vars PROVE [GraphNext]_graphVars
<1>1. ASSUME NEW t \in Threads, MutateWrite(t) PROVE [GraphNext]_graphVars
  <2>1. value[t].path \in Paths
    BY <1>1, EntryFacts DEF MutateWrite, ManagerInv, ValueIsEntry, HasValue
  <2> QED
    BY <1>1, <2>1 DEF MutateWrite, GraphNext, Request
<1>2. ASSUME NEW t \in Threads, NotifyStep(t) PROVE [GraphNext]_graphVars
  BY <1>2 DEF NotifyStep, TakeFlushed, ReadValue, LockWatchers, CallWatcher, WatcherReturns,
              PathDone, AllNotified, GraphNext
<1>3. ASSUME NEW t \in Threads, CallbackStep(t) PROVE [GraphNext]_graphVars
  BY <1>3 DEF CallbackStep, CallbackSets, CallbackFlushes, CallbackUnwatches, GraphNext, Request
<1>4. ASSUME NEW t \in Threads, GraphRequest(t) \/ GraphFlush(t) \/ GraphStep(t)
      PROVE  [GraphNext]_graphVars
  BY <1>4 DEF GraphRequest, GraphFlush, GraphStep, GraphNext
<1>5. ASSUME NEW t \in Threads,
             \/ \E w \in Watchers : Watch(t, w) \/ Unwatch(t, w)
             \/ \E p \in Paths : MutateRead(t, p)
      PROVE  [GraphNext]_graphVars
  BY <1>5 DEF Watch, Unwatch, MutateRead
<1>6. ClearWatchers => [GraphNext]_graphVars
  BY DEF ClearWatchers
<1>7. UNCHANGED vars => [GraphNext]_graphVars
  BY DEF vars
<1> QED
  BY <1>1, <1>2, <1>3, <1>4, <1>5, <1>6, <1>7 DEF Next

LEMMA GraphKept == ASSUME ManagerInv, [Next]_vars PROVE GraphInv' /\ GraphTypeOK'
<1>1. GraphInv'
  BY StepsAreGraphSteps, GraphStepInv DEF ManagerInv
<1> QED
  BY <1>1 DEF GraphInv

\* Steps of the graph that leave the manager where it is.
LEMMA ManagerRestsInv == ASSUME ManagerInv, [Next]_vars, UNCHANGED watchVars PROVE ManagerInv'
  BY GraphKept DEF watchVars, ManagerInv, StateTypeOK, LockIsHeld, InCall, ValueIsEntry, HasValue,
                   NoCallAfterUnwatch

\* Nobody is in the loop over the watchers while the mutex is free.
LEMMA FreeLock ==
  ASSUME ManagerInv, watchLock = NoThread, NEW t \in Threads
  PROVE  left[t] = {} /\ outer[t] = NoFrame /\ ~InCall(t) /\ ~outer[t].nested
  BY NoThreadIsNoThread DEF ManagerInv, LockIsHeld

LEMMA WatchInv ==
  ASSUME ManagerInv, [Next]_vars,
         \/ ClearWatchers
         \/ \E t \in Threads, w \in Watchers : Watch(t, w) \/ Unwatch(t, w)
  PROVE  ManagerInv'
<1>1. /\ watchLock = NoThread
      /\ UNCHANGED <<graphVars, watchLock, npc, todo, value, left, outer, heard>>
  BY DEF ClearWatchers, Watch, Unwatch
<1>2. watch' \in [Watchers -> {"new", "on", "off"}]
  BY DEF ManagerInv, StateTypeOK, ClearWatchers, Watch, Unwatch
<1>3. watchSince' \in [Watchers -> 0..MaxRevision]
  <2>1. watchSince \in [Watchers -> 0..MaxRevision] /\ revision \in [Paths -> 0..MaxRevision]
    BY DEF ManagerInv, StateTypeOK, GraphInv, GraphTypeOK
  <2>2. ASSUME NEW t \in Threads, NEW w \in Watchers, Watch(t, w)
        PROVE  watchSince' \in [Watchers -> 0..MaxRevision]
    <3>1. revision[WatchedPath[w]] \in 0..MaxRevision
      BY <2>1, WatchersAreTyped
    <3> QED
      BY <2>1, <2>2, <3>1 DEF Watch
  <2> QED
    BY <2>1, <2>2 DEF ClearWatchers, Unwatch
<1>4. StateTypeOK'
  BY <1>1, <1>2, <1>3, GraphKept DEF ManagerInv, StateTypeOK
<1>5. LockIsHeld' /\ ValueIsEntry'
  BY <1>1 DEF ManagerInv, LockIsHeld, InCall, ValueIsEntry, HasValue
<1>6. NoCallAfterUnwatch'
  BY <1>1, FreeLock DEF NoCallAfterUnwatch, NoFrame
<1> QED
  BY <1>4, <1>5, <1>6, GraphKept DEF ManagerInv

LEMMA EntryOfPath ==
  ASSUME GraphTypeOK, NEW p \in Paths
  PROVE  [path |-> p, revision |-> revision[p]] \in Entry
  BY DEF GraphTypeOK, Entry

LEMMA MutateInv ==
  ASSUME ManagerInv, [Next]_vars, NEW t \in Threads,
         (\E p \in Paths : MutateRead(t, p)) \/ MutateWrite(t)
  PROVE  ManagerInv'
<1>1. /\ UNCHANGED <<watch, watchLock, todo, left, outer, heard, watchSince>>
      /\ npc[t] \in {"none", "mutate"} /\ ~outer[t].nested
      /\ \E to \in {"none", "mutate"}, v \in Entry \cup {NoEntry} :
           /\ npc' = [npc EXCEPT ![t] = to]
           /\ value' = [value EXCEPT ![t] = v]
           /\ to = "mutate" => v \in Entry
  <2>1. CASE \E p \in Paths : MutateRead(t, p)
    BY <2>1, EntryOfPath DEF MutateRead, Outside, ManagerInv, GraphInv
  <2>2. CASE MutateWrite(t)
    BY <2>2 DEF MutateWrite, ManagerInv, LockIsHeld
  <2> QED
    BY <2>1, <2>2
<1>2. StateTypeOK'
  <2>1. npc' \in [Threads -> {"none", "mutate", "read", "lock", "call", "callback", "relock"}]
    BY <1>1 DEF ManagerInv, StateTypeOK
  <2>2. value' \in [Threads -> Entry \cup {NoEntry}]
    BY <1>1 DEF ManagerInv, StateTypeOK
  <2> QED
    BY <1>1, <2>1, <2>2, GraphKept DEF ManagerInv, StateTypeOK
<1>3. LockIsHeld'
  BY <1>1 DEF ManagerInv, StateTypeOK, LockIsHeld, InCall
<1>4. ValueIsEntry'
  BY <1>1 DEF ManagerInv, StateTypeOK, ValueIsEntry, HasValue
<1>5. NoCallAfterUnwatch'
  BY <1>1 DEF ManagerInv, NoCallAfterUnwatch
<1> QED
  BY <1>2, <1>3, <1>4, <1>5, GraphKept DEF ManagerInv

LEMMA NotifyInv ==
  ASSUME ManagerInv, [Next]_vars, NEW t \in Threads,
         \/ TakeFlushed(t) \/ ReadValue(t) \/ CallWatcher(t) \/ WatcherReturns(t)
         \/ CallbackUnwatches(t)
  PROVE  ManagerInv'
<1>1. /\ UNCHANGED <<watch, watchLock, outer, watchSince>>
      /\ todo' \in [Threads -> SUBSET Paths]
      /\ heard' \in [Watchers -> 0..MaxRevision]
  <2>1. CASE TakeFlushed(t)
    BY <2>1 DEF TakeFlushed, ManagerInv, StateTypeOK, GraphInv, GraphTypeOK
  <2>2. CASE ReadValue(t)
    BY <2>2 DEF ReadValue, ManagerInv, StateTypeOK
  <2>3. CASE CallWatcher(t)
    <3>1. value[t].revision \in 0..MaxRevision
      BY <2>3, EntryFacts DEF CallWatcher, ManagerInv, ValueIsEntry, HasValue
    <3> QED
      BY <2>3, <3>1 DEF CallWatcher, ManagerInv, StateTypeOK
  <2>4. CASE WatcherReturns(t) \/ CallbackUnwatches(t)
    BY <2>4 DEF WatcherReturns, CallbackUnwatches, ManagerInv, StateTypeOK
  <2> QED
    BY <2>1, <2>2, <2>3, <2>4
<1>2. \E to \in {"read", "lock", "call", "callback", "relock"} :
        /\ npc' = [npc EXCEPT ![t] = to]
        /\ InCall(t) <=> to \in {"call", "callback", "relock"}
        /\ outer[t].nested => to \in {"none", "read", "lock"}
  BY DEF TakeFlushed, ReadValue, CallWatcher, WatcherReturns, CallbackUnwatches, InCall,
         ManagerInv, LockIsHeld
<1>3. \/ value' = value /\ (HasValue(t) \/ npc'[t] = "read")
      \/ /\ ReadValue(t)
         /\ \E v \in Entry : value' = [value EXCEPT ![t] = v]
  <2>1. CASE ReadValue(t)
    BY <2>1, EntryOfPath DEF ReadValue, ManagerInv, StateTypeOK, GraphInv
  <2> QED
    BY <2>1 DEF TakeFlushed, CallWatcher, WatcherReturns, CallbackUnwatches, HasValue,
                ManagerInv, StateTypeOK
<1>4. \/ left' = left
      \/ CallWatcher(t) /\ \E w \in left[t] : left' = [left EXCEPT ![t] = left[t] \ {w}]
  BY DEF TakeFlushed, ReadValue, CallWatcher, WatcherReturns, CallbackUnwatches
<1>5. StateTypeOK'
  <2>1. npc' \in [Threads -> {"none", "mutate", "read", "lock", "call", "callback", "relock"}]
    BY <1>2 DEF ManagerInv, StateTypeOK
  <2>2. value' \in [Threads -> Entry \cup {NoEntry}]
    BY <1>3 DEF ManagerInv, StateTypeOK
  <2>3. left' \in [Threads -> SUBSET Watchers]
    BY <1>4 DEF ManagerInv, StateTypeOK
  <2> QED
    BY <1>1, <2>1, <2>2, <2>3, GraphKept DEF ManagerInv, StateTypeOK
<1>6. LockIsHeld'
  BY <1>1, <1>2, <1>4 DEF ManagerInv, StateTypeOK, LockIsHeld, InCall
<1>7. ValueIsEntry'
  BY <1>1, <1>2, <1>3 DEF ManagerInv, StateTypeOK, ValueIsEntry, HasValue
<1>8. NoCallAfterUnwatch'
  BY <1>1, <1>4 DEF ManagerInv, StateTypeOK, NoCallAfterUnwatch
<1> QED
  BY <1>5, <1>6, <1>7, <1>8, GraphKept DEF ManagerInv

LEMMA LockWatchersInv ==
  ASSUME ManagerInv, [Next]_vars, NEW t \in Threads, LockWatchers(t) PROVE ManagerInv'
<1> DEFINE on == {w \in Watchers : watch[w] = "on" /\ WatchedPath[w] = value[t].path}
<1>0. /\ npc[t] = "lock" /\ watchLock = NoThread /\ watchLock' = t
      /\ left' = [left EXCEPT ![t] = on] /\ npc' = [npc EXCEPT ![t] = "call"]
      /\ UNCHANGED <<graphVars, watch, todo, value, outer, heard, watchSince>>
  BY DEF LockWatchers
<1>1. on \in SUBSET Watchers /\ \A w \in on : watch[w] = "on"
  OBVIOUS
<1> HIDE DEF on
<1>2. StateTypeOK'
  <2>1. npc' \in [Threads -> {"none", "mutate", "read", "lock", "call", "callback", "relock"}]
    BY <1>0 DEF ManagerInv, StateTypeOK
  <2>2. left' \in [Threads -> SUBSET Watchers]
    BY <1>0, <1>1 DEF ManagerInv, StateTypeOK
  <2> QED
    BY <1>0, <2>1, <2>2, GraphKept DEF ManagerInv, StateTypeOK
<1>3. LockIsHeld'
  BY <1>0, FreeLock DEF ManagerInv, StateTypeOK, LockIsHeld, InCall
<1>4. ValueIsEntry'
  BY <1>0 DEF ManagerInv, StateTypeOK, ValueIsEntry, HasValue
<1>5. NoCallAfterUnwatch'
  BY <1>0, <1>1 DEF ManagerInv, StateTypeOK, NoCallAfterUnwatch
<1> QED
  BY <1>2, <1>3, <1>4, <1>5, GraphKept DEF ManagerInv

LEMMA PathDoneInv ==
  ASSUME ManagerInv, [Next]_vars, NEW t \in Threads, PathDone(t) PROVE ManagerInv'
<1>0. /\ npc[t] = "call" /\ left[t] = {} /\ watchLock' = NoThread
      /\ value' = [value EXCEPT ![t] = NoEntry] /\ npc' = [npc EXCEPT ![t] = "read"]
      /\ UNCHANGED <<graphVars, watch, todo, left, outer, heard, watchSince>>
  BY DEF PathDone
<1>1. /\ watchLock = t /\ ~outer[t].nested
      /\ \A u \in Threads \ {t} : ~InCall(u) /\ ~outer[u].nested
  BY <1>0 DEF ManagerInv, LockIsHeld, InCall
<1>2. StateTypeOK'
  <2>1. npc' \in [Threads -> {"none", "mutate", "read", "lock", "call", "callback", "relock"}]
    BY <1>0 DEF ManagerInv, StateTypeOK
  <2>2. value' \in [Threads -> Entry \cup {NoEntry}]
    BY <1>0 DEF ManagerInv, StateTypeOK
  <2> QED
    BY <1>0, <2>1, <2>2, GraphKept DEF ManagerInv, StateTypeOK
<1>3. LockIsHeld'
  BY <1>0, <1>1 DEF ManagerInv, StateTypeOK, LockIsHeld, InCall
<1>4. ValueIsEntry'
  BY <1>0 DEF ManagerInv, StateTypeOK, ValueIsEntry, HasValue
<1>5. NoCallAfterUnwatch'
  BY <1>0 DEF ManagerInv, NoCallAfterUnwatch
<1> QED
  BY <1>2, <1>3, <1>4, <1>5, GraphKept DEF ManagerInv

\* A watcher callback flushes, and its flush returns into it: the frame of the
\* loop it runs in is put aside and brought back.
LEMMA FrameInv ==
  ASSUME ManagerInv, [Next]_vars, NEW t \in Threads, AllNotified(t) \/ CallbackFlushes(t)
  PROVE  ManagerInv'
<1>0. UNCHANGED <<watch, watchLock, heard, watchSince>>
  BY DEF AllNotified, CallbackFlushes
<1>1. CASE AllNotified(t) /\ ~outer[t].nested
  <2>1. /\ npc[t] = "read" /\ npc' = [npc EXCEPT ![t] = "none"]
        /\ UNCHANGED <<todo, value, left, outer>>
    BY <1>1 DEF AllNotified
  <2>2. StateTypeOK'
    <3>1. npc' \in [Threads -> {"none", "mutate", "read", "lock", "call", "callback", "relock"}]
      BY <2>1 DEF ManagerInv, StateTypeOK
    <3> QED
      BY <1>0, <2>1, <3>1, GraphKept DEF ManagerInv, StateTypeOK
  <2>3. LockIsHeld' /\ ValueIsEntry' /\ NoCallAfterUnwatch'
    BY <1>0, <2>1 DEF ManagerInv, StateTypeOK, LockIsHeld, InCall, ValueIsEntry, HasValue,
                      NoCallAfterUnwatch
  <2> QED
    BY <2>2, <2>3, GraphKept DEF ManagerInv
<1>2. CASE AllNotified(t) /\ outer[t].nested
  <2>1. /\ npc[t] = "read" /\ npc' = [npc EXCEPT ![t] = "callback"]
        /\ todo' = [todo EXCEPT ![t] = outer[t].todo]
        /\ value' = [value EXCEPT ![t] = outer[t].value]
        /\ left' = [left EXCEPT ![t] = outer[t].left]
        /\ outer' = [outer EXCEPT ![t] = NoFrame]
    BY <1>2 DEF AllNotified
  <2>2. /\ outer[t].todo \in SUBSET Paths /\ outer[t].left \in SUBSET Watchers
        /\ outer[t].value \in Entry /\ ~NoFrame.nested /\ NoFrame.left = {}
    BY <1>2 DEF ManagerInv, StateTypeOK, ValueIsEntry, NoFrame
  <2>3. StateTypeOK'
    <3>1. npc' \in [Threads -> {"none", "mutate", "read", "lock", "call", "callback", "relock"}]
      BY <2>1 DEF ManagerInv, StateTypeOK
    <3>2. todo' \in [Threads -> SUBSET Paths] /\ left' \in [Threads -> SUBSET Watchers]
      BY <2>1, <2>2 DEF ManagerInv, StateTypeOK
    <3>3. value' \in [Threads -> Entry \cup {NoEntry}]
      BY <2>1, <2>2 DEF ManagerInv, StateTypeOK
    <3>4. outer' \in [Threads -> [todo : SUBSET Paths, value : Entry \cup {NoEntry},
                                  left : SUBSET Watchers, nested : BOOLEAN]]
      BY <2>1 DEF ManagerInv, StateTypeOK, NoFrame
    <3> QED
      BY <1>0, <3>1, <3>2, <3>3, <3>4, GraphKept DEF ManagerInv, StateTypeOK
  <2>4. LockIsHeld'
    BY <1>0, <1>2, <2>1, <2>2 DEF ManagerInv, StateTypeOK, LockIsHeld, InCall
  <2>5. ValueIsEntry'
    BY <2>1, <2>2 DEF ManagerInv, StateTypeOK, ValueIsEntry, HasValue
  <2>6. NoCallAfterUnwatch'
    BY <1>0, <2>1, <2>2 DEF ManagerInv, StateTypeOK, NoCallAfterUnwatch
  <2> QED
    BY <2>3, <2>4, <2>5, <2>6, GraphKept DEF ManagerInv
<1>3. CASE CallbackFlushes(t)
  <2> DEFINE frame == [todo |-> todo[t], value |-> value[t], left |-> left[t], nested |-> TRUE]
  <2>1. /\ npc[t] = "callback" /\ ~outer[t].nested
        /\ outer' = [outer EXCEPT ![t] = frame]
        /\ npc' = [npc EXCEPT ![t] = "none"]
        /\ todo' = [todo EXCEPT ![t] = {}]
        /\ value' = [value EXCEPT ![t] = NoEntry]
        /\ left' = [left EXCEPT ![t] = {}]
    BY <1>3 DEF CallbackFlushes
  <2>2. /\ frame \in [todo : SUBSET Paths, value : Entry \cup {NoEntry},
                       left : SUBSET Watchers, nested : BOOLEAN]
        /\ frame.nested /\ frame.left = left[t] /\ frame.value \in Entry
    BY <2>1 DEF ManagerInv, StateTypeOK, ValueIsEntry, HasValue
  <2> HIDE DEF frame
  <2>3. StateTypeOK'
    <3>1. npc' \in [Threads -> {"none", "mutate", "read", "lock", "call", "callback", "relock"}]
      BY <2>1 DEF ManagerInv, StateTypeOK
    <3>2. todo' \in [Threads -> SUBSET Paths] /\ left' \in [Threads -> SUBSET Watchers]
      BY <2>1 DEF ManagerInv, StateTypeOK
    <3>3. value' \in [Threads -> Entry \cup {NoEntry}]
      BY <2>1 DEF ManagerInv, StateTypeOK
    <3>4. outer' \in [Threads -> [todo : SUBSET Paths, value : Entry \cup {NoEntry},
                                  left : SUBSET Watchers, nested : BOOLEAN]]
      BY <2>1, <2>2 DEF ManagerInv, StateTypeOK
    <3> QED
      BY <1>0, <3>1, <3>2, <3>3, <3>4, GraphKept DEF ManagerInv, StateTypeOK
  <2>4. LockIsHeld'
    BY <1>0, <2>1, <2>2 DEF ManagerInv, StateTypeOK, LockIsHeld, InCall
  <2>5. ValueIsEntry'
    BY <2>1, <2>2 DEF ManagerInv, StateTypeOK, ValueIsEntry, HasValue
  <2>6. NoCallAfterUnwatch'
    BY <1>0, <2>1, <2>2 DEF ManagerInv, StateTypeOK, NoCallAfterUnwatch
  <2> QED
    BY <2>3, <2>4, <2>5, <2>6, GraphKept DEF ManagerInv
<1> QED
  BY <1>1, <1>2, <1>3

LEMMA ManagerStepInv == ASSUME ManagerInv, [Next]_vars PROVE ManagerInv'
<1>1. CASE UNCHANGED vars
  BY <1>1, ManagerRestsInv DEF vars
<1>2. CASE ClearWatchers
  BY <1>2, WatchInv
<1>3. ASSUME NEW t \in Threads,
             \/ GraphRequest(t) \/ GraphFlush(t) \/ GraphStep(t)
             \/ \E p \in Paths : CallbackSets(t, p)
      PROVE  ManagerInv'
  BY <1>3, ManagerRestsInv DEF GraphRequest, GraphFlush, GraphStep, CallbackSets
<1>4. ASSUME NEW t \in Threads, \E w \in Watchers : Watch(t, w) \/ Unwatch(t, w)
      PROVE  ManagerInv'
  BY <1>4, WatchInv
<1>5. ASSUME NEW t \in Threads, (\E p \in Paths : MutateRead(t, p)) \/ MutateWrite(t)
      PROVE  ManagerInv'
  BY <1>5, MutateInv
<1>6. ASSUME NEW t \in Threads, NotifyStep(t) \/ CallbackFlushes(t) \/ CallbackUnwatches(t)
      PROVE  ManagerInv'
  BY <1>6, NotifyInv, LockWatchersInv, PathDoneInv, FrameInv DEF NotifyStep
<1> QED
  BY <1>1, <1>2, <1>3, <1>4, <1>5, <1>6 DEF Next, CallbackStep

\* Types, and that GraphInv holds under the manager, in every reachable state.
THEOREM ManagerInvariant == Spec => []ManagerInv
<1>1. Init => ManagerInv
  BY ManagerInitInv
<1>2. ManagerInv /\ [Next]_vars => ManagerInv'
  BY ManagerStepInv
<1> QED
  BY <1>1, <1>2, PTL DEF Spec

\* The loop over the watchers only ever calls a watcher that is registered: no
\* unwatch or clearWatchers has returned since the loop took the mutex.
THEOREM UnwatchIsFinal == Spec => []NoCallAfterUnwatch
<1>1. ManagerInv => NoCallAfterUnwatch
  BY DEF ManagerInv
<1> QED
  BY <1>1, ManagerInvariant, PTL

-----------------------------------------------------------------------------
(* Where a change is on its way to a watcher, when the loop's thread is the    *)
(* only one that flushes.                                                      *)

OnlyMainNotifies ==
  \A t \in Threads \ {MainThread} :
    /\ fpc[t] = "idle" /\ npc[t] \in {"none", "mutate"}
    /\ todo[t] = {} /\ left[t] = {} /\ outer[t] = NoFrame

\* lastFlushedPaths_ is empty when a flush clears it, the paths to be notified
\* are used up when the next ones are taken.
FlushedIsKept ==
  /\ overflow = "none" /\ fpc[MainThread] \in {"idle", "clear"} => lastFlushed = {}
  /\ npc[MainThread] \in {"none", "mutate"} => todo[MainThread] = {}

LeftIsOfPath ==
  /\ \A w \in left[MainThread] : WatchedPath[w] = value[MainThread].path
  /\ \A w \in outer[MainThread].left : WatchedPath[w] = outer[MainThread].value.path

\* What will be notified after the value at hand.
InGraph == pending \cup deferred \cup lastFlushed
Ahead == InGraph \cup todo[MainThread]

IsCurrent(v, ahead) == queuedRevision[v.path] <= v.revision \/ v.path \in ahead

\* A value read for the watchers is the last queued one, or its path comes again.
ValuesAreCurrent ==
  overflow = "none" =>
    /\ npc[MainThread] = "lock" \/ InCall(MainThread) => IsCurrent(value[MainThread], Ahead)
    /\ outer[MainThread].nested /\ npc[MainThread] # "lock" =>
         IsCurrent(outer[MainThread].value, Ahead \cup outer[MainThread].todo)

Coming(w) ==
  LET p == WatchedPath[w] IN
  \/ p \in Ahead \cup outer[MainThread].todo
  \/ value[MainThread].path = p /\ (npc[MainThread] = "lock" \/ w \in left[MainThread])
  \/ outer[MainThread].value.path = p /\ w \in outer[MainThread].left

NotifierInv ==
  /\ OnlyMainNotifies
  /\ FlushedIsKept
  /\ LeftIsOfPath
  /\ ValuesAreCurrent
  /\ overflow = "none" => \A w \in Watchers : Behind(w) => Coming(w)

LEMMA NotifierInitInv == Init => NotifierInv
<1> SUFFICES ASSUME Init PROVE NotifierInv
  OBVIOUS
<1> USE ThreadsAreKnown DEF Init, GraphInit
<1>1. OnlyMainNotifies /\ FlushedIsKept /\ LeftIsOfPath
  BY DEF OnlyMainNotifies, FlushedIsKept, LeftIsOfPath, NoFrame
<1>2. ValuesAreCurrent
  BY DEF ValuesAreCurrent, InCall, NoFrame
<1>3. \A w \in Watchers : ~Behind(w)
  BY DEF Behind
<1> QED
  BY <1>1, <1>2, <1>3 DEF NotifierInv

LEMMA NotifierImplies == NotifierInv => WatcherIsTold
  BY ThreadsAreKnown DEF NotifierInv, WatcherIsTold, Coming, Ahead, InGraph

\* What the graph does for the manager, short of handing the paths over.
Moves ==
  /\ \A t \in Threads \ {MainThread} : fpc'[t] = "idle"
  /\ overflow' = "none" =>
       /\ overflow = "none"
       /\ fpc'[MainThread] \in {"idle", "clear"} => lastFlushed' = {}
       /\ InGraph \subseteq InGraph'
       /\ \A p \in Paths : queuedRevision'[p] = queuedRevision[p] \/ p \in InGraph'

LEMMA GraphMoves ==
  ASSUME Flushers = {MainThread}, ManagerInv, NotifierInv, NEW t \in Threads,
         \/ GraphRequest(t) \/ GraphFlush(t) \/ GraphStep(t)
         \/ CallbackFlushes(t)
         \/ \E p \in Paths : SetPath(t, p)
  PROVE  Moves
<1> USE ThreadsAreKnown
<1>0. /\ \A u \in Threads \ {MainThread} : fpc[u] = "idle"
      /\ overflow = "none" /\ fpc[MainThread] \in {"idle", "clear"} => lastFlushed = {}
      /\ fpc \in [Threads -> {"idle", "clear", "round", "deliver", "call", "callback", "done"}]
      /\ queuedRevision \in [Paths -> 0..MaxRevision]
  BY DEF NotifierInv, OnlyMainNotifies, FlushedIsKept, ManagerInv, GraphInv, GraphTypeOK
<1>1. ASSUME NEW p \in Paths, Initialize(t, p) \/ SetPath(t, p) \/ DeletePath(t, p)
      PROVE  Moves
  BY <1>0, <1>1 DEF Moves, InGraph, Initialize, SetPath, DeletePath, Mutate, QueueMutation,
                    flushVars
<1>2. ASSUME NEW s \in Subs, Subscribe(t, s) \/ Unsubscribe(t, s) PROVE Moves
  BY <1>0, <1>2 DEF Moves, InGraph, Subscribe, Unsubscribe, flushVars, data
<1>3. CASE BeginBatch(t) \/ EndBatch(t)
  BY <1>0, <1>3 DEF Moves, InGraph, BeginBatch, EndBatch, flushVars, data
<1>4. CASE ClearFlushed(t)
  BY <1>0, <1>4 DEF Moves, InGraph, ClearFlushed, data
<1>5. CASE FlushReturns(t) \/ TakeRound(t)
  BY <1>0, <1>5 DEF Moves, InGraph, FlushReturns, TakeRound, data
<1>6. CASE Collect(t)
  BY <1>0, <1>6 DEF Moves, InGraph, Collect, data
<1>7. CASE CallOne(t) \/ CallbackReturns(t)
  BY <1>0, <1>7 DEF Moves, InGraph, CallOne, CallbackReturns, data
<1>8. CASE LastRound(t) \/ NextRound(t) \/ LimitExceeded(t)
  BY <1>0, <1>8 DEF Moves, InGraph, LastRound, NextRound, LimitExceeded, RoundOver, data
<1> QED
  BY <1>1, <1>2, <1>3, <1>4, <1>5, <1>6, <1>7, <1>8
     DEF GraphRequest, Request, EndBatchInCallback, NestedFlush, GraphFlush, GraphStep, FlushStep,
         CallbackFlushes

LEMMA GraphMovesInv ==
  ASSUME ManagerInv, NotifierInv, Moves, UNCHANGED watchVars PROVE NotifierInv'
<1> USE ThreadsAreKnown DEF watchVars
<1>1. OnlyMainNotifies' /\ FlushedIsKept' /\ LeftIsOfPath'
  BY DEF NotifierInv, OnlyMainNotifies, FlushedIsKept, LeftIsOfPath, Moves
<1>2. ValuesAreCurrent'
  <2>1. overflow' = "none" => Ahead \subseteq Ahead'
    BY DEF Moves, Ahead
  <2>2. /\ npc[MainThread] = "lock" \/ InCall(MainThread) => value[MainThread] \in Entry
        /\ outer[MainThread].nested => outer[MainThread].value \in Entry
    BY DEF ManagerInv, ValueIsEntry, HasValue, InCall
  <2>3. overflow' = "none" /\ (npc[MainThread] = "lock" \/ InCall(MainThread)) =>
          IsCurrent(value[MainThread], Ahead)'
    BY <2>1, <2>2, EntryFacts DEF NotifierInv, ValuesAreCurrent, IsCurrent, Moves, Ahead
  <2> QED
    BY <2>1, <2>2, <2>3, EntryFacts
       DEF NotifierInv, ValuesAreCurrent, IsCurrent, Moves, Ahead, InCall
<1>3. overflow' = "none" => \A w \in Watchers : Behind(w)' => Coming(w)'
  BY WatchersAreTyped DEF NotifierInv, Behind, Coming, Moves, Ahead
<1> QED
  BY <1>1, <1>2, <1>3 DEF NotifierInv

LEMMA WatchNotifierInv ==
  ASSUME ManagerInv, NotifierInv,
         \/ ClearWatchers
         \/ \E t \in Threads, w \in Watchers : Watch(t, w) \/ Unwatch(t, w)
  PROVE  NotifierInv'
<1> USE ThreadsAreKnown
<1>1. UNCHANGED <<graphVars, watchLock, npc, todo, value, left, outer, heard>>
  BY DEF ClearWatchers, Watch, Unwatch
<1>2. OnlyMainNotifies' /\ FlushedIsKept' /\ LeftIsOfPath' /\ ValuesAreCurrent'
  BY <1>1 DEF graphVars, flushVars, data, NotifierInv, OnlyMainNotifies, FlushedIsKept,
              LeftIsOfPath, ValuesAreCurrent, IsCurrent, Ahead, InGraph, InCall
<1>3. ASSUME NEW w \in Watchers, Behind(w)' PROVE Behind(w)
  <2>1. ASSUME NEW t \in Threads, Watch(t, w) PROVE FALSE
    <3>1. /\ WatchedPath[w] \in Paths
          /\ watchSince \in [Watchers -> 0..MaxRevision]
          /\ watchSince' = [watchSince EXCEPT ![w] = revision[WatchedPath[w]]]
          /\ queuedRevision[WatchedPath[w]] <= revision[WatchedPath[w]]
      BY <2>1, WatchersAreTyped
         DEF Watch, ManagerInv, StateTypeOK, GraphInv, RevisionsAreOrdered
    <3>2. /\ revision[WatchedPath[w]] \in 0..MaxRevision
          /\ queuedRevision[WatchedPath[w]] \in 0..MaxRevision
      BY <3>1 DEF ManagerInv, GraphInv, GraphTypeOK
    <3> QED
      BY <1>1, <1>3, <3>1, <3>2, BoundsAreNatural DEF Behind, graphVars, data
  <2>2. ASSUME NEW t \in Threads, NEW v \in Watchers, v # w, Watch(t, v)
        PROVE  watch'[w] = watch[w] /\ watchSince'[w] = watchSince[w]
    BY <2>2 DEF Watch, ManagerInv, StateTypeOK
  <2>3. ASSUME NEW t \in Threads, NEW v \in Watchers, Unwatch(t, v)
        PROVE  watch[w] = "on" \/ watch'[w] # "on"
    BY <2>3 DEF Unwatch, ManagerInv, StateTypeOK
  <2> QED
    BY <1>1, <1>3, <2>1, <2>2, <2>3
       DEF Behind, graphVars, data, ClearWatchers, Unwatch, ManagerInv, StateTypeOK
<1>4. \A w \in Watchers : Coming(w) => Coming(w)'
  BY <1>1 DEF Coming, Ahead, InGraph, graphVars
<1> QED
  BY <1>1, <1>2, <1>3, <1>4 DEF NotifierInv, graphVars

LEMMA MutateNotifierInv ==
  ASSUME Flushers = {MainThread}, ManagerInv, NotifierInv, NEW t \in Threads,
         (\E p \in Paths : MutateRead(t, p)) \/ MutateWrite(t)
  PROVE  NotifierInv'
<1> USE ThreadsAreKnown
<1>1. /\ UNCHANGED <<watch, watchLock, todo, left, outer, heard, watchSince>>
      /\ npc[t] \in {"none", "mutate"} /\ left[t] = {}
      /\ npc'[t] \in {"none", "mutate"}
      /\ \A u \in Threads \ {t} : npc'[u] = npc[u] /\ value'[u] = value[u]
  BY DEF MutateRead, MutateWrite, Outside, ManagerInv, StateTypeOK, LockIsHeld, InCall
<1>2. Moves
  <2>1. CASE \E p \in Paths : SetPath(t, p)
    BY <2>1, GraphMoves
  <2>2. CASE UNCHANGED graphVars
    BY <2>2 DEF Moves, InGraph, graphVars, flushVars, data, NotifierInv, OnlyMainNotifies,
                FlushedIsKept
  <2>3. MutateWrite(t) => value[t].path \in Paths
    BY EntryFacts DEF MutateWrite, ManagerInv, ValueIsEntry, HasValue
  <2> QED
    BY <2>1, <2>2, <2>3 DEF MutateRead, MutateWrite
<1>3. OnlyMainNotifies' /\ FlushedIsKept'
  BY <1>1, <1>2 DEF NotifierInv, OnlyMainNotifies, FlushedIsKept, Moves
<1>4. LeftIsOfPath'
  BY <1>1 DEF NotifierInv, LeftIsOfPath
<1>5. ValuesAreCurrent'
  <2>1. overflow' = "none" => Ahead \subseteq Ahead'
    BY <1>1, <1>2 DEF Moves, Ahead
  <2>2. ~(npc'[MainThread] = "lock" \/ InCall(MainThread)') \/ t # MainThread
    BY <1>1 DEF InCall
  <2>3. t = MainThread => ~outer[MainThread].nested
    BY DEF MutateRead, MutateWrite, Outside, ManagerInv, LockIsHeld
  <2>4. CASE t = MainThread
    BY <1>1, <2>2, <2>3, <2>4 DEF ValuesAreCurrent
  <2>5. CASE t # MainThread
    <3>1. /\ npc'[MainThread] = npc[MainThread] /\ value'[MainThread] = value[MainThread]
          /\ InCall(MainThread)' <=> InCall(MainThread)
      BY <1>1, <2>5 DEF InCall
    <3>2. /\ npc[MainThread] = "lock" \/ InCall(MainThread) => value[MainThread] \in Entry
          /\ outer[MainThread].nested => outer[MainThread].value \in Entry
      BY DEF ManagerInv, ValueIsEntry, HasValue, InCall
    <3> QED
      BY <1>1, <1>2, <2>1, <3>1, <3>2, EntryFacts
         DEF NotifierInv, ValuesAreCurrent, IsCurrent, Moves, Ahead
  <2> QED
    BY <2>4, <2>5
<1>6. ASSUME overflow' = "none", NEW w \in Watchers, Behind(w)' PROVE Coming(w)'
  <2>1. Behind(w) \/ WatchedPath[w] \in Ahead'
    BY <1>1, <1>2, <1>6, WatchersAreTyped DEF Behind, Moves, Ahead
  <2>2. Coming(w) => Coming(w)'
    BY <1>1, <1>2, <1>6 DEF Coming, Moves, Ahead
  <2> QED
    BY <1>2, <1>6, <2>1, <2>2 DEF NotifierInv, Moves, Coming
<1> QED
  BY <1>3, <1>4, <1>5, <1>6 DEF NotifierInv

LEMMA OnlyMain ==
  ASSUME NotifierInv, NEW t \in Threads, NotifyStep(t) \/ CallbackStep(t)
  PROVE  t = MainThread
  BY DEF NotifierInv, OnlyMainNotifies, NotifyStep, CallbackStep, TakeFlushed, Consume, ReadValue,
         LockWatchers, CallWatcher, WatcherReturns, PathDone, AllNotified, CallbackSets,
         CallbackFlushes, CallbackUnwatches

\* The notifying thread takes a path from one place to the next.
LEMMA NotifyNotifierInv ==
  ASSUME ManagerInv, NotifierInv, NEW t \in Threads, NotifyStep(t) \/ CallbackUnwatches(t)
  PROVE  NotifierInv'
<1> USE ThreadsAreKnown
<1>0. t = MainThread
  BY OnlyMain DEF CallbackStep
<1>1. OnlyMainNotifies'
  BY <1>0 DEF NotifierInv, OnlyMainNotifies, NotifyStep, CallbackUnwatches, TakeFlushed, Consume,
              ReadValue, LockWatchers, CallWatcher, WatcherReturns, PathDone, AllNotified,
              graphVars, flushVars, ManagerInv, StateTypeOK, GraphInv, GraphTypeOK
<1>2. CASE TakeFlushed(t)
  <2>1. /\ npc[t] = "none" /\ npc'[t] = "read" /\ todo[t] = {} /\ todo'[t] = lastFlushed
        /\ lastFlushed' = {}
        /\ UNCHANGED <<pending, deferred, queuedRevision, overflow, watch, value, left, outer,
                       heard, watchSince>>
    BY <1>0, <1>2 DEF TakeFlushed, Consume, data, NotifierInv, FlushedIsKept, ManagerInv,
                      StateTypeOK
  <2>2. Ahead' = Ahead
    BY <1>0, <2>1 DEF Ahead, InGraph
  <2>3. FlushedIsKept' /\ LeftIsOfPath' /\ ValuesAreCurrent'
    BY <1>0, <2>1, <2>2 DEF NotifierInv, FlushedIsKept, LeftIsOfPath, ValuesAreCurrent, IsCurrent,
                            InCall
  <2>4. \A w \in Watchers : (Behind(w)' => Behind(w)) /\ (Coming(w) => Coming(w)')
    BY <1>0, <2>1, <2>2 DEF Behind, Coming
  <2> QED
    BY <1>1, <2>1, <2>3, <2>4 DEF NotifierInv
<1>3. CASE ReadValue(t)
  <2>1. PICK p \in todo[t] :
          /\ value' = [value EXCEPT ![t] = [path |-> p, revision |-> revision[p]]]
          /\ todo' = [todo EXCEPT ![t] = @ \ {p}]
    BY <1>3 DEF ReadValue
  <2>2. /\ npc[t] = "read" /\ npc'[t] = "lock" /\ left[t] = {} /\ p \in Paths
        /\ value'[t].path = p /\ value'[t].revision = revision[p]
        /\ todo'[t] = todo[t] \ {p}
        /\ UNCHANGED <<graphVars, watch, watchLock, left, outer, heard, watchSince>>
    BY <1>3, <2>1 DEF ReadValue, ManagerInv, StateTypeOK, LockIsHeld, InCall
  <2>3. FlushedIsKept' /\ LeftIsOfPath'
    BY <1>0, <2>2 DEF NotifierInv, FlushedIsKept, LeftIsOfPath, graphVars, flushVars
  <2>4. queuedRevision[p] <= revision[p]
    BY <2>2 DEF ManagerInv, GraphInv, RevisionsAreOrdered
  <2>5. ValuesAreCurrent'
    BY <1>0, <2>2, <2>4 DEF ValuesAreCurrent, IsCurrent, graphVars, data
  <2>6. \A w \in Watchers : (Behind(w)' => Behind(w)) /\ (Coming(w) => Coming(w)')
    BY <1>0, <2>2 DEF Behind, Coming, Ahead, InGraph, graphVars, data
  <2> QED
    BY <1>1, <2>2, <2>3, <2>5, <2>6 DEF NotifierInv, graphVars
<1>4. CASE LockWatchers(t)
  <2> DEFINE on == {w \in Watchers : watch[w] = "on" /\ WatchedPath[w] = value[t].path}
  <2>1. /\ npc[t] = "lock" /\ npc'[t] = "call" /\ left'[t] = on /\ outer[t] = NoFrame
        /\ left[t] = {} /\ ~outer[t].nested
        /\ UNCHANGED <<graphVars, watch, todo, value, outer, heard, watchSince>>
    BY <1>4, FreeLock DEF LockWatchers, ManagerInv, StateTypeOK
  <2>2. FlushedIsKept' /\ LeftIsOfPath'
    BY <1>0, <2>1 DEF NotifierInv, FlushedIsKept, LeftIsOfPath, graphVars, flushVars, NoFrame
  <2>3. ValuesAreCurrent'
    BY <1>0, <2>1 DEF NotifierInv, ValuesAreCurrent, IsCurrent, Ahead, InGraph, graphVars, data,
                      NoFrame
  <2>4. \A w \in Watchers : /\ Behind(w)' => Behind(w) /\ watch[w] = "on"
                            /\ Coming(w) /\ watch[w] = "on" => Coming(w)'
    BY <1>0, <2>1 DEF Behind, Coming, Ahead, InGraph, graphVars, data
  <2> QED
    BY <1>1, <2>1, <2>2, <2>3, <2>4 DEF NotifierInv, graphVars
<1>5. CASE CallWatcher(t)
  <2>1. PICK w \in left[t] :
          /\ heard' = [heard EXCEPT ![w] = value[t].revision]
          /\ left' = [left EXCEPT ![t] = @ \ {w}]
    BY <1>5 DEF CallWatcher
  <2>2. /\ npc[t] = "call" /\ npc'[t] = "callback" /\ left'[t] = left[t] \ {w}
        /\ w \in Watchers /\ heard'[w] = value[t].revision
        /\ \A v \in Watchers \ {w} : heard'[v] = heard[v]
        /\ UNCHANGED <<graphVars, watch, watchLock, todo, value, outer, watchSince>>
    BY <1>5, <2>1 DEF CallWatcher, ManagerInv, StateTypeOK
  <2>3. FlushedIsKept' /\ LeftIsOfPath'
    BY <1>0, <2>2 DEF NotifierInv, FlushedIsKept, LeftIsOfPath, graphVars, flushVars
  <2>4. ValuesAreCurrent'
    BY <1>0, <2>2 DEF NotifierInv, ValuesAreCurrent, IsCurrent, Ahead, InGraph, InCall, graphVars,
                      data
  <2>5. ASSUME NEW v \in Watchers, v # w
        PROVE  (Behind(v)' => Behind(v)) /\ (Coming(v) => Coming(v)')
    BY <1>0, <2>2, <2>5 DEF Behind, Coming, Ahead, InGraph, graphVars, data
  <2>6. ASSUME overflow = "none", Behind(w)' PROVE Coming(w)'
    <3>1. /\ WatchedPath[w] = value[t].path /\ WatchedPath[w] \in Paths
          /\ IsCurrent(value[t], Ahead) /\ value[t] \in Entry
      BY <1>0, <2>1, <2>2, <2>6, WatchersAreTyped
         DEF NotifierInv, LeftIsOfPath, ValuesAreCurrent, InCall, ManagerInv, ValueIsEntry,
             HasValue
    <3>2. queuedRevision[WatchedPath[w]] > value[t].revision
      BY <2>2, <2>6 DEF Behind, graphVars, data
    <3>3. /\ queuedRevision[WatchedPath[w]] \in 0..MaxRevision
          /\ value[t].revision \in 0..MaxRevision
      BY <3>1, EntryFacts DEF ManagerInv, GraphInv, GraphTypeOK
    <3>4. WatchedPath[w] \in Ahead
      BY <3>1, <3>2, <3>3, BoundsAreNatural DEF IsCurrent
    <3> QED
      BY <1>0, <2>2, <3>4 DEF Coming, Ahead, InGraph, graphVars
  <2> QED
    BY <1>1, <2>2, <2>3, <2>4, <2>5, <2>6 DEF NotifierInv, graphVars
<1>6. CASE WatcherReturns(t) \/ CallbackUnwatches(t)
  <2>1. /\ npc[t] = "callback" /\ npc'[t] \in {"call", "relock"}
        /\ UNCHANGED <<graphVars, watch, watchLock, todo, value, left, outer, heard, watchSince>>
    BY <1>6 DEF WatcherReturns, CallbackUnwatches, ManagerInv, StateTypeOK
  <2>2. FlushedIsKept' /\ LeftIsOfPath' /\ ValuesAreCurrent'
    BY <1>0, <2>1 DEF NotifierInv, FlushedIsKept, LeftIsOfPath, ValuesAreCurrent, IsCurrent, Ahead,
                      InGraph, InCall, graphVars, flushVars, data
  <2>3. \A w \in Watchers : (Behind(w)' => Behind(w)) /\ (Coming(w) => Coming(w)')
    BY <1>0, <2>1 DEF Behind, Coming, Ahead, InGraph, graphVars, data
  <2> QED
    BY <1>1, <2>1, <2>2, <2>3 DEF NotifierInv, graphVars
<1>7. CASE PathDone(t)
  <2>1. /\ npc[t] = "call" /\ npc'[t] = "read" /\ left[t] = {} /\ ~outer[t].nested
        /\ UNCHANGED <<graphVars, watch, todo, left, outer, heard, watchSince>>
    BY <1>7 DEF PathDone, ManagerInv, StateTypeOK, LockIsHeld
  <2>2. FlushedIsKept' /\ LeftIsOfPath' /\ ValuesAreCurrent'
    BY <1>0, <2>1 DEF NotifierInv, FlushedIsKept, LeftIsOfPath, ValuesAreCurrent, InCall,
                      graphVars, flushVars
  <2>3. \A w \in Watchers : (Behind(w)' => Behind(w)) /\ (Coming(w) => Coming(w)')
    BY <1>0, <2>1 DEF Behind, Coming, Ahead, InGraph, graphVars, data
  <2> QED
    BY <1>1, <2>1, <2>2, <2>3 DEF NotifierInv, graphVars
<1>8. CASE AllNotified(t) /\ ~outer[t].nested
  <2>1. /\ npc[t] = "read" /\ npc'[t] = "none" /\ todo[t] = {}
        /\ UNCHANGED <<graphVars, watch, todo, value, left, outer, heard, watchSince>>
    BY <1>8 DEF AllNotified, ManagerInv, StateTypeOK
  <2>2. FlushedIsKept' /\ LeftIsOfPath' /\ ValuesAreCurrent'
    BY <1>0, <1>8, <2>1 DEF NotifierInv, FlushedIsKept, LeftIsOfPath, ValuesAreCurrent, InCall,
                            graphVars, flushVars
  <2>3. \A w \in Watchers : (Behind(w)' => Behind(w)) /\ (Coming(w) => Coming(w)')
    BY <1>0, <2>1 DEF Behind, Coming, Ahead, InGraph, graphVars, data
  <2> QED
    BY <1>1, <2>1, <2>2, <2>3 DEF NotifierInv, graphVars
<1>9. CASE AllNotified(t) /\ outer[t].nested
  <2>1. /\ npc[t] = "read" /\ npc'[t] = "callback" /\ todo[t] = {} /\ left[t] = {}
        /\ todo'[t] = outer[t].todo /\ value'[t] = outer[t].value /\ left'[t] = outer[t].left
        /\ outer'[t] = NoFrame
        /\ UNCHANGED <<graphVars, watch, heard, watchSince>>
    BY <1>9 DEF AllNotified, ManagerInv, StateTypeOK, LockIsHeld, InCall
  <2>2. Ahead' = Ahead \cup outer[t].todo
    BY <1>0, <2>1 DEF Ahead, InGraph, graphVars
  <2>3. FlushedIsKept' /\ LeftIsOfPath'
    BY <1>0, <2>1 DEF NotifierInv, FlushedIsKept, LeftIsOfPath, graphVars, flushVars, NoFrame
  <2>4. ValuesAreCurrent'
    BY <1>0, <1>9, <2>1, <2>2 DEF NotifierInv, ValuesAreCurrent, IsCurrent, graphVars, data, NoFrame
  <2>5. \A w \in Watchers : (Behind(w)' => Behind(w)) /\ (Coming(w) => Coming(w)')
    BY <1>0, <2>1, <2>2 DEF Behind, Coming, graphVars, data
  <2> QED
    BY <1>1, <2>1, <2>3, <2>4, <2>5 DEF NotifierInv, graphVars
<1> QED
  BY <1>2, <1>3, <1>4, <1>5, <1>6, <1>7, <1>8, <1>9 DEF NotifyStep

LEMMA CallbackFlushesNotifierInv ==
  ASSUME Flushers = {MainThread}, ManagerInv, NotifierInv, NEW t \in Threads, CallbackFlushes(t)
  PROVE  NotifierInv'
<1> USE ThreadsAreKnown
<1>0. t = MainThread /\ Moves
  BY OnlyMain, GraphMoves DEF CallbackStep
<1>1. /\ npc[t] = "callback" /\ npc'[t] = "none" /\ ~outer[t].nested /\ outer[t] = NoFrame
      /\ todo'[t] = {} /\ left'[t] = {} /\ outer'[t].nested
      /\ outer'[t].todo = todo[t] /\ outer'[t].value = value[t] /\ outer'[t].left = left[t]
      /\ value[t] \in Entry
      /\ UNCHANGED <<watch, heard, watchSince>>
  BY DEF CallbackFlushes, ManagerInv, StateTypeOK, LockIsHeld, ValueIsEntry, HasValue
<1>2. \A u \in Threads \ {t} : /\ npc'[u] = npc[u] /\ todo'[u] = todo[u]
                               /\ left'[u] = left[u] /\ outer'[u] = outer[u]
  BY DEF CallbackFlushes, ManagerInv, StateTypeOK
<1>3. OnlyMainNotifies' /\ FlushedIsKept' /\ LeftIsOfPath'
  BY <1>0, <1>1, <1>2 DEF NotifierInv, OnlyMainNotifies, FlushedIsKept, LeftIsOfPath, Moves
<1>4. overflow' = "none" => Ahead \subseteq Ahead' \cup outer'[t].todo
  BY <1>0, <1>1 DEF Ahead, Moves
<1>5. ValuesAreCurrent'
  BY <1>0, <1>1, <1>4, EntryFacts
     DEF NotifierInv, ValuesAreCurrent, IsCurrent, InCall, Moves, Ahead
<1>6. overflow' = "none" => \A w \in Watchers : Behind(w)' => Coming(w)'
  BY <1>0, <1>1, <1>4, WatchersAreTyped DEF NotifierInv, Behind, Coming, Moves, Ahead, NoFrame
<1> QED
  BY <1>3, <1>5, <1>6 DEF NotifierInv

LEMMA NotifierStepInv ==
  ASSUME Flushers = {MainThread}, ManagerInv, NotifierInv, [Next]_vars PROVE NotifierInv'
<1>1. CASE UNCHANGED vars
  <2>1. Moves
    BY <1>1 DEF Moves, InGraph, vars, graphVars, flushVars, data, NotifierInv, OnlyMainNotifies,
                FlushedIsKept
  <2> QED
    BY <1>1, <2>1, GraphMovesInv DEF vars
<1>2. CASE ClearWatchers
  BY <1>2, WatchNotifierInv
<1>3. ASSUME NEW t \in Threads,
             \/ GraphRequest(t) \/ GraphFlush(t) \/ GraphStep(t)
             \/ \E p \in Paths : CallbackSets(t, p)
      PROVE  NotifierInv'
  <2>1. Moves
    BY <1>3, GraphMoves DEF CallbackSets
  <2> QED
    BY <1>3, <2>1, GraphMovesInv DEF GraphRequest, GraphFlush, GraphStep, CallbackSets
<1>4. ASSUME NEW t \in Threads, \E w \in Watchers : Watch(t, w) \/ Unwatch(t, w)
      PROVE  NotifierInv'
  BY <1>4, WatchNotifierInv
<1>5. ASSUME NEW t \in Threads, (\E p \in Paths : MutateRead(t, p)) \/ MutateWrite(t)
      PROVE  NotifierInv'
  BY <1>5, MutateNotifierInv
<1>6. ASSUME NEW t \in Threads, NotifyStep(t) \/ CallbackUnwatches(t) PROVE NotifierInv'
  BY <1>6, NotifyNotifierInv
<1>7. ASSUME NEW t \in Threads, CallbackFlushes(t) PROVE NotifierInv'
  BY <1>7, CallbackFlushesNotifierInv
<1> QED
  BY <1>1, <1>2, <1>3, <1>4, <1>5, <1>6, <1>7 DEF Next, CallbackStep

\* When the loop's thread alone flushes, a change a watcher was not told of is
\* always on its way to it, unless flush has thrown.
THEOREM EveryWatcherIsTold == ASSUME Flushers = {MainThread} PROVE Spec => []WatcherIsTold
<1>1. Init => ManagerInv /\ NotifierInv
  BY ManagerInitInv, NotifierInitInv
<1>2. ManagerInv /\ NotifierInv /\ [Next]_vars => ManagerInv' /\ NotifierInv'
  BY ManagerStepInv, NotifierStepInv
<1>3. NotifierInv => WatcherIsTold
  BY NotifierImplies
<1> QED
  BY <1>1, <1>2, <1>3, PTL DEF Spec

-----------------------------------------------------------------------------
(* The events: what is known of the vector, the watchers and the order.    *)

\* An event, and a flush in progress.
Evs == [num : Nat, name : Names]
Flushes == [rest : Seq(Evs), pos : Nat \ {0}, end : Nat,
            calling : Listeners \cup {NoListener}, owed : SUBSET Listeners]

EventTypes ==
  /\ callbackMay \in Callbacks
  /\ listeners \in Seq([id : Listeners, name : Names])
  /\ used \subseteq Listeners /\ entitled \subseteq used
  /\ states \subseteq Names /\ discounted \subseteq Names
  /\ DOMAIN watchers \subseteq Names /\ watchers \in [DOMAIN watchers -> Nat \ {0}]
  /\ eventQueue \in Seq(Evs) /\ emitted \in Nat
  /\ frames \in Seq(Flushes)
  /\ broken \in BOOLEAN
  /\ calledWith \in [Listeners -> Seq(Nat)]

\* A listener is registered once, and is in the vector once.
ListenersOnce ==
  /\ \A i, j \in DOMAIN listeners : listeners[i].id = listeners[j].id => i = j
  /\ Registered \subseteq used
  /\ IsFiniteSet(used)
  /\ \A l \in Listeners : calledWith[l] # <<>> => l \in used

\* The listeners of n that its watcher has counted.
Counted(n) == For(n) \cap entitled

\* A watcher counts right, unless it was told of a listener it never counted.
WatchersCount ==
  \A n \in Names \ discounted :
    IF n \in DOMAIN watchers THEN watchers[n] = Cardinality(Counted(n))
                             ELSE Counted(n) = {}

Rising(evs) == \A i, j \in DOMAIN evs : i < j => evs[i].num < evs[j].num

\* The turn of the listener at k is over, or it is being called.
HadItsTurn(k) == k < Top.pos \/ (k = Top.pos /\ Top.calling # NoListener)

\* What is queued follows what is being dispatched, and that what was heard.
QueueOrder ==
  /\ Rising(eventQueue)
  /\ \A i \in DOMAIN eventQueue : eventQueue[i].num <= emitted
  /\ \A l \in Listeners : \A h \in DOMAIN calledWith[l] :
       /\ calledWith[l][h] <= emitted
       /\ \A i \in DOMAIN eventQueue : calledWith[l][h] < eventQueue[i].num

DispatchOrder ==
  frames # <<>> =>
    /\ Rising(Top.rest)
    /\ \A i \in DOMAIN Top.rest :
         /\ Top.rest[i].num <= emitted
         /\ \A j \in DOMAIN eventQueue : Top.rest[i].num < eventQueue[j].num
         /\ \A l \in Listeners : \A h \in DOMAIN calledWith[l] :
              calledWith[l][h] <= Top.rest[i].num

\* Who has heard the event that is being dispatched had its turn.
HeardHadItsTurn ==
  frames # <<>> =>
    \A k \in DOMAIN listeners : \A h \in DOMAIN calledWith[listeners[k].id] :
      Top.rest # <<>> /\ calledWith[listeners[k].id][h] = Head(Top.rest).num => HadItsTurn(k)

InTurn ==
  /\ Len(frames) <= 1
  /\ QueueOrder /\ DispatchOrder /\ HeardHadItsTurn
  /\ InQueueOrder

OrderInv == "set" \notin callbackMay => InTurn

EventsInv == EventTypes /\ ListenersOnce /\ WatchersCount /\ OrderInv

-----------------------------------------------------------------------------
\* What RemoveAt and Front leave.
LEMMA RemoveAtElements ==
  ASSUME NEW S, NEW s \in Seq(S), NEW k \in DOMAIN s
  PROVE  /\ RemoveAt(s, k) \in Seq(S)
         /\ Len(RemoveAt(s, k)) = Len(s) - 1
         /\ \A i \in 1..(Len(s) - 1) : RemoveAt(s, k)[i] = IF i < k THEN s[i] ELSE s[i + 1]
<1> DEFINE before == SubSeq(s, 1, k - 1)
           after  == SubSeq(s, k + 1, Len(s))
<1>0. Len(s) \in Nat /\ k \in 1..Len(s)
  BY LenProperties
<1>1. before \in Seq(S) /\ Len(before) = k - 1 /\ \A i \in 1..(k - 1) : before[i] = s[i]
  BY <1>0, SubSeqProperties
<1>2. /\ after \in Seq(S) /\ Len(after) = Len(s) - k
      /\ \A i \in 1..(Len(s) - k) : after[i] = s[k + i]
  BY <1>0, SubSeqProperties
<1> HIDE DEF before, after
<1>3. RemoveAt(s, k) = before \o after
  BY DEF RemoveAt, before, after
<1>4. /\ before \o after \in Seq(S)
      /\ Len(before \o after) = Len(s) - 1
      /\ \A i \in 1..(Len(s) - 1) :
           (before \o after)[i] = IF i < k THEN before[i] ELSE after[i - (k - 1)]
  BY <1>0, <1>1, <1>2, ConcatProperties
<1>5. ASSUME NEW i \in 1..(Len(s) - 1)
      PROVE  (before \o after)[i] = IF i < k THEN s[i] ELSE s[i + 1]
  <2>1. CASE i < k
    BY <1>0, <1>1, <1>4, <2>1
  <2>2. CASE i >= k
    <3>1. i - (k - 1) \in 1..(Len(s) - k)
      BY <1>0, <2>2
    <3>2. after[i - (k - 1)] = s[k + (i - (k - 1))]
      BY <1>2, <3>1
    <3> QED
      BY <1>0, <1>4, <2>2, <3>2
  <2>3. i < k \/ i >= k
    BY <1>0
  <2> QED
    BY <2>1, <2>2, <2>3
<1> QED
  BY <1>3, <1>4, <1>5

LEMMA FrontElements ==
  ASSUME NEW S, NEW s \in Seq(S), s # <<>>
  PROVE  /\ Front(s) \in Seq(S)
         /\ Len(Front(s)) = Len(s) - 1
<1>1. Len(s) \in Nat \ {0} /\ \A i \in 1..Len(s) : s[i] \in S
  BY EmptySeq, LenProperties, ElementOfSeq
<1> QED
  BY <1>1, SubSeqProperties DEF Front

-----------------------------------------------------------------------------
(* Types *)

LEMMA NamesOfListeners ==
  ASSUME EventTypes
  PROVE  /\ Registered \subseteq Listeners
         /\ \A n : For(n) \subseteq Registered
         /\ \A k \in DOMAIN listeners : /\ listeners[k].id \in Listeners
                                        /\ listeners[k].name \in Names
                                        /\ listeners[k].id \in For(listeners[k].name)
<1>1. \A k \in DOMAIN listeners : listeners[k] \in [id : Listeners, name : Names]
  <2>1. listeners \in Seq([id : Listeners, name : Names])
    BY DEF EventTypes
  <2>2. DOMAIN listeners = 1..Len(listeners)
    BY <2>1, LenProperties
  <2> QED
    BY <2>1, <2>2, ElementOfSeq
<1> QED
  BY <1>1 DEF Registered, For

LEMMA FrameTypes ==
  ASSUME EventTypes, NEW evs \in Seq(Evs)
  PROVE  /\ Frame(evs) \in Flushes
         /\ Frame(evs).rest = evs /\ Frame(evs).pos = 1 /\ Frame(evs).calling = NoListener
<1>1. Len(listeners) \in Nat
  BY LenProperties DEF EventTypes
<1>2. (IF evs = <<>> THEN {} ELSE For(Head(evs).name)) \in SUBSET Listeners
  BY NamesOfListeners
<1> QED
  BY <1>1, <1>2 DEF Frame, Flushes

LEMMA TopTypes ==
  ASSUME EventTypes, frames # <<>>
  PROVE  /\ Len(frames) \in Nat \ {0} /\ Len(frames) \in DOMAIN frames
         /\ Top \in Flushes
         /\ \A k \in DOMAIN frames : frames[k] \in Flushes
<1>1. Len(frames) \in Nat \ {0} /\ DOMAIN frames = 1..Len(frames)
  BY EmptySeq, LenProperties DEF EventTypes
<1> QED
  BY <1>1, ElementOfSeq DEF EventTypes, Top, Last

LEMMA RetopTypes ==
  ASSUME EventTypes, frames # <<>>, NEW f \in Flushes, Retop(f)
  PROVE  /\ frames' \in Seq(Flushes) /\ frames' # <<>> /\ Top' = f
         /\ Len(frames') = Len(frames)
<1>1. Len(frames) \in 1..Len(frames) /\ frames \in Seq(Flushes)
  BY TopTypes DEF EventTypes
<1>2. frames' = [frames EXCEPT ![Len(frames)] = f]
  BY DEF Retop
<1>3. /\ frames' \in Seq(Flushes) /\ Len(frames') = Len(frames)
      /\ frames'[Len(frames)] = f
  BY <1>1, <1>2, ExceptSeq
<1>4. frames' # <<>>
  BY <1>1, <1>3, EmptySeq
<1> QED
  BY <1>3, <1>4 DEF Top, Last

LEMMA AddFrameTypes ==
  ASSUME EventTypes, NEW evs \in Seq(Evs)
  PROVE  LET fs == Append(frames, Frame(evs))
         IN  /\ fs \in Seq(Flushes) /\ fs # <<>> /\ Last(fs) = Frame(evs)
             /\ Len(fs) = Len(frames) + 1
<1>1. Frame(evs) \in Flushes /\ frames \in Seq(Flushes)
  BY FrameTypes DEF EventTypes
<1> QED
  BY <1>1, AppendProperties DEF Last

LEMMA TakeTypes ==
  ASSUME EventTypes, NEW evs \in Seq(Evs), Take(evs)
  PROVE  frames' \in Seq(Flushes) /\ eventQueue' \in Seq(Evs)
BY AddFrameTypes, EmptySeq DEF EventTypes, Take

LEMMA EventIsEvent ==
  ASSUME EventTypes, NEW n \in Names
  PROVE  Event(n) \in Evs /\ Append(eventQueue, Event(n)) \in Seq(Evs)
<1>1. Event(n) \in Evs
  BY DEF EventTypes, Event, Evs
<1> QED
  BY <1>1, AppendProperties DEF EventTypes

LEMMA OnTypes ==
  ASSUME EventTypes, NEW l \in Listeners, NEW n \in Names, On(l, n), UNCHANGED callbackMay
  PROVE  EventTypes'
<1>1. listeners' \in Seq([id : Listeners, name : Names])
  BY AppendProperties DEF EventTypes, On
<1>2. /\ DOMAIN watchers' \subseteq Names /\ watchers' \in [DOMAIN watchers' -> Nat \ {0}]
      /\ entitled' \subseteq used'
  BY DEF EventTypes, On, WithWatcher
<1>3. broken' \in BOOLEAN /\ used' \subseteq Listeners
  BY DEF On, EventTypes
<1> QED
  BY <1>1, <1>2, <1>3 DEF EventTypes, On

LEMMA OffTypes ==
  ASSUME EventTypes, NEW k \in DOMAIN listeners, Off(k), UNCHANGED callbackMay
  PROVE  EventTypes'
<1>1. listeners' \in Seq([id : Listeners, name : Names])
  BY RemoveAtElements DEF EventTypes, Off
<1>2. DOMAIN watchers' \subseteq Names /\ watchers' \in [DOMAIN watchers' -> Nat \ {0}]
  BY DEF EventTypes, Off, WithoutListener
<1>3. frames' \in Seq(Flushes)
  <2>1. \A i \in 1..Len(frames) :
          [frames[i] EXCEPT !.owed = @ \ {listeners[k].id}] \in Flushes
    <3>1. \A i \in 1..Len(frames) : frames[i] \in Flushes
      BY ElementOfSeq DEF EventTypes
    <3> QED
      BY <3>1 DEF Flushes
  <2>2. Len(frames) \in Nat /\ DOMAIN frames = 1..Len(frames)
    BY LenProperties DEF EventTypes
  <2> QED
    BY <2>1, <2>2, IsASeq DEF Off
<1>4. discounted' \subseteq Names
  BY NamesOfListeners DEF EventTypes, Off
<1> QED
  BY <1>1, <1>2, <1>3, <1>4 DEF EventTypes, Off

LEMMA QueueTypes ==
  ASSUME EventTypes, UNCHANGED callbackMay,
         (\E n \in Names : Emit(n) \/ HostChanges(n) \/ StateSet(n)) \/ FlushEvents
  PROVE  EventTypes'
<1>1. ASSUME NEW n \in Names, Emit(n) PROVE EventTypes'
  BY <1>1, EventIsEvent DEF EventTypes, Emit
<1>2. ASSUME NEW n \in Names, HostChanges(n) PROVE EventTypes'
  BY <1>2 DEF EventTypes, HostChanges
<1>3. ASSUME NEW n \in Names, StateSet(n) PROVE EventTypes'
  <2>1. emitted' \in Nat
    BY <1>3 DEF EventTypes, StateSet
  <2>2. Take(Append(eventQueue, Event(n))) \/ Take(eventQueue)
    BY <1>3 DEF StateSet
  <2>3. frames' \in Seq(Flushes) /\ eventQueue' \in Seq(Evs)
    BY <2>2, TakeTypes, EventIsEvent DEF EventTypes
  <2> QED
    BY <1>3, <2>1, <2>3 DEF EventTypes, StateSet
<1>4. CASE FlushEvents
  <2>1. frames' \in Seq(Flushes) /\ eventQueue' \in Seq(Evs)
    BY <1>4, TakeTypes DEF EventTypes, FlushEvents
  <2> QED
    BY <1>4, <2>1 DEF EventTypes, FlushEvents
<1> QED
  BY <1>1, <1>2, <1>3, <1>4

LEMMA DispatchTypes ==
  ASSUME EventTypes, UNCHANGED callbackMay,
         \/ CallListener \/ PassOver \/ ReadPastEnd
         \/ ListenerReturns \/ NextEvent \/ FlushEnds
  PROVE  EventTypes'
<1>1. frames # <<>>
  BY DEF CallListener, PassOver, ReadPastEnd, ListenerReturns, NextEvent, FlushEnds, InTop,
         InCallback
<1>2. Top \in Flushes
  BY <1>1, TopTypes
<1>3. [Top EXCEPT !.pos = @ + 1] \in Flushes
  BY <1>2 DEF Flushes
<1>4. CASE CallListener
  <2> DEFINE l == listeners[Top.pos]
  <2>1. Top.pos \in DOMAIN listeners
    BY <1>2, <1>4, LenProperties DEF CallListener, Flushes, EventTypes
  <2>2. Top.rest # <<>> /\ Top.rest \in Seq(Evs)
    BY <1>2, <1>4 DEF CallListener, InTop, Flushes
  <2>3. Head(Top.rest).num \in Nat
    <3>1. Head(Top.rest) \in Evs
      BY <2>2, HeadTailProperties
    <3> QED
      BY <3>1 DEF Evs
  <2>4. l.id \in Listeners
    BY <2>1, NamesOfListeners
  <2>5. [Top EXCEPT !.calling = l.id, !.owed = @ \ {l.id}] \in Flushes
    BY <1>2, <2>4 DEF Flushes
  <2>6. frames' \in Seq(Flushes)
    BY <1>1, <1>4, <2>5, RetopTypes DEF CallListener
  <2>7. calledWith' \in [Listeners -> Seq(Nat)]
    <3>1. Append(calledWith[l.id], Head(Top.rest).num) \in Seq(Nat)
      BY <2>3, <2>4, AppendProperties DEF EventTypes
    <3> QED
      BY <1>4, <3>1 DEF CallListener, EventTypes
  <2> QED
    BY <1>4, <2>6, <2>7 DEF EventTypes, CallListener, Rest
<1>5. CASE PassOver
  BY <1>1, <1>3, <1>5, RetopTypes DEF EventTypes, PassOver, Rest
<1>6. CASE ReadPastEnd
  BY <1>1, <1>3, <1>6, RetopTypes DEF EventTypes, ReadPastEnd, Rest
<1>7. CASE ListenerReturns
  <2>1. [Top EXCEPT !.calling = NoListener, !.pos = @ + 1] \in Flushes
    <3>1. Top.pos + 1 \in Nat \ {0} /\ NoListener \in Listeners \cup {NoListener}
      BY <1>2 DEF Flushes
    <3> QED
      BY <1>2, <3>1 DEF Flushes
  <2> QED
    BY <1>1, <1>7, <2>1, RetopTypes DEF EventTypes, ListenerReturns, Rest
<1>8. CASE NextEvent
  <2>1. Frame(Tail(Top.rest)) \in Flushes
    BY <1>2, <1>8, HeadTailProperties, FrameTypes DEF NextEvent, InTop, Flushes
  <2> QED
    BY <1>1, <1>8, <2>1, RetopTypes DEF EventTypes, NextEvent, Rest
<1>9. CASE FlushEnds
  <2>1. frames' \in Seq(Flushes)
    BY <1>1, <1>9, FrontElements DEF EventTypes, FlushEnds
  <2> QED
    BY <1>9, <2>1 DEF EventTypes, FlushEnds, Rest
<1> QED
  BY <1>4, <1>5, <1>6, <1>7, <1>8, <1>9

LEMMA TypesKept == ASSUME EventTypes, [EventsNext]_eventVars PROVE EventTypes'
<1>1. CASE UNCHANGED eventVars
  BY <1>1 DEF EventTypes, eventVars, eventSteps
<1>2. CASE EventsNext
  BY <1>2, OnTypes, OffTypes, QueueTypes, DispatchTypes DEF EventsNext, EventsStep
<1> QED
  BY <1>1, <1>2

-----------------------------------------------------------------------------
(* The vector of listeners, and what the watchers count *)

LEMMA AfterOn ==
  ASSUME EventTypes, NEW l \in Listeners, NEW n \in Names, On(l, n)
  PROVE  /\ DOMAIN listeners' = 1..(Len(listeners) + 1)
         /\ DOMAIN listeners = 1..Len(listeners) /\ Len(listeners) \in Nat
         /\ \A k \in DOMAIN listeners : listeners'[k] = listeners[k]
         /\ listeners'[Len(listeners) + 1] = [id |-> l, name |-> n]
         /\ Registered' = Registered \cup {l}
         /\ \A m : For(m)' = IF m = n THEN For(m) \cup {l} ELSE For(m) \cup (For(m)' \cap {l})
<1>1. listeners \in Seq([id : Listeners, name : Names])
  BY DEF EventTypes
<1>2. [id |-> l, name |-> n] \in [id : Listeners, name : Names]
  OBVIOUS
<1>3. /\ Len(listeners) \in Nat /\ DOMAIN listeners = 1..Len(listeners)
      /\ DOMAIN listeners' = 1..(Len(listeners) + 1)
      /\ \A k \in DOMAIN listeners : listeners'[k] = listeners[k]
      /\ listeners'[Len(listeners) + 1] = [id |-> l, name |-> n]
  BY <1>1, <1>2, AppendProperties, LenProperties DEF On
<1>4. Registered' = Registered \cup {l}
  BY <1>3 DEF Registered
<1>5. \A m : For(m)' = IF m = n THEN For(m) \cup {l} ELSE For(m) \cup (For(m)' \cap {l})
  BY <1>3, <1>4 DEF For, Registered
<1> QED
  BY <1>3, <1>4, <1>5

LEMMA AfterOff ==
  ASSUME EventTypes, ListenersOnce, NEW k \in DOMAIN listeners, Off(k)
  PROVE  /\ DOMAIN listeners' = 1..(Len(listeners) - 1)
         /\ DOMAIN listeners = 1..Len(listeners) /\ Len(listeners) \in Nat
         /\ \A i \in DOMAIN listeners' :
              listeners'[i] = IF i < k THEN listeners[i] ELSE listeners[i + 1]
         /\ Registered' = Registered \ {listeners[k].id}
         /\ \A m : For(m)' = For(m) \ {listeners[k].id}
<1>1. /\ Len(listeners) \in Nat /\ DOMAIN listeners = 1..Len(listeners)
      /\ DOMAIN listeners' = 1..(Len(listeners) - 1)
      /\ \A i \in DOMAIN listeners' :
              listeners'[i] = IF i < k THEN listeners[i] ELSE listeners[i + 1]
  <2>1. listeners \in Seq([id : Listeners, name : Names])
    BY DEF EventTypes
  <2> QED
    <3>1. listeners' = RemoveAt(listeners, k)
      BY DEF Off
    <3>2. /\ listeners' \in Seq([id : Listeners, name : Names])
          /\ Len(listeners') = Len(listeners) - 1
          /\ \A i \in 1..(Len(listeners) - 1) :
               listeners'[i] = IF i < k THEN listeners[i] ELSE listeners[i + 1]
      BY <2>1, <3>1, RemoveAtElements
    <3> QED
      BY <2>1, <3>2, LenProperties
<1>2. \A i \in DOMAIN listeners' :
        \E j \in DOMAIN listeners : j # k /\ listeners'[i] = listeners[j]
  <2> TAKE i \in DOMAIN listeners'
  <2>1. CASE i < k
    BY <1>1, <2>1
  <2>2. CASE i >= k
    BY <1>1, <2>2
  <2> QED
    BY <1>1, <2>1, <2>2
<1>3. \A j \in DOMAIN listeners :
        j # k => \E i \in DOMAIN listeners' : listeners'[i] = listeners[j]
  <2> SUFFICES ASSUME NEW j \in DOMAIN listeners, j # k
               PROVE  \E i \in DOMAIN listeners' : listeners'[i] = listeners[j]
    OBVIOUS
  <2>1. CASE j < k
    BY <1>1, <2>1
  <2>2. CASE j > k
    <3>1. j - 1 \in DOMAIN listeners' /\ ~(j - 1 < k) /\ (j - 1) + 1 = j
      BY <1>1, <2>2
    <3> QED
      BY <1>1, <3>1
  <2> QED
    BY <1>1, <2>1, <2>2
<1>4. \A j \in DOMAIN listeners : listeners[j].id = listeners[k].id => j = k
  BY DEF ListenersOnce
<1>5. Registered' = Registered \ {listeners[k].id}
  BY <1>2, <1>3, <1>4 DEF Registered
<1>6. \A m : For(m)' = For(m) \ {listeners[k].id}
  BY <1>2, <1>3, <1>4, <1>5 DEF For
<1> QED
  BY <1>1, <1>5, <1>6

\* The steps that leave the vector and what is known of its listeners alone.
Still == UNCHANGED <<listeners, used, watchers, entitled, discounted>>

LEMMA OtherSteps ==
  ASSUME \/ \E n \in Names : Emit(n) \/ HostChanges(n) \/ StateSet(n)
         \/ FlushEvents \/ CallListener \/ PassOver \/ ReadPastEnd
         \/ ListenerReturns \/ NextEvent \/ FlushEnds
  PROVE  Still /\ (calledWith' = calledWith \/ CallListener)
BY DEF Emit, HostChanges, StateSet, FlushEvents, CallListener, PassOver, ReadPastEnd,
       ListenerReturns, NextEvent, FlushEnds, Rest, Still

LEMMA OnceKept ==
  ASSUME EventTypes, ListenersOnce, [EventsNext]_eventVars
  PROVE  ListenersOnce'
<1>1. ASSUME NEW l \in Listeners, NEW n \in Names, On(l, n) PROVE ListenersOnce'
  <2>1. l \notin used /\ used' = used \cup {l} /\ calledWith' = calledWith
    BY <1>1 DEF On
  <2>2. \A i, j \in DOMAIN listeners' : listeners'[i].id = listeners'[j].id => i = j
    <3>1. \A i \in DOMAIN listeners : listeners[i].id # l
      BY <2>1 DEF ListenersOnce, Registered
    <3> QED
      <4>1. /\ DOMAIN listeners' = 1..(Len(listeners) + 1)
            /\ DOMAIN listeners = 1..Len(listeners) /\ Len(listeners) \in Nat
            /\ \A k \in DOMAIN listeners : listeners'[k] = listeners[k]
            /\ listeners'[Len(listeners) + 1] = [id |-> l, name |-> n]
        BY <1>1, AfterOn
      <4>2. listeners'[Len(listeners) + 1].id = l
        BY <4>1
      <4>3. \A i \in DOMAIN listeners' : i # Len(listeners) + 1 => i \in DOMAIN listeners
        BY <4>1
      <4> QED
        BY <3>1, <4>1, <4>2, <4>3 DEF ListenersOnce
  <2>3. Registered' \subseteq used' /\ IsFiniteSet(used')
    BY <1>1, <2>1, AfterOn, FS_AddElement DEF ListenersOnce
  <2> QED
    BY <2>1, <2>2, <2>3 DEF ListenersOnce
<1>2. ASSUME NEW k \in DOMAIN listeners, Off(k) PROVE ListenersOnce'
  <2>1. \A i, j \in DOMAIN listeners' : listeners'[i].id = listeners'[j].id => i = j
    <3> SUFFICES ASSUME NEW i \in DOMAIN listeners', NEW j \in DOMAIN listeners',
                        listeners'[i].id = listeners'[j].id
                 PROVE  i = j
      OBVIOUS
    <3> DEFINE from(x) == IF x < k THEN x ELSE x + 1
    <3>1. \A x \in DOMAIN listeners' :
            from(x) \in DOMAIN listeners /\ listeners'[x] = listeners[from(x)]
      BY <1>2, AfterOff
    <3>2. from(i) = from(j)
      BY <3>1 DEF ListenersOnce
    <3>3. i \in Nat /\ j \in Nat /\ k \in Nat
      BY <1>2, AfterOff
    <3> QED
      BY <3>2, <3>3
  <2> QED
    BY <1>2, <2>1, AfterOff DEF ListenersOnce, Off
<1>3. CASE CallListener
  <2> DEFINE l == listeners[Top.pos]
  <2>1. Top.pos \in DOMAIN listeners
    BY <1>3, TopTypes, LenProperties DEF CallListener, InTop, Flushes, EventTypes
  <2>2. l.id \in used
    BY <2>1 DEF ListenersOnce, Registered
  <2>3. \A x \in Listeners : x # l.id => calledWith'[x] = calledWith[x]
    BY <1>3 DEF CallListener, EventTypes
  <2>4. Still
    BY <1>3, OtherSteps
  <2> QED
    BY <2>2, <2>3, <2>4 DEF ListenersOnce, Still, Registered
<1>4. CASE Still /\ calledWith' = calledWith
  BY <1>4 DEF ListenersOnce, Still, Registered
<1> QED
  BY <1>1, <1>2, <1>3, <1>4, OtherSteps
     DEF EventsNext, EventsStep, eventVars, eventSteps, Still

LEMMA CountKept ==
  ASSUME EventTypes, ListenersOnce, WatchersCount, [EventsNext]_eventVars
  PROVE  WatchersCount'
<1>1. \A m : IsFiniteSet(Counted(m))
  BY NamesOfListeners, FS_Subset DEF ListenersOnce, Counted
<1>2. ASSUME NEW l \in Listeners, NEW n \in Names, On(l, n) PROVE WatchersCount'
  <2>1. l \notin used /\ l \notin entitled /\ discounted' = discounted
    BY <1>2 DEF On, EventTypes
  <2>2. \A m : l \notin For(m)
    BY <2>1, NamesOfListeners DEF ListenersOnce
  <2>0. For(n)' = For(n) \cup {l} /\ \A m : m # n => For(m)' = For(m) \cup (For(m)' \cap {l})
    BY <1>2, AfterOn
  <2>3. ASSUME NEW m \in Names \ discounted, m # n
        PROVE  Counted(m)' = Counted(m)
    <3>1. l \notin For(m)'
      <4>1. \A k \in DOMAIN listeners' : listeners'[k].id = l => listeners'[k].name = n
        <5>1. \A k \in DOMAIN listeners : listeners[k].id # l
          BY <2>1 DEF ListenersOnce, Registered
        <5>2. /\ DOMAIN listeners' = 1..(Len(listeners) + 1)
              /\ DOMAIN listeners = 1..Len(listeners) /\ Len(listeners) \in Nat
              /\ \A k \in DOMAIN listeners : listeners'[k] = listeners[k]
              /\ listeners'[Len(listeners) + 1] = [id |-> l, name |-> n]
          BY <1>2, AfterOn
        <5> QED
          BY <5>1, <5>2
      <4> QED
        BY <2>3, <4>1 DEF For
    <3> QED
      <4>1. For(m)' = For(m)
        BY <2>0, <2>3, <3>1
      <4>2. entitled' \cap For(m) = entitled \cap For(m)
        BY <1>2, <2>2 DEF On
      <4> QED
        BY <4>1, <4>2 DEF Counted
  <2>4. CASE n \in states
    <3>1. watchers' = WithWatcher(n) /\ entitled' = entitled \cup {l}
      BY <1>2, <2>4 DEF On
    <3>2. Counted(n)' = Counted(n) \cup {l} /\ l \notin Counted(n)
      BY <2>0, <2>1, <3>1 DEF Counted
    <3>3. Cardinality(Counted(n) \cup {l}) = Cardinality(Counted(n)) + 1
      BY <1>1, <3>2, FS_AddElement
    <3>4. Cardinality({}) = 0
      BY FS_EmptySet
    <3> QED
      BY <2>1, <2>3, <3>1, <3>2, <3>3, <3>4 DEF WatchersCount, WithWatcher
  <2>5. CASE n \notin states
    <3>1. watchers' = watchers /\ entitled' = entitled
      BY <1>2, <2>5 DEF On
    <3>2. Counted(n)' = Counted(n)
      BY <2>0, <2>1, <3>1 DEF Counted
    <3> QED
      BY <2>1, <2>3, <3>1, <3>2 DEF WatchersCount
  <2> QED
    BY <2>4, <2>5
<1>3. ASSUME NEW k \in DOMAIN listeners, Off(k) PROVE WatchersCount'
  <2>0. PICK x \in Listeners, n \in Names : x = listeners[k].id /\ n = listeners[k].name
    BY NamesOfListeners
  <2>1. x \in For(n) /\ n \in Names
    BY <2>0, NamesOfListeners
  <2>2. \A m : Counted(m)' = Counted(m) \ {x}
    <3>1. \A m : For(m)' = For(m) \ {x}
      BY <1>3, <2>0, AfterOff
    <3>2. entitled' = entitled
      BY <1>3 DEF Off
    <3> QED
      BY <3>1, <3>2 DEF Counted
  <2>3. ASSUME NEW m \in Names, m # n PROVE Counted(m)' = Counted(m)
    <3>1. x \notin For(m)
      BY <2>0, <2>3 DEF For, ListenersOnce
    <3> QED
      BY <2>2, <3>1 DEF Counted
  <2>4. watchers' = WithoutListener(n)
    BY <1>3, <2>0 DEF Off
  <2>5. ASSUME NEW m \in Names \ discounted', m # n
        PROVE  IF m \in DOMAIN watchers' THEN watchers'[m] = Cardinality(Counted(m)')
                                         ELSE Counted(m)' = {}
    <3>1. m \notin discounted
      BY <1>3, <2>0, <2>5 DEF Off
    <3>2. (m \in DOMAIN watchers' <=> m \in DOMAIN watchers)
          /\ (m \in DOMAIN watchers => watchers'[m] = watchers[m])
      BY <2>4, <2>5 DEF WithoutListener
    <3> QED
      BY <2>3, <2>5, <3>1, <3>2 DEF WatchersCount
  <2>6. ASSUME n \notin discounted'
        PROVE  IF n \in DOMAIN watchers' THEN watchers'[n] = Cardinality(Counted(n)')
                                         ELSE Counted(n)' = {}
    <3>1. x \in entitled /\ n \notin discounted
      BY <1>3, <2>0, <2>6 DEF Off
    <3>2. x \in Counted(n) /\ n \in DOMAIN watchers /\ watchers[n] = Cardinality(Counted(n))
      BY <2>1, <3>1 DEF Counted, WatchersCount
    <3>3. Cardinality(Counted(n)') = watchers[n] - 1 /\ IsFiniteSet(Counted(n)')
      <4>1. Counted(n)' = Counted(n) \ {x}
        BY <2>2
      <4>2. /\ IsFiniteSet(Counted(n) \ {x})
            /\ Cardinality(Counted(n) \ {x}) = Cardinality(Counted(n)) - 1
        BY <1>1, <3>2, FS_RemoveElement
      <4> QED
        BY <3>2, <4>1, <4>2
    <3>4. watchers[n] \in Nat \ {0}
      BY <3>2 DEF EventTypes
    <3>5. CASE watchers[n] > 1
      BY <2>4, <3>2, <3>3, <3>5 DEF WithoutListener
    <3>6. CASE watchers[n] = 1
      <4>1. Counted(n)' = {}
        BY <3>3, <3>6, FS_EmptySet
      <4> QED
        BY <2>4, <3>6, <4>1 DEF WithoutListener
    <3> QED
      BY <3>4, <3>5, <3>6
  <2>7. ASSUME NEW m \in Names \ discounted'
        PROVE  IF m \in DOMAIN watchers' THEN watchers'[m] = Cardinality(Counted(m)')
                                         ELSE Counted(m)' = {}
    BY <2>5, <2>6, <2>7
  <2> QED
    BY <2>7 DEF WatchersCount
<1>4. CASE Still
  <2>1. \A m : Counted(m)' = Counted(m)
    BY <1>4 DEF Still, Counted, For, Registered
  <2> QED
    BY <1>4, <2>1 DEF Still, WatchersCount
<1> QED
  BY <1>2, <1>3, <1>4, OtherSteps DEF EventsNext, EventsStep, eventVars, eventSteps, Still

-----------------------------------------------------------------------------
(* The order of the events, when no callback sets a state *)

LEMMA SequenceFacts ==
  ASSUME EventTypes
  PROVE  /\ DOMAIN eventQueue = 1..Len(eventQueue) /\ Len(eventQueue) \in Nat
         /\ \A i \in DOMAIN eventQueue : eventQueue[i].num \in Nat
         /\ \A l \in Listeners : /\ Len(calledWith[l]) \in Nat
                                 /\ DOMAIN calledWith[l] = 1..Len(calledWith[l])
                                 /\ \A h \in DOMAIN calledWith[l] : calledWith[l][h] \in Nat
<1>1. eventQueue \in Seq(Evs) /\ \A l \in Listeners : calledWith[l] \in Seq(Nat)
  BY DEF EventTypes
<1>2. \A i \in 1..Len(eventQueue) : eventQueue[i] \in Evs
  BY <1>1, ElementOfSeq
<1> QED
  BY <1>1, <1>2, LenProperties, ElementOfSeq DEF Evs

LEMMA RestFacts ==
  ASSUME EventTypes, frames # <<>>
  PROVE  /\ Top.rest \in Seq(Evs)
         /\ DOMAIN Top.rest = 1..Len(Top.rest) /\ Len(Top.rest) \in Nat
         /\ \A i \in DOMAIN Top.rest : Top.rest[i].num \in Nat
         /\ Top.rest # <<>> => 1 \in DOMAIN Top.rest /\ Head(Top.rest) = Top.rest[1]
         /\ Top.pos \in Nat \ {0}
<1>1. Top.rest \in Seq(Evs) /\ Top.pos \in Nat \ {0}
  BY TopTypes DEF Flushes
<1>2. \A i \in 1..Len(Top.rest) : Top.rest[i] \in Evs
  BY <1>1, ElementOfSeq
<1>3. Top.rest # <<>> => Len(Top.rest) \in Nat \ {0} /\ Head(Top.rest) = Top.rest[1]
  BY <1>1, EmptySeq, HeadTailProperties
<1> QED
  BY <1>1, <1>2, <1>3, LenProperties DEF Evs

\* A flush that nothing was before takes events that follow what was heard.
LEMMA TakeInTurn ==
  ASSUME EventTypes, EventTypes', InTurn, frames = <<>>, NEW evs \in Seq(Evs), Take(evs),
         calledWith' = calledWith, listeners' = listeners, emitted' >= emitted,
         Rising(evs),
         \A i \in DOMAIN evs :
           /\ evs[i].num <= emitted'
           /\ \A l \in Listeners : \A h \in DOMAIN calledWith[l] : calledWith[l][h] < evs[i].num
  PROVE  InTurn'
<1> DEFINE f == Frame(evs)
<1>1. /\ f.rest = evs /\ f.pos = 1 /\ f.calling = NoListener
  BY FrameTypes
<1>2. eventQueue' = <<>> /\ DOMAIN eventQueue' = {}
  BY DEF Take
<1>3. evs # <<>> => frames' # <<>> /\ Top' = f /\ Len(frames') = 1
  <2>1. Len(frames) = 0
    BY EmptySeq
  <2>2. Len(Append(frames, f)) = 1 /\ Last(Append(frames, f)) = f /\ Append(frames, f) # <<>>
    BY <2>1, AddFrameTypes
  <2> QED
    BY <2>2 DEF Take, Top
<1>4. evs = <<>> => frames' = <<>> /\ Len(frames') = 0
  BY EmptySeq DEF Take
<1>5. InQueueOrder'
  BY DEF InTurn, InQueueOrder
<1>6. QueueOrder'
  <2>1. \A l \in Listeners : \A h \in DOMAIN calledWith[l] :
          calledWith[l][h] <= emitted /\ calledWith[l][h] \in Nat
    BY SequenceFacts DEF InTurn, QueueOrder
  <2>2. \A l \in Listeners : \A h \in DOMAIN calledWith[l] : calledWith[l][h] <= emitted'
    BY <2>1 DEF EventTypes
  <2> QED
    BY <1>2, <2>2 DEF QueueOrder, Rising
<1>7. DispatchOrder'
  <2>1. DOMAIN evs = 1..Len(evs) /\ \A i \in DOMAIN evs : evs[i].num \in Nat
    <3>1. \A i \in 1..Len(evs) : evs[i] \in Evs
      BY ElementOfSeq
    <3> QED
      BY <3>1, LenProperties DEF Evs
  <2>2. \A i \in DOMAIN evs : \A l \in Listeners : \A h \in DOMAIN calledWith[l] :
          calledWith[l][h] <= evs[i].num
    BY <2>1, SequenceFacts
  <2> QED
    BY <1>1, <1>2, <1>3, <1>4, <2>2 DEF DispatchOrder, Rising
<1>8. HeardHadItsTurn'
  <2>1. ASSUME evs # <<>>, NEW k \in DOMAIN listeners, NEW h \in DOMAIN calledWith[listeners[k].id]
        PROVE  calledWith[listeners[k].id][h] # Head(evs).num
    <3>1. listeners[k].id \in Listeners
      BY NamesOfListeners
    <3>2. 1 \in DOMAIN evs /\ Head(evs) = evs[1]
      BY <2>1, EmptySeq, LenProperties, HeadTailProperties
    <3>3. calledWith[listeners[k].id][h] < Head(evs).num
      BY <3>1, <3>2
    <3>4. calledWith[listeners[k].id][h] \in Nat
      BY <3>1, SequenceFacts
    <3> QED
      BY <3>3, <3>4
  <2> QED
    BY <1>1, <1>3, <1>4, <2>1 DEF HeardHadItsTurn
<1>9. Len(frames') <= 1
  <2>1. Len(frames') \in {0, 1}
    BY <1>3, <1>4
  <2>2. 0 <= 1 /\ 1 <= 1
    OBVIOUS
  <2> QED
    BY <2>1, <2>2
<1> QED
  BY <1>5, <1>6, <1>7, <1>8, <1>9 DEF InTurn

LEMMA OnInTurn ==
  ASSUME EventTypes, ListenersOnce, InTurn, NEW l \in Listeners, NEW n \in Names, On(l, n)
  PROVE  InTurn'
<1>1. UNCHANGED <<eventQueue, emitted, frames, calledWith>> /\ Top' = Top
  BY DEF On, Top
<1>2. /\ DOMAIN listeners' = 1..(Len(listeners) + 1)
      /\ DOMAIN listeners = 1..Len(listeners) /\ Len(listeners) \in Nat
      /\ \A k \in DOMAIN listeners : listeners'[k] = listeners[k]
      /\ listeners'[Len(listeners) + 1] = [id |-> l, name |-> n]
  BY AfterOn
<1>3. calledWith[l] = <<>>
  BY DEF On, ListenersOnce
<1>4. HeardHadItsTurn'
  <2>1. ASSUME NEW k \in DOMAIN listeners', k \notin DOMAIN listeners
        PROVE  DOMAIN calledWith[listeners'[k].id] = {}
    <3>1. listeners'[k].id = l
      BY <1>2, <2>1
    <3> QED
      BY <1>3, <3>1
  <2> QED
    BY <1>1, <1>2, <2>1 DEF InTurn, HeardHadItsTurn, HadItsTurn
<1>5. QueueOrder' /\ DispatchOrder' /\ InQueueOrder' /\ Len(frames') <= 1
  BY <1>1 DEF InTurn, QueueOrder, DispatchOrder, InQueueOrder, Rising
<1> QED
  BY <1>4, <1>5 DEF InTurn

LEMMA OffInTurn ==
  ASSUME EventTypes, ListenersOnce, InTurn, NEW k \in DOMAIN listeners, Off(k)
  PROVE  InTurn'
<1>1. UNCHANGED <<eventQueue, emitted, calledWith>>
  BY DEF Off
<1>2. /\ (frames' = <<>>) <=> (frames = <<>>)
      /\ Len(frames') = Len(frames)
      /\ frames # <<>> => /\ Top'.rest = Top.rest /\ Top'.pos = Top.pos
                          /\ Top'.calling = Top.calling
  <2>1. frames' = [i \in DOMAIN frames |->
                     [frames[i] EXCEPT !.owed = @ \ {listeners[k].id}]]
    BY DEF Off
  <2>2. Len(frames) \in Nat /\ DOMAIN frames = 1..Len(frames)
    BY LenProperties DEF EventTypes
  <2>3. Len(frames') = Len(frames)
    BY <2>1, <2>2
  <2>4. CASE frames = <<>>
    BY <2>1, <2>3, <2>4
  <2>5. CASE frames # <<>>
    <3>1. Len(frames) \in DOMAIN frames /\ frames[Len(frames)] \in Flushes
      BY <2>5, TopTypes
    <3>2. frames' # <<>>
      BY <2>3, <3>1, <2>2
    <3>3. Top' = [Top EXCEPT !.owed = @ \ {listeners[k].id}]
      BY <2>1, <2>3, <3>1 DEF Top, Last
    <3> QED
      BY <2>3, <2>5, <3>1, <3>2, <3>3 DEF Top, Last, Flushes
  <2> QED
    BY <2>4, <2>5
<1>3. HeardHadItsTurn'
  <2> SUFFICES ASSUME frames # <<>>, Top.rest # <<>>,
                      NEW i \in DOMAIN listeners', NEW h \in DOMAIN calledWith[listeners'[i].id],
                      calledWith[listeners'[i].id][h] = Head(Top.rest).num
               PROVE  HadItsTurn(i)'
    BY <1>1, <1>2 DEF HeardHadItsTurn
  <2> DEFINE j == IF i < k THEN i ELSE i + 1
  <2>1. /\ j \in DOMAIN listeners /\ listeners'[i] = listeners[j]
        /\ i \in Nat /\ j \in Nat /\ i <= j
    BY AfterOff
  <2>2. HadItsTurn(j)
    BY <2>1 DEF InTurn, HeardHadItsTurn
  <2>3. Top.pos \in Nat
    BY RestFacts
  <2> QED
    BY <1>2, <2>1, <2>2, <2>3 DEF HadItsTurn
<1>4. QueueOrder' /\ DispatchOrder' /\ InQueueOrder' /\ Len(frames') <= 1
  BY <1>1, <1>2 DEF InTurn, QueueOrder, DispatchOrder, InQueueOrder, Rising
<1> QED
  BY <1>3, <1>4 DEF InTurn

\* The new event follows all that was queued, dispatched and heard.
LEMMA EventIsLast ==
  ASSUME EventTypes, QueueOrder, NEW n \in Names
  PROVE  LET evs == Append(eventQueue, Event(n))
         IN  /\ Rising(evs)
             /\ DOMAIN evs = 1..(Len(eventQueue) + 1)
             /\ \A i \in DOMAIN evs :
                  /\ i \in DOMAIN eventQueue => evs[i] = eventQueue[i]
                  /\ i \notin DOMAIN eventQueue => evs[i].num = emitted + 1
                  /\ evs[i].num \in Nat /\ evs[i].num <= emitted + 1
                  /\ \A l \in Listeners : \A h \in DOMAIN calledWith[l] :
                       calledWith[l][h] < evs[i].num
<1> DEFINE evs == Append(eventQueue, Event(n))
           last == Len(eventQueue) + 1
<1>1. Event(n) \in Evs /\ Event(n).num = emitted + 1 /\ eventQueue \in Seq(Evs)
  BY EventIsEvent DEF Event, EventTypes
<1>2. /\ DOMAIN eventQueue = 1..Len(eventQueue) /\ Len(eventQueue) \in Nat /\ emitted \in Nat
      /\ \A i \in DOMAIN eventQueue : eventQueue[i].num \in Nat
  BY SequenceFacts DEF EventTypes
<1>3. /\ Len(evs) = last
      /\ \A i \in 1..Len(eventQueue) : evs[i] = eventQueue[i]
      /\ evs[last] = Event(n)
  BY <1>1, AppendProperties
<1>4. DOMAIN evs = 1..last
  BY <1>1, <1>3, AppendProperties, LenProperties
<1> HIDE DEF evs
<1>5. ASSUME NEW i \in DOMAIN evs
      PROVE  /\ i \in DOMAIN eventQueue => evs[i] = eventQueue[i]
             /\ i \notin DOMAIN eventQueue => i = last /\ evs[i].num = emitted + 1
             /\ evs[i].num \in Nat /\ evs[i].num <= emitted + 1
  <2>1. CASE i \in DOMAIN eventQueue
    <3>1. evs[i] = eventQueue[i] /\ eventQueue[i].num <= emitted /\ eventQueue[i].num \in Nat
      BY <1>2, <1>3, <2>1 DEF QueueOrder
    <3> QED
      BY <1>2, <2>1, <3>1
  <2>2. CASE i \notin DOMAIN eventQueue
    <3>1. i = last
      BY <1>2, <1>4, <2>2
    <3> QED
      BY <1>1, <1>2, <1>3, <2>2, <3>1
  <2> QED
    BY <2>1, <2>2
<1>6. ASSUME NEW i \in DOMAIN evs, NEW l \in Listeners, NEW h \in DOMAIN calledWith[l]
      PROVE  calledWith[l][h] < evs[i].num
  <2>1. /\ calledWith[l][h] <= emitted /\ calledWith[l][h] \in Nat
        /\ \A j \in DOMAIN eventQueue : calledWith[l][h] < eventQueue[j].num
    BY SequenceFacts DEF QueueOrder
  <2> QED
    BY <1>2, <1>5, <2>1
<1>7. Rising(evs)
  <2> SUFFICES ASSUME NEW i \in DOMAIN evs, NEW j \in DOMAIN evs, i < j
               PROVE  evs[i].num < evs[j].num
    BY DEF Rising
  <2>1. i \in DOMAIN eventQueue
    BY <1>2, <1>4
  <2>2. evs[i] = eventQueue[i] /\ eventQueue[i].num <= emitted /\ eventQueue[i].num \in Nat
    BY <1>5, <2>1, <1>2 DEF QueueOrder
  <2>3. CASE j \in DOMAIN eventQueue
    BY <1>5, <2>1, <2>2, <2>3 DEF QueueOrder, Rising
  <2>4. CASE j \notin DOMAIN eventQueue
    BY <1>2, <1>5, <2>2, <2>4
  <2> QED
    BY <2>3, <2>4
<1>8. /\ Rising(evs)
      /\ DOMAIN evs = 1..(Len(eventQueue) + 1)
      /\ \A i \in DOMAIN evs :
           /\ i \in DOMAIN eventQueue => evs[i] = eventQueue[i]
           /\ i \notin DOMAIN eventQueue => evs[i].num = emitted + 1
           /\ evs[i].num \in Nat /\ evs[i].num <= emitted + 1
           /\ \A l \in Listeners : \A h \in DOMAIN calledWith[l] :
                calledWith[l][h] < evs[i].num
  BY <1>4, <1>5, <1>6, <1>7
<1> QED
  BY <1>8 DEF evs

LEMMA EmitInTurn ==
  ASSUME EventTypes, InTurn, NEW n \in Names, Emit(n)
  PROVE  InTurn'
<1>1. /\ eventQueue' = Append(eventQueue, Event(n)) /\ emitted' = emitted + 1
      /\ UNCHANGED <<listeners, frames, calledWith>> /\ Top' = Top /\ emitted \in Nat
  BY DEF Emit, Top, EventTypes
<1>2. /\ Rising(eventQueue')
      /\ \A i \in DOMAIN eventQueue' :
           /\ i \in DOMAIN eventQueue => eventQueue'[i] = eventQueue[i]
           /\ i \notin DOMAIN eventQueue => eventQueue'[i].num = emitted + 1
           /\ eventQueue'[i].num <= emitted'
           /\ \A l \in Listeners : \A h \in DOMAIN calledWith[l] :
                calledWith[l][h] < eventQueue'[i].num
  BY <1>1, EventIsLast DEF InTurn
<1>3. QueueOrder'
  <2>1. \A l \in Listeners : \A h \in DOMAIN calledWith[l] : calledWith[l][h] <= emitted'
    BY <1>1, SequenceFacts DEF InTurn, QueueOrder
  <2> QED
    BY <1>1, <1>2, <2>1 DEF QueueOrder, Rising
<1>4. DispatchOrder'
  <2>1. ASSUME frames # <<>>, NEW i \in DOMAIN Top.rest
        PROVE  /\ Top.rest[i].num <= emitted'
               /\ \A j \in DOMAIN eventQueue' : Top.rest[i].num < eventQueue'[j].num
    <3>1. Top.rest[i].num <= emitted /\ Top.rest[i].num \in Nat
      BY <2>1, RestFacts DEF InTurn, DispatchOrder
    <3> QED
      BY <1>1, <1>2, <2>1, <3>1 DEF InTurn, DispatchOrder
  <2> QED
    BY <1>1, <2>1 DEF InTurn, DispatchOrder, Rising
<1>5. HeardHadItsTurn' /\ InQueueOrder' /\ Len(frames') <= 1
  BY <1>1 DEF InTurn, HeardHadItsTurn, HadItsTurn, InQueueOrder
<1> QED
  BY <1>3, <1>4, <1>5 DEF InTurn

\* host.state.set when no callback may call it, and the flush of the loop.
LEMMA FlushInTurn ==
  ASSUME EventTypes, EventTypes', InTurn, "set" \notin callbackMay,
         FlushEvents \/ \E n \in Names : StateSet(n)
  PROVE  InTurn'
<1>1. frames = <<>> /\ UNCHANGED <<listeners, calledWith>>
  BY DEF FlushEvents, StateSet, Script, Rest
<1>2. emitted \in Nat /\ eventQueue \in Seq(Evs)
  BY DEF EventTypes
<1>3. ASSUME Take(eventQueue), emitted' = emitted PROVE InTurn'
  <2>1. Rising(eventQueue)
    BY DEF InTurn, QueueOrder
  <2>2. \A i \in DOMAIN eventQueue :
          /\ eventQueue[i].num <= emitted'
          /\ \A l \in Listeners : \A h \in DOMAIN calledWith[l] :
               calledWith[l][h] < eventQueue[i].num
    BY <1>3 DEF InTurn, QueueOrder
  <2> QED
    BY <1>1, <1>2, <1>3, <2>1, <2>2, TakeInTurn
<1>4. ASSUME NEW n \in Names, Take(Append(eventQueue, Event(n))), emitted' = emitted + 1
      PROVE  InTurn'
  <2>1. PICK evs \in Seq(Evs) : evs = Append(eventQueue, Event(n))
    BY EventIsEvent
  <2>2. Rising(evs)
    BY <2>1, EventIsLast DEF InTurn
  <2>3. \A i \in DOMAIN evs :
          /\ evs[i].num <= emitted'
          /\ \A l \in Listeners : \A h \in DOMAIN calledWith[l] : calledWith[l][h] < evs[i].num
    BY <1>4, <2>1, EventIsLast DEF InTurn
  <2>4. emitted' >= emitted
    BY <1>2, <1>4
  <2>5. Take(evs)
    BY <1>4, <2>1
  <2> HIDE <1>4
  <2> QED
    BY <1>1, <2>2, <2>3, <2>4, <2>5, TakeInTurn
<1> QED
  BY <1>3, <1>4 DEF FlushEvents, StateSet

\* The loop goes on to the next slot of the vector.
LEMMA ForwardInTurn ==
  ASSUME EventTypes, InTurn, frames # <<>>, NEW f \in Flushes, Retop(f),
         f.rest = Top.rest, f.pos = Top.pos + 1,
         UNCHANGED <<listeners, eventQueue, emitted, calledWith>>
  PROVE  InTurn'
<1>1. frames' # <<>> /\ Top' = f /\ Len(frames') = Len(frames)
  BY RetopTypes
<1>2. HeardHadItsTurn'
  <2>1. \A k \in DOMAIN listeners : HadItsTurn(k) => k < Top.pos + 1
    <3>1. Top.pos \in Nat /\ DOMAIN listeners = 1..Len(listeners) /\ Len(listeners) \in Nat
      BY RestFacts, LenProperties DEF EventTypes
    <3> QED
      BY <3>1 DEF HadItsTurn
  <2> QED
    BY <1>1, <2>1 DEF InTurn, HeardHadItsTurn, HadItsTurn
<1>3. QueueOrder' /\ DispatchOrder' /\ InQueueOrder' /\ Len(frames') <= 1
  BY <1>1 DEF InTurn, QueueOrder, DispatchOrder, InQueueOrder, Rising
<1> QED
  BY <1>2, <1>3 DEF InTurn

LEMMA LoopInTurn ==
  ASSUME EventTypes, InTurn, PassOver \/ ReadPastEnd \/ ListenerReturns
  PROVE  InTurn'
<1>1. frames # <<>> /\ UNCHANGED <<listeners, eventQueue, emitted, calledWith>>
  BY DEF PassOver, ReadPastEnd, ListenerReturns, InTop, InCallback, Rest
<1>2. Top \in Flushes
  BY <1>1, TopTypes
<1>3. PICK forth, back \in Flushes : /\ forth = [Top EXCEPT !.pos = @ + 1]
                                     /\ back = [Top EXCEPT !.calling = NoListener, !.pos = @ + 1]
  <2>1. [Top EXCEPT !.pos = @ + 1] \in Flushes
    BY <1>2 DEF Flushes
  <2>2. [Top EXCEPT !.calling = NoListener, !.pos = @ + 1] \in Flushes
    <3>1. Top.pos + 1 \in Nat \ {0} /\ NoListener \in Listeners \cup {NoListener}
      BY <1>2 DEF Flushes
    <3> QED
      BY <1>2, <3>1 DEF Flushes
  <2> QED
    BY <2>1, <2>2
<1>4. /\ forth.rest = Top.rest /\ forth.pos = Top.pos + 1
      /\ back.rest = Top.rest /\ back.pos = Top.pos + 1
  BY <1>2, <1>3 DEF Flushes
<1>5. Retop(forth) \/ Retop(back) \/ UNCHANGED frames
  BY <1>3 DEF PassOver, ReadPastEnd, ListenerReturns
<1>6. CASE Retop(forth) \/ Retop(back)
  BY <1>1, <1>4, <1>6, ForwardInTurn
<1>7. CASE UNCHANGED frames
  BY <1>1, <1>7 DEF InTurn, QueueOrder, DispatchOrder, InQueueOrder, HeardHadItsTurn,
                    HadItsTurn, Rising, Top
<1> QED
  BY <1>5, <1>6, <1>7

LEMMA CallInTurn ==
  ASSUME EventTypes, ListenersOnce, InTurn, CallListener
  PROVE  InTurn'
<1> DEFINE p == Top.pos
           e == Head(Top.rest).num
<1>1. frames # <<>> /\ Top.rest # <<>> /\ Top.calling = NoListener
  BY DEF CallListener, InTop
<1>2. PICK l \in Listeners : l = listeners[p].id /\ p \in DOMAIN listeners
  <2>1. p \in DOMAIN listeners
    BY <1>1, RestFacts, LenProperties DEF CallListener, EventTypes
  <2> QED
    BY <2>1, NamesOfListeners
<1>3. PICK f \in Flushes : f = [Top EXCEPT !.calling = l, !.owed = @ \ {l}]
  <2>1. [Top EXCEPT !.calling = l, !.owed = @ \ {l}] \in Flushes
    BY <1>1, TopTypes DEF Flushes
  <2> QED
    BY <2>1
<1>4. f.rest = Top.rest /\ f.pos = Top.pos /\ f.calling = l
  BY <1>1, <1>3, TopTypes DEF Flushes
<1>5. frames' # <<>> /\ Top' = f /\ Len(frames') = Len(frames)
  <2>1. Retop(f)
    BY <1>2, <1>3 DEF CallListener
  <2> QED
    BY <1>1, <2>1, RetopTypes
<1>6. e \in Nat /\ 1 \in DOMAIN Top.rest /\ e = Top.rest[1].num
      /\ DOMAIN Top.rest = 1..Len(Top.rest) /\ Len(Top.rest) \in Nat
  BY <1>1, RestFacts
<1>7. UNCHANGED <<listeners, eventQueue, emitted>>
  BY DEF CallListener, Rest
<1>8. /\ \A x \in Listeners \ {l} : calledWith'[x] = calledWith[x]
      /\ calledWith'[l] = Append(calledWith[l], e)
  BY <1>2 DEF CallListener, EventTypes
<1> DEFINE last == Len(calledWith[l]) + 1
<1>9. /\ DOMAIN calledWith[l] = 1..Len(calledWith[l]) /\ Len(calledWith[l]) \in Nat
      /\ DOMAIN calledWith'[l] = 1..last
      /\ \A h \in DOMAIN calledWith[l] : calledWith'[l][h] = calledWith[l][h]
                                          /\ calledWith[l][h] \in Nat
      /\ calledWith'[l][last] = e
  <2>1. calledWith[l] \in Seq(Nat)
    BY DEF EventTypes
  <2> QED
    BY <1>6, <1>8, <2>1, AppendProperties, LenProperties, SequenceFacts
<1>10. \A h \in DOMAIN calledWith[l] : calledWith[l][h] < e
  <2> TAKE h \in DOMAIN calledWith[l]
  <2>1. calledWith[l][h] <= e
    BY <1>1, <1>6 DEF InTurn, DispatchOrder
  <2>2. calledWith[l][h] # e
    <3>1. ~HadItsTurn(p)
      BY <1>1, RestFacts DEF HadItsTurn
    <3> QED
      BY <1>1, <1>2, <3>1 DEF InTurn, HeardHadItsTurn
  <2> QED
    BY <1>6, <1>9, <2>1, <2>2
<1>11. InQueueOrder'
  <2> SUFFICES ASSUME NEW x \in Listeners, NEW i \in DOMAIN calledWith'[x],
                      NEW j \in DOMAIN calledWith'[x], i < j
               PROVE  calledWith'[x][i] < calledWith'[x][j]
    BY DEF InQueueOrder
  <2>1. CASE x # l
    BY <1>8, <2>1 DEF InTurn, InQueueOrder
  <2>2. CASE x = l
    <3>1. i \in DOMAIN calledWith[l]
      BY <1>9, <2>2
    <3>2. CASE j \in DOMAIN calledWith[l]
      BY <1>9, <2>2, <3>1, <3>2 DEF InTurn, InQueueOrder
    <3>3. CASE j = last
      BY <1>9, <1>10, <2>2, <3>1, <3>3
    <3> QED
      BY <1>9, <2>2, <3>2, <3>3
  <2> QED
    BY <2>1, <2>2
<1>12. \A x \in Listeners : \A h \in DOMAIN calledWith'[x] :
         (h \in DOMAIN calledWith[x] /\ calledWith'[x][h] = calledWith[x][h])
         \/ (x = l /\ calledWith'[x][h] = e)
  BY <1>8, <1>9
<1>13. /\ e <= emitted /\ \A j \in DOMAIN eventQueue : e < eventQueue[j].num
       /\ \A i \in DOMAIN Top.rest : e <= Top.rest[i].num
  <2>1. /\ e <= emitted /\ \A j \in DOMAIN eventQueue : e < eventQueue[j].num
        /\ Rising(Top.rest)
    BY <1>1, <1>6 DEF InTurn, DispatchOrder
  <2>2. \A i \in DOMAIN Top.rest : Top.rest[i].num \in Nat /\ (i = 1 \/ 1 < i)
    BY <1>1, <1>6, RestFacts
  <2> QED
    BY <1>6, <2>1, <2>2 DEF Rising
<1>14. QueueOrder'
  BY <1>7, <1>12, <1>13 DEF InTurn, QueueOrder, Rising
<1>15. DispatchOrder'
  BY <1>1, <1>4, <1>5, <1>7, <1>12, <1>13 DEF InTurn, DispatchOrder, Rising
<1>16. HeardHadItsTurn'
  <2> SUFFICES ASSUME NEW k \in DOMAIN listeners,
                      NEW h \in DOMAIN calledWith'[listeners[k].id],
                      calledWith'[listeners[k].id][h] = e
               PROVE  k < p \/ (k = p /\ l # NoListener)
    BY <1>4, <1>5, <1>7 DEF HeardHadItsTurn, HadItsTurn
  <2>1. l # NoListener
    BY NoListenerIsNone
  <2>2. CASE k # p
    <3>1. listeners[k].id \in Listeners \ {l}
      BY <1>2, <2>2, NamesOfListeners DEF ListenersOnce
    <3>2. HadItsTurn(k)
      BY <1>1, <1>8, <3>1 DEF InTurn, HeardHadItsTurn
    <3> QED
      BY <2>2, <3>2 DEF HadItsTurn
  <2> QED
    BY <2>1, <2>2
<1>17. Len(frames') <= 1
  BY <1>5 DEF InTurn
<1> QED
  BY <1>11, <1>14, <1>15, <1>16, <1>17 DEF InTurn

\* The next event of a flush follows what was heard of the one that is over.
LEMMA NextInTurn ==
  ASSUME EventTypes, InTurn, NextEvent
  PROVE  InTurn'
<1>1. frames # <<>> /\ Top.rest # <<>>
  BY DEF NextEvent, InTop
<1>2. PICK evs \in Seq(Evs) : evs = Tail(Top.rest)
  BY <1>1, RestFacts, HeadTailProperties
<1>3. /\ DOMAIN Top.rest = 1..Len(Top.rest) /\ Len(Top.rest) \in Nat
      /\ \A i \in DOMAIN Top.rest : Top.rest[i].num \in Nat
      /\ 1 \in DOMAIN Top.rest
  BY <1>1, RestFacts
<1>4. /\ DOMAIN evs = 1..(Len(Top.rest) - 1)
      /\ \A i \in DOMAIN evs : evs[i] = Top.rest[i + 1]
  BY <1>1, <1>2, RestFacts, HeadTailProperties, LenProperties
<1>5. \A i \in DOMAIN evs : i \in Nat /\ i + 1 \in DOMAIN Top.rest /\ 1 < i + 1
  BY <1>3, <1>4
<1>6. frames' # <<>> /\ Top' = Frame(evs) /\ Len(frames') = Len(frames)
  <2>1. Retop(Frame(evs))
    BY <1>2 DEF NextEvent
  <2>2. Frame(evs) \in Flushes
    BY FrameTypes
  <2> QED
    BY <1>1, <2>1, <2>2, RetopTypes
<1>7. Frame(evs).rest = evs
  BY FrameTypes
<1>8. UNCHANGED <<listeners, eventQueue, emitted, calledWith>>
  BY DEF NextEvent, Rest
<1>9. QueueOrder' /\ InQueueOrder' /\ Len(frames') <= 1
  BY <1>6, <1>8 DEF InTurn, QueueOrder, InQueueOrder, Rising
<1>10. DispatchOrder'
  <2>1. Rising(evs)
    <3>1. Rising(Top.rest)
      BY <1>1 DEF InTurn, DispatchOrder
    <3>2. \A i, j \in DOMAIN evs : i < j => i + 1 < j + 1
      BY <1>5
    <3> QED
      BY <1>4, <1>5, <3>1, <3>2 DEF Rising
  <2>2. ASSUME NEW i \in DOMAIN evs
        PROVE  /\ evs[i].num <= emitted
               /\ \A j \in DOMAIN eventQueue : evs[i].num < eventQueue[j].num
               /\ \A l \in Listeners : \A h \in DOMAIN calledWith[l] :
                    calledWith[l][h] <= evs[i].num
    BY <1>1, <1>4, <1>5 DEF InTurn, DispatchOrder
  <2> QED
    BY <1>6, <1>7, <1>8, <2>1, <2>2 DEF DispatchOrder, Rising
<1>11. HeardHadItsTurn'
  <2>1. ASSUME evs # <<>>, NEW k \in DOMAIN listeners,
               NEW h \in DOMAIN calledWith[listeners[k].id]
        PROVE  calledWith[listeners[k].id][h] # Head(evs).num
    <3>1. listeners[k].id \in Listeners
      BY NamesOfListeners
    <3>2. 1 \in DOMAIN evs /\ Head(evs) = evs[1]
      BY <2>1, EmptySeq, LenProperties, HeadTailProperties
    <3>3. calledWith[listeners[k].id][h] <= Top.rest[1].num
      BY <1>1, <1>3, <3>1 DEF InTurn, DispatchOrder
    <3>4. Top.rest[1].num < evs[1].num
      BY <1>1, <1>3, <1>4, <1>5, <3>2 DEF InTurn, DispatchOrder, Rising
    <3>5. calledWith[listeners[k].id][h] \in Nat /\ Top.rest[1].num \in Nat /\ evs[1].num \in Nat
      BY <1>3, <1>4, <1>5, <3>1, <3>2, SequenceFacts
    <3> QED
      BY <3>2, <3>3, <3>4, <3>5
  <2> QED
    BY <1>6, <1>7, <1>8, <2>1 DEF HeardHadItsTurn
<1> QED
  BY <1>9, <1>10, <1>11 DEF InTurn

LEMMA EndInTurn ==
  ASSUME EventTypes, InTurn, FlushEnds
  PROVE  InTurn'
<1>1. frames' = <<>> /\ Len(frames') <= 1
  <2>1. Len(frames) = 1
    <3>1. PICK n \in Nat \ {0} : n = Len(frames)
      BY TopTypes DEF FlushEnds
    <3>2. n <= 1
      BY <3>1 DEF InTurn
    <3> QED
      BY <3>1, <3>2
  <2>2. frames' \in Seq(Flushes) /\ Len(frames') = 0
    BY <2>1, FrontElements DEF EventTypes, FlushEnds
  <2> QED
    BY <2>2, EmptySeq
<1>2. UNCHANGED <<listeners, eventQueue, emitted, calledWith>>
  BY DEF FlushEnds, Rest
<1> QED
  BY <1>1, <1>2 DEF InTurn, QueueOrder, DispatchOrder, InQueueOrder, HeardHadItsTurn, Rising

LEMMA OrderKept ==
  ASSUME EventTypes, ListenersOnce, OrderInv, [EventsNext]_eventVars
  PROVE  OrderInv'
<1>1. callbackMay' = callbackMay
  BY DEF EventsNext, eventVars
<1>2. EventTypes'
  BY TypesKept
<1> SUFFICES ASSUME "set" \notin callbackMay PROVE InTurn'
  BY <1>1 DEF OrderInv
<1>3. InTurn
  BY DEF OrderInv
<1>4. CASE UNCHANGED eventVars \/ \E n \in Names : HostChanges(n)
  <2>1. UNCHANGED <<listeners, eventQueue, emitted, calledWith, frames>>
    BY <1>4 DEF HostChanges, eventVars, eventSteps
  <2> QED
    BY <1>3, <2>1 DEF InTurn, QueueOrder, DispatchOrder, InQueueOrder, HeardHadItsTurn,
                      HadItsTurn, Rising, Top
<1> QED
  BY <1>2, <1>3, <1>4, OnInTurn, OffInTurn, EmitInTurn, FlushInTurn, LoopInTurn, CallInTurn,
     NextInTurn, EndInTurn DEF EventsNext, EventsStep

LEMMA EventsInitInv == EventsInit => EventsInv
<1> SUFFICES ASSUME EventsInit PROVE EventsInv
  OBVIOUS
<1>1. EventTypes
  BY DefinedAreNames, EmptySeq DEF EventsInit, EventTypes
<1>2. Registered = {}
  BY DEF EventsInit, Registered
<1>3. ListenersOnce
  BY <1>2, FS_EmptySet DEF EventsInit, ListenersOnce
<1>4. WatchersCount
  BY <1>2 DEF EventsInit, WatchersCount, Counted, For
<1>5. InTurn
  BY EmptySeq DEF EventsInit, InTurn, QueueOrder, DispatchOrder, HeardHadItsTurn, InQueueOrder,
                  Rising
<1> QED
  BY <1>1, <1>3, <1>4, <1>5 DEF EventsInv, OrderInv

THEOREM EventsInvariant == EventsSpec => []EventsInv
<1>1. EventsInv /\ [EventsNext]_eventVars => EventsInv'
  BY TypesKept, OnceKept, CountKept, OrderKept DEF EventsInv
<1> QED
  BY <1>1, EventsInitInv, PTL DEF EventsSpec

\* A listener hears events in the order in which they were queued, each at
\* most once, in every program whose callbacks set no state (flushEvents).
THEOREM EventsAreHeardInOrder == EventsSpec => []InOrderUnlessSet
<1>1. EventsInv => InOrderUnlessSet
  BY DEF EventsInv, OrderInv, InTurn, InOrderUnlessSet
<1> QED
  BY <1>1, EventsInvariant, PTL

\* A listener that was registered for an existing state keeps the watcher of
\* the state alive, unless the name lost a listener that was never counted
\* (on, off).
THEOREM ListenersAreWatched == EventsSpec => []WatchedWhileListened
<1>1. EventsInv => WatchedWhileListened
  <2> SUFFICES ASSUME EventsInv, NEW k \in DOMAIN listeners,
                      listeners[k].id \in entitled, listeners[k].name \notin discounted
               PROVE  listeners[k].name \in DOMAIN watchers
    BY DEF WatchedWhileListened
  <2>1. listeners[k].name \in Names /\ listeners[k].id \in For(listeners[k].name)
    BY NamesOfListeners DEF EventsInv
  <2>2. listeners[k].id \in Counted(listeners[k].name)
    BY <2>1 DEF Counted
  <2> QED
    BY <2>1, <2>2 DEF EventsInv, WatchersCount
<1> QED
  BY <1>1, EventsInvariant, PTL

=============================================================================
