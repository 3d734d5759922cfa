--------------------------- MODULE MainThreadQueue --------------------------
(***************************************************************************)
(* core/bridge/main_thread_queue.h: any thread posts functions, the main   *)
(* thread takes them all at once and runs them one after the other outside *)
(* the mutex.  A function may itself flush (a DevTools task that takes a   *)
(* snapshot does), so flushes nest: a frame per flush in progress, the     *)
(* innermost last.  What a function does belongs to the modules that post. *)
(***************************************************************************)
EXTENDS Naturals, Sequences, SequencesExt

CONSTANTS
  Fns,        \* what is posted
  NoFn,       \* the frame is between two functions
  MaxQueue,   \* bound: functions waiting
  MaxNesting  \* bound: flushes in progress

ASSUME NoFnIsNoFn == NoFn \notin Fns
ASSUME QueueBounds == MaxQueue \in Nat /\ MaxNesting \in Nat

VARIABLES
  queue,  \* queue_
  frames  \* the flushes in progress: what runs, and what is left of batch

mtqVars == <<queue, frames>>

Flushing == frames # <<>>
Top == Last(frames)

\* The posted functions that have not started, the oldest first.
Unstarted == FlattenSeq([i \in DOMAIN frames |-> frames[i].rest]) \o queue
Waiting == ToSet(queue) \cup UNION {ToSet(frames[i].rest) : i \in DOMAIN frames}

QueueTypeOK ==
  /\ queue \in Seq(Fns) /\ Len(queue) <= MaxQueue
  /\ Len(frames) <= MaxNesting
  /\ \A i \in DOMAIN frames :
       frames[i].fn \in Fns \cup {NoFn} /\ frames[i].rest \in Seq(Fns)

QueueInit ==
  /\ queue = <<>>
  /\ frames = <<>>

\* Mutant: the newest function goes first.
PostFn_Front(fn) ==
  /\ Len(queue) < MaxQueue
  /\ queue' = <<fn>> \o queue
  /\ UNCHANGED frames

\* post, without the wake call that follows it outside the mutex.
PostFn(fn) ==
  /\ Len(queue) < MaxQueue
  /\ queue' = Append(queue, fn)
  /\ UNCHANGED frames

\* flush swaps the queue with an empty batch; a function may call it.
FlushTakes ==
  /\ Flushing => Top.fn # NoFn
  /\ Len(frames) < MaxNesting
  /\ frames' = Append(frames, [fn |-> NoFn, rest |-> queue])
  /\ queue' = <<>>

Starts(fn) ==
  /\ Flushing
  /\ Top.fn = NoFn /\ Top.rest # <<>> /\ fn = Head(Top.rest)
  /\ frames' = Append(Front(frames), [fn |-> fn, rest |-> Tail(Top.rest)])
  /\ UNCHANGED queue

\* A function that runs to its end with nothing of the main thread in between.
Runs(fn) ==
  /\ Flushing
  /\ Top.fn = NoFn /\ Top.rest # <<>> /\ fn = Head(Top.rest)
  /\ frames' = Append(Front(frames), [Top EXCEPT !.rest = Tail(@)])
  /\ UNCHANGED queue

Returns(fn) ==
  /\ Flushing
  /\ Top.fn = fn
  /\ frames' = Append(Front(frames), [Top EXCEPT !.fn = NoFn])
  /\ UNCHANGED queue

FlushEnds ==
  /\ Flushing
  /\ Top.fn = NoFn /\ Top.rest = <<>>
  /\ frames' = Front(frames)
  /\ UNCHANGED queue
=============================================================================
