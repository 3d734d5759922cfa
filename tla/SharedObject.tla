---------------------------- MODULE SharedObject ----------------------------
(***************************************************************************)
(* A shared object (SharedObjectData in core/api/mblink.cpp, the proxies   *)
(* of js/runtime/bootstrap.js): the properties live twice, in data_, which *)
(* native threads read and write under a mutex, and in a JS object that    *)
(* only the main thread touches.  A native write on another thread posts   *)
(* its JS half to the main thread's queue; a script's write goes to the JS *)
(* object first and to data_ after.  Every change names its key to the     *)
(* page, which renders in a microtask.                                     *)
(*                                                                         *)
(* Absent stands for a deleted property.  Main-thread code does not        *)
(* interleave with itself; the other threads interleave with its steps.    *)
(***************************************************************************)
EXTENDS MainThreadQueue

CONSTANTS
  Keys, Vals, Absent,
  Workers,      \* host threads that call the setters
  MainThread,
  Script,       \* the page's scripts, as a writer
  Writing,      \* the sets of writers a program may have: threads and Script
  NoOp,         \* a thread is in no call
  MaxDepth      \* bound: nesting of batches

Values == Vals \cup {Absent}
Puts == [op : {"put"}, key : Keys, val : Values]
Ops == Puts \cup [op : {"begin", "end", "task"}]

ASSUME FnsAreOps == Fns = Ops
ASSUME AbsentIsNoValue == Absent \notin Vals
ASSUME MainIsNoWorker == MainThread \notin Workers
ASSUME WritersAreKnown ==
  Script \notin Workers \cup {MainThread}
  /\ \A ws \in Writing : ws \subseteq Workers \cup {MainThread, Script}
ASSUME NoOpIsNoOp == NoOp \notin Ops
ASSUME DepthIsNatural == MaxDepth \in Nat

VARIABLES
  writers,   \* who writes, the program's choice
  data,      \* data_
  js,        \* the properties of js_obj
  storing,   \* storing[t]: the put t has made in data_ and not handed on yet
  scripting, \* the put a script has made in js_obj and not in data_ yet
  notify,    \* pending_notify_
  keys,      \* pending_keys_
  batchDepth,\* batch_depth
  batched,   \* history: the keys changed in JS since the open batch began
  scheduled, \* the page's pendingKeys
  shown,     \* the values the page last rendered
  alive      \* *alive_

sides == <<data, js>>
calls == <<storing, scripting>>
notes == <<notify, keys, batchDepth, batched>>
page == <<scheduled, shown>>
sharedSteps == <<mtqVars, sides, calls, notes, page, alive>>
sharedVars == <<writers, sharedSteps>>

Natives == Workers \cup {MainThread}

SharedTypeOK ==
  /\ writers \in Writing
  /\ QueueTypeOK
  /\ data \in [Keys -> Values] /\ js \in [Keys -> Values] /\ shown \in [Keys -> Values]
  /\ storing \in [Natives -> Puts \cup {NoOp}]
  /\ scripting \in Puts \cup {NoOp}
  /\ notify \in BOOLEAN /\ keys \subseteq Keys
  /\ batchDepth \in 0..MaxDepth /\ batched \subseteq Keys
  /\ scheduled \subseteq Keys
  /\ alive \in BOOLEAN

SharedInit ==
  /\ writers \in Writing
  /\ QueueInit
  /\ data = [k \in Keys |-> Absent]
  /\ js = [k \in Keys |-> Absent]
  /\ shown = [k \in Keys |-> Absent]
  /\ storing = [t \in Natives |-> NoOp]
  /\ scripting = NoOp
  /\ notify = FALSE /\ keys = {}
  /\ batchDepth = 0 /\ batched = {}
  /\ scheduled = {}
  /\ alive = TRUE

\* The main thread may start something: it is in its loop, or in a DevTools
\* task, and in no half-done write.
MainIsFree ==
  /\ storing[MainThread] = NoOp /\ scripting = NoOp
  /\ Flushing => Top.fn # NoFn

Put(k, v) == [op |-> "put", key |-> k, val |-> v]

-----------------------------------------------------------------------------
(* Native writes: safeSetProperty, safeDeleteProperty *)

\* An equal value, or a property that is absent already, returns early.
Store(t, k, v) ==
  /\ alive /\ storing[t] = NoOp
  /\ t \in writers /\ (t = MainThread => MainIsFree)
  /\ data[k] # v
  /\ data' = [data EXCEPT ![k] = v]
  /\ storing' = [storing EXCEPT ![t] = Put(k, v)]
  /\ UNCHANGED <<mtqVars, js, scripting, notes, page, alive>>

\* Another thread leaves the JS half to the main thread.
PostPut(w) ==
  /\ w \in Workers /\ storing[w] # NoOp
  /\ PostFn(storing[w])
  /\ storing' = [storing EXCEPT ![w] = NoOp]
  /\ UNCHANGED <<sides, scripting, notes, page, alive>>

\* Mutant: a deletion does not tell the page.
ApplyToJS_SilentDelete(p) ==
  /\ js' = [js EXCEPT ![p.key] = p.val]
  /\ notify' = (notify \/ p.val # Absent)
  /\ keys' = IF p.val = Absent THEN keys ELSE keys \cup {p.key}
  /\ UNCHANGED <<data, batchDepth, batched>>

\* applyPropertyToJS or the deletion, and notifyUpdate.
ApplyToJS(p) ==
  /\ js' = [js EXCEPT ![p.key] = p.val]
  /\ notify' = TRUE
  /\ keys' = keys \cup {p.key}
  /\ batched' = IF batchDepth > 0 THEN batched \cup {p.key} ELSE batched
  /\ UNCHANGED <<data, batchDepth>>

ApplyOwnPut ==
  /\ storing[MainThread] # NoOp
  /\ ApplyToJS(storing[MainThread])
  /\ storing' = [storing EXCEPT ![MainThread] = NoOp]
  /\ UNCHANGED <<mtqVars, scripting, page, alive>>

\* The posted half of a put looks at the alive flags first.
RunPut(p) ==
  /\ p \in Puts /\ Runs(p)
  /\ \/ alive /\ ApplyToJS(p)
     \/ ~alive /\ UNCHANGED <<sides, notes>>
  /\ UNCHANGED <<calls, page, alive>>

-----------------------------------------------------------------------------
(* Script writes: the proxy's set and deleteProperty *)

ScriptPut(k, v) ==
  /\ Script \in writers /\ alive /\ MainIsFree
  /\ js' = [js EXCEPT ![k] = v]
  /\ scripting' = Put(k, v)
  /\ UNCHANGED <<mtqVars, data, storing, notes, page, alive>>

\* __mblinkSharedNativeSet or Delete; the page is scheduled if data_ changed.
ScriptStores ==
  /\ scripting # NoOp
  /\ scripting' = NoOp
  /\ \/ /\ data[scripting.key] # scripting.val
        /\ data' = [data EXCEPT ![scripting.key] = scripting.val]
        /\ scheduled' = scheduled \cup {scripting.key}
     \/ /\ data[scripting.key] = scripting.val
        /\ UNCHANGED <<data, scheduled>>
  /\ UNCHANGED <<mtqVars, js, storing, notes, shown, alive>>

-----------------------------------------------------------------------------
(* Batches, from a worker and on the main thread *)

\* MaxDepth bounds the batches begun and about to begin.
MayBegin == batchDepth + Len(SelectSeq(Unstarted, LAMBDA f : f.op = "begin")) < MaxDepth

PostBatchCall(w, op) ==
  /\ w \in writers /\ alive /\ storing[w] = NoOp
  /\ op = "begin" => MayBegin
  /\ PostFn([op |-> op])
  /\ UNCHANGED <<sides, calls, notes, page, alive>>

BatchBegin == batchDepth' = batchDepth + 1 /\ UNCHANGED <<notify, keys, batched>>

\* The outermost end flushes the batch: what waits is marked for the page.
BatchEnd ==
  \/ /\ batchDepth > 0
     /\ batchDepth' = batchDepth - 1
     /\ notify' = (notify \/ (batchDepth = 1 /\ keys # {}))
     /\ batched' = IF batchDepth = 1 THEN {} ELSE batched
     /\ UNCHANGED keys
  \/ batchDepth = 0 /\ UNCHANGED notes

BatchCall(op) ==
  /\ alive /\ MainIsFree /\ MainThread \in writers
  /\ (op = "begin" /\ MayBegin /\ BatchBegin) \/ (op = "end" /\ BatchEnd)
  /\ UNCHANGED <<mtqVars, sides, calls, page, alive>>

RunBatchCall(op) ==
  /\ Runs([op |-> op])
  /\ \/ alive /\ ((op = "begin" /\ BatchBegin) \/ (op = "end" /\ BatchEnd))
     \/ ~alive /\ UNCHANGED notes
  /\ UNCHANGED <<sides, calls, page, alive>>

-----------------------------------------------------------------------------
(* The main thread's loop; a DevTools task; the end of the object *)

MainFlushes ==
  /\ MainIsFree /\ FlushTakes
  /\ UNCHANGED <<sides, calls, notes, page, alive>>

MainFlushEnds ==
  /\ FlushEnds
  /\ UNCHANGED <<sides, calls, notes, page, alive>>

PostTask ==
  /\ PostFn([op |-> "task"])
  /\ UNCHANGED <<sides, calls, notes, page, alive>>

TaskStarts ==
  /\ Starts([op |-> "task"])
  /\ UNCHANGED <<sides, calls, notes, page, alive>>

TaskReturns ==
  /\ MainIsFree /\ Returns([op |-> "task"])
  /\ UNCHANGED <<sides, calls, notes, page, alive>>

\* flushPendingNotify: the page's dispatcher schedules the keys.
FlushNotify ==
  /\ alive /\ MainIsFree /\ notify
  /\ notify' = FALSE
  /\ keys' = {}
  /\ scheduled' = scheduled \cup keys
  /\ UNCHANGED <<mtqVars, sides, calls, batchDepth, batched, shown, alive>>

\* The microtask schedule defers: the roots that read a changed key render.
Render ==
  /\ MainIsFree /\ scheduled # {}
  /\ shown' = [k \in Keys |-> IF k \in scheduled THEN js[k] ELSE shown[k]]
  /\ scheduled' = {}
  /\ UNCHANGED <<mtqVars, sides, calls, notes, alive>>

\* mblink_shared_destroy, when no thread is in a call on the handle.
Destroy ==
  /\ alive /\ MainIsFree
  /\ \A t \in Natives : storing[t] = NoOp
  /\ alive' = FALSE
  /\ UNCHANGED <<mtqVars, sides, calls, notes, page>>

-----------------------------------------------------------------------------
RunFn == (\E p \in Puts : RunPut(p)) \/ (\E op \in {"begin", "end"} : RunBatchCall(op))

MainStep ==
  \/ ApplyOwnPut \/ ScriptStores
  \/ RunFn \/ TaskStarts \/ TaskReturns \/ MainFlushEnds
  \/ FlushNotify \/ Render

SharedStep ==
  \/ \E t \in Natives, k \in Keys, v \in Values : Store(t, k, v)
  \/ \E k \in Keys, v \in Values : ScriptPut(k, v)
  \/ \E w \in Workers : PostPut(w) \/ (\E op \in {"begin", "end"} : PostBatchCall(w, op))
  \/ \E op \in {"begin", "end"} : BatchCall(op)
  \/ MainFlushes \/ PostTask \/ MainStep \/ Destroy

SharedNext == SharedStep /\ UNCHANGED writers

\* A thread in a call finishes it; the main thread's loop flushes again and
\* again, and runs the page's microtasks.
SharedFairness ==
  /\ \A w \in Workers : SF_sharedSteps(PostPut(w))
  /\ WF_sharedSteps(RunFn \/ TaskStarts \/ MainFlushEnds) /\ WF_sharedSteps(ApplyOwnPut) /\ WF_sharedSteps(ScriptStores)
  /\ SF_sharedSteps(TaskReturns)
  /\ SF_sharedSteps(~Flushing /\ MainFlushes) /\ SF_sharedSteps(FlushNotify) /\ SF_sharedSteps(Render)

SharedSpec == SharedInit /\ [][SharedNext]_sharedVars /\ SharedFairness

-----------------------------------------------------------------------------
(* Properties *)

\* A put of k is on its way from one side to the other.
InFlight(k) ==
  \/ \E t \in Natives : storing[t] # NoOp /\ storing[t].key = k
  \/ scripting # NoOp /\ scripting.key = k
  \/ \E p \in Waiting \cap Puts : p.key = k

\* Host and page share one object (mblink.h 422-430): when nothing is on its
\* way, both sides have the same value.
SidesAgree == alive => \A k \in Keys : data[k] = js[k] \/ InFlight(k)

\* A batch suppresses the update calls for what is changed in it until it ends,
\* as its section's heading says (mblink.h 485).
BatchHoldsBack == [][keys # {} /\ keys' = {} => batched = {}]_sharedSteps

\* When the writers fall silent the page shows what the host stored.
PageCatchesUp ==
  <>[](scripting = NoOp /\ \A t \in Natives : storing[t] = NoOp)
    => <>[](~alive \/ shown = data)
=============================================================================
