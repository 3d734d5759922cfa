------------------------- MODULE TaskScheduler_proofs -------------------------
(***************************************************************************)
(* Proofs about timers, frames and mutation observers, for any number of   *)
(* them, any delays and whatever scripts do in each other's callbacks: the *)
(* scheduler and the page's callbacks agree, what was cleared is never     *)
(* heard again, and no observer misses the frame.                          *)
(***************************************************************************)
EXTENDS TaskScheduler, TLAPS

\* Only an interval is repeated, and what has no timer yet is nowhere.
KindsOK ==
  /\ \A i \in Ids : every[i] > 0 => kind[i] = "interval"
  /\ \A i \in tasks : kind[i] \in {"timeout", "interval"}
  /\ \A i \in Elements(frames) \cup Elements(batch) : kind[i] = "frame"
  /\ \A i \in requeue : kind[i] = "interval"
  /\ \A i \in callbacks \cup cancelled : kind[i] # "none"
  /\ running # NoId => \/ at = "tasks" /\ kind[running] \in {"timeout", "interval"}
                       \/ at = "frames" /\ kind[running] = "frame"

\* A timer is in one place; one that was marked is not kept by the page, and one
\* that is out is not marked.
PlacesOK ==
  /\ requeue \cap (tasks \cup cancelled) = {}
  /\ running \notin tasks \cup requeue \cup Elements(frames) \cup cancelled
  /\ Elements(frames) \cap Elements(batch) = {}
  /\ callbacks \cap cancelled = {}

\* What a pass holds it has given back when it goes on.
StageOK ==
  /\ at # "tasks" => ready = {} /\ requeue = {}
  /\ at # "frames" => batch = <<>>

\* Records have a flush on its way.
FlushInv ==
  /\ records \subseteq scheduled
  /\ scheduled \subseteq Elements(micro)

TimerInv ==
  TypeOK /\ KindsOK /\ PlacesOK /\ StageOK /\ FlushInv /\ CallbacksMatchTimers

-----------------------------------------------------------------------------
(* Sequences.                                                              *)

LEMMA AppendElements ==
  ASSUME NEW S, NEW s \in Seq(S), NEW e \in S
  PROVE  /\ Append(s, e) \in Seq(S)
         /\ Elements(Append(s, e)) = Elements(s) \cup {e}
<1>1. /\ Append(s, e) \in Seq(S)
      /\ Len(Append(s, e)) = Len(s) + 1 /\ Append(s, e)[Len(s) + 1] = e
      /\ \A k \in 1..Len(s) : Append(s, e)[k] = s[k]
  OBVIOUS
<1>2. DOMAIN s = 1..Len(s) /\ DOMAIN Append(s, e) = 1..(Len(s) + 1) /\ Len(s) \in Nat
  OBVIOUS
<1>3. Elements(Append(s, e)) \subseteq Elements(s) \cup {e}
  BY <1>1, <1>2 DEF Elements
<1>4. Elements(s) \subseteq Elements(Append(s, e))
  BY <1>1, <1>2 DEF Elements
<1>5. e \in Elements(Append(s, e))
  BY <1>1, <1>2 DEF Elements
<1> QED
  BY <1>1, <1>3, <1>4, <1>5

LEMMA TailElements ==
  ASSUME NEW S, NEW s \in Seq(S), s # <<>>
  PROVE  /\ Head(s) \in S /\ Tail(s) \in Seq(S)
         /\ Elements(s) = {Head(s)} \cup Elements(Tail(s))
<1>1. /\ Len(s) \in Nat /\ Len(s) > 0 /\ DOMAIN s = 1..Len(s)
      /\ Head(s) = s[1] /\ Head(s) \in S
      /\ Tail(s) \in Seq(S) /\ DOMAIN Tail(s) = 1..(Len(s) - 1)
      /\ \A k \in 1..(Len(s) - 1) : Tail(s)[k] = s[k + 1]
  OBVIOUS
<1>2. Elements(Tail(s)) \subseteq Elements(s) /\ Head(s) \in Elements(s)
  BY <1>1 DEF Elements
<1>3. ASSUME NEW x \in Elements(s), x # Head(s)
      PROVE  x \in Elements(Tail(s))
  <2>1. PICK k \in 1..Len(s) : x = s[k]
    BY <1>1 DEF Elements
  <2>2. k - 1 \in 1..(Len(s) - 1) /\ Tail(s)[k - 1] = x
    BY <2>1, <1>1, <1>3
  <2> QED
    BY <2>2, <1>1 DEF Elements
<1> QED
  BY <1>1, <1>2, <1>3

LEMMA NoElements == Elements(<<>>) = {}
  BY DEF Elements

LEMMA ElementsOf ==
  ASSUME NEW S, NEW s \in Seq(S)
  PROVE  Elements(s) \subseteq S
  BY DEF Elements

-----------------------------------------------------------------------------
LEMMA InitTimerInv == Init => TimerInv
<1> SUFFICES ASSUME Init PROVE TimerInv
  OBVIOUS
<1>1. TypeOK
  <2>1. 0 \in 0..MaxDelay /\ 0 \in 0..MaxCalls
    BY TimerBounds
  <2>2. kind \in [Ids -> Kinds] /\ every \in [Ids -> 0..MaxDelay] /\ due \in [Ids -> 0..MaxDelay]
    BY <2>1 DEF Init, Kinds
  <2>3. frames \in Seq(Ids) /\ batch \in Seq(Ids) /\ micro \in Seq(Observers)
    BY DEF Init
  <2> QED
    BY <2>1, <2>2, <2>3 DEF Init, TypeOK
<1>2. KindsOK /\ PlacesOK /\ StageOK /\ FlushInv
  BY NamesAreApart, NoElements DEF Init, KindsOK, PlacesOK, StageOK, FlushInv
<1>3. CallbacksMatchTimers
  BY NoElements DEF Init, CallbacksMatchTimers, Queued
<1> QED
  BY <1>1, <1>2, <1>3 DEF TimerInv

-----------------------------------------------------------------------------
(* What a script does.                                                     *)

LEMMA ScriptType ==
  ASSUME TypeOK, Script
  PROVE  TypeOK'
<1> USE DEF TypeOK, passVars, observerVars, timerVars
<1>1. /\ calls' \in 0..MaxCalls
      /\ UNCHANGED <<ready, requeue, batch, running, flushing, at, down>>
  BY TimerBounds DEF Script, SetTimer, RequestAnimationFrame, Clear, Observe, Mutate,
     TakeRecords, Disconnect, Acts
<1>2. ASSUME NEW i \in Ids, NEW k \in {"timeout", "interval"}, NEW d \in 0..MaxDelay,
             SetTimer(i, k, d)
      PROVE  TypeOK'
  <2>1. kind' \in [Ids -> Kinds]
    BY <1>2 DEF SetTimer, Kinds
  <2>2. every' \in [Ids -> 0..MaxDelay] /\ due' \in [Ids -> 0..MaxDelay]
    BY <1>2, TimerBounds DEF SetTimer
  <2> QED
    BY <1>1, <1>2, <2>1, <2>2 DEF SetTimer
<1>3. ASSUME NEW i \in Ids, RequestAnimationFrame(i)
      PROVE  TypeOK'
  <2>1. kind' \in [Ids -> Kinds]
    BY <1>3 DEF RequestAnimationFrame, Kinds
  <2>2. frames' \in Seq(Ids)
    BY <1>3, AppendElements DEF RequestAnimationFrame
  <2> QED
    BY <1>1, <1>3, <2>1, <2>2 DEF RequestAnimationFrame
<1>4. ASSUME NEW i \in Ids, Clear(i)
      PROVE  TypeOK'
  BY <1>1, <1>4 DEF Clear, ClearTask, ReleaseTimerCallback
<1>5. ASSUME NEW o \in Observers, Observe(o) \/ TakeRecords(o) \/ Disconnect(o)
      PROVE  TypeOK'
  BY <1>1, <1>5 DEF Observe, TakeRecords, Disconnect
<1>6. ASSUME NEW o \in Observers, Mutate(o)
      PROVE  TypeOK'
  <2>1. micro' \in Seq(Observers)
    BY <1>6, AppendElements DEF Mutate
  <2> QED
    BY <1>1, <1>6, <2>1 DEF Mutate
<1> QED
  BY <1>2, <1>3, <1>4, <1>5, <1>6 DEF Script

\* QueueRecord posts a flush unless one is on its way; what takes the records
\* away takes the flag with them.
LEMMA ScriptFlushes ==
  ASSUME TypeOK, FlushInv, Script
  PROVE  FlushInv'
<1>1. ASSUME NEW o \in Observers, Mutate(o)
      PROVE  FlushInv'
  <2>1. CASE o \in scheduled
    BY <1>1, <2>1 DEF Mutate, FlushInv
  <2>2. CASE o \notin scheduled
    <3>1. Elements(micro') = Elements(micro) \cup {o}
      BY <1>1, <2>2, AppendElements DEF Mutate, TypeOK
    <3> QED
      BY <1>1, <3>1 DEF Mutate, FlushInv
  <2> QED
    BY <2>1, <2>2
<1>2. ASSUME NEW o \in Observers, Observe(o) \/ TakeRecords(o) \/ Disconnect(o)
      PROVE  FlushInv'
  BY <1>2 DEF Observe, TakeRecords, Disconnect, FlushInv
<1>3. ASSUME UNCHANGED observerVars
      PROVE  FlushInv'
  BY <1>3 DEF observerVars, FlushInv
<1> QED
  BY <1>1, <1>2, <1>3 DEF Script, SetTimer, RequestAnimationFrame, Clear

\* A script sets timers and frames that were not there before, and clears those it
\* has set, wherever they are by then.
LEMMA ScriptTimers ==
  ASSUME TimerInv, Script
  PROVE  KindsOK' /\ PlacesOK' /\ StageOK' /\ CallbacksMatchTimers'
<1> USE DEF TimerInv
<1>1. UNCHANGED <<ready, requeue, batch, running, at>>
  BY DEF Script, SetTimer, RequestAnimationFrame, Clear, Observe, Mutate, TakeRecords,
     Disconnect, Acts, passVars
<1>2. StageOK'
  BY <1>1 DEF StageOK
<1>3. ASSUME NEW i \in Ids, kind[i] = "none"
      PROVE  /\ i \notin tasks \cup requeue \cup Elements(frames) \cup Elements(batch)
             /\ i \notin cancelled \cup callbacks /\ i # running
  BY <1>3, NamesAreApart DEF KindsOK, TypeOK
<1>4. ASSUME NEW i \in Ids, NEW k \in {"timeout", "interval"}, NEW d \in 0..MaxDelay,
             SetTimer(i, k, d)
      PROVE  KindsOK' /\ PlacesOK' /\ CallbacksMatchTimers'
  <2>1. /\ kind[i] = "none"
        /\ kind' = [kind EXCEPT ![i] = k]
        /\ every' = [every EXCEPT ![i] = IF k = "interval" THEN d ELSE 0]
        /\ tasks' = tasks \cup {i} /\ callbacks' = callbacks \cup {i}
        /\ UNCHANGED <<frames, cancelled>>
    BY <1>4 DEF SetTimer
  <2>2. \A j \in Ids : j # i => kind'[j] = kind[j] /\ every'[j] = every[j]
    BY <2>1 DEF TypeOK
  <2>3. kind'[i] = k /\ (every'[i] > 0 => k = "interval")
    BY <2>1 DEF TypeOK
  <2>4. Elements(frames) \subseteq Ids /\ Elements(batch) \subseteq Ids
    BY ElementsOf DEF TypeOK
  <2>5. KindsOK'
    BY <1>1, <1>3, <2>1, <2>2, <2>3, <2>4 DEF KindsOK, TypeOK
  <2>6. PlacesOK'
    BY <1>1, <1>3, <2>1 DEF PlacesOK
  <2>7. \A j \in callbacks' : j \in Queued' \cup Out' \/ Spent(j)'
    BY <1>1, <1>3, <2>1, <2>2 DEF CallbacksMatchTimers, Queued, Out, Spent, TypeOK
  <2>8. \A j \in Queued' : j \in callbacks' \/ kind'[j] = "interval"
    BY <2>1, <2>2, <2>4 DEF CallbacksMatchTimers, Queued, TypeOK
  <2> QED
    BY <2>5, <2>6, <2>7, <2>8 DEF CallbacksMatchTimers
<1>5. ASSUME NEW i \in Ids, RequestAnimationFrame(i)
      PROVE  KindsOK' /\ PlacesOK' /\ CallbacksMatchTimers'
  <2>1. /\ kind[i] = "none"
        /\ kind' = [kind EXCEPT ![i] = "frame"]
        /\ Elements(frames') = Elements(frames) \cup {i} /\ callbacks' = callbacks \cup {i}
        /\ UNCHANGED <<every, tasks, cancelled>>
    BY <1>5, AppendElements DEF RequestAnimationFrame, TypeOK
  <2>2. \A j \in Ids : j # i => kind'[j] = kind[j]
    BY <2>1 DEF TypeOK
  <2>3. kind'[i] = "frame" /\ every[i] \in Nat /\ ~(every[i] > 0)
    BY <2>1, TimerBounds DEF TypeOK, KindsOK
  <2>4. Elements(frames) \subseteq Ids /\ Elements(batch) \subseteq Ids
    BY ElementsOf DEF TypeOK
  <2>5. KindsOK'
    BY <1>1, <1>3, <2>1, <2>2, <2>3, <2>4 DEF KindsOK, TypeOK
  <2>6. PlacesOK'
    BY <1>1, <1>3, <2>1 DEF PlacesOK
  <2>7. \A j \in callbacks' : j \in Queued' \cup Out' \/ Spent(j)'
    BY <1>1, <1>3, <2>1, <2>2 DEF CallbacksMatchTimers, Queued, Out, Spent, TypeOK
  <2>8. \A j \in Queued' : j \in callbacks' \/ kind'[j] = "interval"
    BY <2>1, <2>2, <2>4 DEF CallbacksMatchTimers, Queued, TypeOK
  <2> QED
    BY <2>5, <2>6, <2>7, <2>8 DEF CallbacksMatchTimers
<1>6. ASSUME NEW i \in Ids, Clear(i)
      PROVE  KindsOK' /\ PlacesOK' /\ CallbacksMatchTimers'
  <2>1. /\ kind[i] # "none"
        /\ cancelled' = cancelled \cup ({i} \cap (tasks \cup Elements(frames)))
        /\ callbacks' = callbacks \ {i}
        /\ UNCHANGED <<kind, every, tasks, frames>>
    BY <1>6 DEF Clear, ClearTask, ReleaseTimerCallback
  <2>2. KindsOK'
    BY <1>1, <2>1 DEF KindsOK
  <2>3. requeue \cap Elements(frames) = {}
    BY DEF KindsOK
  <2>4. PlacesOK'
    BY <1>1, <2>1, <2>3 DEF PlacesOK
  <2>5. CallbacksMatchTimers'
    BY <1>1, <2>1 DEF CallbacksMatchTimers, Queued, Out, Spent
  <2> QED
    BY <2>2, <2>4, <2>5
<1>7. ASSUME UNCHANGED timerVars
      PROVE  KindsOK' /\ PlacesOK' /\ CallbacksMatchTimers'
  BY <1>1, <1>7 DEF timerVars, KindsOK, PlacesOK, CallbacksMatchTimers, Queued, Out, Spent
<1> QED
  BY <1>2, <1>4, <1>5, <1>6, <1>7 DEF Script, Observe, Mutate, TakeRecords, Disconnect

-----------------------------------------------------------------------------
(* ProcessTasks.                                                           *)

LEMMA RequeueType ==
  ASSUME TypeOK, NEW i \in Ids, Requeue(i)
  PROVE  /\ requeue' \subseteq Ids /\ due' \in [Ids -> 0..MaxDelay]
         /\ requeue' = IF every[i] > 0 THEN requeue \cup {i} ELSE requeue
<1>1. CASE every[i] > 0
  <2>1. PICK d \in 0..every[i] : due' = [due EXCEPT ![i] = d]
    BY <1>1 DEF Requeue
  <2>2. d \in 0..MaxDelay
    BY TimerBounds DEF TypeOK
  <2> QED
    BY <1>1, <2>1, <2>2 DEF Requeue, TypeOK
<1>2. CASE ~(every[i] > 0)
  BY <1>2 DEF Requeue, TypeOK
<1> QED
  BY <1>1, <1>2

\* A task is taken out of the heap; it may be cancelled, called or called in vain.
LEMMA TaskTaken ==
  ASSUME TimerInv, NEW i \in Ids, SkipTask(i) \/ RunTask(i) \/ RunInVain(i)
  PROVE  TimerInv'
<1> USE DEF TimerInv
<1>1. /\ at = "tasks" /\ running = NoId /\ i \in ready /\ i \in tasks
      /\ ready' = ready \ {i} /\ tasks' = tasks \ {i} /\ batch = <<>>
      /\ UNCHANGED <<kind, every, frames, cancelled, callbacks, batch, at>>
      /\ UNCHANGED <<watching, records, scheduled, micro, flushing, calls, down>>
  BY DEF SkipTask, RunTask, RunInVain, observerVars, TypeOK, StageOK
<1>2. /\ i \notin requeue /\ i # NoId
      /\ i \notin Elements(frames) /\ Elements(batch) = {} /\ NoId \notin Ids
      /\ kind[i] \in {"timeout", "interval"}
  BY <1>1, NamesAreApart, NoElements DEF PlacesOK, KindsOK, TypeOK
<1>3. FlushInv'
  BY <1>1 DEF FlushInv
<1>4. StageOK'
  BY <1>1 DEF StageOK
<1>5. CASE SkipTask(i)
  <2>1. i \in cancelled /\ UNCHANGED <<due, requeue, running>>
    BY <1>5 DEF SkipTask
  <2>2. TypeOK'
    BY <1>1, <2>1 DEF TypeOK
  <2>3. KindsOK' /\ PlacesOK'
    BY <1>1, <2>1 DEF KindsOK, PlacesOK
  <2>4. CallbacksMatchTimers'
    BY <1>1, <2>1 DEF CallbacksMatchTimers, Queued, Out, Spent, PlacesOK
  <2> QED
    BY <1>3, <1>4, <2>2, <2>3, <2>4
<1>6. CASE RunTask(i)
  <2>1. /\ i \notin cancelled /\ i \in callbacks /\ running' = i
        /\ UNCHANGED <<due, requeue>>
    BY <1>6 DEF RunTask
  <2>2. TypeOK'
    BY <1>1, <2>1 DEF TypeOK
  <2>3. KindsOK' /\ PlacesOK'
    BY <1>1, <1>2, <2>1 DEF KindsOK, PlacesOK
  <2>4. CallbacksMatchTimers'
    BY <1>1, <1>2, <2>1 DEF CallbacksMatchTimers, Queued, Out, Spent, TypeOK
  <2> QED
    BY <1>3, <1>4, <2>2, <2>3, <2>4
<1>7. CASE RunInVain(i)
  <2>1. i \notin cancelled /\ i \notin callbacks /\ running' = running /\ Requeue(i)
    BY <1>7 DEF RunInVain
  <2>2. /\ requeue' \subseteq Ids /\ due' \in [Ids -> 0..MaxDelay]
        /\ requeue' = IF every[i] > 0 THEN requeue \cup {i} ELSE requeue
    BY <2>1, RequeueType
  <2>3. kind[i] = "interval"
    BY <1>1, <2>1 DEF CallbacksMatchTimers, Queued
  <2>4. TypeOK'
    BY <1>1, <2>1, <2>2 DEF TypeOK
  <2>5. KindsOK' /\ PlacesOK'
    BY <1>1, <1>2, <2>1, <2>2, <2>3 DEF KindsOK, PlacesOK
  <2>6. CallbacksMatchTimers'
    BY <1>1, <1>2, <2>1, <2>2 DEF CallbacksMatchTimers, Queued, Out, Spent, TypeOK
  <2> QED
    BY <1>3, <1>4, <2>4, <2>5, <2>6
<1> QED
  BY <1>5, <1>6, <1>7

\* A timeout's name goes with it; an interval waits to be queued again, but for one
\* of no length.
LEMMA TaskReturned ==
  ASSUME TimerInv, TaskReturns
  PROVE  TimerInv'
<1> USE DEF TimerInv
<1>1. /\ at = "tasks" /\ running # NoId /\ running \in Ids /\ running' = NoId
      /\ Requeue(running)
      /\ callbacks' = IF kind[running] = "interval" THEN callbacks ELSE callbacks \ {running}
      /\ UNCHANGED <<kind, every, tasks, frames, cancelled, ready, batch, at>>
      /\ UNCHANGED <<watching, records, scheduled, micro, flushing, calls, down>>
  BY DEF TaskReturns, Release, observerVars, TypeOK
<1>2. /\ requeue' \subseteq Ids /\ due' \in [Ids -> 0..MaxDelay]
      /\ requeue' = IF every[running] > 0 THEN requeue \cup {running} ELSE requeue
  BY <1>1, RequeueType
<1>3. /\ running \notin tasks \cup requeue \cup Elements(frames) \cup cancelled
      /\ every[running] > 0 => kind[running] = "interval"
      /\ every[running] \in Nat /\ NoId \notin Ids
  BY <1>1, NamesAreApart, TimerBounds DEF PlacesOK, KindsOK, TypeOK
<1>4. TypeOK'
  BY <1>1, <1>2 DEF TypeOK
<1>5. StageOK' /\ FlushInv'
  BY <1>1 DEF StageOK, FlushInv
<1>6. KindsOK'
  BY <1>1, <1>2, <1>3 DEF KindsOK
<1>7. NoId \notin tasks \cup requeue' \cup Elements(frames) \cup cancelled
  BY <1>2, <1>3, ElementsOf DEF TypeOK
<1>8. PlacesOK'
  BY <1>1, <1>2, <1>3, <1>7 DEF PlacesOK
<1>9. \A j \in callbacks' : j \in Queued' \cup Out' \/ Spent(j)'
  <2>1. ASSUME NEW j \in callbacks', j # running
        PROVE  j \in Queued' \cup Out' \/ Spent(j)'
    BY <1>1, <1>2, <2>1 DEF CallbacksMatchTimers, Queued, Out, Spent
  <2>2. ASSUME NEW j \in callbacks', j = running
        PROVE  j \in Queued' \cup Out' \/ Spent(j)'
    BY <1>1, <1>2, <1>3, <2>2 DEF Out, Spent
  <2> QED
    BY <2>1, <2>2
<1>10. \A j \in Queued' : j \in callbacks' \/ kind'[j] = "interval"
  BY <1>1, <1>3 DEF CallbacksMatchTimers, Queued
<1> QED
  BY <1>4, <1>5, <1>6, <1>8, <1>9, <1>10 DEF CallbacksMatchTimers

LEMMA TasksEnded ==
  ASSUME TimerInv, EndTasks
  PROVE  TimerInv'
<1> USE DEF TimerInv
<1>1. /\ at = "tasks" /\ at' = "micro1" /\ running = NoId /\ ready = {}
      /\ tasks' = tasks \cup requeue /\ requeue' = {}
      /\ UNCHANGED <<kind, every, due, frames, cancelled, callbacks, ready, batch, running>>
      /\ UNCHANGED <<watching, records, scheduled, micro, flushing, calls, down>>
  BY DEF EndTasks, observerVars
<1>2. TypeOK'
  BY <1>1 DEF TypeOK
<1>3. StageOK' /\ FlushInv'
  BY <1>1 DEF StageOK, FlushInv
<1>4. KindsOK'
  BY <1>1 DEF KindsOK
<1>5. PlacesOK'
  BY <1>1, NamesAreApart DEF PlacesOK, TypeOK
<1>6. \A j \in callbacks' : j \in Queued' \cup Out' \/ Spent(j)'
  <2>1. ASSUME NEW j \in callbacks', j \in requeue
        PROVE  j \in Queued'
    BY <1>1, <2>1 DEF PlacesOK, Queued
  <2>2. ASSUME NEW j \in callbacks', j \notin requeue
        PROVE  j \in Queued' \cup Out' \/ Spent(j)'
    BY <1>1, <2>2 DEF CallbacksMatchTimers, Queued, Out, Spent
  <2> QED
    BY <2>1, <2>2
<1>7. \A j \in Queued' : j \in callbacks' \/ kind'[j] = "interval"
  BY <1>1 DEF CallbacksMatchTimers, Queued, KindsOK
<1> QED
  BY <1>2, <1>3, <1>4, <1>5, <1>6, <1>7 DEF CallbacksMatchTimers

-----------------------------------------------------------------------------
(* Microtasks, frames and the other steps.                                 *)

LEMMA MicrotaskRun ==
  ASSUME TimerInv, RunMicrotask
  PROVE  TimerInv'
<1> USE DEF TimerInv
<1>1. /\ micro # <<>> /\ micro' = Tail(micro)
      /\ scheduled' = scheduled \ {Head(micro)} /\ records' = records \ {Head(micro)}
      /\ flushing' \in {Head(micro), NoObserver}
      /\ UNCHANGED <<timerVars, passVars, watching, at, calls, down>>
  BY DEF RunMicrotask, FlushRecords
<1>2. /\ Head(micro) \in Observers /\ micro' \in Seq(Observers)
      /\ Elements(micro) = {Head(micro)} \cup Elements(micro')
  BY <1>1, TailElements DEF TypeOK
<1>3. TypeOK'
  BY <1>1, <1>2 DEF TypeOK, timerVars, passVars
<1>4. FlushInv'
  BY <1>1, <1>2 DEF FlushInv
<1>5. KindsOK' /\ PlacesOK' /\ StageOK' /\ CallbacksMatchTimers'
  BY <1>1 DEF KindsOK, PlacesOK, StageOK, CallbacksMatchTimers, Queued, Out, Spent,
     timerVars, passVars
<1> QED
  BY <1>3, <1>4, <1>5

LEMMA FramesTaken ==
  ASSUME TimerInv, TakeFrames
  PROVE  TimerInv'
<1> USE DEF TimerInv
<1>1. /\ at = "update" /\ at' = "frames" /\ batch = <<>> /\ batch' = frames /\ frames' = <<>>
      /\ UNCHANGED <<kind, every, due, tasks, cancelled, callbacks, ready, requeue, running>>
      /\ UNCHANGED <<watching, records, scheduled, micro, flushing, calls, down>>
      /\ ready = {} /\ requeue = {} /\ running = NoId
  BY DEF TakeFrames, observerVars, StageOK, KindsOK
<1>2. Elements(frames') = {} /\ Elements(batch) = {}
  BY <1>1, NoElements
<1>3. TypeOK'
  BY <1>1 DEF TypeOK
<1>4. FlushInv' /\ StageOK'
  BY <1>1 DEF FlushInv, StageOK
<1>5. KindsOK' /\ PlacesOK'
  BY <1>1, <1>2 DEF KindsOK, PlacesOK
<1>6. CallbacksMatchTimers'
  BY <1>1, <1>2 DEF CallbacksMatchTimers, Queued, Out, Spent
<1> QED
  BY <1>3, <1>4, <1>5, <1>6

\* The frame at the head of the list is called unless it was cancelled or its name
\* was released.
LEMMA FrameRun ==
  ASSUME TimerInv, RunFrame
  PROVE  TimerInv'
<1> USE DEF TimerInv
<1> DEFINE i == Head(batch)
<1>1. /\ at = "frames" /\ running = NoId /\ batch # <<>> /\ batch' = Tail(batch)
      /\ running' = IF i \in callbacks \ cancelled THEN i ELSE NoId
      /\ UNCHANGED <<kind, every, due, tasks, frames, cancelled, callbacks, ready, requeue, at>>
      /\ UNCHANGED <<watching, records, scheduled, micro, flushing, calls, down>>
      /\ ready = {} /\ requeue = {}
  BY DEF RunFrame, observerVars, timerVars, StageOK
<1>2. /\ i \in Ids /\ batch' \in Seq(Ids)
      /\ Elements(batch) = {i} \cup Elements(batch')
  BY <1>1, TailElements DEF TypeOK
<1>3. kind[i] = "frame" /\ i \notin Elements(frames) /\ i \notin tasks
  BY <1>2 DEF KindsOK, PlacesOK
<1>4. TypeOK'
  BY <1>1, <1>2 DEF TypeOK
<1>5. FlushInv' /\ StageOK'
  BY <1>1 DEF FlushInv, StageOK
<1>6. KindsOK'
  BY <1>1, <1>2, <1>3 DEF KindsOK
<1>7. PlacesOK'
  BY <1>1, <1>2, <1>3 DEF PlacesOK
<1>8. \A j \in callbacks' : j \in Queued' \cup Out' \/ Spent(j)'
  <2>1. i \in callbacks => running' = i
    BY <1>1 DEF PlacesOK
  <2>2. NoId \notin callbacks
    BY NamesAreApart DEF TypeOK
  <2> QED
    BY <1>1, <1>2, <2>1, <2>2 DEF CallbacksMatchTimers, Queued, Out, Spent
<1>9. \A j \in Queued' : j \in callbacks' \/ kind'[j] = "interval"
  BY <1>1 DEF CallbacksMatchTimers, Queued
<1> QED
  BY <1>4, <1>5, <1>6, <1>7, <1>8, <1>9 DEF CallbacksMatchTimers

LEMMA FrameReturned ==
  ASSUME TimerInv, FrameReturns
  PROVE  TimerInv'
<1> USE DEF TimerInv
<1>1. /\ at = "frames" /\ running # NoId /\ running \in Ids /\ running' = NoId
      /\ kind[running] = "frame" /\ callbacks' = callbacks \ {running}
      /\ UNCHANGED <<kind, every, due, tasks, frames, cancelled, ready, requeue, batch, at>>
      /\ UNCHANGED <<watching, records, scheduled, micro, flushing, calls, down>>
  BY DEF FrameReturns, Release, observerVars, TypeOK, KindsOK
<1>2. NoId \notin tasks \cup requeue \cup Elements(frames) \cup cancelled
  BY NamesAreApart, ElementsOf DEF TypeOK
<1>3. TypeOK'
  BY <1>1 DEF TypeOK
<1>4. FlushInv' /\ StageOK'
  BY <1>1 DEF FlushInv, StageOK
<1>5. KindsOK' /\ PlacesOK'
  BY <1>1, <1>2 DEF KindsOK, PlacesOK
<1>6. CallbacksMatchTimers'
  BY <1>1 DEF CallbacksMatchTimers, Queued, Out, Spent, PlacesOK
<1> QED
  BY <1>3, <1>4, <1>5, <1>6

\* What only moves the pass on, reads the clock, lets time pass or ends the page.
LEMMA OtherSteps ==
  ASSUME TimerInv,
         \/ BeginPass \/ ReadClock \/ ObserverReturns \/ EndMicrotasks
         \/ EndFrames \/ EndPass \/ Tick \/ Shutdown \/ UNCHANGED vars
  PROVE  TimerInv'
<1> USE DEF TimerInv
<1>1. UNCHANGED observerVars
  BY DEF BeginPass, ReadClock, ObserverReturns, EndMicrotasks, EndFrames, EndPass, Tick,
     Shutdown, vars
<1>2. FlushInv'
  BY <1>1 DEF FlushInv, observerVars
<1>3. CASE BeginPass \/ ObserverReturns \/ EndMicrotasks \/ EndFrames \/ EndPass \/ UNCHANGED vars
  <2>1. UNCHANGED <<timerVars, passVars, down>>
    BY <1>3 DEF BeginPass, ObserverReturns, EndMicrotasks, EndFrames, EndPass, vars
  <2>2. /\ at' # at => running = NoId /\ (at = "frames" => batch = <<>>) /\ at # "tasks"
        /\ at' \in {"idle", "events", "tasks", "micro1", "update", "frames", "jobs",
                   "micro2", "animate"}
    BY <1>3 DEF BeginPass, ObserverReturns, EndMicrotasks, EndFrames, EndPass, vars, KindsOK, TypeOK
  <2>3. calls' \in 0..MaxCalls /\ flushing' \in Observers \cup {NoObserver}
    BY <1>3, TimerBounds DEF BeginPass, ObserverReturns, EndMicrotasks, EndFrames, EndPass,
       vars, TypeOK
  <2>4. TypeOK'
    BY <1>1, <2>1, <2>2, <2>3 DEF TypeOK, timerVars, passVars, observerVars
  <2>5. KindsOK' /\ PlacesOK' /\ StageOK'
    BY <2>1, <2>2 DEF KindsOK, PlacesOK, StageOK, timerVars, passVars
  <2>6. CallbacksMatchTimers'
    BY <2>1 DEF CallbacksMatchTimers, Queued, Out, Spent, timerVars, passVars
  <2> QED
    BY <1>2, <2>4, <2>5, <2>6
<1>4. CASE ReadClock
  <2>1. /\ at = "events" /\ at' = "tasks" /\ ready' = {i \in tasks : due[i] = 0}
        /\ running = NoId
        /\ UNCHANGED <<timerVars, requeue, batch, running, observerVars, flushing, calls, down>>
    BY <1>4 DEF ReadClock, KindsOK
  <2>2. TypeOK' /\ StageOK'
    BY <2>1 DEF TypeOK, StageOK, timerVars, observerVars
  <2>3. KindsOK' /\ PlacesOK' /\ CallbacksMatchTimers'
    BY <2>1 DEF KindsOK, PlacesOK, CallbacksMatchTimers, Queued, Out, Spent, timerVars
  <2> QED
    BY <1>2, <2>2, <2>3
<1>5. CASE Tick
  <2>1. /\ due' = [i \in Ids |-> IF due[i] = 0 THEN 0 ELSE due[i] - 1]
        /\ UNCHANGED <<kind, every, tasks, frames, cancelled, callbacks, passVars,
                       observerVars, flushing, at, calls, down>>
    BY <1>5 DEF Tick
  <2>2. due' \in [Ids -> 0..MaxDelay]
    BY <2>1, TimerBounds DEF TypeOK
  <2>3. TypeOK' /\ StageOK'
    BY <2>1, <2>2 DEF TypeOK, StageOK, passVars, observerVars
  <2>4. KindsOK' /\ PlacesOK' /\ CallbacksMatchTimers'
    BY <2>1 DEF KindsOK, PlacesOK, CallbacksMatchTimers, Queued, Out, Spent, passVars
  <2> QED
    BY <1>2, <2>3, <2>4
<1>6. CASE Shutdown
  <2>1. /\ at = "idle" /\ down' = TRUE /\ tasks' = {} /\ frames' = <<>> /\ callbacks' = {}
        /\ running = NoId /\ ready = {} /\ requeue = {} /\ batch = <<>>
        /\ UNCHANGED <<kind, every, due, cancelled, passVars, observerVars,
                       flushing, at, calls>>
    BY <1>6 DEF Shutdown, KindsOK, StageOK
  <2>2. TypeOK' /\ StageOK'
    BY <2>1 DEF TypeOK, StageOK, passVars, observerVars
  <2>3. KindsOK' /\ PlacesOK' /\ CallbacksMatchTimers'
    BY <2>1, NoElements DEF KindsOK, PlacesOK, CallbacksMatchTimers, Queued, passVars
  <2> QED
    BY <1>2, <2>2, <2>3
<1> QED
  BY <1>3, <1>4, <1>5, <1>6

-----------------------------------------------------------------------------
(* The theorems.                                                           *)

LEMMA NextTimerInv == TimerInv /\ [Next]_vars => TimerInv'
<1> SUFFICES ASSUME TimerInv, [Next]_vars PROVE TimerInv'
  OBVIOUS
<1>1. CASE Script
  BY <1>1, ScriptType, ScriptFlushes, ScriptTimers DEF TimerInv
<1>2. CASE PassStep
  BY <1>2, TaskTaken, TaskReturned, TasksEnded, MicrotaskRun, FramesTaken, FrameRun,
     FrameReturned, OtherSteps DEF PassStep
<1>3. CASE BeginPass \/ Tick \/ Shutdown \/ UNCHANGED vars
  BY <1>3, OtherSteps
<1> QED
  BY <1>1, <1>2, <1>3 DEF Next

\* Types, and the place of every timer, frame and record.
THEOREM TimersKeepTheirPlaces == Spec => []TimerInv
<1> QED
  BY InitTimerInv, NextTimerInv, PTL DEF Spec

\* The scheduler and the page's callbacks agree, for any number of timers, delays
\* and calls.
THEOREM TheBooksAgree == Spec => []CallbacksMatchTimers
<1>1. TimerInv => CallbacksMatchTimers
  BY DEF TimerInv
<1> QED
  BY <1>1, TimersKeepTheirPlaces, PTL

\* No observer misses the frame: when microtasks are over none has records.
THEOREM NobodyMissesTheFrame == Spec => ObserversKeepUp
<1>1. TimerInv /\ [Next]_vars => [at' = "animate" /\ at # "animate" => records' = {}]_vars
  <2> SUFFICES ASSUME TimerInv, Next, at' = "animate", at # "animate"
               PROVE  records' = {}
    OBVIOUS
  <2>1. ~Script
    BY DEF Script, SetTimer, RequestAnimationFrame, Clear, Observe, Mutate, TakeRecords,
       Disconnect, Acts
  <2>2. EndMicrotasks
    BY <2>1 DEF Next, PassStep, BeginPass, Tick, Shutdown, ReadClock, TaskReturns, EndTasks,
       SkipTask, RunTask, RunInVain, RunMicrotask, ObserverReturns, TakeFrames, RunFrame,
       FrameReturns, EndFrames, EndPass
  <2> QED
    BY <2>2, NoElements DEF EndMicrotasks, observerVars, TimerInv, FlushInv
<1> QED
  BY <1>1, TimersKeepTheirPlaces, PTL DEF Spec, ObserversKeepUp

\* A callback that was cleared, or has been called for the last time, is not called
\* again, wherever its timer was when that happened: the page cannot tell that the
\* scheduler still holds it (ReleaseTimerCallback).
Silent(i) == kind[i] # "none" /\ i \notin callbacks
ClearedIsNotHeard ==
  [][\A i \in Ids : Silent(i) => Silent(i)' /\ (running' = i => running = i)]_vars

THEOREM WhatIsClearedIsNotHeard == Spec => ClearedIsNotHeard
<1>1. TimerInv /\ [Next]_vars =>
        [\A i \in Ids : Silent(i) => Silent(i)' /\ (running' = i => running = i)]_vars
  <2> SUFFICES ASSUME TimerInv, Next, NEW i \in Ids, Silent(i)
               PROVE  Silent(i)' /\ (running' = i => running = i)
    OBVIOUS
  <2> USE DEF TimerInv, Silent
  <2>1. CASE Script
    <3>1. running' = running
      BY <2>1 DEF Script, SetTimer, RequestAnimationFrame, Clear, Observe, Mutate, TakeRecords,
         Disconnect, Acts, passVars
    <3>2. \/ kind' = kind /\ callbacks' \subseteq callbacks
          \/ \E j \in Ids :
               /\ kind[j] = "none"
               /\ \E k \in {"timeout", "interval", "frame"} : kind' = [kind EXCEPT ![j] = k]
               /\ callbacks' = callbacks \cup {j}
      BY <2>1 DEF Script, SetTimer, RequestAnimationFrame, Clear, ReleaseTimerCallback, Observe,
         Mutate, TakeRecords, Disconnect, timerVars
    <3> QED
      BY <3>1, <3>2 DEF TypeOK
  <2>2. CASE ~Script
    <3>1. kind' = kind /\ callbacks' \subseteq callbacks
      BY <2>2 DEF Next, PassStep, BeginPass, Tick, Shutdown, ReadClock, TaskReturns, EndTasks,
         SkipTask, RunTask, RunInVain, RunMicrotask, ObserverReturns, EndMicrotasks, TakeFrames,
         RunFrame, FrameReturns, EndFrames, EndPass, Release, timerVars
    <3>2. running' \in {running, NoId} \cup callbacks
      BY <2>2 DEF Next, PassStep, BeginPass, Tick, Shutdown, ReadClock, TaskReturns, EndTasks,
         SkipTask, RunTask, RunInVain, RunMicrotask, ObserverReturns, EndMicrotasks, TakeFrames,
         RunFrame, FrameReturns, EndFrames, EndPass, passVars
    <3> QED
      BY <3>1, <3>2, NamesAreApart
  <2> QED
    BY <2>1, <2>2
<1> QED
  BY <1>1, TimersKeepTheirPlaces, PTL DEF Spec, ClearedIsNotHeard
=============================================================================
