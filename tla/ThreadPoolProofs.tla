--------------------------- MODULE ThreadPoolProofs ---------------------------
(***************************************************************************)
(* The inductive invariant of ThreadPool and what follows from it, for     *)
(* every set of workers and every bound on the calls and their counts.     *)
(***************************************************************************)
EXTENDS ThreadPool, FiniteSetTheorems, TLAPS

\* The tasks outstanding_ counts, worker w's own left out.
Others(w) ==
    (nextIndex .. taskCount - 1)
        \cup {index[v] : v \in {u \in Workers : InFlight(u) /\ u # w}}

------------------------------------------------------------------------------
\* Lemmas about the state.

\* The set that outstanding_ counts is a finite set of task numbers.
LEMMA UncountedFinite ==
    ASSUME TypeOK
    PROVE  /\ Uncounted \subseteq Indices
           /\ IsFiniteSet(Uncounted)
<1>1. Uncounted \subseteq Indices
  BY PoolAssumption DEF TypeOK, Uncounted, Indices
<1>2. IsFiniteSet(Indices)
  BY PoolAssumption, FS_Interval DEF Indices
<1> QED
  BY <1>1, <1>2, FS_Subset

\* What a worker in flight holds is counted, so the count is not zero.
LEMMA InFlightCounted ==
    ASSUME TypeOK, OutstandingExact,
           NEW w \in Workers, InFlight(w)
    PROVE  /\ index[w] \in Uncounted
           /\ outstanding > 0
<1>1. index[w] \in Uncounted
  BY DEF Uncounted
<1>2. Uncounted # {} /\ IsFiniteSet(Uncounted)
  BY <1>1, UncountedFinite
<1>3. Cardinality(Uncounted) # 0
  BY <1>2, FS_EmptySet
<1> QED
  BY <1>1, <1>3 DEF OutstandingExact, TypeOK

\* When nothing is outstanding every index was handed out and no worker has one.
LEMMA NothingOutstanding ==
    ASSUME TypeOK, OutstandingExact, outstanding = 0
    PROVE  /\ Uncounted = {}
           /\ taskCount <= nextIndex
           /\ \A w \in Workers : ~InFlight(w)
<1>1. IsFiniteSet(Uncounted) /\ Cardinality(Uncounted) = 0
  BY UncountedFinite DEF OutstandingExact
<1>2. Uncounted = {}
  BY <1>1, FS_EmptySet
<1>3. (nextIndex .. taskCount - 1) = {}
  BY <1>2 DEF Uncounted
<1>4. taskCount <= nextIndex
  BY <1>3 DEF TypeOK
<1>5. \A w \in Workers : ~InFlight(w)
  BY <1>2, InFlightCounted
<1> QED
  BY <1>2, <1>4, <1>5

\* Taking w out of the count leaves Others(w); w's own index is not in it.
LEMMA UncountedSplit ==
    ASSUME TypeOK, Hands, NEW w \in Workers
    PROVE  /\ InFlight(w)  => /\ Others(w) = Uncounted \ {index[w]}
                              /\ index[w] \in Uncounted
           /\ ~InFlight(w) => Others(w) = Uncounted
<1>1. ASSUME InFlight(w)
      PROVE  Others(w) = Uncounted \ {index[w]} /\ index[w] \in Uncounted
  <2>1. index[w] \notin nextIndex .. taskCount - 1
    BY <1>1 DEF Hands, TypeOK
  <2>2. \A v \in Workers : InFlight(v) /\ v # w => index[v] # index[w]
    BY <1>1 DEF Hands
  <2> QED
    BY <1>1, <2>1, <2>2 DEF Others, Uncounted
<1>2. ASSUME ~InFlight(w)
      PROVE  Others(w) = Uncounted
  BY <1>2 DEF Others, Uncounted
<1> QED
  BY <1>1, <1>2

\* Whichever way the head of the loop goes, the tasks it leaves uncounted are
\* those of the other workers and those not handed out before it.
LEMMA LoopHeadUncounted ==
    ASSUME TypeOK, Shape, NEW w \in Workers,
           LoopHead(w), taskCount' = taskCount
    PROVE  Uncounted' = Others(w)
<1> DEFINE Held  == {index[v] : v \in {u \in Workers : InFlight(u) /\ u # w}}
           Held1 == {index'[v] : v \in {u \in Workers : InFlight(u)'}}
<1>1. Uncounted' = (nextIndex' .. taskCount - 1) \cup Held1
  BY DEF Uncounted
<1>2. Others(w) = (nextIndex .. taskCount - 1) \cup Held
  BY DEF Others
<1>3. \A u \in Workers : u # w => (InFlight(u)' <=> InFlight(u)) /\ index'[u] = index[u]
  BY DEF LoopHead, TypeOK, InFlight
<1>4. CASE ~stopping /\ HasWork
  <2>1. /\ nextIndex' = nextIndex + 1
        /\ index'[w] = nextIndex
        /\ InFlight(w)'
    BY <1>4 DEF LoopHead, TypeOK, InFlight
  <2>2. Held1 = Held \cup {nextIndex}
    BY <1>3, <2>1
  <2>3. (nextIndex .. taskCount - 1) = (nextIndex + 1 .. taskCount - 1) \cup {nextIndex}
    BY <1>4 DEF TypeOK, HasWork
  <2> QED
    BY <1>1, <1>2, <2>1, <2>2, <2>3
<1>5. CASE stopping \/ ~HasWork
  <2>1. nextIndex' = nextIndex /\ ~InFlight(w)'
    BY <1>5 DEF LoopHead, TypeOK, InFlight
  <2>2. Held1 = Held
    BY <1>3, <2>1
  <2> QED
    BY <1>1, <1>2, <2>1, <2>2
<1> QED
  BY <1>4, <1>5

------------------------------------------------------------------------------
\* The inductive invariant, one lemma for each kind of step.

\* Init establishes it.
LEMMA InitIInv == Init => IInv
<1> SUFFICES ASSUME Init PROVE IInv
  OBVIOUS
<1>1. TypeOK
  <2>1. 0 \in Indices /\ 0 \in 0 .. MaxTasks /\ 0 \in 0 .. MaxCalls
    BY PoolAssumption DEF Indices
  <2>2. /\ pc \in [Workers -> WorkerPCs]
        /\ index \in [Workers -> Indices]
        /\ fn \in [Workers -> 0 .. MaxCalls]
        /\ task \in [Indices -> {"todo", "running", "ok", "threw"}]
    BY <2>1 DEF Init, WorkerPCs, NoJob
  <2> QED
    BY <2>1, <2>2 DEF Init, TypeOK, NoJob, CallerPCs
<1>2. \A w \in Workers : pc[w] = "unborn"
  BY DEF Init
<1>3. Uncounted = {}
  BY <1>2 DEF Init, Uncounted, InFlight
<1>4. OutstandingExact
  BY <1>3, FS_EmptySet DEF Init, OutstandingExact
<1>5. Shape /\ Errors
  BY PoolAssumption DEF Init, Shape, Errors, InForEach, NoError, Indices
<1>6. Hands /\ History
  BY <1>2, PoolAssumption DEF Init, Hands, History, InFlight, Indices
<1>7. NoLostWakeup
  BY <1>2 DEF Init, NoLostWakeup
<1> QED
  BY <1>1, <1>4, <1>5, <1>6, <1>7 DEF IInv

\* The steps of the owner that leave the tasks alone: it starts a thread, notes
\* that all have started, fails to start one, sends a notification, sleeps,
\* wakes, stops the pool, joins the workers.
OwnerStep ==
    \/ \E w \in Workers : Spawn(w)
    \/ Constructed
    \/ SpawnFails
    \/ ForEachEmpty
    \/ NotifyWorkers
    \/ CallerSleeps
    \/ CallerWakesUnasked
    \/ BeginStop
    \/ NotifyStop
    \/ Join
    \/ \E w \in Workers : WorkerWakesUnasked(w)

\* The caller and the owner, where they change no field of the job.
LEMMA OwnerStepIInv ==
    ASSUME IInv, OwnerStep
    PROVE  IInv'
<1> USE DEF IInv
<1>1. /\ UNCHANGED <<job, nextIndex, taskCount, outstanding, firstError, index, fn,
                    calls, task>>
      /\ \A w \in Workers : InFlight(w)' <=> InFlight(w)
  BY DEF OwnerStep, Spawn, Constructed, SpawnFails, ForEachEmpty, NotifyWorkers,
         CallerSleeps, CallerWakesUnasked, BeginStop, NotifyStop, Join,
         WorkerWakesUnasked, shared, worker, owner, TypeOK, InFlight, WakeAll
<1>2. \A w \in Workers : InFlight(w)' \/ InFlight(w) => pc'[w] = pc[w]
  BY DEF OwnerStep, Spawn, Constructed, SpawnFails, ForEachEmpty, NotifyWorkers,
         CallerSleeps, CallerWakesUnasked, BeginStop, NotifyStop, Join,
         WorkerWakesUnasked, shared, worker, owner, TypeOK, InFlight, WakeAll
<1>3. Uncounted' = Uncounted
  BY <1>1 DEF Uncounted
<1>4. TypeOK'
  BY PoolAssumption
  DEF OwnerStep, Spawn, Constructed, SpawnFails, ForEachEmpty, NotifyWorkers,
      CallerSleeps, CallerWakesUnasked, BeginStop, NotifyStop, Join,
      WorkerWakesUnasked, shared, worker, owner, TypeOK, WakeAll, WorkerPCs,
      CallerPCs, InForEach, Gone, NoError, Indices
<1>5. Shape'
  BY <1>1
  DEF OwnerStep, Spawn, Constructed, SpawnFails, ForEachEmpty, NotifyWorkers,
      CallerSleeps, CallerWakesUnasked, BeginStop, NotifyStop, Join,
      WorkerWakesUnasked, shared, worker, owner, TypeOK, Shape, InForEach
<1>6. Hands'
  BY <1>1 DEF Hands
<1>7. OutstandingExact'
  BY <1>1, <1>3 DEF OutstandingExact
<1>8. History'
  BY <1>1, <1>2, <1>3 DEF History, InFlight
<1>9. Errors'
  BY <1>1, <1>2 DEF Errors, InFlight
<1>10. NoLostWakeup'
  BY DEF OwnerStep, Spawn, Constructed, SpawnFails, ForEachEmpty, NotifyWorkers,
         CallerSleeps, CallerWakesUnasked, BeginStop, NotifyStop, Join,
         WorkerWakesUnasked, shared, worker, owner, TypeOK, WakeAll, NoLostWakeup,
         HasWork, JobDone, Shape, InForEach
<1> QED
  BY <1>4, <1>5, <1>6, <1>7, <1>8, <1>9, <1>10

\* A job is published: nothing is handed out, everything is counted.
LEMMA ForEachIInv ==
    ASSUME IInv, NEW n \in 1 .. MaxTasks, ForEach(n)
    PROVE  IInv'
<1> USE DEF IInv
<1>1. \A w \in Workers : ~InFlight(w) /\ ~InFlight(w)' /\ pc'[w] = pc[w]
  BY DEF ForEach, worker, Shape, Hands, InForEach, InFlight, TypeOK, Indices
<1>2. TypeOK'
  BY PoolAssumption
  DEF ForEach, worker, TypeOK, Indices, NoError, CallerPCs, InForEach
<1>3. Uncounted' = 0 .. n - 1
  BY <1>1 DEF ForEach, Uncounted
<1>4. OutstandingExact'
  <2>1. Cardinality(0 .. n - 1) = n
    BY FS_Interval
  <2> QED
    BY <1>3, <2>1 DEF ForEach, OutstandingExact
<1>5. Shape'
  BY PoolAssumption
  DEF ForEach, Shape, TypeOK, NoJob, InForEach
<1>6. Hands' /\ History' /\ Errors'
  BY <1>1 DEF ForEach, Hands, History, Errors, InFlight, Indices
<1>7. NoLostWakeup'
  BY DEF ForEach, NoLostWakeup
<1> QED
  BY <1>2, <1>4, <1>5, <1>6, <1>7

\* A job is retired: nothing was left of it.
LEMMA CollectIInv ==
    ASSUME IInv, Collect
    PROVE  IInv'
<1> USE DEF IInv
<1>1. /\ Uncounted = {}
      /\ \A w \in Workers : ~InFlight(w) /\ ~InFlight(w)' /\ pc'[w] = pc[w]
  BY NothingOutstanding DEF Collect, JobDone, worker, InFlight
<1>2. TypeOK'
  BY PoolAssumption
  DEF Collect, worker, TypeOK, NoJob, NoError, CallerPCs
<1>3. Uncounted' = {}
  BY <1>1 DEF Collect, Uncounted
<1>4. OutstandingExact'
  BY <1>1, <1>3 DEF Collect, OutstandingExact
<1>5. Shape'
  BY DEF Collect, Shape, InForEach
<1>6. Hands' /\ History' /\ Errors'
  BY <1>1 DEF Collect, Hands, History, Errors, InFlight, TypeOK, Indices
<1>7. NoLostWakeup'
  BY DEF Collect, NoLostWakeup, HasWork, worker, Shape, InForEach
<1> QED
  BY <1>2, <1>4, <1>5, <1>6, <1>7

\* The head of the loop disturbs only the worker at it, its index and
\* nextIndex_; it cannot break the wake-up rule.
LEMMA LoopHeadFrame ==
    ASSUME IInv, NEW w \in Workers, LoopHead(w)
    PROVE  /\ pc' \in [Workers -> WorkerPCs]
           /\ index' \in [Workers -> Indices]
           /\ nextIndex' \in {nextIndex, nextIndex + 1}
           /\ nextIndex' <= taskCount
           /\ \A v \in Workers : v # w => pc'[v] = pc[v] /\ index'[v] = index[v]
           /\ pc'[w] \in {"exited", "taken", "asleep"}
           /\ pc'[w] = "taken" => /\ ~stopping /\ HasWork
                                  /\ index'[w] = nextIndex
                                  /\ nextIndex' = nextIndex + 1
           /\ pc'[w] # "taken" => nextIndex' = nextIndex
           /\ pc'[w] = "asleep" => ~stopping /\ ~HasWork
           /\ nextIndex' < taskCount => HasWork
<1>1. nextIndex \in Nat /\ taskCount \in Nat /\ taskCount <= MaxTasks /\ nextIndex <= taskCount
  BY DEF IInv, TypeOK, Shape
<1>2. HasWork => nextIndex \in Indices
  BY <1>1, PoolAssumption DEF HasWork, Indices
<1> QED
  BY <1>1, <1>2 DEF IInv, TypeOK, LoopHead, HasWork, WorkerPCs

\* A worker looks for work: what it takes moves from the queue to its hand.
LEMMA LookForWorkIInv ==
    ASSUME IInv, NEW w \in Workers, LookForWork(w)
    PROVE  IInv'
<1> USE DEF IInv
<1>1. /\ pc[w] = "ready" /\ ~InFlight(w)
      /\ LoopHead(w)
      /\ UNCHANGED <<job, taskCount, outstanding, firstError, stopping, fn, caller,
                    calls, error, task>>
  BY DEF LookForWork, InFlight, owner
<1>2. Uncounted' = Uncounted
  BY <1>1, LoopHeadUncounted, UncountedSplit
<1>3. TypeOK'
  <2>1. nextIndex' \in 0 .. MaxTasks
    BY <1>1, LoopHeadFrame, PoolAssumption DEF TypeOK
  <2> QED
    BY <1>1, <2>1, LoopHeadFrame DEF TypeOK
<1>4. Shape'
  BY <1>1, LoopHeadFrame DEF Shape
<1>5. Hands'
  <2>1. \A v \in Workers : v # w =>
           (InFlight(v)' <=> InFlight(v)) /\ index'[v] = index[v]
    BY <1>1, LoopHeadFrame DEF InFlight
  <2>2. \A v \in Workers : InFlight(v) => index[v] < nextIndex /\ index[v] \in Int
    BY DEF Hands, TypeOK, Indices
  <2>3. InFlight(w)' => index'[w] = nextIndex /\ nextIndex' = nextIndex + 1
    BY <1>1, LoopHeadFrame DEF InFlight
  <2>4. nextIndex \in Int /\ nextIndex' \in {nextIndex, nextIndex + 1}
    BY <1>1, LoopHeadFrame DEF TypeOK
  <2> QED
    BY <2>1, <2>2, <2>3, <2>4 DEF Hands
<1>6. OutstandingExact'
  BY <1>1, <1>2 DEF OutstandingExact
<1>7. History'
  <2>1. \A i \in Indices : nextIndex' <= i /\ i < taskCount' => task'[i] = "todo"
    BY <1>1, LoopHeadFrame, SMTT(30) DEF History, TypeOK, Indices
  <2>2. ASSUME NEW i \in Indices, i < nextIndex', i \notin Uncounted'
        PROVE  task'[i] \in {"ok", "threw"}
    <3>1. i # nextIndex \/ ~HasWork
      BY <1>2, <2>2 DEF Uncounted, HasWork, TypeOK
    <3>2. i < nextIndex
      BY <2>2, <3>1, LoopHeadFrame, <1>1 DEF TypeOK, Indices
    <3> QED
      BY <1>1, <1>2, <2>2, <3>2 DEF History
  <2>3. pc'[w] = "taken" => task'[index'[w]] = "todo"
    BY <1>1, LoopHeadFrame DEF History, HasWork, TypeOK, Indices
  <2> QED
    BY <1>1, <2>1, <2>2, <2>3, LoopHeadFrame DEF History
<1>8. Errors'
  <2>1. firstError' # NoError => firstError' < nextIndex' /\ task'[firstError'] = "threw"
    BY <1>1, LoopHeadFrame DEF Errors, TypeOK, Indices
  <2>2. ASSUME NEW i \in Indices, i < nextIndex', task'[i] = "threw", firstError' = NoError
        PROVE  \E v \in Workers : pc'[v] = "threw" /\ index'[v] = i
    <3>1. i < nextIndex
      BY <1>1, <2>2, LoopHeadFrame DEF History, HasWork, TypeOK, Indices
    <3>2. PICK v \in Workers : pc[v] = "threw" /\ index[v] = i
      BY <1>1, <2>2, <3>1 DEF Errors
    <3> QED
      BY <1>1, <3>2, LoopHeadFrame
  <2> QED
    BY <2>1, <2>2 DEF Errors
<1>9. NoLostWakeup'
  BY <1>1, LoopHeadFrame DEF NoLostWakeup, HasWork, JobDone
<1> QED
  BY <1>3, <1>4, <1>5, <1>6, <1>7, <1>8, <1>9

\* A worker calls fn, leaves it, or records its exception: no task changes hands.
LEMMA TaskStepIInv ==
    ASSUME IInv, NEW w \in Workers,
           Call(w) \/ TaskReturns(w) \/ TaskThrows(w) \/ RecordError(w)
    PROVE  IInv'
<1> USE DEF IInv
<1>1. /\ UNCHANGED <<job, nextIndex, taskCount, outstanding, stopping, index, caller, calls>>
      /\ InFlight(w) /\ InFlight(w)'
      /\ \A v \in Workers : v # w => pc'[v] = pc[v]
  BY DEF Call, TaskReturns, TaskThrows, RecordError, shared, owner, TypeOK, InFlight
<1>2. \A v \in Workers : InFlight(v)' <=> InFlight(v)
  BY <1>1 DEF InFlight
<1>3. Uncounted' = Uncounted
  BY <1>1, <1>2 DEF Uncounted
<1>4. TypeOK'
  BY DEF Call, TaskReturns, TaskThrows, RecordError, shared, owner, TypeOK, WorkerPCs
<1>5. Shape'
  <2>1. caller \in InForEach
    BY <1>1 DEF Hands, Shape, TypeOK, Indices
  <2> QED
    BY <1>1, <2>1 DEF Shape
<1>6. Hands'
  BY <1>1, <1>2 DEF Hands
<1>7. OutstandingExact'
  BY <1>1, <1>3 DEF OutstandingExact
<1>8. /\ index[w] < nextIndex /\ index[w] \in Indices /\ index[w] \in Uncounted
      /\ \A v \in Workers : InFlight(v) /\ v # w => index[v] # index[w]
  BY <1>1, InFlightCounted DEF Hands, TypeOK
<1>9. \A i \in Indices : i # index[w] => task'[i] = task[i]
  BY <1>8 DEF Call, TaskReturns, TaskThrows, RecordError, TypeOK
<1>10. History'
  <2>1. \A i \in Indices : nextIndex' <= i /\ i < taskCount' => task'[i] = "todo"
    BY <1>1, <1>8, <1>9 DEF History, TypeOK, Indices
  <2>2. \A i \in Indices : i < nextIndex' /\ i \notin Uncounted' => task'[i] \in {"ok", "threw"}
    BY <1>1, <1>3, <1>8, <1>9 DEF History
  <2>3. \A v \in Workers : v # w =>
          /\ fn'[v] = fn[v]
          /\ InFlight(v) => task'[index[v]] = task[index[v]]
    BY <1>8, <1>9 DEF Call, TaskReturns, TaskThrows, RecordError, TypeOK
  <2>4. /\ pc'[w] = "taken"     => task'[index[w]] = "todo"
        /\ pc'[w] = "inside"    => task'[index[w]] = "running" /\ fn'[w] = job
        /\ pc'[w] = "threw"     => task'[index[w]] = "threw"
        /\ pc'[w] = "finishing" => task'[index[w]] \in {"ok", "threw"}
    BY <1>8 DEF Call, TaskReturns, TaskThrows, RecordError, TypeOK, History
  <2> QED
    BY <1>1, <2>1, <2>2, <2>3, <2>4 DEF History, InFlight
<1>11. Errors'
  <2>1. CASE Call(w)
    BY <2>1, <1>1, <1>8, <1>9 DEF Call, Errors, History, TypeOK, shared
  <2>2. CASE TaskReturns(w)
    BY <2>2, <1>1, <1>8, <1>9 DEF TaskReturns, Errors, History, TypeOK, shared
  <2>3. CASE TaskThrows(w)
    BY <2>3, <1>1, <1>8, <1>9 DEF TaskThrows, Errors, History, TypeOK, shared
  <2>4. CASE RecordError(w)
    BY <2>4, <1>1, <1>8, <1>9 DEF RecordError, Errors, History, TypeOK, Indices, NoError
  <2> QED
    BY <2>1, <2>2, <2>3, <2>4
<1>12. NoLostWakeup'
  BY <1>1 DEF InFlight, NoLostWakeup, HasWork, JobDone
<1> QED
  BY <1>4, <1>5, <1>6, <1>7, <1>10, <1>11, <1>12

\* A worker counts its task down and goes round the loop.
LEMMA FinishIInv ==
    ASSUME IInv, NEW w \in Workers, Finish(w)
    PROVE  IInv'
<1> USE DEF IInv
<1>1. /\ pc[w] = "finishing" /\ InFlight(w)
      /\ LoopHead(w)
      /\ outstanding' = outstanding - 1
      /\ UNCHANGED <<job, taskCount, firstError, stopping, fn, calls, error, task>>
  BY DEF Finish, InFlight
<1>2. /\ Uncounted' = Uncounted \ {index[w]}
      /\ index[w] \in Uncounted
      /\ index[w] \in Indices
  BY <1>1, LoopHeadUncounted, UncountedSplit DEF TypeOK
<1>3. OutstandingExact' /\ outstanding' \in 0 .. MaxTasks
  <2>1. outstanding > 0
    BY <1>1, InFlightCounted
  <2>2. Cardinality(Uncounted') = Cardinality(Uncounted) - 1
    BY <1>2, UncountedFinite, FS_RemoveElement
  <2> QED
    BY <1>1, <2>1, <2>2, PoolAssumption DEF OutstandingExact, TypeOK
<1>4. caller \in InForEach
  BY <1>1 DEF Hands, Shape, TypeOK, Indices
<1>5. caller' \in InForEach /\ (caller' = "asleep" => caller = "asleep" /\ outstanding' # 0)
  BY <1>4 DEF Finish, WakeCaller, InForEach
<1>6. /\ \A v \in Workers : v # w =>
           (InFlight(v)' <=> InFlight(v)) /\ index'[v] = index[v] /\ pc'[v] = pc[v]
      /\ InFlight(w)' => index'[w] = nextIndex /\ nextIndex' = nextIndex + 1
      /\ pc'[w] \in {"exited", "taken", "asleep"}
      /\ nextIndex \in Int /\ nextIndex' \in {nextIndex, nextIndex + 1}
  BY <1>1, LoopHeadFrame DEF InFlight, TypeOK
<1>7. TypeOK'
  <2>1. nextIndex' \in 0 .. MaxTasks
    BY <1>1, LoopHeadFrame, PoolAssumption DEF TypeOK
  <2> QED
    BY <1>1, <1>3, <1>5, <2>1, LoopHeadFrame DEF TypeOK, CallerPCs
<1>8. Shape'
  BY <1>1, <1>4, <1>5, LoopHeadFrame DEF Shape, InForEach
<1>9. Hands'
  <2>1. \A v \in Workers : InFlight(v) => index[v] < nextIndex /\ index[v] \in Int
    BY DEF Hands, TypeOK, Indices
  <2> QED
    BY <1>6, <2>1 DEF Hands
<1>10. History'
  <2>1. \A i \in Indices : nextIndex' <= i /\ i < taskCount' => task'[i] = "todo"
    BY <1>1, <1>6 DEF History, TypeOK, Indices
  <2>2. ASSUME NEW i \in Indices, i < nextIndex', i \notin Uncounted'
        PROVE  task'[i] \in {"ok", "threw"}
    <3>1. CASE i = index[w]
      BY <1>1, <3>1 DEF History
    <3>2. CASE i # index[w]
      <4>1. i \notin Uncounted
        BY <1>2, <2>2, <3>2
      <4>2. i # nextIndex \/ ~HasWork
        BY <4>1 DEF Uncounted, HasWork, TypeOK
      <4>3. i < nextIndex
        BY <2>2, <4>2, <1>1, LoopHeadFrame DEF TypeOK, Indices
      <4> QED
        BY <1>1, <4>1, <4>3 DEF History
    <3> QED
      BY <3>1, <3>2
  <2>3. pc'[w] = "taken" => task'[index'[w]] = "todo"
    BY <1>1, LoopHeadFrame DEF History, HasWork, TypeOK, Indices
  <2> QED
    BY <1>1, <1>6, <2>1, <2>2, <2>3 DEF History
<1>11. Errors'
  <2>1. firstError' # NoError => firstError' < nextIndex' /\ task'[firstError'] = "threw"
    BY <1>1, <1>6 DEF Errors, TypeOK, Indices
  <2>2. ASSUME NEW i \in Indices, i < nextIndex', task'[i] = "threw", firstError' = NoError
        PROVE  \E v \in Workers : pc'[v] = "threw" /\ index'[v] = i
    <3>1. i < nextIndex
      BY <1>1, <2>2, LoopHeadFrame DEF History, HasWork, TypeOK, Indices
    <3>2. PICK v \in Workers : pc[v] = "threw" /\ index[v] = i
      BY <1>1, <2>2, <3>1 DEF Errors
    <3>3. v # w
      BY <1>1, <3>2
    <3> QED
      BY <1>6, <3>2, <3>3
  <2> QED
    BY <2>1, <2>2 DEF Errors
<1>12. NoLostWakeup'
  <2>1. HasWork' => HasWork
    BY <1>1, <1>6, LoopHeadFrame DEF HasWork, TypeOK
  <2>2. ASSUME NEW v \in Workers, pc'[v] = "asleep"
        PROVE  (~HasWork' /\ ~stopping') \/ caller' = "published"
    <3>1. CASE v = w
      BY <1>1, <2>1, <2>2, <3>1, LoopHeadFrame
    <3>2. CASE v # w
      <4>1. (~HasWork /\ ~stopping) \/ caller = "published"
        BY <1>4, <1>6, <2>2, <3>2 DEF NoLostWakeup, InForEach
      <4>2. caller = "published" => caller' = "published"
        BY DEF Finish, WakeCaller
      <4> QED
        BY <1>1, <2>1, <4>1, <4>2
    <3> QED
      BY <3>1, <3>2
  <2> QED
    BY <1>5, <2>2 DEF NoLostWakeup, JobDone
<1> QED
  BY <1>3, <1>7, <1>8, <1>9, <1>10, <1>11, <1>12

\* Every step preserves it.
LEMMA NextIInv == IInv /\ [Next]_vars => IInv'
<1> SUFFICES ASSUME IInv, [Next]_vars PROVE IInv'
  OBVIOUS
<1>1. CASE OwnerStep
  BY <1>1, OwnerStepIInv
<1>2. ASSUME NEW n \in 1 .. MaxTasks, ForEach(n) PROVE IInv'
  BY <1>2, ForEachIInv
<1>3. CASE Collect
  BY <1>3, CollectIInv
<1>4. ASSUME NEW w \in Workers, WorkerStep(w) PROVE IInv'
  BY <1>4, LookForWorkIInv, TaskStepIInv, FinishIInv DEF WorkerStep
<1>5. CASE UNCHANGED vars
  BY <1>5
     DEF vars, IInv, TypeOK, Shape, Hands, OutstandingExact, Uncounted, History,
         Errors, NoLostWakeup, InFlight, HasWork, JobDone
<1> QED
  BY <1>1, <1>2, <1>3, <1>4, <1>5 DEF Next, OwnerStep, CallerStep, Over

(***************************************************************************)
(* Every reachable state of the pool satisfies the inductive invariant.    *)
(***************************************************************************)
THEOREM Invariance == Spec => []IInv
<1> QED
  BY InitIInv, NextIInv, PTL DEF Spec

------------------------------------------------------------------------------
(***************************************************************************)
(* Type correctness: in particular outstanding_ never wraps below zero and *)
(* no index is handed out past the job (threadpool.cpp:34, 51).            *)
(***************************************************************************)
THEOREM TypeCorrect == Spec => []TypeOK
<1>1. IInv => TypeOK
  BY DEF IInv
<1> QED
  BY <1>1, Invariance, PTL

(***************************************************************************)
(* outstanding_ counts exactly the tasks not finished (threadpool.cpp:51). *)
(***************************************************************************)
THEOREM CountIsExact == Spec => []OutstandingExact
<1>1. IInv => OutstandingExact
  BY DEF IInv
<1> QED
  BY <1>1, Invariance, PTL

(***************************************************************************)
(* The unlocked read of job_ finds the function of the call in progress,   *)
(* and no task outlives its call (threadpool.cpp:39-41).                   *)
(***************************************************************************)
THEOREM TasksRunTheirJob == Spec => []TaskRunsItsJob
<1>1. ASSUME IInv PROVE TaskRunsItsJob
  <2>1. \A w \in Workers : InFlight(w) => caller \in InForEach
    BY <1>1 DEF IInv, TypeOK, Shape, Hands, Indices
  <2> QED
    BY <1>1, <2>1 DEF IInv, Shape, History, TaskRunsItsJob, InFlight
<1> QED
  BY <1>1, Invariance, PTL

(***************************************************************************)
(* No thread sleeps through a notification it needed.                      *)
(***************************************************************************)
THEOREM WakeupsAreNotLost == Spec => []NoLostWakeup
<1>1. IInv => NoLostWakeup
  BY DEF IInv
<1> QED
  BY <1>1, Invariance, PTL

\* job_ is written only when no worker has a task in hand.
LEMMA JobWriters ==
    ASSUME IInv, [Next]_vars, job' # job
    PROVE  \A w \in Workers : ~InFlight(w)
<1>1. (\E n \in 1 .. MaxTasks : ForEach(n)) \/ Collect
  BY DEF Next, vars, Spawn, Constructed, SpawnFails, ForEachEmpty, BeginStop,
         CallerStep, NotifyWorkers, CallerSleeps, NotifyStop, Join,
         CallerWakesUnasked, WorkerStep, LookForWork, Call, TaskReturns,
         TaskThrows, RecordError, Finish, WorkerWakesUnasked, Over, shared
<1>2. CASE \E n \in 1 .. MaxTasks : ForEach(n)
  BY <1>2 DEF ForEach, IInv, TypeOK, Shape, Hands, InForEach, Indices
<1>3. CASE Collect
  BY <1>3, NothingOutstanding DEF Collect, IInv, JobDone
<1> QED
  BY <1>1, <1>2, <1>3

(***************************************************************************)
(* The unlocked read of job_ races with no write of it.                    *)
(***************************************************************************)
THEOREM NoRaceOnJob == Spec => JobNotWrittenWhileRead
<1>1. IInv /\ [Next]_vars => [job' # job => \A w \in Workers : ~InFlight(w)]_vars
  BY JobWriters
<1> QED
  BY <1>1, Invariance, PTL DEF Spec, JobNotWrittenWhileRead

------------------------------------------------------------------------------
\* The pool implements ParallelFor.

\* The steps of the owner, and of a worker between tasks, change nothing that
\* the caller of forEach can see, save that an empty call clears the error.
LEMMA OwnerStepRefines ==
    ASSUME IInv, OwnerStep
    PROVE  [PF!Next]_(PF!vars)
<1>1. CASE ForEachEmpty
  BY <1>1 DEF ForEachEmpty, shared, InForEach, NoError, PF!Next, PF!BeginEmpty, PF!NoError
<1>2. CASE ~ForEachEmpty
  <2>1. UNCHANGED <<taskCount, error, task>>
    BY <1>2
       DEF OwnerStep, Spawn, Constructed, SpawnFails, NotifyWorkers, CallerSleeps,
           CallerWakesUnasked, BeginStop, NotifyStop, Join, WorkerWakesUnasked,
           shared, owner
  <2>2. caller' \in InForEach <=> caller \in InForEach
    BY <1>2
       DEF OwnerStep, Spawn, Constructed, SpawnFails, NotifyWorkers, CallerSleeps,
           CallerWakesUnasked, BeginStop, NotifyStop, Join, WorkerWakesUnasked,
           owner, InForEach
  <2> QED
    BY <2>1, <2>2 DEF PF!vars
<1> QED
  BY <1>1, <1>2

\* The steps of a worker are calls of fn, their ends, or nothing.
LEMMA WorkerStepRefines ==
    ASSUME IInv, NEW w \in Workers, WorkerStep(w)
    PROVE  [PF!Next]_(PF!vars)
<1>1. ASSUME InFlight(w)
      PROVE  /\ caller \in InForEach
             /\ index[w] \in Indices
             /\ index[w] < taskCount
  BY <1>1 DEF IInv, TypeOK, Shape, Hands, Indices
<1>2. CASE Call(w)
  <2>1. PF!Start(index[w])
    BY <1>1, <1>2 DEF Call, InFlight, IInv, History, shared, owner, PF!Start
  <2> QED
    BY <1>1, <1>2, <2>1 DEF Call, InFlight, PF!Next, PF!Indices, Indices
<1>3. CASE TaskReturns(w)
  <2>1. PF!End(index[w], "ok")
    BY <1>1, <1>3 DEF TaskReturns, InFlight, IInv, History, shared, owner, PF!End
  <2> QED
    BY <1>1, <1>3, <2>1 DEF TaskReturns, InFlight, PF!Next, PF!Indices, PF!Ended, Indices
<1>4. CASE TaskThrows(w)
  <2>1. PF!End(index[w], "threw")
    BY <1>1, <1>4 DEF TaskThrows, InFlight, IInv, History, shared, owner, PF!End
  <2> QED
    BY <1>1, <1>4, <2>1 DEF TaskThrows, InFlight, PF!Next, PF!Indices, PF!Ended, Indices
<1>5. CASE LookForWork(w) \/ RecordError(w)
  BY <1>5 DEF LookForWork, RecordError, owner, PF!vars
<1>6. CASE Finish(w)
  <2>1. caller \in InForEach /\ caller' \in InForEach
    BY <1>1, <1>6 DEF Finish, WakeCaller, InFlight, InForEach
  <2> QED
    BY <1>6, <2>1 DEF Finish, PF!vars
<1> QED
  BY <1>2, <1>3, <1>4, <1>5, <1>6 DEF WorkerStep

\* Retiring a job is the return of forEach: every task has ended, and the error
\* it rethrows is that of one of them, if there is one.
LEMMA CollectRefines ==
    ASSUME IInv, Collect
    PROVE  PF!Return
<1>1. /\ Uncounted = {}
      /\ taskCount <= nextIndex
      /\ \A w \in Workers : ~InFlight(w)
  BY NothingOutstanding DEF Collect, IInv, JobDone
<1>2. \A i \in Indices : i < taskCount => i < nextIndex
  BY <1>1 DEF IInv, TypeOK, Indices
<1>3. \A i \in Indices : i < taskCount => task[i] \in {"ok", "threw"}
  BY <1>1, <1>2 DEF IInv, History
<1>4. IF PF!Threw = {} THEN error' = NoError ELSE error' \in PF!Threw
  <2>1. CASE firstError = NoError
    <3>1. \A i \in Indices : i < taskCount => task[i] # "threw"
      BY <1>1, <1>2, <2>1 DEF IInv, Errors, InFlight
    <3>2. PF!Threw = {}
      BY <3>1 DEF PF!Threw, PF!Indices, Indices
    <3> QED
      BY <2>1, <3>2 DEF Collect
  <2>2. CASE firstError # NoError
    <3>1. firstError \in Indices /\ firstError < taskCount /\ task[firstError] = "threw"
      BY <2>2 DEF IInv, TypeOK, Shape, Errors, Indices
    <3>2. firstError \in PF!Threw
      BY <3>1 DEF PF!Threw, PF!Indices, Indices
    <3> QED
      BY <3>2 DEF Collect
  <2> QED
    BY <2>1, <2>2
<1> QED
  BY <1>3, <1>4
     DEF Collect, InForEach, NoError, PF!Return, PF!Ended, PF!Indices, PF!NoError, Indices

(***************************************************************************)
(* The pool keeps the promise of threadpool.h:42-46: ParallelFor.          *)
(***************************************************************************)
THEOREM PoolKeepsContract == Spec => Contract
<1>1. Init => PF!Init
  BY DEF Init, InForEach, NoError, Indices, PF!Init, PF!NoError, PF!Indices
<1>2. ASSUME IInv, [Next]_vars PROVE [PF!Next]_(PF!vars)
  <2>1. CASE OwnerStep
    BY <1>2, <2>1, OwnerStepRefines
  <2>2. ASSUME NEW n \in 1 .. MaxTasks, ForEach(n) PROVE [PF!Next]_(PF!vars)
    <3>1. PF!Begin(n)
      BY <2>2 DEF ForEach, InForEach, NoError, Indices, PF!Begin, PF!NoError, PF!Indices
    <3> QED
      BY <3>1 DEF PF!Next
  <2>3. CASE Collect
    BY <1>2, <2>3, CollectRefines DEF PF!Next
  <2>4. ASSUME NEW w \in Workers, WorkerStep(w) PROVE [PF!Next]_(PF!vars)
    BY <1>2, <2>4, WorkerStepRefines
  <2>5. CASE UNCHANGED vars
    BY <2>5 DEF vars, PF!vars
  <2> QED
    BY <1>2, <2>1, <2>2, <2>3, <2>4, <2>5 DEF Next, OwnerStep, CallerStep, Over
<1> QED
  BY <1>1, <1>2, Invariance, PTL DEF Spec, Contract, PF!Spec

==============================================================================
