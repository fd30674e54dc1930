------------------------------ MODULE ThreadPool ------------------------------
(***************************************************************************)
(* src/src/threadpool.{h,cpp}: a fixed set of workers, one mutex, two      *)
(* condition variables, one caller that runs one job at a time.            *)
(*                                                                         *)
(* Each critical section under mutex_ is one atomic action, because every  *)
(* access to the six shared fields happens inside one, save a single one:  *)
(* the worker's read of job_, to call it, is made with the mutex           *)
(* released, and is the action Call.  Notifications sent after the mutex   *)
(* is released are actions of their own (NotifyWorkers, NotifyStop).       *)
(* wait(lock, pred) tests pred, sleeps, and tests it again when woken; a   *)
(* wake-up without a notification may always happen.                       *)
(***************************************************************************)
EXTENDS Integers, FiniteSets

CONSTANTS
    Workers,        \* the threads the constructor starts (max(1, workers))
    MaxTasks,       \* bound: the largest count given to forEach
    MaxCalls,       \* bound: how many jobs the caller runs
    SpawnMayFail    \* whether std::thread's constructor may throw

ASSUME PoolAssumption ==
    /\ IsFiniteSet(Workers)
    /\ Workers # {}
    /\ MaxTasks \in Nat \ {0}
    /\ MaxCalls \in Nat
    /\ SpawnMayFail \in BOOLEAN

VARIABLES
    job,            \* job_: 0 for nullptr, else the number of the call whose fn it is
    nextIndex,      \* nextIndex_: the next task to hand out
    taskCount,      \* taskCount_: the tasks of the current job
    outstanding,    \* outstanding_: handed out or not, still unfinished
    firstError,     \* firstError_: NoError, or the task whose exception it holds
    stopping,       \* stopping_
    pc,             \* where each worker is
    index,          \* each worker's local index
    fn,             \* the function each worker read from job_
    caller,         \* where the thread that owns the pool is
    calls,          \* how many times it has called forEach with count > 0
    error,          \* forEach's local error, as the last call returned it
    task            \* history: what became of fn(i) in the last call

shared == <<job, nextIndex, taskCount, outstanding, firstError, stopping>>
worker == <<pc, index, fn>>
owner  == <<caller, calls, error>>
vars   == <<job, nextIndex, taskCount, outstanding, firstError, stopping,
            pc, index, fn, caller, calls, error, task>>

NoError == -1
NoJob   == 0
Indices == 0 .. MaxTasks - 1

\* "unborn": not started.  "ready": about to lock and test the predicate of
\* workAvailable_.wait.  "asleep": in that wait.  "taken": unlocked with an
\* index, about to read job_.  "inside": in fn.  "threw": in the handler,
\* about to lock and record.  "finishing": about to lock and count down.
WorkerPCs == {"unborn", "ready", "asleep", "taken", "inside", "threw",
              "finishing", "exited"}

\* "published": job set, notify_all not yet called.  "checking": about to
\* lock and test the predicate of jobFinished_.wait.  "asleep": in that wait.
\* "stopping": stopping_ set, notify_all not yet called.  "failed": the
\* constructor threw an exception.  "terminated": std::terminate was called.
InForEach == {"published", "checking", "asleep"}
Gone      == {"destroyed", "failed", "terminated"}
CallerPCs == {"constructing", "idle", "stopping", "joining"} \cup InForEach \cup Gone

TypeOK ==
    /\ job \in 0 .. MaxCalls
    /\ nextIndex \in 0 .. MaxTasks
    /\ taskCount \in 0 .. MaxTasks
    /\ outstanding \in 0 .. MaxTasks
    /\ firstError \in Indices \cup {NoError}
    /\ stopping \in BOOLEAN
    /\ pc \in [Workers -> WorkerPCs]
    /\ index \in [Workers -> Indices]
    /\ fn \in [Workers -> 0 .. MaxCalls]
    /\ caller \in CallerPCs
    /\ calls \in 0 .. MaxCalls
    /\ error \in Indices \cup {NoError}
    /\ task \in [Indices -> {"todo", "running", "ok", "threw"}]

Init ==
    /\ job = NoJob
    /\ nextIndex = 0
    /\ taskCount = 0
    /\ outstanding = 0
    /\ firstError = NoError
    /\ stopping = FALSE
    /\ pc = [w \in Workers |-> "unborn"]
    /\ index = [w \in Workers |-> 0]
    /\ fn = [w \in Workers |-> NoJob]
    /\ caller = "constructing"
    /\ calls = 0
    /\ error = NoError
    /\ task = [i \in Indices |-> "todo"]

\* The predicates the two waits test.
\* Mutant: the caller waits only for the hand-out.
JobDone_HandedOut == nextIndex = taskCount

HasWork == nextIndex < taskCount
JobDone == outstanding = 0

\* notify_all: every thread asleep on the condition variable has to lock the
\* mutex and test its predicate again.
WakeAll == [w \in Workers |-> IF pc[w] = "asleep" THEN "ready" ELSE pc[w]]
WakeCaller == IF caller = "asleep" THEN "checking" ELSE caller

------------------------------------------------------------------------------
\* ThreadPool::ThreadPool

Born == {w \in Workers : pc[w] # "unborn"}

\* One emplace_back.  The new thread runs at once.
Spawn(w) ==
    /\ caller = "constructing"
    /\ pc[w] = "unborn"
    /\ pc' = [pc EXCEPT ![w] = "ready"]
    /\ UNCHANGED <<shared, index, fn, owner, task>>

Constructed ==
    /\ caller = "constructing"
    /\ Born = Workers
    /\ caller' = "idle"
    /\ UNCHANGED <<shared, worker, calls, error, task>>

\* emplace_back throws.  The destructor of a pool whose constructor has not
\* finished does not run, so workers_ is destroyed with its threads joinable:
\* std::terminate, unless there is none yet.
SpawnFails ==
    /\ SpawnMayFail
    /\ caller = "constructing"
    /\ Born # Workers
    /\ caller' = IF Born = {} THEN "failed" ELSE "terminated"
    /\ UNCHANGED <<shared, worker, calls, error, task>>

------------------------------------------------------------------------------
\* ThreadPool::forEach

\* count == 0 returns before anything is locked.
ForEachEmpty ==
    /\ caller = "idle"
    /\ error' = NoError
    /\ UNCHANGED <<shared, worker, caller, calls, task>>

\* The first critical section: publish the job.
ForEach(n) ==
    /\ caller = "idle"
    /\ calls < MaxCalls
    /\ calls' = calls + 1
    /\ job' = calls + 1
    /\ nextIndex' = 0
    /\ taskCount' = n
    /\ outstanding' = n
    /\ firstError' = NoError
    /\ error' = NoError
    /\ task' = [i \in Indices |-> "todo"]
    /\ caller' = "published"
    /\ UNCHANGED <<stopping, worker>>

\* Mutant: notify_one.
NotifyWorkers_One ==
    /\ caller = "published"
    /\ \/ /\ \A w \in Workers : pc[w] # "asleep"
          /\ pc' = pc
       \/ \E w \in Workers : /\ pc[w] = "asleep"
                             /\ pc' = [pc EXCEPT ![w] = "ready"]
    /\ caller' = "checking"
    /\ UNCHANGED <<shared, index, fn, calls, error, task>>

NotifyWorkers ==
    /\ caller = "published"
    /\ pc' = WakeAll
    /\ caller' = "checking"
    /\ UNCHANGED <<shared, index, fn, calls, error, task>>

\* The second critical section: the job is done, so it is retired and its
\* first error taken; forEach returns or rethrows.
Collect ==
    /\ caller = "checking"
    /\ JobDone
    /\ job' = NoJob
    /\ taskCount' = 0
    /\ nextIndex' = 0
    /\ error' = firstError
    /\ firstError' = NoError
    /\ caller' = "idle"
    /\ UNCHANGED <<outstanding, stopping, worker, calls, task>>

CallerSleeps ==
    /\ caller = "checking"
    /\ ~JobDone
    /\ caller' = "asleep"
    /\ UNCHANGED <<shared, worker, calls, error, task>>

CallerWakesUnasked ==
    /\ caller = "asleep"
    /\ caller' = "checking"
    /\ UNCHANGED <<shared, worker, calls, error, task>>

------------------------------------------------------------------------------
\* ThreadPool::~ThreadPool

BeginStop ==
    /\ caller = "idle"
    /\ stopping' = TRUE
    /\ caller' = "stopping"
    /\ UNCHANGED <<job, nextIndex, taskCount, outstanding, firstError, worker,
                   calls, error, task>>

NotifyStop ==
    /\ caller = "stopping"
    /\ pc' = WakeAll
    /\ caller' = "joining"
    /\ UNCHANGED <<shared, index, fn, calls, error, task>>

Join ==
    /\ caller = "joining"
    /\ \A w \in Workers : pc[w] = "exited"
    /\ caller' = "destroyed"
    /\ UNCHANGED <<shared, worker, calls, error, task>>

------------------------------------------------------------------------------
\* ThreadPool::workerLoop.  std::terminate ends every thread.

Running == caller # "terminated"

\* Mutant: the predicate of the wait forgets stopping_.
LoopHead_SleepsThroughStop(w) ==
    \/ /\ HasWork
       /\ stopping
       /\ pc' = [pc EXCEPT ![w] = "exited"]
       /\ UNCHANGED <<index, nextIndex>>
    \/ /\ HasWork
       /\ ~stopping
       /\ index' = [index EXCEPT ![w] = nextIndex]
       /\ nextIndex' = nextIndex + 1
       /\ pc' = [pc EXCEPT ![w] = "taken"]
    \/ /\ ~HasWork
       /\ pc' = [pc EXCEPT ![w] = "asleep"]
       /\ UNCHANGED <<index, nextIndex>>

\* The head of the loop, in the critical section of the action it is part of:
\* leave, take an index, or sleep.
LoopHead(w) ==
    \/ /\ stopping
       /\ pc' = [pc EXCEPT ![w] = "exited"]
       /\ UNCHANGED <<index, nextIndex>>
    \/ /\ ~stopping
       /\ HasWork
       /\ index' = [index EXCEPT ![w] = nextIndex]
       /\ nextIndex' = nextIndex + 1
       /\ pc' = [pc EXCEPT ![w] = "taken"]
    \/ /\ ~stopping
       /\ ~HasWork
       /\ pc' = [pc EXCEPT ![w] = "asleep"]
       /\ UNCHANGED <<index, nextIndex>>

\* A thread that starts, or is woken, locks the mutex and tests the predicate.
LookForWork(w) ==
    /\ Running
    /\ pc[w] = "ready"
    /\ LoopHead(w)
    /\ UNCHANGED <<job, taskCount, outstanding, firstError, stopping, fn, owner, task>>

WorkerWakesUnasked(w) ==
    /\ Running
    /\ pc[w] = "asleep"
    /\ pc' = [pc EXCEPT ![w] = "ready"]
    /\ UNCHANGED <<shared, index, fn, owner, task>>

\* The call of fn(index): job_ is read with the mutex released.
Call(w) ==
    /\ Running
    /\ pc[w] = "taken"
    /\ fn' = [fn EXCEPT ![w] = job]
    /\ task' = [task EXCEPT ![index[w]] = "running"]
    /\ pc' = [pc EXCEPT ![w] = "inside"]
    /\ UNCHANGED <<shared, index, owner>>

TaskReturns(w) ==
    /\ Running
    /\ pc[w] = "inside"
    /\ task' = [task EXCEPT ![index[w]] = "ok"]
    /\ pc' = [pc EXCEPT ![w] = "finishing"]
    /\ UNCHANGED <<shared, index, fn, owner>>

TaskThrows(w) ==
    /\ Running
    /\ pc[w] = "inside"
    /\ task' = [task EXCEPT ![index[w]] = "threw"]
    /\ pc' = [pc EXCEPT ![w] = "threw"]
    /\ UNCHANGED <<shared, index, fn, owner>>

\* Mutants: a task that threw is not counted down; its exception is swallowed.
RecordError_NotCounted(w) ==
    /\ Running
    /\ pc[w] = "threw"
    /\ firstError' = IF firstError = NoError THEN index[w] ELSE firstError
    /\ pc' = [pc EXCEPT ![w] = "ready"]
    /\ UNCHANGED <<job, nextIndex, taskCount, outstanding, stopping, index, fn,
                   owner, task>>

RecordError_Swallowed(w) ==
    /\ Running
    /\ pc[w] = "threw"
    /\ pc' = [pc EXCEPT ![w] = "finishing"]
    /\ UNCHANGED <<shared, index, fn, owner, task>>

\* The handler: the first exception to arrive is kept, the others are lost.
RecordError(w) ==
    /\ Running
    /\ pc[w] = "threw"
    /\ firstError' = IF firstError = NoError THEN index[w] ELSE firstError
    /\ pc' = [pc EXCEPT ![w] = "finishing"]
    /\ UNCHANGED <<job, nextIndex, taskCount, outstanding, stopping, index, fn,
                   owner, task>>

\* Count down, tell the caller if that was the last one, and go round the loop
\* without releasing the mutex.
Finish(w) ==
    /\ Running
    /\ pc[w] = "finishing"
    /\ outstanding' = outstanding - 1
    /\ caller' = IF outstanding' = 0 THEN WakeCaller ELSE caller
    /\ LoopHead(w)
    /\ UNCHANGED <<job, taskCount, firstError, stopping, fn, calls, error, task>>

------------------------------------------------------------------------------

CallerStep ==
    \/ NotifyWorkers
    \/ Collect
    \/ CallerSleeps
    \/ NotifyStop
    \/ Join

WorkerStep(w) ==
    \/ LookForWork(w)
    \/ Call(w)
    \/ TaskReturns(w)
    \/ TaskThrows(w)
    \/ RecordError(w)
    \/ Finish(w)

\* The pool is gone, one way or another: not a deadlock.
Over ==
    /\ caller \in Gone
    /\ UNCHANGED vars

Next ==
    \/ \E w \in Workers : Spawn(w)
    \/ Constructed
    \/ SpawnFails
    \/ ForEachEmpty
    \/ \E n \in 1 .. MaxTasks : ForEach(n)
    \/ BeginStop
    \/ CallerStep
    \/ CallerWakesUnasked
    \/ \E w \in Workers : WorkerStep(w) \/ WorkerWakesUnasked(w)
    \/ Over

Spec == Init /\ [][Next]_vars

\* The scheduler runs every runnable thread, fn always ends (it is encodeBlock),
\* and mutex_ is never held across a wait, so a thread that wants it gets it.
\* Calling forEach, destroying the pool and waking unasked are not owed.
Fairness ==
    /\ WF_vars(CallerStep)
    /\ \A w \in Workers : WF_vars(WorkerStep(w))

FairSpec == Spec /\ Fairness

------------------------------------------------------------------------------
\* Properties

InFlight(w) == pc[w] \in {"taken", "inside", "threw", "finishing"}

\* The tasks of the job that outstanding_ should still be counting: those not
\* handed out, and those some worker has in hand.
Uncounted == (nextIndex .. taskCount - 1) \cup {index[w] : w \in {v \in Workers : InFlight(v)}}

(***************************************************************************)
(* outstanding_ is the number of tasks still to be finished, whatever the  *)
(* mix of tasks that returned and tasks that threw, across jobs: each task *)
(* is handed to one worker and counted down once (threadpool.cpp:49-51).   *)
(***************************************************************************)
OutstandingExact == outstanding = Cardinality(Uncounted)

(***************************************************************************)
(* A worker that is about to read job_ finds the function of the call in   *)
(* progress, and while it is inside that function the call has not         *)
(* returned (fn is a reference to a local of forEach's caller), although   *)
(* job_ is read with the mutex released (threadpool.cpp:39-41).            *)
(***************************************************************************)
TaskRunsItsJob ==
    \A w \in Workers :
        /\ pc[w] = "taken" => job = calls /\ job # NoJob /\ caller \in InForEach
        /\ pc[w] = "inside" => fn[w] = calls /\ caller \in InForEach

(***************************************************************************)
(* No thread sleeps through what it waits for: the caller is not asleep    *)
(* when its job is done, and no worker is asleep when there is a task to   *)
(* take or the pool is stopping, unless the notify_all that follows the    *)
(* critical section is still to come (threadpool.cpp:24, 31, 51, 66, 71).  *)
(***************************************************************************)
NoLostWakeup ==
    /\ caller = "asleep" => ~JobDone
    /\ \A w \in Workers :
          pc[w] = "asleep" => \/ ~HasWork /\ ~stopping
                              \/ caller \in {"published", "stopping"}

(***************************************************************************)
(* No write of job_ is made while a worker may be reading it: the          *)
(* unlocked read of threadpool.cpp:41 does not race with line 60 or 72.    *)
(***************************************************************************)
JobNotWrittenWhileRead == [][job' # job => \A w \in Workers : ~InFlight(w)]_vars

(***************************************************************************)
(* The pool is a ParallelFor (threadpool.h:42-46): every index exactly     *)
(* once, no return before every call of fn has ended, and an error is      *)
(* rethrown exactly if one was thrown in this job, never an earlier one's. *)
(***************************************************************************)
PF == INSTANCE ParallelFor WITH
        phase  <- IF caller \in InForEach THEN "busy" ELSE "idle",
        count  <- taskCount,
        result <- error

Contract == PF!Spec

(***************************************************************************)
(* The inductive invariant.  Shape: what the fields hold in and out of a   *)
(* job.  Hands: no index is in two hands.  History: the history agrees     *)
(* with the fields.  Errors: an exception thrown in this job is held in    *)
(* firstError_, or on its way there (threadpool.cpp:42-46).                *)
(***************************************************************************)
Shape ==
    /\ nextIndex <= taskCount
    /\ caller \in InForEach => job = calls /\ job # NoJob /\ taskCount > 0
    /\ caller \notin InForEach => /\ job = NoJob
                                 /\ taskCount = 0
                                 /\ firstError = NoError
    /\ stopping <=> caller \in {"stopping", "joining", "destroyed"}

Hands ==
    \A w \in Workers : InFlight(w) =>
        /\ index[w] < nextIndex
        /\ \A v \in Workers : InFlight(v) /\ index[v] = index[w] => v = w

History ==
    /\ \A i \in Indices : nextIndex <= i /\ i < taskCount => task[i] = "todo"
    /\ \A i \in Indices : i < nextIndex /\ i \notin Uncounted => task[i] \in {"ok", "threw"}
    /\ \A w \in Workers :
          /\ pc[w] = "taken"     => task[index[w]] = "todo"
          /\ pc[w] = "inside"    => task[index[w]] = "running" /\ fn[w] = job
          /\ pc[w] = "threw"     => task[index[w]] = "threw"
          /\ pc[w] = "finishing" => task[index[w]] \in {"ok", "threw"}

Errors ==
    /\ firstError # NoError => firstError < nextIndex /\ task[firstError] = "threw"
    /\ \A i \in Indices :
          i < nextIndex /\ task[i] = "threw" /\ firstError = NoError
            => \E w \in Workers : pc[w] = "threw" /\ index[w] = i

IInv ==
    /\ TypeOK
    /\ Shape
    /\ Hands
    /\ OutstandingExact
    /\ History
    /\ Errors
    /\ NoLostWakeup

(***************************************************************************)
(* Every call of forEach returns, and the destructor returns: a task that  *)
(* throws does not leave the caller waiting (threadpool.cpp:49-50), and    *)
(* every worker leaves its loop.                                           *)
(***************************************************************************)
ForEachReturns == caller \in InForEach ~> caller = "idle"
DestructorReturns == caller = "stopping" ~> caller = "destroyed"

(***************************************************************************)
(* A pool that cannot start all its threads reports it by an exception,    *)
(* which the C API catches as it does every other (capi.cpp:62-64).        *)
(***************************************************************************)
NeverTerminated == caller # "terminated"
==============================================================================
