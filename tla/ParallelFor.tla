----------------------------- MODULE ParallelFor -----------------------------
(***************************************************************************)
(* The promise of ThreadPool::forEach(count, fn), as threadpool.h:42-46    *)
(* words it and as its two callers (compressBlocked, compressStream) rely  *)
(* on it: fn is called exactly once for every index below count, forEach   *)
(* returns only when every call has ended, and if any call threw, one of   *)
(* the exceptions thrown in THIS call of forEach is rethrown.              *)
(*                                                                         *)
(* Nothing is said here of threads, locks or wake-ups.  ThreadPool         *)
(* implements this module; StreamEncoder and MemoryEncoder use it.        *)
(***************************************************************************)
EXTENDS Integers

CONSTANT MaxTasks       \* bound: the largest count of one call

VARIABLES
    phase,      \* "idle", or "busy" between a call of forEach and its return
    count,      \* the argument of the call in progress, 0 when idle
    task,       \* what has become of fn(i) in the last call
    result      \* how the last call ended: NoError, or the index whose
                \* exception it rethrew

vars == <<phase, count, task, result>>

NoError == -1
Indices == 0 .. MaxTasks - 1
Ended   == {"ok", "threw"}

TypeOK ==
    /\ phase \in {"idle", "busy"}
    /\ count \in 0 .. MaxTasks
    /\ task \in [Indices -> {"todo", "running"} \cup Ended]
    /\ result \in Indices \cup {NoError}

Init ==
    /\ phase = "idle"
    /\ count = 0
    /\ task = [i \in Indices |-> "todo"]
    /\ result = NoError

\* forEach(n, fn) with n > 0.
Begin(n) ==
    /\ phase = "idle"
    /\ phase' = "busy"
    /\ count' = n
    /\ task' = [i \in Indices |-> "todo"]
    /\ result' = NoError

\* forEach(0, fn) touches nothing.
BeginEmpty ==
    /\ phase = "idle"
    /\ result' = NoError
    /\ UNCHANGED <<phase, count, task>>

\* Some thread enters fn(i).  Two calls of fn may be in progress at once.
Start(i) ==
    /\ phase = "busy"
    /\ i < count
    /\ task[i] = "todo"
    /\ task' = [task EXCEPT ![i] = "running"]
    /\ UNCHANGED <<phase, count, result>>

\* fn(i) returns, or ends by an exception.
End(i, how) ==
    /\ phase = "busy"
    /\ task[i] = "running"
    /\ task' = [task EXCEPT ![i] = how]
    /\ UNCHANGED <<phase, count, result>>

Threw == {i \in Indices : i < count /\ task[i] = "threw"}

\* forEach returns, or rethrows the exception of one of the calls.
Return ==
    /\ phase = "busy"
    /\ \A i \in Indices : i < count => task[i] \in Ended
    /\ IF Threw = {} THEN result' = NoError ELSE result' \in Threw
    /\ phase' = "idle"
    /\ count' = 0
    /\ UNCHANGED task

Next ==
    \/ \E n \in 1 .. MaxTasks : Begin(n)
    \/ BeginEmpty
    \/ \E i \in Indices : Start(i)
    \/ \E i \in Indices, how \in Ended : End(i, how)
    \/ Return

Spec == Init /\ [][Next]_vars
==============================================================================
