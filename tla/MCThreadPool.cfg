\* Three workers, jobs of up to 3 tasks, two jobs and then the destructor.  No
\* symmetry: it is not sound for liveness.
CONSTANTS
    w1 = w1
    w2 = w2
    w3 = w3
    Workers = {w1, w2, w3}
    MaxTasks = 3
    MaxCalls = 2
    SpawnMayFail = TRUE
SPECIFICATION FairSpec
INVARIANTS
    TaskRunsItsJob
    NoLostWakeup
    IInv
PROPERTIES
    JobNotWrittenWhileRead
    Contract
    ForEachReturns
    DestructorReturns
