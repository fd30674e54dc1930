\* What happens when the second thread cannot be started.
CONSTANTS
    w1 = w1
    w2 = w2
    Workers = {w1, w2}
    MaxTasks = 2
    MaxCalls = 1
    SpawnMayFail = TRUE
SPECIFICATION Spec
INVARIANT NeverTerminated
