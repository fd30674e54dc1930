\* One command on two files.
CONSTANTS
    Paths = {"a", "b"}
    MaxBlocks = 1
    MaxRuns = 1
SPECIFICATION Spec
INVARIANTS
    ExitTellsTruth
