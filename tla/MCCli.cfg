\* Two files of up to two blocks and two commands.
CONSTANTS
    Paths = {"a", "b"}
    MaxBlocks = 2
    MaxRuns = 2
SPECIFICATION FairSpec
INVARIANTS
    Delivered
    OutputSpared
PROPERTIES
    Exits
