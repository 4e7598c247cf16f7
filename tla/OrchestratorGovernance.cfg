\* Overlapping calls that end in the order they began.
CONSTANTS
    t1 = t1
    t2 = t2
    t3 = t3
    Threads <- ThreeThreads
    Contexts <- AllPaths
    MaxLeaks = 0
SPECIFICATION Spec
INVARIANTS
    HighestRigorGoverns
