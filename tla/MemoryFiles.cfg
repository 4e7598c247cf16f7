\* Two threads remember, forget and recall; calls fail and the process restarts anywhere.
CONSTANTS
    t1 = t1
    t2 = t2
    e1 = e1
    e2 = e2
    e3 = e3
    NoThread = NoThread
    NoEntry = NoEntry
    Threads <- TwoThreads
    Entries <- ThreeEntries
    RepositoryEntries <- TwoOfRepository
    MaxCopies = 2
SPECIFICATION Spec
INVARIANTS
    TypeOK
    SafeIsStored
    ForgetLeavesNoCopy
    RecallMissesNothing
SYMMETRY Symmetry
