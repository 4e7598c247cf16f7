\* Two threads call the facade; fields of entries are overwritten while the chain is verified.
CONSTANTS
    t1 = t1
    t2 = t2
    m1 = m1
    m2 = m2
    a1 = a1
    NoSubject = NoSubject
    Threads <- TwoThreads
    Verifiers <- OneVerifier
    Memories <- OneMemory
    AlertIds <- OneAlert
    Readings <- LowAndHigh
    WindowSize = 2
    Upper = 1
    Lower = 1
    MaxEntries = 3
    MaxCycles = 2
    Shared <- CycleRecords
    MaxOverwrites = 2
    MaxRaises = 1
SPECIFICATION Spec
INVARIANTS
    TypeOK
    LedgerTellsEffects
    ValidMeansUnaltered
    BrokenNamesAltered
    BreachAtRestWasAlerted
    NewestCycleIsRecorded
