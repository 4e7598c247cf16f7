\* Evaluations, checks and heartbeats of two threads race with the clock.
CONSTANTS
    t1 = t1
    t2 = t2
    Threads <- TwoThreads
    Risks <- BoundaryRisks
    Timeout = 1
    MaxClock = 5
SPECIFICATION Spec
INVARIANTS
    TypeOK
    FlagMeansSilence
    SilenceSuspends
    NoFalseSuspension
SYMMETRY Symmetry
