\* Two concurrent calls of decide, one of which raises, and an arbiter beside them.
CONSTANTS
    t1 = t1
    t2 = t2
    r1 = r1
    p1 = p1
    p2 = p2
    Threads <- TwoThreads
    Contexts <- TwoPaths
    MaxLeaks = 1
    Arbiters <- OneArbiter
    Policies <- SoftAndHard
    Weights <- DefaultAndMore
SPECIFICATION OrchestratorSpec
INVARIANTS
    TypeOK
    StackAccountsForCalls
    LoneCallGovernsItself
    ArbitrationTypeOK
    EveryConflictAnswered
    ComparedAsHeld
SYMMETRY Symmetry
