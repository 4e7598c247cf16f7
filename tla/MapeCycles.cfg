\* Two threads publish breaches and run overlapping cycles; hooks and the callback may raise.
\* Two events with one cycle, or one event with two.
CONSTANTS
    t1 = t1
    t2 = t2
    Unbounded = Unbounded
    None = None
    Threads <- TwoThreads
    Rules <- TwoMetricRules
    Events <- Readings
    AlertLists <- NoneOrOneAnomaly
    Metrics <- MetricPairs
    Weights <- CautiousWeights
    HasCallback = TRUE
    MaxEvents = 2
    MaxCycles = 2
    MinSamples = 2
SPECIFICATION Spec
CONSTRAINT OneEventOrOneCycle
INVARIANTS
    TypeOK
    StoresAgree
    EnactedOnlyWithConsent
    CycleAccountsForPlans
    NoBreachMissed
    DefaultPlansAreAutonomous
    RelaxRestsOnConsent
SYMMETRY Symmetry
CHECK_DEADLOCK FALSE
