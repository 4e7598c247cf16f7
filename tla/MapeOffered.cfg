\* The callback of the host and the plans that are enacted without it.
CONSTANTS
    t1 = t1
    t2 = t2
    Unbounded = Unbounded
    None = None
    Threads <- TwoThreads
    Rules <- TwoMetricRules
    Events <- Readings
    AlertLists <- NoneOrOneAnomaly
    Metrics <- MetricPairs
    Weights <- CautiousWeights
    HasCallback = TRUE
    MaxEvents = 1
    MaxCycles = 2
    MinSamples = 2
SPECIFICATION Spec
INVARIANTS
    EnactedWasOffered
CHECK_DEADLOCK FALSE
