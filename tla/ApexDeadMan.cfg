\* A cycle runs while the dead-man switch is active.
CONSTANTS
    t1 = t1
    o1 = o1
    Unbounded = Unbounded
    None = None
    Threads <- OneThread
    Overseers <- OneOverseer
    Rules <- OneMetricRule
    Events <- OneReading
    AlertLists <- NoAnomaly
    Metrics <- NoMetrics
    Weights <- DefaultWeights
    Risks <- OneSignificantRisk
    HasCallback = TRUE
    MinSamples = 5
    Timeout = 1
    MaxEvents = 1
    MaxCycles = 1
    MaxClock = 2
SPECIFICATION Spec
PROPERTIES
    DeadManSuspends
CHECK_DEADLOCK FALSE
