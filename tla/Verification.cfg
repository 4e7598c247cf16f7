\* Two threads run the pipeline, register rules and activate learned ones.
CONSTANTS
    t1 = t1
    t2 = t2
    good = good
    bad = bad
    NoContent = NoContent
    NoRule = NoRule
    Threads <- TwoThreads
    Contents <- TwoContents
    Rules <- SharedIds
    MaxRetries = 1
    MaxRecords = 2
SPECIFICATION Spec
INVARIANTS
    TypeOK
    VerifiedObeysStandingRules
    RecordNamesEveryRule
    GivesUpAfterRetries
SYMMETRY Symmetry
