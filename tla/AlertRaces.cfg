\* Three threads, one of them polling, race over one request of any level; two of them
\* raise two alerts at once.
CONSTANTS
    a1 = a1
    a2 = a2
    c1 = c1
    c2 = c2
    p1 = p1
    NoAlert = NoAlert
    Alerts <- TwoAlerts
    Clients <- TwoClients
    Pollers <- OnePoller
    RaisedLevels <- Gated
    Reachable <- OnlyPush
    WindowL2 = 1
    WindowL3 = 1
    WindowL4 = 1
    MaxClock = 2
SPECIFICATION Spec
CONSTRAINT OneUndeliveredOrUnanswered
INVARIANTS
    TypeOK
    NoGatedAutoApproval
    WokenFindsDecision
    SweepSparesDecided
    CriticalAlertFreezes
    AlertWasAttempted
PROPERTIES
    ApprovalPromise
SYMMETRY Symmetry
