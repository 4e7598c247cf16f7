\* A veto and a sweep race over one L2 notification.
CONSTANTS
    a1 = a1
    a2 = a2
    c1 = c1
    c2 = c2
    p1 = p1
    NoAlert = NoAlert
    Alerts <- OneAlert
    Clients <- TwoClients
    Pollers <- OnePoller
    RaisedLevels <- Gated
    Reachable <- Nobody
    WindowL2 = 1
    WindowL3 = 1
    WindowL4 = 1
    MaxClock = 2
SPECIFICATION Spec
PROPERTIES
    AutoApproveOnlyIfNoVeto
