\* A client and a poller under fairness, over channels that may fail.
CONSTANTS
    a1 = a1
    a2 = a2
    c1 = c1
    c2 = c2
    p1 = p1
    NoAlert = NoAlert
    Alerts <- OneAlert
    Clients <- OneClient
    Pollers <- OnePoller
    RaisedLevels <- Gated
    Reachable <- PushAndVoice
    WindowL2 = 1
    WindowL3 = 1
    WindowL4 = 1
    MaxClock = 2
SPECIFICATION FairSpec
PROPERTIES
    EveryRequestDecided
    CriticalAlertLeadsToFreeze
