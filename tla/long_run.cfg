SPECIFICATION LongSpec
CONSTANTS
    k1 = k1  k2 = k2  b1 = b1  b2 = b2  r1 = r1  r2 = r2  r3 = r3  r4 = r4
    None = None
    Keys = {k1, k2}
    Bodies = {b1, b2}
    Requests = {r1, r4}
    Getters = {}
    Reconcilers = {c1}
    EventIds = {}
    KeyOf <- MCKeyOf
    BodyOf <- MCBodyOf
    ObEvents = {"e1", "e2"}
    ObEndpoints <- MCEndpoints
    ObWanted = {"p1", "p2"}
    ObCapacity = 1
    ObFaults = 1
    MbRows = {"m1", "m2", "m3"}
    BatchLimit = 2
    MaxRetries = 2
    MbSetups <- MCSetups
    MbQueue = 1
    MbFaults = 1
INVARIANT AcceptedEventSurvives
PROPERTIES
    SettlesWithReference
    ReconcilerReachesAll
    LedgerIsPosted
CHECK_DEADLOCK FALSE
