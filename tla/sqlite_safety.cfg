SPECIFICATION Spec
CONSTANTS
    k1 = k1  k2 = k2  b1 = b1  b2 = b2  r1 = r1  r2 = r2  r3 = r3  r4 = r4
    None = None
    Keys = {k1}
    Bodies = {b1, b2}
    Requests = {r1, r2, r3}
    Getters = {g1}
    Reconcilers = {c1}
    EventIds = {e1, e2}
    KeyOf <- MCKeyOf
    BodyOf <- MCBodyOf
INVARIANTS TypeOK Coherent AtMostOneCharge ReplayIsSameRequest StoredOutcomeIsTrue ConsumedEventIsApplied SettledHasNoAction
PROPERTY PromiseKept
CHECK_DEADLOCK FALSE
