SPECIFICATION DiligentSpec
CONSTANTS
    k1 = k1  k2 = k2  b1 = b1  b2 = b2  r1 = r1  r2 = r2  r3 = r3  r4 = r4
    None = None
    Keys = {k1}
    Bodies = {b1, b2}
    Requests = {r1}
    Getters = {g1}
    Reconcilers = {c1}
    EventIds = {e1}
    KeyOf <- MCKeyOf
    BodyOf <- MCBodyOf
PROPERTY UnknownIsResolved
CHECK_DEADLOCK FALSE
