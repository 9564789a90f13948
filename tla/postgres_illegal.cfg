SPECIFICATION Spec
CONSTANTS
    k1 = k1  b1 = b1  b2 = b2  r1 = r1  r2 = r2  e1 = e1  e2 = e2  h1 = h1  h2 = h2
    None = None
    Keys = {k1}
    Bodies = {b1, b2}
    Requests = {r1}
    Getters = {}
    Reconcilers = {c1}
    EventIds = {e1, e2}
    Hooks = {h1, h2}
    KeyOf <- MCKeyOf
    BodyOf <- MCBodyOf
PROPERTY TerminalIsNeverReopened
CHECK_DEADLOCK FALSE
