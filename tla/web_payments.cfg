SPECIFICATION CallsSpec
CONSTANTS
    r1 = r1  r2 = r2  k1 = k1  k2 = k2  u1 = u1  u2 = u2  b1 = b1  b2 = b2
    c1 = c1  c2 = c2  h1 = h1  h2 = h2  g1 = g1
    Demo = Demo  None = None  Nothing = Nothing
    Requests = {r1, r2}
    Keys = {k1, k2}
    Users = {u1, u2, Demo}
    Bodies = {b1, b2}
    Hooks = {h1, h2}
    Getters = {g1}
    Calls = {c1, c2}
    MaxRetries = 1
    Scenes <- MCScenes
INVARIANTS
    AnsweredIsListed ConflictIsAnothers 
    SimulatedOnlyCutOff SecondOrderOnlyCutOff CallMakesOnePayment
CHECK_DEADLOCK FALSE
