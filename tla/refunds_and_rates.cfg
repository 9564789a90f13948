SPECIFICATION LimitsSpec
CONSTANTS
    f1 = f1  f2 = f2  f3 = f3
    Total = 3
    Calls = {f1, f2, f3}
    RlSecond = 4
    RlRates = {0, 3}
    RlReplicas = {"a", "b"}
    RlMaxTime = 11
    RlMaxCount = 4
INVARIANTS
    RefundOnlyPaid
    StatusHasRefund
    SerialRefundsExact
    AdmissionsBounded
SYMMETRY Symmetry
CHECK_DEADLOCK FALSE
