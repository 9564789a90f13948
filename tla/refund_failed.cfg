SPECIFICATION Spec
CONSTANTS
    f1 = f1  f2 = f2  f3 = f3
    Total = 3
    Calls = {f1, f2, f3}
INVARIANT RefundedMeansPaidBack
SYMMETRY Symmetry
CHECK_DEADLOCK FALSE
