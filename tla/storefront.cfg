SPECIFICATION FrontSpec
CONSTANTS
    PayIds = {"p1", "p2"}
    OrderRefs = {"m1", "m2"}
    Baskets <- MCBaskets
    DirectKeys = {"stripe"}
    Checkouts = {"c1"}
    Statuses = {"q1"}
    Settlements = {"s1"}
    MaxRestarts = 1
    MaxFaults = 1
    MaxPollErrors = 2
    Backends = {"typescript", "php"}
    Products = {"pro", "starter"}
    Carriers = {"vodafone", "we"}
    Methods = {"cards", "wallet", "fawry", "stripe", "mock"}
    Uses <- MCUses
    HcIds = {"h1", "h2"}
    HcMethods = {"card", "fawry", "wallet", "mock"}
    HcCurrencies = {"EGP", "USD", "KWD"}
    HcCustom = {0}
    HcSettlements = 3
INVARIANTS
    
    ShownIsFound
    DrawnIsCurrent
    SentIsPayable
    ReceiptIsStored
PROPERTIES
    FinalUndoneOnlyByOverlap
    SettledIsShown
CHECK_DEADLOCK FALSE
