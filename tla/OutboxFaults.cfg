SPECIFICATION Spec
CONSTANTS
    MaxRows = 2
    MaxRetries = 2
    MaxManual = 1
    EffectCap = 3
    Legacy = 1
    LocalKinds = {"copy"}
    Faults = {"crash", "db"}
CHECK_DEADLOCK FALSE
INVARIANTS TypeOK AtMostOnceDelivery PendingSendIsUndelivered DeadDeliveredIsFlagged
PROPERTIES ClaimProtectsRow ImplementsDelivery
