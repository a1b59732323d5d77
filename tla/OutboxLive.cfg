SPECIFICATION FairSpec
CONSTANTS
    MaxRows = 3
    MaxRetries = 2
    MaxManual = 0
    EffectCap = 2
    Legacy = 0
    LocalKinds = {"copy", "delete"}
    Faults = {}
CHECK_DEADLOCK FALSE
INVARIANTS ClaimHeld NoStrandedSend CopyAtMostOnce
PROPERTY QueuedIsResolved
