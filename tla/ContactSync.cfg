CONSTANTS
    Providers = {"google", "graph", "jmap", "carddav"}
    Events = 3
SPECIFICATION MCSpec
INVARIANT NoTwin
PROPERTY LivingContactsKept ContactsMirrored
