SPECIFICATION FairSpec
CONSTANTS
    Callers = {c1, c2}
    Roles = {"send", "mutate"}
    None = None
    Capacity = 1
    Faults = {"panic", "init", "abort"}
INVARIANTS OneWorker StoppedDuringAction NoWorkerAfterShutdown AcceptedNotLost
PROPERTIES ShutdownCompletes CallersReturn
