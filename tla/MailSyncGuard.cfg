SPECIFICATION FairSyncSpec
CONSTANTS
    Callers = {c1, c2, c3}
    Kinds = {"trigger", "folder", "prefetch"}
    MaxOthers = 3
INVARIANTS SyncExclusive RequestRemembered
PROPERTY RequestServed
