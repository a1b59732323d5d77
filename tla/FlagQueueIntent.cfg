SPECIFICATION Spec
CONSTANTS
    Refs = {"a", "b"}
    FolderOf <- MCFolderOf
    Flags = {"seen", "flagged"}
    InitFlags = {"flagged"}
    FlagSets = {{"seen"}, {"flagged"}}
    MaxCommands = 3
    MaxPending = 1
    MaxFailures = 2
CHECK_DEADLOCK FALSE
INVARIANTS IntentPreserved DeletesPreserved RowsReadBack
