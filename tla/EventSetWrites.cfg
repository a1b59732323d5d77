SPECIFICATION FairSpec
CONSTANTS
    Providers = {"jmap", "caldav", "google", "graph"}
    Positions = {"p1", "p2"}
    Edits = {"x1"}
    Kinds = {"series", "rule", "reset", "occurrence", "exclude", "create", "delete"}
    MaxFailures = 2
CHECK_DEADLOCK FALSE
INVARIANTS UnseenSurvives OnlyPlannedContent CopyIsWhole
PROPERTY CreationCompletes
