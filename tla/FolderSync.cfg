SPECIFICATION FairSpec
CONSTANTS
    Protocols = {"imap", "jmap", "graph"}
    MaxKey = 3
    PageSize = 1
    MaxPages = 2
    MaxEpoch = 2
    MaxChanges = 2
    MaxFailures = 1
    UserOps = {"delete", "read"}
    Filed = {2}
    None = None
INVARIANT CheckpointSound
PROPERTIES MirrorConverges NewMailFiltered
