SPECIFICATION FairSpec
CONSTANTS
    Protocols = {"imap"}
    MaxKey = 2
    PageSize = 1
    MaxPages = 1
    MaxEpoch = 1
    MaxChanges = 1
    MaxFailures = 0
    UserOps = {}
    Filed = {}
    None = None
PROPERTY FlagsMirrored
