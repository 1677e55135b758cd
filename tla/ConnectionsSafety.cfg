SPECIFICATION Safety
CONSTANTS
    N = 2
    AutoConnect = {1}
    AutoStart = {1}
    MayFail = {2}
    GiTimeout = TRUE
    QualityPolls = 1
    BackupPolls = 1
    DelayPolls = 1
INVARIANTS
    TypeOK
    OnlyActiveCarries
    NoUseOfNullHandle
    ConnectedTellsSession
    NoOrphanSession
PROPERTIES
    OneStartDtPerSession
    Refinement
