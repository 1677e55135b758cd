SPECIFICATION SpecWhileRunning
CONSTANTS
    N = 2
    AutoConnect = {1}
    AutoStart = {1}
    MayFail = {}
    GiTimeout = FALSE
    QualityPolls = 1
    BackupPolls = 1
    DelayPolls = 1
PROPERTIES
    BackupIsConnected
    UnneededIsTrimmed
    OpenIsActivated
