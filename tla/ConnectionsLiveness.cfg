SPECIFICATION Spec
CONSTANTS
    N = 1
    AutoConnect = {1}
    AutoStart = {}
    MayFail = {1}
    GiTimeout = TRUE
    QualityPolls = 2
    BackupPolls = 2
    DelayPolls = 3
PROPERTIES
    OutageIsReported
    StopTerminates
