SPECIFICATION Spec
CONSTANTS
    TimeSyncModes = {TRUE}
    GiAllCaModes = {FALSE}
    Points = {"TM-1"}
    ListLengths = {0, 2}
    GiTime = 1
    GiCycle = 0
    SyncPeriod = 1
    Window = 2
PROPERTY SyncAfterActivation
