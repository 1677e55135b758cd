SPECIFICATION Spec
CONSTANTS
    TimeSyncModes = {FALSE}
    GiAllCaModes = {TRUE, FALSE}
    Points = {}
    ListLengths = {1}
    GiTime = 1
    GiCycle = 0
    SyncPeriod = 1
    Window = 2
PROPERTIES
    CycleEnds
    SessionInterrogated
    EndOfInitServed
    RequestServed
    ReportSettles
