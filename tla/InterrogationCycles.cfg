SPECIFICATION Safety
CONSTANTS
    TimeSyncModes = {TRUE, FALSE}
    GiAllCaModes = {TRUE, FALSE}
    Points = {"TM-1"}
    ListLengths = {0, 2}
    GiTime = 1
    GiCycle = 1
    SyncPeriod = 1
    Window = 2
INVARIANTS
    TypeOK
    AwaitedIsWatched
    AnsweredNotInvalid
