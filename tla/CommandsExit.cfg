SPECIFICATION Safety
CONSTANTS
    Conns = {c1}
    Senders = {s1}
    Addresses = {single}
    Setpoints = {}
    Commands = {k1}
    CmdParallel = 1
    CmdExecTimeout = 1
    None = None
INVARIANTS
    ExitReleases
