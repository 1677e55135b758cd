SPECIFICATION Safety
CONSTANTS
    Conns = {c1}
    Senders = {s1, s2}
    Addresses = {single}
    Setpoints = {}
    Commands = {k1, k2}
    CmdParallel = 0
    CmdExecTimeout = 1
    None = None
INVARIANTS
    ListProtected
