SPECIFICATION Spec
CONSTANTS
    Conns = {c1}
    Senders = {s1}
    Addresses = {single, double}
    Setpoints = {}
    Commands = {k1, k2}
    CmdParallel = 2
    CmdExecTimeout = 1
    None = None
PROPERTIES
    SlotFreed
    SenderReturns
    StopReturns
    CommandEnds
