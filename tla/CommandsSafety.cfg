SPECIFICATION Safety
SYMMETRY Interchangeable
CONSTANTS
    Conns = {c1, c2}
    Senders = {s1, s2}
    Addresses = {single, setpoint}
    Setpoints = {setpoint}
    Commands = {k1, k2, k3}
    CmdParallel = 2
    CmdExecTimeout = 1
    None = None
INVARIANTS
    TypeOK
    LimitRespected
    EntriesAreAwaited
PROPERTIES
    CommandsAreLeases
