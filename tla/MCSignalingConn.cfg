\* Clients connect once, so every behaviour ends.
SPECIFICATION Spec
CONSTANTS
    Clients = {c1, c2, c3}
    Addrs = {a1, a2, a3}
    Unruly = {}
    None = None
    NumSig = 2
    MaxFd = 2
SYMMETRY Symmetry
CHECK_DEADLOCK FALSE
INVARIANTS
    TypeOK
    TableSound
    NoFdLeak
    UnambiguousAnswers
