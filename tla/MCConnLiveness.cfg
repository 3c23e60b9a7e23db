\* Clients connect once, so every behaviour ends.
SPECIFICATION FairSpec
CONSTANTS
    Clients = {c1, c2}
    Addrs = {a1, a2}
    Unruly = {c1, c2}
    None = None
    NumSig = 2
    MaxFd = 1
CHECK_DEADLOCK FALSE
PROPERTY DescriptorsReturned
