\* Every behaviour ends: MaxItems items are produced and consumed.
SPECIFICATION FairSpec
CONSTANT MaxItems = 4
CHECK_DEADLOCK FALSE
INVARIANTS
    MemorySafe
    NoMissedWakeup
    NothingLeaks
    SizeCountsBacklog
PROPERTIES
    IsFifo
    EveryItemTaken
