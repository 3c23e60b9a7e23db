\* The process ends, or nothing happens in it any more.
SPECIFICATION FairSpec
CONSTANTS
    NumSig = 2
    MaxEvents = 3
CHECK_DEADLOCK FALSE
INVARIANTS
    StopInOrder
    QuietStop
    LogExact
PROPERTIES
    QuitIsHonoured
    LogKeepsUp
