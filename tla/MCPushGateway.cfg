\* Every request ends and every chain of the page comes to its end.
SPECIFICATION PageSpec
CONSTANTS
    Requests = {r1, r2}
    NumServers = 2
    None = None
INVARIANTS
    DocumentsPerRequest
    ConnectionsClosed
    FairShare
    StopReaches
    AnswersItsOffer
PROPERTIES
    EveryRequestEnds
CHECK_DEADLOCK FALSE
