\* Every behaviour ends after MaxStreams requests.
SPECIFICATION Spec
CONSTANTS
    Names = {n1, n2}
    MaxStreams = 4
    None = None
CHECK_DEADLOCK FALSE
INVARIANTS
    PayloadsDescribed
    ReceivesWhatIsPushed
    IceOnlyWithDtls
    AnswerFits
