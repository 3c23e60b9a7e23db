\* The raw certificate pointer of a message against a renewal in between.
SPECIFICATION Spec
CONSTANTS
    m1 = m1
    m2 = m2
    m3 = m3
    m4 = m4
    m5 = m5
    m6 = m6
    s1 = s1
    s2 = s2
    None = None
    Msgs = {m1, m2, m3}
    Streams = {s1, s2}
    StreamOf <- TwoStreams
    Crc32 <- Checksums
    NumSig = 2
    NumRtc = 2
    PipeCap = 1
    MaxConns = 1
    MaxCerts = 2
CHECK_DEADLOCK FALSE
INVARIANT CertificateStillAlive
