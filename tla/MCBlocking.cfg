\* One request less than a circular wait needs; everything ends settled.
SPECIFICATION Spec
CONSTANTS
    m1 = m1
    m2 = m2
    m3 = m3
    m4 = m4
    m5 = m5
    m6 = m6
    s1 = s1
    s2 = s2
    None = None
    Msgs = {m1, m2, m3, m4, m5, m6}
    Streams = {s1}
    StreamOf <- OneStream
    Crc32 <- Checksums
    NumSig = 1
    NumRtc = 1
    PipeCap = 2
    MaxConns = 3
    MaxCerts = 1
SYMMETRY Symmetry
CHECK_DEADLOCK FALSE
INVARIANT NoCircularWait
