SPECIFICATION Spec
CONSTANTS
    Ciphers <- TwoCiphers
    CertLen = 40
    KeyLen = 48
    Free = {60, 140, 500}
    MaxEvents = 4
    MaxIgnored = 1
CHECK_DEADLOCK FALSE
INVARIANTS
    TypeOK
    DoneMeansAgreed
    NoSpuriousFailure
    ClosedAfterAll
PROPERTIES
    InOrderOnce
    HandshakeCompletes
