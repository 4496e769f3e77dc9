SPECIFICATION Spec
CONSTANTS
    DIGIT_BIT = 3
    BYTE = 2
    HASH_BLOCK = 8
    HASH_LENGTH = 2
    ROUNDS = 4
    SP <- MCSP
    ARC4_STATE = 16
    ARC4_MAX_BYTES = 6
    MAX_CHAIN_LENGTH = 6
    Files <- MCFiles
    Described <- MCDescribed
    Pairs <- MCPairs
    Powers <- MCPowers
    RsaInputs <- MCRsaInputs
    Certificates <- MCCertificates
    FileCalls <- MCFileCalls
    Streams <- MCStreams
INVARIANTS
    ArithmeticIsRight
    PowersAreRight
    RsaInverts
    ReadsWhatWasWritten
    LoadsAllThatIsGood
    SplitsDoNotMatter
CHECK_DEADLOCK FALSE
