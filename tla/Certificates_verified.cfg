SPECIFICATION FairSpec
CONSTANTS
    Names = {"root", "middle", "leaf"}
    Keys = {"k1", "k2", "k3", "k4"}
    KeySize <- Sizes
    Chains <- SomeChains
    Stores <- SomeStores
    Junk = Junk
INVARIANTS TypeOK VerifiedIsSigned AcceptedIsVerified FirstNamesakeCounts
PROPERTY Decided
CHECK_DEADLOCK FALSE
