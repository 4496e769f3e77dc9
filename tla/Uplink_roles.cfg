SPECIFICATION FairSpec
CONSTANTS
    Predef = "auto"
    Loops = {"first", "second"}
    MaxFails = 1
    Attempts = 1
    MaxEvents = 4
INVARIANT GivingUpEndsInReboot
PROPERTIES GatewayComesBack GatewayFallsBack StrandedRetries
