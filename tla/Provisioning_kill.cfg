SPECIFICATION Spec
CONSTANTS
    Order <- FourSections
    Reboots = {"wireless"}
    Portal = {"nodog", "chilli"}
    Level = {"nodog"}
    Reread = {"nodog", "chilli", "nodes"}
    AtBoot = {"wireless", "nodog"}
    Values = {0, 1}
    Factory = 0
    NoFile = NoFile
    Empty = Empty
    Faults = {"kill", "lost", "down", "garbage", "power", "hang"}
    MaxFaults = 2
    MaxEdits = 2
INVARIANTS TypeOK ChangeIsPending StoppedPortalIsFlagged
