SPECIFICATION FairSpec
CONSTANTS
    Order <- ThreeSections
    Reboots = {"wireless"}
    Portal = {"nodog"}
    Level = {"nodog"}
    Reread = {"nodog", "nodes"}
    AtBoot = {"wireless", "nodog"}
    Values = {0, 1}
    Factory = 0
    NoFile = NoFile
    Empty = Empty
    Faults = {"down", "garbage", "power"}
    MaxFaults = 1
    MaxEdits = 2
INVARIANT EmptyReplyMeansInSync
PROPERTY Converges
