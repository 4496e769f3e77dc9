SPECIFICATION Spec
CONSTANTS
    Order <- ThreeSections
    Reboots = {"wireless"}
    Portal = {"nodog"}
    Level = {"nodog"}
    Reread = {"nodog", "nodes"}
    AtBoot = {"wireless", "nodog"}
    Values = {0, 1}
    Factory = 0
    NoFile = NoFile
    Empty = Empty
    Faults = {"power", "down"}
    MaxFaults = 3
    MaxEdits = 2
INVARIANT EmptyReplyMeansInSync
