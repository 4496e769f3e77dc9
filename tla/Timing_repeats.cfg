SPECIFICATION FairSpec
CONSTANTS
    Rates = {5, 10}
    Windows = {"3-5"}
    Forces = {"never", "daily", "unreadable"}
    Never = "never"
    Valid = {"daily"}
    None = None
    MaxKills = 0
    MaxEvents = 1
PROPERTY CheckinsRepeat
