SPECIFICATION Spec
CONSTANTS
    Rates = {r1, r2}
    Windows = {w1, w2}
    Forces = {"never", "daily", "unreadable"}
    Never = "never"
    Valid = {"daily"}
    None = None
    MaxKills = 2
    MaxEvents = 1
SYMMETRY Symmetry
INVARIANTS TypeOK CronIsComing CrontabFollows WatchdogFed NoStaleSchedule
CHECK_DEADLOCK FALSE
