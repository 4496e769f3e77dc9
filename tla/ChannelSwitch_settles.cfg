SPECIFICATION FairSpec
CONSTANTS
    Channels = {1, 5}
    Default = 5
    Delay = 1
    Checkers = {"cron", "olsrd"}
    Boot0 = "olsrd"
    NoRecord = NoRecord
    Empty = Empty
    Off = Off
    Partial = {NoRecord, Empty}
    MaxFaults = 2
INVARIANTS TypeOK TunedAsConfigured
PROPERTIES ScheduledSwitchHappens Settles
