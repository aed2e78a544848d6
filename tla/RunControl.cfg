CONSTANTS
    LineCount = 1
    MaxConnections = 2
    Bases <- AnyBase
    Rates <- AnyRate
    MaxBytes = 1
    MaxFaults = 1
    MaxSwitches = 2
SPECIFICATION FairSpec
INVARIANTS BytesNotInvented
PROPERTIES TodayNeverFalls SwitchObeyed
