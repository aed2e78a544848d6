CONSTANTS
    LineCount = 1
    MaxRevision = 3
    ListOf <- MCListOf
    MaxFaults = 2
    MaxSwitches = 1
SPECIFICATION FairSpec
PROPERTIES PendingIsApplied EnginesComeBack
