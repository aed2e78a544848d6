CONSTANTS
    LineCount = 1
    MaxConnections = 2
    Bases <- OneBase
    Rates <- LowRate
    MaxBytes = 0
    MaxFaults = 1
    MaxSwitches = 0
SPECIFICATION FairScaleSpec
PROPERTIES LowRateGrows
