CONSTANTS
    URLs <- MCURLs
    SourceLists <- SwitchedLists
    IndexPeriod = 1
    MaxConnections = 2
    MaxSignals = 2
    RetryDelay <- UnitRetryDelay
    QuarantineDelay <- UnitQuarantineDelay
SPECIFICATION FairSpec
INVARIANTS ProbeOwned NoRecordOutsideList StayingWithinTarget
PROPERTIES QuarantineNotExtended BreakerSpec PoolSettles
