CONSTANTS
    URLs <- MCURLs
    SourceLists <- TwoSourceList
    IndexPeriod = 2
    MaxConnections = 2
    MaxSignals = 0
    RetryDelay <- UnitRetryDelay
    QuarantineDelay <- UnitQuarantineDelay
SPECIFICATION FairSpec
PROPERTIES QuarantinedIsProbed
