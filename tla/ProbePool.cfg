CONSTANTS
    MaxCalls = 2
    Sizes <- TwoThenOne
    ProbeWorkers = 2
    Resolvers = 1
    MaxRedirects = 1
SPECIFICATION FairSpec
INVARIANTS TypeOK ReportIsTrue
PROPERTIES CallEnds Served
CHECK_DEADLOCK FALSE
