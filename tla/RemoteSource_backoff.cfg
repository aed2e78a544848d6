CONSTANTS
    MaxRevision = 1
    ListOf <- MCListOf
    MaxFaults = 1
SPECIFICATION Spec
INVARIANTS FailedRefreshWaits
