CONSTANTS
    Lists = {first, second}
    DayLength = 2
    PublishAt = 1
    MinuteLength = 2
    RetrySeconds <- MCRetrySeconds
    MaxTime = 4
    Grace = 5
    MaxFaults = 2
    MaxChanges = 1
SPECIFICATION FairSpec
INVARIANTS TypeOK BucketBacksClaims NoDayMissed
PROPERTIES BucketMovesForward OneListADay DaysArePublished
