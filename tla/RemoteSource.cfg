CONSTANTS
    MaxRevision = 3
    ListOf <- MCListOf
    MaxFaults = 4
SPECIFICATION FairSpec
INVARIANTS DurableBeforeUse ControllerFollows EtagNamesEnvelope
PROPERTIES NeverRollsBack RevisionsArrive
