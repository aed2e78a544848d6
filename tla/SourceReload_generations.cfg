CONSTANTS
    LineCount = 2
    MaxRevision = 2
    ListOf <- MCListOf
    MaxFaults = 1
    MaxSwitches = 1
SPECIFICATION Spec
INVARIANTS TypeOK GenerationsAgree NoForgottenList
