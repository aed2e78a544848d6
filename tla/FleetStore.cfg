CONSTANTS
    Interfaces <- TwoInterfaces
    MinuteLength = 2
    RateTime = 4
    EstimateTime = 3
    KeptTime = 2
    Ceiling = 1
    MaxOctets = 2
    MaxTime = 4
    MaxEvents = 2
SPECIFICATION Spec
INVARIANTS MeasuredOnce ContinuousIsComplete GapIsUnknown AccountedOnce
