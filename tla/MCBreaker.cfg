SPECIFICATION Spec
CONSTANTS
    Limits <- MCLimits
    MaxOutcomes = 8
CHECK_DEADLOCK FALSE
INVARIANT RingIsRecentHistory
PROPERTY ImplementsHistory
