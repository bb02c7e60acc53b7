SPECIFICATION FairSpec
CONSTANTS
    Second = 10
    Rates <- MCRates
    Counts <- MCCounts
    MaxDelay = 5
INVARIANT
    SpacedByInterval
