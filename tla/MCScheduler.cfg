SPECIFICATION FairSpec
CONSTANTS
    Second = 10
    Rates <- MCRates
    Counts <- MCCounts
    MaxDelay = 5
INVARIANTS
    RateCap
    BacklogDrains
    SendBurst
PROPERTY RunReturns
