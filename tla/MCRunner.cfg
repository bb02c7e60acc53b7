SPECIFICATION HangSpec
CONSTANTS
    Profiles <- MCProfiles
    Budgets <- MCBudgets
    MaxUnits = 3
    Limits <- MCLimits
    MaxConcurrency = 2
INVARIANTS
    SlotsConserved
    OneRowPerUnit
    DrainedMeansSettled
    OutcomeHonest
    OvershootBounded
PROPERTIES
    RunReturns
    SignalReturns
