SPECIFICATION CommandSpec
CONSTANTS
    Profiles <- MCProfiles
    Budgets <- MCBudgets
    MaxUnits = 3
    Limits <- MCLimits
    MaxConcurrency = 2
INVARIANTS
    SuccessIsComplete
    RecordSurvivesExit
    ExitFourHonest
