SPECIFICATION FairSpec
CONSTANTS
    c1 = c1
    c2 = c2
    c3 = c3
    Callers <- MCCallers
    Budgets <- MCBudgets
    HardCaps <- MCHardCaps
INVARIANTS
    NoDoubleIssue
    WithinCap
    RemainingHonest
    LateIssuesBounded
PROPERTIES
    RefusalIsFinal
    ImplementsBudget
    AcquireReturns
