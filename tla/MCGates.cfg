SPECIFICATION Spec
CONSTANTS
    Inputs <- MCInputs
    Commands <- MCCommands
    MaxCommands = 2
    MaxEdits = 1
    DefaultHardCap = 4
    MaxConfigurableHardCap = 6
    Int64Max = 15
    TpsUnit = 2
INVARIANTS
    SpendAuthorised
    StartedFits
    CommandsAgree
    NothingUndisclosed
