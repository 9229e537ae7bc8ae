SPECIFICATION Spec
CONSTANTS
    Inputs <- MCInputs
    ResetVector = 64738
    Snapshots <- MCSnapshots
    MaxSteps = 1
    MaxSaves = 1
PROPERTIES ImplementsMos6502
CHECK_DEADLOCK FALSE
