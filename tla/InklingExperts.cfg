SPECIFICATION Spec
CONSTANTS
    Experts = {1, 2, 3}
    Cap = 2
    Reserve = 1
    MaxPins = 1
    MaxPositions = 2
    TopK = 2
    MaxCalls = 2
    NoExpert = 0
INVARIANTS RoundsKeepTheirSlots
CHECK_DEADLOCK FALSE
