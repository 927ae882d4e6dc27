SPECIFICATION ServerSpec
CONSTANTS
    Requests = {r1, r2, r3}
    Servers = {1, 2}
    NSlots = 2
    MaxTokens = 3
    HeaderWrites = {TRUE}
    None = None
SYMMETRY Interchangeable
INVARIANTS ServerTypeOK FramesInOrder NoOrphan LateStopIsSilent EngineSlotsAreHeld SlotNeverBusy
CHECK_DEADLOCK FALSE
