SPECIFICATION ServerSpec
CONSTANTS
    Requests = {r1, r2}
    Servers = {1}
    NSlots = 2
    MaxTokens = 3
    HeaderWrites = {TRUE, FALSE}
    None = None
INVARIANTS SlotNeverBusy
CHECK_DEADLOCK FALSE
