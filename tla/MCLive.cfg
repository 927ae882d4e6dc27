SPECIFICATION LiveSpec
CONSTANTS
    r1 = r1
    r2 = r2
    r3 = r3
    None = None
    Parts = {"server", "queue", "pool"}
    Workers = {w1, w2}
    MaxJobs = 3
    BatchSizes <- Shrinking
    Unset = Unset
INVARIANTS UsesTheRightExpert NoStaleGrab
PROPERTIES RequestsEnd WaitersServed AllBatchesComplete
CHECK_DEADLOCK FALSE
