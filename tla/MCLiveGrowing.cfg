SPECIFICATION LiveSpec
CONSTANTS
    r1 = r1
    r2 = r2
    r3 = r3
    None = None
    Parts = {"pool"}
    Workers = {w1, w2}
    MaxJobs = 3
    BatchSizes <- Growing
    Unset = Unset
INVARIANTS NoStaleGrab
CHECK_DEADLOCK FALSE
