SPECIFICATION Spec
CONSTANTS
    Requests = {r1, r2, r3, r4}
    Capacity = 2
    MaxQueue = 2
    None = None
SYMMETRY RequestSymmetry
INVARIANTS TypeOK SlotsShared QueueIsWaiters WorkConserving QueueBounded CountersAgree
PROPERTIES NoOvertaking ImplementsSlotPool
CHECK_DEADLOCK FALSE
