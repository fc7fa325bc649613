SPECIFICATION Spec
CONSTANTS
    Core = {0, 1, 2}
    Event = {0, 1}
    Elw = {"trigger_wait", "trigger_wait_clear", "wait_clear"}
    ResumeCycles = 3
    Barrier = {0, 1}
    barrier_event = 0
    irq_event = 1
    Plans <- MCPlans
INVARIANTS
    NoEarlyRelease
    StatusIsArrivals
    ReleaseConsumed
    NoLostWakeup
PROPERTIES
    AllPass
