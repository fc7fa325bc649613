SPECIFICATION Spec
CONSTANTS
    Core = {0, 1}
    Event = {0, 1}
    Elw = {"trigger_wait_clear"}
    ResumeCycles = 3
    Barrier = {0}
    barrier_event = 0
    irq_event = 1
    Plans <- TwicePlans
INVARIANT NoEarlyRelease
