SPECIFICATION FairSpec
CONSTANTS
    Core = {0, 1, 2}
    Event = {0}
    Mutex = {m1, m2}
    Value = {v1, v2}
    None = None
    mutex_event = 0
    EvtMask <- MC_EvtMask
INVARIANTS
    MutualExclusion
    ElectsFirst
    NoLostLock
    WaitersSleep
PROPERTIES
    HandsOff
    LowestGetsIt
