SPECIFICATION Spec
CONSTANTS
    Core = {0, 1, 2}
    Event = {0}
    size = 2
    Master = 0
    dispatch_event = 0
    MaxPush = 4
INVARIANTS
    InOrder
    SleepsAtHead
PROPERTIES
    EachDelivered
