SPECIFICATION Spec
CONSTANTS
    Core = {0, 1}
    Event = {0}
    nb_fifo_events = 3
    fifo_soc_event = 0
    SocEvent = {"a", "b"}
    MaxEvents = 5
INVARIANTS
    RingIsFifo
    NobodyOversleeps
PROPERTIES
    EachPopped
