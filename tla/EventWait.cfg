SPECIFICATION Spec
CONSTANTS
    Core = {0}
    Event = {0, 1}
    Elw = {"wait", "wait_clear"}
    ResumeCycles = 3
    EvtMasks <- MC_EvtMasks
    IrqMasks <- MC_IrqMasks
    TriggerEvents = {0}
    InEvents = {0, 1}
INVARIANTS
    AnswersOnlyParkedReads
    NoLostWakeup
PROPERTIES
    EventWakes
    IrqWakes
    NoEventDropped
