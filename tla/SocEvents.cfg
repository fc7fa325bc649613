SPECIFICATION Spec
CONSTANTS
    Irq = {1, 2}
    Event = {0, 1}
    fifo_irq = 1
    nb_fifo_events = 2
    MaxWaiting = 1
    FcEvent = {0, 1}
    InIrq = {2}
    SwIrq = {2}
    MaxEvents = 4
    MaxInputs = 1
INVARIANTS
    InOrder
    QueuedOnlyWhenFull
    WaitingIsCounted
    WireIsCurrent
    RaisedOrServed
PROPERTIES
    EachTaken
