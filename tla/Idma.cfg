SPECIFICATION Spec
CONSTANTS
    NbPorts = 2
    req_fifo_depth = 1
    nb_dims = 3
    launch_bubble = 1
    IdMod = 4
    num_ax_in_flight = 2
    meta_fifo_depth = 2
    buffer_depth = 1
    page_size = 2
    nb_write_ctxs = 3
    raw_coupling = TRUE
    Transfers <- MCTransfers
    MaxLaunch = 2
INVARIANTS
    WordsInOrder
    DoneIdTracks
    NothingSleeps
    BusyCovers
PROPERTIES
    AllDone
