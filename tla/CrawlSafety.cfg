SPECIFICATION Spec
CONSTANTS
    Jobs = {j1, j2}
    Hosts = {h1}
    Nobody = Nobody
    Slots = 2
    MaxPages = 2
    MaxQueue = 1
SYMMETRY Symmetry
INVARIANTS
    SlotsAccounted
    HostLocksAccounted
    ShutdownFindsRunning
    NoRowLeftRunning
    SuccessMeansComplete
PROPERTIES
    PoolPromise
CHECK_DEADLOCK FALSE
