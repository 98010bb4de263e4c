SPECIFICATION LiveSpec
CONSTANTS
    Jobs = {j1, j2}
    Hosts = {h1}
    Nobody = Nobody
    Slots = 2
    MaxPages = 2
    MaxQueue = 1
PROPERTIES
    CancelledCallsReturn
    CallsReturn
CHECK_DEADLOCK FALSE
