SPECIFICATION Spec
CONSTANTS
    Jobs = {j1, j2}
    Hosts = {h1}
    Nobody = Nobody
    Slots = 2
    MaxPages = 1
    MaxQueue = 1
SYMMETRY Symmetry
PROPERTIES
    DelayBetweenRequests
CHECK_DEADLOCK FALSE
