SPECIFICATION Spec
CONSTANTS
    Jobs = {j1}
    Hosts = {h1}
    Nobody = Nobody
    Slots = 1
    MaxPages = 1
    MaxQueue = 1
SYMMETRY Symmetry
PROPERTIES
    CancelledJobSaysSo
CHECK_DEADLOCK FALSE
