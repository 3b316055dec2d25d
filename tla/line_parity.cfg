\* Every combination of parity flags at one rate.
CONSTANTS
    Chips = {"H", "HX", "TA", "TB", "HXD", "HXN", "UNKNOWN"}
    Bauds = {115200}
    Bits = {8}
    Stops = {1}
    Parities <- AllParities
    PowerOn <- PowerOnCodings
    DebugLevel = 1
    MaxQueued = 1
SPECIFICATION Spec
CHECK_DEADLOCK FALSE
INVARIANTS
    ParityApplied
