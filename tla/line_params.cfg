\* Every rate and chip; a chip of unknown type accepts no request, so it may stop.
CONSTANTS
    Chips = {"H", "HX", "TA", "TB", "HXD", "HXN", "UNKNOWN"}
    Bauds <- AllRates
    Bits = {4, 8}
    Stops = {0, 1, 2}
    Parities <- SomeParities
    PowerOn <- PowerOnCodings
    DebugLevel = 1
    MaxQueued = 1
SPECIFICATION Spec
CHECK_DEADLOCK FALSE
INVARIANTS
    TypeOK
    QueuedIsEncodable
    RateWithinOnePercent
    BaseMatchesChip
    ParityKept
