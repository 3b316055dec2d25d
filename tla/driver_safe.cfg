\* Calls of the managers are not interrupted, the system expunges the device only while the worker waits; every transfer and allocation may fail.
CONSTANTS
    c1 = c1
    c2 = c2
    c3 = c3
    Client = {c1, c3}
    SharedUsers = {c3}
    Forbid = TRUE
    SystemExpunge = "at rest"
    ChipMayFail = TRUE
    Adapters <- AllAdapters
    DebugLevel = 1
    Openers = {"stack", "other"}
SPECIFICATION DriverFairSpec
INVARIANTS
    DriverTypeOK
    HeldIsFreed
    BaseBacked
    MisuseOnlyAfterFailedSetup
    InPlace
    CodeStays
    ChipProgrammed
    CloneAskedOnce
PROPERTIES
    ExpungeEnds
