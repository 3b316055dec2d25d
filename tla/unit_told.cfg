\* The system expunges the device at any time.
CONSTANTS
    c1 = c1
    c2 = c2
    c3 = c3
    Client = {c1, c2, c3}
    SharedUsers = {c3}
    Forbid = TRUE
    SystemExpunge = "any time"
    ChipMayFail = FALSE
SYMMETRY Exclusives
SPECIFICATION Spec
INVARIANTS
    WorkerTold
