\* Anything may be interrupted, the system expunges at any time, the chip may fail.
CONSTANTS
    c1 = c1
    c2 = c2
    c3 = c3
    Client = {c1, c2, c3}
    SharedUsers = {c3}
    Forbid = FALSE
    SystemExpunge = "any time"
    ChipMayFail = TRUE
SYMMETRY Exclusives
SPECIFICATION Spec
INVARIANTS
    CountMatches
    AloneUnlessShared
PROPERTIES
    SharedKept
