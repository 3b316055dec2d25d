\* A shared opener comes first, then two exclusive ones.
CONSTANTS
    c1 = c1
    c2 = c2
    c3 = c3
    Client = {c1, c2, c3}
    SharedUsers = {c3}
    Forbid = TRUE
    SystemExpunge = "never"
    ChipMayFail = FALSE
SYMMETRY Exclusives
SPECIFICATION Spec
INVARIANTS
    ExclusiveKept
