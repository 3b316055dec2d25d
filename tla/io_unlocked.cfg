\* Two writes, AbortIO of either while the worker serves the reply port.
CONSTANTS
    r1 = r1
    r2 = r2
    r3 = r3
    Free = Free
    Req = {r1, r2}
    Submits = {"read", "write"}
    Quicks = {FALSE}
    ReadLengths = {1}
    OneRead = TRUE
    MaxPacket = 1
    Abortable = {r1, r2}
    Notes = {}
    MaxNotes = 1
    LineReports = FALSE
    Expunging = "never"
SYMMETRY Symmetry2
SPECIFICATION Spec
INVARIANTS
    ListsUnderMutex
