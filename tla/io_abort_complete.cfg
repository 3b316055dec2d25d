\* One AbortIO may be called on each request, also on one that has been answered.
CONSTANTS
    r1 = r1
    r2 = r2
    r3 = r3
    Free = Free
    Req = {r1, r2}
    Submits = {"read", "write", "params"}
    Quicks = {FALSE}
    ReadLengths = {2}
    OneRead = FALSE
    MaxPacket = 1
    Abortable = {r1, r2}
    Notes = {}
    MaxNotes = 1
    LineReports = FALSE
    Expunging = "any time"
SYMMETRY Symmetry2
SPECIFICATION Spec
PROPERTIES
    CompleteNotAborted
