\* Two clients may each keep a CMD_READ outstanding, nothing else unusual: nobody aborts, nothing is expunged.
CONSTANTS
    r1 = r1
    r2 = r2
    r3 = r3
    Free = Free
    Req = {r1, r2}
    Submits = {"read", "write"}
    Quicks = {FALSE}
    ReadLengths = {1}
    OneRead = FALSE
    MaxPacket = 1
    Abortable = {}
    Notes = {}
    MaxNotes = 1
    LineReports = FALSE
    Expunging = "never"
SYMMETRY Symmetry2
SPECIFICATION Spec
INVARIANTS
    SentWhenIdle
