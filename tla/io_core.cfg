\* Three clients, no AbortIO, one read at a time, reads of one byte.
CONSTANTS
    r1 = r1
    r2 = r2
    r3 = r3
    Free = Free
    Req = {r1, r2, r3}
    Submits = {"read", "write"}
    Quicks = {FALSE}
    ReadLengths = {1}
    OneRead = TRUE
    MaxPacket = 2
    Abortable = {}
    Notes = {}
    MaxNotes = 1
    LineReports = TRUE
    Expunging = "at rest"
SYMMETRY Symmetry3
SPECIFICATION Spec
INVARIANTS
    TypeOK
    NoMisuse
    WriteOwnership
    ReadOwnership
    Custody
    ReplyReflectsTransfer
    OneQueue
PROPERTIES
    WriteOrder
    ReplyIsFinal
    NoInputDiscarded
    DeviceKept
