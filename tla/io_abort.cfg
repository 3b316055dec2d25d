\* AbortIO at any time, two reads outstanding, reads longer than a transfer, expunge at any time: the model goes on until exec is misused.
CONSTANTS
    r1 = r1
    r2 = r2
    r3 = r3
    Free = Free
    Req = {r1, r2}
    Submits = {"read", "write", "params", "other", "immediate"}
    Quicks = {TRUE, FALSE}
    ReadLengths = {2}
    OneRead = FALSE
    MaxPacket = 1
    Abortable = {r1, r2}
    Notes = {}
    MaxNotes = 1
    LineReports = FALSE
    Expunging = "any time"
SYMMETRY Symmetry2
SPECIFICATION Spec
INVARIANTS
    BufferBounds
    NoLostWakeup
    QuickMeansDone
    Custody
PROPERTIES
    ReplyIsFinal
    HarmlessAbort
