\* Fair scheduling, a detach: every command is answered, the detach noticed, no message slept over.
CONSTANTS
    r1 = r1
    r2 = r2
    r3 = r3
    Free = Free
    Req = {r1, r2}
    Submits = {"read", "write"}
    Quicks = {FALSE}
    ReadLengths = {1}
    OneRead = TRUE
    MaxPacket = 1
    Abortable = {}
    Notes = {"detach"}
    MaxNotes = 1
    LineReports = FALSE
    Expunging = "never"
SPECIFICATION FairSpec
INVARIANTS
    NoLostWakeup
PROPERTIES
    WriteAnswered
    ReadAnswered
    DetachNoticed
