---------------------------- MODULE SerialDevice ----------------------------
(***************************************************************************)
(* What pl2303.device promises the tasks that use it, as seen by them and  *)
(* on the serial line: every request is answered once; writes leave in the *)
(* order in which they were accepted, one at a time, and are answered with *)
(* what became of them; a read is answered with bytes that have come in,   *)
(* and each byte that has come in is given to one read.                    *)
(***************************************************************************)
EXTENDS Naturals, Sequences

CONSTANTS
    Req,         \* the requests
    Nobody,      \* not a request
    Lengths,     \* numbers of bytes asked for by a read, a subset of Nat
    Burst        \* largest number of bytes that come in together, a natural number

VARIABLES
    status,      \* "idle", "pending" or "answered"
    kind,        \* what an unanswered or answered request asks for
    want,        \* bytes a read asks for
    result,      \* the answer
    unsent,      \* accepted writes that have not left yet, oldest first
    wire,        \* the write that is leaving, or Nobody
    outcome,     \* what became of a write
    available    \* bytes that have come in and have not been read

vars == <<status, kind, want, result, unsent, wire, outcome, available>>

Kinds == {"none", "read", "write", "params", "other"}

Init ==
    /\ status = [r \in Req |-> "idle"] /\ kind = [r \in Req |-> "none"]
    /\ want = [r \in Req |-> 0] /\ result = [r \in Req |-> "none"]
    /\ unsent = <<>> /\ wire = Nobody
    /\ outcome = [r \in Req |-> "none"] /\ available = 0

\* A task hands in request r.
Accept(r, k, n) ==
    /\ status[r] = "idle"
    /\ status' = [status EXCEPT ![r] = "pending"]
    /\ kind' = [kind EXCEPT ![r] = k]
    /\ want' = [want EXCEPT ![r] = n]
    /\ unsent' = IF k = "write" THEN Append(unsent, r) ELSE unsent
    /\ UNCHANGED <<result, wire, outcome, available>>

\* The oldest write starts to leave.
Transmit ==
    /\ wire = Nobody /\ unsent # <<>>
    /\ wire' = Head(unsent)
    /\ unsent' = Tail(unsent)
    /\ UNCHANGED <<status, kind, want, result, outcome, available>>

\* The write has left, or failed to.
Finish(o) ==
    /\ wire # Nobody
    /\ outcome' = [outcome EXCEPT ![wire] = o]
    /\ wire' = Nobody
    /\ UNCHANGED <<status, kind, want, result, unsent, available>>

Answer(r, e) ==
    /\ status[r] = "pending"
    /\ status' = [status EXCEPT ![r] = "answered"]
    /\ result' = [result EXCEPT ![r] = e]
    /\ UNCHANGED <<kind, want, unsent, wire, outcome>>

AnswerWrite(r) ==
    /\ kind[r] = "write" /\ outcome[r] # "none"
    /\ Answer(r, IF outcome[r] = "ok" THEN "ok" ELSE "usb")
    /\ UNCHANGED available

\* As many bytes as the read asks for are there; it takes them.
AnswerRead(r) ==
    /\ kind[r] = "read" /\ want[r] <= available
    /\ available' = available - want[r]
    /\ Answer(r, "ok")

AnswerOther(r) ==
    /\ kind[r] \in {"params", "other"}
    /\ Answer(r, IF kind[r] = "params" THEN "ok" ELSE "nocmd")
    /\ UNCHANGED available

\* Bytes come in; no more are asked for before those that came are read.
Receive(n) ==
    /\ available = 0
    /\ available' = n
    /\ UNCHANGED <<status, kind, want, result, unsent, wire, outcome>>

\* The task takes the answered request back.
Collect(r) ==
    /\ status[r] = "answered"
    /\ status' = [status EXCEPT ![r] = "idle"]
    /\ kind' = [kind EXCEPT ![r] = "none"]
    /\ want' = [want EXCEPT ![r] = 0]
    /\ result' = [result EXCEPT ![r] = "none"]
    /\ outcome' = [outcome EXCEPT ![r] = "none"]
    /\ UNCHANGED <<unsent, wire, available>>

Next ==
    \/ \E r \in Req :
        \/ \E n \in Lengths : Accept(r, "read", n)
        \/ \E k \in {"write", "params", "other"} : Accept(r, k, 0)
        \/ AnswerWrite(r) \/ AnswerRead(r) \/ AnswerOther(r)
        \/ Collect(r)
    \/ Transmit
    \/ \E o \in {"ok", "failed"} : Finish(o)
    \/ \E n \in 1..Burst : Receive(n)

Spec == Init /\ [][Next]_vars
=============================================================================
