SPECIFICATION Spec
CONSTANTS
    Req = {q1, q2, q3}
    NoReq = NoReq
    Source = {"chat"}
    MaxResumes = 0
    MaxFaults = 0
SYMMETRY Symmetry
INVARIANTS CancelledIsNotRun
CHECK_DEADLOCK FALSE
