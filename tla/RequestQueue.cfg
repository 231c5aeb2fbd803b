SPECIFICATION Spec
CONSTANTS
    Req = {q1, q2, q3}
    NoReq = NoReq
    Source = {"chat", "call"}
    MaxResumes = 0
    MaxFaults = 0
SYMMETRY Symmetry
INVARIANTS TypeOK
PROPERTIES TakesTurns PausedNeedsConsent
CHECK_DEADLOCK FALSE
