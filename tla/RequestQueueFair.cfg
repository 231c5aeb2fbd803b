SPECIFICATION FairSpec
CONSTANTS
    Req = {q1, q2}
    NoReq = NoReq
    Source = {"chat"}
    MaxResumes = 1
    MaxFaults = 1
PROPERTIES QueueMoves
CHECK_DEADLOCK FALSE
