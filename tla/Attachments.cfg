SPECIFICATION AttachmentSpec
CONSTANTS
    File = {f1}
    Req = {q1, q2}
    Call = {c1, c2, c3}
    NoFile = NoFile
    NoReq = NoReq
INVARIANTS AttachmentsOK ListedHasFile InUseIsKept
SYMMETRY Swap
CHECK_DEADLOCK FALSE
