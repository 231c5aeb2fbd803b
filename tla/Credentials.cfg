SPECIFICATION Spec
CONSTANTS
    User = {u1, u2}
    Request = {k1}
    Session = {s1}
    Call = {c1, c2}
    Setup = Setup
    NoUser = NoUser
INVARIANTS TypeOK OneFounder KeyLife
PROPERTIES ApprovalIsFinal
CHECK_DEADLOCK FALSE
