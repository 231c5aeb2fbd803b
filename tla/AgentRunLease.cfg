SPECIFICATION Spec
CONSTANTS
    Top = {t1, t2}
    Sub = {c1}
    Owner = {o1, o2, o3}
    NoRun = NoRun
    NoOwner = NoOwner
    LeaseTicks = 1
SYMMETRY Symmetry
INVARIANTS TypeOK OwnershipInv ThreadFence ChildFollowsAttempt EndIsAttemptFact
PROPERTIES FactsAreFinal
CHECK_DEADLOCK FALSE
