SPECIFICATION FairSpec
CONSTANTS
    Top = {t1}
    Sub = {c1}
    Owner = {o1, o2, o3}
    NoRun = NoRun
    NoOwner = NoOwner
    LeaseTicks = 2
    MaxTries = 2
    MaxFaults = 1
INVARIANTS TypeOK EndIsTrue EndAfterCleanup
PROPERTIES PendingIsRun EndIsTold
CHECK_DEADLOCK FALSE
