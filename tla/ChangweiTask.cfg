SPECIFICATION Spec
CONSTANTS
    User = {boss, mate}
    Owner = boss
    Nobody = Nobody
    ma = ma
    mb = mb
    Module <- MCModules
    Pages = 2
    Unreadable = {2}
    OcrBatch = 1
    MaxRev = 3
    MaxFaults = 1
INVARIANTS TypeOK VersionIsContent
PROPERTIES ConfirmedIsSeen NoLostText RecognisedStays
CHECK_DEADLOCK FALSE
SYMMETRY Swap
