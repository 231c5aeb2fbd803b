SPECIFICATION Spec
CONSTANTS
    File = {f1}
    Job = {j1, j2, j3}
    NoJob = NoJob
    Batches = 2
    MaxFaults = 2
INVARIANTS TypeOK OneWriter IndexedIsSearchable
PROPERTIES DeletedStaysDeleted ClaimIsResolved
CHECK_DEADLOCK FALSE
