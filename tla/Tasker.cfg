SPECIFICATION FairSpec
CONSTANTS
    MaxTask = 2
    Key = {k1}
    NoKey = NoKey
    Worker = {w1}
    NoTask = NoTask
    MaxTerminal = 1
    MaxFaults = 2
    MaxStarts = 1
INVARIANTS TypeOK RegistryIsTrue EarlyCancelNeverSucceeds
PROPERTIES EveryRowEnds
CHECK_DEADLOCK FALSE
