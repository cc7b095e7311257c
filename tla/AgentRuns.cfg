SPECIFICATION FairSpec
CONSTANTS
    Tasks = {t1, t2}
    Calls = {c1}
    RunIds = {r1, r2}
    NoRun = NoRun
    MaxRetries = 1
CHECK_DEADLOCK FALSE
INVARIANT TypeOK
INVARIANT OneUnfinishedRun
INVARIANT InFlightHeld
PROPERTY HoldsLock
PROPERTY ChainEnds
PROPERTY LockFrees
