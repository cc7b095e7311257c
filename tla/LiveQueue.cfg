SPECIFICATION FairSpec
CONSTANTS
    Specs = {s1, s2}
    Calls = {c1}
    MaxReopens = 1
    NoSpec = NoSpec
CHECK_DEADLOCK FALSE
INVARIANT TypeOK
PROPERTY LivePickup
PROPERTY QueueSettles
PROPERTY CompletedOverDone
PROPERTY ResumeReturns
