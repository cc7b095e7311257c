SPECIFICATION FairSpec
CONSTANTS
    la = la
    lb = lb
    Loops <- TwoLoops
    NumMembers = 3
    LoopOf <- TwoAndOne
    MinPass <- OneOfEach
    Watched = {la}
    Cap = 2
    RetryLimit <- FirstRetries
INVARIANT TypeOK
INVARIANT CapHeld
INVARIANT NoProcessOutlives
INVARIANT RowsClosed
PROPERTY QuorumOfAll
PROPERTY Settles
