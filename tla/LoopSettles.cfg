SPECIFICATION FairSpec
CONSTANTS
    NumSpecs = 2
    n1 = n1
    n2 = n2
    Nodes = {n1, n2}
    AgentNodes = {n1}
    Entry = n1
    NoNode = NoNode
    Edge <- ReviewGraph
    Outcomes = {"pass", "fail", "silent", "crash", "timeout", "commit"}
    Dispatches = {d1}
    Tools = {t1}
    Schedulers = {}
    Ops = {"loop_run", "crash", "stop"}
    MaxIterations = 1
    RetryLimit = 1
    AttemptLimit = 1
    MaxAttempts = 3
    MaxRuns = 10
    MaxSecond = 0
    MaxRestarts = 1
CHECK_DEADLOCK FALSE
INVARIANT CompletedMeansDone
INVARIANT AttemptsBounded
PROPERTY CompletedStays
PROPERTY LoopSettles
