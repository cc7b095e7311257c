SPECIFICATION FairSpec
CONSTANTS
    NumSpecs = 2
    n1 = n1
    n2 = n2
    Nodes = {n1, n2}
    AgentNodes = {n1}
    Entry = n1
    NoNode = NoNode
    Edge <- ReviewGraph
    Outcomes = {"pass", "fail", "crash"}
    Dispatches = {d1}
    Tools = {t1}
    Schedulers = {}
    Ops = {"loop_run", "loop_pause", "retry", "skip"}
    MaxIterations = 1
    RetryLimit = 1
    AttemptLimit = 1
    MaxAttempts = 2
    MaxRuns = 7
    MaxSecond = 0
    MaxRestarts = 0
CHECK_DEADLOCK FALSE
INVARIANT NodeBudgetHeld
INVARIANT SpecsInOrder
PROPERTY PauseStops
