SPECIFICATION Spec
CONSTANTS
    NumSpecs = 1
    n1 = n1
    n2 = n2
    Nodes = {n1, n2}
    AgentNodes = {n1}
    Entry = n1
    NoNode = NoNode
    Edge <- ReviewGraph
    Outcomes = {"pass", "timeout"}
    Dispatches = {d1}
    Tools = {t1}
    Schedulers = {}
    Ops = {"loop_run", "complete_node"}
    MaxIterations = 1
    RetryLimit = 0
    AttemptLimit = 1
    MaxAttempts = 2
    MaxRuns = 2
    MaxSecond = 0
    MaxRestarts = 0
CHECK_DEADLOCK FALSE
PROPERTY VerdictStays
