SPECIFICATION Spec
CONSTANTS
    NumSpecs = 1
    n1 = n1
    n2 = n2
    Nodes = {n1, n2}
    AgentNodes = {n1}
    Entry = n1
    NoNode = NoNode
    Edge <- ReviewGraph
    Outcomes = {"pass", "crash", "timeout"}
    Dispatches = {d1, d2}
    Tools = {t1}
    Schedulers = {sched}
    Ops = {"loop_run", "cron", "complete_node", "hard_error", "crash"}
    MaxIterations = 1
    RetryLimit = 1
    AttemptLimit = 1
    MaxAttempts = 2
    MaxRuns = 3
    MaxSecond = 0
    MaxRestarts = 1
SYMMETRY Symmetric
CHECK_DEADLOCK FALSE
INVARIANT TypeOK
INVARIANT SingleDriver
INVARIANT OneLiveProcess
