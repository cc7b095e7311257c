SPECIFICATION Spec
CONSTANTS
    NumSpecs = 1
    n1 = n1
    n2 = n2
    Nodes = {n1, n2}
    AgentNodes = {n1}
    Entry = n1
    NoNode = NoNode
    Edge <- ReviewGraph
    Outcomes = {"pass", "fail"}
    Dispatches = {d1, d2}
    Tools = {t1}
    Schedulers = {sched}
    Ops = {"loop_run", "autorun", "cancel_autorun", "cron"}
    MaxIterations = 1
    RetryLimit = 0
    AttemptLimit = 2
    MaxAttempts = 3
    MaxRuns = 3
    MaxSecond = 0
    MaxRestarts = 0
CHECK_DEADLOCK FALSE
INVARIANT SingleDriver
