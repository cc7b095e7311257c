SPECIFICATION FairSpec
CONSTANTS
    NumSpecs = 1
    n1 = n1
    n2 = n2
    Nodes = {n1}
    AgentNodes = {n1}
    Entry = n1
    NoNode = NoNode
    Edge <- RetryGraph
    Outcomes = {"pass", "fail"}
    Dispatches = {d1}
    Tools = {t1}
    Schedulers = {sched}
    Ops = {"loop_pause", "loop_reset", "autorun", "cron", "crash"}
    MaxIterations = 1
    RetryLimit = 0
    AttemptLimit = 2
    MaxAttempts = 2
    MaxRuns = 2
    MaxSecond = 0
    MaxRestarts = 1
CHECK_DEADLOCK FALSE
PROPERTY AutorunServed
