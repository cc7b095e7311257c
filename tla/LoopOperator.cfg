SPECIFICATION Spec
CONSTANTS
    NumSpecs = 1
    n1 = n1
    n2 = n2
    Nodes = {n1}
    AgentNodes = {n1}
    Entry = n1
    NoNode = NoNode
    Edge <- RetryGraph
    Outcomes = {"pass", "timeout"}
    Dispatches = {d1, d2}
    Tools = {t1}
    Schedulers = {sched}
    Ops = {"loop_run", "loop_pause", "retry", "report_blocker", "cron"}
    MaxIterations = 1
    RetryLimit = 0
    AttemptLimit = 1
    MaxAttempts = 2
    MaxRuns = 2
    MaxSecond = 1
    MaxRestarts = 0
SYMMETRY Symmetric
CHECK_DEADLOCK FALSE
INVARIANT RunningRunsOwned
INVARIANT LiveProcessesAwaited
