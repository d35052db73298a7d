SPECIFICATION LiveSpec
CONSTANTS
    NCpus = 1
    MaxTasks = 5
    NDaemons = 1
    LogSize = 5
    MaxPid = 5
    MaxExec = 0
    MaxKeys = 1
    Signals = {}
    Workload <- LiveCalls
INVARIANT TypeOK
PROPERTIES NeverRunsBlocked ZombiesReaped ReadyRuns SleepEnds
