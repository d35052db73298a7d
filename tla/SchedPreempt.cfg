SPECIFICATION Spec
CONSTANTS
    NCpus = 2
    MaxTasks = 5
    NDaemons = 0
    LogSize = 5
    MaxPid = 6
    MaxExec = 1
    MaxKeys = 0
    Signals = {9, 15}
    Workload <- PreemptCalls
INVARIANT NoDoubleRun
