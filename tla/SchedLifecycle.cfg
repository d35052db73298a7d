SPECIFICATION Spec
CONSTANTS
    NCpus = 1
    MaxTasks = 5
    NDaemons = 0
    LogSize = 6
    MaxPid = 6
    MaxExec = 0
    MaxKeys = 0
    Signals = {}
    Workload <- LifecycleCalls
INVARIANTS NoPulledSlot NoStrandedWait NoStrandedJoin GroupDiesTogether
