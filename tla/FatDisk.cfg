SPECIFICATION Spec
CONSTANTS
    LastCluster = 6
    SlotsPerSec = 3
    SecPerClus = 1
    Names <- TwoNames
    To83 <- Truncate
    DirNames <- OneDir
    Contents <- UpToTwo
    MaxOps = 4
    MaxFaults = 1
    FaultKinds = {"power", "device"}
INVARIANTS NoCrossLink NoLeak ReadsBack
CHECK_DEADLOCK FALSE
