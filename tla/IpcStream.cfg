SPECIFICATION LiveSpec
CONSTANTS
    Cap = 2
    Bytes = {0, 1}
    NChans = 2
    MaxMsg = 2
    NTasks = 3
    Keys = {0, 7}
    Programs <- TwoChannels
    Faults = {1}
    MaxDeaths = 1
INVARIANTS NoLostWakeup OneChannelPerKey
PROPERTIES ImplementsStreams SendReturns
