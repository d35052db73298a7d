SPECIFICATION Spec
CONSTANTS
    Cap = 1
    Bytes = {0, 1}
    NPipes = 2
    NTasks = 2
    MaxStages = 2
    MaxRuns = 2
    MaxBytes = 0
    Messages <- OneByte
    Chunk = 1
    ReadLens = {1}
    Abilities = {"clone", "pipe", "kill", "spawnfail", "background"}
INVARIANT RefsCover
CHECK_DEADLOCK FALSE
