SPECIFICATION LiveSpec
CONSTANTS
    Cap = 3
    Bytes = {0, 1, 2}
    NPipes = 1
    NTasks = 3
    MaxStages = 3
    MaxRuns = 2
    MaxBytes = 1
    Messages <- Four
    Chunk = 2
    ReadLens = {1, 3}
    Abilities = {"fork"}
INVARIANTS StreamIntact RefsMatch
PROPERTY PipelineEnds EofIsFinal
CHECK_DEADLOCK FALSE
