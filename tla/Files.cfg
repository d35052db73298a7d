SPECIFICATION Spec
CONSTANTS
    NTasks = 3
    NFiles = 2
    MAX_FILE = 2
    Paths <- Tree
    Raws <- Some
    Flags <- ModelFlags
    Seeks <- FromEnd
    Abilities = {"unlink", "dirs", "redirect", "inherit", "kill"}
    MaxCalls = 5
    MaxFull = 1
INVARIANTS NoLostBytes RedirectIntact
CHECK_DEADLOCK FALSE
