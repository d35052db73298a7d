SPECIFICATION Spec
CONSTANTS
    NFrames = 12
    NThreads = 3
    NPages = 3
    KSTACK_PAGES = 2
    Abilities = {"clone", "sbrk", "syscall", "exec", "spawn", "timeout"}
    MaxOps = 4
    MaxForks = 2
INVARIANTS Isolated RefsExact FramesKept NoStaleWrite
CHECK_DEADLOCK FALSE
