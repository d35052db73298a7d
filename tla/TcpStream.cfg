SPECIFICATION TimerSpec
CONSTANTS
    Hosts <- TwoHosts
    Apps <- ClientServer
    HostOf <- PlaceOf
    Role <- RoleOf
    ServerOf <- PeerOf
    Writers = {"client"}
    Closers = {"client", "server"}
    Leavers = {}
    NSock = 2
    Mss = 2
    TxCap = 2
    RxCap = 2
    MaxRetries = 1
    SeqMod = 64
    IssStart = 10
    IssStep = 16
    MaxBytes = 2
    MaxNet = 2
    Faults = {"lose", "dup"}
    MaxFaults = 1
    Patient = FALSE
INVARIANTS StreamPrefix TxIsUnacked WindowsAgree 
PROPERTIES TxSettles
CHECK_DEADLOCK FALSE
